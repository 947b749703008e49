------------------------------ MODULE Listing -------------------------------
(***************************************************************************)
(* What the page loops of the commands share: a walk that collects rows,   *)
(* its bounds, and a service whose list other clients change between two   *)
(* pages.  PageWalk, NumberedWalk and OffsetWalk add the loops.            *)
(*                                                                         *)
(* A row is its key.  The list never holds a key twice.  The byte bound,   *)
(* a failed request and a page that is not a page are one failure.         *)
(***************************************************************************)
EXTENDS Integers, Sequences, FiniteSets

CONSTANTS
    Keys,       \* rows
    Lists,      \* what the list holds when the walk begins
    MaxItems,   \* the item ceiling (1,000,000; 10,000 of an inventory)
    NoTotal,    \* a page that does not say something
    MaxEdits    \* bound of the model: changes of the list during the walk

\* kind: the loop; limit: the page size asked for; max: --max; pages: the page
\* bound; partial: reaching it is no error; shrink: the last pages ask for no
\* more rows than --max leaves; keyed: rows have keys to compare.
WalkSpecs ==
    [kind : {"skip", "number", "sweep", "offset"}, start : Nat, limit : Nat \ {0},
     max : Nat, pages : Nat \ {0}, partial : BOOLEAN, shrink : BOOLEAN, keyed : BOOLEAN]

Range(s) == {s[i] : i \in 1 .. Len(s)}
NoRepeat(s) == \A i, j \in 1 .. Len(s) : s[i] = s[j] => i = j

ASSUME ListingAssumption ==
    /\ \A l \in Lists : l \in Seq(Keys) /\ NoRepeat(l)
    /\ MaxItems \in Nat \ {0}
    /\ NoTotal \notin Nat \cup BOOLEAN
    /\ MaxEdits \in Nat

VARIABLES
    walk,     \* the walk
    service,  \* the service
    list,     \* its list
    began,    \* its list when the walk began
    rows,     \* the rows collected
    skip,     \* how many rows the next page leaves out
    pages,    \* the pages read
    end,      \* how the walk ended
    inserted, deleted,
    edits

given == <<walk, service, began>>
progress == <<rows, skip, pages, end>>
world == <<list, inserted, deleted, edits>>

Ends == {"none", "done", "atMax", "atPages", "pagination", "limit", "failed"}

ListingTypeOK ==
    /\ walk \in WalkSpecs
    /\ list \in Seq(Keys) /\ NoRepeat(list)
    /\ began \in Lists
    /\ rows \in Seq(Keys)
    /\ skip \in Nat
    /\ pages \in 0 .. walk.pages
    /\ end \in Ends
    /\ inserted \in BOOLEAN /\ deleted \in BOOLEAN
    /\ edits \in 0 .. MaxEdits

-----------------------------------------------------------------------------
(* A page of the list *)

Least(a, b) == IF a < b THEN a ELSE b

\* At most n rows, without the first s when the service heeds that.
Slice(s, n) ==
    LET from == IF service.heeds THEN s ELSE 0
    IN  SubSeq(list, from + 1, Least(Len(list), from + n))

-----------------------------------------------------------------------------
(* The walk *)

UserCap == walk.max # 0 /\ walk.max <= MaxItems
Cap == IF UserCap THEN walk.max ELSE MaxItems
Room == Cap - Len(rows)

\* stop_at_cap
StopAtCap == IF UserCap THEN "atMax" ELSE "limit"

\* Variant of Repeats: keys are only compared within the page.
RepeatsInPage(got) == \E i, j \in 1 .. Len(got) : i # j /\ got[i] = got[j]

\* A key seen before, among the rows looked at: those that fit and one more.
Repeats(got) ==
    \E i \in 1 .. Least(Len(got), Room + 1) :
        got[i] \in Range(rows) \cup Range(SubSeq(got, 1, i - 1))

\* The walk ends without the rows of this page.
Stop(how) == end' = how /\ UNCHANGED rows

\* The rows of a page, one after the other.  No row of it counts when the walk
\* ends with an error.
Take(got, last) ==
    IF walk.keyed /\ Repeats(got) THEN Stop("pagination")
    ELSE /\ rows' = rows \o SubSeq(got, 1, Least(Len(got), Room))
         /\ end' = IF Len(got) > Room THEN StopAtCap
                   ELSE IF last THEN "done"
                   ELSE IF Len(got) = Room THEN StopAtCap
                   ELSE "none"

\* Variant of PagesLeft: off by one.
PagesLeftAndOne == pages <= walk.pages

PagesLeft == pages < walk.pages

\* The page bound: a partial walk, or an error.
OutOfPages ==
    /\ end = "none" /\ ~PagesLeft
    /\ end' = IF walk.partial THEN "atPages" ELSE "limit"
    /\ UNCHANGED <<given, world, rows, skip, pages>>

\* A request fails, a page is not one, or the rows exceed the byte bound.
Fails ==
    /\ end = "none"
    /\ end' = "failed"
    /\ UNCHANGED <<given, world, rows, skip, pages>>

-----------------------------------------------------------------------------
(* Other clients *)

Insert(key, at) ==
    /\ end = "none" /\ edits < MaxEdits
    /\ key \notin Range(list) \cup Range(began) \cup Range(rows)
    /\ at \in 0 .. Len(list)
    /\ list' = SubSeq(list, 1, at) \o <<key>> \o SubSeq(list, at + 1, Len(list))
    /\ inserted' = TRUE /\ edits' = edits + 1
    /\ UNCHANGED <<given, progress, deleted>>

Delete(at) ==
    /\ end = "none" /\ edits < MaxEdits
    /\ at \in 1 .. Len(list)
    /\ list' = SubSeq(list, 1, at - 1) \o SubSeq(list, at + 1, Len(list))
    /\ deleted' = TRUE /\ edits' = edits + 1
    /\ UNCHANGED <<given, progress, inserted>>

-----------------------------------------------------------------------------
ListingInit ==
    /\ list \in Lists /\ began = list
    /\ rows = <<>> /\ skip = walk.start /\ pages = 0
    /\ end = "none"
    /\ inserted = FALSE /\ deleted = FALSE
    /\ edits = 0

\* What a walk owes a list: its rows from the start on.
Due(l) == SubSeq(l, walk.start + 1, Len(l))

Stable == ~inserted /\ ~deleted

=============================================================================

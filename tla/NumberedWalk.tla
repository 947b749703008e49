---------------------------- MODULE NumberedWalk ----------------------------
(***************************************************************************)
(* The two loops over numbered pages of the DLP service: that of the       *)
(* listings (dlp/walk.rs walk_bounded, kind "number"), which takes what    *)
(* the service tells of its pages as it comes, and the inventory sweep of  *)
(* backup and restore (dlp/backup.rs Sweep::accept, kind "sweep"), which   *)
(* refuses pages that contradict each other.                               *)
(*                                                                         *)
(* A service tells what it knows of its list when it sends the page.  The  *)
(* two spellings of a field, fields of a wrong type and row ids that are   *)
(* no ids are not modelled; `first`, `empty`, `offset` and                 *)
(* `numberOfElements` restate the number and the rows.                     *)
(***************************************************************************)
EXTENDS Listing

CONSTANTS NumberedWalks, NumberedServices

\* size: the most rows it sends in a page; tells: the fields it sends with
\* one; last: what it says of the last page; heeds: it heeds `page`.
NumberedServiceKinds ==
    [size : Nat \ {0}, tells : SUBSET {"size", "pages", "elements", "number"},
     last : {"told", "never", "none"}, heeds : BOOLEAN]

\* A sweep has no --max.
ASSUME NumberedWalkAssumption ==
    /\ NumberedWalks \subseteq
        {w \in WalkSpecs : /\ w.kind \in {"number", "sweep"} /\ w.start = 0
                           /\ w.kind = "sweep" => w.max = 0}
    /\ NumberedServices \subseteq NumberedServiceKinds

VARIABLE told   \* what pages told a sweep: its page size, page and row counts

Untold == [size |-> NoTotal, pages |-> NoTotal, elements |-> NoTotal]

NumberedWalkTypeOK ==
    /\ walk.kind \in {"number", "sweep"} =>
        walk \in NumberedWalks /\ service \in NumberedServices
    /\ told \in [DOMAIN Untold -> Nat \cup {NoTotal}]

NumberedWalkInit == walk \in NumberedWalks /\ service \in NumberedServices

-----------------------------------------------------------------------------
(* The service *)

\* Pages of size rows for n rows.
PagesOf(n, size) == (n + size - 1) \div size

\* A page: the rows, and the fields the service sends.
Sent ==
    LET size == Least(walk.limit, service.size)
        count == PagesOf(Len(list), size)
        number == IF service.heeds THEN pages ELSE 0
        Told(field, value) == IF field \in service.tells THEN value ELSE NoTotal
    IN  [rows |-> Slice(pages * size, size),
         size |-> Told("size", size),
         pages |-> Told("pages", count),
         elements |-> Told("elements", Len(list)),
         number |-> Told("number", number),
         last |-> CASE service.last = "told" -> number + 1 >= count
                    [] service.last = "never" -> FALSE
                    [] service.last = "none" -> NoTotal]

Known(value, default) == IF value # NoTotal THEN value ELSE default

-----------------------------------------------------------------------------
(* A listing *)

\* Variant of IsLast: a page below the size asked for is the last one.
IsLastWhenShort(page) ==
    Known(page.last,
          IF page.pages # NoTotal THEN pages + 1 >= page.pages
          ELSE Len(page.rows) < walk.limit)

\* A page is the last one when it says so, by the page count, or when it has
\* fewer rows than a page has.
IsLast(page) ==
    Known(page.last,
          IF page.pages # NoTotal THEN pages + 1 >= page.pages
          ELSE Len(page.rows) < Known(page.size, walk.limit))

NumberedPage ==
    /\ walk.kind = "number"
    /\ end = "none" /\ PagesLeft
    /\ IF Sent.rows = <<>> /\ ~IsLast(Sent)
       THEN Stop("pagination")
       ELSE Take(Sent.rows, IsLast(Sent))
    /\ pages' = pages + 1
    /\ UNCHANGED <<given, world, skip, told>>

-----------------------------------------------------------------------------
(* An inventory sweep *)

\* What is known after a page; without a size, a page has as many rows as it
\* was asked for.
Learned(page) ==
    [size |-> Known(page.size, Known(told.size, walk.limit)),
     pages |-> Known(page.pages, told.pages),
     elements |-> Known(page.elements, told.elements)]

\* A field of a page does not contradict an earlier page.
Agrees(now, before) == now = NoTotal \/ before = NoTotal \/ now = before

Swept(page) == Len(rows) + Len(page.rows)

\* Variant of SameCounts: only the page count is compared.
SamePageCount(page) == Agrees(page.pages, told.pages)

\* The counts are those of the earlier pages.
SameCounts(page) ==
    Agrees(page.pages, told.pages) /\ Agrees(page.elements, told.elements)

\* The counts agree with each other, and with the place and the rows of a page.
CountsFit(page, now) ==
    /\ now.pages # NoTotal /\ now.elements # NoTotal =>
        now.pages = PagesOf(now.elements, now.size)
    /\ now.pages # NoTotal =>
        /\ pages < now.pages \/ (pages = 0 /\ now.pages = 0)
        /\ now.pages = 0 => page.rows = <<>>
    /\ now.elements # NoTotal =>
        Len(page.rows) =
            Least(now.size, IF now.elements > pages * now.size
                            THEN now.elements - pages * now.size ELSE 0)

\* Whether the counts say that a page is the last one.
ExpectedLast(page, now) ==
    IF now.pages # NoTotal THEN pages + 1 >= now.pages
    ELSE IF now.elements # NoTotal THEN Swept(page) = now.elements
    ELSE NoTotal

SweptLast(page, now) ==
    Known(page.last, Known(ExpectedLast(page, now), Len(page.rows) < now.size))

\* A page other than the last is full, the last has rows, and with it the
\* count of rows is reached.
LastAgrees(page, now) ==
    LET last == SweptLast(page, now)
    IN  /\ Agrees(page.last, ExpectedLast(page, now))
        /\ now.pages # NoTotal /\ now.pages > 0 =>
            IF last THEN page.rows # <<>> ELSE Len(page.rows) = now.size
        /\ last /\ now.elements # NoTotal => Swept(page) = now.elements

\* Sweep::accept: the page is refused, or all its rows are taken.
SweepPage ==
    /\ walk.kind = "sweep"
    /\ end = "none" /\ PagesLeft
    /\ LET now == Learned(Sent)
       IN  /\ told' = now
           /\ IF ~Agrees(Sent.size, told.size) THEN Stop("pagination")
              ELSE IF Swept(Sent) > MaxItems THEN Stop("limit")
              ELSE IF \/ Sent.number \notin {NoTotal, pages}
                      \/ ~SameCounts(Sent)
                      \/ ~CountsFit(Sent, now)
                      \/ Repeats(Sent.rows)
                      \/ ~LastAgrees(Sent, now)
              THEN Stop("pagination")
              ELSE IF SweptLast(Sent, now)
              THEN rows' = rows \o Sent.rows /\ end' = "done"
              ELSE IF Sent.rows = <<>> THEN Stop("pagination")
              ELSE rows' = rows \o Sent.rows /\ end' = "none"
    /\ pages' = pages + 1
    /\ UNCHANGED <<given, world, skip>>

-----------------------------------------------------------------------------
\* The service tells where its pages end, or fills them.
NumberedTellsEnd ==
    /\ service.heeds
    /\ \/ service.last # "none"
       \/ "pages" \in service.tells
       \/ "size" \in service.tells
       \/ service.size >= walk.limit
       \/ walk.kind = "sweep" /\ "elements" \in service.tells

\* The service never denies the last page and, in a sweep, has full pages.
NumberedSound ==
    /\ service.heeds
    /\ service.last # "never"
    /\ walk.kind = "sweep" => "size" \in service.tells \/ service.size >= walk.limit

=============================================================================

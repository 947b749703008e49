------------------------------ MODULE PageWalk ------------------------------
(***************************************************************************)
(* The skip/limit page loop of most multi-page listings (walk.rs           *)
(* walk_with).  What the service may do is taken from what the walk is     *)
(* written to survive: pages smaller than asked for, no total, a total     *)
(* that is only a cap, and a service that ignores `skip`, which does not   *)
(* overflow.                                                               *)
(***************************************************************************)
EXTENDS Listing

CONSTANTS
    PageWalks,     \* the walks a command asks for
    PageServices,  \* the services it may meet
    CountCap       \* where a service stops counting

\* count: what the total of a page is; size: the most rows it sends in one;
\* heeds: it heeds `skip`.
PageServiceKinds == [count : {"exact", "none", "capped"}, size : Nat \ {0}, heeds : BOOLEAN]

ASSUME PageWalkAssumption ==
    /\ PageWalks \subseteq {w \in WalkSpecs : w.kind = "skip"}
    /\ PageServices \subseteq PageServiceKinds
    /\ CountCap \in Nat

VARIABLE capped   \* a page said that its total is a cap

PageWalkTypeOK ==
    /\ walk.kind = "skip" => walk \in PageWalks /\ service \in PageServices
    /\ capped \in BOOLEAN

PageWalkInit == walk \in PageWalks /\ service \in PageServices

-----------------------------------------------------------------------------
(* The service *)

\* How many rows the next page is asked for.
Asked == IF walk.shrink THEN Least(walk.limit, Room) ELSE walk.limit

Answer == Slice(skip, Least(Asked, service.size))

\* Whether a page says its total is a cap: when it is, on the first page, and
\* on a later one or not.
Flags ==
    IF service.count = "capped" /\ Len(list) > CountCap
    THEN IF capped THEN BOOLEAN ELSE {TRUE}
    ELSE {FALSE}

Total ==
    CASE service.count = "exact" -> Len(list)
      [] service.count = "none" -> NoTotal
      [] service.count = "capped" -> Least(Len(list), CountCap)

-----------------------------------------------------------------------------
(* The walk *)

\* Variant of More: a page below the limit ends the walk, whatever the total.
MoreWhenFull(got, total) == Len(got) >= Asked

\* Whether there is a page after one with these rows.
More(got, total) ==
    IF total # NoTotal THEN skip + Len(got) < total ELSE Len(got) >= Asked

\* An empty page although the total says that rows follow.
MissesRows(total) == total # NoTotal /\ skip < total

\* One iteration: a page, and its rows.
Page(flagged) ==
    /\ walk.kind = "skip"
    /\ end = "none" /\ PagesLeft
    /\ flagged \in Flags
    /\ LET got == Answer
           total == IF capped \/ flagged THEN NoTotal ELSE Total
       IN  /\ IF got = <<>>
              THEN Stop(IF MissesRows(total) THEN "pagination" ELSE "done")
              ELSE Take(got, ~More(got, total))
           /\ skip' = skip + Len(got)
    /\ capped' = (capped \/ flagged)
    /\ pages' = pages + 1
    /\ UNCHANGED <<given, world>>

\* The service sends what a walk needs to find the end: a count, or full
\* pages.
PageTellsEnd ==
    /\ service.heeds
    /\ \/ service.count = "exact"
       \/ service.size >= walk.limit
       \/ service.count = "capped" /\ Len(list) <= CountCap

=============================================================================

----------------------------- MODULE OffsetWalk -----------------------------
(***************************************************************************)
(* The inventory walk of profile backup and restore                        *)
(* (runtime/transfer/plan.rs OffsetWalk, driven by                         *)
(* commands/profile_backup.rs inventory): each page names the offset of    *)
(* the next.  A row that is seen twice is only noticed afterwards, by      *)
(* latest_profiles, and only for profiles.                                 *)
(***************************************************************************)
EXTENDS Listing

CONSTANTS OffsetWalks, OffsetServices

\* size: the most rows it sends in a page; next: when it names a next offset;
\* heeds: it heeds `offset`.
OffsetServiceKinds == [size : Nat \ {0}, next : {"more", "always"}, heeds : BOOLEAN]

\* keyed: an inventory of profiles, not of topics.
ASSUME OffsetWalkAssumption ==
    /\ OffsetWalks \subseteq {w \in WalkSpecs : w.kind = "offset" /\ w.start = 0}
    /\ OffsetServices \subseteq OffsetServiceKinds

OffsetWalkTypeOK ==
    walk.kind = "offset" => walk \in OffsetWalks /\ service \in OffsetServices

OffsetWalkInit == walk \in OffsetWalks /\ service \in OffsetServices

-----------------------------------------------------------------------------
OffsetPageRows == Slice(skip, Least(walk.limit, service.size))

\* The offset after a page, 0 at the end of the list.
NextOffset(got) ==
    IF service.next = "always" \/ skip + Len(got) < Len(list)
    THEN skip + Len(got) ELSE 0

\* Variant of RepeatedRecords: only the last record is compared with others.
LastIsRepeated(all) ==
    walk.keyed /\ \E i \in 1 .. Len(all) - 1 : all[i] = all[Len(all)]

\* latest_profiles: a record is in the inventory twice.
RepeatedRecords(all) == walk.keyed /\ ~NoRepeat(all)

\* OffsetWalk::accept, and the check of the finished inventory.
OffsetPage ==
    /\ walk.kind = "offset"
    /\ end = "none"
    /\ LET got == OffsetPageRows
           all == rows \o got
           next == NextOffset(got)
       IN  IF Len(all) > MaxItems THEN Stop("limit") /\ UNCHANGED skip
           ELSE IF next = 0
           THEN /\ rows' = all
                /\ end' = IF RepeatedRecords(all) THEN "pagination" ELSE "done"
                /\ UNCHANGED skip
           ELSE IF got = <<>> \/ next <= skip THEN Stop("pagination") /\ UNCHANGED skip
           ELSE IF pages + 1 >= walk.pages THEN Stop("limit") /\ UNCHANGED skip
           ELSE rows' = all /\ skip' = next /\ end' = "none"
    /\ pages' = pages + 1
    /\ UNCHANGED <<given, world>>

OffsetTellsEnd == service.heeds

\* The service ends its list with offset 0.
OffsetSound == service.heeds /\ service.next = "more"

=============================================================================

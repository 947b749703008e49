----------------------------- MODULE ListWalks ------------------------------
(* One walk of a listing, of any kind, against a list that changes meanwhile. *)
EXTENDS PageWalk, NumberedWalk, OffsetWalk

vars == <<given, progress, world, capped, told>>

TypeOK ==
    /\ ListingTypeOK
    /\ PageWalkTypeOK
    /\ NumberedWalkTypeOK
    /\ OffsetWalkTypeOK

Init ==
    /\ PageWalkInit \/ NumberedWalkInit \/ OffsetWalkInit
    /\ ListingInit
    /\ capped = FALSE
    /\ told = Untold

Step ==
    \/ (\E flagged \in BOOLEAN : Page(flagged)) /\ UNCHANGED told
    \/ (NumberedPage \/ SweepPage) /\ UNCHANGED capped
    \/ OffsetPage /\ UNCHANGED <<capped, told>>

Around ==
    /\ \/ OutOfPages
       \/ Fails
       \/ \E key \in Keys, at \in 0 .. Len(list) : Insert(key, at)
       \/ \E at \in 1 .. Len(list) : Delete(at)
    /\ UNCHANGED <<capped, told>>

Next == Step \/ Around

Spec == Init /\ [][Next]_vars

-----------------------------------------------------------------------------
(* Properties *)

\* The service sends what the walk needs to find the end.
TellsEnd ==
    CASE walk.kind = "skip" -> PageTellsEnd
      [] walk.kind \in {"number", "sweep"} -> NumberedTellsEnd
      [] walk.kind = "offset" -> OffsetTellsEnd

\* The service contradicts nothing the walk checks.
Sound ==
    CASE walk.kind = "skip" -> service.heeds
      [] walk.kind \in {"number", "sweep"} -> NumberedSound
      [] walk.kind = "offset" -> OffsetSound

\* A list that does not change is read whole, in order and without gaps: a
\* complete walk has every row from its start on, a walk cut at --max exactly
\* the first of them, whatever page sizes, capped counts, shrunk last pages
\* and missing page counts do to the page boundaries; and a service that
\* contradicts nothing is never reported as broken.
CompleteWhenStable ==
    /\ Stable /\ Sound => end # "pagination"
    /\ Stable /\ TellsEnd =>
        /\ end = "done" => rows = Due(list)
        /\ end = "atMax" => rows = SubSeq(Due(list), 1, walk.max) /\ Len(rows) = walk.max

\* What other clients do to the list meanwhile never shows up as a finished
\* listing with a row twice.  Rows they add hide none that was there all the
\* time: the walk has each of these once, or it fails because a shifted row is
\* seen again.  Rows they remove hide none from a sweep that was told how many
\* rows there are, unless others are added to keep that number.
EditsHideNothing ==
    walk.keyed /\ end = "done" =>
        /\ NoRepeat(rows)
        /\ ~deleted /\ TellsEnd => Range(Due(began)) \subseteq Range(rows)
        /\ /\ walk.kind = "sweep" /\ "elements" \in service.tells
           /\ ~(inserted /\ deleted)
           => Range(began) \cap Range(list) \subseteq Range(rows)

=============================================================================

---------------------------- MODULE BulkPromise ----------------------------
(***************************************************************************)
(* What a bulk-scan job promises about each of its prompts, whatever       *)
(* happens to the process, the disk or the network: a prompt is in the     *)
(* hands of the service at most once.  `life` is what can be relied on     *)
(* after a power loss; `accepted` is what the service did.                 *)
(*                                                                         *)
(*   unsent --> inFlight --> known --> done                                *)
(*     ^          |  \                                                     *)
(*     +--refused-+   +--> doubt                                           *)
(*                                                                         *)
(* Prompts move independently, any number of them in one step.             *)
(***************************************************************************)
EXTENDS Naturals

CONSTANT Items

VARIABLES life, accepted

Lives == {"unsent", "inFlight", "doubt", "known", "done"}

TypeOK ==
    /\ life \in [Items -> Lives]
    /\ accepted \in [Items -> {0, 1}]

Init ==
    /\ life = [i \in Items |-> "unsent"]
    /\ accepted = [i \in Items |-> 0]

\* One prompt's step.  The service may accept it while it is in flight or in
\* doubt; only a prompt it did not accept is released to be sent again, and
\* only one it accepted gets a receipt or a result.
Move(i) ==
    \/ /\ life[i] = "unsent" /\ life'[i] = "inFlight"
       /\ accepted'[i] = accepted[i]
    \/ /\ life[i] \in {"inFlight", "doubt"} /\ life'[i] = life[i]
       /\ accepted[i] = 0 /\ accepted'[i] = 1
    \/ /\ life[i] = "inFlight" /\ life'[i] = "unsent"
       /\ accepted[i] = 0 /\ accepted'[i] = 0
    \/ /\ life[i] = "inFlight" /\ life'[i] = "doubt"
       /\ accepted'[i] = accepted[i]
    \/ /\ life[i] \in {"inFlight", "known"} /\ life'[i] \in {"known", "done"}
       /\ accepted[i] = 1 /\ accepted'[i] = 1

Stay(i) == life'[i] = life[i] /\ accepted'[i] = accepted[i]

Next ==
    /\ life' \in [Items -> Lives]
    /\ accepted' \in [Items -> {0, 1}]
    /\ \A i \in Items : Move(i) \/ Stay(i)

Spec == Init /\ [][Next]_<<life, accepted>>

=============================================================================

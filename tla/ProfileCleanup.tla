--------------------------- MODULE ProfileCleanup ---------------------------
(***************************************************************************)
(* `runtime profiles cleanup` (commands/profile_cleanup.rs): list every    *)
(* revision, show the old ones, ask, list again, delete one by one.        *)
(* `read` is the listing, then the revisions still to delete; `i` counts   *)
(* the deletions that failed.                                              *)
(***************************************************************************)
EXTENDS RuntimeService

\* One of several revisions is the highest.
HasHighest(group) ==
    \E top \in group : group # {top} /\ \A r \in group \ {top} : r.rev < top.rev

\* Variant of Cleanable: an id may occur twice.
CleanableSharedId(listing, n) == HasHighest(Named(listing, n))

\* No other revision that is listed, of any profile, has the id of r.
OwnId(listing, r) == \A q \in listing : q.id = r.id => q = r

\* A name whose old revisions are deleted.
Cleanable(listing, n) ==
    LET group == Named(listing, n)
    IN  HasHighest(group) /\ \A r \in group : OwnId(listing, r)

\* select: what is shown, and what is compared after the question.
Select(listing) ==
    [n \in {m \in ProfileNames : Cardinality(Named(listing, m)) > 1} |->
        IF Cleanable(listing, n) THEN {<<r.id, r.rev>> : r \in Named(listing, n)} ELSE {}]

Old(listing) ==
    {r \in listing : Cleanable(listing, r.name) /\ r \notin Highest(Named(listing, r.name))}

\* The first listing; nothing to delete ends the command.
List(p) ==
    /\ proc[p].pc = "list"
    /\ \/ p \notin signal /\ Old(svc.profiles) = {} /\ Move(p, Exit(p, Ok(NothingChanged)))
       \/ p \notin signal /\ Old(svc.profiles) # {}
          /\ Move(p, IF proc[p].cmd.force
                     THEN [At(p, "delete") EXCEPT !.read = Old(svc.profiles)]
                     ELSE [At(p, "ask") EXCEPT !.read = svc.profiles])
       \/ ReadFails(p)

\* The listing after the confirmation, which must select the same.
ListAgain(p) ==
    /\ proc[p].pc = "relist"
    /\ \/ p \notin signal
          /\ Move(p, IF Select(svc.profiles) = Select(proc[p].read)
                     THEN [At(p, "delete") EXCEPT !.read = Old(svc.profiles)]
                     ELSE Stop(p))
       \/ ReadFails(p)

\* What follows the deletion of r: the next one, or the end.
Deleted(p, r, status) ==
    LET drop == <<"dropProfile", r.id>>
        c == [proc[p] EXCEPT !.replayed = FALSE, !.read = @ \ {r},
                !.i = @ + (IF status = "failed" THEN 1 ELSE 0),
                !.context[drop] = CASE status = "ok" -> "yes"
                                    [] status = "unknown" -> "maybe"
                                    [] OTHER -> @]
    IN  IF status # "unknown" /\ c.read # {} THEN c
        ELSE [c EXCEPT !.pc = "exit",
                       !.result = IF status = "unknown" \/ c.i > 0
                                  THEN Failed("rejected", c.context) ELSE Ok(c.context)]

\* How one deletion ended; a 2xx that cannot be read was applied.
Status(a) ==
    CASE a \in Carried -> "ok" [] a = "unknown" -> "unknown" [] OTHER -> "failed"

\* delete_all, one deletion: highest revision first, after a look at the
\* signals; a cancelled one that was sent is in doubt.
DeleteOne(p) ==
    /\ proc[p].pc = "delete"
    /\ \/ p \in signal /\ Move(p, Interrupt(p))
       \/ \E r \in Latest(proc[p].read) :
            Send(p, [by |-> p, effect |-> <<"dropProfile", r.id>>], "delete",
                 [a \in Answers |->
                   CASE a = "unsent" -> Interrupt(p)
                     [] a = "cancelled" ->
                          Exit(p, Failed(a, [proc[p].context EXCEPT
                                               ![<<"dropProfile", r.id>>] = "maybe"]))
                     [] OTHER -> Deleted(p, r, Status(a))])

=============================================================================

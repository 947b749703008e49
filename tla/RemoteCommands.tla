--------------------------- MODULE RemoteCommands ---------------------------
(***************************************************************************)
(* Commands that change a remote service, several at once: what a read, a  *)
(* write, a signal and the end of a command do.  The service itself is     *)
(* given by Takes(s, m), whether it accepts the write m in state s, and    *)
(* After(s, m), its state after m.                                         *)
(*                                                                         *)
(* A write without an answer stays on the wire: the service may carry it   *)
(* out later, or never.                                                    *)
(***************************************************************************)
EXTENDS RemoteWrite

CONSTANTS Takes(_, _), After(_, _)

VARIABLES
    svc,      \* the service
    wire,     \* writes it may still carry out
    signal,   \* processes a signal has reached
    proc,     \* [pc, replayed, context, committed, result, report, ...]
    did,      \* the effects each process had
    doubt     \* ... and those whose outcome it never learned

world == <<svc, wire, did, doubt>>

At(p, pc) == [proc[p] EXCEPT !.pc = pc, !.replayed = FALSE]
Exit(p, result) == [At(p, "exit") EXCEPT !.result = result]
Set(p, r) == proc' = [proc EXCEPT ![p] = r]

\* A step that writes nothing.
Move(p, r) == Set(p, r) /\ UNCHANGED <<world, signal>>

\* A read that fails: refused, without an answer, or cancelled.
Unread(p) == IF p \in signal THEN Interrupted ELSE {"rejected", "unknown"}

\* attempt: p sends m; then[a] is where an answer leads, `again` where a
\* replay starts.
Send(p, m, again, then) ==
    /\ UNCHANGED signal
    /\ \E a \in Possible(p \in signal) :
         /\ a \in Carried => Takes(svc, m)
         /\ svc' = IF a \in Carried THEN After(svc, m) ELSE svc
         /\ did' = IF a \in Carried THEN [did EXCEPT ![p] = @ \cup {m.effect}] ELSE did
         /\ wire' = IF a \in InDoubt THEN wire \cup {m} ELSE wire
         /\ doubt' = IF a \in InDoubt THEN [doubt EXCEPT ![p] = @ \cup {m.effect}] ELSE doubt
         /\ Set(p, IF Replays(a, proc[p].replayed)
                   THEN [At(p, again) EXCEPT !.replayed = TRUE]
                   ELSE then[a])

\* A write without an answer is carried out, or refused, after all.
Arrive(m) ==
    /\ wire' = wire \ {m}
    /\ svc' = IF Takes(svc, m) THEN After(svc, m) ELSE svc
    /\ did' = IF Takes(svc, m) THEN [did EXCEPT ![m.by] = @ \cup {m.effect}] ELSE did
    /\ UNCHANGED <<signal, proc, doubt>>

Signal(p) ==
    /\ p \notin signal /\ proc[p].pc # "ended"
    /\ signal' = signal \cup {p}
    /\ UNCHANGED <<world, proc>>

\* execute, and the end of the process; `saved` is what "the change was saved"
\* means for the command.
Report(p, saved) ==
    /\ proc[p].pc = "exit"
    /\ Move(p, [At(p, "ended") EXCEPT
                  !.report = Printed(proc[p].result, p \in signal, proc[p].committed,
                                     saved, proc[p].context)])

=============================================================================

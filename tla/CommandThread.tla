--------------------------- MODULE CommandThread ----------------------------
(***************************************************************************)
(* The command thread as the signal thread meets it: a command is the      *)
(* sequence of the parts in which it can block, and then its end (lib.rs   *)
(* execute, finish).  What else it does is the subject of other modules.   *)
(*                                                                         *)
(* The parts: a hidden prompt, a confirmation (input.rs), piped stdin, a   *)
(* body on stdin (dlp/body.rs), a change of the tenant store               *)
(* (tenant_write.rs begin, store/lock.rs), a request, the wait for a       *)
(* red-team scan (redteam_scan.rs), a child process (modelsec/uv.rs).      *)
(***************************************************************************)
EXTENDS SignalState

CONSTANTS
    Programs,   \* the commands: their parts, and whether they print data
    WaitBound   \* --wait-timeout, in poll intervals

Parts == {"hidden", "confirm", "stdin", "body", "change", "request", "scan", "child"}

ASSUME ProgramAssumption ==
    /\ Programs \subseteq [parts : Seq(Parts), prints : BOOLEAN]
    /\ WaitBound \in Nat \ {0}

VARIABLE run   \* todo: the parts left; reply: the last answer of a part;
               \* waited: since the scan began; result: how the command ends

vars == <<shared, at, watch, world, ended, run>>

CommandAt ==
    {"next", "enter", "save", "silence", "read", "unsilence", "forget", "leave", "checkBody",
     "lock", "busy", "slept", "apply", "send", "answer", "poll", "polled", "pause",
     "spawn", "attach", "attached", "told", "wait", "forward", "swap", "tell", "detach",
     "reaped", "end", "raise", "look", "write", "drop", "exit"}

Results == {"none", "done", "interrupted", "failed", "cancelled", "unwritten"}

\* The guards of signals.rs (PhaseGuard, WriteGuard) live as long as this.
PhaseOK ==
    /\ state.phase # "normal" <=>
        at["command"] \in {"save", "silence", "read", "unsilence", "forget", "leave",
                           "checkBody", "lock", "busy", "slept"}
    /\ state.writing <=> at["command"] \in {"look", "write", "drop"}

Runs == [todo : Seq(Parts), prints : BOOLEAN, reply : {"none", "good", "again", "bad"},
         waited : 0 .. WaitBound, result : Results]

TypeOK ==
    /\ SignalTypeOK
    /\ at \in [Threads -> SignalsAt \cup CommandAt] /\ at["command"] \in CommandAt
    /\ run \in Runs
    /\ PhaseOK

Here(place) == at["command"] = place
Part == Head(run.todo)
Signalled == state.code # None

\* A step that only goes on, and one that ends the command or its part.
Continue(place) == Go("command", place) /\ UNCHANGED run
With(result, place) == Go("command", place) /\ run' = [run EXCEPT !.result = result]
PartDone == Go("command", "next") /\ run' = [run EXCEPT !.todo = Tail(@), !.reply = "none"]

Quiet == UNCHANGED <<shared, watch, world, ended>>

-----------------------------------------------------------------------------
(* Parts *)

\* pending_signal before a prompt, a change or a child (stop_if_signalled,
\* confirm, run_step); piped input and requests begin without it.
NextPart ==
    /\ Here("next")
    /\ IF run.todo = <<>> THEN With("done", "end")
       ELSE IF Part \in {"hidden", "confirm", "change", "child"} /\ Signalled
       THEN With("interrupted", "end")
       ELSE Continue(CASE Part \in {"hidden", "confirm", "change", "stdin", "body"} -> "enter"
                       [] Part \in {"request", "scan"} -> "send"
                       [] Part = "child" -> "spawn")
    /\ Quiet

PhaseOf(part) ==
    CASE part \in {"hidden", "confirm"} -> "prompt"
      [] part \in {"stdin", "change"} -> "waiting"
      [] part = "body" -> "body"

EnterPhase ==
    /\ Here("enter")
    /\ state' = [state EXCEPT !.phase = PhaseOf(Part)]
    /\ Continue(CASE Part = "hidden" -> "save"
                  [] Part \in {"confirm", "stdin"} -> "read"
                  [] Part = "body" -> "checkBody"
                  [] Part = "change" -> "lock")
    /\ UNCHANGED <<session, pgid, watch, world, ended>>

\* PhaseGuard::drop, and what follows the part.
LeavePhase ==
    /\ Here("leave")
    /\ state' = [state EXCEPT !.phase = "normal"]
    /\ IF run.result # "none" THEN Continue("end")
       ELSE IF run.reply = "again" THEN Continue("enter")
       ELSE IF Part = "change" THEN Continue("apply")
       ELSE PartDone
    /\ UNCHANGED <<session, pgid, watch, world, ended>>

\* echo_off and echo_restore.
SaveMode(saved, place, next) ==
    /\ Here(place)
    /\ state' = [state EXCEPT !.mode = saved]
    /\ Continue(next)
    /\ UNCHANGED <<session, pgid, watch, world, ended>>

SetEcho(value, place, next) ==
    /\ Here(place)
    /\ echo' = value
    /\ Continue(next)
    /\ UNCHANGED <<shared, watch, arriving, heard, group, ended>>

Silence == SetEcho(IF Leaving THEN "late" ELSE "off", "silence", "read")

\* Variant of CheckBody: a body is read like any piped stdin.
BodyUnchecked ==
    /\ Here("checkBody")
    /\ Continue("read")
    /\ Quiet

\* read_stdin looks for a signal after it has entered its phase.
CheckBody ==
    /\ Here("checkBody")
    /\ IF Signalled THEN With("interrupted", "leave") ELSE Continue("read")
    /\ Quiet

\* The user or the writer of the pipe answers: a prompt is asked again after a
\* bad value, and given up at the end of input; anything else that is no answer
\* ends the command.
Reply(reply) ==
    /\ Here("read")
    /\ reply = "again" => Part = "hidden"
    /\ Go("command", IF Part = "hidden" THEN "unsilence" ELSE "leave")
    /\ run' = [run EXCEPT !.reply = reply,
                          !.result = IF reply # "bad" THEN @
                                     ELSE IF Part = "hidden" THEN "cancelled"
                                     ELSE IF Part = "confirm" THEN "done" ELSE "failed"]
    /\ Quiet

\* acquire_with: the lock, or a look for a signal before and after each sleep,
\* until the wait has lasted too long.
TryLock ==
    /\ Here("lock")
    /\ Continue("leave") \/ Continue("busy") \/ With("failed", "leave")
    /\ Quiet

Sleep ==
    /\ Here("busy")
    /\ IF Signalled THEN With("interrupted", "leave")
       ELSE Continue("slept") \/ With("failed", "leave")
    /\ Quiet

Slept ==
    /\ Here("slept")
    /\ IF Signalled THEN With("interrupted", "leave") ELSE Continue("lock")
    /\ Quiet

\* The transaction, which looks for no signal.
Apply ==
    /\ Here("apply")
    /\ PartDone \/ With("failed", "end")
    /\ Quiet

-----------------------------------------------------------------------------
(* Requests *)

\* A cancelled session sends nothing.
Send ==
    /\ Here("send")
    /\ IF session THEN With("interrupted", "end") ELSE Continue("answer")
    /\ Quiet

\* Every request ends: with an answer, a failure, its time limit or the
\* cancelled session.
Answer ==
    /\ Here("answer")
    /\ \/ IF Part = "scan" THEN Continue("poll") ELSE PartDone
       \/ With("failed", "end")
       \/ session /\ With("interrupted", "end")
    /\ Quiet

\* wait: a poll, and its answer.
Poll ==
    /\ Here("poll")
    /\ IF session THEN With("interrupted", "end") ELSE Continue("polled")
    /\ Quiet

Later(waited) == IF waited < WaitBound THEN waited + 1 ELSE waited

\* Variant of Polled: the bound is not looked at.
PolledForever(running) ==
    /\ Here("polled")
    /\ IF running THEN Continue("pause")
       ELSE PartDone \/ With("failed", "end") \/ (session /\ With("interrupted", "end"))
    /\ Quiet

\* A terminal status, a failed poll, the bound reached, or another pause.
Polled(running) ==
    /\ Here("polled")
    /\ IF running
       THEN IF run.waited >= WaitBound THEN With("failed", "end") ELSE Continue("pause")
       ELSE PartDone \/ With("failed", "end") \/ (session /\ With("interrupted", "end"))
    /\ Quiet

Pause ==
    /\ Here("pause")
    /\ \/ session /\ With("interrupted", "end")
       \/ Go("command", "poll") /\ run' = [run EXCEPT !.waited = Later(@)]
    /\ Quiet

-----------------------------------------------------------------------------
(* A child: run_step, attach_child, detach_child *)

Spawn ==
    /\ Here("spawn")
    /\ \/ With("failed", "end") /\ UNCHANGED group
       \/ /\ Continue("attach")
          /\ group' = [number |-> group.number + 1, alive |-> TRUE, told |-> <<>>, late |-> FALSE]
    /\ UNCHANGED <<shared, watch, arriving, heard, echo, ended>>

ResetForwarded ==
    /\ Here("attach")
    /\ state' = [state EXCEPT !.forwarded = FALSE]
    /\ Continue("attached")
    /\ UNCHANGED <<session, pgid, watch, world, ended>>

Attach ==
    /\ Here("attached")
    /\ state' = [state EXCEPT !.child = group.number]
    /\ group' = [group EXCEPT !.late = Ends /\ at["signals"] \in {"take", "restore", "cancel", "exit"}]
    /\ Continue("told")
    /\ UNCHANGED <<session, pgid, watch, arriving, heard, echo, ended>>

\* Variant of TellChild: the signal thread is left to forward.
NotTold ==
    /\ Here("told")
    /\ Continue("wait")
    /\ Quiet

\* A signal that came before the child was known is forwarded now.
TellChild ==
    /\ Here("told")
    /\ Continue(IF Signalled THEN "forward" ELSE "wait")
    /\ Quiet

Reap ==
    /\ Here("wait") /\ ~group.alive
    /\ Continue("detach")
    /\ Quiet

Detach ==
    /\ Here("detach")
    /\ state' = [state EXCEPT !.child = None]
    /\ Continue("reaped")
    /\ UNCHANGED <<session, pgid, watch, world, ended>>

Reaped ==
    /\ Here("reaped")
    /\ IF Signalled THEN With("interrupted", "end") ELSE PartDone \/ With("failed", "end")
    /\ Quiet

-----------------------------------------------------------------------------
(* The end: execute, finish, commit *)

\* A signal always ends the run as interrupted; only a run that is done writes.
Conclude ==
    /\ Here("end")
    /\ LET result == IF Signalled THEN "interrupted" ELSE run.result
       IN  With(result, IF result = "done" /\ run.prints THEN "raise" ELSE "exit")
    /\ Quiet

\* begin_write and WriteGuard::drop.
SetWriting(value, place, next) ==
    /\ Here(place)
    /\ state' = [state EXCEPT !.writing = value]
    /\ Continue(next)
    /\ UNCHANGED <<session, pgid, watch, world, ended>>

\* Variant of LookBeforeWrite: the signal was looked for when the run ended.
WriteUnchecked ==
    /\ Here("look")
    /\ Continue("write")
    /\ Quiet

LookBeforeWrite ==
    /\ Here("look")
    /\ IF Signalled THEN With("interrupted", "drop") ELSE Continue("write")
    /\ Quiet

\* The reader of stdout takes it all, or the write fails.
Written ==
    /\ Here("write")
    /\ Continue("drop") \/ With("unwritten", "drop")
    /\ Quiet

Exit ==
    /\ Here("exit")
    /\ ended' = CASE run.result = "done" -> "done"
                  [] run.result = "interrupted" -> state.code
                  [] run.result = "cancelled" -> "INT"
                  [] run.result = "failed" -> "error"
                  [] run.result = "unwritten" -> IF Signalled THEN state.code ELSE "error"
    /\ UNCHANGED <<shared, at, watch, world, run>>

-----------------------------------------------------------------------------
Init ==
    /\ SignalInit
    /\ at = [t \in Threads |-> IF t = "signals" THEN "idle" ELSE "next"]
    /\ \E p \in Programs :
        run = [todo |-> p.parts, prints |-> p.prints, reply |-> "none", waited |-> 0,
               result |-> "none"]

PromptStep ==
    \/ NextPart \/ EnterPhase \/ LeavePhase \/ CheckBody
    \/ SaveMode(TRUE, "save", "silence") \/ Silence
    \/ SetEcho("on", "unsilence", "forget") \/ SaveMode(FALSE, "forget", "leave")

LockStep == TryLock \/ Sleep \/ Slept \/ Apply

RequestStep == Send \/ Answer \/ Poll \/ Pause \/ \E running \in BOOLEAN : Polled(running)

ChildStep ==
    \/ Spawn \/ ResetForwarded \/ Attach \/ TellChild \/ Reap \/ Detach \/ Reaped
    \/ Forwarding("command") /\ UNCHANGED run

EndStep ==
    \/ Conclude \/ LookBeforeWrite \/ Exit
    \/ SetWriting(TRUE, "raise", "look") \/ SetWriting(FALSE, "drop", "exit")

\* What the command does by itself, and what others do for it.
CommandStep == PromptStep \/ LockStep \/ RequestStep \/ ChildStep \/ EndStep

ChildEnds ==
    /\ group.alive
    /\ group' = [group EXCEPT !.alive = FALSE]
    /\ UNCHANGED <<shared, at, watch, arriving, heard, echo, ended, run>>

Others ==
    \/ \E reply \in {"good", "again", "bad"} : Reply(reply)
    \/ Written
    \/ ChildEnds
    \/ (\E s \in Interrupts : Arrive(s)) /\ UNCHANGED run

Signals == SignalStep /\ UNCHANGED run

Next == Alive /\ (CommandStep \/ Signals \/ Others)

\* Both threads go on; people, pipes and children need not.
Fairness == WF_vars(Alive /\ CommandStep) /\ WF_vars(Alive /\ Signals)

Spec == Init /\ [][Next]_vars /\ Fairness

-----------------------------------------------------------------------------
(* Properties *)

\* When the process has ended, the terminal echoes and no child runs on
\* (D200), whichever thread ended it and wherever the other one was.  Two
\* windows are left: echo turned off, and a child attached, after the signal
\* thread looked for them.
LeavesNothing ==
    ~Alive =>
        /\ echo # "off"
        /\ group.alive => group.late \/ at["command"] \in {"attach", "attached"}

\* A signal is never missed by both threads: once the signal thread has dealt
\* with one and waits for the next, the session is cancelled, a running child
\* was told of the first signal, and the command blocks neither on a body nor
\* on stdout.  And it is never seen by both: no child is told twice.
NeverMissed ==
    /\ Alive /\ Signalled /\ at["signals"] = "idle" =>
        /\ session
        /\ Here("wait") /\ group.alive => group.told # <<>> /\ group.told[1] = state.code
        /\ ~Here("write")
        /\ ~(Here("read") /\ Part = "body")
    /\ \A i \in 2 .. Len(group.told) : group.told[i] = "KILL"

\* Two signals end the process, whatever blocks it.  One does, unless the
\* command waits for its child, or had just looked for signals and then went
\* into a prompt or the read of piped stdin.  And the wait for a scan ends by
\* itself, whatever the service says.
Polls == at["command"] \in {"poll", "polled", "pause"}
EndsWhenAsked ==
    /\ (heard >= 2) ~> ~Alive
    /\ (heard >= 1) ~> (~Alive \/ Here("wait") \/ (Here("read") /\ Part # "body"))
    /\ Polls ~> ~(Alive /\ Polls)

=============================================================================

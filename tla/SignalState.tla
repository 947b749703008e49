---------------------------- MODULE SignalState -----------------------------
(***************************************************************************)
(* What the signal thread and the command thread share (signals.rs), and   *)
(* the signal thread.  Every read, write and exchange of a shared field is *)
(* a step of its own; CommandThread adds the other thread.                 *)
(*                                                                         *)
(* What is printed is left out: a status, an interruption context or       *)
(* nothing, each a function of the action that ends the process.           *)
(***************************************************************************)
EXTENDS Naturals, Sequences, FiniteSets

CONSTANTS
    Interrupts,   \* SIGINT and SIGTERM
    None,         \* no signal, no child
    MaxSignals    \* bound of the model: signals sent to the process

ASSUME SignalAssumption ==
    /\ None \notin Interrupts \cup Nat
    /\ "INT" \in Interrupts /\ "KILL" \notin Interrupts
    /\ MaxSignals \in Nat

VARIABLES
    state,     \* SignalState
    session,   \* the SDK session is cancelled
    at,        \* where each thread is
    pgid,      \* the group each thread is about to signal
    watch,     \* the signal thread: the signal it got, whether it is the
               \* first, what it does about it, the mode it took
    arriving,  \* signals sent and not received: at most one of each
    heard,     \* signals received
    echo,      \* "on", "off", or "late": turned off behind the back of a
               \* signal thread that was done with the terminal
    group,     \* the group of the last child: its number, whether it lives,
               \* the signals it got, and whether a signal thread that ends
               \* the process looked for it too early
    ended      \* how the process ended

shared == <<state, session, pgid>>
world == <<arriving, heard, echo, group>>

Threads == {"signals", "command"}
Phases == {"normal", "prompt", "waiting", "body"}
Actions == {"none", "cancel", "exit", "cancelPrompt", "forward", "kill"}

SignalsAt ==
    {"idle", "record", "child", "writing", "phase", "take", "restore", "cancel",
     "exit", "kill", "forward", "swap", "tell"}

SharedStates ==
    [code : Interrupts \cup {None}, writing : BOOLEAN, phase : Phases,
     mode : BOOLEAN, child : Nat \cup {None}, forwarded : BOOLEAN]

Watches ==
    [got : Interrupts \cup {None}, first : BOOLEAN, action : Actions, mode : BOOLEAN]

Groups ==
    [number : Nat, alive : BOOLEAN, told : Seq(Interrupts \cup {"KILL"}), late : BOOLEAN]

Alive == ended = "no"

SignalTypeOK ==
    /\ state \in SharedStates
    /\ session \in BOOLEAN
    /\ at["signals"] \in SignalsAt
    /\ pgid \in [Threads -> Nat \cup {None}]
    /\ watch \in Watches
    /\ arriving \subseteq Interrupts
    /\ heard \in 0 .. MaxSignals
    /\ echo \in {"on", "off", "late"}
    /\ group \in Groups
    /\ ended \in {"no", "done", "error"} \cup Interrupts

SignalInit ==
    /\ state = [code |-> None, writing |-> FALSE, phase |-> "normal",
                mode |-> FALSE, child |-> None, forwarded |-> FALSE]
    /\ session = FALSE
    /\ pgid = [t \in Threads |-> None]
    /\ watch = [got |-> None, first |-> FALSE, action |-> "none", mode |-> FALSE]
    /\ arriving = {} /\ heard = 0
    /\ echo = "on"
    /\ group = [number |-> 0, alive |-> FALSE, told |-> <<>>, late |-> FALSE]
    /\ ended = "no"

Go(t, place) == at' = [at EXCEPT ![t] = place]

-----------------------------------------------------------------------------
(* Forwarding to the child's group, by either thread *)

\* Where a thread goes on when it is done with forwarding.
Resumes(t) == IF t = "signals" THEN "idle" ELSE "wait"

Told(number, signal) ==
    IF number = group.number /\ group.alive
    THEN [group EXCEPT !.told = Append(@, signal), !.alive = signal # "KILL"]
    ELSE group

\* forward_once: the child is read, the flag is swapped, the group is told.
FindGroup(t) ==
    /\ at[t] = "forward"
    /\ IF state.child = None
       THEN Go(t, Resumes(t)) /\ UNCHANGED pgid
       ELSE Go(t, "swap") /\ pgid' = [pgid EXCEPT ![t] = state.child]
    /\ UNCHANGED <<state, session, watch, world, ended>>

ClaimForwarding(t) ==
    /\ at[t] = "swap"
    /\ Go(t, IF state.forwarded THEN Resumes(t) ELSE "tell")
    /\ state' = [state EXCEPT !.forwarded = TRUE]
    /\ UNCHANGED <<session, pgid, watch, world, ended>>

TellGroup(t) ==
    /\ at[t] = "tell"
    /\ group' = Told(pgid[t], state.code)
    /\ Go(t, Resumes(t))
    /\ UNCHANGED <<shared, watch, arriving, heard, echo, ended>>

Forwarding(t) == FindGroup(t) \/ ClaimForwarding(t) \/ TellGroup(t)

-----------------------------------------------------------------------------
(* on_signal *)

Receive(s) ==
    /\ at["signals"] = "idle" /\ s \in arriving
    /\ arriving' = arriving \ {s} /\ heard' = heard + 1
    /\ watch' = [watch EXCEPT !.got = s]
    /\ Go("signals", "record")
    /\ UNCHANGED <<shared, echo, group, ended>>

\* The exchange: the first signal is kept.
Record ==
    /\ at["signals"] = "record"
    /\ watch' = [watch EXCEPT !.first = state.code = None]
    /\ state' = [state EXCEPT !.code = IF @ = None THEN watch.got ELSE @]
    /\ Go("signals", "child")
    /\ UNCHANGED <<session, pgid, world, ended>>

Decides(action, place) ==
    /\ watch' = [watch EXCEPT !.action = action]
    /\ Go("signals", place)
    /\ UNCHANGED <<shared, world, ended>>

\* Variant of SeeChild: a second signal always ends the process.
SecondExits ==
    /\ at["signals"] = "child"
    /\ IF state.child # None /\ watch.first THEN Decides("forward", "cancel")
       ELSE IF watch.first THEN Decides("none", "writing")
       ELSE Decides("exit", "take")

\* Variant of SeeChild: every signal is forwarded.
NeverKills ==
    /\ at["signals"] = "child"
    /\ IF state.child # None THEN Decides("forward", "cancel")
       ELSE IF watch.first THEN Decides("none", "writing")
       ELSE Decides("exit", "take")

SeeChild ==
    /\ at["signals"] = "child"
    /\ IF state.child # None
       THEN IF watch.first THEN Decides("forward", "cancel") ELSE Decides("kill", "kill")
       ELSE IF watch.first THEN Decides("none", "writing")
       ELSE Decides("exit", "take")

SeeWriting ==
    /\ at["signals"] = "writing"
    /\ IF state.writing THEN Decides("exit", "take") ELSE Decides("none", "phase")

SeePhase ==
    /\ at["signals"] = "phase"
    /\ CASE state.phase = "prompt" -> Decides("cancelPrompt", "take")
         [] state.phase \in {"waiting", "body"} -> Decides("exit", "take")
         [] state.phase = "normal" -> Decides("cancel", "cancel")

-----------------------------------------------------------------------------
(* act *)

Ends == watch.action \in {"exit", "cancelPrompt"}

\* restore_termios: the saved mode is taken, then set.
TakeMode ==
    /\ at["signals"] = "take"
    /\ watch' = [watch EXCEPT !.mode = state.mode]
    /\ state' = [state EXCEPT !.mode = FALSE]
    /\ Go("signals", "restore")
    /\ UNCHANGED <<session, pgid, world, ended>>

RestoreMode ==
    /\ at["signals"] = "restore"
    /\ echo' = IF watch.mode THEN "on" ELSE echo
    /\ Go("signals", "cancel")
    /\ UNCHANGED <<shared, watch, arriving, heard, group, ended>>

CancelSession ==
    /\ at["signals"] = "cancel"
    /\ session' = TRUE
    /\ Go("signals", IF Ends THEN "exit"
                     ELSE IF watch.action = "forward" THEN "forward" ELSE "idle")
    /\ UNCHANGED <<state, pgid, watch, world, ended>>

KillChild ==
    /\ at["signals"] = "kill"
    /\ group' = IF state.child # None THEN Told(state.child, "KILL") ELSE group
    /\ Go("signals", "idle")
    /\ UNCHANGED <<shared, watch, arriving, heard, echo, ended>>

\* The message, which gets 200 ms, and the end of the process.
ExitNow ==
    /\ at["signals"] = "exit"
    /\ ended' = state.code
    /\ UNCHANGED <<shared, at, watch, world>>

\* The signal thread is done with the terminal and will end the process.
Leaving == Ends /\ at["signals"] \in {"restore", "cancel", "exit"}

SignalStep ==
    \/ \E s \in Interrupts : Receive(s)
    \/ Record \/ SeeChild \/ SeeWriting \/ SeePhase
    \/ TakeMode \/ RestoreMode \/ CancelSession \/ KillChild \/ ExitNow
    \/ Forwarding("signals")

\* Somebody sends the process a signal; one that is already pending counts once.
Arrive(s) ==
    /\ s \notin arriving
    /\ heard + Cardinality(arriving) < MaxSignals
    /\ arriving' = arriving \cup {s}
    /\ UNCHANGED <<shared, at, watch, heard, echo, group, ended>>

=============================================================================

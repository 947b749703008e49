------------------------ MODULE CommandThreadProofs -------------------------
(***************************************************************************)
(* Proofs about CommandThread, for every set of commands, every sequence   *)
(* of their parts and any number of signals: type correctness, that a      *)
(* signal is missed by neither thread and seen by no child twice, and that *)
(* a process that ends leaves the terminal and its children in order.      *)
(*                                                                         *)
(* Neither property is inductive, since each says something only of the    *)
(* moments when the signal thread waits or the process ended.  The         *)
(* strengthening follows a signal through the signal thread's steps        *)
(* (SignalOK), the saved terminal mode from its owner to the thread that   *)
(* took it (EchoOK), a child from its spawning to its reaping (ChildOK),   *)
(* the single claim on forwarding (ToldOK), and says for each place where  *)
(* the command blocks which later step of the signal thread will notice it *)
(* (NoticedOK).                                                            *)
(***************************************************************************)
EXTENDS CommandThread, TLAPS, FiniteSetTheorems, SequenceTheorems

There(place) == at["signals"] = place

\* A signal on its way through the signal thread: when it was the first, and
\* what was decided.
SignalOK ==
    /\ at["signals"] \notin {"idle", "record"} => Signalled
    /\ There("record") => watch.got \in Interrupts
    /\ session => Signalled
    /\ Signalled =>
        \/ session
        \/ /\ watch.first
           /\ at["signals"] \in {"child", "writing", "phase", "take", "restore", "cancel", "exit"}
    /\ Ends => at["signals"] \in {"take", "restore", "cancel", "exit"}
    /\ at["signals"] \in {"take", "restore", "exit"} => Ends
    /\ There("cancel") => watch.action \in {"cancel", "forward", "exit", "cancelPrompt"}

\* Signals are bounded as the model says.
HeardOK == IsFiniteSet(arriving) /\ heard + Cardinality(arriving) <= MaxSignals

\* Where the command is in its parts, and how it ends.
PartPlaces == CommandAt \ {"next", "end", "raise", "look", "write", "drop", "exit"}
InChild == {"attach", "attached", "told", "wait", "forward", "swap", "tell", "detach", "reaped"}
RunOK ==
    /\ at["command"] \in PartPlaces => run.todo # <<>>
    /\ Here("enter") => Part \in {"hidden", "confirm", "stdin", "body", "change"}
    /\ at["command"] \in {"save", "silence", "unsilence", "forget"} => Part = "hidden"
    /\ Here("checkBody") => Part = "body" /\ state.phase = "body"
    /\ Here("read") => Part \in {"hidden", "confirm", "stdin", "body"}
    /\ Here("read") /\ Part = "body" => state.phase = "body"
    /\ run.reply = "again" => run.todo # <<>> /\ Part = "hidden"
    /\ at["command"] \in {"end", "raise", "look", "write", "drop", "exit"} => run.result # "none"
    /\ run.result = "interrupted" => Signalled

\* Echo is off only while the command reads a hidden value, and then its mode
\* is saved, or was taken by a signal thread about to restore it.
EchoOK ==
    /\ echo = "off" => Here("unsilence") \/ (Here("read") /\ Part = "hidden")
    /\ echo = "off" /\ ~Leaving => state.mode
    /\ Here("silence") /\ ~Leaving => state.mode
    /\ echo = "off" /\ There("restore") => watch.mode
    /\ Ends /\ at["signals"] \in {"cancel", "exit"} => echo # "off"

\* A child that lives is one the command has not reaped; its group is known to
\* the signal thread from the attaching to the detaching; and a signal thread
\* that ends the process has seen that there was none.
ChildOK ==
    /\ group.alive => at["command"] \in InChild \ {"detach", "reaped"}
    /\ state.child # None <=> at["command"] \in InChild \ {"attach", "attached", "reaped"}
    /\ state.child # None => state.child = group.number
    /\ Ends /\ group.alive => group.late \/ at["command"] \in {"attach", "attached"}

\* After a signal that met a child no other child is spawned: the one claim on
\* forwarding is for that child, and who has it tells the group.
Last == Signalled /\ at["command"] \in (InChild \ {"attach", "attached"}) \cup
                                       {"end", "raise", "look", "write", "drop", "exit"}
ToldOK ==
    /\ There("cancel") /\ watch.action = "forward" => Last
    /\ at["signals"] \in {"forward", "swap", "tell"} => Last
    /\ at["command"] \in {"forward", "swap", "tell"} => Last
    /\ state.forwarded => Last
    /\ \A t \in Threads :
        /\ at[t] \in {"swap", "tell"} => pgid[t] = group.number
        /\ at[t] = "tell" => state.forwarded
        /\ at[t] = "tell" /\ group.alive => group.told = <<>>
    /\ ~(There("tell") /\ Here("tell"))
    /\ group.alive /\ group.told # <<>> => state.forwarded /\ group.told = <<state.code>>
    /\ group.alive /\ state.forwarded => There("tell") \/ Here("tell") \/ group.told # <<>>
    /\ \A i \in 2 .. Len(group.told) : group.told[i] = "KILL"

\* Where the command blocks and there is a signal, the signal thread has dealt
\* with it or will see that the command is there.
NoticedOK ==
    /\ Here("wait") /\ Signalled =>
        \/ state.forwarded
        \/ watch.first /\ There("child")
        \/ watch.action = "forward" /\ at["signals"] \in {"cancel", "forward", "swap"}
    /\ Here("write") /\ Signalled =>
        Ends \/ (watch.first /\ at["signals"] \in {"child", "writing"})
    /\ Here("read") /\ Part = "body" /\ Signalled =>
        Ends \/ (watch.first /\ at["signals"] \in {"child", "writing", "phase"})

\* The inductive invariant.
IInv ==
    /\ TypeOK
    /\ SignalOK
    /\ HeardOK
    /\ RunOK
    /\ EchoOK
    /\ ChildOK
    /\ ToldOK
    /\ NoticedOK
    /\ LeavesNothing

-----------------------------------------------------------------------------
(* Moves *)

\* A thread's step changes its own place only.
LEMMA Moves ==
    ASSUME TypeOK, NEW t \in Threads, NEW place \in SignalsAt \cup CommandAt, Go(t, place)
    PROVE  /\ at' \in [Threads -> SignalsAt \cup CommandAt]
           /\ at'[t] = place
           /\ \A u \in Threads : u # t => at'[u] = at[u]
BY DEF TypeOK, Go

\* The signal thread's place.
LEMMA SignalsMove ==
    ASSUME TypeOK, NEW place \in SignalsAt, Go("signals", place)
    PROVE  /\ at' \in [Threads -> SignalsAt \cup CommandAt]
           /\ at'["signals"] = place /\ at'["command"] = at["command"]
BY Moves DEF Threads

\* The command's place.
LEMMA CommandMoves ==
    ASSUME TypeOK, NEW place \in CommandAt, Go("command", place)
    PROVE  /\ at' \in [Threads -> SignalsAt \cup CommandAt]
           /\ at'["command"] = place /\ at'["signals"] = at["signals"]
BY Moves DEF Threads

\* What a group that is signalled becomes.
LEMMA ToldTyped ==
    ASSUME TypeOK, NEW number, NEW signal \in Interrupts \cup {"KILL"}
    PROVE  LET g == Told(number, signal) IN
           /\ g \in Groups /\ g.number = group.number /\ g.late = group.late
           /\ number = group.number /\ group.alive =>
                g.told = Append(group.told, signal) /\ g.alive = (signal # "KILL")
           /\ ~(number = group.number /\ group.alive) => g = group
<1> DEFINE h == [group EXCEPT !.told = Append(@, signal), !.alive = signal # "KILL"]
<1>1. group \in Groups /\ group.told \in Seq(Interrupts \cup {"KILL"})
  BY DEF TypeOK, SignalTypeOK, Groups
<1>2. Append(group.told, signal) \in Seq(Interrupts \cup {"KILL"})
  BY <1>1, AppendProperties
<1>3. /\ h \in Groups /\ h.number = group.number /\ h.late = group.late
      /\ h.told = Append(group.told, signal) /\ h.alive = (signal # "KILL")
  BY <1>1, <1>2 DEF Groups
<1> HIDE DEF h
<1>4. Told(number, signal) = IF number = group.number /\ group.alive THEN h ELSE group
  BY DEF Told, h
<1> QED
  BY <1>1, <1>3, <1>4

\* Record: the first signal is kept.
LEMMA RecordInv ==
    ASSUME IInv, Alive, Record, UNCHANGED run
    PROVE  IInv'
<1>1. /\ at["signals"] = "record"
      /\ at' \in [Threads -> SignalsAt \cup CommandAt]
      /\ at'["signals"] = "child" /\ at'["command"] = at["command"]
      /\ at'["signals"] \in SignalsAt
  BY SignalsMove DEF IInv, Record, SignalsAt
<1>2. /\ watch' \in Watches
      /\ watch'.first = (state.code = None) /\ watch'.action = watch.action
      /\ state' \in SharedStates
      /\ state'.code = IF state.code = None THEN watch.got ELSE state.code
      /\ watch.got # None
      /\ state'.writing = state.writing /\ state'.phase = state.phase
      /\ state'.mode = state.mode /\ state'.child = state.child
      /\ state'.forwarded = state.forwarded
      /\ UNCHANGED <<session, pgid, arriving, heard, echo, group, ended, run>>
  BY SignalAssumption DEF IInv, Record, TypeOK, SignalTypeOK, world, shared, SignalOK, There,
     SharedStates, Watches
<1>3. HeardOK' /\ RunOK' /\ LeavesNothing'
  BY <1>1, <1>2 DEF IInv, HeardOK, RunOK, PartPlaces, CommandAt, Here, Part, Signalled,
     LeavesNothing, Alive
<1>4. TypeOK'
  BY <1>1, <1>2 DEF IInv, TypeOK, SignalTypeOK, PhaseOK, Threads
<1>5. SignalOK'
  BY <1>1, <1>2 DEF IInv, SignalOK, There, Signalled, Ends
<1>6. EchoOK'
  BY <1>1, <1>2 DEF IInv, EchoOK, Here, There, Part, Leaving, Ends
<1>7. ChildOK'
  BY <1>1, <1>2 DEF IInv, ChildOK, InChild, Ends
<1>8. ToldOK'
  BY <1>1, <1>2 DEF IInv, ToldOK, Last, Here, There, InChild, Threads, Signalled
<1>9. NoticedOK'
  BY <1>1, <1>2 DEF IInv, NoticedOK, Here, There, Part, Signalled, Ends
<1> QED
  BY <1>3, <1>4, <1>5, <1>6, <1>7, <1>8, <1>9 DEF IInv

\* Receive: one of the signals that arrived.
LEMMA ReceiveInv ==
    ASSUME IInv, Alive, NEW s \in Interrupts, Receive(s), UNCHANGED run
    PROVE  IInv'
<1>1. /\ at["signals"] = "idle"
      /\ at' \in [Threads -> SignalsAt \cup CommandAt]
      /\ at'["signals"] = "record" /\ at'["command"] = at["command"]
      /\ at'["signals"] \in SignalsAt
  BY SignalsMove DEF IInv, Receive, SignalsAt
<1>2. /\ watch' \in Watches
      /\ watch'.got = s /\ watch'.first = watch.first /\ watch'.action = watch.action
      /\ watch'.mode = watch.mode
      /\ s \in arriving /\ arriving' = arriving \ {s} /\ heard' = heard + 1
      /\ UNCHANGED <<state, session, pgid, echo, group, ended, run>>
  BY DEF IInv, Receive, TypeOK, SignalTypeOK, world, shared, Watches
<1>3. HeardOK'
  <2>1. IsFiniteSet(arriving) /\ Cardinality(arriving) \in Nat
    BY FS_CardinalityType DEF IInv, HeardOK
  <2>2. IsFiniteSet(arriving') /\ Cardinality(arriving') = Cardinality(arriving) - 1
    BY <1>2, <2>1, FS_RemoveElement
  <2>3. heard \in Nat /\ MaxSignals \in Nat
    BY SignalAssumption DEF IInv, TypeOK, SignalTypeOK
  <2> QED
    BY <1>2, <2>1, <2>2, <2>3 DEF IInv, HeardOK
<1>4. RunOK' /\ LeavesNothing'
  BY <1>1, <1>2 DEF IInv, RunOK, PartPlaces, CommandAt, Here, Part, Signalled, LeavesNothing, Alive
<1>5. TypeOK'
  <2>1. heard \in 0 .. MaxSignals /\ MaxSignals \in Nat /\ Cardinality(arriving') \in Nat
    BY <1>3, SignalAssumption, FS_CardinalityType DEF IInv, TypeOK, SignalTypeOK, HeardOK
  <2>2. heard' \in 0 .. MaxSignals
    BY <1>2, <1>3, <2>1 DEF HeardOK
  <2> QED
    BY <1>1, <1>2, <2>2 DEF IInv, TypeOK, SignalTypeOK, PhaseOK, Threads
<1>6. SignalOK'
  BY <1>1, <1>2 DEF IInv, SignalOK, There, Signalled, Ends
<1>7. EchoOK'
  BY <1>1, <1>2 DEF IInv, EchoOK, Here, There, Part, Leaving, Ends
<1>8. ChildOK'
  BY <1>1, <1>2 DEF IInv, ChildOK, InChild, Ends
<1>9. ToldOK'
  BY <1>1, <1>2 DEF IInv, ToldOK, Last, Here, There, InChild, Threads, Signalled
<1>10. NoticedOK'
  BY <1>1, <1>2 DEF IInv, NoticedOK, Here, There, Part, Signalled, Ends
<1> QED
  BY <1>3, <1>4, <1>5, <1>6, <1>7, <1>8, <1>9, <1>10 DEF IInv

\* What the signal thread decides where it looks at a shared field.
Chosen(action, place) ==
    \/ /\ There("child") /\ state.child # None
       /\ <<action, place>> = IF watch.first THEN <<"forward", "cancel">> ELSE <<"kill", "kill">>
    \/ /\ There("child") /\ state.child = None
       /\ <<action, place>> = IF watch.first THEN <<"none", "writing">> ELSE <<"exit", "take">>
    \/ /\ There("writing")
       /\ <<action, place>> = IF state.writing THEN <<"exit", "take">> ELSE <<"none", "phase">>
    \/ /\ There("phase") /\ state.phase # "normal"
       /\ action \in {"exit", "cancelPrompt"} /\ place = "take"
    \/ /\ There("phase") /\ state.phase = "normal"
       /\ <<action, place>> = <<"cancel", "cancel">>

\* SeeChild, SeeWriting and SeePhase: each decision keeps the invariant.
LEMMA DecidesInv ==
    ASSUME IInv, Alive, NEW action, NEW place, Chosen(action, place), Decides(action, place), UNCHANGED run
    PROVE  IInv'
<1>1. /\ action \in Actions /\ place \in SignalsAt
  BY DEF Chosen, Actions, SignalsAt
<1>2. /\ at' \in [Threads -> SignalsAt \cup CommandAt]
      /\ at'["signals"] = place /\ at'["command"] = at["command"]
  BY <1>1, SignalsMove DEF IInv, Decides
<1>3. /\ watch' \in Watches /\ watch'.action = action
      /\ watch'.got = watch.got /\ watch'.first = watch.first /\ watch'.mode = watch.mode
      /\ UNCHANGED <<state, session, pgid, arriving, heard, echo, group, ended, run>>
  BY <1>1 DEF IInv, Decides, TypeOK, SignalTypeOK, Watches, shared, world
<1>4. HeardOK' /\ RunOK' /\ LeavesNothing'
  BY <1>1, <1>2, <1>3 DEF IInv, HeardOK, RunOK, PartPlaces, CommandAt, Here, Part, Signalled,
     LeavesNothing, Alive
<1>5. TypeOK'
  BY <1>1, <1>2, <1>3 DEF IInv, TypeOK, SignalTypeOK, PhaseOK, Threads
<1>6. SignalOK'
  BY <1>1, <1>2, <1>3 DEF IInv, SignalOK, There, Signalled, Ends, Chosen
<1>7. EchoOK'
  BY <1>1, <1>2, <1>3 DEF IInv, EchoOK, Here, There, Part, Leaving, Ends, Chosen
<1>8. ChildOK'
  BY <1>1, <1>2, <1>3 DEF IInv, ChildOK, InChild, Ends, Chosen, There, TypeOK, PhaseOK
<1>9. ToldOK'
  BY <1>1, <1>2, <1>3 DEF IInv, ToldOK, Last, Here, There, InChild, Threads, Signalled, Chosen,
     ChildOK, SignalOK
<1>10. NoticedOK'
  <2>1. Here("wait") /\ Signalled => state.forwarded \/ (action = "forward" /\ place = "cancel")
    <3>1. Here("wait") => state.child # None
      BY DEF IInv, ChildOK, InChild, Here
    <3> QED
      BY <3>1 DEF IInv, NoticedOK, Chosen, There
  <2>2. Here("write") /\ Signalled =>
          action \in {"exit", "cancelPrompt"} \/ (watch.first /\ place = "writing")
    <3>1. Here("write") => state.child = None /\ state.writing
      BY DEF IInv, ChildOK, InChild, Here, TypeOK, PhaseOK
    <3> QED
      BY <3>1 DEF IInv, NoticedOK, SignalOK, Chosen, There, Ends
  <2>3. Here("read") /\ Part = "body" /\ Signalled =>
          action \in {"exit", "cancelPrompt"} \/ (watch.first /\ place \in {"writing", "phase"})
    <3>1. Here("read") /\ Part = "body" => state.child = None /\ state.phase = "body"
      BY DEF IInv, ChildOK, InChild, Here, RunOK
    <3> QED
      BY <3>1 DEF IInv, NoticedOK, SignalOK, Chosen, There, Ends
  <2> QED
    BY <1>2, <1>3, <2>1, <2>2, <2>3 DEF NoticedOK, Here, There, Part, Signalled, Ends
<1> QED
  BY <1>4, <1>5, <1>6, <1>7, <1>8, <1>9, <1>10 DEF IInv

\* TakeMode: the saved mode is taken.
LEMMA TakeModeInv ==
    ASSUME IInv, Alive, TakeMode, UNCHANGED run
    PROVE  IInv'
<1>1. /\ at["signals"] = "take"
      /\ at' \in [Threads -> SignalsAt \cup CommandAt]
      /\ at'["signals"] = "restore" /\ at'["command"] = at["command"]
      /\ at'["signals"] \in SignalsAt
  BY SignalsMove DEF IInv, TakeMode, SignalsAt
<1>2. /\ watch' \in Watches
      /\ watch'.mode = state.mode /\ watch'.got = watch.got /\ watch'.first = watch.first
      /\ watch'.action = watch.action
      /\ state' \in SharedStates
      /\ state'.mode = FALSE /\ state'.code = state.code /\ state'.writing = state.writing
      /\ state'.phase = state.phase
      /\ state'.child = state.child /\ state'.forwarded = state.forwarded
      /\ UNCHANGED <<session, pgid, arriving, heard, echo, group, ended, run>>
  BY DEF IInv, TakeMode, TypeOK, SignalTypeOK, world, shared, Watches, SharedStates
<1>3. HeardOK' /\ RunOK' /\ LeavesNothing'
  BY <1>1, <1>2 DEF IInv, HeardOK, RunOK, PartPlaces, CommandAt, Here, Part, Signalled,
     LeavesNothing, Alive
<1>4. TypeOK'
  BY <1>1, <1>2 DEF IInv, TypeOK, SignalTypeOK, PhaseOK, Threads
<1>5. SignalOK'
  BY <1>1, <1>2 DEF IInv, SignalOK, There, Signalled, Ends
<1>6. EchoOK'
  BY <1>1, <1>2 DEF IInv, EchoOK, Here, There, Part, Leaving, Ends, SignalOK
<1>7. ChildOK'
  BY <1>1, <1>2 DEF IInv, ChildOK, InChild, Ends
<1>8. ToldOK'
  BY <1>1, <1>2 DEF IInv, ToldOK, Last, Here, There, InChild, Threads, Signalled
<1>9. NoticedOK'
  BY <1>1, <1>2 DEF IInv, NoticedOK, Here, There, Part, Signalled, Ends
<1> QED
  BY <1>3, <1>4, <1>5, <1>6, <1>7, <1>8, <1>9 DEF IInv

\* RestoreMode: the mode taken is set.
LEMMA RestoreModeInv ==
    ASSUME IInv, Alive, RestoreMode, UNCHANGED run
    PROVE  IInv'
<1>1. /\ at["signals"] = "restore"
      /\ at' \in [Threads -> SignalsAt \cup CommandAt]
      /\ at'["signals"] = "cancel" /\ at'["command"] = at["command"]
      /\ at'["signals"] \in SignalsAt
  BY SignalsMove DEF IInv, RestoreMode, SignalsAt
<1>2. /\ echo' = IF watch.mode THEN "on" ELSE echo
      /\ UNCHANGED <<state, session, pgid, watch, arriving, heard, group, ended, run>>
  BY DEF IInv, RestoreMode, TypeOK, SignalTypeOK, world, shared
<1>3. HeardOK' /\ RunOK' /\ LeavesNothing'
  BY <1>1, <1>2 DEF IInv, HeardOK, RunOK, PartPlaces, CommandAt, Here, Part, Signalled,
     LeavesNothing, Alive
<1>4. TypeOK'
  BY <1>1, <1>2 DEF IInv, TypeOK, SignalTypeOK, PhaseOK, Threads
<1>5. SignalOK'
  BY <1>1, <1>2 DEF IInv, SignalOK, There, Signalled, Ends
<1>6. EchoOK'
  BY <1>1, <1>2 DEF IInv, EchoOK, Here, There, Part, Leaving, Ends
<1>7. ChildOK'
  BY <1>1, <1>2 DEF IInv, ChildOK, InChild, Ends
<1>8. ToldOK'
  BY <1>1, <1>2 DEF IInv, ToldOK, Last, Here, There, InChild, Threads, Signalled, SignalOK, Ends
<1>9. NoticedOK'
  BY <1>1, <1>2 DEF IInv, NoticedOK, Here, There, Part, Signalled, Ends
<1> QED
  BY <1>3, <1>4, <1>5, <1>6, <1>7, <1>8, <1>9 DEF IInv

\* CancelSession, for a child.
LEMMA CancelForwardInv ==
    ASSUME IInv, Alive, CancelSession, watch.action = "forward", UNCHANGED run
    PROVE  IInv'
<1>1. /\ at["signals"] = "cancel"
      /\ at' \in [Threads -> SignalsAt \cup CommandAt]
      /\ at'["signals"] = "forward" /\ at'["command"] = at["command"]
      /\ at'["signals"] \in SignalsAt
  BY SignalsMove DEF IInv, CancelSession, Ends, SignalsAt
<1>2. /\ session' = TRUE
      /\ UNCHANGED <<state, pgid, watch, arriving, heard, echo, group, ended, run>>
  BY DEF IInv, CancelSession, Ends, TypeOK, SignalTypeOK, world, shared
<1>3. HeardOK' /\ RunOK' /\ LeavesNothing'
  BY <1>1, <1>2 DEF IInv, HeardOK, RunOK, PartPlaces, CommandAt, Here, Part, Signalled,
     LeavesNothing, Alive
<1>4. TypeOK'
  BY <1>1, <1>2 DEF IInv, TypeOK, SignalTypeOK, PhaseOK, Threads
<1>5. SignalOK'
  BY <1>1, <1>2 DEF IInv, SignalOK, There, Signalled, Ends
<1>6. EchoOK'
  BY <1>1, <1>2 DEF IInv, EchoOK, Here, There, Part, Leaving, Ends
<1>7. ChildOK'
  BY <1>1, <1>2 DEF IInv, ChildOK, InChild, Ends
<1>8. ToldOK'
  BY <1>1, <1>2 DEF IInv, ToldOK, Last, Here, There, InChild, Threads, Signalled
<1>9. NoticedOK'
  BY <1>1, <1>2 DEF IInv, NoticedOK, Here, There, Part, Signalled, Ends
<1> QED
  BY <1>3, <1>4, <1>5, <1>6, <1>7, <1>8, <1>9 DEF IInv

\* CancelSession, and nothing else.
LEMMA CancelInv ==
    ASSUME IInv, Alive, CancelSession, watch.action = "cancel", UNCHANGED run
    PROVE  IInv'
<1>1. /\ at["signals"] = "cancel"
      /\ at' \in [Threads -> SignalsAt \cup CommandAt]
      /\ at'["signals"] = "idle" /\ at'["command"] = at["command"]
      /\ at'["signals"] \in SignalsAt
  BY SignalsMove DEF IInv, CancelSession, Ends, SignalsAt
<1>2. /\ session' = TRUE
      /\ UNCHANGED <<state, pgid, watch, arriving, heard, echo, group, ended, run>>
  BY DEF IInv, CancelSession, Ends, TypeOK, SignalTypeOK, world, shared
<1>3. HeardOK' /\ RunOK' /\ LeavesNothing'
  BY <1>1, <1>2 DEF IInv, HeardOK, RunOK, PartPlaces, CommandAt, Here, Part, Signalled,
     LeavesNothing, Alive
<1>4. TypeOK'
  BY <1>1, <1>2 DEF IInv, TypeOK, SignalTypeOK, PhaseOK, Threads
<1>5. SignalOK'
  BY <1>1, <1>2 DEF IInv, SignalOK, There, Signalled, Ends
<1>6. EchoOK'
  BY <1>1, <1>2 DEF IInv, EchoOK, Here, There, Part, Leaving, Ends
<1>7. ChildOK'
  BY <1>1, <1>2 DEF IInv, ChildOK, InChild, Ends
<1>8. ToldOK'
  BY <1>1, <1>2 DEF IInv, ToldOK, Last, Here, There, InChild, Threads, Signalled
<1>9. NoticedOK'
  BY <1>1, <1>2 DEF IInv, NoticedOK, Here, There, Part, Signalled, Ends, SignalOK
<1> QED
  BY <1>3, <1>4, <1>5, <1>6, <1>7, <1>8, <1>9 DEF IInv

\* CancelSession, on the way out.
LEMMA CancelExitInv ==
    ASSUME IInv, Alive, CancelSession, Ends, UNCHANGED run
    PROVE  IInv'
<1>1. /\ at["signals"] = "cancel"
      /\ at' \in [Threads -> SignalsAt \cup CommandAt]
      /\ at'["signals"] = "exit" /\ at'["command"] = at["command"]
      /\ at'["signals"] \in SignalsAt
  BY SignalsMove DEF IInv, CancelSession, Ends, SignalsAt
<1>2. /\ session' = TRUE
      /\ UNCHANGED <<state, pgid, watch, arriving, heard, echo, group, ended, run>>
  BY DEF IInv, CancelSession, Ends, TypeOK, SignalTypeOK, world, shared
<1>3. HeardOK' /\ RunOK' /\ LeavesNothing'
  BY <1>1, <1>2 DEF IInv, HeardOK, RunOK, PartPlaces, CommandAt, Here, Part, Signalled,
     LeavesNothing, Alive
<1>4. TypeOK'
  BY <1>1, <1>2 DEF IInv, TypeOK, SignalTypeOK, PhaseOK, Threads
<1>5. SignalOK'
  BY <1>1, <1>2 DEF IInv, SignalOK, There, Signalled, Ends
<1>6. EchoOK'
  BY <1>1, <1>2 DEF IInv, EchoOK, Here, There, Part, Leaving, Ends
<1>7. ChildOK'
  BY <1>1, <1>2 DEF IInv, ChildOK, InChild, Ends
<1>8. ToldOK'
  BY <1>1, <1>2 DEF IInv, ToldOK, Last, Here, There, InChild, Threads, Signalled
<1>9. NoticedOK'
  BY <1>1, <1>2 DEF IInv, NoticedOK, Here, There, Part, Signalled, Ends
<1> QED
  BY <1>3, <1>4, <1>5, <1>6, <1>7, <1>8, <1>9 DEF IInv

\* KillChild: the group of the child is killed, if there is one.
LEMMA KillChildInv ==
    ASSUME IInv, Alive, KillChild, UNCHANGED run
    PROVE  IInv'
<1>1. /\ at["signals"] = "kill"
      /\ at' \in [Threads -> SignalsAt \cup CommandAt]
      /\ at'["signals"] = "idle" /\ at'["command"] = at["command"]
      /\ at'["signals"] \in SignalsAt
  BY SignalsMove DEF IInv, KillChild, SignalsAt
<1>2. /\ group' \in Groups /\ group'.number = group.number /\ group'.late = group.late
      /\ group' = group \/ (~group'.alive /\ group'.told = Append(group.told, "KILL"))
      /\ UNCHANGED <<state, session, pgid, watch, arriving, heard, echo, ended, run>>
  BY ToldTyped DEF IInv, KillChild, TypeOK, SignalTypeOK, world, shared
<1>3. HeardOK' /\ RunOK'
  BY <1>1, <1>2 DEF IInv, HeardOK, RunOK, PartPlaces, CommandAt, Here, Part, Signalled
<1>4. TypeOK'
  BY <1>1, <1>2 DEF IInv, TypeOK, SignalTypeOK, PhaseOK, Threads
<1>5. SignalOK'
  BY <1>1, <1>2 DEF IInv, SignalOK, There, Signalled, Ends
<1>6. EchoOK'
  BY <1>1, <1>2 DEF IInv, EchoOK, Here, There, Part, Leaving, Ends
<1>7. ChildOK'
  BY <1>1, <1>2 DEF IInv, ChildOK, InChild, Ends
<1>8. ToldOK'
  <2>1. \A i \in 2 .. Len(group'.told) : group'.told[i] = "KILL"
    <3>1. group.told \in Seq(Interrupts \cup {"KILL"}) /\ Len(group.told) \in Nat
      BY LenProperties DEF IInv, TypeOK, SignalTypeOK, Groups
    <3>2. CASE group'.told = Append(group.told, "KILL")
      BY <3>1, <3>2, AppendProperties DEF IInv, ToldOK
    <3>3. CASE group' = group
      BY <3>3 DEF IInv, ToldOK
    <3> QED
      BY <1>2, <3>2, <3>3
  <2> QED
    BY <1>1, <1>2, <2>1 DEF IInv, ToldOK, Last, Here, There, InChild, Threads, Signalled, SignalOK
<1>9. NoticedOK'
  BY <1>1, <1>2 DEF IInv, NoticedOK, Here, There, Part, Signalled, Ends, SignalOK
<1>10. LeavesNothing'
  BY <1>1, <1>2 DEF IInv, LeavesNothing, Alive
<1> QED
  BY <1>3, <1>4, <1>5, <1>6, <1>7, <1>8, <1>9, <1>10 DEF IInv

\* FindGroup by the signal thread.
LEMMA FindGroupSignals ==
    ASSUME IInv, Alive, FindGroup("signals"), UNCHANGED run
    PROVE  IInv'
<1>1. /\ at["signals"] = "forward"
      /\ at' \in [Threads -> SignalsAt \cup CommandAt]
      /\ at'["signals"] = (IF state.child = None THEN "idle" ELSE "swap")
      /\ at'["command"] = at["command"]
      /\ at'["signals"] \in SignalsAt
  BY SignalsMove DEF IInv, FindGroup, Resumes, SignalsAt
<1>2. /\ pgid' \in [Threads -> Nat \cup {None}]
      /\ state.child # None => pgid'["signals"] = state.child
      /\ \A u \in Threads : u # "signals" => pgid'[u] = pgid[u]
      /\ UNCHANGED <<state, session, watch, arriving, heard, echo, group, ended, run>>
  BY DEF IInv, FindGroup, Resumes, TypeOK, SignalTypeOK, world, shared, SharedStates, Threads
<1>3. HeardOK' /\ RunOK' /\ LeavesNothing'
  BY <1>1, <1>2 DEF IInv, HeardOK, RunOK, PartPlaces, CommandAt, Here, Part, Signalled,
     LeavesNothing, Alive
<1>4. TypeOK'
  BY <1>1, <1>2 DEF IInv, TypeOK, SignalTypeOK, PhaseOK, Threads
<1>5. SignalOK'
  BY <1>1, <1>2 DEF IInv, SignalOK, There, Signalled, Ends
<1>6. EchoOK'
  BY <1>1, <1>2 DEF IInv, EchoOK, Here, There, Part, Leaving, Ends
<1>7. ChildOK'
  BY <1>1, <1>2 DEF IInv, ChildOK, InChild, Ends
<1>8. ToldOK'
  BY <1>1, <1>2 DEF IInv, ToldOK, Last, Here, There, InChild, Threads, Signalled, ChildOK
<1>9. NoticedOK'
  BY <1>1, <1>2 DEF IInv, NoticedOK, Here, There, Part, Signalled, Ends, ChildOK, InChild, ToldOK,
     Last, SignalOK
<1> QED
  BY <1>3, <1>4, <1>5, <1>6, <1>7, <1>8, <1>9 DEF IInv

\* ClaimForwarding by the signal thread.
LEMMA ClaimForwardingSignals ==
    ASSUME IInv, Alive, ClaimForwarding("signals"), UNCHANGED run
    PROVE  IInv'
<1>1. /\ at["signals"] = "swap"
      /\ at' \in [Threads -> SignalsAt \cup CommandAt]
      /\ at'["signals"] = (IF state.forwarded THEN "idle" ELSE "tell")
      /\ at'["command"] = at["command"]
      /\ at'["signals"] \in SignalsAt
  BY SignalsMove DEF IInv, ClaimForwarding, Resumes, SignalsAt
<1>2. /\ state' \in SharedStates
      /\ state'.forwarded = TRUE /\ state'.code = state.code /\ state'.writing = state.writing
      /\ state'.phase = state.phase
      /\ state'.mode = state.mode /\ state'.child = state.child
      /\ UNCHANGED <<session, pgid, watch, arriving, heard, echo, group, ended, run>>
  BY DEF IInv, ClaimForwarding, Resumes, TypeOK, SignalTypeOK, world, shared, SharedStates
<1>3. HeardOK' /\ RunOK' /\ LeavesNothing'
  BY <1>1, <1>2 DEF IInv, HeardOK, RunOK, PartPlaces, CommandAt, Here, Part, Signalled,
     LeavesNothing, Alive
<1>4. TypeOK'
  BY <1>1, <1>2 DEF IInv, TypeOK, SignalTypeOK, PhaseOK, Threads
<1>5. SignalOK'
  BY <1>1, <1>2 DEF IInv, SignalOK, There, Signalled, Ends
<1>6. EchoOK'
  BY <1>1, <1>2 DEF IInv, EchoOK, Here, There, Part, Leaving, Ends
<1>7. ChildOK'
  BY <1>1, <1>2 DEF IInv, ChildOK, InChild, Ends
<1>8. ToldOK'
  BY <1>1, <1>2 DEF IInv, ToldOK, Last, Here, There, InChild, Threads, Signalled
<1>9. NoticedOK'
  BY <1>1, <1>2 DEF IInv, NoticedOK, Here, There, Part, Signalled, Ends
<1> QED
  BY <1>3, <1>4, <1>5, <1>6, <1>7, <1>8, <1>9 DEF IInv

\* TellGroup by the signal thread.
LEMMA TellGroupSignals ==
    ASSUME IInv, Alive, TellGroup("signals"), UNCHANGED run
    PROVE  IInv'
<1>1. /\ at["signals"] = "tell"
      /\ at' \in [Threads -> SignalsAt \cup CommandAt]
      /\ at'["signals"] = "idle" /\ at'["command"] = at["command"]
      /\ at'["signals"] \in SignalsAt
  BY SignalsMove DEF IInv, TellGroup, Resumes, SignalsAt
<1>2. /\ group' \in Groups /\ group'.number = group.number /\ group'.late = group.late
      /\ group'.alive = group.alive
      /\ group'.told = IF group.alive THEN <<state.code>> ELSE group.told
      /\ UNCHANGED <<state, session, pgid, watch, arriving, heard, echo, ended, run>>
  <2>1. /\ state.code \in Interrupts /\ pgid["signals"] = group.number
        /\ group.alive => group.told = <<>>
    BY <1>1 DEF IInv, ToldOK, Last, Signalled, TypeOK, SignalTypeOK, SharedStates, Threads, Here,
       There
  <2>2. /\ group' = Told(pgid["signals"], state.code)
        /\ UNCHANGED <<state, session, pgid, watch, arriving, heard, echo, ended, run>>
    BY DEF TellGroup, shared
  <2>3. Append(<<>>, state.code) = <<state.code>> /\ state.code # "KILL"
    BY <2>1, SignalAssumption
  <2> QED
    BY <2>1, <2>2, <2>3, ToldTyped DEF IInv, TypeOK, SignalTypeOK, Groups
<1>3. HeardOK' /\ RunOK' /\ LeavesNothing'
  BY <1>1, <1>2 DEF IInv, HeardOK, RunOK, PartPlaces, CommandAt, Here, Part, Signalled,
     LeavesNothing, Alive
<1>4. TypeOK'
  BY <1>1, <1>2 DEF IInv, TypeOK, SignalTypeOK, PhaseOK, Threads
<1>5. SignalOK'
  BY <1>1, <1>2 DEF IInv, SignalOK, There, Signalled, Ends
<1>6. EchoOK'
  BY <1>1, <1>2 DEF IInv, EchoOK, Here, There, Part, Leaving, Ends
<1>7. ChildOK'
  BY <1>1, <1>2 DEF IInv, ChildOK, InChild, Ends
<1>8. ToldOK'
  BY <1>1, <1>2 DEF IInv, ToldOK, Last, Here, There, InChild, Threads, Signalled
<1>9. NoticedOK'
  BY <1>1, <1>2 DEF IInv, NoticedOK, Here, There, Part, Signalled, Ends, ToldOK, Threads, SignalOK
<1> QED
  BY <1>3, <1>4, <1>5, <1>6, <1>7, <1>8, <1>9 DEF IInv

\* FindGroup by the command.
LEMMA FindGroupCommand ==
    ASSUME IInv, Alive, FindGroup("command"), UNCHANGED run
    PROVE  IInv'
<1>1. /\ at["command"] = "forward"
      /\ at' \in [Threads -> SignalsAt \cup CommandAt]
      /\ at'["command"] = (IF state.child = None THEN "wait" ELSE "swap")
      /\ at'["signals"] = at["signals"]
      /\ at'["command"] \in CommandAt
  BY CommandMoves DEF IInv, FindGroup, Resumes, CommandAt
<1>2. /\ pgid' \in [Threads -> Nat \cup {None}]
      /\ state.child # None => pgid'["command"] = state.child
      /\ \A u \in Threads : u # "command" => pgid'[u] = pgid[u]
      /\ UNCHANGED <<state, session, watch, arriving, heard, echo, group, ended, run>>
  BY DEF IInv, FindGroup, Resumes, TypeOK, SignalTypeOK, world, shared, SharedStates, Threads
<1>3. HeardOK' /\ SignalOK' /\ LeavesNothing'
  BY <1>1, <1>2 DEF IInv, HeardOK, SignalOK, There, Signalled, Ends, LeavesNothing, Alive
<1>4. TypeOK'
  BY <1>1, <1>2 DEF IInv, TypeOK, SignalTypeOK, PhaseOK, Threads
<1>5. RunOK'
  BY <1>1, <1>2 DEF IInv, RunOK, PartPlaces, CommandAt, Here, Part, Signalled
<1>6. EchoOK'
  BY <1>1, <1>2 DEF IInv, EchoOK, Here, There, Part, Leaving, Ends
<1>7. ChildOK'
  BY <1>1, <1>2 DEF IInv, ChildOK, InChild, Ends
<1>8. ToldOK'
  BY <1>1, <1>2 DEF IInv, ToldOK, Last, Here, There, InChild, Threads, Signalled, ChildOK
<1>9. NoticedOK'
  BY <1>1, <1>2 DEF IInv, NoticedOK, Here, There, Part, Signalled, Ends, ChildOK, InChild, ToldOK,
     Last, SignalOK
<1> QED
  BY <1>3, <1>4, <1>5, <1>6, <1>7, <1>8, <1>9 DEF IInv

\* ClaimForwarding by the command.
LEMMA ClaimForwardingCommand ==
    ASSUME IInv, Alive, ClaimForwarding("command"), UNCHANGED run
    PROVE  IInv'
<1>1. /\ at["command"] = "swap"
      /\ at' \in [Threads -> SignalsAt \cup CommandAt]
      /\ at'["command"] = (IF state.forwarded THEN "wait" ELSE "tell")
      /\ at'["signals"] = at["signals"]
      /\ at'["command"] \in CommandAt
  BY CommandMoves DEF IInv, ClaimForwarding, Resumes, CommandAt
<1>2. /\ state' \in SharedStates
      /\ state'.forwarded = TRUE /\ state'.code = state.code /\ state'.writing = state.writing
      /\ state'.phase = state.phase
      /\ state'.mode = state.mode /\ state'.child = state.child
      /\ UNCHANGED <<session, pgid, watch, arriving, heard, echo, group, ended, run>>
  BY DEF IInv, ClaimForwarding, Resumes, TypeOK, SignalTypeOK, world, shared, SharedStates
<1>3. HeardOK' /\ SignalOK' /\ LeavesNothing'
  BY <1>1, <1>2 DEF IInv, HeardOK, SignalOK, There, Signalled, Ends, LeavesNothing, Alive
<1>4. TypeOK'
  BY <1>1, <1>2 DEF IInv, TypeOK, SignalTypeOK, PhaseOK, Threads
<1>5. RunOK'
  BY <1>1, <1>2 DEF IInv, RunOK, PartPlaces, CommandAt, Here, Part, Signalled
<1>6. EchoOK'
  BY <1>1, <1>2 DEF IInv, EchoOK, Here, There, Part, Leaving, Ends
<1>7. ChildOK'
  BY <1>1, <1>2 DEF IInv, ChildOK, InChild, Ends
<1>8. ToldOK'
  BY <1>1, <1>2 DEF IInv, ToldOK, Last, Here, There, InChild, Threads, Signalled
<1>9. NoticedOK'
  BY <1>1, <1>2 DEF IInv, NoticedOK, Here, There, Part, Signalled, Ends
<1> QED
  BY <1>3, <1>4, <1>5, <1>6, <1>7, <1>8, <1>9 DEF IInv

\* TellGroup by the command.
LEMMA TellGroupCommand ==
    ASSUME IInv, Alive, TellGroup("command"), UNCHANGED run
    PROVE  IInv'
<1>1. /\ at["command"] = "tell"
      /\ at' \in [Threads -> SignalsAt \cup CommandAt]
      /\ at'["command"] = "wait" /\ at'["signals"] = at["signals"]
      /\ at'["command"] \in CommandAt
  BY CommandMoves DEF IInv, TellGroup, Resumes, CommandAt
<1>2. /\ group' \in Groups /\ group'.number = group.number /\ group'.late = group.late
      /\ group'.alive = group.alive
      /\ group'.told = IF group.alive THEN <<state.code>> ELSE group.told
      /\ UNCHANGED <<state, session, pgid, watch, arriving, heard, echo, ended, run>>
  <2>1. /\ state.code \in Interrupts /\ pgid["command"] = group.number
        /\ group.alive => group.told = <<>>
    BY <1>1 DEF IInv, ToldOK, Last, Signalled, TypeOK, SignalTypeOK, SharedStates, Threads, Here,
       There
  <2>2. /\ group' = Told(pgid["command"], state.code)
        /\ UNCHANGED <<state, session, pgid, watch, arriving, heard, echo, ended, run>>
    BY DEF TellGroup, shared
  <2>3. Append(<<>>, state.code) = <<state.code>> /\ state.code # "KILL"
    BY <2>1, SignalAssumption
  <2> QED
    BY <2>1, <2>2, <2>3, ToldTyped DEF IInv, TypeOK, SignalTypeOK, Groups
<1>3. HeardOK' /\ SignalOK' /\ LeavesNothing'
  BY <1>1, <1>2 DEF IInv, HeardOK, SignalOK, There, Signalled, Ends, LeavesNothing, Alive
<1>4. TypeOK'
  BY <1>1, <1>2 DEF IInv, TypeOK, SignalTypeOK, PhaseOK, Threads
<1>5. RunOK'
  BY <1>1, <1>2 DEF IInv, RunOK, PartPlaces, CommandAt, Here, Part, Signalled
<1>6. EchoOK'
  BY <1>1, <1>2 DEF IInv, EchoOK, Here, There, Part, Leaving, Ends
<1>7. ChildOK'
  BY <1>1, <1>2 DEF IInv, ChildOK, InChild, Ends
<1>8. ToldOK'
  BY <1>1, <1>2 DEF IInv, ToldOK, Last, Here, There, InChild, Threads, Signalled
<1>9. NoticedOK'
  BY <1>1, <1>2 DEF IInv, NoticedOK, Here, There, Part, Signalled, Ends, ToldOK, Threads, SignalOK
<1> QED
  BY <1>3, <1>4, <1>5, <1>6, <1>7, <1>8, <1>9 DEF IInv

-----------------------------------------------------------------------------
(* The command *)

\* What becomes of the run when a step gives it a result, and when a part is
\* done.
Resulted(result) ==
    run' \in Runs /\ run'.todo = run.todo /\ run'.reply = run.reply /\ run'.result = result
Passed == run' \in Runs /\ run'.reply = "none" /\ run'.result = run.result

\* The command goes on with the same run, with a result, or to its next part.
LEMMA RunMoves ==
    ASSUME IInv, NEW place, NEW result \in Results
    PROVE  /\ Continue(place) => run' = run /\ Go("command", place)
           /\ With(result, place) => Resulted(result) /\ Go("command", place)
           /\ at["command"] \in PartPlaces /\ PartDone => Passed /\ Go("command", "next")
<1>1. run \in Runs
  BY DEF IInv, TypeOK
<1>2. With(result, place) => Resulted(result) /\ Go("command", place)
  BY <1>1 DEF With, Resulted, Runs
<1>3. ASSUME at["command"] \in PartPlaces, PartDone PROVE Passed /\ Go("command", "next")
  <2>1. run.todo \in Seq(Parts) /\ run.todo # <<>>
    BY <1>1, <1>3 DEF Runs, IInv, RunOK
  <2>2. Tail(run.todo) \in Seq(Parts)
    BY <2>1, HeadTailProperties
  <2> QED
    BY <1>1, <1>3, <2>2 DEF PartDone, Passed, Runs
<1> QED
  BY <1>2, <1>3 DEF Continue

\* Send, Answer, Poll and Polled: a cancelled session sends and polls no more.
LEMMA RequestInv ==
    ASSUME IInv, Alive, Send \/ Answer \/ Poll \/ (\E running \in BOOLEAN : Polled(running))
    PROVE  IInv'
<1>1. at["command"] \in {"send", "answer", "poll", "polled"} /\ Quiet
  BY DEF Send, Answer, Poll, Polled, Here
<1>2. PICK place :
         /\ Go("command", place)
         /\ \/ place \in {"answer", "poll", "polled", "pause"} /\ run' = run
            \/ place = "next" /\ Passed
            \/ place = "end" /\ Resulted("failed")
            \/ place = "end" /\ Resulted("interrupted") /\ session
  BY <1>1, RunMoves DEF Send, Answer, Poll, Polled, Here, Results, PartPlaces, CommandAt
<1>3. place \in CommandAt
  BY <1>2 DEF CommandAt
<1>4. /\ at' \in [Threads -> SignalsAt \cup CommandAt]
      /\ at'["command"] = place /\ at'["signals"] = at["signals"]
  BY <1>2, <1>3, CommandMoves DEF IInv
<1>5. UNCHANGED <<state, session, pgid, watch, arriving, heard, echo, group, ended>> /\ run' \in Runs
  BY <1>1, <1>2 DEF Quiet, shared, world, IInv, TypeOK, Resulted, Passed
<1>6. HeardOK' /\ SignalOK' /\ LeavesNothing'
  BY <1>1, <1>2, <1>3, <1>4, <1>5 DEF IInv, HeardOK, SignalOK, There, Signalled, Ends,
     LeavesNothing, Alive
<1>7. TypeOK'
  BY <1>1, <1>2, <1>3, <1>4, <1>5 DEF IInv, TypeOK, SignalTypeOK, PhaseOK, Threads
<1>8. RunOK'
  BY <1>1, <1>2, <1>3, <1>4, <1>5 DEF IInv, RunOK, PartPlaces, CommandAt, Here, Part, Signalled,
     Resulted, Passed, SignalOK
<1>9. EchoOK'
  BY <1>1, <1>2, <1>3, <1>4, <1>5 DEF IInv, EchoOK, Here, There, Part, Leaving, Ends, Resulted,
     Passed
<1>10. ChildOK'
  BY <1>1, <1>2, <1>3, <1>4, <1>5 DEF IInv, ChildOK, InChild, Ends
<1>11. ToldOK'
  BY <1>1, <1>2, <1>3, <1>4, <1>5 DEF IInv, ToldOK, Last, Here, There, InChild, Threads, Signalled
<1>12. NoticedOK'
  BY <1>1, <1>2, <1>3, <1>4, <1>5 DEF IInv, NoticedOK, Here, There, Part, Signalled, Ends,
     Resulted, Passed
<1> QED
  BY <1>6, <1>7, <1>8, <1>9, <1>10, <1>11, <1>12 DEF IInv

\* TryLock, Sleep and Slept: a signal is seen before and after each sleep.
LEMMA LockInv ==
    ASSUME IInv, Alive, TryLock \/ Sleep \/ Slept
    PROVE  IInv'
<1>1. at["command"] \in {"lock", "busy", "slept"} /\ Quiet
  BY DEF TryLock, Sleep, Slept, Here
<1>2. PICK place :
         /\ Go("command", place)
         /\ \/ place \in {"lock", "busy", "slept", "leave"} /\ run' = run
            \/ place = "leave" /\ Resulted("failed")
            \/ place = "leave" /\ Resulted("interrupted") /\ Signalled
  BY <1>1, RunMoves DEF TryLock, Sleep, Slept, Here, Results, PartPlaces, CommandAt
<1>3. place \in CommandAt
  BY <1>2 DEF CommandAt
<1>4. /\ at' \in [Threads -> SignalsAt \cup CommandAt]
      /\ at'["command"] = place /\ at'["signals"] = at["signals"]
  BY <1>2, <1>3, CommandMoves DEF IInv
<1>5. UNCHANGED <<state, session, pgid, watch, arriving, heard, echo, group, ended>> /\ run' \in Runs
  BY <1>1, <1>2 DEF Quiet, shared, world, IInv, TypeOK, Resulted, Passed
<1>6. HeardOK' /\ SignalOK' /\ LeavesNothing'
  BY <1>1, <1>2, <1>3, <1>4, <1>5 DEF IInv, HeardOK, SignalOK, There, Signalled, Ends,
     LeavesNothing, Alive
<1>7. TypeOK'
  BY <1>1, <1>2, <1>3, <1>4, <1>5 DEF IInv, TypeOK, SignalTypeOK, PhaseOK, Threads
<1>8. RunOK'
  BY <1>1, <1>2, <1>3, <1>4, <1>5 DEF IInv, RunOK, PartPlaces, CommandAt, Here, Part, Signalled,
     Resulted, Passed
<1>9. EchoOK'
  BY <1>1, <1>2, <1>3, <1>4, <1>5 DEF IInv, EchoOK, Here, There, Part, Leaving, Ends, Resulted,
     Passed
<1>10. ChildOK'
  BY <1>1, <1>2, <1>3, <1>4, <1>5 DEF IInv, ChildOK, InChild, Ends
<1>11. ToldOK'
  BY <1>1, <1>2, <1>3, <1>4, <1>5 DEF IInv, ToldOK, Last, Here, There, InChild, Threads, Signalled
<1>12. NoticedOK'
  BY <1>1, <1>2, <1>3, <1>4, <1>5 DEF IInv, NoticedOK, Here, There, Part, Signalled, Ends,
     Resulted, Passed
<1> QED
  BY <1>6, <1>7, <1>8, <1>9, <1>10, <1>11, <1>12 DEF IInv

\* Apply: the transaction is done or fails.
LEMMA ApplyInv ==
    ASSUME IInv, Alive, Apply
    PROVE  IInv'
<1>1. at["command"] = "apply" /\ Quiet
  BY DEF Apply, Here
<1>2. PICK place :
         /\ Go("command", place)
         /\ \/ place = "next" /\ Passed
            \/ place = "end" /\ Resulted("failed")
  BY <1>1, RunMoves DEF Apply, Here, Results, PartPlaces, CommandAt
<1>3. place \in CommandAt
  BY <1>2 DEF CommandAt
<1>4. /\ at' \in [Threads -> SignalsAt \cup CommandAt]
      /\ at'["command"] = place /\ at'["signals"] = at["signals"]
  BY <1>2, <1>3, CommandMoves DEF IInv
<1>5. UNCHANGED <<state, session, pgid, watch, arriving, heard, echo, group, ended>> /\ run' \in Runs
  BY <1>1, <1>2 DEF Quiet, shared, world, IInv, TypeOK, Resulted, Passed
<1>6. HeardOK' /\ SignalOK' /\ LeavesNothing'
  BY <1>1, <1>2, <1>3, <1>4, <1>5 DEF IInv, HeardOK, SignalOK, There, Signalled, Ends,
     LeavesNothing, Alive
<1>7. TypeOK'
  BY <1>1, <1>2, <1>3, <1>4, <1>5 DEF IInv, TypeOK, SignalTypeOK, PhaseOK, Threads
<1>8. RunOK'
  BY <1>1, <1>2, <1>3, <1>4, <1>5 DEF IInv, RunOK, PartPlaces, CommandAt, Here, Part, Signalled,
     Resulted, Passed
<1>9. EchoOK'
  BY <1>1, <1>2, <1>3, <1>4, <1>5 DEF IInv, EchoOK, Here, There, Part, Leaving, Ends, Resulted,
     Passed
<1>10. ChildOK'
  BY <1>1, <1>2, <1>3, <1>4, <1>5 DEF IInv, ChildOK, InChild, Ends
<1>11. ToldOK'
  BY <1>1, <1>2, <1>3, <1>4, <1>5 DEF IInv, ToldOK, Last, Here, There, InChild, Threads, Signalled
<1>12. NoticedOK'
  BY <1>1, <1>2, <1>3, <1>4, <1>5 DEF IInv, NoticedOK, Here, There, Part, Signalled, Ends,
     Resulted, Passed
<1> QED
  BY <1>6, <1>7, <1>8, <1>9, <1>10, <1>11, <1>12 DEF IInv

\* TellChild: a signal that came before the child was known is forwarded.
LEMMA TellChildInv ==
    ASSUME IInv, Alive, TellChild
    PROVE  IInv'
<1>1. at["command"] = "told" /\ Quiet
  BY DEF TellChild, Here
<1>2. PICK place :
         /\ Go("command", place)
         /\ \/ place = "forward" /\ run' = run /\ Signalled
            \/ place = "wait" /\ run' = run /\ ~Signalled
  BY <1>1, RunMoves DEF TellChild, Here, Results, PartPlaces, CommandAt
<1>3. place \in CommandAt
  BY <1>2 DEF CommandAt
<1>4. /\ at' \in [Threads -> SignalsAt \cup CommandAt]
      /\ at'["command"] = place /\ at'["signals"] = at["signals"]
  BY <1>2, <1>3, CommandMoves DEF IInv
<1>5. UNCHANGED <<state, session, pgid, watch, arriving, heard, echo, group, ended>> /\ run' \in Runs
  BY <1>1, <1>2 DEF Quiet, shared, world, IInv, TypeOK, Resulted, Passed
<1>6. HeardOK' /\ SignalOK' /\ LeavesNothing'
  BY <1>1, <1>2, <1>3, <1>4, <1>5 DEF IInv, HeardOK, SignalOK, There, Signalled, Ends,
     LeavesNothing, Alive
<1>7. TypeOK'
  BY <1>1, <1>2, <1>3, <1>4, <1>5 DEF IInv, TypeOK, SignalTypeOK, PhaseOK, Threads
<1>8. RunOK'
  BY <1>1, <1>2, <1>3, <1>4, <1>5 DEF IInv, RunOK, PartPlaces, CommandAt, Here, Part, Signalled,
     Resulted, Passed
<1>9. EchoOK'
  BY <1>1, <1>2, <1>3, <1>4, <1>5 DEF IInv, EchoOK, Here, There, Part, Leaving, Ends, Resulted,
     Passed
<1>10. ChildOK'
  BY <1>1, <1>2, <1>3, <1>4, <1>5 DEF IInv, ChildOK, InChild, Ends
<1>11. ToldOK'
  BY <1>1, <1>2, <1>3, <1>4, <1>5 DEF IInv, ToldOK, Last, Here, There, InChild, Threads, Signalled
<1>12. NoticedOK'
  BY <1>1, <1>2, <1>3, <1>4, <1>5 DEF IInv, NoticedOK, Here, There, Part, Signalled, Ends,
     Resulted, Passed
<1> QED
  BY <1>6, <1>7, <1>8, <1>9, <1>10, <1>11, <1>12 DEF IInv

\* Reap: the child has ended.
LEMMA ReapInv ==
    ASSUME IInv, Alive, Reap
    PROVE  IInv'
<1>1. at["command"] = "wait" /\ Quiet
  BY DEF Reap, Here
<1>2. PICK place :
         /\ Go("command", place)
         /\ place = "detach" /\ run' = run /\ ~group.alive
  BY <1>1, RunMoves DEF Reap, Here, Results, PartPlaces, CommandAt
<1>3. place \in CommandAt
  BY <1>2 DEF CommandAt
<1>4. /\ at' \in [Threads -> SignalsAt \cup CommandAt]
      /\ at'["command"] = place /\ at'["signals"] = at["signals"]
  BY <1>2, <1>3, CommandMoves DEF IInv
<1>5. UNCHANGED <<state, session, pgid, watch, arriving, heard, echo, group, ended>> /\ run' \in Runs
  BY <1>1, <1>2 DEF Quiet, shared, world, IInv, TypeOK, Resulted, Passed
<1>6. HeardOK' /\ SignalOK' /\ LeavesNothing'
  BY <1>1, <1>2, <1>3, <1>4, <1>5 DEF IInv, HeardOK, SignalOK, There, Signalled, Ends,
     LeavesNothing, Alive
<1>7. TypeOK'
  BY <1>1, <1>2, <1>3, <1>4, <1>5 DEF IInv, TypeOK, SignalTypeOK, PhaseOK, Threads
<1>8. RunOK'
  BY <1>1, <1>2, <1>3, <1>4, <1>5 DEF IInv, RunOK, PartPlaces, CommandAt, Here, Part, Signalled,
     Resulted, Passed
<1>9. EchoOK'
  BY <1>1, <1>2, <1>3, <1>4, <1>5 DEF IInv, EchoOK, Here, There, Part, Leaving, Ends, Resulted,
     Passed
<1>10. ChildOK'
  BY <1>1, <1>2, <1>3, <1>4, <1>5 DEF IInv, ChildOK, InChild, Ends
<1>11. ToldOK'
  BY <1>1, <1>2, <1>3, <1>4, <1>5 DEF IInv, ToldOK, Last, Here, There, InChild, Threads, Signalled
<1>12. NoticedOK'
  BY <1>1, <1>2, <1>3, <1>4, <1>5 DEF IInv, NoticedOK, Here, There, Part, Signalled, Ends,
     Resulted, Passed
<1> QED
  BY <1>6, <1>7, <1>8, <1>9, <1>10, <1>11, <1>12 DEF IInv

\* Reaped: no child is started after a signal.
LEMMA ReapedInv ==
    ASSUME IInv, Alive, Reaped
    PROVE  IInv'
<1>1. at["command"] = "reaped" /\ Quiet
  BY DEF Reaped, Here
<1>2. PICK place :
         /\ Go("command", place)
         /\ \/ place = "end" /\ Resulted("interrupted") /\ Signalled
            \/ place = "next" /\ Passed /\ ~Signalled
            \/ place = "end" /\ Resulted("failed") /\ ~Signalled
  BY <1>1, RunMoves DEF Reaped, Here, Results, PartPlaces, CommandAt
<1>3. place \in CommandAt
  BY <1>2 DEF CommandAt
<1>4. /\ at' \in [Threads -> SignalsAt \cup CommandAt]
      /\ at'["command"] = place /\ at'["signals"] = at["signals"]
  BY <1>2, <1>3, CommandMoves DEF IInv
<1>5. UNCHANGED <<state, session, pgid, watch, arriving, heard, echo, group, ended>> /\ run' \in Runs
  BY <1>1, <1>2 DEF Quiet, shared, world, IInv, TypeOK, Resulted, Passed
<1>6. HeardOK' /\ SignalOK' /\ LeavesNothing'
  BY <1>1, <1>2, <1>3, <1>4, <1>5 DEF IInv, HeardOK, SignalOK, There, Signalled, Ends,
     LeavesNothing, Alive
<1>7. TypeOK'
  BY <1>1, <1>2, <1>3, <1>4, <1>5 DEF IInv, TypeOK, SignalTypeOK, PhaseOK, Threads
<1>8. RunOK'
  BY <1>1, <1>2, <1>3, <1>4, <1>5 DEF IInv, RunOK, PartPlaces, CommandAt, Here, Part, Signalled,
     Resulted, Passed
<1>9. EchoOK'
  BY <1>1, <1>2, <1>3, <1>4, <1>5 DEF IInv, EchoOK, Here, There, Part, Leaving, Ends, Resulted,
     Passed
<1>10. ChildOK'
  BY <1>1, <1>2, <1>3, <1>4, <1>5 DEF IInv, ChildOK, InChild, Ends
<1>11. ToldOK'
  BY <1>1, <1>2, <1>3, <1>4, <1>5 DEF IInv, ToldOK, Last, Here, There, InChild, Threads, Signalled
<1>12. NoticedOK'
  BY <1>1, <1>2, <1>3, <1>4, <1>5 DEF IInv, NoticedOK, Here, There, Part, Signalled, Ends,
     Resulted, Passed
<1> QED
  BY <1>6, <1>7, <1>8, <1>9, <1>10, <1>11, <1>12 DEF IInv

\* LookBeforeWrite: no signal means that a later one sees the writing.
LEMMA LookBeforeWriteInv ==
    ASSUME IInv, Alive, LookBeforeWrite
    PROVE  IInv'
<1>1. at["command"] = "look" /\ Quiet
  BY DEF LookBeforeWrite, Here
<1>2. PICK place :
         /\ Go("command", place)
         /\ \/ place = "drop" /\ Resulted("interrupted") /\ Signalled
            \/ place = "write" /\ run' = run /\ ~Signalled
  BY <1>1, RunMoves DEF LookBeforeWrite, Here, Results, PartPlaces, CommandAt
<1>3. place \in CommandAt
  BY <1>2 DEF CommandAt
<1>4. /\ at' \in [Threads -> SignalsAt \cup CommandAt]
      /\ at'["command"] = place /\ at'["signals"] = at["signals"]
  BY <1>2, <1>3, CommandMoves DEF IInv
<1>5. UNCHANGED <<state, session, pgid, watch, arriving, heard, echo, group, ended>> /\ run' \in Runs
  BY <1>1, <1>2 DEF Quiet, shared, world, IInv, TypeOK, Resulted, Passed
<1>6. HeardOK' /\ SignalOK' /\ LeavesNothing'
  BY <1>1, <1>2, <1>3, <1>4, <1>5 DEF IInv, HeardOK, SignalOK, There, Signalled, Ends,
     LeavesNothing, Alive
<1>7. TypeOK'
  BY <1>1, <1>2, <1>3, <1>4, <1>5 DEF IInv, TypeOK, SignalTypeOK, PhaseOK, Threads
<1>8. RunOK'
  BY <1>1, <1>2, <1>3, <1>4, <1>5 DEF IInv, RunOK, PartPlaces, CommandAt, Here, Part, Signalled,
     Resulted, Passed
<1>9. EchoOK'
  BY <1>1, <1>2, <1>3, <1>4, <1>5 DEF IInv, EchoOK, Here, There, Part, Leaving, Ends, Resulted,
     Passed
<1>10. ChildOK'
  BY <1>1, <1>2, <1>3, <1>4, <1>5 DEF IInv, ChildOK, InChild, Ends
<1>11. ToldOK'
  BY <1>1, <1>2, <1>3, <1>4, <1>5 DEF IInv, ToldOK, Last, Here, There, InChild, Threads, Signalled
<1>12. NoticedOK'
  BY <1>1, <1>2, <1>3, <1>4, <1>5 DEF IInv, NoticedOK, Here, There, Part, Signalled, Ends,
     Resulted, Passed
<1> QED
  BY <1>6, <1>7, <1>8, <1>9, <1>10, <1>11, <1>12 DEF IInv

\* Written: the output is taken, or the write fails.
LEMMA WrittenInv ==
    ASSUME IInv, Alive, Written
    PROVE  IInv'
<1>1. at["command"] = "write" /\ Quiet
  BY DEF Written, Here
<1>2. PICK place :
         /\ Go("command", place)
         /\ \/ place = "drop" /\ run' = run
            \/ place = "drop" /\ Resulted("unwritten")
  BY <1>1, RunMoves DEF Written, Here, Results, PartPlaces, CommandAt
<1>3. place \in CommandAt
  BY <1>2 DEF CommandAt
<1>4. /\ at' \in [Threads -> SignalsAt \cup CommandAt]
      /\ at'["command"] = place /\ at'["signals"] = at["signals"]
  BY <1>2, <1>3, CommandMoves DEF IInv
<1>5. UNCHANGED <<state, session, pgid, watch, arriving, heard, echo, group, ended>> /\ run' \in Runs
  BY <1>1, <1>2 DEF Quiet, shared, world, IInv, TypeOK, Resulted, Passed
<1>6. HeardOK' /\ SignalOK' /\ LeavesNothing'
  BY <1>1, <1>2, <1>3, <1>4, <1>5 DEF IInv, HeardOK, SignalOK, There, Signalled, Ends,
     LeavesNothing, Alive
<1>7. TypeOK'
  BY <1>1, <1>2, <1>3, <1>4, <1>5 DEF IInv, TypeOK, SignalTypeOK, PhaseOK, Threads
<1>8. RunOK'
  BY <1>1, <1>2, <1>3, <1>4, <1>5 DEF IInv, RunOK, PartPlaces, CommandAt, Here, Part, Signalled,
     Resulted, Passed
<1>9. EchoOK'
  BY <1>1, <1>2, <1>3, <1>4, <1>5 DEF IInv, EchoOK, Here, There, Part, Leaving, Ends, Resulted,
     Passed
<1>10. ChildOK'
  BY <1>1, <1>2, <1>3, <1>4, <1>5 DEF IInv, ChildOK, InChild, Ends
<1>11. ToldOK'
  BY <1>1, <1>2, <1>3, <1>4, <1>5 DEF IInv, ToldOK, Last, Here, There, InChild, Threads, Signalled
<1>12. NoticedOK'
  BY <1>1, <1>2, <1>3, <1>4, <1>5 DEF IInv, NoticedOK, Here, There, Part, Signalled, Ends,
     Resulted, Passed
<1> QED
  BY <1>6, <1>7, <1>8, <1>9, <1>10, <1>11, <1>12 DEF IInv

\* Conclude: a signal always ends the run as interrupted.
LEMMA ConcludeInv ==
    ASSUME IInv, Alive, Conclude
    PROVE  IInv'
<1>1. at["command"] = "end" /\ Quiet
  BY DEF Conclude, Here
<1>2. PICK place :
         /\ Go("command", place)
         /\ \/ place \in {"raise", "exit"} /\ Resulted("interrupted") /\ Signalled
            \/ place \in {"raise", "exit"} /\ Resulted(run.result)
  <2> DEFINE r == IF Signalled THEN "interrupted" ELSE run.result
             to == IF r = "done" /\ run.prints THEN "raise" ELSE "exit"
  <2>1. r \in Results /\ to \in {"raise", "exit"}
    BY DEF IInv, TypeOK, Runs, Results
  <2>2. With(r, to)
    BY DEF Conclude
  <2> HIDE DEF to
  <2>3. Resulted(r) /\ Go("command", to)
    BY <2>1, <2>2, RunMoves
  <2> QED
    BY <2>1, <2>3
<1>3. place \in CommandAt
  BY <1>2 DEF CommandAt
<1>4. /\ at' \in [Threads -> SignalsAt \cup CommandAt]
      /\ at'["command"] = place /\ at'["signals"] = at["signals"]
  BY <1>2, <1>3, CommandMoves DEF IInv
<1>5. UNCHANGED <<state, session, pgid, watch, arriving, heard, echo, group, ended>> /\ run' \in Runs
  BY <1>1, <1>2 DEF Quiet, shared, world, IInv, TypeOK, Resulted, Passed
<1>6. HeardOK' /\ SignalOK' /\ LeavesNothing'
  BY <1>1, <1>2, <1>3, <1>4, <1>5 DEF IInv, HeardOK, SignalOK, There, Signalled, Ends,
     LeavesNothing, Alive
<1>7. TypeOK'
  BY <1>1, <1>2, <1>3, <1>4, <1>5 DEF IInv, TypeOK, SignalTypeOK, PhaseOK, Threads
<1>8. RunOK'
  BY <1>1, <1>2, <1>3, <1>4, <1>5 DEF IInv, RunOK, PartPlaces, CommandAt, Here, Part, Signalled,
     Resulted, Passed
<1>9. EchoOK'
  BY <1>1, <1>2, <1>3, <1>4, <1>5 DEF IInv, EchoOK, Here, There, Part, Leaving, Ends, Resulted,
     Passed
<1>10. ChildOK'
  BY <1>1, <1>2, <1>3, <1>4, <1>5 DEF IInv, ChildOK, InChild, Ends
<1>11. ToldOK'
  BY <1>1, <1>2, <1>3, <1>4, <1>5 DEF IInv, ToldOK, Last, Here, There, InChild, Threads, Signalled
<1>12. NoticedOK'
  BY <1>1, <1>2, <1>3, <1>4, <1>5 DEF IInv, NoticedOK, Here, There, Part, Signalled, Ends,
     Resulted, Passed
<1> QED
  BY <1>6, <1>7, <1>8, <1>9, <1>10, <1>11, <1>12 DEF IInv

\* CheckBody: a body is read only when no signal came before its phase.
LEMMA CheckBodyInv ==
    ASSUME IInv, Alive, CheckBody
    PROVE  IInv'
<1>1. at["command"] = "checkBody" /\ Quiet
  BY DEF CheckBody, Here
<1>2. PICK place :
         /\ Go("command", place)
         /\ \/ place = "leave" /\ Resulted("interrupted") /\ Signalled
            \/ place = "read" /\ run' = run /\ ~Signalled
  BY <1>1, RunMoves DEF CheckBody, Here, Results, PartPlaces, CommandAt
<1>3. place \in CommandAt
  BY <1>2 DEF CommandAt
<1>4. /\ at' \in [Threads -> SignalsAt \cup CommandAt]
      /\ at'["command"] = place /\ at'["signals"] = at["signals"]
  BY <1>2, <1>3, CommandMoves DEF IInv
<1>5. UNCHANGED <<state, session, pgid, watch, arriving, heard, echo, group, ended>> /\ run' \in Runs
  BY <1>1, <1>2 DEF Quiet, shared, world, IInv, TypeOK, Resulted, Passed
<1>6. HeardOK' /\ SignalOK' /\ LeavesNothing'
  BY <1>1, <1>2, <1>3, <1>4, <1>5 DEF IInv, HeardOK, SignalOK, There, Signalled, Ends,
     LeavesNothing, Alive
<1>7. TypeOK'
  BY <1>1, <1>2, <1>3, <1>4, <1>5 DEF IInv, TypeOK, SignalTypeOK, PhaseOK, Threads
<1>8. RunOK'
  BY <1>1, <1>2, <1>3, <1>4, <1>5 DEF IInv, RunOK, PartPlaces, CommandAt, Here, Part, Signalled,
     Resulted, Passed
<1>9. EchoOK'
  BY <1>1, <1>2, <1>3, <1>4, <1>5 DEF IInv, EchoOK, Here, There, Part, Leaving, Ends, Resulted,
     Passed
<1>10. ChildOK'
  BY <1>1, <1>2, <1>3, <1>4, <1>5 DEF IInv, ChildOK, InChild, Ends
<1>11. ToldOK'
  BY <1>1, <1>2, <1>3, <1>4, <1>5 DEF IInv, ToldOK, Last, Here, There, InChild, Threads, Signalled
<1>12. NoticedOK'
  BY <1>1, <1>2, <1>3, <1>4, <1>5 DEF IInv, NoticedOK, Here, There, Part, Signalled, Ends,
     Resulted, Passed
<1> QED
  BY <1>6, <1>7, <1>8, <1>9, <1>10, <1>11, <1>12 DEF IInv

\* What becomes of it when a prompt is answered.
Replied ==
    /\ run' \in Runs /\ run'.todo = run.todo
    /\ run'.reply = "again" => Part = "hidden"
    /\ run'.result \in {run.result, "cancelled", "done", "failed"}

\* Reply: a hidden value is asked for again, any other prompt left.
LEMMA ReplyInv ==
    ASSUME IInv, Alive, NEW reply \in {"good", "again", "bad"}, Reply(reply)
    PROVE  IInv'
<1>1. at["command"] = "read" /\ Quiet
  BY DEF Reply, Here
<1>2. PICK place :
         /\ Go("command", place)
         /\ \/ place = "unsilence" /\ Replied /\ Part = "hidden"
            \/ place = "leave" /\ Replied /\ Part # "hidden"
  <2>1. (reply = "again" => Part = "hidden")
        /\ Go("command", IF Part = "hidden" THEN "unsilence" ELSE "leave")
    BY DEF Reply
  <2>2. Replied
    <3> DEFINE r == IF reply # "bad" THEN run.result
                    ELSE IF Part = "hidden" THEN "cancelled"
                    ELSE IF Part = "confirm" THEN "done" ELSE "failed"
    <3>1. r \in Results /\ r \in {run.result, "cancelled", "done", "failed"}
      BY DEF IInv, TypeOK, Runs, Results
    <3>2. run' = [run EXCEPT !.reply = reply, !.result = r]
      BY DEF Reply
    <3> HIDE DEF r
    <3> QED
      BY <2>1, <3>1, <3>2 DEF IInv, TypeOK, Runs, Replied
  <2> QED
    BY <2>1, <2>2
<1>3. place \in CommandAt
  BY <1>2 DEF CommandAt
<1>4. /\ at' \in [Threads -> SignalsAt \cup CommandAt]
      /\ at'["command"] = place /\ at'["signals"] = at["signals"]
  BY <1>2, <1>3, CommandMoves DEF IInv
<1>5. UNCHANGED <<state, session, pgid, watch, arriving, heard, echo, group, ended>> /\ run' \in Runs
  BY <1>1, <1>2 DEF Quiet, shared, world, IInv, TypeOK, Resulted, Passed, Replied
<1>6. HeardOK' /\ SignalOK' /\ LeavesNothing'
  BY <1>1, <1>2, <1>3, <1>4, <1>5 DEF IInv, HeardOK, SignalOK, There, Signalled, Ends,
     LeavesNothing, Alive
<1>7. TypeOK'
  BY <1>1, <1>2, <1>3, <1>4, <1>5 DEF IInv, TypeOK, SignalTypeOK, PhaseOK, Threads
<1>8. RunOK'
  BY <1>1, <1>2, <1>3, <1>4, <1>5 DEF IInv, RunOK, PartPlaces, CommandAt, Here, Part, Signalled,
     Resulted, Passed, Replied
<1>9. EchoOK'
  BY <1>1, <1>2, <1>3, <1>4, <1>5 DEF IInv, EchoOK, Here, There, Part, Leaving, Ends, Resulted,
     Passed
<1>10. ChildOK'
  BY <1>1, <1>2, <1>3, <1>4, <1>5 DEF IInv, ChildOK, InChild, Ends
<1>11. ToldOK'
  BY <1>1, <1>2, <1>3, <1>4, <1>5 DEF IInv, ToldOK, Last, Here, There, InChild, Threads, Signalled
<1>12. NoticedOK'
  BY <1>1, <1>2, <1>3, <1>4, <1>5 DEF IInv, NoticedOK, Here, There, Part, Signalled, Ends,
     Resulted, Passed
<1> QED
  BY <1>6, <1>7, <1>8, <1>9, <1>10, <1>11, <1>12 DEF IInv

\* NextPart: no prompt, change or child begins after a signal.
LEMMA NextPartInv ==
    ASSUME IInv, Alive, NextPart
    PROVE  IInv'
<1>1. at["command"] = "next" /\ Quiet
  BY DEF NextPart, Here
<1>2. PICK place :
         /\ Go("command", place)
         /\ \/ place = "end" /\ Resulted("done")
            \/ place = "end" /\ Resulted("interrupted") /\ Signalled
            \/ place = "enter" /\ run' = run /\ run.todo # <<>>
               /\ Part \in {"hidden", "confirm", "stdin", "body", "change"}
            \/ place = "send" /\ run' = run /\ run.todo # <<>>
            \/ place = "spawn" /\ run' = run /\ run.todo # <<>> /\ ~Signalled
  <2> DEFINE to == CASE Part \in {"hidden", "confirm", "change", "stdin", "body"} -> "enter"
                   [] Part \in {"request", "scan"} -> "send"
                   [] Part = "child" -> "spawn"
  <2>1. CASE run.todo = <<>>
    <3>1. With("done", "end")
      BY <2>1 DEF NextPart
    <3> QED
      BY <3>1, RunMoves DEF Results
  <2>2. CASE run.todo # <<>> /\ Part \in {"hidden", "confirm", "change", "child"} /\ Signalled
    <3>1. With("interrupted", "end")
      BY <2>2 DEF NextPart
    <3> QED
      BY <2>2, <3>1, RunMoves DEF Results
  <2>3. CASE run.todo # <<>> /\ ~(Part \in {"hidden", "confirm", "change", "child"} /\ Signalled)
    <3>1. Part \in Parts
      <4>1. run.todo \in Seq(Parts)
        BY DEF IInv, TypeOK, Runs
      <4> QED
        BY <2>3, <4>1, HeadTailProperties DEF Part
    <3>2. Continue(to)
      BY <2>3 DEF NextPart
    <3>3. Part \in {"hidden", "confirm", "change", "stdin", "body"} => to = "enter"
      OBVIOUS
    <3>4. Part \in {"request", "scan"} => to = "send"
      OBVIOUS
    <3>5. Part = "child" => to = "spawn" /\ ~Signalled
      BY <2>3
    <3> HIDE DEF to
    <3>6. run' = run /\ Go("command", to)
      BY <3>2 DEF Continue
    <3> QED
      BY <2>3, <3>1, <3>3, <3>4, <3>5, <3>6 DEF Parts
  <2> QED
    BY <2>1, <2>2, <2>3
<1>3. place \in CommandAt
  BY <1>2 DEF CommandAt
<1>4. /\ at' \in [Threads -> SignalsAt \cup CommandAt]
      /\ at'["command"] = place /\ at'["signals"] = at["signals"]
  BY <1>2, <1>3, CommandMoves DEF IInv
<1>5. UNCHANGED <<state, session, pgid, watch, arriving, heard, echo, group, ended>> /\ run' \in Runs
  BY <1>1, <1>2 DEF Quiet, shared, world, IInv, TypeOK, Resulted, Passed
<1>6. HeardOK' /\ SignalOK' /\ LeavesNothing'
  BY <1>1, <1>2, <1>3, <1>4, <1>5 DEF IInv, HeardOK, SignalOK, There, Signalled, Ends,
     LeavesNothing, Alive
<1>7. TypeOK'
  BY <1>1, <1>2, <1>3, <1>4, <1>5 DEF IInv, TypeOK, SignalTypeOK, PhaseOK, Threads
<1>8. RunOK'
  BY <1>1, <1>2, <1>3, <1>4, <1>5 DEF IInv, RunOK, PartPlaces, CommandAt, Here, Part, Signalled,
     Resulted, Passed
<1>9. EchoOK'
  BY <1>1, <1>2, <1>3, <1>4, <1>5 DEF IInv, EchoOK, Here, There, Part, Leaving, Ends, Resulted,
     Passed
<1>10. ChildOK'
  BY <1>1, <1>2, <1>3, <1>4, <1>5 DEF IInv, ChildOK, InChild, Ends
<1>11. ToldOK'
  BY <1>1, <1>2, <1>3, <1>4, <1>5 DEF IInv, ToldOK, Last, Here, There, InChild, Threads, Signalled
<1>12. NoticedOK'
  BY <1>1, <1>2, <1>3, <1>4, <1>5 DEF IInv, NoticedOK, Here, There, Part, Signalled, Ends,
     Resulted, Passed
<1> QED
  BY <1>6, <1>7, <1>8, <1>9, <1>10, <1>11, <1>12 DEF IInv

\* SaveMode: the mode is saved before echo is turned off.
LEMMA SaveModeInv ==
    ASSUME IInv, Alive, SaveMode(TRUE, "save", "silence")
    PROVE  IInv'
<1>1. /\ at["command"] = "save"
      /\ at' \in [Threads -> SignalsAt \cup CommandAt]
      /\ at'["command"] = "silence" /\ at'["signals"] = at["signals"]
      /\ at'["command"] \in CommandAt
  BY CommandMoves DEF IInv, SaveMode, Here, Continue, CommandAt
<1>2. /\ state' \in SharedStates
      /\ state'.mode = TRUE /\ state'.code = state.code /\ state'.writing = state.writing
      /\ state'.phase = state.phase
      /\ state'.child = state.child /\ state'.forwarded = state.forwarded
      /\ UNCHANGED <<session, pgid, watch, arriving, heard, echo, group, ended, run>>
  BY DEF IInv, SaveMode, Here, Continue, TypeOK, SignalTypeOK, world, shared, SharedStates
<1>3. HeardOK' /\ SignalOK' /\ LeavesNothing'
  BY <1>1, <1>2 DEF IInv, HeardOK, SignalOK, There, Signalled, Ends, LeavesNothing, Alive
<1>4. TypeOK'
  BY <1>1, <1>2 DEF IInv, TypeOK, SignalTypeOK, PhaseOK, Threads
<1>5. RunOK'
  BY <1>1, <1>2 DEF IInv, RunOK, PartPlaces, CommandAt, Here, Part, Signalled
<1>6. EchoOK'
  BY <1>1, <1>2 DEF IInv, EchoOK, Here, There, Part, Leaving, Ends
<1>7. ChildOK'
  BY <1>1, <1>2 DEF IInv, ChildOK, InChild, Ends
<1>8. ToldOK'
  BY <1>1, <1>2 DEF IInv, ToldOK, Last, Here, There, InChild, Threads, Signalled
<1>9. NoticedOK'
  BY <1>1, <1>2 DEF IInv, NoticedOK, Here, There, Part, Signalled, Ends
<1> QED
  BY <1>3, <1>4, <1>5, <1>6, <1>7, <1>8, <1>9 DEF IInv

\* Silence: echo is off with its mode saved, or turned off too late to be restored.
LEMMA SilenceInv ==
    ASSUME IInv, Alive, Silence
    PROVE  IInv'
<1>1. /\ at["command"] = "silence"
      /\ at' \in [Threads -> SignalsAt \cup CommandAt]
      /\ at'["command"] = "read" /\ at'["signals"] = at["signals"]
      /\ at'["command"] \in CommandAt
  BY CommandMoves DEF IInv, Silence, SetEcho, Here, Continue, CommandAt
<1>2. /\ echo' = IF Leaving THEN "late" ELSE "off"
      /\ UNCHANGED <<state, session, pgid, watch, arriving, heard, group, ended, run>>
  BY DEF IInv, Silence, SetEcho, Here, Continue, TypeOK, SignalTypeOK, world, shared
<1>3. HeardOK' /\ SignalOK' /\ LeavesNothing'
  BY <1>1, <1>2 DEF IInv, HeardOK, SignalOK, There, Signalled, Ends, LeavesNothing, Alive
<1>4. TypeOK'
  BY <1>1, <1>2 DEF IInv, TypeOK, SignalTypeOK, PhaseOK, Threads
<1>5. RunOK'
  BY <1>1, <1>2 DEF IInv, RunOK, PartPlaces, CommandAt, Here, Part, Signalled
<1>6. EchoOK'
  BY <1>1, <1>2 DEF IInv, EchoOK, Here, There, Part, Leaving, Ends, RunOK, SignalOK
<1>7. ChildOK'
  BY <1>1, <1>2 DEF IInv, ChildOK, InChild, Ends
<1>8. ToldOK'
  BY <1>1, <1>2 DEF IInv, ToldOK, Last, Here, There, InChild, Threads, Signalled
<1>9. NoticedOK'
  BY <1>1, <1>2 DEF IInv, NoticedOK, Here, There, Part, Signalled, Ends, RunOK
<1> QED
  BY <1>3, <1>4, <1>5, <1>6, <1>7, <1>8, <1>9 DEF IInv

\* SetEcho: echo is on again.
LEMMA UnsilenceInv ==
    ASSUME IInv, Alive, SetEcho("on", "unsilence", "forget")
    PROVE  IInv'
<1>1. /\ at["command"] = "unsilence"
      /\ at' \in [Threads -> SignalsAt \cup CommandAt]
      /\ at'["command"] = "forget" /\ at'["signals"] = at["signals"]
      /\ at'["command"] \in CommandAt
  BY CommandMoves DEF IInv, SetEcho, Here, Continue, CommandAt
<1>2. /\ echo' = "on"
      /\ UNCHANGED <<state, session, pgid, watch, arriving, heard, group, ended, run>>
  BY DEF IInv, SetEcho, Here, Continue, TypeOK, SignalTypeOK, world, shared
<1>3. HeardOK' /\ SignalOK' /\ LeavesNothing'
  BY <1>1, <1>2 DEF IInv, HeardOK, SignalOK, There, Signalled, Ends, LeavesNothing, Alive
<1>4. TypeOK'
  BY <1>1, <1>2 DEF IInv, TypeOK, SignalTypeOK, PhaseOK, Threads
<1>5. RunOK'
  BY <1>1, <1>2 DEF IInv, RunOK, PartPlaces, CommandAt, Here, Part, Signalled
<1>6. EchoOK'
  BY <1>1, <1>2 DEF IInv, EchoOK, Here, There, Part, Leaving, Ends
<1>7. ChildOK'
  BY <1>1, <1>2 DEF IInv, ChildOK, InChild, Ends
<1>8. ToldOK'
  BY <1>1, <1>2 DEF IInv, ToldOK, Last, Here, There, InChild, Threads, Signalled
<1>9. NoticedOK'
  BY <1>1, <1>2 DEF IInv, NoticedOK, Here, There, Part, Signalled, Ends
<1> QED
  BY <1>3, <1>4, <1>5, <1>6, <1>7, <1>8, <1>9 DEF IInv

\* SaveMode: the saved mode is forgotten when echo is on.
LEMMA ForgetInv ==
    ASSUME IInv, Alive, SaveMode(FALSE, "forget", "leave")
    PROVE  IInv'
<1>1. /\ at["command"] = "forget"
      /\ at' \in [Threads -> SignalsAt \cup CommandAt]
      /\ at'["command"] = "leave" /\ at'["signals"] = at["signals"]
      /\ at'["command"] \in CommandAt
  BY CommandMoves DEF IInv, SaveMode, Here, Continue, CommandAt
<1>2. /\ state' \in SharedStates
      /\ state'.mode = FALSE /\ state'.code = state.code /\ state'.writing = state.writing
      /\ state'.phase = state.phase
      /\ state'.child = state.child /\ state'.forwarded = state.forwarded
      /\ UNCHANGED <<session, pgid, watch, arriving, heard, echo, group, ended, run>>
  BY DEF IInv, SaveMode, Here, Continue, TypeOK, SignalTypeOK, world, shared, SharedStates
<1>3. HeardOK' /\ SignalOK' /\ LeavesNothing'
  BY <1>1, <1>2 DEF IInv, HeardOK, SignalOK, There, Signalled, Ends, LeavesNothing, Alive
<1>4. TypeOK'
  BY <1>1, <1>2 DEF IInv, TypeOK, SignalTypeOK, PhaseOK, Threads
<1>5. RunOK'
  BY <1>1, <1>2 DEF IInv, RunOK, PartPlaces, CommandAt, Here, Part, Signalled
<1>6. EchoOK'
  BY <1>1, <1>2 DEF IInv, EchoOK, Here, There, Part, Leaving, Ends
<1>7. ChildOK'
  BY <1>1, <1>2 DEF IInv, ChildOK, InChild, Ends
<1>8. ToldOK'
  BY <1>1, <1>2 DEF IInv, ToldOK, Last, Here, There, InChild, Threads, Signalled
<1>9. NoticedOK'
  BY <1>1, <1>2 DEF IInv, NoticedOK, Here, There, Part, Signalled, Ends
<1> QED
  BY <1>3, <1>4, <1>5, <1>6, <1>7, <1>8, <1>9 DEF IInv

\* SetWriting: the command is about to write.
LEMMA BeginWriteInv ==
    ASSUME IInv, Alive, SetWriting(TRUE, "raise", "look")
    PROVE  IInv'
<1>1. /\ at["command"] = "raise"
      /\ at' \in [Threads -> SignalsAt \cup CommandAt]
      /\ at'["command"] = "look" /\ at'["signals"] = at["signals"]
      /\ at'["command"] \in CommandAt
  BY CommandMoves DEF IInv, SetWriting, Here, Continue, CommandAt
<1>2. /\ state' \in SharedStates
      /\ state'.writing = TRUE /\ state'.code = state.code /\ state'.mode = state.mode
      /\ state'.phase = state.phase
      /\ state'.child = state.child /\ state'.forwarded = state.forwarded
      /\ UNCHANGED <<session, pgid, watch, arriving, heard, echo, group, ended, run>>
  BY DEF IInv, SetWriting, Here, Continue, TypeOK, SignalTypeOK, world, shared, SharedStates
<1>3. HeardOK' /\ SignalOK' /\ LeavesNothing'
  BY <1>1, <1>2 DEF IInv, HeardOK, SignalOK, There, Signalled, Ends, LeavesNothing, Alive
<1>4. TypeOK'
  BY <1>1, <1>2 DEF IInv, TypeOK, SignalTypeOK, PhaseOK, Threads
<1>5. RunOK'
  BY <1>1, <1>2 DEF IInv, RunOK, PartPlaces, CommandAt, Here, Part, Signalled
<1>6. EchoOK'
  BY <1>1, <1>2 DEF IInv, EchoOK, Here, There, Part, Leaving, Ends
<1>7. ChildOK'
  BY <1>1, <1>2 DEF IInv, ChildOK, InChild, Ends
<1>8. ToldOK'
  BY <1>1, <1>2 DEF IInv, ToldOK, Last, Here, There, InChild, Threads, Signalled
<1>9. NoticedOK'
  BY <1>1, <1>2 DEF IInv, NoticedOK, Here, There, Part, Signalled, Ends
<1> QED
  BY <1>3, <1>4, <1>5, <1>6, <1>7, <1>8, <1>9 DEF IInv

\* SetWriting: the command has written.
LEMMA EndWriteInv ==
    ASSUME IInv, Alive, SetWriting(FALSE, "drop", "exit")
    PROVE  IInv'
<1>1. /\ at["command"] = "drop"
      /\ at' \in [Threads -> SignalsAt \cup CommandAt]
      /\ at'["command"] = "exit" /\ at'["signals"] = at["signals"]
      /\ at'["command"] \in CommandAt
  BY CommandMoves DEF IInv, SetWriting, Here, Continue, CommandAt
<1>2. /\ state' \in SharedStates
      /\ state'.writing = FALSE /\ state'.code = state.code /\ state'.mode = state.mode
      /\ state'.phase = state.phase
      /\ state'.child = state.child /\ state'.forwarded = state.forwarded
      /\ UNCHANGED <<session, pgid, watch, arriving, heard, echo, group, ended, run>>
  BY DEF IInv, SetWriting, Here, Continue, TypeOK, SignalTypeOK, world, shared, SharedStates
<1>3. HeardOK' /\ SignalOK' /\ LeavesNothing'
  BY <1>1, <1>2 DEF IInv, HeardOK, SignalOK, There, Signalled, Ends, LeavesNothing, Alive
<1>4. TypeOK'
  BY <1>1, <1>2 DEF IInv, TypeOK, SignalTypeOK, PhaseOK, Threads
<1>5. RunOK'
  BY <1>1, <1>2 DEF IInv, RunOK, PartPlaces, CommandAt, Here, Part, Signalled
<1>6. EchoOK'
  BY <1>1, <1>2 DEF IInv, EchoOK, Here, There, Part, Leaving, Ends
<1>7. ChildOK'
  BY <1>1, <1>2 DEF IInv, ChildOK, InChild, Ends
<1>8. ToldOK'
  BY <1>1, <1>2 DEF IInv, ToldOK, Last, Here, There, InChild, Threads, Signalled
<1>9. NoticedOK'
  BY <1>1, <1>2 DEF IInv, NoticedOK, Here, There, Part, Signalled, Ends
<1> QED
  BY <1>3, <1>4, <1>5, <1>6, <1>7, <1>8, <1>9 DEF IInv

\* ResetForwarded: nobody has a claim on forwarding before a child is known.
LEMMA ResetForwardedInv ==
    ASSUME IInv, Alive, ResetForwarded
    PROVE  IInv'
<1>1. /\ at["command"] = "attach"
      /\ at' \in [Threads -> SignalsAt \cup CommandAt]
      /\ at'["command"] = "attached" /\ at'["signals"] = at["signals"]
      /\ at'["command"] \in CommandAt
  BY CommandMoves DEF IInv, ResetForwarded, Here, Continue, CommandAt
<1>2. /\ state' \in SharedStates
      /\ state'.forwarded = FALSE /\ state'.code = state.code /\ state'.writing = state.writing
      /\ state'.phase = state.phase
      /\ state'.child = state.child /\ state'.mode = state.mode
      /\ UNCHANGED <<session, pgid, watch, arriving, heard, echo, group, ended, run>>
  BY DEF IInv, ResetForwarded, Here, Continue, TypeOK, SignalTypeOK, world, shared, SharedStates
<1>3. HeardOK' /\ SignalOK' /\ LeavesNothing'
  BY <1>1, <1>2 DEF IInv, HeardOK, SignalOK, There, Signalled, Ends, LeavesNothing, Alive
<1>4. TypeOK'
  BY <1>1, <1>2 DEF IInv, TypeOK, SignalTypeOK, PhaseOK, Threads
<1>5. RunOK'
  BY <1>1, <1>2 DEF IInv, RunOK, PartPlaces, CommandAt, Here, Part, Signalled
<1>6. EchoOK'
  BY <1>1, <1>2 DEF IInv, EchoOK, Here, There, Part, Leaving, Ends
<1>7. ChildOK'
  BY <1>1, <1>2 DEF IInv, ChildOK, InChild, Ends
<1>8. ToldOK'
  BY <1>1, <1>2 DEF IInv, ToldOK, Last, Here, There, InChild, Threads, Signalled
<1>9. NoticedOK'
  BY <1>1, <1>2 DEF IInv, NoticedOK, Here, There, Part, Signalled, Ends
<1> QED
  BY <1>3, <1>4, <1>5, <1>6, <1>7, <1>8, <1>9 DEF IInv

\* Attach: the group is known to the signal thread.
LEMMA AttachInv ==
    ASSUME IInv, Alive, Attach
    PROVE  IInv'
<1>1. /\ at["command"] = "attached"
      /\ at' \in [Threads -> SignalsAt \cup CommandAt]
      /\ at'["command"] = "told" /\ at'["signals"] = at["signals"]
      /\ at'["command"] \in CommandAt
  BY CommandMoves DEF IInv, Attach, Here, Continue, CommandAt
<1>2. /\ state' \in SharedStates
      /\ state'.child = group.number /\ state'.code = state.code
      /\ state'.writing = state.writing /\ state'.phase = state.phase
      /\ state'.forwarded = state.forwarded /\ state'.mode = state.mode
      /\ group' \in Groups /\ group'.number = group.number /\ group'.alive = group.alive
      /\ group'.told = group.told
      /\ group'.late = (Ends /\ at["signals"] \in {"take", "restore", "cancel", "exit"})
      /\ UNCHANGED <<session, pgid, watch, arriving, heard, echo, ended, run>>
  BY SignalAssumption DEF IInv, Attach, Here, Continue, TypeOK, SignalTypeOK, world, shared,
     SharedStates, Groups
<1>3. HeardOK' /\ SignalOK' /\ LeavesNothing'
  BY <1>1, <1>2 DEF IInv, HeardOK, SignalOK, There, Signalled, Ends, LeavesNothing, Alive
<1>4. TypeOK'
  BY <1>1, <1>2 DEF IInv, TypeOK, SignalTypeOK, PhaseOK, Threads
<1>5. RunOK'
  BY <1>1, <1>2 DEF IInv, RunOK, PartPlaces, CommandAt, Here, Part, Signalled
<1>6. EchoOK'
  BY <1>1, <1>2 DEF IInv, EchoOK, Here, There, Part, Leaving, Ends
<1>7. ChildOK'
  BY <1>1, <1>2, SignalAssumption DEF IInv, ChildOK, InChild, Ends, SignalOK, TypeOK, SignalTypeOK,
     Groups
<1>8. ToldOK'
  BY <1>1, <1>2 DEF IInv, ToldOK, Last, Here, There, InChild, Threads, Signalled
<1>9. NoticedOK'
  BY <1>1, <1>2 DEF IInv, NoticedOK, Here, There, Part, Signalled, Ends
<1> QED
  BY <1>3, <1>4, <1>5, <1>6, <1>7, <1>8, <1>9 DEF IInv

\* Detach: the group is unknown once its leader was reaped.
LEMMA DetachInv ==
    ASSUME IInv, Alive, Detach
    PROVE  IInv'
<1>1. /\ at["command"] = "detach"
      /\ at' \in [Threads -> SignalsAt \cup CommandAt]
      /\ at'["command"] = "reaped" /\ at'["signals"] = at["signals"]
      /\ at'["command"] \in CommandAt
  BY CommandMoves DEF IInv, Detach, Here, Continue, CommandAt
<1>2. /\ state' \in SharedStates
      /\ state'.child = None /\ state'.code = state.code /\ state'.writing = state.writing
      /\ state'.phase = state.phase
      /\ state'.forwarded = state.forwarded /\ state'.mode = state.mode
      /\ UNCHANGED <<session, pgid, watch, arriving, heard, echo, group, ended, run>>
  BY DEF IInv, Detach, Here, Continue, TypeOK, SignalTypeOK, world, shared, SharedStates
<1>3. HeardOK' /\ SignalOK' /\ LeavesNothing'
  BY <1>1, <1>2 DEF IInv, HeardOK, SignalOK, There, Signalled, Ends, LeavesNothing, Alive
<1>4. TypeOK'
  BY <1>1, <1>2 DEF IInv, TypeOK, SignalTypeOK, PhaseOK, Threads
<1>5. RunOK'
  BY <1>1, <1>2 DEF IInv, RunOK, PartPlaces, CommandAt, Here, Part, Signalled
<1>6. EchoOK'
  BY <1>1, <1>2 DEF IInv, EchoOK, Here, There, Part, Leaving, Ends
<1>7. ChildOK'
  BY <1>1, <1>2 DEF IInv, ChildOK, InChild, Ends
<1>8. ToldOK'
  BY <1>1, <1>2 DEF IInv, ToldOK, Last, Here, There, InChild, Threads, Signalled
<1>9. NoticedOK'
  BY <1>1, <1>2 DEF IInv, NoticedOK, Here, There, Part, Signalled, Ends
<1> QED
  BY <1>3, <1>4, <1>5, <1>6, <1>7, <1>8, <1>9 DEF IInv

\* Pause: another poll interval, or the end of a cancelled wait.
LEMMA PauseInv ==
    ASSUME IInv, Alive, Pause
    PROVE  IInv'
<1>1. at["command"] = "pause" /\ Quiet
  BY DEF Pause, Here
<1>2. PICK place :
         /\ Go("command", place)
         /\ \/ place = "poll" /\ run' \in Runs /\ run'.todo = run.todo /\ run'.reply = run.reply
               /\ run'.result = run.result
            \/ place = "end" /\ Resulted("interrupted") /\ session
  <2>1. CASE session /\ With("interrupted", "end")
    BY <2>1, RunMoves DEF Results
  <2>2. CASE Go("command", "poll") /\ run' = [run EXCEPT !.waited = Later(@)]
    <3>1. Later(run.waited) \in 0 .. WaitBound
      BY ProgramAssumption DEF IInv, TypeOK, Runs, Later
    <3> QED
      BY <2>2, <3>1 DEF IInv, TypeOK, Runs
  <2> QED
    BY <2>1, <2>2 DEF Pause
<1>3. place \in CommandAt
  BY <1>2 DEF CommandAt
<1>4. /\ at' \in [Threads -> SignalsAt \cup CommandAt]
      /\ at'["command"] = place /\ at'["signals"] = at["signals"]
  BY <1>2, <1>3, CommandMoves DEF IInv
<1>5. UNCHANGED <<state, session, pgid, watch, arriving, heard, echo, group, ended>> /\ run' \in Runs
  BY <1>1, <1>2 DEF Quiet, shared, world, IInv, TypeOK, Resulted, Passed
<1>6. HeardOK' /\ SignalOK' /\ LeavesNothing'
  BY <1>1, <1>2, <1>3, <1>4, <1>5 DEF IInv, HeardOK, SignalOK, There, Signalled, Ends,
     LeavesNothing, Alive
<1>7. TypeOK'
  BY <1>1, <1>2, <1>3, <1>4, <1>5 DEF IInv, TypeOK, SignalTypeOK, PhaseOK, Threads
<1>8. RunOK'
  BY <1>1, <1>2, <1>3, <1>4, <1>5 DEF IInv, RunOK, PartPlaces, CommandAt, Here, Part, Signalled,
     Resulted, Passed, SignalOK
<1>9. EchoOK'
  BY <1>1, <1>2, <1>3, <1>4, <1>5 DEF IInv, EchoOK, Here, There, Part, Leaving, Ends, Resulted,
     Passed
<1>10. ChildOK'
  BY <1>1, <1>2, <1>3, <1>4, <1>5 DEF IInv, ChildOK, InChild, Ends
<1>11. ToldOK'
  BY <1>1, <1>2, <1>3, <1>4, <1>5 DEF IInv, ToldOK, Last, Here, There, InChild, Threads, Signalled
<1>12. NoticedOK'
  BY <1>1, <1>2, <1>3, <1>4, <1>5 DEF IInv, NoticedOK, Here, There, Part, Signalled, Ends,
     Resulted, Passed
<1> QED
  BY <1>6, <1>7, <1>8, <1>9, <1>10, <1>11, <1>12 DEF IInv

\* Spawn: a new group, to which nobody sends anything yet.
LEMMA SpawnsInv ==
    ASSUME IInv, Alive, Here("spawn"), Continue("attach"),
           group' = [number |-> group.number + 1, alive |-> TRUE, told |-> <<>>, late |-> FALSE],
           UNCHANGED <<shared, watch, arriving, heard, echo, ended>>
    PROVE  IInv'
<1>1. /\ at["command"] = "spawn"
      /\ at' \in [Threads -> SignalsAt \cup CommandAt]
      /\ at'["command"] = "attach" /\ at'["signals"] = at["signals"]
      /\ at'["command"] \in CommandAt
  BY CommandMoves DEF IInv, Here, Continue, Groups, CommandAt
<1>2. /\ group' \in Groups /\ group'.alive /\ group'.told = <<>>
      /\ UNCHANGED <<state, session, pgid, watch, arriving, heard, echo, ended, run>>
  BY EmptySeq DEF IInv, Here, Continue, Groups, TypeOK, SignalTypeOK, world, shared
<1>3. HeardOK' /\ SignalOK' /\ LeavesNothing'
  BY <1>1, <1>2 DEF IInv, HeardOK, SignalOK, There, Signalled, Ends, LeavesNothing, Alive
<1>4. TypeOK'
  BY <1>1, <1>2 DEF IInv, TypeOK, SignalTypeOK, PhaseOK, Threads
<1>5. RunOK'
  BY <1>1, <1>2 DEF IInv, RunOK, PartPlaces, CommandAt, Here, Part, Signalled
<1>6. EchoOK'
  BY <1>1, <1>2 DEF IInv, EchoOK, Here, There, Part, Leaving, Ends
<1>7. ChildOK'
  BY <1>1, <1>2 DEF IInv, ChildOK, InChild, Ends
<1>8. ToldOK'
  BY <1>1, <1>2 DEF IInv, ToldOK, Last, Here, There, InChild, Threads, Signalled
<1>9. NoticedOK'
  BY <1>1, <1>2 DEF IInv, NoticedOK, Here, There, Part, Signalled, Ends
<1> QED
  BY <1>3, <1>4, <1>5, <1>6, <1>7, <1>8, <1>9 DEF IInv

\* Spawn: no child.
LEMMA SpawnFailsInv ==
    ASSUME IInv, Alive, Here("spawn"), With("failed", "end"), Quiet
    PROVE  IInv'
<1>1. at["command"] = "spawn" /\ Quiet
  BY DEF Here, Here
<1>2. PICK place :
         /\ Go("command", place)
         /\ place = "end" /\ Resulted("failed")
  BY <1>1, RunMoves DEF Here, Here, Results, PartPlaces, CommandAt
<1>3. place \in CommandAt
  BY <1>2 DEF CommandAt
<1>4. /\ at' \in [Threads -> SignalsAt \cup CommandAt]
      /\ at'["command"] = place /\ at'["signals"] = at["signals"]
  BY <1>2, <1>3, CommandMoves DEF IInv
<1>5. UNCHANGED <<state, session, pgid, watch, arriving, heard, echo, group, ended>> /\ run' \in Runs
  BY <1>1, <1>2 DEF Quiet, shared, world, IInv, TypeOK, Resulted, Passed
<1>6. HeardOK' /\ SignalOK' /\ LeavesNothing'
  BY <1>1, <1>2, <1>3, <1>4, <1>5 DEF IInv, HeardOK, SignalOK, There, Signalled, Ends,
     LeavesNothing, Alive
<1>7. TypeOK'
  BY <1>1, <1>2, <1>3, <1>4, <1>5 DEF IInv, TypeOK, SignalTypeOK, PhaseOK, Threads
<1>8. RunOK'
  BY <1>1, <1>2, <1>3, <1>4, <1>5 DEF IInv, RunOK, PartPlaces, CommandAt, Here, Part, Signalled,
     Resulted, Passed
<1>9. EchoOK'
  BY <1>1, <1>2, <1>3, <1>4, <1>5 DEF IInv, EchoOK, Here, There, Part, Leaving, Ends, Resulted,
     Passed
<1>10. ChildOK'
  BY <1>1, <1>2, <1>3, <1>4, <1>5 DEF IInv, ChildOK, InChild, Ends
<1>11. ToldOK'
  BY <1>1, <1>2, <1>3, <1>4, <1>5 DEF IInv, ToldOK, Last, Here, There, InChild, Threads, Signalled
<1>12. NoticedOK'
  BY <1>1, <1>2, <1>3, <1>4, <1>5 DEF IInv, NoticedOK, Here, There, Part, Signalled, Ends,
     Resulted, Passed
<1> QED
  BY <1>6, <1>7, <1>8, <1>9, <1>10, <1>11, <1>12 DEF IInv

\* EnterPhase: each kind of part has its phase.
LEMMA EnterPhaseInv ==
    ASSUME IInv, Alive, EnterPhase
    PROVE  IInv'
<1>1. at["command"] = "enter" /\ run.todo # <<>> /\ Part \in Parts
  <2>1. at["command"] = "enter" /\ run.todo # <<>> /\ run.todo \in Seq(Parts)
    BY DEF EnterPhase, Here, IInv, TypeOK, Runs, RunOK, PartPlaces, CommandAt
  <2> QED
    BY <2>1, HeadTailProperties DEF Part
<1>2. PICK place :
         /\ Go("command", place)
         /\ UNCHANGED <<session, pgid, watch, arriving, heard, echo, group, ended>>
         /\ \/ Part = "hidden" /\ place = "save" /\ run' = run /\ state'.phase = "prompt"
            \/ Part = "confirm" /\ place = "read" /\ run' = run /\ state'.phase = "prompt"
            \/ Part = "stdin" /\ place = "read" /\ run' = run /\ state'.phase = "waiting"
            \/ Part = "body" /\ place = "checkBody" /\ run' = run /\ state'.phase = "body"
            \/ Part = "change" /\ place = "lock" /\ run' = run /\ state'.phase = "waiting"
  <2> DEFINE to == CASE Part = "hidden" -> "save"
                     [] Part \in {"confirm", "stdin"} -> "read"
                     [] Part = "body" -> "checkBody"
                     [] Part = "change" -> "lock"
             phase == PhaseOf(Part)
  <2>1. \/ Part = "hidden" /\ to = "save" /\ phase = "prompt"
        \/ Part = "confirm" /\ to = "read" /\ phase = "prompt"
        \/ Part = "stdin" /\ to = "read" /\ phase = "waiting"
        \/ Part = "body" /\ to = "checkBody" /\ phase = "body"
        \/ Part = "change" /\ to = "lock" /\ phase = "waiting"
    <3>1. Part \in {"hidden", "confirm", "stdin", "body", "change"}
      BY <1>1 DEF IInv, RunOK, Here
    <3> QED
      BY <3>1 DEF PhaseOf
  <2>2. Continue(to) /\ state' = [state EXCEPT !.phase = phase]
    BY DEF EnterPhase
  <2> HIDE DEF to, phase
  <2>3. state'.phase = phase
    BY <2>2 DEF IInv, TypeOK, SignalTypeOK, SharedStates
  <2>4. run' = run /\ Go("command", to)
    BY <2>2 DEF Continue
  <2>5. UNCHANGED <<session, pgid, watch, arriving, heard, echo, group, ended>>
    BY DEF EnterPhase, world
  <2> QED
    BY <2>1, <2>3, <2>4, <2>5
<1>3. place \in CommandAt
  BY <1>2 DEF CommandAt
<1>4. /\ at' \in [Threads -> SignalsAt \cup CommandAt]
      /\ at'["command"] = place /\ at'["signals"] = at["signals"]
  BY <1>2, <1>3, CommandMoves DEF IInv
<1>5. /\ state' \in SharedStates /\ state'.code = state.code /\ state'.writing = state.writing
      /\ state'.mode = state.mode /\ state'.child = state.child
      /\ state'.forwarded = state.forwarded
      /\ run' \in Runs
  BY <1>2 DEF EnterPhase, IInv, TypeOK, SignalTypeOK, SharedStates, Phases, Passed, PhaseOf
<1>6. HeardOK' /\ SignalOK' /\ LeavesNothing'
  BY <1>1, <1>2, <1>3, <1>4, <1>5 DEF IInv, HeardOK, SignalOK, There, Signalled, Ends,
     LeavesNothing, Alive
<1>7. TypeOK'
  BY <1>1, <1>2, <1>3, <1>4, <1>5 DEF IInv, TypeOK, SignalTypeOK, PhaseOK, Threads
<1>8. RunOK'
  BY <1>1, <1>2, <1>3, <1>4, <1>5 DEF IInv, RunOK, PartPlaces, CommandAt, Here, Part, Signalled
<1>9. EchoOK'
  BY <1>1, <1>2, <1>3, <1>4, <1>5 DEF IInv, EchoOK, Here, There, Part, Leaving, Ends
<1>10. ChildOK'
  BY <1>1, <1>2, <1>3, <1>4, <1>5 DEF IInv, ChildOK, InChild, Ends
<1>11. ToldOK'
  BY <1>1, <1>2, <1>3, <1>4, <1>5 DEF IInv, ToldOK, Last, Here, There, InChild, Threads, Signalled
<1>12. NoticedOK'
  BY <1>1, <1>2, <1>3, <1>4, <1>5 DEF IInv, NoticedOK, Here, There, Part, Signalled, Ends
<1> QED
  BY <1>6, <1>7, <1>8, <1>9, <1>10, <1>11, <1>12 DEF IInv

\* LeavePhase: a value that was bad is asked for again.
LEMMA LeavePhaseInv ==
    ASSUME IInv, Alive, LeavePhase
    PROVE  IInv'
<1>1. at["command"] = "leave" /\ run.todo # <<>> /\ Part \in Parts
  <2>1. at["command"] = "leave" /\ run.todo # <<>> /\ run.todo \in Seq(Parts)
    BY DEF LeavePhase, Here, IInv, TypeOK, Runs, RunOK, PartPlaces, CommandAt
  <2> QED
    BY <2>1, HeadTailProperties DEF Part
<1>2. PICK place :
         /\ Go("command", place)
         /\ UNCHANGED <<session, pgid, watch, arriving, heard, echo, group, ended>>
         /\ \/ place = "end" /\ run' = run /\ run.result # "none" /\ state'.phase = "normal"
            \/ place = "enter" /\ run' = run /\ Part = "hidden" /\ state'.phase = "normal"
            \/ place = "apply" /\ run' = run /\ state'.phase = "normal"
            \/ place = "next" /\ Passed /\ state'.phase = "normal"
  <2>1. state'.phase = "normal" /\ UNCHANGED <<session, pgid, watch, arriving, heard, echo, group, ended>>
    BY DEF LeavePhase, world, IInv, TypeOK, SignalTypeOK, SharedStates
  <2>2. CASE run.result # "none"
    <3>1. Continue("end")
      BY <2>2 DEF LeavePhase
    <3> QED
      BY <2>1, <2>2, <3>1 DEF Continue
  <2>3. CASE run.result = "none" /\ run.reply = "again"
    <3>1. Continue("enter") /\ Part = "hidden"
      BY <2>3 DEF LeavePhase, IInv, RunOK
    <3> QED
      BY <2>1, <2>3, <3>1 DEF Continue
  <2>4. CASE run.result = "none" /\ run.reply # "again"
    <3>1. Continue("apply") \/ PartDone
      BY <2>4 DEF LeavePhase
    <3>2. at["command"] \in PartPlaces
      BY <1>1 DEF PartPlaces, CommandAt
    <3> QED
      BY <2>1, <3>1, <3>2, RunMoves DEF Continue, Results
  <2> QED
    BY <2>2, <2>3, <2>4
<1>3. place \in CommandAt
  BY <1>2 DEF CommandAt
<1>4. /\ at' \in [Threads -> SignalsAt \cup CommandAt]
      /\ at'["command"] = place /\ at'["signals"] = at["signals"]
  BY <1>2, <1>3, CommandMoves DEF IInv
<1>5. /\ state' \in SharedStates /\ state'.code = state.code /\ state'.writing = state.writing
      /\ state'.mode = state.mode /\ state'.child = state.child
      /\ state'.forwarded = state.forwarded
      /\ run' \in Runs
  BY <1>2 DEF LeavePhase, IInv, TypeOK, SignalTypeOK, SharedStates, Phases, Passed, PhaseOf
<1>6. HeardOK' /\ SignalOK' /\ LeavesNothing'
  BY <1>1, <1>2, <1>3, <1>4, <1>5 DEF IInv, HeardOK, SignalOK, There, Signalled, Ends,
     LeavesNothing, Alive
<1>7. TypeOK'
  BY <1>1, <1>2, <1>3, <1>4, <1>5 DEF IInv, TypeOK, SignalTypeOK, PhaseOK, Threads
<1>8. RunOK'
  BY <1>1, <1>2, <1>3, <1>4, <1>5 DEF IInv, RunOK, PartPlaces, CommandAt, Here, Part, Signalled,
     Passed
<1>9. EchoOK'
  BY <1>1, <1>2, <1>3, <1>4, <1>5 DEF IInv, EchoOK, Here, There, Part, Leaving, Ends
<1>10. ChildOK'
  BY <1>1, <1>2, <1>3, <1>4, <1>5 DEF IInv, ChildOK, InChild, Ends
<1>11. ToldOK'
  BY <1>1, <1>2, <1>3, <1>4, <1>5 DEF IInv, ToldOK, Last, Here, There, InChild, Threads, Signalled
<1>12. NoticedOK'
  BY <1>1, <1>2, <1>3, <1>4, <1>5 DEF IInv, NoticedOK, Here, There, Part, Signalled, Ends
<1> QED
  BY <1>6, <1>7, <1>8, <1>9, <1>10, <1>11, <1>12 DEF IInv

-----------------------------------------------------------------------------
(* What others do, and the end *)

\* Arrive: a signal is sent, one more at most than was received.
LEMMA ArriveInv ==
    ASSUME IInv, Alive, NEW s \in Interrupts, Arrive(s), UNCHANGED run
    PROVE  IInv'
<1>1. /\ UNCHANGED <<state, session, pgid, at, watch, heard, echo, group, ended, run>>
      /\ s \notin arriving /\ arriving' = arriving \cup {s}
      /\ heard + Cardinality(arriving) < MaxSignals
  BY DEF Arrive, shared
<1>2. TypeOK'
  BY <1>1 DEF IInv, TypeOK, SignalTypeOK, PhaseOK
<1>3. HeardOK'
  <2>1. IsFiniteSet(arriving) /\ Cardinality(arriving) \in Nat /\ heard \in Nat /\ MaxSignals \in Nat
    BY FS_CardinalityType, SignalAssumption DEF IInv, HeardOK, TypeOK, SignalTypeOK
  <2>2. IsFiniteSet(arriving') /\ Cardinality(arriving') = Cardinality(arriving) + 1
    BY <1>1, <2>1, FS_AddElement
  <2> QED
    BY <1>1, <2>1, <2>2 DEF HeardOK
<1>4. SignalOK' /\ RunOK' /\ EchoOK'
  BY <1>1 DEF IInv, SignalOK, RunOK, EchoOK, Here, There, Part, Signalled, Ends, Leaving
<1>5. ChildOK' /\ ToldOK' /\ NoticedOK' /\ LeavesNothing'
  BY <1>1 DEF IInv, ChildOK, ToldOK, NoticedOK, LeavesNothing, Here, There, Part, Signalled, Ends,
     Last, Alive
<1> QED
  BY <1>2, <1>3, <1>4, <1>5 DEF IInv

\* ChildEnds: a child may end at any time.
LEMMA ChildEndsInv ==
    ASSUME IInv, Alive, ChildEnds
    PROVE  IInv'
<1>1. /\ UNCHANGED <<state, session, pgid, at, watch, arriving, heard, echo, ended, run>>
      /\ group' \in Groups /\ ~group'.alive /\ group'.number = group.number
      /\ group'.told = group.told
  BY DEF ChildEnds, shared, IInv, TypeOK, SignalTypeOK, Groups
<1>2. TypeOK' /\ HeardOK'
  BY <1>1 DEF IInv, TypeOK, SignalTypeOK, PhaseOK, HeardOK
<1>3. SignalOK' /\ RunOK' /\ EchoOK'
  BY <1>1 DEF IInv, SignalOK, RunOK, EchoOK, Here, There, Part, Signalled, Ends, Leaving
<1>4. ChildOK' /\ NoticedOK' /\ LeavesNothing'
  BY <1>1 DEF IInv, ChildOK, NoticedOK, LeavesNothing, Here, There, Part, Signalled, Ends, Alive
<1>5. ToldOK'
  BY <1>1 DEF IInv, ToldOK, Here, There, Last, Signalled
<1> QED
  BY <1>2, <1>3, <1>4, <1>5 DEF IInv

\* Exit and ExitNow: echo is on, and no child the other thread could know of
\* is left.
LEMMA ExitsInv ==
    ASSUME IInv, Alive, (Exit \/ (ExitNow /\ UNCHANGED run))
    PROVE  IInv'
<1>1. UNCHANGED <<state, session, pgid, at, watch, arriving, heard, echo, group, run>>
  BY DEF Exit, ExitNow, shared, world
<1>2. ended' \in {"no", "done", "error"} \cup Interrupts
  <2>1. state.code \in Interrupts \cup {None} /\ run.result \in Results
    BY DEF IInv, TypeOK, SignalTypeOK, SharedStates, Runs
  <2>2. CASE ExitNow /\ UNCHANGED run
    BY <2>1, <2>2 DEF ExitNow, IInv, SignalOK, Signalled
  <2>3. CASE Exit
    <3>1. run.result # "none" /\ (run.result = "interrupted" => Signalled)
      BY <2>3 DEF IInv, RunOK, Exit, Here
    <3>2. CASE run.result = "done"
      BY <2>3, <3>2 DEF Exit
    <3>3. CASE run.result = "interrupted"
      BY <2>1, <2>3, <3>1, <3>3 DEF Exit, Signalled
    <3>4. CASE run.result = "cancelled"
      BY <2>3, <3>4, SignalAssumption DEF Exit
    <3>5. CASE run.result = "failed"
      BY <2>3, <3>5 DEF Exit
    <3>6. CASE run.result = "unwritten"
      BY <2>1, <2>3, <3>6 DEF Exit, Signalled
    <3> QED
      BY <2>1, <3>1, <3>2, <3>3, <3>4, <3>5, <3>6 DEF Results
  <2> QED
    BY <2>2, <2>3
<1>3. TypeOK' /\ HeardOK'
  BY <1>1, <1>2 DEF IInv, TypeOK, SignalTypeOK, PhaseOK, HeardOK
<1>4. SignalOK' /\ RunOK' /\ EchoOK'
  BY <1>1 DEF IInv, SignalOK, RunOK, EchoOK, Here, There, Part, Signalled, Ends, Leaving
<1>5. ChildOK' /\ ToldOK' /\ NoticedOK'
  BY <1>1 DEF IInv, ChildOK, ToldOK, NoticedOK, Here, There, Part, Signalled, Ends, Last
<1>6. LeavesNothing'
  <2>1. CASE ExitNow /\ UNCHANGED run
    <3>1. There("exit") /\ Ends
      BY <2>1 DEF ExitNow, There, IInv, SignalOK
    <3> QED
      BY <1>1, <3>1 DEF IInv, EchoOK, ChildOK, LeavesNothing, There
  <2>2. CASE Exit
    <3>1. Here("exit")
      BY <2>2 DEF Exit
    <3> QED
      BY <1>1, <3>1 DEF IInv, EchoOK, ChildOK, InChild, LeavesNothing, Here
  <2> QED
    BY <2>1, <2>2
<1> QED
  BY <1>3, <1>4, <1>5, <1>6 DEF IInv

-----------------------------------------------------------------------------
(* The theorems *)

\* Every initial state satisfies the inductive invariant.
LEMMA InitInv == Init => IInv
<1> SUFFICES ASSUME Init PROVE IInv
  OBVIOUS
<1>1. PICK p \in Programs :
        run = [todo |-> p.parts, prints |-> p.prints, reply |-> "none", waited |-> 0,
               result |-> "none"]
  BY DEF Init
<1>2. /\ at \in [Threads -> SignalsAt \cup CommandAt]
      /\ at["signals"] = "idle" /\ at["signals"] \in SignalsAt
      /\ at["command"] = "next" /\ at["command"] \in CommandAt
  BY DEF Init, Threads, SignalsAt, CommandAt
<1>3. /\ state = [code |-> None, writing |-> FALSE, phase |-> "normal",
                mode |-> FALSE, child |-> None, forwarded |-> FALSE]
      /\ session = FALSE /\ pgid = [t \in Threads |-> None]
      /\ watch = [got |-> None, first |-> FALSE, action |-> "none", mode |-> FALSE]
      /\ arriving = {} /\ heard = 0 /\ echo = "on" /\ ended = "no"
      /\ group = [number |-> 0, alive |-> FALSE, told |-> <<>>, late |-> FALSE]
  BY DEF Init, SignalInit
<1>4. HeardOK
  BY <1>3, FS_EmptySet, SignalAssumption DEF HeardOK
<1>5. state \in SharedStates /\ watch \in Watches /\ group \in Groups /\ run \in Runs
  <2>1. state \in SharedStates /\ watch \in Watches
    BY <1>3 DEF SharedStates, Phases, Watches, Actions
  <2>2. group \in Groups
    BY <1>3, EmptySeq DEF Groups
  <2>3. run \in Runs
    BY <1>1, ProgramAssumption DEF Runs, Results
  <2> QED
    BY <2>1, <2>2, <2>3
<1>6. TypeOK
  <2>1. SignalTypeOK
    <3>1. pgid \in [Threads -> Nat \cup {None}] /\ heard \in 0 .. MaxSignals
      BY <1>3, SignalAssumption
    <3>2. session \in BOOLEAN /\ arriving \subseteq Interrupts /\ echo \in {"on", "off", "late"}
      BY <1>3
    <3> QED
      BY <1>2, <1>3, <1>5, <3>1, <3>2 DEF SignalTypeOK
  <2>2. PhaseOK
    BY <1>2, <1>3 DEF PhaseOK
  <2> QED
    BY <1>2, <1>5, <2>1, <2>2 DEF TypeOK
<1>7. SignalOK /\ EchoOK /\ ChildOK /\ NoticedOK /\ LeavesNothing
  BY <1>2, <1>3, SignalAssumption
     DEF SignalOK, EchoOK, ChildOK, NoticedOK, LeavesNothing, Here, There, Part, Signalled, Ends,
         Leaving,
         InChild, Alive
<1>8. RunOK
  BY <1>1, <1>2, <1>3 DEF RunOK, PartPlaces, Here, Part, Signalled
<1>9. ToldOK
  BY <1>2, <1>3 DEF ToldOK, Here, There, Threads
<1> QED
  BY <1>4, <1>6, <1>7, <1>8, <1>9 DEF IInv

\* Every step of the command keeps the inductive invariant.
LEMMA CommandInv == ASSUME IInv, Alive, CommandStep PROVE IInv'
<1>1. CASE PromptStep
  BY <1>1, NextPartInv, EnterPhaseInv, LeavePhaseInv, CheckBodyInv, SaveModeInv, SilenceInv,
     UnsilenceInv, ForgetInv DEF PromptStep
<1>2. CASE LockStep
  BY <1>2, LockInv, ApplyInv DEF LockStep
<1>3. CASE RequestStep
  BY <1>3, RequestInv, PauseInv DEF RequestStep
<1>4. CASE ChildStep
  <2>1. CASE Spawn
    <3>1. CASE With("failed", "end") /\ UNCHANGED group
      BY <2>1, <3>1, SpawnFailsInv DEF Spawn, Quiet, world
    <3>2. CASE /\ Continue("attach")
               /\ group' = [number |-> group.number + 1, alive |-> TRUE, told |-> <<>>, late |-> FALSE]
      BY <2>1, <3>2, SpawnsInv DEF Spawn
    <3> QED
      BY <2>1, <3>1, <3>2 DEF Spawn
  <2> QED
    BY <1>4, <2>1, ResetForwardedInv, AttachInv, TellChildInv, ReapInv, DetachInv, ReapedInv,
       FindGroupCommand, ClaimForwardingCommand, TellGroupCommand DEF ChildStep, Forwarding
<1>5. CASE EndStep
  BY <1>5, ConcludeInv, LookBeforeWriteInv, ExitsInv, BeginWriteInv, EndWriteInv DEF EndStep
<1> QED
  BY <1>1, <1>2, <1>3, <1>4, <1>5 DEF CommandStep

\* Every step of the signal thread keeps it.
LEMMA SignalsInv == ASSUME IInv, Alive, Signals PROVE IInv'
<1> UNCHANGED run
  BY DEF Signals
<1>1. CASE SeeChild
  <2>1. \E action, place : Chosen(action, place) /\ Decides(action, place)
    BY <1>1 DEF SeeChild, Chosen, There
  <2> QED
    BY <2>1, DecidesInv
<1>2. CASE SeeWriting
  <2>1. \E action, place : Chosen(action, place) /\ Decides(action, place)
    BY <1>2 DEF SeeWriting, Chosen, There
  <2> QED
    BY <2>1, DecidesInv
<1>3. CASE SeePhase
  <2>1. \E action, place : Chosen(action, place) /\ Decides(action, place)
    <3>1. There("phase") /\ state.phase \in Phases
      BY <1>3 DEF SeePhase, There, IInv, TypeOK, SignalTypeOK, SharedStates
    <3>2. CASE state.phase = "prompt"
      <4>1. Decides("cancelPrompt", "take")
        BY <1>3, <3>2 DEF SeePhase
      <4> QED
        BY <3>1, <3>2, <4>1 DEF Chosen
    <3>3. CASE state.phase \in {"waiting", "body"}
      <4>1. Decides("exit", "take")
        BY <1>3, <3>3 DEF SeePhase
      <4> QED
        BY <3>1, <3>3, <4>1 DEF Chosen
    <3>4. CASE state.phase = "normal"
      <4>1. Decides("cancel", "cancel")
        BY <1>3, <3>4 DEF SeePhase
      <4> QED
        BY <3>1, <3>4, <4>1 DEF Chosen
    <3> QED
      BY <3>1, <3>2, <3>3, <3>4 DEF Phases
  <2> QED
    BY <2>1, DecidesInv
<1>4. CASE CancelSession
  <2>1. watch.action \in {"cancel", "forward"} \/ Ends
    BY <1>4 DEF CancelSession, IInv, SignalOK, There, Ends
  <2> QED
    BY <1>4, <2>1, CancelForwardInv, CancelInv, CancelExitInv
<1> QED
  BY <1>1, <1>2, <1>3, <1>4, ReceiveInv, RecordInv, TakeModeInv, RestoreModeInv, KillChildInv,
     ExitsInv,
     FindGroupSignals, ClaimForwardingSignals, TellGroupSignals DEF Signals, SignalStep, Forwarding

\* Every step keeps the inductive invariant.
LEMMA StepInv == IInv /\ [Next]_vars => IInv'
<1> SUFFICES ASSUME IInv, [Next]_vars PROVE IInv'
  OBVIOUS
<1>1. CASE Alive /\ CommandStep
  BY <1>1, CommandInv
<1>2. CASE Alive /\ Signals
  BY <1>2, SignalsInv
<1>3. CASE Alive /\ Others
  BY <1>3, ReplyInv, WrittenInv, ChildEndsInv, ArriveInv DEF Others
<1>4. CASE UNCHANGED vars
  <2>1. UNCHANGED <<state, session, pgid, at, watch, arriving, heard, echo, group, ended, run>>
    BY <1>4 DEF vars, shared, world
  <2>2. TypeOK' /\ HeardOK' /\ SignalOK' /\ RunOK' /\ EchoOK'
    BY <2>1 DEF IInv, TypeOK, SignalTypeOK, PhaseOK, HeardOK, SignalOK, RunOK, EchoOK, Here, There,
       Part,
                Signalled, Ends, Leaving
  <2>3. ChildOK' /\ ToldOK' /\ NoticedOK' /\ LeavesNothing'
    BY <2>1 DEF IInv, ChildOK, ToldOK, NoticedOK, LeavesNothing, Here, There, Part, Signalled,
       Ends, Last,
                Alive
  <2> QED
    BY <2>2, <2>3 DEF IInv
<1> QED
  BY <1>1, <1>2, <1>3, <1>4 DEF Next

\* The invariant holds of every behaviour of the two threads.
THEOREM Inductive == Spec => []IInv
<1>1. Init => IInv
  BY InitInv
<1>2. IInv /\ [Next]_vars => IInv'
  BY StepInv
<1> QED
  BY <1>1, <1>2, PTL DEF Spec

\* Type correctness of what the threads share, of the signal thread, the
\* terminal, the child's group and the command.
THEOREM TypeCorrect == Spec => []TypeOK
<1>1. IInv => TypeOK
  BY DEF IInv
<1> QED
  BY <1>1, Inductive, PTL

\* Whichever thread ends the process and wherever the other one is, the
\* terminal echoes and no child runs on, the two late windows apart.
THEOREM LeavesTerminalAndChildren == Spec => []LeavesNothing
<1>1. IInv => LeavesNothing
  BY DEF IInv
<1> QED
  BY <1>1, Inductive, PTL

\* Under every interleaving of the two threads a signal that was dealt with has
\* cancelled the session, was forwarded to a child that is waited for, and left
\* neither a write nor the read of a body waiting; and no group is told of a
\* signal twice.
THEOREM SignalsNeverMissed == Spec => []NeverMissed
<1>1. IInv => NeverMissed
  <2> SUFFICES ASSUME IInv PROVE NeverMissed
    OBVIOUS
  <2>1. ASSUME Alive, Signalled, There("idle")
        PROVE  /\ session /\ ~Here("write") /\ ~(Here("read") /\ Part = "body")
               /\ Here("wait") => state.forwarded
    BY <2>1 DEF IInv, SignalOK, NoticedOK, There
  <2>2. ASSUME There("idle"), Here("wait"), group.alive, state.forwarded
        PROVE  group.told = <<state.code>>
    BY <2>2 DEF IInv, ToldOK, There, Here
  <2>3. \A i \in 2 .. Len(group.told) : group.told[i] = "KILL"
    BY DEF IInv, ToldOK
  <2>4. \A c : <<c>> # <<>> /\ <<c>>[1] = c
    OBVIOUS
  <2> QED
    BY <2>1, <2>2, <2>3, <2>4 DEF NeverMissed, There
<1> QED
  BY <1>1, Inductive, PTL


=============================================================================

--------------------------- MODULE BulkJobProofs ---------------------------
(***************************************************************************)
(* Proofs about BulkJob, for every number of prompts, batch and chunk      *)
(* size, every retry bound and any number of runs: types, that no prompt   *)
(* is accepted by the service twice, that the journal is complete and      *)
(* passes the checks of JobState::validate, the order of the batches, the  *)
(* exit of a run, and that every step of the job is a step of BulkPromise. *)
(*                                                                         *)
(* NeverAcceptedTwice is not inductive.  A prompt is sent when the memory  *)
(* of the process says `pending`, memory comes from the state file, and a  *)
(* power loss may put back any file that was not yet synced: so the        *)
(* strengthening IInv says that every file that could be read (VersionOK), *)
(* and memory itself (MemOK), mark what was sent; that a request in flight *)
(* is the last attempt of a journal already safe on disk (FlightOK), so a  *)
(* refusal takes off the wire exactly the prompts it makes `pending`       *)
(* again; and that the requests on the wire are disjoint (WireOK), so      *)
(* that none can arrive after its prompts were resent.                     *)
(*                                                                         *)
(* IInv says what the service has, not what the journal says of it.  Three *)
(* strengthenings are added, each on the ones before it.  JInv ties the    *)
(* journal to the statuses and memory to the file it was saved in; OInv    *)
(* says how far the current run has come; PInv says that what the readable *)
(* state files hold of one prompt differs only around a request in flight, *)
(* which is why a power loss is a step of the promise.                     *)
(***************************************************************************)
EXTENDS BulkJob, TLAPS, SequenceTheorems, FiniteSetTheorems

\* Nothing was ever sent.
Quiet == wire = {} /\ \A i \in Items : accepted[i] = 0

\* The state s marks everything that was sent, and its journal knows every
\* attempt on the wire.
Safe(s) == \A i \in Items : Sent(i) => s.status[i] # "pending"
Known(s) == \A q \in wire : q.attempt <= Len(s.attempts)

\* Requests on the wire are over disjoint prompts the service does not have.
WireOK ==
    /\ \A q \in wire, i \in Items : i \in q.items => accepted[i] = 0
    /\ \A q, r \in wire, i \in Items : i \in q.items /\ i \in r.items => q = r

VersionOK(v) == IF v = NoState THEN Quiet ELSE Safe(v) /\ Known(v)

StartOK == starts = 0 => Quiet /\ pc = "idle"

MemOK == pc # "idle" => mem \in JobStates /\ Safe(mem) /\ Known(mem)

\* What is left to send in the current batch is pending in memory.
SubmitOK ==
    /\ pc \in {"submit", "post", "wait"} =>
         /\ run.todo \subseteq Batch(run.batch)
         /\ run.chunk \subseteq run.todo
         /\ \A i \in run.todo : (i \in run.chunk /\ pc # "submit") \/ mem.status[i] = "pending"
    /\ pc = "poll" => run.chunk = {}

\* From C1 to the answer, memory is safe on disk and the chunk is marked.
FlightOK ==
    pc \in {"post", "wait"} =>
        /\ stale = {} /\ disk = mem
        /\ Len(mem.attempts) > 0
        /\ \A i \in run.chunk : mem.status[i] = "submitting"

PostOK ==
    pc = "post" =>
        /\ \A i \in run.chunk : ~Sent(i)
        /\ \A q \in wire : q.attempt < Len(mem.attempts)

WaitOK == pc = "wait" => \A q \in InFlight : q.items = run.chunk

\* A first run has not touched the batches after the current one.
LaterOK ==
    (run.mode = "new" /\ pc \in {"submit", "post", "wait", "poll"}) =>
        \A i \in Items : i \div BatchSize > run.batch => mem.status[i] = "pending"

\* What holds of the disk and the service, whether or not a process runs.
World ==
    /\ disk \in JobStates \cup {NoState}
    /\ stale \subseteq JobStates \cup {NoState}
    /\ wire \subseteq Requests
    /\ accepted \in [Items -> Nat]
    /\ starts \in 0 .. MaxStarts
    /\ WireOK
    /\ NeverAcceptedTwice
    /\ \A v \in Versions : VersionOK(v)

\* The inductive invariant.
IInv ==
    /\ TypeOK
    /\ World
    /\ StartOK
    /\ MemOK
    /\ SubmitOK
    /\ FlightOK
    /\ PostOK
    /\ WaitOK
    /\ LaterOK

-----------------------------------------------------------------------------
(* What the operators on job states return *)

\* The journal of a job state, with its length.
LEMMA JournalTyped ==
    ASSUME NEW s \in JobStates
    PROVE  /\ s.attempts \in Seq(Attempts)
           /\ Len(s.attempts) \in Nat
           /\ DOMAIN s.attempts = 1 .. Len(s.attempts)
           /\ \A a \in 1 .. Len(s.attempts) : s.attempts[a] \in Attempts
<1>1. s.attempts \in Seq(Attempts)
  BY DEF JobStates
<1> QED
  BY <1>1, LenProperties, ElementOfSeq

\* A sequence given by a function over 1 .. n has length n.
LEMMA SeqOfFunction ==
    ASSUME NEW S, NEW n \in Nat, NEW f \in [1 .. n -> S]
    PROVE  f \in Seq(S) /\ Len(f) = n
<1>1. f \in Seq(S)
  BY SeqDef
<1>2. DOMAIN f = 1 .. Len(f) /\ Len(f) \in Nat
  BY <1>1, LenProperties
<1> QED
  BY <1>1, <1>2

\* A new job is a job state in which everything is pending.
LEMMA NewStateTyped ==
    /\ NewState \in JobStates
    /\ \A i \in Items : NewState.status[i] = "pending"
<1>1. <<>> \in Seq(Attempts)
  BY EmptySeq
<1>2. [i \in Items |-> "pending"] \in [Items -> Statuses]
  BY DEF Statuses
<1> QED
  BY <1>1, <1>2 DEF NewState, JobStates

\* Launched (C1) adds one attempt and marks exactly the chunk.
LEMMA LaunchedTyped ==
    ASSUME NEW s \in JobStates, NEW chunk \in SUBSET Items
    PROVE  LET t == Launched(s, chunk) IN
           /\ t \in JobStates
           /\ Len(t.attempts) = Len(s.attempts) + 1
           /\ \A i \in Items : t.status[i] = IF i \in chunk THEN "submitting" ELSE s.status[i]
<1> DEFINE t == Launched(s, chunk)
           new == [items |-> chunk, outcome |-> "inFlight"]
           js == Append(s.attempts, new)
           at == [i \in Items |-> IF i \in chunk THEN Len(s.attempts) + 1 ELSE s.attempt[i]]
           st == [i \in Items |-> IF i \in chunk THEN "submitting" ELSE s.status[i]]
<1>1. new \in Attempts
  BY DEF Attempts, Outcomes
<1>2. js \in Seq(Attempts) /\ Len(js) = Len(s.attempts) + 1
  BY <1>1, JournalTyped, AppendProperties
<1>3. at \in [Items -> Nat]
  BY JournalTyped DEF JobStates
<1>4. st \in [Items -> Statuses]
  BY DEF JobStates, Statuses
<1>5. s.scan \in [Items -> ScanIds \cup {NoScan}]
  BY DEF JobStates
<1>6. t = [s EXCEPT !.attempts = js, !.attempt = at, !.status = st]
  BY DEF Launched
<1>7. \A i \in Items : st[i] = IF i \in chunk THEN "submitting" ELSE s.status[i]
  OBVIOUS
<1> HIDE DEF t, js, at, st
<1>8. t \in JobStates /\ t.attempts = js /\ t.status = st
  BY <1>2, <1>3, <1>4, <1>5, <1>6 DEF JobStates
<1> QED
  BY <1>2, <1>7, <1>8 DEF t

\* Ended (C3) keeps the journal's length and marks exactly the chunk.
LEMMA EndedTyped ==
    ASSUME NEW s \in JobStates, NEW chunk \in SUBSET Items, Len(s.attempts) > 0,
           NEW outcome \in Outcomes, NEW status \in Statuses,
           NEW scan \in ScanIds \cup {NoScan}
    PROVE  LET t == Ended(s, chunk, outcome, status, scan) IN
           /\ t \in JobStates
           /\ Len(t.attempts) = Len(s.attempts)
           /\ \A i \in Items : t.status[i] = IF i \in chunk THEN status ELSE s.status[i]
<1> DEFINE t == Ended(s, chunk, outcome, status, scan)
           n == Len(s.attempts)
           last == [s.attempts[n] EXCEPT !.outcome = outcome]
           js == [s.attempts EXCEPT ![n] = last]
           st == [i \in Items |-> IF i \in chunk THEN status ELSE s.status[i]]
           sc == [i \in Items |-> IF i \in chunk THEN scan ELSE s.scan[i]]
<1>1. n \in 1 .. Len(s.attempts) /\ s.attempts[n] \in Attempts
  BY JournalTyped
<1>2. last \in Attempts
  BY <1>1 DEF Attempts
<1>3. js \in Seq(Attempts) /\ Len(js) = Len(s.attempts)
  <2>1. s.attempts \in Seq(Attempts)
    BY JournalTyped
  <2> HIDE DEF last, n
  <2> QED
    BY <1>1, <1>2, <2>1, ExceptSeq
<1>4. /\ st \in [Items -> Statuses]
      /\ sc \in [Items -> ScanIds \cup {NoScan}]
      /\ s.attempt \in [Items -> Nat]
  BY DEF JobStates
<1>5. t = [s EXCEPT !.attempts = js, !.status = st, !.scan = sc]
  BY DEF Ended
<1>6. \A i \in Items : st[i] = IF i \in chunk THEN status ELSE s.status[i]
  OBVIOUS
<1> HIDE DEF t, js, st, sc
<1>7. t \in JobStates /\ t.attempts = js /\ t.status = st
  BY <1>3, <1>4, <1>5 DEF JobStates
<1> QED
  BY <1>3, <1>6, <1>7 DEF t

\* Settled keeps the journal's length and every pending prompt.
LEMMA SettledTyped ==
    ASSUME NEW s \in JobStates
    PROVE  LET t == Settled(s) IN
           /\ t \in JobStates
           /\ Len(t.attempts) = Len(s.attempts)
           /\ \A i \in Items : t.status[i] = "pending" <=> s.status[i] = "pending"
<1> DEFINE t == Settled(s)
           n == Len(s.attempts)
           open == {s.attempt[i] : i \in With(s, "submitting")}
           settled(a) == IF a \in open /\ s.attempts[a].outcome = "inFlight"
                         THEN [s.attempts[a] EXCEPT !.outcome = "unknown"] ELSE s.attempts[a]
           js == [a \in 1 .. n |-> settled(a)]
           st == [i \in Items |-> IF s.status[i] = "submitting" THEN "ambiguous" ELSE s.status[i]]
<1>1. \A a \in 1 .. n : settled(a) \in Attempts
  <2> TAKE a \in 1 .. n
  <2>1. s.attempts[a] \in Attempts
    BY JournalTyped
  <2>2. [s.attempts[a] EXCEPT !.outcome = "unknown"] \in Attempts
    BY <2>1 DEF Attempts, Outcomes
  <2> QED
    BY <2>1, <2>2
<1>2. n \in Nat
  BY JournalTyped
<1>3. js \in [1 .. n -> Attempts]
  BY <1>1
<1>4. js \in Seq(Attempts) /\ Len(js) = n
  <2> HIDE DEF js, n
  <2> QED
    BY <1>2, <1>3, SeqOfFunction
<1>5. /\ st \in [Items -> Statuses]
      /\ s.attempt \in [Items -> Nat] /\ s.scan \in [Items -> ScanIds \cup {NoScan}]
  BY DEF JobStates, Statuses
<1>6. t = [s EXCEPT !.status = st, !.attempts = js]
  BY DEF Settled
<1>7. \A i \in Items : st[i] = "pending" <=> s.status[i] = "pending"
  OBVIOUS
<1> HIDE DEF t, js, st
<1>8. t \in JobStates /\ t.attempts = js /\ t.status = st
  BY <1>4, <1>5, <1>6 DEF JobStates
<1> QED
  BY <1>4, <1>7, <1>8 DEF t

\* Recorded keeps the journal and every prompt but those it resolves.
LEMMA RecordedTyped ==
    ASSUME NEW s \in JobStates, NEW ok, NEW bad
    PROVE  LET t == Recorded(s, ok, bad) IN
           /\ t \in JobStates
           /\ t.attempts = s.attempts
           /\ \A i \in Items : i \notin ok \cup bad => t.status[i] = s.status[i]
           /\ \A i \in ok \cup bad : i \in Items => t.status[i] # "pending"
<1> DEFINE t == Recorded(s, ok, bad)
           status == [i \in Items |->
               IF i \in ok THEN "complete" ELSE IF i \in bad THEN "failed" ELSE s.status[i]]
<1>1. /\ status \in [Items -> Statuses]
      /\ s.attempt \in [Items -> Nat] /\ s.scan \in [Items -> ScanIds \cup {NoScan}]
      /\ s.attempts \in Seq(Attempts)
  BY DEF JobStates, Statuses
<1>2. t \in JobStates /\ t.attempts = s.attempts /\ t.status = status
  BY <1>1 DEF Recorded, JobStates
<1> QED
  BY <1>2

-----------------------------------------------------------------------------
(* The steps every action is made of *)

\* A service that took nothing new has nothing new.
LEMMA SentShrinks ==
    ASSUME wire' \subseteq wire, accepted' = accepted
    PROVE  /\ \A i \in Items : Sent(i)' => Sent(i)
           /\ Quiet => Quiet'
BY DEF Sent, OnWire, Quiet

\* A checkpoint of a state that marks everything sent keeps the world in
\* order, saved or not.
LEMMA WorldSaved ==
    ASSUME IInv, NEW s \in JobStates, NEW save, Checkpoint(s, save),
           wire' \subseteq wire, accepted' = accepted, starts' \in 0 .. MaxStarts,
           \A i \in Items : Sent(i)' => s.status[i] # "pending",
           \A q \in wire' : q.attempt <= Len(s.attempts)
    PROVE  World'
<1>1. Versions' \subseteq Versions \cup {s}
  BY DEF Checkpoint, Versions
<1>2. s # NoState
  BY NoStateAssumption
<1>3. VersionOK(s)'
  <2>1. Safe(s)' /\ Known(s)'
    BY DEF Safe, Known
  <2> QED
    BY <1>2, <2>1 DEF VersionOK
<1>4. \A v \in Versions' : VersionOK(v)'
  <2>1. ASSUME NEW v \in Versions PROVE VersionOK(v)'
    <3>1. VersionOK(v)
      BY <2>1 DEF IInv, World
    <3> QED
      BY <3>1, SentShrinks DEF VersionOK, Safe, Known
  <2>2. \A v \in Versions' : v \in Versions \/ v = s
    BY <1>1
  <2> QED
    BY <1>3, <2>1, <2>2 DEF VersionOK
<1>5. disk' \in JobStates \cup {NoState} /\ stale' \subseteq JobStates \cup {NoState}
  BY DEF Checkpoint, IInv, World
<1>6. WireOK' /\ NeverAcceptedTwice'
  BY DEF WireOK, NeverAcceptedTwice, IInv, World
<1> QED
  BY <1>4, <1>5, <1>6 DEF World, IInv

\* A step that leaves disk and service alone keeps the world in order.
LEMMA WorldSame ==
    ASSUME IInv, UNCHANGED <<disk, stale, wire, accepted>>, starts' \in 0 .. MaxStarts
    PROVE  World'
<1>1. Versions' = Versions
  BY DEF Versions
<1>2. \A v \in Versions' : VersionOK(v)'
  BY <1>1 DEF IInv, World, VersionOK, Safe, Known, Quiet, Sent, OnWire
<1> QED
  BY <1>2 DEF IInv, World, WireOK, NeverAcceptedTwice

\* A process that leaves keeps nothing but the world.
LEMMA LeaveInv ==
    ASSUME World', NEW how \in Exits, Leave(how), starts' = 0 => Quiet'
    PROVE  IInv'
<1>1. NoRun \in Runs
  BY DEF NoRun, Runs, Modes
<1>2. TypeOK'
  BY <1>1 DEF TypeOK, World, Leave, PCs
<1> QED
  BY <1>2 DEF IInv, Leave, StartOK, MemOK, SubmitOK, FlightOK, PostOK, WaitOK, LaterOK

\* A process that enters batch b sends what is pending in it.
LEMMA EnterBatchInv ==
    ASSUME World', NEW mode \in Modes, NEW b \in Nat, NEW s \in JobStates,
           EnterBatch(mode, s, b), cancelled \in BOOLEAN, starts' # 0,
           \A i \in Items : Sent(i)' => s.status[i] # "pending",
           \A q \in wire' : q.attempt <= Len(s.attempts),
           mode = "new" => \A i \in Items : i \div BatchSize >= b => s.status[i] = "pending"
    PROVE  IInv'
<1> DEFINE r == [NoRun EXCEPT !.mode = mode, !.batch = b, !.todo = ToSend(mode, s, b)]
<1>1. ToSend(mode, s, b) \in SUBSET Items /\ ToSend(mode, s, b) \subseteq Batch(b)
  BY DEF ToSend, Batch, Modes
<1>2. /\ r \in Runs
      /\ r.mode = mode /\ r.batch = b /\ r.todo = ToSend(mode, s, b) /\ r.chunk = {}
  BY <1>1 DEF NoRun, Runs
<1>3. /\ pc' = (IF mode = "new" THEN "submit" ELSE "poll") /\ mem' = s /\ run' = r
      /\ exit' = "none" /\ cancelled' = cancelled
  BY DEF EnterBatch, Goto
<1> HIDE DEF r
<1>4. TypeOK'
  BY <1>2, <1>3 DEF TypeOK, World, PCs, Exits
<1>5. MemOK'
  BY <1>3 DEF MemOK, Safe, Known, Sent, OnWire
<1>6. SubmitOK'
  <2> SUFFICES ASSUME mode = "new" PROVE SubmitOK'
    BY <1>2, <1>3 DEF SubmitOK
  <2>1. r.todo = Batch(b)
    BY <1>2 DEF ToSend
  <2>2. \A i \in Batch(b) : i \in Items /\ i \div BatchSize >= b
    BY DEF Batch
  <2> QED
    BY <1>2, <1>3, <2>1, <2>2 DEF SubmitOK
<1>7. LaterOK'
  <2>1. \A i \in Items : i \div BatchSize > b => i \div BatchSize >= b
    BY ConstantsAssumption DEF Items
  <2> QED
    BY <1>2, <1>3, <2>1 DEF LaterOK
<1> QED
  BY <1>3, <1>4, <1>5, <1>6, <1>7 DEF IInv, StartOK, FlightOK, PostOK, WaitOK

-----------------------------------------------------------------------------
(* One lemma per action *)

\* The initial states satisfy the inductive invariant.
LEMMA InitInv == Init => IInv
<1> SUFFICES ASSUME Init PROVE IInv
  OBVIOUS
<1>1. NoRun \in Runs
  BY DEF NoRun, Runs, Modes
<1>2. TypeOK
  <2>1. accepted \in [Items -> Nat] /\ starts \in 0 .. MaxStarts
    BY ConstantsAssumption DEF Init
  <2>2. pc \in PCs /\ exit \in Exits /\ run \in Runs /\ cancelled \in BOOLEAN
    BY <1>1 DEF Init, PCs, Exits
  <2> QED
    BY <2>1, <2>2 DEF Init, TypeOK
<1>3. Quiet
  BY DEF Init, Quiet
<1>4. World
  BY <1>2, <1>3 DEF Init, World, TypeOK, WireOK, NeverAcceptedTwice, Versions, VersionOK
<1> QED
  BY <1>2, <1>3, <1>4 DEF Init, IInv, StartOK, MemOK, SubmitOK, FlightOK, PostOK, WaitOK, LaterOK

\* bulk-scan up to its first checkpoint keeps the invariant, also when that
\* checkpoint fails and its leftovers are undone.
LEMMA StartInv ==
    ASSUME IInv, NEW save \in Saves, Start(save)
    PROVE  IInv'
<1>2. /\ Quiet /\ Quiet' /\ starts' = 1 /\ starts' \in 0 .. MaxStarts
      /\ wire' = wire /\ accepted' = accepted
  BY ConstantsAssumption DEF Start, IInv, TypeOK, StartOK, Quiet, service
<1>3. /\ \A i \in Items : ~Sent(i)'
      /\ \A q \in wire' : FALSE
  BY <1>2, ConstantsAssumption DEF Quiet, Sent, OnWire, IInv, World
<1>4. CASE save = "unsynced"
  <2>1. disk' = NoState /\ stale' = {NewState, NoState} /\ Leave("stopped")
    BY <1>4 DEF Start
  <2>2. \A v \in Versions' : VersionOK(v)'
    BY <1>2, <1>3, <2>1 DEF Versions, VersionOK, Safe, Known
  <2>3. World'
    BY <1>2, <2>1, <2>2, NewStateTyped DEF IInv, World, WireOK, NeverAcceptedTwice
  <2> QED
    BY <1>2, <2>1, <2>3, LeaveInv DEF Exits
<1>5. CASE save # "unsynced"
  <2>1. SaveThen(NewState, save, EnterBatch("new", NewState, 0))
    BY <1>5 DEF Start
  <2>2. World'
    BY <1>2, <1>3, <2>1, NewStateTyped, WorldSaved DEF SaveThen
  <2>3. CASE save = "saved"
    <3>1. EnterBatch("new", NewState, 0)
      BY <2>1, <2>3 DEF SaveThen
    <3>2. cancelled \in BOOLEAN /\ "new" \in Modes
      BY DEF IInv, TypeOK, Modes
    <3> QED
      BY <1>2, <1>3, <2>2, <3>1, <3>2, NewStateTyped, EnterBatchInv
  <2>4. CASE save # "saved"
    BY <1>2, <2>1, <2>2, <2>4, LeaveInv DEF SaveThen, Exits
  <2> QED
    BY <2>3, <2>4
<1> QED
  BY <1>4, <1>5

\* resume-poll up to its first batch keeps the invariant: settling a dead
\* process's attempt makes nothing resendable.
LEMMA ResumeInv ==
    ASSUME IInv, NEW changed \in BOOLEAN, NEW save \in Saves, Resume(changed, save)
    PROVE  IInv'
<1>1. /\ disk \in JobStates /\ disk # NoState /\ disk \in Versions
      /\ starts' # 0 /\ starts' \in 0 .. MaxStarts
      /\ wire' = wire /\ accepted' = accepted /\ cancelled \in BOOLEAN
  BY ConstantsAssumption DEF Resume, IInv, TypeOK, service, Versions
<1>2. PICK s \in JobStates :
        /\ s = Settled(disk)
        /\ Len(s.attempts) = Len(disk.attempts)
        /\ \A i \in Items : s.status[i] = "pending" <=> disk.status[i] = "pending"
  BY <1>1, SettledTyped
<1>3. PICK mode \in Modes :
        /\ mode # "new"
        /\ IF changed \/ With(disk, "submitting") # {}
           THEN SaveThen(s, save, EnterBatch(mode, s, 0))
           ELSE UNCHANGED <<disk, stale>> /\ EnterBatch(mode, s, 0)
  BY <1>2 DEF Resume, Modes
<1>4. Safe(disk) /\ Known(disk)
  BY <1>1 DEF IInv, World, VersionOK
<1>5. /\ \A i \in Items : Sent(i)' => s.status[i] # "pending"
      /\ \A q \in wire' : q.attempt <= Len(s.attempts)
  BY <1>1, <1>2, <1>4, SentShrinks DEF Safe, Known
<1>6. World' /\ (EnterBatch(mode, s, 0) \/ Leave("stopped"))
  <2>1. CASE changed \/ With(disk, "submitting") # {}
    BY <1>1, <1>3, <1>5, <2>1, WorldSaved DEF SaveThen
  <2>2. CASE ~(changed \/ With(disk, "submitting") # {})
    BY <1>1, <1>3, <2>2, WorldSame
  <2> QED
    BY <2>1, <2>2
<1>7. CASE EnterBatch(mode, s, 0)
  BY <1>1, <1>3, <1>5, <1>6, <1>7, EnterBatchInv
<1>8. CASE Leave("stopped")
  BY <1>1, <1>6, <1>8, LeaveInv DEF Exits
<1> QED
  BY <1>6, <1>7, <1>8

\* What the actions of a running process start from.
LEMMA RunningFacts ==
    ASSUME IInv, pc # "idle"
    PROVE  /\ mem \in JobStates /\ Safe(mem) /\ Known(mem)
           /\ starts # 0 /\ starts \in 0 .. MaxStarts
           /\ run \in Runs /\ cancelled \in BOOLEAN
           /\ Len(mem.attempts) \in Nat
           /\ wire \subseteq Requests
BY JournalTyped DEF IInv, TypeOK, MemOK, StartOK

\* C1 keeps the invariant: a chunk is recorded before it can be on the wire.
LEMMA LaunchInv ==
    ASSUME IInv, NEW save \in Saves, Launch(save)
    PROVE  IInv'
<1>1. /\ pc = "submit" /\ starts' = starts /\ starts # 0 /\ starts' \in 0 .. MaxStarts
      /\ wire' = wire /\ accepted' = accepted
      /\ mem \in JobStates /\ Safe(mem) /\ Known(mem)
      /\ run \in Runs /\ cancelled \in BOOLEAN /\ Len(mem.attempts) \in Nat
  BY RunningFacts DEF Launch, service
<1>2. /\ run.todo \subseteq Batch(run.batch) /\ run.chunk \subseteq run.todo
      /\ \A i \in run.todo : mem.status[i] = "pending"
      /\ run.todo \in SUBSET Items
  BY <1>1 DEF IInv, SubmitOK, Batch
<1>3. PICK chunk \in Chunks :
        LET t == Launched(mem, chunk) IN SaveThen(t, save, Goto("post", t, [run EXCEPT !.chunk = chunk]))
  BY DEF Launch
<1>4. chunk \in SUBSET Items /\ chunk \subseteq run.todo
  BY <1>2, <1>3 DEF Chunks
<1>5. PICK s \in JobStates :
        /\ s = Launched(mem, chunk)
        /\ Len(s.attempts) = Len(mem.attempts) + 1
        /\ \A i \in Items : s.status[i] = IF i \in chunk THEN "submitting" ELSE mem.status[i]
  BY <1>1, <1>4, LaunchedTyped
<1>6. /\ \A i \in Items : Sent(i)' => s.status[i] # "pending"
      /\ \A q \in wire' : q.attempt <= Len(s.attempts)
      /\ \A q \in wire' : q.attempt < Len(s.attempts)
  <2>1. \A q \in wire : q.attempt \in Nat
    BY <1>1, RunningFacts DEF Requests
  <2> QED
    BY <1>1, <1>5, <2>1, SentShrinks DEF Safe, Known
<1>7. World'
  BY <1>1, <1>3, <1>5, <1>6, WorldSaved DEF SaveThen
<1>8. CASE save # "saved"
  BY <1>1, <1>3, <1>7, <1>8, LeaveInv DEF SaveThen, Exits
<1>9. CASE save = "saved"
  <2>1. disk' = s /\ stale' = {} /\ pc' = "post" /\ mem' = s /\ exit' = "none" /\ cancelled' = cancelled
    BY <1>3, <1>5, <1>9 DEF SaveThen, Checkpoint, Goto
  <2>2. run' = [run EXCEPT !.chunk = chunk]
    BY <1>3, <1>9 DEF SaveThen, Goto
  <2>3. /\ run' \in Runs /\ run'.chunk = chunk /\ run'.todo = run.todo
        /\ run'.batch = run.batch /\ run'.mode = run.mode
    BY <1>1, <1>4, <2>2 DEF Runs
  <2>4. TypeOK'
    BY <1>1, <1>7, <2>1, <2>3 DEF TypeOK, World, PCs, Exits
  <2>5. SubmitOK' /\ FlightOK' /\ MemOK'
    BY <1>1, <1>2, <1>4, <1>5, <1>6, <2>1, <2>3
    DEF SubmitOK, FlightOK, MemOK, Safe, Known, Sent, OnWire
  <2>6. PostOK' /\ WaitOK'
    <3>1. \A i \in chunk : ~Sent(i)
      BY <1>1, <1>2, <1>4 DEF Safe
    <3> QED
      BY <1>1, <1>6, <2>1, <2>3, <3>1 DEF PostOK, WaitOK, Sent, OnWire
  <2>7. LaterOK'
    <3> SUFFICES ASSUME run.mode = "new", NEW i \in Items, i \div BatchSize > run.batch
                 PROVE  s.status[i] = "pending"
      BY <2>1, <2>3 DEF LaterOK
    <3>1. mem.status[i] = "pending"
      BY <1>1 DEF IInv, LaterOK
    <3>2. i \notin chunk
      <4>1. i \div BatchSize # run.batch
        BY <1>1, ConstantsAssumption DEF Items, Runs
      <4> QED
        BY <1>2, <1>4, <4>1 DEF Batch
    <3> QED
      BY <1>5, <3>1, <3>2
  <2> QED
    BY <1>1, <1>7, <2>1, <2>4, <2>5, <2>6, <2>7 DEF IInv, StartOK
<1> QED
  BY <1>8, <1>9

\* A request leaves only for prompts no other request can still reach.
LEMMA PostInv ==
    ASSUME IInv, Post
    PROVE  IInv'
<1> DEFINE q0 == [attempt |-> Len(mem.attempts), items |-> run.chunk]
<1>1. /\ pc = "post" /\ pc' = "wait" /\ wire' = wire \cup {q0} /\ accepted' = accepted
      /\ disk' = disk /\ stale' = stale /\ mem' = mem /\ cancelled' = cancelled
      /\ starts' = starts /\ exit' = "none" /\ run' = [run EXCEPT !.landed = FALSE]
  BY DEF Post, Goto
<1>2. /\ mem \in JobStates /\ Safe(mem) /\ Known(mem)
      /\ starts # 0 /\ run \in Runs /\ Len(mem.attempts) \in Nat /\ wire \subseteq Requests
  BY <1>1, RunningFacts
<1>3. /\ stale = {} /\ disk = mem /\ Len(mem.attempts) > 0
      /\ \A i \in run.chunk : mem.status[i] = "submitting" /\ ~Sent(i)
      /\ \A q \in wire : q.attempt < Len(mem.attempts)
      /\ run.chunk \in SUBSET Items
  BY <1>1, <1>2 DEF IInv, FlightOK, PostOK, Runs
<1>4. q0 \in Requests /\ q0.attempt = Len(mem.attempts) /\ q0.items = run.chunk
  BY <1>2, <1>3 DEF Requests
<1> HIDE DEF q0
<1>5. WireOK'
  <2>1. \A i \in run.chunk : accepted[i] = 0 /\ \A q \in wire : i \notin q.items
    BY <1>3, ConstantsAssumption DEF Sent, OnWire, IInv, World, Items
  <2> QED
    BY <1>1, <1>4, <2>1 DEF IInv, World, WireOK
<1>6. Safe(mem)'
  <2>1. \A i \in Items : Sent(i)' => Sent(i) \/ i \in run.chunk
    BY <1>1, <1>4 DEF Sent, OnWire
  <2> QED
    BY <1>1, <1>2, <1>3, <2>1 DEF Safe
<1>7. Known(mem)'
  BY <1>1, <1>2, <1>3, <1>4 DEF Known
<1>8. \A v \in Versions' : VersionOK(v)'
  <2>1. Versions' = {mem} /\ mem # NoState
    BY <1>1, <1>2, <1>3, NoStateAssumption DEF Versions
  <2>2. \A v : v = mem => (Safe(v)' /\ Known(v)')
    BY <1>1, <1>6, <1>7 DEF Safe, Known
  <2> QED
    BY <2>1, <2>2 DEF VersionOK
<1>9. World'
  BY <1>1, <1>4, <1>5, <1>8 DEF IInv, World, NeverAcceptedTwice
<1>10. /\ run' \in Runs /\ run'.chunk = run.chunk /\ run'.todo = run.todo
       /\ run'.batch = run.batch /\ run'.mode = run.mode
  BY <1>1, <1>2 DEF Runs
<1>11. TypeOK'
  BY <1>1, <1>9, <1>10 DEF TypeOK, World, IInv, PCs, Exits
<1>12. WaitOK'
  BY <1>1, <1>2, <1>3, <1>4, <1>10 DEF WaitOK, InFlight, Requests
<1>13. MemOK'
  BY <1>1, <1>2, <1>6, <1>7 DEF MemOK
<1>14. SubmitOK' /\ FlightOK' /\ PostOK' /\ LaterOK'
  BY <1>1, <1>10 DEF IInv, SubmitOK, FlightOK, PostOK, LaterOK
<1> QED
  BY <1>1, <1>2, <1>9, <1>11, <1>12, <1>13, <1>14 DEF IInv, StartOK

\* The state that C3 saves marks everything sent, provided the chunk becomes
\* pending only when it is not sent any more.
LEMMA EndedSafe ==
    ASSUME IInv, pc \in {"post", "wait"}, wire' \subseteq wire, accepted' = accepted,
           NEW outcome \in Outcomes, NEW status \in Statuses, NEW scan \in ScanIds \cup {NoScan},
           status = "pending" => \A i \in run.chunk : ~Sent(i)'
    PROVE  \E s \in JobStates :
             /\ s = Ended(mem, run.chunk, outcome, status, scan)
             /\ Len(s.attempts) = Len(mem.attempts)
             /\ \A i \in Items : s.status[i] = IF i \in run.chunk THEN status ELSE mem.status[i]
             /\ \A i \in Items : Sent(i)' => s.status[i] # "pending"
             /\ \A q \in wire' : q.attempt <= Len(s.attempts)
<1>1. /\ mem \in JobStates /\ Safe(mem) /\ Known(mem)
      /\ run.chunk \in SUBSET Items /\ Len(mem.attempts) > 0
  BY RunningFacts DEF IInv, FlightOK, Runs
<1> DEFINE t == Ended(mem, run.chunk, outcome, status, scan)
<1>2. /\ t \in JobStates /\ Len(t.attempts) = Len(mem.attempts)
      /\ \A i \in Items : t.status[i] = IF i \in run.chunk THEN status ELSE mem.status[i]
  BY <1>1, EndedTyped, Z3
<1>3. PICK s \in JobStates :
        /\ s = t
        /\ Len(s.attempts) = Len(mem.attempts)
        /\ \A i \in Items : s.status[i] = IF i \in run.chunk THEN status ELSE mem.status[i]
  <2> HIDE DEF t
  <2> QED
    BY <1>2
<1>4. \A i \in Items : Sent(i)' => s.status[i] # "pending"
  BY <1>1, <1>3, SentShrinks DEF Safe
<1>5. \A q \in wire' : q.attempt <= Len(s.attempts)
  BY <1>1, <1>3 DEF Known
<1> WITNESS s \in JobStates
<1> QED
  BY <1>3, <1>4, <1>5

\* An outcome that ends the run.
LEMMA EndRunInv ==
    ASSUME IInv, pc \in {"post", "wait"}, wire' \subseteq wire, accepted' = accepted, starts' = starts,
           NEW outcome \in Outcomes, NEW status \in Statuses, NEW save \in Saves,
           status = "pending" => \A i \in run.chunk : ~Sent(i)',
           EndRun(outcome, status, save)
    PROVE  IInv'
<1>1. starts' # 0 /\ starts' \in 0 .. MaxStarts
  BY RunningFacts
<1>2. PICK s \in JobStates :
        /\ s = Ended(mem, run.chunk, outcome, status, NoScan)
        /\ \A i \in Items : Sent(i)' => s.status[i] # "pending"
        /\ \A q \in wire' : q.attempt <= Len(s.attempts)
  BY EndedSafe
<1>3. Checkpoint(s, save) /\ Leave("stopped")
  BY <1>2 DEF EndRun, SaveThen
<1>4. World'
  BY <1>1, <1>2, <1>3, WorldSaved
<1> QED
  BY <1>1, <1>3, <1>4, LeaveInv DEF Exits

\* C3 of a receipt keeps the invariant: the chunk was accepted, and is recorded.
LEMMA ReceiptInv ==
    ASSUME IInv, NEW scan \in ScanIds, NEW save \in Saves, Receipt(scan, save)
    PROVE  IInv'
<1>1. /\ pc = "wait" /\ starts' = starts /\ starts # 0 /\ starts' \in 0 .. MaxStarts
      /\ wire' = wire /\ accepted' = accepted
      /\ run \in Runs /\ cancelled \in BOOLEAN
  BY RunningFacts DEF Receipt, service
<1>2. PICK s \in JobStates :
        /\ s = Ended(mem, run.chunk, "accepted", "submitted", scan)
        /\ \A i \in Items : s.status[i] = IF i \in run.chunk THEN "submitted" ELSE mem.status[i]
        /\ \A i \in Items : Sent(i)' => s.status[i] # "pending"
        /\ \A q \in wire' : q.attempt <= Len(s.attempts)
  <2>1. "accepted" \in Outcomes /\ "submitted" \in Statuses
    BY DEF Outcomes, Statuses
  <2> QED
    BY <1>1, <2>1, EndedSafe
<1> DEFINE left == run.todo \ run.chunk
           r == [run EXCEPT !.todo = left, !.chunk = {}, !.retries = 0,
                            !.landed = FALSE, !.sent = (left = {}), !.quiet = 0]
<1>3. SaveThen(s, save, IF cancelled THEN Leave("stopped")
                        ELSE Goto(IF left = {} THEN "poll" ELSE "submit", s, r))
  BY <1>2 DEF Receipt
<1>4. World'
  BY <1>1, <1>2, <1>3, WorldSaved DEF SaveThen
<1>5. CASE Leave("stopped")
  BY <1>1, <1>4, <1>5, LeaveInv DEF Exits
<1>6. CASE Goto(IF left = {} THEN "poll" ELSE "submit", s, r)
  <2>1. /\ pc' = (IF left = {} THEN "poll" ELSE "submit") /\ mem' = s /\ run' = r
        /\ exit' = "none" /\ cancelled' = cancelled
    BY <1>6 DEF Goto
  <2>2. /\ r \in Runs /\ r.todo = left /\ r.chunk = {} /\ r.batch = run.batch /\ r.mode = run.mode
    BY <1>1 DEF Runs
  <2> HIDE DEF r
  <2>3. TypeOK'
    BY <1>1, <1>4, <2>1, <2>2 DEF TypeOK, World, PCs, Exits
  <2>4. MemOK'
    BY <1>2, <2>1 DEF MemOK, Safe, Known, Sent, OnWire
  <2>5. SubmitOK'
    <3>1. run.todo \subseteq Batch(run.batch) /\ \A i \in left : i \in Items /\ mem.status[i] = "pending"
      BY <1>1 DEF IInv, SubmitOK, Batch
    <3> QED
      BY <1>2, <2>1, <2>2, <3>1 DEF SubmitOK
  <2>6. LaterOK'
    <3> SUFFICES ASSUME run.mode = "new", NEW i \in Items, i \div BatchSize > run.batch
                 PROVE  s.status[i] = "pending"
      BY <2>1, <2>2 DEF LaterOK
    <3>1. mem.status[i] = "pending"
      BY <1>1 DEF IInv, LaterOK
    <3>2. i \notin run.chunk
      BY <1>1, <3>1 DEF IInv, FlightOK
    <3> QED
      BY <1>2, <3>1, <3>2
  <2> QED
    BY <1>1, <1>4, <2>1, <2>3, <2>4, <2>5, <2>6 DEF IInv, StartOK, FlightOK, PostOK, WaitOK
<1> QED
  BY <1>3, <1>5, <1>6 DEF SaveThen

\* C3 of a refusal keeps the invariant: a refused chunk is nowhere on the wire.
LEMMA RefusedInv ==
    ASSUME IInv, NEW limited \in BOOLEAN, NEW save \in Saves, Refused(limited, save)
    PROVE  IInv'
<1>1. /\ pc = "wait" /\ starts' = starts /\ starts # 0 /\ starts' \in 0 .. MaxStarts
      /\ wire' = wire \ InFlight /\ wire' \subseteq wire /\ accepted' = accepted
      /\ run \in Runs /\ cancelled \in BOOLEAN
  BY RunningFacts DEF Refused
<1>2. \A i \in run.chunk : ~Sent(i)'
  <2>1. PICK q \in InFlight : q.items = run.chunk /\ q \in wire
    BY <1>1 DEF Refused, IInv, WaitOK, InFlight
  <2>2. \A i \in run.chunk : i \in Items
    BY <1>1 DEF Runs
  <2>3. \A i \in run.chunk : accepted[i] = 0 /\ \A p \in wire : i \in p.items => p = q
    BY <2>1, <2>2 DEF IInv, World, WireOK
  <2> QED
    BY <1>1, <2>1, <2>2, <2>3 DEF Sent, OnWire
<1>3. "rejected" \in Outcomes /\ "pending" \in Statuses
  BY DEF Outcomes, Statuses
<1>4. CASE EndRun("rejected", "pending", save)
  BY <1>1, <1>2, <1>3, <1>4, EndRunInv
<1> DEFINE r == [run EXCEPT !.retries = @ + 1]
           t == Ended(mem, run.chunk, "rejected", "pending", NoScan)
<1>5. CASE SaveThen(t, save, Goto("submit", t, r))
  <2>1. PICK s \in JobStates :
          /\ s = t
          /\ \A i \in Items : s.status[i] = IF i \in run.chunk THEN "pending" ELSE mem.status[i]
          /\ \A i \in Items : Sent(i)' => s.status[i] # "pending"
          /\ \A q \in wire' : q.attempt <= Len(s.attempts)
    BY <1>1, <1>2, <1>3, EndedSafe
  <2>2. Checkpoint(s, save) /\ (Goto("submit", s, r) \/ Leave("stopped"))
    BY <1>5, <2>1 DEF SaveThen
  <2>3. World'
    BY <1>1, <2>1, <2>2, WorldSaved
  <2>4. CASE Leave("stopped")
    BY <1>1, <2>3, <2>4, LeaveInv DEF Exits
  <2>5. CASE Goto("submit", s, r)
    <3>1. /\ pc' = "submit" /\ mem' = s /\ run' = r /\ exit' = "none" /\ cancelled' = cancelled
      BY <2>5 DEF Goto
    <3>2. /\ r \in Runs /\ r.todo = run.todo /\ r.chunk = run.chunk
          /\ r.batch = run.batch /\ r.mode = run.mode
      BY <1>1 DEF Runs
    <3> HIDE DEF r
    <3>3. TypeOK'
      BY <1>1, <2>3, <3>1, <3>2 DEF TypeOK, World, PCs, Exits
    <3>4. MemOK'
      BY <2>1, <3>1 DEF MemOK, Safe, Known, Sent, OnWire
    <3>5. SubmitOK'
      <4>1. /\ run.todo \subseteq Batch(run.batch) /\ run.chunk \subseteq run.todo
            /\ \A i \in run.todo : i \in Items /\ (i \in run.chunk \/ mem.status[i] = "pending")
        BY <1>1 DEF IInv, SubmitOK, Batch
      <4> QED
        BY <2>1, <3>1, <3>2, <4>1 DEF SubmitOK
    <3>6. LaterOK'
      <4>1. run.mode = "new" =>
              \A i \in Items : i \div BatchSize > run.batch => mem.status[i] = "pending"
        BY <1>1 DEF IInv, LaterOK
      <4> QED
        BY <2>1, <3>1, <3>2, <4>1 DEF LaterOK
    <3> QED
      BY <1>1, <2>3, <3>1, <3>3, <3>4, <3>5, <3>6 DEF IInv, StartOK, FlightOK, PostOK, WaitOK
  <2> QED
    BY <2>2, <2>4, <2>5
<1> QED
  BY <1>4, <1>5 DEF Refused

\* The other outcomes of a request all end the run.
LEMMA OtherOutcomesInv ==
    ASSUME IInv, NEW save \in Saves, UnusableReceipt(save) \/ NotSent(save) \/ Unknown(save)
    PROVE  IInv'
<1>1. /\ pc \in {"post", "wait"} /\ starts' = starts
      /\ wire' \subseteq wire /\ accepted' = accepted
  BY DEF UnusableReceipt, NotSent, Unknown, service
<1>2. /\ {"unusableReceipt", "notSent", "unknown"} \subseteq Outcomes
      /\ {"pending", "ambiguous"} \subseteq Statuses
  BY DEF Outcomes, Statuses
<1>3. CASE UnusableReceipt(save) \/ Unknown(save)
  <2>1. EndRun("unusableReceipt", "ambiguous", save) \/ EndRun("unknown", "ambiguous", save)
    BY <1>3 DEF UnusableReceipt, Unknown
  <2> QED
    BY <1>1, <1>2, <2>1, EndRunInv
<1>4. CASE NotSent(save)
  <2>1. EndRun("notSent", "pending", save)
    BY <1>4 DEF NotSent
  <2>2. \A i \in run.chunk : ~Sent(i)'
    <3>1. \A i \in run.chunk : i \in Items /\ ~Sent(i)
      BY <1>4, RunningFacts DEF NotSent, IInv, PostOK, Runs
    <3> QED
      BY <1>1, <3>1, SentShrinks
  <2> QED
    BY <1>1, <1>2, <2>1, <2>2, EndRunInv
<1> QED
  BY <1>3, <1>4

\* The backoff level stays a number.
LEMMA EasedTyped == run \in Runs => Eased \in Nat
BY DEF Runs, Eased

\* The counters of a poll change nothing else of the run.
SameRun(r) == r \in Runs /\ r.chunk = run.chunk /\ r.batch = run.batch /\ r.mode = run.mode

\* Neither a longer backoff nor the counters of quiet polls touch the batch.
LEMMA CountersTyped ==
    ASSUME run \in Runs, NEW q \in Nat, NEW l \in Nat
    PROVE  /\ SameRun([run EXCEPT !.level = @ + 1])
           /\ SameRun([run EXCEPT !.quiet = q, !.level = l])
           /\ run.quiet + 1 \in Nat
<1>1. SameRun([run EXCEPT !.level = @ + 1])
  BY DEF Runs, SameRun
<1>2. SameRun([run EXCEPT !.quiet = q, !.level = l])
  BY DEF Runs, SameRun
<1>3. run.quiet + 1 \in Nat
  BY DEF Runs
<1> QED
  BY <1>1, <1>2, <1>3

\* Recording results keeps the invariant.
LEMMA ResolveInv ==
    ASSUME IInv, NEW ok \in SUBSET Items, NEW bad \in SUBSET Items,
           NEW save \in Saves, NEW after \in Afters, Resolve(ok, bad, save, after)
    PROVE  IInv'
<1>1. /\ pc = "poll" /\ starts' = starts /\ starts # 0 /\ starts' \in 0 .. MaxStarts
      /\ wire' = wire /\ accepted' = accepted
      /\ mem \in JobStates /\ Safe(mem) /\ Known(mem)
      /\ run \in Runs /\ cancelled \in BOOLEAN
  BY RunningFacts DEF Resolve, service
<1>2. PICK s \in JobStates :
        /\ s = Recorded(mem, ok, bad)
        /\ s.attempts = mem.attempts
        /\ \A i \in Items : i \notin ok \cup bad => s.status[i] = mem.status[i]
        /\ \A i \in ok \cup bad : i \in Items => s.status[i] # "pending"
  BY <1>1, RecordedTyped
<1>3. \A i \in ok \cup bad : mem.status[i] = "submitted"
  BY DEF Resolve, Unresolved, With
<1>4. /\ \A i \in Items : Sent(i)' => s.status[i] # "pending"
      /\ \A q \in wire' : q.attempt <= Len(s.attempts)
  BY <1>1, <1>2, SentShrinks DEF Safe, Known
<1>5. PICK r \in Runs :
        /\ r.chunk = run.chunk /\ r.batch = run.batch /\ r.mode = run.mode
        /\ Checkpoint(s, save)
        /\ Goto("poll", s, r) \/ Leave("stopped")
  <2> DEFINE resolved == [run EXCEPT !.quiet = 0, !.level = 0]
             limited == [run EXCEPT !.level = @ + 1]
             over == [run EXCEPT !.quiet = 0, !.level = Eased]
  <2>1. SameRun(resolved) /\ SameRun(limited)
    BY <1>1, CountersTyped
  <2>2. SameRun(over)
    BY <1>1, EasedTyped, CountersTyped
  <2>3. /\ Checkpoint(s, save)
        /\ \/ Goto("poll", s, resolved) \/ Goto("poll", s, limited) \/ Goto("poll", s, over)
           \/ Leave("stopped")
    BY <1>2 DEF Resolve, SaveThen
  <2> HIDE DEF resolved, limited, over
  <2> QED
    BY <1>1, <2>1, <2>2, <2>3 DEF SameRun
<1>6. World'
  BY <1>1, <1>4, <1>5, WorldSaved
<1>7. CASE Leave("stopped")
  BY <1>1, <1>6, <1>7, LeaveInv DEF Exits
<1>8. CASE Goto("poll", s, r)
  <2>1. /\ pc' = "poll" /\ mem' = s /\ run' = r /\ exit' = "none" /\ cancelled' = cancelled
    BY <1>8 DEF Goto
  <2>2. r \in Runs /\ r.chunk = run.chunk /\ r.batch = run.batch /\ r.mode = run.mode
    BY <1>5
  <2>3. TypeOK'
    BY <1>1, <1>6, <2>1, <2>2 DEF TypeOK, World, PCs, Exits
  <2>4. MemOK'
    BY <1>4, <2>1 DEF MemOK, Safe, Known, Sent, OnWire
  <2>5. LaterOK'
    <3>1. run.mode = "new" =>
            \A i \in Items : i \div BatchSize > run.batch => mem.status[i] = "pending"
      BY <1>1 DEF IInv, LaterOK
    <3> QED
      BY <1>2, <1>3, <2>1, <2>2, <3>1 DEF LaterOK
  <2> QED
    BY <1>1, <1>6, <2>1, <2>2, <2>3, <2>4, <2>5 DEF IInv, StartOK, SubmitOK, FlightOK, PostOK, WaitOK
<1> QED
  BY <1>5, <1>7, <1>8

\* A poll without a new result keeps the invariant.
LEMMA NoResultInv ==
    ASSUME IInv, ReadLimited \/ NoProgress
    PROVE  IInv'
<1>1. /\ pc = "poll" /\ starts' = starts /\ starts # 0 /\ starts' \in 0 .. MaxStarts
      /\ UNCHANGED <<disk, stale, wire, accepted>>
      /\ run \in Runs /\ cancelled \in BOOLEAN
  BY RunningFacts DEF ReadLimited, NoProgress, service
<1>2. World'
  BY <1>1, WorldSame
<1>3. CASE Leave("stopped")
  BY <1>1, <1>2, <1>3, LeaveInv DEF Exits
<1>4. ASSUME NEW r,
             r = [run EXCEPT !.level = @ + 1] \/ r = [run EXCEPT !.quiet = @ + 1, !.level = Eased],
             Goto("poll", mem, r)
      PROVE  IInv'
  <2>1. pc' = pc /\ mem' = mem /\ run' = r /\ exit' = "none" /\ cancelled' = cancelled
    BY <1>1, <1>4 DEF Goto
  <2>2. r \in Runs /\ r.chunk = run.chunk /\ r.batch = run.batch /\ r.mode = run.mode
    <3>1. CASE r = [run EXCEPT !.level = @ + 1]
      BY <1>1, <3>1, CountersTyped DEF SameRun
    <3>2. CASE r = [run EXCEPT !.quiet = @ + 1, !.level = Eased]
      <4>1. Eased \in Nat /\ run.quiet + 1 \in Nat
        BY <1>1, EasedTyped, CountersTyped
      <4>2. SameRun([run EXCEPT !.quiet = run.quiet + 1, !.level = Eased])
        BY <1>1, <4>1, CountersTyped
      <4> QED
        BY <3>2, <4>2 DEF SameRun
    <3> QED
      BY <1>4, <3>1, <3>2
  <2>3. TypeOK'
    BY <1>1, <1>2, <2>1, <2>2 DEF TypeOK, World, IInv, PCs, Exits
  <2>4. MemOK'
    BY <1>1, <2>1 DEF IInv, MemOK, Safe, Known, Sent, OnWire
  <2>5. LaterOK'
    BY <1>1, <2>1, <2>2 DEF IInv, LaterOK
  <2> QED
    BY <1>1, <1>2, <2>1, <2>2, <2>3, <2>4, <2>5 DEF IInv, StartOK, SubmitOK, FlightOK, PostOK, WaitOK
<1> QED
  BY <1>3, <1>4 DEF ReadLimited, NoProgress

\* Going on to a batch's pending prompts, or to the next batch, keeps the
\* invariant: only pending prompts are taken up.
LEMMA BatchPolledInv ==
    ASSUME IInv, BatchPolled
    PROVE  IInv'
<1> DEFINE todo == ToSend(run.mode, mem, run.batch)
           again == [run EXCEPT !.todo = todo, !.quiet = 0]
           last == [NoRun EXCEPT !.mode = run.mode]
<1>1. /\ pc = "poll" /\ starts' = starts /\ starts # 0 /\ starts' \in 0 .. MaxStarts
      /\ UNCHANGED <<disk, stale, wire, accepted>>
      /\ mem \in JobStates /\ Safe(mem) /\ Known(mem)
      /\ run \in Runs /\ cancelled \in BOOLEAN
  BY RunningFacts DEF BatchPolled, service
<1>2. World'
  BY <1>1, WorldSame
<1>3. /\ \A i \in Items : Sent(i)' => mem.status[i] # "pending"
      /\ \A q \in wire' : q.attempt <= Len(mem.attempts)
  BY <1>1, SentShrinks DEF Safe, Known
<1>4. \/ run.mode = "resume" /\ ~run.sent /\ todo # {} /\ Goto("submit", mem, again)
      \/ EnterBatch(run.mode, mem, run.batch + 1)
      \/ Goto("final", mem, last)
  BY DEF BatchPolled
<1>5. CASE run.mode = "resume" /\ Goto("submit", mem, again)
  <2>1. pc' = "submit" /\ mem' = mem /\ run' = again /\ exit' = "none" /\ cancelled' = cancelled
    BY <1>5 DEF Goto
  <2>2. todo = Batch(run.batch) \cap With(mem, "pending") /\ todo \in SUBSET Items
    BY <1>5 DEF ToSend, Batch
  <2>3. /\ again \in Runs /\ again.todo = todo /\ again.chunk = run.chunk
        /\ again.batch = run.batch /\ again.mode = run.mode
    BY <1>1, <2>2 DEF Runs
  <2> HIDE DEF again, todo
  <2>4. TypeOK'
    BY <1>1, <1>2, <2>1, <2>3 DEF TypeOK, World, IInv, PCs, Exits
  <2>5. MemOK'
    BY <1>1, <1>3, <2>1 DEF MemOK, Safe, Known, Sent, OnWire
  <2>6. SubmitOK'
    BY <1>1, <2>1, <2>2, <2>3 DEF IInv, SubmitOK, With
  <2>7. LaterOK'
    BY <1>5, <2>1, <2>3 DEF LaterOK
  <2> QED
    BY <1>1, <1>2, <2>1, <2>4, <2>5, <2>6, <2>7 DEF IInv, StartOK, FlightOK, PostOK, WaitOK
<1>6. CASE EnterBatch(run.mode, mem, run.batch + 1)
  <2>1. PICK s \in JobStates : s = mem
    BY <1>1
  <2>2. run.mode \in Modes /\ run.batch \in Nat /\ run.batch + 1 \in Nat
    BY <1>1 DEF Runs
  <2>3. run.mode = "new" =>
          \A i \in Items : i \div BatchSize >= run.batch + 1 => s.status[i] = "pending"
    <3>1. \A i \in Items : i \div BatchSize >= run.batch + 1 => i \div BatchSize > run.batch
      BY <2>2, ConstantsAssumption DEF Items
    <3> QED
      BY <1>1, <2>1, <3>1 DEF IInv, LaterOK
  <2>4. PICK mode \in Modes, b \in Nat : mode = run.mode /\ b = run.batch + 1
    BY <2>2
  <2> QED
    BY <1>1, <1>2, <1>3, <1>6, <2>1, <2>3, <2>4, EnterBatchInv
<1>7. CASE Goto("final", mem, last)
  <2>1. pc' = "final" /\ mem' = mem /\ run' = last /\ exit' = "none" /\ cancelled' = cancelled
    BY <1>7 DEF Goto
  <2>2. last \in Runs
    BY <1>1 DEF NoRun, Runs
  <2> HIDE DEF last
  <2>3. TypeOK'
    BY <1>1, <1>2, <2>1, <2>2 DEF TypeOK, World, IInv, PCs, Exits
  <2>4. MemOK'
    BY <1>1, <1>3, <2>1 DEF MemOK, Safe, Known, Sent, OnWire
  <2> QED
    BY <1>1, <1>2, <2>1, <2>3, <2>4 DEF IInv, StartOK, SubmitOK, FlightOK, PostOK, WaitOK, LaterOK
<1> QED
  BY <1>4, <1>5, <1>6, <1>7

\* The final save keeps the invariant.
LEMMA FinishInv ==
    ASSUME IInv, NEW save \in Saves, NEW fails \in BOOLEAN, Finish(save, fails)
    PROVE  IInv'
<1>1. /\ pc = "final" /\ starts' = starts /\ starts # 0 /\ starts' \in 0 .. MaxStarts
      /\ wire' = wire /\ accepted' = accepted
      /\ mem \in JobStates /\ Safe(mem) /\ Known(mem)
  BY RunningFacts DEF Finish, service
<1>2. PICK s \in JobStates : s = mem
  BY <1>1
<1>3. /\ \A i \in Items : Sent(i)' => s.status[i] # "pending"
      /\ \A q \in wire' : q.attempt <= Len(s.attempts)
  BY <1>1, <1>2, SentShrinks DEF Safe, Known
<1>4. Checkpoint(s, save) /\ \E how \in Exits : Leave(how)
  BY <1>2 DEF Finish, SaveThen, Exits
<1> QED
  BY <1>1, <1>3, <1>4, WorldSaved, LeaveInv

\* Steps that only end the process.
LEMMA StopsInv ==
    ASSUME IInv, SubmitInterrupted \/ PollStops \/ Crash
    PROVE  IInv'
<1>1. /\ pc # "idle" /\ UNCHANGED <<disk, stale, wire, accepted>> /\ starts' = starts
      /\ Leave("stopped")
  BY DEF SubmitInterrupted, PollStops, Crash, service
<1>2. starts' # 0 /\ starts' \in 0 .. MaxStarts
  BY <1>1, RunningFacts
<1> QED
  BY <1>1, <1>2, WorldSame, LeaveInv DEF Exits

\* A signal changes nothing but the flag.
LEMMA SignalInv ==
    ASSUME IInv, Signal
    PROVE  IInv'
<1>1. /\ pc # "idle" /\ cancelled' = TRUE
      /\ UNCHANGED <<disk, stale, mem, pc, run, exit, wire, accepted, starts>>
  BY DEF Signal, service
<1>2. World'
  BY <1>1, WorldSame DEF IInv, World
<1> QED
  BY <1>1, <1>2 DEF IInv, TypeOK, StartOK, MemOK, SubmitOK, FlightOK, PostOK, WaitOK, LaterOK,
                    Safe, Known, Sent, OnWire, InFlight, Quiet

\* A power loss keeps the invariant: every version it may restore was safe.
LEMMA PowerLossInv ==
    ASSUME IInv, PowerLoss
    PROVE  IInv'
<1>1. /\ disk' \in Versions /\ stale' = {} /\ wire' = wire /\ accepted' = accepted
      /\ starts' = starts /\ Leave(IF pc = "idle" THEN exit ELSE "stopped")
  BY DEF PowerLoss, service, Versions
<1>2. Versions' \subseteq Versions
  BY <1>1 DEF Versions
<1>3. \A v \in Versions' : VersionOK(v)'
  BY <1>1, <1>2 DEF IInv, World, VersionOK, Safe, Known, Sent, OnWire, Quiet
<1>4. World'
  BY <1>1, <1>3 DEF IInv, World, WireOK, NeverAcceptedTwice, Versions
<1>5. (IF pc = "idle" THEN exit ELSE "stopped") \in Exits
  BY DEF IInv, TypeOK, Exits
<1>6. starts' = 0 => Quiet'
  BY <1>1 DEF IInv, StartOK, Quiet
<1> QED
  BY <1>1, <1>4, <1>5, <1>6, LeaveInv

\* A late acceptance by the service keeps the invariant: no readable state
\* file holds the accepted prompts as pending.
LEMMA AcceptInv ==
    ASSUME IInv, NEW q \in wire, Accept(q)
    PROVE  IInv'
<1>1. /\ wire' = wire \ {q}
      /\ accepted' = [i \in Items |-> IF i \in q.items THEN accepted[i] + 1 ELSE accepted[i]]
      /\ UNCHANGED <<disk, stale, mem, pc, cancelled, exit, starts>>
      /\ run' = [run EXCEPT !.landed = @ \/ (pc = "wait" /\ q \in InFlight)]
  BY DEF Accept
<1>2. /\ run' \in Runs /\ run'.todo = run.todo /\ run'.chunk = run.chunk
      /\ run'.batch = run.batch /\ run'.mode = run.mode
  <2>1. run \in Runs
    BY DEF IInv, TypeOK
  <2> DEFINE b == run.landed \/ (pc = "wait" /\ q \in InFlight)
  <2>2. b \in BOOLEAN
    BY Zenon
  <2>3. run' = [run EXCEPT !.landed = b]
    BY <1>1
  <2> HIDE DEF b
  <2> QED
    BY <2>1, <2>2, <2>3 DEF Runs
<1>3. \A i \in Items : accepted'[i] \in Nat /\ (i \in q.items => accepted[i] = 0 /\ accepted'[i] = 1)
  BY <1>1 DEF IInv, World, WireOK
<1>4. \A i \in Items : Sent(i)' <=> Sent(i)
  BY <1>1, <1>3 DEF Sent, OnWire, IInv, World
<1>5. ~Quiet
  BY DEF Quiet
<1>6. WireOK' /\ NeverAcceptedTwice'
  BY <1>1, <1>3 DEF IInv, World, WireOK, NeverAcceptedTwice
<1>7. \A v \in Versions' : VersionOK(v)'
  <2>1. Versions' = Versions
    BY <1>1 DEF Versions
  <2>2. \A v \in Versions : v # NoState /\ Safe(v) /\ Known(v)
    BY <1>5 DEF IInv, World, VersionOK
  <2>3. \A v \in Versions : Safe(v)' /\ Known(v)'
    BY <1>1, <1>4, <2>2 DEF Safe, Known
  <2> QED
    BY <2>1, <2>2, <2>3 DEF VersionOK
<1>8. World'
  BY <1>1, <1>3, <1>6, <1>7 DEF IInv, World
<1>9. TypeOK'
  BY <1>1, <1>2, <1>8 DEF IInv, TypeOK, World
<1>10. StartOK' /\ SubmitOK' /\ FlightOK' /\ LaterOK'
  BY <1>1, <1>2, <1>5 DEF IInv, StartOK, SubmitOK, FlightOK, LaterOK
<1>11. MemOK'
  BY <1>1, <1>4 DEF IInv, MemOK, Safe, Known
<1>12. PostOK'
  <2>1. \A i \in run.chunk : i \in Items
    BY DEF IInv, TypeOK, Runs
  <2> QED
    BY <1>1, <1>2, <1>4, <2>1 DEF IInv, PostOK
<1>13. WaitOK'
  BY <1>1, <1>2 DEF IInv, WaitOK, InFlight
<1> QED
  BY <1>8, <1>9, <1>10, <1>11, <1>12, <1>13 DEF IInv

-----------------------------------------------------------------------------
(* The theorems *)

\* Every step keeps the inductive invariant.
LEMMA StepInv == IInv /\ [Next]_vars => IInv'
<1> SUFFICES ASSUME IInv, [Next]_vars PROVE IInv'
  OBVIOUS
<1>1. CASE \E save \in Saves : Start(save)
  BY <1>1, StartInv
<1>2. CASE \E changed \in BOOLEAN, save \in Saves : Resume(changed, save)
  BY <1>2, ResumeInv
<1>3. ASSUME NEW save \in Saves, Process(save) PROVE IInv'
  <2>1. CASE Launch(save)
    BY <2>1, LaunchInv
  <2>2. CASE \E scan \in ScanIds : Receipt(scan, save)
    BY <2>2, ReceiptInv
  <2>3. CASE UnusableReceipt(save) \/ NotSent(save) \/ Unknown(save)
    BY <2>3, OtherOutcomesInv
  <2>4. CASE \E limited \in BOOLEAN : Refused(limited, save)
    BY <2>4, RefusedInv
  <2>5. CASE \E ok, bad \in SUBSET Items, after \in Afters : Resolve(ok, bad, save, after)
    BY <2>5, ResolveInv
  <2>6. CASE \E fails \in BOOLEAN : Finish(save, fails)
    BY <2>6, FinishInv
  <2> QED
    BY <1>3, <2>1, <2>2, <2>3, <2>4, <2>5, <2>6 DEF Process
<1>4. CASE Post
  BY <1>4, PostInv
<1>5. CASE ReadLimited \/ NoProgress
  BY <1>5, NoResultInv
<1>6. CASE BatchPolled
  BY <1>6, BatchPolledInv
<1>7. CASE SubmitInterrupted \/ PollStops \/ Crash
  BY <1>7, StopsInv
<1>8. CASE \E q \in wire : Accept(q)
  BY <1>8, AcceptInv
<1>9. CASE Signal
  BY <1>9, SignalInv
<1>10. CASE PowerLoss
  BY <1>10, PowerLossInv
<1>11. CASE UNCHANGED vars
  <2>1. UNCHANGED <<disk, stale, mem, pc, run, cancelled, exit, wire, accepted, starts>>
    BY <1>11 DEF vars
  <2>2. World'
    BY <2>1, WorldSame DEF IInv, World
  <2> QED
    BY <2>1, <2>2 DEF IInv, TypeOK, StartOK, MemOK, SubmitOK, FlightOK, PostOK, WaitOK, LaterOK,
                      Safe, Known, Sent, OnWire, InFlight, Quiet
<1> QED
  BY <1>1, <1>2, <1>3, <1>4, <1>5, <1>6, <1>7, <1>8, <1>9, <1>10, <1>11 DEF Next, Running

\* The invariant holds of every behaviour of the job.
THEOREM Inductive == Spec => []IInv
<1>1. Init => IInv
  BY InitInv
<1>2. IInv /\ [Next]_vars => IInv'
  BY StepInv
<1> QED
  BY <1>1, <1>2, PTL DEF Spec

\* Type correctness of the job, its process, the disk and the service.
THEOREM TypeCorrect == Spec => []TypeOK
<1>1. IInv => TypeOK
  BY DEF IInv
<1> QED
  BY <1>1, Inductive, PTL

\* No prompt is accepted by the service twice: whatever the batch and chunk
\* sizes, and through any number of retries, failed saves, crashes, power
\* losses, resumes and late requests.
THEOREM AtMostOnce == Spec => []NeverAcceptedTwice
<1>1. IInv => NeverAcceptedTwice
  BY DEF IInv, World
<1> QED
  BY <1>1, Inductive, PTL

\* What was sent is not resendable in any state file a later run could read.
THEOREM Recording == Spec => []SentIsRecorded
<1>1. IInv => SentIsRecorded
  <2> SUFFICES ASSUME IInv, NEW v \in Versions, NEW i \in Items, Sent(i)
               PROVE  v # NoState /\ v.status[i] # "pending"
    BY DEF SentIsRecorded
  <2>1. ~Quiet
    BY ConstantsAssumption DEF Quiet, Sent, OnWire, IInv, World
  <2> QED
    BY <2>1 DEF IInv, World, VersionOK, Safe
<1> QED
  BY <1>1, Inductive, PTL

-----------------------------------------------------------------------------
(* The journal, the order and the files: the strengthenings *)

\* A request in flight in the journal has a prompt that waits for it.
Linked(s) ==
    \A a \in 1 .. Len(s.attempts) : s.attempts[a].outcome = "inFlight" =>
        \E i \in Items : s.status[i] = "submitting" /\ s.attempt[i] = a

\* An attempt of the journal that may have handed prompt i to the service.
Accounts(s, i) ==
    \E a \in 1 .. Len(s.attempts) :
        i \in s.attempts[a].items /\ s.attempts[a].outcome \notin {"rejected", "notSent"}

Covers(s) == \A i \in Items : Sent(i) => Accounts(s, i)

FilesOK == \A v \in Versions : v # NoState => Valid(v) /\ Linked(v) /\ Covers(v)

\* A running process works on what it has saved.
SameOK == pc # "idle" => mem = disk

\* The prompts `submitting` are those of the request in flight.
AttemptOK ==
    /\ pc \in {"submit", "poll", "final"} => With(mem, "submitting") = {}
    /\ pc \in {"post", "wait"} =>
         /\ With(mem, "submitting") = run.chunk
         /\ mem.attempts[Len(mem.attempts)] = [items |-> run.chunk, outcome |-> "inFlight"]
         /\ run.chunk # {}

ChunkOK == pc \in {"submit", "post", "wait"} => Cardinality(run.chunk) <= ChunkSize

JInv == FilesOK /\ SameOK /\ AttemptOK /\ ChunkOK

\* Only a run that sends nothing has prompts in doubt.
DoubtOK ==
    pc # "idle" =>
        /\ (run.mode = "recover") <=> (With(mem, "ambiguous") # {})
        /\ run.mode = "recover" => pc \in {"poll", "final"}

\* What is pending of the current batch is still to be sent by this run.
TodoOK ==
    /\ pc \in {"submit", "post", "wait", "poll"} => run.batch \in Batches
    /\ pc \in {"submit", "post", "wait"} =>
         \A i \in Batch(run.batch) : mem.status[i] = "pending" => i \in run.todo
    /\ pc = "poll" /\ (run.mode = "new" \/ run.sent) =>
         \A i \in Batch(run.batch) : mem.status[i] # "pending"

\* What a run has done with a prompt it has passed.
Passed(i) ==
    IF run.mode = "recover" THEN mem.status[i] # "submitted" ELSE mem.status[i] \in Terminal
OrderOK ==
    /\ pc \in {"submit", "post", "wait", "poll"} =>
         \A i \in Items : i \div BatchSize < run.batch => Passed(i)
    /\ pc = "final" => \A i \in Items : Passed(i)

OInv == DoubtOK /\ TodoOK /\ OrderOK /\ ExitIsHonest

\* What the state file v says of prompt i, and how far that brought it.
Said(v, i) == IF v = NoState THEN "pending" ELSE v.status[i]
Stage(v, i) == IF Said(v, i) \in WithScan THEN "submitted" ELSE Said(v, i)

\* Files that differ in the stage of a prompt are separated by its request.
Parted(V, i) ==
    \A v, w \in V : Stage(v, i) # Stage(w, i) => \E u \in V : Said(u, i) = "submitting"
GapOK == \A i \in Items : Parted(Versions, i)

\* A receipt is known only of an accepted prompt.
ReceiptOK == \A v \in Versions, i \in Items : Said(v, i) \in WithScan => accepted[i] > 0
LandedOK == pc = "wait" /\ run.landed => \A i \in run.chunk : accepted[i] > 0

UnstartedOK == starts = 0 => disk = NoState /\ stale = {}

PInv == GapOK /\ ReceiptOK /\ LandedOK /\ UnstartedOK

-----------------------------------------------------------------------------
(* The fields of the job states the engine builds *)

\* An attempt over the chunk is added to s in t, and the chunk points to it.
LaunchesInto(s, t, chunk) ==
    LET n == Len(s.attempts) IN
    /\ t.scan = s.scan
    /\ \A i \in Items :
         /\ t.status[i] = IF i \in chunk THEN "submitting" ELSE s.status[i]
         /\ t.attempt[i] = IF i \in chunk THEN n + 1 ELSE s.attempt[i]
    /\ n \in Nat /\ Len(t.attempts) = n + 1
    /\ \A a \in 1 .. n : t.attempts[a] = s.attempts[a]
    /\ t.attempts[n + 1] = [items |-> chunk, outcome |-> "inFlight"]

\* That is what Launched does.
LEMMA LaunchedFields ==
    ASSUME NEW s \in JobStates, NEW chunk \in SUBSET Items
    PROVE  LET t == Launched(s, chunk)
           IN  t \in JobStates /\ LaunchesInto(s, t, chunk)
<1> DEFINE t == Launched(s, chunk)
           n == Len(s.attempts)
           new == [items |-> chunk, outcome |-> "inFlight"]
           js == Append(s.attempts, new)
           at == [i \in Items |-> IF i \in chunk THEN n + 1 ELSE s.attempt[i]]
           st == [i \in Items |-> IF i \in chunk THEN "submitting" ELSE s.status[i]]
<1>1. t \in JobStates
  BY LaunchedTyped
<1>2. /\ Len(js) = n + 1 /\ js[n + 1] = new
      /\ \A a \in 1 .. n : js[a] = s.attempts[a]
  <2>1. new \in Attempts
    BY DEF Attempts, Outcomes
  <2> HIDE DEF new
  <2> QED
    BY <2>1, JournalTyped, AppendProperties
<1>3. t = [s EXCEPT !.attempts = js, !.attempt = at, !.status = st]
  BY DEF Launched
<1>4. \A i \in Items :
        /\ st[i] = IF i \in chunk THEN "submitting" ELSE s.status[i]
        /\ at[i] = IF i \in chunk THEN n + 1 ELSE s.attempt[i]
  OBVIOUS
<1>5. n \in Nat
  BY JournalTyped
<1> HIDE DEF t, js, at, st
<1>6. t.attempts = js /\ t.attempt = at /\ t.status = st /\ t.scan = s.scan
  BY <1>3 DEF JobStates
<1>7. LaunchesInto(s, t, chunk)
  BY <1>1, <1>2, <1>4, <1>5, <1>6 DEF LaunchesInto
<1> QED
  BY <1>1, <1>7 DEF t

\* The chunk, and of the journal of s the last outcome only, differ in t.
EndsInto(s, t, chunk, outcome, status, scan) ==
    LET n == Len(s.attempts) IN
    /\ t.attempt = s.attempt
    /\ \A i \in Items :
         /\ t.status[i] = IF i \in chunk THEN status ELSE s.status[i]
         /\ t.scan[i] = IF i \in chunk THEN scan ELSE s.scan[i]
    /\ n \in Nat /\ n \in 1 .. n /\ Len(t.attempts) = n
    /\ \A a \in 1 .. n : a # n => t.attempts[a] = s.attempts[a]
    /\ t.attempts[n].items = s.attempts[n].items
    /\ t.attempts[n].outcome = outcome

\* That is what Ended does.
LEMMA EndedFields ==
    ASSUME NEW s \in JobStates, NEW chunk \in SUBSET Items, Len(s.attempts) > 0,
           NEW outcome \in Outcomes, NEW status \in Statuses,
           NEW scan \in ScanIds \cup {NoScan}
    PROVE  LET t == Ended(s, chunk, outcome, status, scan)
           IN  t \in JobStates /\ EndsInto(s, t, chunk, outcome, status, scan)
<1> DEFINE t == Ended(s, chunk, outcome, status, scan)
           n == Len(s.attempts)
           last == [s.attempts[n] EXCEPT !.outcome = outcome]
           js == [s.attempts EXCEPT ![n] = last]
           st == [i \in Items |-> IF i \in chunk THEN status ELSE s.status[i]]
           sc == [i \in Items |-> IF i \in chunk THEN scan ELSE s.scan[i]]
<1>1. t \in JobStates /\ Len(t.attempts) = n
  BY EndedTyped, Z3
<1>2. n \in Nat /\ n \in 1 .. n /\ s.attempts[n] \in Attempts /\ DOMAIN s.attempts = 1 .. n
  BY JournalTyped
<1>3. last.items = s.attempts[n].items /\ last.outcome = outcome
  BY <1>2 DEF Attempts
<1>4. js[n] = last /\ \A a \in 1 .. n : a # n => js[a] = s.attempts[a]
  <2> HIDE DEF last, n
  <2> QED
    BY <1>2
<1>5. t = [s EXCEPT !.attempts = js, !.status = st, !.scan = sc]
  BY DEF Ended
<1>6. \A i \in Items :
        /\ st[i] = IF i \in chunk THEN status ELSE s.status[i]
        /\ sc[i] = IF i \in chunk THEN scan ELSE s.scan[i]
  OBVIOUS
<1> HIDE DEF t, js, st, sc, last
<1>7. t.attempts = js /\ t.status = st /\ t.scan = sc /\ t.attempt = s.attempt
  BY <1>5 DEF JobStates
<1>8. EndsInto(s, t, chunk, outcome, status, scan)
  BY <1>1, <1>2, <1>3, <1>4, <1>6, <1>7 DEF EndsInto
<1> QED
  BY <1>1, <1>8 DEF t

\* Settled changes what was under way, and nothing when nothing was.
LEMMA SettledFields ==
    ASSUME NEW s \in JobStates
    PROVE  LET t == Settled(s)
               n == Len(s.attempts)
               open == {s.attempt[i] : i \in With(s, "submitting")} IN
           /\ t \in JobStates
           /\ t.attempt = s.attempt /\ t.scan = s.scan
           /\ \A i \in Items :
                t.status[i] = IF s.status[i] = "submitting" THEN "ambiguous" ELSE s.status[i]
           /\ n \in Nat /\ Len(t.attempts) = n
           /\ \A a \in 1 .. n :
                /\ t.attempts[a].items = s.attempts[a].items
                /\ t.attempts[a].outcome = IF a \in open /\ s.attempts[a].outcome = "inFlight"
                                           THEN "unknown" ELSE s.attempts[a].outcome
           /\ With(s, "submitting") = {} => t = s
<1> DEFINE t == Settled(s)
           n == Len(s.attempts)
           open == {s.attempt[i] : i \in With(s, "submitting")}
           settled(a) == IF a \in open /\ s.attempts[a].outcome = "inFlight"
                         THEN [s.attempts[a] EXCEPT !.outcome = "unknown"] ELSE s.attempts[a]
           js == [a \in 1 .. n |-> settled(a)]
           st == [i \in Items |-> IF s.status[i] = "submitting" THEN "ambiguous" ELSE s.status[i]]
<1>1. t \in JobStates /\ Len(t.attempts) = n
  BY SettledTyped, Z3
<1>2. /\ n \in Nat /\ \A a \in 1 .. n : s.attempts[a] \in Attempts
      /\ s.attempts \in Seq(Attempts) /\ DOMAIN s.attempts = 1 .. n
  BY JournalTyped
<1>3. \A a \in 1 .. n :
        /\ js[a] = settled(a)
        /\ settled(a).items = s.attempts[a].items
        /\ settled(a).outcome = IF a \in open /\ s.attempts[a].outcome = "inFlight"
                                THEN "unknown" ELSE s.attempts[a].outcome
  <2> TAKE a \in 1 .. n
  <2>1. s.attempts[a] \in Attempts
    BY <1>2
  <2> HIDE DEF open
  <2>2. js[a] = settled(a)
    OBVIOUS
  <2> QED
    BY <2>1, <2>2 DEF Attempts
<1>4. t = [s EXCEPT !.status = st, !.attempts = js]
  BY DEF Settled
<1>5. \A i \in Items :
        st[i] = IF s.status[i] = "submitting" THEN "ambiguous" ELSE s.status[i]
  OBVIOUS
<1>6. ASSUME With(s, "submitting") = {} PROVE st = s.status /\ js = s.attempts
  <2>1. \A i \in Items : s.status[i] # "submitting"
    BY <1>6 DEF With
  <2>2. st = [i \in Items |-> s.status[i]]
    BY <2>1
  <2>3. st = s.status
    BY <2>2 DEF JobStates
  <2>4. \A a \in 1 .. n : settled(a) = s.attempts[a]
    BY <1>6
  <2>5. js = [a \in 1 .. n |-> s.attempts[a]]
    BY <2>4
  <2>6. s.attempts = [a \in 1 .. n |-> s.attempts[a]]
    <3>1. s.attempts \in [1 .. n -> Attempts]
      BY <1>2, LenProperties
    <3> HIDE DEF n
    <3> QED
      BY <3>1
  <2> QED
    BY <2>3, <2>5, <2>6
<1> HIDE DEF t, js, st, n, settled
<1>7. /\ t.attempts = js /\ t.status = st /\ t.scan = s.scan /\ t.attempt = s.attempt
      /\ st = s.status /\ js = s.attempts => t = s
  BY <1>4 DEF JobStates
<1> QED
  BY <1>1, <1>2, <1>3, <1>5, <1>6, <1>7 DEF t, n

\* Recorded changes statuses only.
LEMMA RecordedFields ==
    ASSUME NEW s \in JobStates, NEW ok, NEW bad
    PROVE  LET t == Recorded(s, ok, bad) IN
           /\ t \in JobStates
           /\ t.attempts = s.attempts /\ t.attempt = s.attempt /\ t.scan = s.scan
           /\ \A i \in Items : t.status[i] = IF i \in ok THEN "complete"
                                             ELSE IF i \in bad THEN "failed" ELSE s.status[i]
<1> DEFINE t == Recorded(s, ok, bad)
           st == [i \in Items |->
               IF i \in ok THEN "complete" ELSE IF i \in bad THEN "failed" ELSE s.status[i]]
<1>1. t \in JobStates
  BY RecordedTyped
<1>2. t = [s EXCEPT !.status = st]
  BY DEF Recorded
<1>3. \A i \in Items : st[i] = IF i \in ok THEN "complete"
                               ELSE IF i \in bad THEN "failed" ELSE s.status[i]
  OBVIOUS
<1> HIDE DEF t, st
<1>4. t.status = st /\ t.attempts = s.attempts /\ t.attempt = s.attempt /\ t.scan = s.scan
  BY <1>2 DEF JobStates
<1> QED
  BY <1>1, <1>3, <1>4 DEF t

-----------------------------------------------------------------------------
(* The steps every action is made of, for JInv *)

\* What a running process works on is what the state file holds.
LEMMA WorkingFacts ==
    ASSUME IInv, JInv, pc # "idle"
    PROVE  /\ mem = disk /\ mem \in JobStates /\ mem # NoState
           /\ Valid(mem) /\ Linked(mem) /\ Covers(mem)
           /\ Len(mem.attempts) \in Nat
           /\ run \in Runs
<1>1. mem = disk /\ mem \in JobStates /\ mem # NoState /\ run \in Runs
  BY RunningFacts, NoStateAssumption DEF JInv, SameOK
<1>2. disk \in Versions
  BY DEF Versions
<1> QED
  BY <1>1, <1>2, JournalTyped DEF JInv, FilesOK

\* A checkpoint of a state that accounts for everything sent.
LEMMA FilesSaved ==
    ASSUME JInv, NEW s \in JobStates, NEW save, Checkpoint(s, save),
           wire' \subseteq wire, accepted' = accepted,
           Linked(s), \A i \in Items : Sent(i)' => Accounts(s, i)
    PROVE  FilesOK'
<1>1. Versions' \subseteq Versions \cup {s} /\ (s \in Versions' => Valid(s) \/ s \in Versions)
  BY DEF Checkpoint, Versions
<1>2. ASSUME NEW v \in Versions', v # NoState
      PROVE  Valid(v) /\ Linked(v) /\ \A i \in Items : Sent(i)' => Accounts(v, i)
  <2>1. CASE v \in Versions
    <3>1. Valid(v) /\ Linked(v) /\ Covers(v)
      BY <1>2, <2>1 DEF JInv, FilesOK
    <3> QED
      BY <3>1, SentShrinks DEF Covers
  <2>2. CASE v = s /\ v \notin Versions
    BY <1>1, <2>2
  <2> QED
    BY <1>1, <2>1, <2>2
<1> QED
  BY <1>2 DEF FilesOK, Covers, Valid, Linked

\* A step that only forgets versions.
LEMMA FilesSame ==
    ASSUME JInv, Versions' \subseteq Versions, \A i \in Items : Sent(i)' => Sent(i)
    PROVE  FilesOK'
<1>1. ASSUME NEW v \in Versions', v # NoState
      PROVE  Valid(v) /\ Linked(v) /\ \A i \in Items : Sent(i)' => Accounts(v, i)
  BY <1>1 DEF JInv, FilesOK, Covers
<1> QED
  BY <1>1 DEF FilesOK, Covers, Valid, Linked

\* A process that leaves keeps nothing but the files.
LEMMA LeaveJ ==
    ASSUME FilesOK', pc' = "idle"
    PROVE  JInv'
BY DEF JInv, SameOK, AttemptOK, ChunkOK

\* Settling closes the one attempt that was in flight.
LEMMA SettledJ ==
    ASSUME NEW s \in JobStates, Valid(s), Linked(s)
    PROVE  LET t == Settled(s) IN
           /\ t \in JobStates /\ Valid(t) /\ Linked(t)
           /\ With(t, "submitting") = {}
           /\ \A i \in Items : Accounts(s, i) => Accounts(t, i)
<1> DEFINE n == Len(s.attempts)
           open == {s.attempt[i] : i \in With(s, "submitting")}
<1>1. PICK t \in JobStates :
        /\ t = Settled(s)
        /\ t.attempt = s.attempt /\ t.scan = s.scan
        /\ \A i \in Items :
             t.status[i] = IF s.status[i] = "submitting" THEN "ambiguous" ELSE s.status[i]
        /\ n \in Nat /\ Len(t.attempts) = n
        /\ \A a \in 1 .. n :
             /\ t.attempts[a].items = s.attempts[a].items
             /\ t.attempts[a].outcome = IF a \in open /\ s.attempts[a].outcome = "inFlight"
                                        THEN "unknown" ELSE s.attempts[a].outcome
  BY SettledFields
<1>2. \A a \in 1 .. n : t.attempts[a].outcome # "inFlight"
  <2> SUFFICES ASSUME NEW a \in 1 .. n, s.attempts[a].outcome = "inFlight" PROVE a \in open
    BY <1>1
  <2> QED
    BY DEF Linked, With
<1>3. \A i \in Items : t.status[i] # "submitting"
  BY <1>1
<1> HIDE DEF n, open
<1>4. \A i \in Items :
           /\ (t.scan[i] # NoScan) <=> (t.status[i] \in WithScan)
           /\ t.status[i] = "submitting" => t.attempt[i] # 0
           /\ t.attempt[i] # 0 =>
                /\ t.attempt[i] \in 1 .. n
                /\ (t.attempts[t.attempt[i]].outcome = "inFlight") <=> (t.status[i] = "submitting")
  <2> TAKE i \in Items
  <2>1. /\ (s.scan[i] # NoScan) <=> (s.status[i] \in WithScan)
        /\ s.attempt[i] # 0 => s.attempt[i] \in 1 .. n
    BY DEF Valid, n
  <2>2. t.status[i] \in WithScan <=> s.status[i] \in WithScan
    BY <1>1 DEF WithScan, Terminal
  <2> QED
    BY <1>1, <1>2, <1>3, <2>1, <2>2
<1>5. /\ \A a \in 1 .. n : t.attempts[a].items # {} /\ Cardinality(t.attempts[a].items) <= ChunkSize
      /\ \A id \in ScanIds : Cardinality({i \in Items : t.scan[i] = id}) <= ChunkSize
  BY <1>1 DEF Valid, n
<1>6. Valid(t) /\ Linked(t)
  BY <1>1, <1>2, <1>4, <1>5 DEF Valid, Linked
<1>7. With(t, "submitting") = {}
  BY <1>3 DEF With
<1>8. ASSUME NEW i \in Items, Accounts(s, i) PROVE Accounts(t, i)
  <2>1. PICK a \in 1 .. n : i \in s.attempts[a].items /\ s.attempts[a].outcome \notin {"rejected", "notSent"}
    BY <1>8 DEF Accounts, n
  <2>2. i \in t.attempts[a].items /\ t.attempts[a].outcome \notin {"rejected", "notSent"}
    BY <1>1, <2>1
  <2> QED
    BY <1>1, <2>2 DEF Accounts
<1> QED
  BY <1>1, <1>6, <1>7, <1>8

\* A new job is valid, and nothing in it is under way.
LEMMA NewStateJ == Valid(NewState) /\ Linked(NewState) /\ With(NewState, "submitting") = {}
<1>1. /\ \A i \in Items : /\ NewState.status[i] = "pending" /\ NewState.scan[i] = NoScan
                          /\ NewState.attempt[i] = 0
      /\ NewState.attempts = <<>> /\ Len(NewState.attempts) = 0
  BY DEF NewState
<1>2. \A id \in ScanIds : {i \in Items : NewState.scan[i] = id} = {}
  BY <1>1, ConstantsAssumption
<1>3. Cardinality({}) = 0 /\ 0 <= ChunkSize
  BY FS_EmptySet, ConstantsAssumption
<1>4. \A id \in ScanIds : Cardinality({i \in Items : NewState.scan[i] = id}) <= ChunkSize
  BY <1>2, <1>3
<1>5. 1 .. 0 = {}
  OBVIOUS
<1> QED
  BY <1>1, <1>4, <1>5 DEF Valid, Linked, With, WithScan, Terminal

\* A process that enters a batch works on a state nothing is under way in.
LEMMA EnterBatchJ ==
    ASSUME FilesOK', NEW mode \in Modes, NEW b, NEW s, EnterBatch(mode, s, b),
           disk' = s, With(s, "submitting") = {}
    PROVE  JInv'
<1>1. /\ pc' = (IF mode = "new" THEN "submit" ELSE "poll") /\ mem' = s
      /\ run'.chunk = {}
  BY DEF EnterBatch, Goto, NoRun
<1>2. Cardinality({}) <= ChunkSize
  BY FS_EmptySet, ConstantsAssumption
<1> QED
  BY <1>1, <1>2 DEF JInv, SameOK, AttemptOK, ChunkOK, With

-----------------------------------------------------------------------------
(* JInv: one lemma per action *)

\* The initial states.
LEMMA InitJ == Init => JInv
<1> SUFFICES ASSUME Init PROVE JInv
  OBVIOUS
<1>1. Versions = {NoState} /\ pc = "idle"
  BY DEF Init, Versions
<1> QED
  BY <1>1 DEF JInv, FilesOK, SameOK, AttemptOK, ChunkOK

\* bulk-scan up to its first checkpoint.
LEMMA StartJ ==
    ASSUME IInv, IInv', JInv, NEW save \in Saves, Start(save)
    PROVE  JInv'
<1>1. wire' = wire /\ accepted' = accepted /\ Quiet
  BY DEF Start, service, IInv, StartOK
<1>2. \A i \in Items : ~Sent(i)'
  BY <1>1, ConstantsAssumption DEF Quiet, Sent, OnWire
<1>3. CASE save = "unsynced"
  <2>1. disk' = NoState /\ stale' = {NewState, NoState} /\ pc' = "idle"
    BY <1>3 DEF Start, Leave
  <2>2. \A v \in Versions' : v # NoState => v = NewState
    BY <2>1 DEF Versions
  <2>3. FilesOK'
    <3>1. ASSUME NEW v \in Versions', v # NoState
          PROVE  Valid(v) /\ Linked(v) /\ \A i \in Items : Sent(i)' => Accounts(v, i)
      BY <1>2, <2>2, <3>1, NewStateJ
    <3> QED
      BY <3>1 DEF FilesOK, Covers, Valid, Linked
  <2> QED
    BY <2>1, <2>3, LeaveJ
<1>4. CASE save # "unsynced"
  <2>1. SaveThen(NewState, save, EnterBatch("new", NewState, 0))
    BY <1>4 DEF Start
  <2>2. FilesOK'
    BY <1>1, <1>2, <2>1, NewStateTyped, NewStateJ, FilesSaved DEF SaveThen
  <2>3. CASE save = "saved"
    <3>1. EnterBatch("new", NewState, 0) /\ disk' = NewState
      BY <2>1, <2>3 DEF SaveThen, Checkpoint
    <3> QED
      BY <2>2, <3>1, NewStateJ, EnterBatchJ DEF Modes
  <2>4. CASE save # "saved"
    BY <2>1, <2>2, <2>4, LeaveJ DEF SaveThen, Leave
  <2> QED
    BY <2>3, <2>4
<1> QED
  BY <1>3, <1>4

\* resume-poll up to its first batch: without a settled attempt and without
\* a checkpoint it works on the file as it is.
LEMMA ResumeJ ==
    ASSUME IInv, IInv', JInv, NEW changed \in BOOLEAN, NEW save \in Saves, Resume(changed, save)
    PROVE  JInv'
<1>1. /\ disk \in JobStates /\ disk # NoState /\ disk \in Versions
      /\ wire' = wire /\ accepted' = accepted
  BY DEF Resume, IInv, TypeOK, service, Versions
<1>2. Valid(disk) /\ Linked(disk) /\ Covers(disk)
  BY <1>1 DEF JInv, FilesOK
<1>3. PICK s \in JobStates :
        /\ s = Settled(disk)
        /\ Linked(s) /\ With(s, "submitting") = {}
        /\ \A i \in Items : Accounts(disk, i) => Accounts(s, i)
        /\ With(disk, "submitting") = {} => s = disk
  BY <1>1, <1>2, SettledJ, SettledFields
<1>4. \A i \in Items : Sent(i)' => Accounts(s, i)
  BY <1>1, <1>2, <1>3, SentShrinks DEF Covers
<1>5. PICK mode \in Modes :
        IF changed \/ With(disk, "submitting") # {}
        THEN SaveThen(s, save, EnterBatch(mode, s, 0))
        ELSE UNCHANGED <<disk, stale>> /\ EnterBatch(mode, s, 0)
  BY <1>3 DEF Resume, Modes
<1>6. CASE changed \/ With(disk, "submitting") # {}
  <2>1. SaveThen(s, save, EnterBatch(mode, s, 0))
    BY <1>5, <1>6
  <2>2. FilesOK'
    BY <1>1, <1>3, <1>4, <2>1, FilesSaved DEF SaveThen
  <2>3. CASE save = "saved"
    <3>1. EnterBatch(mode, s, 0) /\ disk' = s
      BY <2>1, <2>3 DEF SaveThen, Checkpoint
    <3> QED
      BY <1>3, <2>2, <3>1, EnterBatchJ
  <2>4. CASE save # "saved"
    BY <2>1, <2>2, <2>4, LeaveJ DEF SaveThen, Leave
  <2> QED
    BY <2>3, <2>4
<1>7. CASE ~(changed \/ With(disk, "submitting") # {})
  <2>1. disk' = disk /\ stale' = stale /\ EnterBatch(mode, s, 0) /\ disk' = s
    BY <1>3, <1>5, <1>7
  <2>2. FilesOK'
    BY <1>1, <2>1, FilesSame, SentShrinks DEF Versions
  <2> QED
    BY <1>3, <2>1, <2>2, EnterBatchJ
<1> QED
  BY <1>6, <1>7

\* C1: the new attempt is the one in flight, over the chunk.
LEMMA LaunchJ ==
    ASSUME IInv, IInv', JInv, NEW save \in Saves, Launch(save)
    PROVE  JInv'
<1>1. /\ pc = "submit" /\ wire' = wire /\ accepted' = accepted
      /\ mem \in JobStates /\ Linked(mem) /\ Covers(mem) /\ run \in Runs
  BY WorkingFacts DEF Launch, service
<1>2. PICK chunk \in Chunks :
        LET t == Launched(mem, chunk) IN SaveThen(t, save, Goto("post", t, [run EXCEPT !.chunk = chunk]))
  BY DEF Launch
<1>3. chunk \in SUBSET Items /\ chunk # {} /\ Cardinality(chunk) <= ChunkSize
  BY <1>1, <1>2 DEF Chunks, Runs, JInv, ChunkOK
<1> DEFINE n == Len(mem.attempts)
<1>4. PICK s \in JobStates :
        /\ s = Launched(mem, chunk)
        /\ \A i \in Items :
             /\ s.status[i] = IF i \in chunk THEN "submitting" ELSE mem.status[i]
             /\ s.attempt[i] = IF i \in chunk THEN n + 1 ELSE mem.attempt[i]
        /\ n \in Nat /\ Len(s.attempts) = n + 1
        /\ \A a \in 1 .. n : s.attempts[a] = mem.attempts[a]
        /\ s.attempts[n + 1] = [items |-> chunk, outcome |-> "inFlight"]
  <2>1. PICK s \in JobStates : s = Launched(mem, chunk) /\ LaunchesInto(mem, s, chunk)
    BY <1>1, <1>3, LaunchedFields
  <2> QED
    BY <2>1 DEF LaunchesInto
<1>5. \A i \in Items : mem.status[i] # "submitting"
  BY <1>1 DEF JInv, AttemptOK, With
<1>6. \A a \in 1 .. n : mem.attempts[a].outcome # "inFlight"
  BY <1>1, <1>5 DEF Linked
<1> HIDE DEF n
<1>7. Linked(s)
  <2> SUFFICES ASSUME NEW a \in 1 .. (n + 1), s.attempts[a].outcome = "inFlight"
               PROVE  \E i \in Items : s.status[i] = "submitting" /\ s.attempt[i] = a
    BY <1>4 DEF Linked
  <2>1. a = n + 1
    BY <1>4, <1>6
  <2>2. PICK i \in chunk : i \in Items
    BY <1>3
  <2> QED
    BY <1>4, <2>1, <2>2
<1>8. \A i \in Items : Sent(i)' => Accounts(s, i)
  <2> SUFFICES ASSUME NEW i \in Items, Sent(i)' PROVE Accounts(s, i)
    OBVIOUS
  <2>1. PICK a \in 1 .. n : i \in mem.attempts[a].items /\ mem.attempts[a].outcome \notin {"rejected", "notSent"}
    BY <1>1, SentShrinks DEF Covers, Accounts, n
  <2> QED
    BY <1>4, <2>1 DEF Accounts
<1>9. FilesOK'
  BY <1>1, <1>2, <1>4, <1>7, <1>8, FilesSaved DEF SaveThen
<1>10. CASE save # "saved"
  BY <1>2, <1>9, <1>10, LeaveJ DEF SaveThen, Leave
<1>11. CASE save = "saved"
  <2>1. /\ disk' = s /\ pc' = "post" /\ mem' = s /\ run' = [run EXCEPT !.chunk = chunk]
    BY <1>2, <1>4, <1>11 DEF SaveThen, Checkpoint, Goto
  <2>2. run'.chunk = chunk
    BY <1>1, <2>1 DEF Runs
  <2>3. With(s, "submitting") = chunk
    BY <1>3, <1>4, <1>5 DEF With
  <2>4. s.attempts[Len(s.attempts)] = [items |-> chunk, outcome |-> "inFlight"]
    BY <1>4
  <2> QED
    BY <1>3, <1>9, <2>1, <2>2, <2>3, <2>4 DEF JInv, SameOK, AttemptOK, ChunkOK, With
<1> QED
  BY <1>10, <1>11

\* A request leaves: its attempt is in the journal already.
LEMMA PostJ ==
    ASSUME IInv, IInv', JInv, Post
    PROVE  JInv'
<1>1. /\ pc = "post" /\ pc' = "wait" /\ disk' = disk /\ stale' = stale /\ mem' = mem
      /\ accepted' = accepted
      /\ wire' = wire \cup {[attempt |-> Len(mem.attempts), items |-> run.chunk]}
      /\ run' = [run EXCEPT !.landed = FALSE]
  BY DEF Post, Goto
<1>2. mem = disk /\ mem \in JobStates /\ mem # NoState /\ run \in Runs
      /\ Valid(mem) /\ Linked(mem) /\ Covers(mem)
  BY <1>1, WorkingFacts
<1>3. /\ run'.chunk = run.chunk
  BY <1>1, <1>2 DEF Runs
<1>4. stale = {} /\ Len(mem.attempts) > 0 /\ Len(mem.attempts) \in Nat
  BY <1>1, <1>2, JournalTyped DEF IInv, FlightOK
<1>5. mem.attempts[Len(mem.attempts)] = [items |-> run.chunk, outcome |-> "inFlight"]
  BY <1>1 DEF JInv, AttemptOK
<1>6. \A i \in Items : Sent(i)' => Accounts(mem, i)
  <2> SUFFICES ASSUME NEW i \in Items, Sent(i)' PROVE Accounts(mem, i)
    OBVIOUS
  <2>1. CASE Sent(i)
    BY <1>2, <2>1 DEF Covers
  <2>2. CASE i \in run.chunk
    <3>1. Len(mem.attempts) \in 1 .. Len(mem.attempts)
      BY <1>4
    <3> QED
      BY <1>5, <2>2, <3>1 DEF Accounts
  <2> QED
    BY <1>1, <2>1, <2>2 DEF Sent, OnWire
<1>7. FilesOK'
  <2>1. Versions' = {mem}
    BY <1>1, <1>2, <1>4 DEF Versions
  <2>2. ASSUME NEW v \in Versions', v # NoState
        PROVE  Valid(v) /\ Linked(v) /\ \A i \in Items : Sent(i)' => Accounts(v, i)
    <3>1. v = mem
      BY <2>1
    <3> QED
      BY <1>2, <1>6, <3>1
  <2> QED
    BY <2>2 DEF FilesOK, Covers, Valid, Linked
<1> QED
  BY <1>1, <1>3, <1>7 DEF JInv, SameOK, AttemptOK, ChunkOK, With

\* What C3 saves: nothing is in flight any more, and a prompt the service
\* has is accounted for by an attempt other than a refused one.
LEMMA EndedJ ==
    ASSUME IInv, JInv, pc \in {"post", "wait"}, wire' \subseteq wire, accepted' = accepted,
           NEW outcome \in Outcomes, outcome # "inFlight",
           NEW status \in Statuses, status # "submitting", NEW scan \in ScanIds \cup {NoScan},
           outcome \in {"rejected", "notSent"} => \A i \in run.chunk : ~Sent(i)'
    PROVE  \E s \in JobStates :
             /\ s = Ended(mem, run.chunk, outcome, status, scan)
             /\ Linked(s) /\ With(s, "submitting") = {}
             /\ \A i \in Items : Sent(i)' => Accounts(s, i)
<1> DEFINE n == Len(mem.attempts)
<1>1. /\ mem \in JobStates /\ Valid(mem) /\ Linked(mem) /\ Covers(mem)
      /\ run.chunk \in SUBSET Items /\ n > 0
      /\ With(mem, "submitting") = run.chunk
      /\ mem.attempts[n] = [items |-> run.chunk, outcome |-> "inFlight"]
  BY WorkingFacts DEF IInv, FlightOK, Runs, JInv, AttemptOK
<1>2. PICK s \in JobStates :
        /\ s = Ended(mem, run.chunk, outcome, status, scan)
        /\ \A i \in Items : s.status[i] = IF i \in run.chunk THEN status ELSE mem.status[i]
        /\ n \in 1 .. n /\ Len(s.attempts) = n
        /\ \A a \in 1 .. n : a # n => s.attempts[a] = mem.attempts[a]
        /\ s.attempts[n].items = mem.attempts[n].items
        /\ s.attempts[n].outcome = outcome
  <2>1. PICK s \in JobStates :
          /\ s = Ended(mem, run.chunk, outcome, status, scan)
          /\ EndsInto(mem, s, run.chunk, outcome, status, scan)
    BY <1>1, EndedFields
  <2> QED
    BY <2>1 DEF EndsInto
<1>3. \A i \in Items : s.status[i] # "submitting"
  BY <1>1, <1>2 DEF With
<1>4. \A a \in 1 .. n : mem.attempts[a].outcome = "inFlight" => a = n
  BY <1>1, <1>2 DEF Valid
<1> HIDE DEF n
<1>5. \A a \in 1 .. n : s.attempts[a].outcome # "inFlight"
  BY <1>2, <1>4
<1>6. ASSUME NEW i \in Items, Sent(i)' PROVE Accounts(s, i)
  <2>1. PICK a \in 1 .. n : i \in mem.attempts[a].items /\ mem.attempts[a].outcome \notin {"rejected", "notSent"}
    BY <1>1, <1>6, SentShrinks DEF Covers, Accounts, n
  <2>2. CASE a # n
    BY <1>2, <2>1, <2>2 DEF Accounts
  <2>3. CASE a = n
    <3>1. i \in run.chunk
      BY <1>1, <2>1, <2>3
    <3>2. outcome \notin {"rejected", "notSent"}
      BY <1>6, <3>1
    <3> QED
      BY <1>2, <2>1, <2>3, <3>2 DEF Accounts
  <2> QED
    BY <2>2, <2>3
<1>7. Linked(s) /\ With(s, "submitting") = {}
  BY <1>2, <1>3, <1>5 DEF Linked, With
<1> WITNESS s \in JobStates
<1> QED
  BY <1>2, <1>6, <1>7

\* An outcome that ends the run.
LEMMA EndRunJ ==
    ASSUME IInv, JInv, pc \in {"post", "wait"}, wire' \subseteq wire, accepted' = accepted,
           NEW outcome \in Outcomes, outcome # "inFlight",
           NEW status \in Statuses, status # "submitting", NEW save,
           outcome \in {"rejected", "notSent"} => \A i \in run.chunk : ~Sent(i)',
           EndRun(outcome, status, save)
    PROVE  JInv'
<1>1. PICK s \in JobStates :
        /\ s = Ended(mem, run.chunk, outcome, status, NoScan)
        /\ Linked(s) /\ \A i \in Items : Sent(i)' => Accounts(s, i)
  BY EndedJ
<1>2. Checkpoint(s, save) /\ pc' = "idle"
  BY <1>1 DEF EndRun, SaveThen, Leave
<1>3. FilesOK'
  BY <1>1, <1>2, FilesSaved
<1> QED
  BY <1>2, <1>3, LeaveJ

\* C3 of a receipt.
LEMMA ReceiptJ ==
    ASSUME IInv, IInv', JInv, NEW scan \in ScanIds, NEW save \in Saves, Receipt(scan, save)
    PROVE  JInv'
<1>1. /\ pc = "wait" /\ wire' = wire /\ accepted' = accepted /\ run \in Runs
  BY WorkingFacts DEF Receipt, service
<1>2. PICK s \in JobStates :
        /\ s = Ended(mem, run.chunk, "accepted", "submitted", scan)
        /\ Linked(s) /\ With(s, "submitting") = {}
        /\ \A i \in Items : Sent(i)' => Accounts(s, i)
  <2>1. "accepted" \in Outcomes /\ "submitted" \in Statuses
    BY DEF Outcomes, Statuses
  <2> QED
    BY <1>1, <2>1, EndedJ
<1> DEFINE left == run.todo \ run.chunk
           r == [run EXCEPT !.todo = left, !.chunk = {}, !.retries = 0,
                            !.landed = FALSE, !.sent = (left = {}), !.quiet = 0]
<1>3. SaveThen(s, save, IF cancelled THEN Leave("stopped")
                        ELSE Goto(IF left = {} THEN "poll" ELSE "submit", s, r))
  BY <1>2 DEF Receipt
<1>4. FilesOK'
  BY <1>1, <1>2, <1>3, FilesSaved DEF SaveThen
<1>5. CASE Leave("stopped")
  BY <1>4, <1>5, LeaveJ DEF Leave
<1>6. CASE save = "saved" /\ Goto(IF left = {} THEN "poll" ELSE "submit", s, r)
  <2>1. /\ pc' = (IF left = {} THEN "poll" ELSE "submit") /\ mem' = s /\ run' = r /\ disk' = s
    BY <1>3, <1>6 DEF Goto, SaveThen, Checkpoint
  <2>2. r.chunk = {} /\ Cardinality({}) <= ChunkSize
    BY <1>1, FS_EmptySet, ConstantsAssumption DEF Runs
  <2> HIDE DEF r
  <2> QED
    BY <1>2, <1>4, <2>1, <2>2 DEF JInv, SameOK, AttemptOK, ChunkOK, With
<1> QED
  BY <1>3, <1>5, <1>6 DEF SaveThen

\* What a refusal takes off the wire is the chunk it makes resendable.
LEMMA RefusedNotSent ==
    ASSUME IInv, NEW limited, NEW save, Refused(limited, save)
    PROVE  \A i \in run.chunk : ~Sent(i)'
<1>1. pc = "wait" /\ wire' = wire \ InFlight /\ accepted' = accepted /\ run \in Runs
  BY DEF Refused, IInv, TypeOK
<1>2. PICK q \in InFlight : q.items = run.chunk /\ q \in wire
  BY <1>1 DEF Refused, IInv, WaitOK, InFlight
<1>3. \A i \in run.chunk : i \in Items
  BY <1>1 DEF Runs
<1>4. \A i \in run.chunk : accepted[i] = 0 /\ \A p \in wire : i \in p.items => p = q
  BY <1>2, <1>3 DEF IInv, World, WireOK
<1> QED
  BY <1>1, <1>2, <1>3, <1>4 DEF Sent, OnWire

\* C3 of a refusal.
LEMMA RefusedJ ==
    ASSUME IInv, IInv', JInv, NEW limited \in BOOLEAN, NEW save \in Saves, Refused(limited, save)
    PROVE  JInv'
<1>1. /\ pc = "wait" /\ wire' \subseteq wire /\ accepted' = accepted /\ run \in Runs
  BY WorkingFacts DEF Refused
<1>2. \A i \in run.chunk : ~Sent(i)'
  BY RefusedNotSent
<1>3. "rejected" \in Outcomes /\ "pending" \in Statuses
  BY DEF Outcomes, Statuses
<1>4. CASE EndRun("rejected", "pending", save)
  BY <1>1, <1>2, <1>3, <1>4, EndRunJ
<1> DEFINE r == [run EXCEPT !.retries = @ + 1]
           t == Ended(mem, run.chunk, "rejected", "pending", NoScan)
<1>5. CASE SaveThen(t, save, Goto("submit", t, r))
  <2>1. PICK s \in JobStates :
          /\ s = t
          /\ Linked(s) /\ With(s, "submitting") = {}
          /\ \A i \in Items : Sent(i)' => Accounts(s, i)
    BY <1>1, <1>2, <1>3, EndedJ
  <2>2. SaveThen(s, save, Goto("submit", s, r))
    BY <1>5, <2>1
  <2>3. FilesOK'
    BY <1>1, <2>1, <2>2, FilesSaved DEF SaveThen
  <2>4. CASE save # "saved"
    BY <2>2, <2>3, <2>4, LeaveJ DEF SaveThen, Leave
  <2>5. CASE save = "saved"
    <3>1. pc' = "submit" /\ mem' = s /\ run' = r /\ disk' = s
      BY <2>2, <2>5 DEF SaveThen, Checkpoint, Goto
    <3>2. r.chunk = run.chunk
      BY <1>1 DEF Runs
    <3>3. Cardinality(run.chunk) <= ChunkSize
      BY <1>1 DEF JInv, ChunkOK
    <3> HIDE DEF r
    <3> QED
      BY <2>1, <2>3, <3>1, <3>2, <3>3 DEF JInv, SameOK, AttemptOK, ChunkOK, With
  <2> QED
    BY <2>4, <2>5
<1> QED
  BY <1>4, <1>5 DEF Refused

\* The other outcomes.
LEMMA OtherOutcomesJ ==
    ASSUME IInv, IInv', JInv, NEW save \in Saves, UnusableReceipt(save) \/ NotSent(save) \/ Unknown(save)
    PROVE  JInv'
<1>1. /\ pc \in {"post", "wait"} /\ wire' \subseteq wire /\ accepted' = accepted
  BY DEF UnusableReceipt, NotSent, Unknown, service
<1>2. /\ {"unusableReceipt", "notSent", "unknown"} \subseteq Outcomes
      /\ {"pending", "ambiguous"} \subseteq Statuses
  BY DEF Outcomes, Statuses
<1>3. CASE UnusableReceipt(save)
  BY <1>1, <1>2, <1>3, EndRunJ DEF UnusableReceipt
<1>4. CASE Unknown(save)
  BY <1>1, <1>2, <1>4, EndRunJ DEF Unknown
<1>5. CASE NotSent(save)
  <2>1. \A i \in run.chunk : ~Sent(i)'
    <3>1. \A i \in run.chunk : i \in Items /\ ~Sent(i)
      BY <1>5, RunningFacts DEF NotSent, IInv, PostOK, Runs
    <3> QED
      BY <1>1, <3>1, SentShrinks
  <2> QED
    BY <1>1, <1>2, <1>5, <2>1, EndRunJ DEF NotSent
<1> QED
  BY <1>3, <1>4, <1>5

\* Results are recorded: only statuses change, none to or from `submitting`.
LEMMA ResolveJ ==
    ASSUME IInv, IInv', JInv, NEW ok \in SUBSET Items, NEW bad \in SUBSET Items,
           NEW save \in Saves, NEW after \in Afters, Resolve(ok, bad, save, after)
    PROVE  JInv'
<1>1. /\ pc = "poll" /\ wire' = wire /\ accepted' = accepted
      /\ mem \in JobStates /\ Linked(mem) /\ Covers(mem)
      /\ With(mem, "submitting") = {}
  BY WorkingFacts DEF Resolve, service, JInv, AttemptOK
<1>2. PICK s \in JobStates :
        /\ s = Recorded(mem, ok, bad)
        /\ s.attempts = mem.attempts /\ s.attempt = mem.attempt
        /\ \A i \in Items : s.status[i] = IF i \in ok THEN "complete"
                                          ELSE IF i \in bad THEN "failed" ELSE mem.status[i]
  BY <1>1, RecordedFields
<1>3. \A i \in Items : s.status[i] # "submitting" /\ mem.status[i] # "submitting"
  BY <1>1, <1>2 DEF With
<1>4. Linked(s) /\ With(s, "submitting") = {}
  BY <1>1, <1>2, <1>3 DEF Linked, With
<1>5. \A i \in Items : Sent(i)' => Accounts(s, i)
  BY <1>1, <1>2, SentShrinks DEF Covers, Accounts
<1>6. PICK r : SaveThen(s, save, Goto("poll", s, r) \/ Leave("stopped"))
  BY <1>2 DEF Resolve, SaveThen
<1>7. FilesOK'
  BY <1>1, <1>4, <1>5, <1>6, FilesSaved DEF SaveThen
<1>8. CASE Leave("stopped")
  BY <1>7, <1>8, LeaveJ DEF Leave
<1>9. CASE save = "saved" /\ Goto("poll", s, r)
  <2>1. pc' = "poll" /\ mem' = s /\ disk' = s
    BY <1>6, <1>9 DEF SaveThen, Checkpoint, Goto
  <2> QED
    BY <1>4, <1>7, <2>1 DEF JInv, SameOK, AttemptOK, ChunkOK, With
<1> QED
  BY <1>6, <1>8, <1>9 DEF SaveThen

\* Polls without a result, and the end of a batch: the files stay as they are.
LEMMA PollJ ==
    ASSUME IInv, IInv', JInv, ReadLimited \/ NoProgress \/ BatchPolled
    PROVE  JInv'
<1>1. /\ pc = "poll" /\ disk' = disk /\ stale' = stale /\ wire' = wire /\ accepted' = accepted
      /\ mem = disk /\ With(mem, "submitting") = {}
  BY WorkingFacts DEF ReadLimited, NoProgress, BatchPolled, service, JInv, AttemptOK
<1>2. FilesOK'
  BY <1>1, FilesSame, SentShrinks DEF Versions
<1>3. CASE pc' = "idle"
  BY <1>2, <1>3, LeaveJ
<1>4. CASE pc' \in {"poll", "final"} /\ mem' = mem
  BY <1>1, <1>2, <1>4 DEF JInv, SameOK, AttemptOK, ChunkOK, With
<1>5. CASE EnterBatch(run.mode, mem, run.batch + 1)
  <2>1. run.mode \in Modes
    BY <1>1, RunningFacts DEF Runs
  <2>2. PICK mode \in Modes : mode = run.mode
    BY <2>1
  <2>3. PICK b : b = run.batch + 1
    OBVIOUS
  <2>4. PICK s : s = mem
    OBVIOUS
  <2> QED
    BY <1>1, <1>2, <1>5, <2>2, <2>3, <2>4, EnterBatchJ
<1>6. CASE BatchPolled /\ pc' = "submit" /\ mem' = mem /\ run'.chunk = {}
  <2>1. Cardinality({}) <= ChunkSize
    BY FS_EmptySet, ConstantsAssumption
  <2> QED
    BY <1>1, <1>2, <1>6, <2>1 DEF JInv, SameOK, AttemptOK, ChunkOK, With
<1>7. CASE BatchPolled /\ Goto("submit", mem, [run EXCEPT !.todo = ToSend(run.mode, mem, run.batch), !.quiet = 0])
  <2>1. run'.chunk = run.chunk /\ run.chunk = {} /\ pc' = "submit" /\ mem' = mem
    BY <1>1, <1>7, RunningFacts DEF Goto, Runs, IInv, SubmitOK
  <2> QED
    BY <1>6, <1>7, <2>1
<1> QED
  BY <1>1, <1>3, <1>4, <1>5, <1>7 DEF ReadLimited, NoProgress, BatchPolled, Goto, Leave

\* The final save.
LEMMA FinishJ ==
    ASSUME IInv, IInv', JInv, NEW save \in Saves, NEW fails \in BOOLEAN, Finish(save, fails)
    PROVE  JInv'
<1>1. /\ pc = "final" /\ wire' = wire /\ accepted' = accepted /\ pc' = "idle"
      /\ mem \in JobStates /\ Linked(mem) /\ Covers(mem) /\ Checkpoint(mem, save)
  BY WorkingFacts DEF Finish, service, SaveThen, Leave
<1>2. PICK s \in JobStates : s = mem
  BY <1>1
<1>3. \A i \in Items : Sent(i)' => Accounts(s, i)
  BY <1>1, <1>2, SentShrinks DEF Covers
<1>4. FilesOK'
  BY <1>1, <1>2, <1>3, FilesSaved
<1> QED
  BY <1>1, <1>4, LeaveJ

\* The process stops or dies, the machine loses power, a signal is noted.
LEMMA WorldJ ==
    ASSUME IInv, IInv', JInv, SubmitInterrupted \/ PollStops \/ Crash \/ PowerLoss \/ Signal
    PROVE  JInv'
<1>1. /\ wire' = wire /\ accepted' = accepted /\ Versions' \subseteq Versions
  BY DEF SubmitInterrupted, PollStops, Crash, PowerLoss, Signal, service, Versions
<1>2. FilesOK'
  BY <1>1, FilesSame, SentShrinks
<1>3. CASE Signal
  BY <1>2, <1>3 DEF Signal, service, JInv, SameOK, AttemptOK, ChunkOK, With
<1>4. CASE ~Signal
  <2>1. pc' = "idle"
    BY <1>4 DEF SubmitInterrupted, PollStops, Crash, PowerLoss, Leave
  <2> QED
    BY <1>2, <2>1, LeaveJ
<1> QED
  BY <1>3, <1>4

\* An acceptance gives the service nothing that was not on its way to it.
LEMMA AcceptSent ==
    ASSUME IInv, NEW q \in wire, Accept(q)
    PROVE  \A i \in Items : Sent(i)' <=> Sent(i)
<1>1. /\ wire' = wire \ {q}
      /\ accepted' = [i \in Items |-> IF i \in q.items THEN accepted[i] + 1 ELSE accepted[i]]
  BY DEF Accept
<1>2. \A i \in Items : i \in q.items => accepted[i] = 0 /\ accepted'[i] = 1
  BY <1>1 DEF IInv, World, WireOK
<1> QED
  BY <1>1, <1>2 DEF Sent, OnWire, IInv, World

(* An answer of the service, at once or late, changes no file: a prompt it   *)
(* accepts was on the wire, so every readable journal marks it already.      *)
LEMMA AcceptJ ==
    ASSUME IInv, IInv', JInv, NEW q \in wire, Accept(q)
    PROVE  JInv'
<1>1. UNCHANGED <<disk, stale, mem, pc>> /\ run'.chunk = run.chunk
  <2>1. run \in Runs
    BY DEF IInv, TypeOK
  <2> QED
    BY <2>1 DEF Accept, Runs
<1>2. FilesOK'
  BY <1>1, AcceptSent, FilesSame DEF Versions
<1> QED
  BY <1>1, <1>2 DEF JInv, SameOK, AttemptOK, ChunkOK, With

\* Every step keeps JInv.
LEMMA StepJ == IInv /\ IInv' /\ JInv /\ [Next]_vars => JInv'
<1> SUFFICES ASSUME IInv, IInv', JInv, [Next]_vars PROVE JInv'
  OBVIOUS
<1>1. CASE \E save \in Saves : Start(save)
  BY <1>1, StartJ
<1>2. CASE \E changed \in BOOLEAN, save \in Saves : Resume(changed, save)
  BY <1>2, ResumeJ
<1>3. ASSUME NEW save \in Saves, Process(save) PROVE JInv'
  <2>1. CASE Launch(save)
    BY <2>1, LaunchJ
  <2>2. CASE \E scan \in ScanIds : Receipt(scan, save)
    BY <2>2, ReceiptJ
  <2>3. CASE UnusableReceipt(save) \/ NotSent(save) \/ Unknown(save)
    BY <2>3, OtherOutcomesJ
  <2>4. CASE \E limited \in BOOLEAN : Refused(limited, save)
    BY <2>4, RefusedJ
  <2>5. CASE \E ok, bad \in SUBSET Items, after \in Afters : Resolve(ok, bad, save, after)
    BY <2>5, ResolveJ
  <2>6. CASE \E fails \in BOOLEAN : Finish(save, fails)
    BY <2>6, FinishJ
  <2> QED
    BY <1>3, <2>1, <2>2, <2>3, <2>4, <2>5, <2>6 DEF Process
<1>4. CASE Post
  BY <1>4, PostJ
<1>5. CASE ReadLimited \/ NoProgress \/ BatchPolled
  BY <1>5, PollJ
<1>6. CASE SubmitInterrupted \/ PollStops \/ Crash \/ PowerLoss \/ Signal
  BY <1>6, WorldJ
<1>7. CASE \E q \in wire : Accept(q)
  BY <1>7, AcceptJ
<1>8. CASE UNCHANGED vars
  <2>1. UNCHANGED <<disk, stale, mem, pc, run, wire, accepted>>
    BY <1>8 DEF vars
  <2>2. FilesOK'
    BY <2>1, FilesSame, SentShrinks DEF Versions
  <2> QED
    BY <2>1, <2>2 DEF JInv, SameOK, AttemptOK, ChunkOK, With
<1> QED
  BY <1>1, <1>2, <1>3, <1>4, <1>5, <1>6, <1>7, <1>8 DEF Next, Running

-----------------------------------------------------------------------------
(* The journal, and what validation refuses *)

\* The invariant of the journal holds of every behaviour of the job.
THEOREM JournalInductive == Spec => []JInv
<1>1. Init => JInv
  BY InitJ
<1>2. IInv /\ IInv' /\ JInv /\ [Next]_vars => JInv'
  BY StepJ
<1> QED
  BY <1>1, <1>2, Inductive, PTL DEF Spec

\* Every prompt the service accepted is accounted for by the attempts of
\* every state file a later run could read, whatever was lost in between.
THEOREM JournalComplete == Spec => []JournalCoversService
<1>1. IInv /\ JInv => JournalCoversService
  <2> SUFFICES ASSUME IInv, JInv, NEW v \in Versions, NEW i \in Items, accepted[i] > 0
               PROVE  v # NoState /\ Accounts(v, i)
    BY DEF JournalCoversService, Accounts
  <2>1. Sent(i)
    BY DEF Sent
  <2>2. ~Quiet
    BY ConstantsAssumption DEF Quiet
  <2> QED
    BY <2>1, <2>2 DEF IInv, World, VersionOK, JInv, FilesOK, Covers
<1> QED
  BY <1>1, Inductive, JournalInductive, PTL

\* A subset of the prompts is finite.
LEMMA ItemsFinite ==
    /\ IsFiniteSet(Items)
    /\ \A S \in SUBSET Items : IsFiniteSet(S) /\ Cardinality(S) \in Nat
<1>1. 0 \in Int /\ N - 1 \in Int
  BY ConstantsAssumption
<1>2. IsFiniteSet(Items)
  BY <1>1, FS_Interval DEF Items
<1>3. \A S \in SUBSET Items : IsFiniteSet(S)
  BY <1>2, FS_Subset
<1> QED
  BY <1>2, <1>3, FS_CardinalityType

\* C1 of the next request is a state validation accepts.
LEMMA LaunchedValid ==
    ASSUME IInv, JInv, pc = "submit", NEW c \in Chunks
    PROVE  Valid(Launched(mem, c))
<1> DEFINE n == Len(mem.attempts)
<1>1. /\ mem \in JobStates /\ Valid(mem) /\ Linked(mem) /\ run \in Runs
      /\ c \in SUBSET Items /\ c # {} /\ Cardinality(c) <= ChunkSize
  BY WorkingFacts DEF Chunks, Runs, JInv, ChunkOK
<1>2. PICK s \in JobStates :
        /\ s = Launched(mem, c) /\ s.scan = mem.scan
        /\ \A i \in Items :
             /\ s.status[i] = IF i \in c THEN "submitting" ELSE mem.status[i]
             /\ s.attempt[i] = IF i \in c THEN n + 1 ELSE mem.attempt[i]
        /\ n \in Nat /\ Len(s.attempts) = n + 1
        /\ \A a \in 1 .. n : s.attempts[a] = mem.attempts[a]
        /\ s.attempts[n + 1] = [items |-> c, outcome |-> "inFlight"]
  <2>1. PICK s \in JobStates : s = Launched(mem, c) /\ LaunchesInto(mem, s, c)
    BY <1>1, LaunchedFields
  <2> QED
    BY <2>1 DEF LaunchesInto
<1>3. \A i \in Items : mem.status[i] # "submitting" /\ (i \in c => mem.status[i] = "pending")
  BY <1>1 DEF JInv, AttemptOK, With, IInv, SubmitOK, Chunks
<1>4. \A a \in 1 .. n : mem.attempts[a].outcome # "inFlight"
  BY <1>1, <1>3 DEF Linked
<1>5. /\ \A i \in Items :
           /\ (mem.scan[i] # NoScan) <=> (mem.status[i] \in WithScan)
           /\ mem.attempt[i] # 0 => mem.attempt[i] \in 1 .. n
      /\ \A a \in 1 .. n : mem.attempts[a].items # {} /\ Cardinality(mem.attempts[a].items) <= ChunkSize
      /\ \A id \in ScanIds : Cardinality({i \in Items : mem.scan[i] = id}) <= ChunkSize
  BY <1>1 DEF Valid
<1> HIDE DEF n
<1>6. \A a \in 1 .. (n + 1) : a \in 1 .. n \/ a = n + 1
  BY <1>2
<1>7. \A i \in Items :
        /\ (s.scan[i] # NoScan) <=> (s.status[i] \in WithScan)
        /\ s.status[i] = "submitting" => s.attempt[i] # 0
        /\ s.attempt[i] # 0 =>
             /\ s.attempt[i] \in 1 .. (n + 1)
             /\ (s.attempts[s.attempt[i]].outcome = "inFlight") <=> (s.status[i] = "submitting")
  <2> TAKE i \in Items
  <2>1. CASE i \in c
    BY <1>2, <1>3, <1>5, <2>1 DEF WithScan, Terminal
  <2>2. CASE i \notin c
    BY <1>2, <1>3, <1>4, <1>5, <2>2
  <2> QED
    BY <2>1, <2>2
<1>8. \A a, b \in 1 .. (n + 1) :
        /\ s.attempts[a].items # {}
        /\ Cardinality(s.attempts[a].items) <= ChunkSize
        /\ s.attempts[a].outcome = "inFlight" /\ s.attempts[b].outcome = "inFlight" => a = b
  BY <1>1, <1>2, <1>4, <1>5, <1>6
<1> QED
  BY <1>2, <1>5, <1>7, <1>8 DEF Valid

\* C3 of an outcome is one, unless the scan id belongs to another request.
LEMMA EndedValid ==
    ASSUME IInv, JInv, pc = "wait",
           NEW outcome \in Outcomes, outcome # "inFlight",
           NEW status \in Statuses, status # "submitting", NEW scan \in ScanIds \cup {NoScan},
           scan # NoScan <=> status \in WithScan,
           scan # NoScan => \A i \in Items : mem.scan[i] # scan
    PROVE  Valid(Ended(mem, run.chunk, outcome, status, scan))
<1> DEFINE n == Len(mem.attempts)
<1>1. /\ mem \in JobStates /\ Valid(mem) /\ Linked(mem)
      /\ run.chunk \in SUBSET Items /\ n > 0 /\ n \in 1 .. n
      /\ With(mem, "submitting") = run.chunk
      /\ mem.attempts[n] = [items |-> run.chunk, outcome |-> "inFlight"]
      /\ Cardinality(run.chunk) <= ChunkSize
  BY WorkingFacts DEF IInv, FlightOK, Runs, JInv, AttemptOK, ChunkOK
<1>2. PICK s \in JobStates :
        /\ s = Ended(mem, run.chunk, outcome, status, scan)
        /\ EndsInto(mem, s, run.chunk, outcome, status, scan)
  BY <1>1, EndedFields
<1>3. /\ s.attempt = mem.attempt
      /\ \A i \in Items :
           /\ s.status[i] = IF i \in run.chunk THEN status ELSE mem.status[i]
           /\ s.scan[i] = IF i \in run.chunk THEN scan ELSE mem.scan[i]
      /\ n \in Nat /\ Len(s.attempts) = n
      /\ \A a \in 1 .. n : s.attempts[a].items = mem.attempts[a].items
      /\ \A a \in 1 .. n : a # n => s.attempts[a] = mem.attempts[a]
      /\ s.attempts[n].outcome = outcome
  BY <1>2 DEF EndsInto
<1>4. \A i \in Items : s.status[i] # "submitting"
  BY <1>1, <1>3 DEF With
<1>5. \A a \in 1 .. n : mem.attempts[a].outcome = "inFlight" => a = n
  BY <1>1 DEF Valid
<1>6. /\ \A i \in Items :
           /\ (mem.scan[i] # NoScan) <=> (mem.status[i] \in WithScan)
           /\ mem.attempt[i] # 0 => mem.attempt[i] \in 1 .. n
      /\ \A a \in 1 .. n : mem.attempts[a].items # {} /\ Cardinality(mem.attempts[a].items) <= ChunkSize
      /\ \A id \in ScanIds : Cardinality({i \in Items : mem.scan[i] = id}) <= ChunkSize
  BY <1>1 DEF Valid
<1> HIDE DEF n
<1>7. \A a \in 1 .. n : s.attempts[a].outcome # "inFlight"
  BY <1>3, <1>5
<1>8. \A i \in Items :
        /\ (s.scan[i] # NoScan) <=> (s.status[i] \in WithScan)
        /\ s.attempt[i] # 0 => s.attempt[i] \in 1 .. n
  BY <1>3, <1>6
<1>9. \A id \in ScanIds : Cardinality({i \in Items : s.scan[i] = id}) <= ChunkSize
  <2> TAKE id \in ScanIds
  <2> DEFINE new == {i \in Items : s.scan[i] = id}
             old == {i \in Items : mem.scan[i] = id}
  <2>1. CASE scan = id
    <3>1. id # NoScan
      BY ConstantsAssumption
    <3>2. \A i \in Items : mem.scan[i] # id
      BY <2>1, <3>1
    <3>3. new = run.chunk
      BY <1>1, <1>3, <2>1, <3>2
    <3> QED
      BY <1>1, <3>3
  <2>2. CASE scan # id
    <3>1. new \subseteq old /\ old \in SUBSET Items
      BY <1>3, <2>2
    <3>2. IsFiniteSet(old)
      BY <3>1, ItemsFinite
    <3>3. Cardinality(new) <= Cardinality(old)
      <4> HIDE DEF new, old
      <4> QED
        BY <3>1, <3>2, FS_Subset
    <3>4. Cardinality(new) \in Nat /\ Cardinality(old) \in Nat /\ new \in SUBSET Items
      <4> HIDE DEF new, old
      <4> QED
        BY <3>1, ItemsFinite
    <3>5. Cardinality(old) <= ChunkSize /\ ChunkSize \in Nat
      BY <1>6, ConstantsAssumption
    <3> HIDE DEF new, old
    <3>6. Cardinality(new) <= ChunkSize
      BY <3>3, <3>4, <3>5
    <3> QED
      BY <3>6 DEF new
  <2> QED
    BY <2>1, <2>2
<1>10. \A i \in Items :
        /\ s.status[i] = "submitting" => s.attempt[i] # 0
        /\ s.attempt[i] # 0 =>
             (s.attempts[s.attempt[i]].outcome = "inFlight") <=> (s.status[i] = "submitting")
  BY <1>4, <1>7, <1>8
<1>11. \A a, b \in 1 .. n :
        /\ s.attempts[a].items # {}
        /\ Cardinality(s.attempts[a].items) <= ChunkSize
        /\ s.attempts[a].outcome = "inFlight" /\ s.attempts[b].outcome = "inFlight" => a = b
  BY <1>3, <1>6, <1>7
<1> QED
  BY <1>2, <1>3, <1>8, <1>9, <1>10, <1>11 DEF Valid

\* The engine never builds a state its own validation refuses to save.
THEOREM NeverRefused == Spec => []CheckpointNeverRefused
<1>1. IInv /\ JInv => CheckpointNeverRefused
  <2> SUFFICES ASSUME IInv, JInv PROVE CheckpointNeverRefused
    OBVIOUS
  <2>1. ASSUME pc = "submit", NEW c \in Chunks PROVE Valid(Launched(mem, c))
    BY <2>1, LaunchedValid
  <2>2. /\ {"accepted", "rejected", "unknown"} \subseteq Outcomes
        /\ {"submitted", "pending", "ambiguous"} \subseteq Statuses
        /\ "submitted" \in WithScan /\ "pending" \notin WithScan /\ "ambiguous" \notin WithScan
    BY DEF Outcomes, Statuses, WithScan, Terminal
  <2>3. ASSUME pc = "wait", NEW id \in ScanIds, \A i \in Items : mem.scan[i] # id
        PROVE  Valid(Ended(mem, run.chunk, "accepted", "submitted", id))
    <3>1. id # NoScan
      BY ConstantsAssumption
    <3> QED
      BY <2>2, <2>3, <3>1, EndedValid
  <2>4. ASSUME pc = "wait" PROVE Valid(Ended(mem, run.chunk, "rejected", "pending", NoScan))
    BY <2>2, <2>4, EndedValid
  <2>5. ASSUME pc = "wait" PROVE Valid(Ended(mem, run.chunk, "unknown", "ambiguous", NoScan))
    BY <2>2, <2>5, EndedValid
  <2>6. ASSUME disk # NoState PROVE Valid(Settled(disk))
    <3>1. disk \in JobStates /\ disk \in Versions
      BY <2>6 DEF IInv, World, Versions
    <3>2. Valid(disk) /\ Linked(disk)
      BY <2>6, <3>1 DEF JInv, FilesOK
    <3> QED
      BY <3>1, <3>2, SettledJ
  <2> QED
    BY <2>1, <2>3, <2>4, <2>5, <2>6 DEF CheckpointNeverRefused
<1> QED
  BY <1>1, Inductive, JournalInductive, PTL

-----------------------------------------------------------------------------
(* OInv: the order of the batches, and the exit *)

\* The batches of the prompts.
LEMMA BatchFacts ==
    /\ \A i \in Items : i \div BatchSize \in Nat /\ i \div BatchSize <= (N - 1) \div BatchSize
    /\ (N - 1) \div BatchSize \in Nat
    /\ 0 \in Batches
    /\ Batches \subseteq Nat
<1>1. \A i \in Nat : i \div BatchSize \in Nat
  BY ConstantsAssumption
<1>2. \A i, j \in Nat : i <= j => i \div BatchSize <= j \div BatchSize
  BY ConstantsAssumption
<1>3. \A i \in Items : i \in Nat /\ i <= N - 1
  BY DEF Items
<1>4. N - 1 \in Nat
  BY ConstantsAssumption
<1>5. \A i \in Items : i \div BatchSize \in Nat /\ i \div BatchSize <= (N - 1) \div BatchSize
  BY <1>1, <1>2, <1>3, <1>4
<1>6. (N - 1) \div BatchSize \in Nat
  BY <1>1, <1>4
<1> QED
  BY <1>5, <1>6 DEF Batches

\* A process that leaves without having reported an end.
LEMMA LeaveO ==
    ASSUME pc' = "idle", exit' \notin {"done", "refused"}
    PROVE  OInv'
BY DEF OInv, DoubtOK, TodoOK, OrderOK, ExitIsHonest

\* A process that enters a batch has passed the earlier ones.
LEMMA EnterBatchO ==
    ASSUME NEW mode \in Modes, NEW b \in Batches, NEW s \in JobStates, EnterBatch(mode, s, b),
           mode = "recover" <=> With(s, "ambiguous") # {},
           \A i \in Items : i \div BatchSize < b =>
               IF mode = "recover" THEN s.status[i] # "submitted" ELSE s.status[i] \in Terminal
    PROVE  OInv'
<1>1. /\ pc' = (IF mode = "new" THEN "submit" ELSE "poll") /\ mem' = s /\ exit' = "none"
      /\ run'.mode = mode /\ run'.batch = b /\ run'.todo = ToSend(mode, s, b) /\ ~run'.sent
  BY DEF EnterBatch, Goto, NoRun
<1>2. DoubtOK'
  BY <1>1 DEF DoubtOK, With, Modes
<1>3. TodoOK'
  BY <1>1 DEF TodoOK, ToSend, Batch
<1>4. OrderOK'
  BY <1>1 DEF OrderOK, Passed
<1> QED
  BY <1>1, <1>2, <1>3, <1>4 DEF OInv, ExitIsHonest

\* What is so of a run that still sends.
LEMMA SendingFacts ==
    ASSUME IInv, JInv, OInv, pc \in {"submit", "post", "wait"}
    PROVE  /\ run.mode # "recover" /\ \A i \in Items : mem.status[i] # "ambiguous"
           /\ run.chunk \subseteq run.todo /\ run.todo \subseteq Batch(run.batch)
           /\ run.batch \in Batches /\ run.batch \in Nat
           /\ run.chunk \in SUBSET Items
           /\ \A i \in run.chunk : i \in Items /\ ~(i \div BatchSize < run.batch)
           /\ \A i \in Batch(run.batch) : mem.status[i] = "pending" => i \in run.todo
           /\ \A i \in Items : i \div BatchSize < run.batch => mem.status[i] \in Terminal
<1>1. run.mode # "recover" /\ With(mem, "ambiguous") = {}
  BY DEF OInv, DoubtOK
<1>2. /\ run.chunk \subseteq run.todo /\ run.todo \subseteq Batch(run.batch) /\ run.batch \in Batches
      /\ \A i \in Batch(run.batch) : mem.status[i] = "pending" => i \in run.todo
  BY DEF IInv, SubmitOK, OInv, TodoOK
<1>3. \A i \in Items : i \div BatchSize < run.batch => mem.status[i] \in Terminal
  BY <1>1 DEF OInv, OrderOK, Passed
<1>4. run.batch \in Nat
  BY <1>2, BatchFacts
<1>5. \A i \in run.chunk : i \in Items /\ i \div BatchSize = run.batch
  BY <1>2 DEF Batch
<1>6. \A i \in run.chunk : ~(i \div BatchSize < run.batch)
  BY <1>4, <1>5
<1> QED
  BY <1>1, <1>2, <1>3, <1>4, <1>5, <1>6 DEF With

\* Before the first run no batch was entered.
LEMMA InitO == Init => OInv
BY DEF Init, OInv, DoubtOK, TodoOK, OrderOK, ExitIsHonest

\* bulk-scan starts at the first batch.
LEMMA StartO ==
    ASSUME IInv, NEW save \in Saves, Start(save)
    PROVE  OInv'
<1>1. CASE Leave("stopped")
  BY <1>1, LeaveO DEF Leave
<1>2. CASE EnterBatch("new", NewState, 0)
  <2>1. With(NewState, "ambiguous") = {} /\ "new" \in Modes /\ NewState \in JobStates
    BY NewStateTyped DEF With, Modes
  <2>2. \A i \in Items : ~(i \div BatchSize < 0)
    BY BatchFacts
  <2> QED
    BY <1>2, <2>1, <2>2, BatchFacts, EnterBatchO
<1> QED
  BY <1>1, <1>2 DEF Start, SaveThen

\* resume-poll sends only when nothing is in doubt.
LEMMA ResumeO ==
    ASSUME IInv, NEW changed \in BOOLEAN, NEW save \in Saves, Resume(changed, save)
    PROVE  OInv'
<1>1. disk \in JobStates
  BY DEF Resume, IInv, TypeOK
<1>2. PICK s \in JobStates : s = Settled(disk)
  BY <1>1, SettledTyped
<1>3. PICK mode \in Modes :
        /\ mode = IF With(s, "ambiguous") = {} THEN "resume" ELSE "recover"
        /\ EnterBatch(mode, s, 0) \/ Leave("stopped")
  BY <1>2 DEF Resume, Modes, SaveThen
<1>4. CASE Leave("stopped")
  BY <1>4, LeaveO DEF Leave
<1>5. CASE EnterBatch(mode, s, 0)
  <2>1. \A i \in Items : ~(i \div BatchSize < 0)
    BY BatchFacts
  <2>2. mode = "recover" <=> With(s, "ambiguous") # {}
    BY <1>3
  <2> QED
    BY <1>5, <2>1, <2>2, BatchFacts, EnterBatchO
<1> QED
  BY <1>3, <1>4, <1>5

\* C1 takes prompts of this batch only.
LEMMA LaunchO ==
    ASSUME IInv, JInv, OInv, NEW save \in Saves, Launch(save)
    PROVE  OInv'
<1>1. pc = "submit" /\ mem \in JobStates /\ run \in Runs
  BY WorkingFacts DEF Launch
<1>2. PICK chunk \in Chunks :
        LET t == Launched(mem, chunk) IN SaveThen(t, save, Goto("post", t, [run EXCEPT !.chunk = chunk]))
  BY DEF Launch
<1>3. chunk \subseteq run.todo /\ chunk \in SUBSET Items
  BY <1>1, <1>2 DEF Chunks, Runs, IInv, SubmitOK
<1>4. PICK s \in JobStates :
        /\ s = Launched(mem, chunk)
        /\ \A i \in Items : s.status[i] = IF i \in chunk THEN "submitting" ELSE mem.status[i]
  BY <1>1, <1>3, LaunchedTyped
<1>5. CASE Leave("stopped")
  BY <1>5, LeaveO DEF Leave
<1>6. CASE Goto("post", s, [run EXCEPT !.chunk = chunk])
  <2>1. /\ pc' = "post" /\ mem' = s /\ exit' = "none"
        /\ run'.mode = run.mode /\ run'.batch = run.batch /\ run'.todo = run.todo
    BY <1>1, <1>6 DEF Goto, Runs
  <2>2. DoubtOK'
    BY <1>1, <1>4, <2>1, SendingFacts DEF DoubtOK, With
  <2>3. TodoOK'
    <3>1. \A i \in Batch(run.batch) : i \in Items
      BY DEF Batch
    <3>2. \A i \in Batch(run.batch) : s.status[i] = "pending" => i \in run.todo
      BY <1>1, <1>4, <3>1, SendingFacts
    <3>3. run.batch \in Batches
      BY <1>1, SendingFacts
    <3> QED
      BY <2>1, <3>2, <3>3 DEF TodoOK
  <2>4. OrderOK'
    <3>1. \A i \in chunk : i \in Items /\ i \div BatchSize = run.batch
      BY <1>1, <1>3, SendingFacts DEF Batch
    <3>2. \A i \in Items : i \div BatchSize < run.batch => s.status[i] \in Terminal
      BY <1>1, <1>4, <3>1, SendingFacts
    <3> QED
      BY <1>1, <2>1, <3>2, SendingFacts DEF OrderOK, Passed
  <2> QED
    BY <2>1, <2>2, <2>3, <2>4 DEF OInv, ExitIsHonest
<1> QED
  BY <1>2, <1>4, <1>5, <1>6 DEF SaveThen

\* A request leaves: nothing of it is seen in the batches.
LEMMA PostO ==
    ASSUME IInv, JInv, OInv, Post
    PROVE  OInv'
<1>1. /\ pc = "post" /\ pc' = "wait" /\ mem' = mem /\ exit' = "none"
      /\ run'.mode = run.mode /\ run'.batch = run.batch /\ run'.todo = run.todo
  <2>1. run \in Runs
    BY DEF IInv, TypeOK
  <2> QED
    BY <2>1 DEF Post, Goto, Runs
<1>2. DoubtOK'
  BY <1>1, SendingFacts DEF DoubtOK, With
<1>3. TodoOK' /\ OrderOK'
  BY <1>1, SendingFacts DEF TodoOK, OrderOK, Passed
<1> QED
  BY <1>1, <1>2, <1>3 DEF OInv, ExitIsHonest

\* What C3 does to the statuses.
LEMMA EndedStatus ==
    ASSUME IInv, pc \in {"post", "wait"}, NEW outcome \in Outcomes, NEW status \in Statuses,
           NEW scan \in ScanIds \cup {NoScan}
    PROVE  \E s \in JobStates :
             /\ s = Ended(mem, run.chunk, outcome, status, scan)
             /\ \A i \in Items : s.status[i] = IF i \in run.chunk THEN status ELSE mem.status[i]
<1>1. mem \in JobStates /\ run.chunk \in SUBSET Items /\ Len(mem.attempts) > 0
  BY RunningFacts DEF IInv, FlightOK, Runs
<1>2. PICK s \in JobStates :
        /\ s = Ended(mem, run.chunk, outcome, status, scan)
        /\ EndsInto(mem, s, run.chunk, outcome, status, scan)
  BY <1>1, EndedFields
<1>3. \A i \in Items : s.status[i] = IF i \in run.chunk THEN status ELSE mem.status[i]
  BY <1>2 DEF EndsInto
<1> QED
  BY <1>2, <1>3

\* C3 of a receipt: when nothing is left to send, nothing is pending.
LEMMA ReceiptO ==
    ASSUME IInv, JInv, OInv, NEW scan \in ScanIds, NEW save \in Saves, Receipt(scan, save)
    PROVE  OInv'
<1>1. pc = "wait" /\ run \in Runs
  BY WorkingFacts DEF Receipt
<1>2. PICK s \in JobStates :
        /\ s = Ended(mem, run.chunk, "accepted", "submitted", scan)
        /\ \A i \in Items : s.status[i] = IF i \in run.chunk THEN "submitted" ELSE mem.status[i]
  <2>1. "accepted" \in Outcomes /\ "submitted" \in Statuses
    BY DEF Outcomes, Statuses
  <2> QED
    BY <1>1, <2>1, EndedStatus
<1> DEFINE left == run.todo \ run.chunk
           r == [run EXCEPT !.todo = left, !.chunk = {}, !.retries = 0,
                            !.landed = FALSE, !.sent = (left = {}), !.quiet = 0]
<1>3. CASE Leave("stopped")
  BY <1>3, LeaveO DEF Leave
<1>4. CASE Goto(IF left = {} THEN "poll" ELSE "submit", s, r)
  <2>1. /\ pc' = (IF left = {} THEN "poll" ELSE "submit") /\ mem' = s /\ run' = r /\ exit' = "none"
    BY <1>4 DEF Goto
  <2>2. r.mode = run.mode /\ r.batch = run.batch /\ r.todo = left
    BY <1>1 DEF Runs
  <2> HIDE DEF r
  <2>3. DoubtOK'
    BY <1>1, <1>2, <2>1, <2>2, SendingFacts DEF DoubtOK, With
  <2>4. \A i \in Batch(run.batch) : s.status[i] = "pending" => i \in left
    <3>1. \A i \in Batch(run.batch) : i \in Items
      BY DEF Batch
    <3> QED
      BY <1>1, <1>2, <3>1, SendingFacts
  <2>5. TodoOK'
    BY <1>1, <2>1, <2>2, <2>4, SendingFacts DEF TodoOK
  <2>6. OrderOK'
    <3>1. \A i \in Items : i \div BatchSize < run.batch => s.status[i] \in Terminal
      BY <1>1, <1>2, SendingFacts
    <3> QED
      BY <1>1, <2>1, <2>2, <3>1, SendingFacts DEF OrderOK, Passed
  <2> QED
    BY <2>1, <2>3, <2>5, <2>6 DEF OInv, ExitIsHonest
<1> QED
  BY <1>2, <1>3, <1>4 DEF Receipt, SaveThen

\* C3 of a refusal: the chunk is pending again, and still to be sent.
LEMMA RefusedO ==
    ASSUME IInv, JInv, OInv, NEW limited \in BOOLEAN, NEW save \in Saves, Refused(limited, save)
    PROVE  OInv'
<1>1. pc = "wait" /\ run \in Runs
  BY WorkingFacts DEF Refused
<1>2. PICK s \in JobStates :
        /\ s = Ended(mem, run.chunk, "rejected", "pending", NoScan)
        /\ \A i \in Items : s.status[i] = IF i \in run.chunk THEN "pending" ELSE mem.status[i]
  <2>1. "rejected" \in Outcomes /\ "pending" \in Statuses
    BY DEF Outcomes, Statuses
  <2> QED
    BY <1>1, <2>1, EndedStatus
<1> DEFINE r == [run EXCEPT !.retries = @ + 1]
<1>3. CASE Leave("stopped")
  BY <1>3, LeaveO DEF Leave
<1>4. CASE Goto("submit", s, r)
  <2>1. pc' = "submit" /\ mem' = s /\ run' = r /\ exit' = "none"
    BY <1>4 DEF Goto
  <2>2. r.mode = run.mode /\ r.batch = run.batch /\ r.todo = run.todo
    BY <1>1 DEF Runs
  <2> HIDE DEF r
  <2>3. DoubtOK'
    BY <1>1, <1>2, <2>1, <2>2, SendingFacts DEF DoubtOK, With
  <2>4. \A i \in Batch(run.batch) : s.status[i] = "pending" => i \in run.todo
    <3>1. \A i \in Batch(run.batch) : i \in Items
      BY DEF Batch
    <3> QED
      BY <1>1, <1>2, <3>1, SendingFacts
  <2>5. TodoOK'
    BY <1>1, <2>1, <2>2, <2>4, SendingFacts DEF TodoOK
  <2>6. OrderOK'
    <3>1. \A i \in Items : i \div BatchSize < run.batch => s.status[i] \in Terminal
      BY <1>1, <1>2, SendingFacts
    <3> QED
      BY <1>1, <2>1, <2>2, <3>1, SendingFacts DEF OrderOK, Passed
  <2> QED
    BY <2>1, <2>3, <2>5, <2>6 DEF OInv, ExitIsHonest
<1> QED
  BY <1>2, <1>3, <1>4 DEF Refused, SaveThen, EndRun

\* Results: a prompt that was passed stays passed.
LEMMA ResolveO ==
    ASSUME IInv, JInv, OInv, NEW ok \in SUBSET Items, NEW bad \in SUBSET Items,
           NEW save \in Saves, NEW after \in Afters, Resolve(ok, bad, save, after)
    PROVE  OInv'
<1>1. pc = "poll" /\ mem \in JobStates /\ run \in Runs
  BY WorkingFacts DEF Resolve
<1>2. PICK s \in JobStates :
        /\ s = Recorded(mem, ok, bad)
        /\ \A i \in Items : s.status[i] = IF i \in ok THEN "complete"
                                          ELSE IF i \in bad THEN "failed" ELSE mem.status[i]
  BY <1>1, RecordedFields
<1>3. \A i \in ok \cup bad : mem.status[i] = "submitted"
  BY DEF Resolve, Unresolved, With
<1>4. PICK r :
        /\ r.mode = run.mode /\ r.batch = run.batch /\ r.sent = run.sent
        /\ Goto("poll", s, r) \/ Leave("stopped")
  <2>1. \/ Goto("poll", s, [run EXCEPT !.quiet = 0, !.level = 0])
        \/ Goto("poll", s, [run EXCEPT !.level = @ + 1])
        \/ Goto("poll", s, [run EXCEPT !.quiet = 0, !.level = Eased])
        \/ Leave("stopped")
    BY <1>2 DEF Resolve, SaveThen
  <2> QED
    BY <1>1, <2>1 DEF Runs
<1>5. CASE Leave("stopped")
  BY <1>5, LeaveO DEF Leave
<1>6. CASE Goto("poll", s, r)
  <2>1. pc' = "poll" /\ mem' = s /\ run' = r /\ exit' = "none"
    BY <1>6 DEF Goto
  <2>2. \A i \in Items :
          /\ s.status[i] = "ambiguous" <=> mem.status[i] = "ambiguous"
          /\ s.status[i] = "pending" => mem.status[i] = "pending"
          /\ s.status[i] = "submitted" => mem.status[i] = "submitted"
          /\ mem.status[i] \in Terminal => s.status[i] \in Terminal
    BY <1>2, <1>3 DEF Terminal
  <2>3. DoubtOK'
    BY <1>1, <1>4, <2>1, <2>2 DEF OInv, DoubtOK, With
  <2>4. TodoOK'
    <3>1. \A i \in Batch(run.batch) : i \in Items
      BY DEF Batch
    <3> QED
      BY <1>1, <1>4, <2>1, <2>2, <3>1 DEF OInv, TodoOK
  <2>5. OrderOK'
    <3>1. \A i \in Items : i \div BatchSize < run.batch =>
            IF run.mode = "recover" THEN mem.status[i] # "submitted" ELSE mem.status[i] \in Terminal
      BY <1>1 DEF OInv, OrderOK, Passed
    <3>2. \A i \in Items : i \div BatchSize < run.batch =>
            IF run.mode = "recover" THEN s.status[i] # "submitted" ELSE s.status[i] \in Terminal
      BY <2>2, <3>1
    <3> QED
      BY <1>4, <2>1, <3>2 DEF OrderOK, Passed
  <2> QED
    BY <2>1, <2>3, <2>4, <2>5 DEF OInv, ExitIsHonest
<1> QED
  BY <1>4, <1>5, <1>6

\* Polls without a result change counters only.
LEMMA NoResultO ==
    ASSUME IInv, JInv, OInv, ReadLimited \/ NoProgress
    PROVE  OInv'
<1>1. pc = "poll" /\ run \in Runs
  BY WorkingFacts DEF ReadLimited, NoProgress
<1>2. CASE Leave("stopped")
  BY <1>2, LeaveO DEF Leave
<1>3. CASE ~Leave("stopped")
  <2>1. /\ pc' = "poll" /\ mem' = mem /\ exit' = "none"
        /\ run'.mode = run.mode /\ run'.batch = run.batch /\ run'.sent = run.sent
    BY <1>1, <1>3 DEF ReadLimited, NoProgress, Goto, Runs
  <2> QED
    BY <1>1, <2>1 DEF OInv, DoubtOK, TodoOK, OrderOK, ExitIsHonest, Passed, With
<1> QED
  BY <1>2, <1>3

\* The end of a batch: every prompt of it is passed, unless some are pending.
LEMMA BatchPolledO ==
    ASSUME IInv, JInv, OInv, BatchPolled
    PROVE  OInv'
<1> DEFINE todo == ToSend(run.mode, mem, run.batch)
<1>1. pc = "poll" /\ run \in Runs /\ mem \in JobStates /\ run.mode \in Modes
      /\ run.batch \in Batches /\ run.batch \in Nat
  BY WorkingFacts, BatchFacts DEF BatchPolled, Runs, OInv, TodoOK
<1>2. /\ run.mode = "recover" <=> With(mem, "ambiguous") # {}
      /\ \A i \in Items : i \div BatchSize < run.batch =>
           IF run.mode = "recover" THEN mem.status[i] # "submitted" ELSE mem.status[i] \in Terminal
  BY <1>1 DEF OInv, DoubtOK, OrderOK, Passed
<1>3. CASE run.mode = "resume" /\ Goto("submit", mem, [run EXCEPT !.todo = todo, !.quiet = 0])
  <2>1. /\ pc' = "submit" /\ mem' = mem /\ exit' = "none"
        /\ run'.mode = run.mode /\ run'.batch = run.batch /\ run'.todo = todo
    BY <1>1, <1>3 DEF Goto, Runs
  <2>2. todo = Batch(run.batch) \cap With(mem, "pending")
    BY <1>3 DEF ToSend
  <2>3. \A i \in Batch(run.batch) : mem.status[i] = "pending" => i \in todo
    BY <2>2 DEF With, Batch
  <2>4. DoubtOK'
    BY <1>2, <1>3, <2>1 DEF DoubtOK, With
  <2> HIDE DEF todo
  <2>5. TodoOK'
    BY <1>1, <2>1, <2>3 DEF TodoOK
  <2>6. OrderOK'
    BY <1>2, <2>1 DEF OrderOK, Passed
  <2> QED
    BY <2>1, <2>4, <2>5, <2>6 DEF OInv, ExitIsHonest
<1>4. ASSUME ~(run.mode = "resume" /\ ~run.sent /\ todo # {}), NEW i \in Items,
             i \div BatchSize = run.batch
      PROVE  IF run.mode = "recover" THEN mem.status[i] # "submitted" ELSE mem.status[i] \in Terminal
  <2>1. i \in Batch(run.batch)
    BY <1>4 DEF Batch
  <2>2. mem.status[i] # "submitted"
    BY <2>1 DEF BatchPolled, Open, With
  <2>3. ASSUME run.mode # "recover" PROVE mem.status[i] \in Terminal
    <3>1. mem.status[i] # "ambiguous"
      BY <1>2, <2>3 DEF With
    <3>2. mem.status[i] # "submitting"
      BY <1>1 DEF JInv, AttemptOK, With
    <3>3. mem.status[i] # "pending"
      <4>1. CASE run.mode = "new" \/ run.sent
        BY <1>1, <2>1, <4>1 DEF OInv, TodoOK
      <4>2. CASE run.mode = "resume" /\ ~run.sent
        <5>1. Batch(run.batch) \cap With(mem, "pending") = {}
          BY <1>4, <4>2 DEF ToSend
        <5> QED
          BY <2>1, <5>1 DEF With
      <4> QED
        BY <1>1, <2>3, <4>1, <4>2 DEF Modes
    <3>4. mem.status[i] \in Statuses
      BY <1>1 DEF JobStates
    <3> QED
      BY <2>2, <3>1, <3>2, <3>3, <3>4 DEF Statuses, Terminal
  <2> QED
    BY <2>2, <2>3
<1>5. CASE ~(run.mode = "resume" /\ ~run.sent /\ todo # {}) /\ run.batch + 1 \in Batches
  <2>1. EnterBatch(run.mode, mem, run.batch + 1)
    BY <1>5 DEF BatchPolled
  <2>2. PICK mode \in Modes, b \in Batches, s \in JobStates :
          mode = run.mode /\ b = run.batch + 1 /\ s = mem
    BY <1>1, <1>5
  <2>3. \A i \in Items : i \div BatchSize < b =>
          IF mode = "recover" THEN s.status[i] # "submitted" ELSE s.status[i] \in Terminal
    <3>1. \A i \in Items : i \div BatchSize < b =>
            i \div BatchSize < run.batch \/ i \div BatchSize = run.batch
      BY <1>1, <2>2, BatchFacts
    <3> QED
      BY <1>2, <1>4, <1>5, <2>2, <3>1
  <2> QED
    BY <1>2, <2>1, <2>2, <2>3, EnterBatchO
<1>6. CASE ~(run.mode = "resume" /\ ~run.sent /\ todo # {}) /\ run.batch + 1 \notin Batches
  <2>1. /\ pc' = "final" /\ mem' = mem /\ exit' = "none" /\ run'.mode = run.mode
    BY <1>6 DEF BatchPolled, Goto, NoRun
  <2>2. \A i \in Items : i \div BatchSize < run.batch \/ i \div BatchSize = run.batch
    <3>1. run.batch = (N - 1) \div BatchSize
      BY <1>1, <1>6, BatchFacts DEF Batches
    <3> QED
      BY <1>1, <3>1, BatchFacts
  <2>3. \A i \in Items :
          IF run.mode = "recover" THEN mem.status[i] # "submitted" ELSE mem.status[i] \in Terminal
    BY <1>2, <1>4, <1>6, <2>2
  <2>4. DoubtOK' /\ TodoOK'
    BY <1>2, <2>1 DEF DoubtOK, TodoOK, With
  <2>5. OrderOK'
    BY <2>1, <2>3 DEF OrderOK, Passed
  <2> QED
    BY <2>1, <2>4, <2>5 DEF OInv, ExitIsHonest
<1> QED
  BY <1>3, <1>5, <1>6 DEF BatchPolled

\* The final save: what the run reports is what it has passed.
LEMMA FinishO ==
    ASSUME IInv, JInv, OInv, NEW save \in Saves, NEW fails \in BOOLEAN, Finish(save, fails)
    PROVE  OInv'
<1>1. pc = "final" /\ mem \in JobStates /\ mem # NoState
  BY WorkingFacts DEF Finish
<1>2. /\ run.mode = "recover" <=> With(mem, "ambiguous") # {}
      /\ \A i \in Items :
           IF run.mode = "recover" THEN mem.status[i] # "submitted" ELSE mem.status[i] \in Terminal
  BY <1>1 DEF OInv, DoubtOK, OrderOK, Passed
<1>3. CASE Leave("stopped")
  BY <1>3, LeaveO DEF Leave
<1>4. CASE /\ disk' = mem /\ stale' = {}
           /\ Leave(IF run.mode = "recover" THEN "refused" ELSE "done")
  <2>1. pc' = "idle" /\ exit' = IF run.mode = "recover" THEN "refused" ELSE "done"
    BY <1>4 DEF Leave
  <2>2. ExitIsHonest'
    BY <1>1, <1>2, <1>4, <2>1 DEF ExitIsHonest, With
  <2> QED
    BY <2>1, <2>2 DEF OInv, DoubtOK, TodoOK, OrderOK
<1>5. \/ Leave("stopped")
      \/ /\ disk' = mem /\ stale' = {}
         /\ Leave(IF run.mode = "recover" THEN "refused" ELSE "done")
  <2>1. CASE save = "saved" /\ ~fails /\ ~cancelled
    <3>1. disk' = mem /\ stale' = {}
      BY <2>1 DEF Finish, SaveThen, Checkpoint
    <3>2. Leave(IF run.mode = "recover" THEN "refused" ELSE "done")
      BY <2>1 DEF Finish, SaveThen
    <3> QED
      BY <3>1, <3>2
  <2>2. CASE ~(save = "saved" /\ ~fails /\ ~cancelled)
    BY <2>2 DEF Finish, SaveThen
  <2> QED
    BY <2>1, <2>2
<1> QED
  BY <1>3, <1>4, <1>5

\* The world: a power loss finds nothing to take back from a reported end.
LEMMA WorldO ==
    ASSUME IInv, OInv,
           SubmitInterrupted \/ PollStops \/ Crash \/ PowerLoss \/ Signal
    PROVE  OInv'
<1>1. CASE Leave("stopped")
  BY <1>1, LeaveO DEF Leave
<1>2. CASE PowerLoss /\ pc = "idle"
  <2>1. pc' = "idle" /\ exit' = exit /\ disk' \in {disk} \cup stale /\ stale' = {}
    BY <1>2 DEF PowerLoss, Leave
  <2>2. ExitIsHonest'
    BY <2>1 DEF OInv, ExitIsHonest, With
  <2> QED
    BY <2>1, <2>2 DEF OInv, DoubtOK, TodoOK, OrderOK
<1>3. CASE Signal
  <2>1. UNCHANGED <<disk, stale, mem, pc, run, exit>>
    BY <1>3 DEF Signal
  <2> QED
    BY <2>1 DEF OInv, DoubtOK, TodoOK, OrderOK, ExitIsHonest, Passed, With
<1> QED
  BY <1>1, <1>2, <1>3 DEF SubmitInterrupted, PollStops, Crash, PowerLoss

(* What the service answers, at once or late, is about the request on the    *)
(* wire: accepting it puts no batch ahead of an earlier one.                 *)
LEMMA AcceptO ==
    ASSUME IInv, OInv, NEW q \in wire, Accept(q)
    PROVE  OInv'
<1>1. /\ UNCHANGED <<disk, stale, mem, pc, exit>>
      /\ run'.mode = run.mode /\ run'.batch = run.batch /\ run'.todo = run.todo
      /\ run'.sent = run.sent
  <2>1. run \in Runs
    BY DEF IInv, TypeOK
  <2> QED
    BY <2>1 DEF Accept, Runs
<1> QED
  BY <1>1 DEF OInv, DoubtOK, TodoOK, OrderOK, ExitIsHonest, Passed, With

\* Every step keeps OInv.
LEMMA StepO == IInv /\ JInv /\ OInv /\ [Next]_vars => OInv'
<1> SUFFICES ASSUME IInv, JInv, OInv, [Next]_vars PROVE OInv'
  OBVIOUS
<1>1. CASE \E save \in Saves : Start(save)
  BY <1>1, StartO
<1>2. CASE \E changed \in BOOLEAN, save \in Saves : Resume(changed, save)
  BY <1>2, ResumeO
<1>3. ASSUME NEW save \in Saves, Process(save) PROVE OInv'
  <2>1. CASE Launch(save)
    BY <2>1, LaunchO
  <2>2. CASE \E scan \in ScanIds : Receipt(scan, save)
    BY <2>2, ReceiptO
  <2>3. CASE UnusableReceipt(save) \/ NotSent(save) \/ Unknown(save)
    BY <2>3, LeaveO DEF UnusableReceipt, NotSent, Unknown, EndRun, SaveThen, Leave
  <2>4. CASE \E limited \in BOOLEAN : Refused(limited, save)
    BY <2>4, RefusedO
  <2>5. CASE \E ok, bad \in SUBSET Items, after \in Afters : Resolve(ok, bad, save, after)
    BY <2>5, ResolveO
  <2>6. CASE \E fails \in BOOLEAN : Finish(save, fails)
    BY <2>6, FinishO
  <2> QED
    BY <1>3, <2>1, <2>2, <2>3, <2>4, <2>5, <2>6 DEF Process
<1>4. CASE Post
  BY <1>4, PostO
<1>5. CASE ReadLimited \/ NoProgress
  BY <1>5, NoResultO
<1>6. CASE BatchPolled
  BY <1>6, BatchPolledO
<1>7. CASE SubmitInterrupted \/ PollStops \/ Crash \/ PowerLoss \/ Signal
  BY <1>7, WorldO
<1>8. CASE \E q \in wire : Accept(q)
  BY <1>8, AcceptO
<1>9. CASE UNCHANGED vars
  BY <1>9 DEF vars, OInv, DoubtOK, TodoOK, OrderOK, ExitIsHonest, Passed, With
<1> QED
  BY <1>1, <1>2, <1>3, <1>4, <1>5, <1>6, <1>7, <1>8, <1>9 DEF Next, Running

\* The invariant of the batches holds of every behaviour of the job.
THEOREM OrderInductive == Spec => []OInv
<1>1. Init => OInv
  BY InitO
<1>2. IInv /\ JInv /\ OInv /\ [Next]_vars => OInv'
  BY StepO
<1> QED
  BY <1>1, <1>2, Inductive, JournalInductive, PTL DEF Spec

\* While a batch is submitted, every prompt of an earlier one has its
\* result, also in a run that resumes in the middle of the job.
THEOREM InOrder == Spec => []BatchesInOrder
<1>1. IInv /\ JInv /\ OInv => BatchesInOrder
  BY SendingFacts DEF BatchesInOrder
<1> QED
  BY <1>1, Inductive, JournalInductive, OrderInductive, PTL

\* A run that reports completion, or refuses to send, says what no power
\* loss can undo.
THEOREM HonestExit == Spec => []ExitIsHonest
<1>1. OInv => ExitIsHonest
  BY DEF OInv
<1> QED
  BY <1>1, OrderInductive, PTL

-----------------------------------------------------------------------------
(* PInv: what the readable state files say of a prompt *)

\* A save takes a prompt one step on, or leaves it where it is.
Moves(from, to) ==
    \/ to = from
    \/ from = "pending" /\ to = "submitting"
    \/ from = "submitting" /\ to \in {"pending", "submitted", "ambiguous"}
    \/ from = "submitted" /\ to \in Terminal

\* The files of a step: the same ones, one of them after a power loss, those
\* of a job that is being created, or one more file, made from the last.
FileStep ==
    \/ Versions' = Versions
    \/ \E v \in Versions : Versions' = {v}
    \/ /\ Versions = {NoState}
       /\ \A v \in Versions', i \in Items : Said(v, i) = "pending"
    \/ \E s \in JobStates :
         /\ disk # NoState
         /\ Versions' = {s} \/ Versions' = Versions \cup {s}
         /\ \A i \in Items : /\ Moves(disk.status[i], s.status[i])
                             /\ s.status[i] \in WithScan => accepted'[i] > 0

\* A checkpoint is a step of the files.
LEMMA SavedStep ==
    ASSUME NEW s \in JobStates, NEW save, Checkpoint(s, save), disk # NoState,
           \A i \in Items : /\ Moves(disk.status[i], s.status[i])
                            /\ s.status[i] \in WithScan => accepted'[i] > 0
    PROVE  FileStep
<1>1. Versions' = Versions \/ Versions' = {s} \/ Versions' = Versions \cup {s}
  BY DEF Checkpoint, Versions
<1> QED
  BY <1>1 DEF FileStep

\* What is recorded of a prompt with a receipt, on disk.
LEMMA OnDisk ==
    ASSUME PInv, disk # NoState
    PROVE  \A i \in Items : disk.status[i] \in WithScan => accepted[i] > 0
BY DEF PInv, ReceiptOK, Versions, Said

\* An outcome of a request moves the chunk out of `submitting`.
LEMMA EndedStep ==
    ASSUME IInv, JInv, PInv, pc \in {"post", "wait"}, accepted' = accepted,
           NEW outcome \in Outcomes, NEW status \in {"pending", "submitted", "ambiguous"},
           NEW scan \in ScanIds \cup {NoScan}, NEW save,
           status = "submitted" => \A i \in run.chunk : accepted[i] > 0,
           Checkpoint(Ended(mem, run.chunk, outcome, status, scan), save)
    PROVE  FileStep
<1>1. mem = disk /\ mem # NoState
  BY WorkingFacts
<1>2. PICK s \in JobStates :
        /\ s = Ended(mem, run.chunk, outcome, status, scan)
        /\ \A i \in Items : s.status[i] = IF i \in run.chunk THEN status ELSE mem.status[i]
  <2>1. status \in Statuses
    BY DEF Statuses
  <2> QED
    BY <2>1, EndedStatus
<1>3. \A i \in run.chunk : mem.status[i] = "submitting"
  BY DEF IInv, FlightOK
<1>4. \A i \in Items : mem.status[i] \in WithScan => accepted[i] > 0
  BY <1>1, OnDisk
<1>5. \A i \in Items : /\ Moves(disk.status[i], s.status[i])
                       /\ s.status[i] \in WithScan => accepted'[i] > 0
  BY <1>1, <1>2, <1>3, <1>4 DEF Moves, WithScan, Terminal
<1> QED
  BY <1>1, <1>2, <1>5, SavedStep

\* Every step is a step of the files.
LEMMA FileSteps ==
    ASSUME IInv, IInv', JInv, PInv, [Next]_vars
    PROVE  FileStep
<1>1. ASSUME NEW save \in Saves, Start(save) PROVE FileStep
  <2>1. Versions = {NoState} /\ disk = NoState /\ stale = {}
    BY <1>1 DEF Start, PInv, UnstartedOK, Versions
  <2>2. Versions' \subseteq {NoState, NewState}
    BY <1>1, <2>1 DEF Start, SaveThen, Checkpoint, Versions
  <2>3. \A v \in Versions', i \in Items : Said(v, i) = "pending"
    BY <2>2, NewStateTyped DEF Said
  <2> QED
    BY <2>1, <2>3 DEF FileStep
<1>2. ASSUME NEW changed \in BOOLEAN, NEW save \in Saves, Resume(changed, save) PROVE FileStep
  <2>1. disk \in JobStates /\ disk # NoState /\ accepted' = accepted
    BY <1>2 DEF Resume, IInv, TypeOK, service
  <2>2. PICK s \in JobStates :
          /\ s = Settled(disk)
          /\ \A i \in Items :
               s.status[i] = IF disk.status[i] = "submitting" THEN "ambiguous" ELSE disk.status[i]
    BY <2>1, SettledFields
  <2>3. \A i \in Items : /\ Moves(disk.status[i], s.status[i])
                         /\ s.status[i] \in WithScan => accepted'[i] > 0
    BY <2>1, <2>2, OnDisk DEF Moves, WithScan, Terminal
  <2>4. CASE Checkpoint(s, save)
    BY <2>1, <2>3, <2>4, SavedStep
  <2>5. CASE disk' = disk /\ stale' = stale
    BY <2>5 DEF FileStep, Versions
  <2> QED
    BY <1>2, <2>2, <2>4, <2>5 DEF Resume, SaveThen
<1>3. ASSUME NEW save \in Saves, Process(save) PROVE FileStep
  <2>1. CASE Launch(save)
    <3>1. /\ pc = "submit" /\ accepted' = accepted
          /\ mem = disk /\ mem \in JobStates /\ mem # NoState /\ run \in Runs
      BY <2>1, WorkingFacts DEF Launch, service
    <3>2. PICK chunk \in Chunks : Checkpoint(Launched(mem, chunk), save)
      BY <2>1 DEF Launch, SaveThen
    <3>3. chunk \in SUBSET Items /\ \A i \in chunk : mem.status[i] = "pending"
      BY <3>1, <3>2 DEF Chunks, Runs, IInv, SubmitOK
    <3>4. PICK s \in JobStates :
            /\ s = Launched(mem, chunk)
            /\ \A i \in Items : s.status[i] = IF i \in chunk THEN "submitting" ELSE mem.status[i]
      BY <3>1, <3>3, LaunchedTyped
    <3>5. \A i \in Items : /\ Moves(disk.status[i], s.status[i])
                           /\ s.status[i] \in WithScan => accepted'[i] > 0
      BY <3>1, <3>3, <3>4, OnDisk DEF Moves, WithScan, Terminal
    <3> QED
      BY <3>1, <3>2, <3>4, <3>5, SavedStep
  <2>2. CASE \E scan \in ScanIds : Receipt(scan, save)
    <3>1. PICK scan \in ScanIds : Receipt(scan, save)
      BY <2>2
    <3>2. /\ pc = "wait" /\ accepted' = accepted /\ \A i \in run.chunk : accepted[i] > 0
          /\ Checkpoint(Ended(mem, run.chunk, "accepted", "submitted", scan), save)
      BY <3>1 DEF Receipt, service, SaveThen, PInv, LandedOK
    <3>3. "accepted" \in Outcomes
      BY DEF Outcomes
    <3> QED
      BY <3>2, <3>3, EndedStep
  <2>3. CASE UnusableReceipt(save) \/ NotSent(save) \/ Unknown(save)
    <3>1. pc \in {"post", "wait"} /\ accepted' = accepted
      BY <2>3 DEF UnusableReceipt, NotSent, Unknown, service
    <3>2. /\ "unusableReceipt" \in Outcomes /\ "notSent" \in Outcomes /\ "unknown" \in Outcomes
      BY DEF Outcomes
    <3>3. \/ Checkpoint(Ended(mem, run.chunk, "unusableReceipt", "ambiguous", NoScan), save)
          \/ Checkpoint(Ended(mem, run.chunk, "notSent", "pending", NoScan), save)
          \/ Checkpoint(Ended(mem, run.chunk, "unknown", "ambiguous", NoScan), save)
      BY <2>3 DEF UnusableReceipt, NotSent, Unknown, EndRun, SaveThen
    <3> QED
      BY <3>1, <3>2, <3>3, EndedStep
  <2>4. CASE \E limited \in BOOLEAN : Refused(limited, save)
    <3>1. /\ pc = "wait" /\ accepted' = accepted
          /\ Checkpoint(Ended(mem, run.chunk, "rejected", "pending", NoScan), save)
      BY <2>4 DEF Refused, EndRun, SaveThen
    <3>2. "rejected" \in Outcomes
      BY DEF Outcomes
    <3> QED
      BY <3>1, <3>2, EndedStep
  <2>5. CASE \E ok, bad \in SUBSET Items, after \in Afters : Resolve(ok, bad, save, after)
    <3>1. PICK ok \in SUBSET Items, bad \in SUBSET Items, after \in Afters :
            Resolve(ok, bad, save, after)
      BY <2>5
    <3>2. /\ pc = "poll" /\ accepted' = accepted
          /\ mem = disk /\ mem \in JobStates /\ mem # NoState
          /\ Checkpoint(Recorded(mem, ok, bad), save)
          /\ \A i \in ok \cup bad : mem.status[i] = "submitted" /\ accepted[i] > 0
      BY <3>1, WorkingFacts DEF Resolve, service, SaveThen, Unresolved, With
    <3>3. PICK s \in JobStates :
            /\ s = Recorded(mem, ok, bad)
            /\ \A i \in Items : s.status[i] = IF i \in ok THEN "complete"
                                              ELSE IF i \in bad THEN "failed" ELSE mem.status[i]
      BY <3>2, RecordedFields
    <3>4. \A i \in Items : /\ Moves(disk.status[i], s.status[i])
                           /\ s.status[i] \in WithScan => accepted'[i] > 0
      BY <3>2, <3>3, OnDisk DEF Moves, Terminal
    <3> QED
      BY <3>2, <3>3, <3>4, SavedStep
  <2>6. CASE \E fails \in BOOLEAN : Finish(save, fails)
    <3>1. /\ accepted' = accepted /\ mem = disk /\ mem \in JobStates /\ mem # NoState
          /\ Checkpoint(mem, save)
      BY <2>6, WorkingFacts DEF Finish, service, SaveThen
    <3>2. \A i \in Items : /\ Moves(disk.status[i], mem.status[i])
                           /\ mem.status[i] \in WithScan => accepted'[i] > 0
      BY <3>1, OnDisk DEF Moves
    <3>3. PICK s \in JobStates : s = mem
      BY <3>1
    <3> QED
      BY <3>1, <3>2, <3>3, SavedStep
  <2> QED
    BY <1>3, <2>1, <2>2, <2>3, <2>4, <2>5, <2>6 DEF Process
<1>4. CASE PowerLoss
  BY <1>4 DEF PowerLoss, FileStep, Versions
<1>5. CASE \/ Post \/ SubmitInterrupted \/ ReadLimited \/ NoProgress \/ PollStops \/ BatchPolled
           \/ Signal \/ Crash \/ (\E q \in wire : Accept(q)) \/ UNCHANGED vars
  <2>1. disk' = disk /\ stale' = stale
    BY <1>5 DEF Post, SubmitInterrupted, ReadLimited, NoProgress, PollStops, BatchPolled,
                Signal, Crash, Accept, vars
  <2> QED
    BY <2>1 DEF FileStep, Versions
<1> QED
  BY <1>1, <1>2, <1>3, <1>4, <1>5 DEF Next, Running

\* What the service has accepted, it keeps.
LEMMA AcceptedGrows ==
    ASSUME IInv, [Next]_vars
    PROVE  /\ \A i \in Items : accepted[i] > 0 => accepted'[i] > 0
           /\ \/ accepted' = accepted
              \/ \E q \in wire :
                   /\ Versions' = Versions
                   /\ \A i \in Items : IF i \in q.items THEN accepted[i] = 0 /\ accepted'[i] = 1
                                       ELSE accepted'[i] = accepted[i]
<1>1. CASE \E q \in wire : Accept(q)
  <2>1. PICK q \in wire : Accept(q)
    BY <1>1
  <2>2. /\ \A i \in Items : IF i \in q.items THEN accepted'[i] = accepted[i] + 1
                            ELSE accepted'[i] = accepted[i]
        /\ disk' = disk /\ stale' = stale
    BY <2>1 DEF Accept
  <2>3. \A i \in Items : i \in q.items => accepted[i] = 0
    BY DEF IInv, World, WireOK
  <2>4. Versions' = Versions
    BY <2>2 DEF Versions
  <2>5. \A i \in Items : IF i \in q.items THEN accepted[i] = 0 /\ accepted'[i] = 1
                         ELSE accepted'[i] = accepted[i]
    BY <2>2, <2>3
  <2>6. \A i \in Items : accepted[i] > 0 => accepted'[i] > 0
    BY <2>5
  <2> QED
    BY <2>4, <2>5, <2>6
<1>2. CASE ~\E q \in wire : Accept(q)
  <2>1. accepted' = accepted
    BY <1>2 DEF Next, Running, Process, vars, Start, Resume, Launch, Receipt, UnusableReceipt,
                Refused, NotSent, Unknown, Resolve, Finish, Post, SubmitInterrupted, ReadLimited,
                NoProgress, PollStops, BatchPolled, Signal, Crash, PowerLoss, service
  <2> QED
    BY <2>1
<1> QED
  BY <1>1, <1>2

\* Gaps: a new file differs from the last one around a request only.
LEMMA PartedStep ==
    ASSUME NEW V, NEW W, NEW d \in V, NEW i, Parted(V, i),
           \/ W = V
           \/ \E v : W = {v}
           \/ \A v \in W : Said(v, i) = "pending"
           \/ \E s : /\ W = {s} \/ W = V \cup {s}
                     /\ Moves(Said(d, i), Said(s, i))
    PROVE  Parted(W, i)
<1>1. CASE W = V
  BY <1>1
<1>2. CASE \E v : W = {v}
  BY <1>2 DEF Parted
<1>3. CASE \A v \in W : Said(v, i) = "pending"
  BY <1>3 DEF Parted, Stage
<1>4. ASSUME NEW s, W = V \cup {s}, Moves(Said(d, i), Said(s, i)) PROVE Parted(W, i)
  <2> SUFFICES ASSUME NEW v \in W, NEW w \in W, Stage(v, i) # Stage(w, i),
                      \A u \in W : Said(u, i) # "submitting"
               PROVE  FALSE
    BY DEF Parted
  <2>1. \A u \in V : Stage(u, i) = Stage(d, i)
    BY <1>4 DEF Parted
  <2>2. Said(d, i) # "submitting" /\ Said(s, i) # "submitting"
    BY <1>4
  <2>3. Stage(s, i) = Stage(d, i)
    BY <1>4, <2>2 DEF Moves, Stage, WithScan
  <2> QED
    BY <1>4, <2>1, <2>3
<1> QED
  BY <1>1, <1>2, <1>3, <1>4

\* A step of the files, seen from one prompt.
LEMMA FileStepOf ==
    ASSUME FileStep, IInv, NEW i \in Items
    PROVE  \/ Versions' = Versions
           \/ \E v \in Versions : Versions' = {v}
           \/ /\ Versions = {NoState}
              /\ \A v \in Versions' : Said(v, i) = "pending"
           \/ \E s \in JobStates :
                /\ Versions' = {s} \/ Versions' = Versions \cup {s}
                /\ Moves(Said(disk, i), Said(s, i))
                /\ Said(s, i) \in WithScan => accepted'[i] > 0
<1>1. \A s \in JobStates : s # NoState /\ Said(s, i) = s.status[i]
  BY NoStateAssumption DEF Said
<1>2. disk # NoState => Said(disk, i) = disk.status[i]
  BY DEF Said
<1> QED
  BY <1>1, <1>2 DEF FileStep

\* Every step keeps PInv.
LEMMA StepP == IInv /\ IInv' /\ JInv /\ PInv /\ [Next]_vars => PInv'
<1> SUFFICES ASSUME IInv, IInv', JInv, PInv, [Next]_vars PROVE PInv'
  OBVIOUS
<1>1. FileStep
  BY FileSteps
<1>2. disk \in Versions
  BY DEF Versions
<1>3. ASSUME NEW i \in Items PROVE Parted(Versions', i)
  <2>1. Parted(Versions, i)
    BY DEF PInv, GapOK
  <2> QED
    BY <1>1, <1>2, <2>1, FileStepOf, PartedStep
<1>4. GapOK'
  BY <1>3 DEF GapOK
<1>5. ReceiptOK'
  <2> SUFFICES ASSUME NEW i \in Items, NEW v \in Versions', Said(v, i) \in WithScan
               PROVE  accepted'[i] > 0
    BY DEF ReceiptOK
  <2>1. ASSUME v \in Versions PROVE accepted'[i] > 0
    BY <2>1, AcceptedGrows DEF PInv, ReceiptOK
  <2>2. "pending" \notin WithScan
    BY DEF WithScan, Terminal
  <2> QED
    BY <1>1, <2>1, <2>2, FileStepOf
<1>6. LandedOK'
  <2>1. CASE Post
    <3>1. run \in Runs
      BY DEF IInv, TypeOK
    <3>2. ~run'.landed
      BY <2>1, <3>1 DEF Post, Goto, Runs
    <3> QED
      BY <3>2 DEF LandedOK
  <2>2. CASE \E q \in wire : Accept(q)
    <3>1. PICK q \in wire : Accept(q)
      BY <2>2
    <3>2. run \in Runs /\ pc' = pc /\ mem' = mem
      BY <3>1 DEF IInv, TypeOK, Accept
    <3>3. run'.chunk = run.chunk
      BY <3>1, <3>2 DEF Accept, Runs
    <3>4. run'.landed => run.landed \/ (pc = "wait" /\ q \in InFlight)
      BY <3>1, <3>2 DEF Accept, Runs
    <3>5. \A i \in run.chunk : i \in Items
      BY <3>2 DEF Runs
    <3>6. CASE pc = "wait" /\ q \in InFlight
      <4>1. q.items = run.chunk
        BY <3>6 DEF IInv, WaitOK
      <4>2. \A i \in run.chunk : accepted'[i] = 1
        <5>1. \A i \in Items : i \in q.items => accepted[i] = 0 /\ accepted'[i] = accepted[i] + 1
          BY <3>1 DEF IInv, World, WireOK, Accept
        <5> QED
          BY <3>5, <4>1, <5>1
      <4> QED
        BY <3>3, <4>2 DEF LandedOK
    <3>7. CASE ~(pc = "wait" /\ q \in InFlight)
      BY <3>2, <3>3, <3>4, <3>5, <3>7, AcceptedGrows DEF LandedOK, PInv
    <3> QED
      BY <3>6, <3>7
  <2>3. CASE Signal \/ UNCHANGED vars
    BY <2>3 DEF Signal, vars, service, LandedOK, PInv
  <2>4. CASE ~Post /\ ~(\E q \in wire : Accept(q)) /\ ~Signal /\ ~UNCHANGED vars
    <3>1. pc' # "wait"
      BY <2>4, ZenonT(60) DEF Next, Running, Process, Start, Resume, Launch, Receipt, UnusableReceipt,
                  Refused, NotSent, Unknown, Resolve, Finish, SubmitInterrupted, ReadLimited,
                  NoProgress, PollStops, BatchPolled, Crash, PowerLoss, SaveThen, EndRun,
                  EnterBatch, Goto, Leave
    <3> QED
      BY <3>1 DEF LandedOK
  <2> QED
    BY <2>1, <2>2, <2>3, <2>4
<1>7. UnstartedOK'
  <2> SUFFICES ASSUME starts' = 0 PROVE disk' = NoState /\ stale' = {}
    BY DEF UnstartedOK
  <2>1. CASE starts = 0
    <3>1. pc = "idle" /\ Quiet /\ disk = NoState /\ stale = {}
      BY <2>1 DEF IInv, StartOK, PInv, UnstartedOK
    <3>2. PowerLoss \/ UNCHANGED vars
      BY <2>1, <3>1 DEF Next, Running, Process, Start, Resume, Launch, Receipt, UnusableReceipt,
                  Refused, NotSent, Unknown, Resolve, Finish, SubmitInterrupted, ReadLimited,
                  NoProgress, PollStops, BatchPolled, Crash, Post, Signal, Accept, Quiet
    <3> QED
      BY <3>1, <3>2 DEF PowerLoss, vars
  <2>2. CASE starts # 0
    <3>1. starts \in Nat
      BY ConstantsAssumption DEF IInv, TypeOK
    <3>2. starts' \in {starts, starts + 1, 1}
      BY DEF Next, Running, Process, Start, Resume, Launch, Receipt, UnusableReceipt, Refused,
             NotSent, Unknown, Resolve, Finish, SubmitInterrupted, ReadLimited, NoProgress,
             PollStops, BatchPolled, Crash, Post, Signal, Accept, PowerLoss, vars
    <3> QED
      BY <2>2, <3>1, <3>2
  <2> QED
    BY <2>1, <2>2
<1> QED
  BY <1>4, <1>5, <1>6, <1>7 DEF PInv

\* The initial states.
LEMMA InitP == Init => PInv
<1> SUFFICES ASSUME Init PROVE PInv
  OBVIOUS
<1>1. Versions = {NoState}
  BY DEF Init, Versions
<1>2. \A v \in Versions, i \in Items : Said(v, i) = "pending"
  BY <1>1 DEF Said
<1>3. GapOK /\ ReceiptOK
  BY <1>2 DEF GapOK, Parted, Stage, ReceiptOK, WithScan, Terminal
<1> QED
  BY <1>3 DEF Init, PInv, LandedOK, UnstartedOK

\* The invariant of the readable state files holds of every behaviour.
THEOREM FilesInductive == Spec => []PInv
<1>1. Init => PInv
  BY InitP
<1>2. IInv /\ IInv' /\ JInv /\ PInv /\ [Next]_vars => PInv'
  BY StepP
<1> QED
  BY <1>1, <1>2, Inductive, JournalInductive, PTL DEF Spec

\* Once every readable state file holds a result or a doubt about a prompt,
\* no step of a run, the disk or the machine changes that.
THEOREM Finality == Spec => OutcomesAreFinal
<1>1. IInv /\ IInv' /\ JInv /\ PInv /\ [Next]_vars =>
        [\A i \in Items, s \in Terminal \cup {"ambiguous"} : HeldIn(i, s) => HeldIn(i, s)']_vars
  <2> SUFFICES ASSUME IInv, IInv', JInv, PInv, [Next]_vars, NEW i \in Items,
                      NEW st \in Terminal \cup {"ambiguous"}, HeldIn(i, st),
                      NEW w \in Versions'
               PROVE  w # NoState /\ w.status[i] = st
    BY DEF HeldIn
  <2>1. \A v \in Versions : v # NoState /\ v.status[i] = st
    BY DEF HeldIn
  <2>2. FileStep
    BY FileSteps
  <2>3. disk \in Versions /\ disk # NoState /\ disk.status[i] = st
    BY <2>1 DEF Versions
  <2>4. ASSUME NEW s \in JobStates, Moves(disk.status[i], s.status[i])
        PROVE  s # NoState /\ s.status[i] = st
    BY <2>3, <2>4, NoStateAssumption DEF Moves, Terminal
  <2>5. NoState \notin Versions
    BY <2>1
  <2>6. CASE w \in Versions
    BY <2>1, <2>6
  <2>7. CASE w \notin Versions
    <3>1. PICK s \in JobStates :
            /\ Versions' = {s} \/ Versions' = Versions \cup {s}
            /\ Moves(disk.status[i], s.status[i])
      BY <2>2, <2>5, <2>7 DEF FileStep
    <3>2. w = s
      BY <2>7, <3>1
    <3> QED
      BY <2>4, <3>1, <3>2
  <2> QED
    BY <2>6, <2>7
<1> QED
  BY <1>1, Inductive, JournalInductive, FilesInductive, PTL DEF Spec, OutcomesAreFinal

-----------------------------------------------------------------------------
(* The promise *)

\* The life of prompt i, read from the files V.
LifeIn(V, i) ==
    LET seen == {Said(v, i) : v \in V}
    IN  IF "submitting" \in seen THEN "inFlight"
        ELSE IF "submitted" \in seen THEN "known"
        ELSE IF "pending" \in seen THEN "unsent"
        ELSE IF "ambiguous" \in seen THEN "doubt"
        ELSE "done"

\* What each life tells of the files it was read from.
LEMMA LifeFacts ==
    ASSUME NEW V \in SUBSET (JobStates \cup {NoState}), NEW d \in V, NEW i \in Items,
           Parted(V, i)
    PROVE  \/ LifeIn(V, i) = "inFlight" /\ \E u \in V : Said(u, i) = "submitting"
           \/ LifeIn(V, i) = "unsent" /\ \A u \in V : Said(u, i) = "pending"
           \/ LifeIn(V, i) = "doubt" /\ \A u \in V : Said(u, i) = "ambiguous"
           \/ /\ LifeIn(V, i) = "known" /\ \A u \in V : Said(u, i) \in WithScan
              /\ \E u \in V : Said(u, i) = "submitted"
           \/ LifeIn(V, i) = "done" /\ \A u \in V : Said(u, i) \in Terminal
<1>1. \A u \in V : Said(u, i) \in Statuses
  BY DEF Said, JobStates, Statuses
<1>2. CASE \E u \in V : Said(u, i) = "submitting"
  BY <1>2 DEF LifeIn
<1>3. CASE \A u \in V : Said(u, i) # "submitting"
  <2>1. \A u, w \in V : Stage(u, i) = Stage(w, i)
    BY <1>3 DEF Parted
  <2>2. CASE \E u \in V : Said(u, i) = "submitted"
    <3>1. LifeIn(V, i) = "known"
      BY <1>3, <2>2 DEF LifeIn
    <3>2. \A u \in V : Said(u, i) \in WithScan
      BY <1>1, <2>1, <2>2 DEF Stage, WithScan
    <3> QED
      BY <2>2, <3>1, <3>2
  <2>3. CASE \E u \in V : Said(u, i) = "pending"
    <3>1. \A u \in V : Said(u, i) = "pending"
      BY <1>1, <2>1, <2>3 DEF Stage, WithScan, Terminal
    <3>2. LifeIn(V, i) = "unsent"
      BY <2>3, <3>1 DEF LifeIn
    <3> QED
      BY <3>1, <3>2
  <2>4. CASE \E u \in V : Said(u, i) = "ambiguous"
    <3>1. \A u \in V : Said(u, i) = "ambiguous"
      BY <1>1, <2>1, <2>4 DEF Stage, WithScan, Terminal
    <3>2. LifeIn(V, i) = "doubt"
      BY <2>4, <3>1 DEF LifeIn
    <3> QED
      BY <3>1, <3>2
  <2>5. CASE \A u \in V : Said(u, i) \notin {"submitted", "pending", "ambiguous"}
    <3>1. \A u \in V : Said(u, i) \in Terminal
      BY <1>1, <1>3, <2>5 DEF Statuses, Terminal
    <3>2. LifeIn(V, i) = "done"
      BY <1>3, <2>5 DEF LifeIn
    <3> QED
      BY <3>1, <3>2
  <2> QED
    BY <2>2, <2>3, <2>4, <2>5
<1> QED
  BY <1>2, <1>3

\* Every prompt in flight is seen to be so.
LEMMA LifeInFlight ==
    ASSUME NEW V, NEW u \in V, NEW i, Said(u, i) = "submitting"
    PROVE  LifeIn(V, i) = "inFlight"
BY DEF LifeIn

\* The files V become W: of prompt i, the same is said, or what one of them
\* says, or nothing yet, or what a save of the state in d makes of it.
FilesGo(V, W, d, i) ==
    \/ W = V
    \/ \E v \in V : W = {v}
    \/ \A v \in V \cup W : Said(v, i) = "pending"
    \/ \E s : /\ W = {s} \/ W = V \cup {s}
              /\ Moves(Said(d, i), Said(s, i))

\* A step of the files, while the service accepts nothing, is a step of the
\* promise for each prompt or leaves it where it was.
LEMMA LifeStep ==
    ASSUME NEW V \in SUBSET (JobStates \cup {NoState}), NEW W \in SUBSET (JobStates \cup {NoState}),
           NEW d \in V, NEW e \in W, NEW i \in Items, NEW n \in {0, 1},
           Parted(V, i), Parted(W, i),
           \A v \in V \cup W : /\ Said(v, i) = "pending" => n = 0
                               /\ Said(v, i) \in WithScan => n = 1,
           FilesGo(V, W, d, i)
    PROVE  \/ LifeIn(W, i) = LifeIn(V, i)
           \/ LifeIn(V, i) = "unsent" /\ LifeIn(W, i) = "inFlight"
           \/ LifeIn(V, i) = "inFlight" /\ LifeIn(W, i) = "unsent" /\ n = 0
           \/ LifeIn(V, i) = "inFlight" /\ LifeIn(W, i) = "doubt"
           \/ /\ LifeIn(V, i) \in {"inFlight", "known"} /\ LifeIn(W, i) \in {"known", "done"}
              /\ n = 1
<1> DEFINE A == LifeIn(V, i)
           B == LifeIn(W, i)
<1>1. \/ A = "inFlight" /\ \E u \in V : Said(u, i) = "submitting"
      \/ A = "unsent" /\ \A u \in V : Said(u, i) = "pending"
      \/ A = "doubt" /\ \A u \in V : Said(u, i) = "ambiguous"
      \/ /\ A = "known" /\ \A u \in V : Said(u, i) \in WithScan
         /\ \E u \in V : Said(u, i) = "submitted"
      \/ A = "done" /\ \A u \in V : Said(u, i) \in Terminal
  BY LifeFacts
<1>2. \/ B = "inFlight" /\ \E u \in W : Said(u, i) = "submitting"
      \/ B = "unsent" /\ \A u \in W : Said(u, i) = "pending"
      \/ B = "doubt" /\ \A u \in W : Said(u, i) = "ambiguous"
      \/ /\ B = "known" /\ \A u \in W : Said(u, i) \in WithScan
         /\ \E u \in W : Said(u, i) = "submitted"
      \/ B = "done" /\ \A u \in W : Said(u, i) \in Terminal
  BY LifeFacts
<1> HIDE DEF A, B
<1>3. /\ B = "unsent" => n = 0
      /\ A \in {"known", "done"} => n = 1
      /\ B \in {"known", "done"} => n = 1
  BY <1>1, <1>2 DEF WithScan
<1>4. CASE W = V
  BY <1>4 DEF A, B
<1>5. CASE A = "inFlight"
  BY <1>2, <1>3, <1>5 DEF A, B
<1>6. CASE A # "inFlight" /\ W # V
  <2>1. ASSUME NEW w \in W
        PROVE  /\ A = "unsent" => Said(w, i) \in {"pending", "submitting"}
               /\ A = "doubt" => Said(w, i) = "ambiguous"
               /\ A = "known" => Said(w, i) \in WithScan
               /\ A = "done" => Said(w, i) \in Terminal
    <3>2. CASE w \in V
      BY <1>1, <1>6, <3>2
    <3>3. CASE \A v \in V \cup W : Said(v, i) = "pending"
      BY <1>1, <3>3 DEF WithScan, Terminal
    <3>4. CASE Moves(Said(d, i), Said(w, i))
      BY <1>1, <1>6, <3>4 DEF Moves, WithScan, Terminal
    <3> QED
      BY <1>6, <2>1, <3>2, <3>3, <3>4 DEF FilesGo
  <2>2. A = "unsent" => B \in {"unsent", "inFlight"}
    BY <1>2, <2>1 DEF WithScan, Terminal
  <2>3. A = "doubt" => B = "doubt"
    BY <1>2, <2>1 DEF WithScan, Terminal
  <2>4. A = "known" => B \in {"known", "done"}
    BY <1>2, <2>1 DEF WithScan, Terminal
  <2>5. A = "done" => B = "done"
    BY <1>2, <2>1 DEF WithScan, Terminal
  <2> QED
    BY <1>1, <1>3, <1>6, <2>2, <2>3, <2>4, <2>5 DEF A, B
<1> QED
  BY <1>4, <1>5, <1>6 DEF A, B

\* The life of a prompt in the promise is what its files say.
LEMMA ReadFromFiles ==
    \A i \in Items : Reliably(i) = LifeIn(Versions, i)
BY DEF Reliably, LifeIn, Said

\* Every step of the job takes each prompt one step on in its life, or leaves it.
LEMMA StepMoves ==
    ASSUME IInv, IInv', JInv, PInv, PInv', [Next]_vars, NEW i \in Items
    PROVE  Promise!Move(i) \/ Promise!Stay(i)
<1>1. /\ Versions \in SUBSET (JobStates \cup {NoState}) /\ disk \in Versions
      /\ Versions' \in SUBSET (JobStates \cup {NoState}) /\ disk' \in Versions'
  BY DEF IInv, TypeOK, Versions
<1>2. Parted(Versions, i) /\ Parted(Versions', i)
  <2>1. Parted(Versions, i)
    BY DEF PInv, GapOK
  <2>2. Parted(Versions', i)
    BY DEF PInv, GapOK, Parted, Stage, Said
  <2> QED
    BY <2>1, <2>2
<1>3. /\ accepted[i] \in {0, 1} /\ accepted'[i] \in {0, 1}
  BY DEF IInv, TypeOK, World, NeverAcceptedTwice
<1>4. \A v \in Versions : /\ Said(v, i) = "pending" => ~Sent(i)
                          /\ Said(v, i) \in WithScan => accepted[i] = 1
  BY <1>3 DEF PInv, ReceiptOK, IInv, World, VersionOK, Safe, Quiet, Sent, OnWire, Said
<1>5. \A v \in Versions' : /\ Said(v, i) = "pending" => accepted'[i] = 0
                           /\ Said(v, i) \in WithScan => accepted'[i] = 1
  BY <1>3 DEF PInv, ReceiptOK, IInv, World, VersionOK, Safe, Quiet, Sent, OnWire, Said
<1>6. Reliably(i) = LifeIn(Versions, i) /\ Reliably(i)' = LifeIn(Versions', i)
  BY ReadFromFiles DEF Reliably, LifeIn, Said
<1>7. CASE accepted' = accepted
  <2>1. \A v \in Versions \cup Versions' : /\ Said(v, i) = "pending" => accepted[i] = 0
                                           /\ Said(v, i) \in WithScan => accepted[i] = 1
    BY <1>3, <1>4, <1>5, <1>7 DEF Sent
  <2>2. FileStep
    BY FileSteps
  <2>3. FilesGo(Versions, Versions', disk, i)
    BY <2>2, FileStepOf DEF FilesGo, Said
  <2> DEFINE A == LifeIn(Versions, i)
             B == LifeIn(Versions', i)
  <2>4. \/ B = A
        \/ A = "unsent" /\ B = "inFlight"
        \/ A = "inFlight" /\ B = "unsent" /\ accepted[i] = 0
        \/ A = "inFlight" /\ B = "doubt"
        \/ A \in {"inFlight", "known"} /\ B \in {"known", "done"} /\ accepted[i] = 1
    BY <1>1, <1>2, <1>3, <2>1, <2>3, LifeStep
  <2> QED
    BY <1>3, <1>6, <1>7, <2>4 DEF Promise!Move, Promise!Stay
<1>8. CASE accepted' # accepted
  <2>1. PICK q \in wire :
          /\ Versions' = Versions
          /\ \A j \in Items : IF j \in q.items THEN accepted[j] = 0 /\ accepted'[j] = 1
                              ELSE accepted'[j] = accepted[j]
    BY <1>8, AcceptedGrows
  <2>2. Reliably(i)' = Reliably(i)
    BY <1>6, <2>1
  <2>3. CASE i \notin q.items
    BY <2>1, <2>2, <2>3 DEF Promise!Move, Promise!Stay
  <2>4. CASE i \in q.items
    <3>1. Sent(i) /\ accepted[i] = 0 /\ accepted'[i] = 1
      BY <2>1, <2>4 DEF Sent, OnWire
    <3>2. \A v \in Versions : Said(v, i) # "pending" /\ Said(v, i) \notin WithScan
      BY <1>4, <3>1
    <3>3. LifeIn(Versions, i) \in {"inFlight", "doubt"}
      BY <1>1, <1>2, <3>2, LifeFacts DEF WithScan, Terminal
    <3> QED
      BY <1>6, <2>2, <3>1, <3>3 DEF Promise!Move, Promise!Stay
  <2> QED
    BY <2>3, <2>4
<1> QED
  BY <1>7, <1>8

\* A new job promises nothing yet.
LEMMA InitPromise == Init => Promise!Init
<1> SUFFICES ASSUME Init PROVE Promise!Init
  OBVIOUS
<1>1. \A i \in Items : Reliably(i) = "unsent"
  BY DEF Init, Reliably, Versions
<1> QED
  BY <1>1 DEF Init, Promise!Init

\* Every step of the job is a step of the promise.
LEMMA StepPromise ==
    IInv /\ IInv' /\ JInv /\ PInv /\ PInv' /\ [Next]_vars =>
        [Promise!Next]_<<[i \in Items |-> Reliably(i)], accepted>>
<1> SUFFICES ASSUME IInv, IInv', JInv, PInv, PInv', [Next]_vars
             PROVE  Promise!Next
  OBVIOUS
<1>1. \A i \in Items : Promise!Move(i) \/ Promise!Stay(i)
  BY StepMoves
<1>2. accepted' \in [Items -> {0, 1}]
  BY DEF IInv, TypeOK, World, NeverAcceptedTwice
<1>3. \A i \in Items : Reliably(i)' \in Promise!Lives
  BY DEF Reliably, Promise!Lives
<1> QED
  BY <1>1, <1>2, <1>3 DEF Promise!Next

\* Whatever the process, the disk, the network and the service do, every
\* prompt follows the life BulkPromise describes: read from the files that a
\* power loss may leave, it is released only when the service does not have
\* it, and gets a receipt or a result only when the service does.
THEOREM Implements == Spec => KeepsPromise
<1>1. Init => Promise!Init
  BY InitPromise
<1>2. IInv /\ IInv' /\ JInv /\ PInv /\ PInv' /\ [Next]_vars =>
        [Promise!Next]_<<[i \in Items |-> Reliably(i)], accepted>>
  BY StepPromise
<1> QED
  BY <1>1, <1>2, Inductive, JournalInductive, FilesInductive, PTL
     DEF Spec, KeepsPromise, Promise!Spec

=============================================================================

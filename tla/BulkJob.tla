------------------------------ MODULE BulkJob ------------------------------
(***************************************************************************)
(* One bulk-scan job: `airs runtime bulk-scan` (commands/bulk_scan.rs run) *)
(* and every later `airs runtime resume-poll` (resume), the submission and *)
(* polling engine (bulk/engine.rs) and the durable job state               *)
(* (bulk/checkpoint.rs, bulk/state.rs).                                    *)
(*                                                                         *)
(* The job state exists twice: `mem`, the JobState of the running process, *)
(* and `disk`, the state file in its directory.  A checkpoint renames mem  *)
(* over disk and then syncs the directory; `stale` holds the earlier       *)
(* contents a power loss may bring back because that sync has not yet      *)
(* succeeded.  `accepted` and `wire` are the AIRS service: how often it    *)
(* accepted each prompt, and the requests it may still accept, even after  *)
(* the process that sent them has given up or died.                        *)
(*                                                                         *)
(* One process runs at a time (the job lock).  What the output CSV does    *)
(* between a checkpoint and its rename is not modelled here: a run may     *)
(* stop after any results checkpoint.  Prompts, verdict payloads, report   *)
(* ids, time stamps and the sequence number are abstracted away.           *)
(***************************************************************************)
EXTENDS Integers, Sequences, FiniteSets

CONSTANTS
    N,            \* number of prompts
    BatchSize,    \* --batch-size
    ChunkSize,    \* CHUNK_SIZE: prompts per request (20)
    ScanIds,      \* the scan ids the service hands out
    NoScan,       \* an absent scan id
    NoState,      \* an absent job state
    MaxRetries,   \* MAX_RETRIES of a rate-limited request or poll (5)
    MaxQuiet,     \* max_no_progress: polls without a new result (120)
    MaxStarts     \* bound of the model: runs of the program

ASSUME ConstantsAssumption ==
    /\ N \in Nat \ {0}
    /\ BatchSize \in Nat \ {0}
    /\ ChunkSize \in Nat \ {0}
    /\ NoScan \notin ScanIds
    /\ MaxRetries \in Nat
    /\ MaxQuiet \in Nat \ {0}
    /\ MaxStarts \in Nat

Items == 0 .. (N - 1)

\* plan.rs logical_batches: consecutive input indices, BatchSize at a time.
Batches == 0 .. ((N - 1) \div BatchSize)
Batch(b) == {i \in Items : i \div BatchSize = b}

Statuses == {"pending", "submitting", "submitted", "complete", "failed", "ambiguous"}
Terminal == {"complete", "failed"}
WithScan == {"submitted"} \cup Terminal
Outcomes == {"inFlight", "accepted", "unusableReceipt", "rejected", "notSent", "unknown"}

Attempts == [items : SUBSET Items, outcome : Outcomes]

\* JobState: per prompt its status, its last attempt (0: none) and its scan
\* id, and the journal of attempts.  A result is present exactly in a
\* terminal status, so the status stands for it.
JobStates ==
    [status : [Items -> Statuses], attempt : [Items -> Nat],
     scan : [Items -> ScanIds \cup {NoScan}], attempts : Seq(Attempts)]

ASSUME NoStateAssumption == NoState \notin JobStates

\* A request on its way to the service: the attempt that sent it.
Requests == [attempt : Nat, items : SUBSET Items]

VARIABLES
    disk,       \* the state file: a JobState, or NoState
    stale,      \* earlier contents a power loss may restore
    mem,        \* the running process's JobState
    pc,         \* where the running process is ("idle": none runs)
    run,        \* its volatile control state
    cancelled,  \* a signal arrived (session.is_cancelled)
    exit,       \* how the last run ended
    wire,       \* requests the service may still accept
    accepted,   \* how often the service accepted each prompt
    starts      \* runs started so far

vars == <<disk, stale, mem, pc, run, cancelled, exit, wire, accepted, starts>>
service == <<wire, accepted>>

Modes == {"new", "resume", "recover"}
PCs == {"idle", "submit", "post", "wait", "poll", "final"}
Exits == {"none", "done", "refused", "stopped"}
Afters == {"fails", "limited", "over"}

\* todo: prompts of the batch still to send; chunk: those of the request
\* being sent or retried; sent: the batch's submissions are over; landed:
\* the service accepted the request in flight and its answer is due; quiet,
\* level: polls of the receipt without a result, its backoff level.
Runs == [mode : Modes, batch : Nat, todo : SUBSET Items, chunk : SUBSET Items,
         retries : Nat, sent : BOOLEAN, landed : BOOLEAN,
         quiet : Nat, level : Nat]

NoRun == [mode |-> "new", batch |-> 0, todo |-> {}, chunk |-> {},
          retries |-> 0, sent |-> FALSE, landed |-> FALSE,
          quiet |-> 0, level |-> 0]

TypeOK ==
    /\ disk \in JobStates \cup {NoState}
    /\ stale \subseteq JobStates \cup {NoState}
    /\ mem \in JobStates \cup {NoState}
    /\ pc \in PCs
    /\ run \in Runs
    /\ cancelled \in BOOLEAN
    /\ exit \in Exits
    /\ wire \subseteq Requests
    /\ accepted \in [Items -> Nat]
    /\ starts \in 0 .. MaxStarts

-----------------------------------------------------------------------------
(* The job state *)

\* JobState::new
NewState ==
    [status |-> [i \in Items |-> "pending"], attempt |-> [i \in Items |-> 0],
     scan |-> [i \in Items |-> NoScan], attempts |-> <<>>]

With(s, status) == {i \in Items : s.status[i] = status}

\* JobState::validate.  `receipts`: one scan id covers at most a chunk.
Valid(s) ==
    /\ \A i \in Items :
        /\ (s.scan[i] # NoScan) <=> (s.status[i] \in WithScan)
        /\ s.status[i] = "submitting" => s.attempt[i] # 0
        /\ s.attempt[i] # 0 =>
            /\ s.attempt[i] \in 1 .. Len(s.attempts)
            /\ (s.attempts[s.attempt[i]].outcome = "inFlight")
                  <=> (s.status[i] = "submitting")
    /\ \A a, b \in 1 .. Len(s.attempts) :
        /\ s.attempts[a].items # {}
        /\ Cardinality(s.attempts[a].items) <= ChunkSize
        /\ (s.attempts[a].outcome = "inFlight" /\ s.attempts[b].outcome = "inFlight") => a = b
    /\ \A id \in ScanIds : Cardinality({i \in Items : s.scan[i] = id}) <= ChunkSize

\* submit_chunk, before C1: a new attempt in flight over `chunk`.
Launched(s, chunk) ==
    [s EXCEPT !.attempts = Append(@, [items |-> chunk, outcome |-> "inFlight"]),
              !.attempt = [i \in Items |-> IF i \in chunk THEN Len(s.attempts) + 1 ELSE @[i]],
              !.status = [i \in Items |-> IF i \in chunk THEN "submitting" ELSE @[i]]]

\* Variant of Ended: the journal gets the prompts' status, not the outcome.
EndedMistyped(s, chunk, outcome, status, scan) ==
    [s EXCEPT !.attempts = [@ EXCEPT ![Len(s.attempts)].outcome = status],
              !.status = [i \in Items |-> IF i \in chunk THEN status ELSE @[i]],
              !.scan = [i \in Items |-> IF i \in chunk THEN scan ELSE @[i]]]

\* submit_chunk, before C3: the last attempt ended with `outcome`.
Ended(s, chunk, outcome, status, scan) ==
    [s EXCEPT !.attempts = [@ EXCEPT ![Len(s.attempts)].outcome = outcome],
              !.status = [i \in Items |-> IF i \in chunk THEN status ELSE @[i]],
              !.scan = [i \in Items |-> IF i \in chunk THEN scan ELSE @[i]]]

\* Variant of Settled: the attempt of the dead process stays in flight.
SettledItemsOnly(s) ==
    [s EXCEPT !.status = [i \in Items |-> IF @[i] = "submitting" THEN "ambiguous" ELSE @[i]]]

\* Variant of Settled: a request that may have left is taken as not sent.
SettledAsPending(s) ==
    [s EXCEPT !.status = [i \in Items |-> IF @[i] = "submitting" THEN "pending" ELSE @[i]],
              !.attempts = [a \in 1 .. Len(s.attempts) |->
                  IF @[a].outcome = "inFlight" THEN [@[a] EXCEPT !.outcome = "notSent"] ELSE @[a]]]

\* settle_submitting: a durable `submitting` becomes `ambiguous`, its
\* attempt `unknown`.
Settled(s) ==
    LET open == {s.attempt[i] : i \in With(s, "submitting")} IN
    [s EXCEPT !.status = [i \in Items |-> IF @[i] = "submitting" THEN "ambiguous" ELSE @[i]],
              !.attempts = [a \in 1 .. Len(s.attempts) |->
                  IF a \in open /\ @[a].outcome = "inFlight"
                  THEN [@[a] EXCEPT !.outcome = "unknown"] ELSE @[a]]]

\* Engine::record: the results of `ok` and `bad`.
Recorded(s, ok, bad) ==
    [s EXCEPT !.status = [i \in Items |->
        IF i \in ok THEN "complete" ELSE IF i \in bad THEN "failed" ELSE @[i]]]

-----------------------------------------------------------------------------
(* Durability *)

\* StateFile::checkpoint of `s`.  "unsaved": the state is invalid, or the
\* temporary or its rename failed.  "unsynced": renamed, but the directory
\* sync failed, which the caller sees as a failed checkpoint too.
Saves == {"saved", "unsaved", "unsynced"}

Checkpoint(s, save) ==
    \/ /\ save = "saved" /\ Valid(s)
       /\ disk' = s
       /\ stale' = {}
    \/ /\ save = "unsynced" /\ Valid(s)
       /\ disk' = s
       /\ stale' = stale \cup {disk}
    \/ /\ save = "unsaved"
       /\ UNCHANGED <<disk, stale>>

\* The process returns to the shell.
Leave(how) ==
    /\ pc' = "idle"
    /\ mem' = NoState
    /\ run' = NoRun
    /\ cancelled' = FALSE
    /\ exit' = how

Goto(where, s, r) ==
    /\ pc' = where
    /\ mem' = s
    /\ run' = r
    /\ exit' = "none"
    /\ UNCHANGED cancelled

\* Variant of SaveThen: a failed directory sync is not a failed checkpoint.
SaveThenUnsynced(s, save, then) ==
    /\ Checkpoint(s, save)
    /\ IF save # "unsaved" THEN then ELSE Leave("stopped")

\* A checkpoint of `s`, and what the caller does once it is saved; every
\* caller stops with an error when it is not.
SaveThen(s, save, then) ==
    /\ Checkpoint(s, save)
    /\ IF save = "saved" THEN then ELSE Leave("stopped")

-----------------------------------------------------------------------------
(* bulk-scan and resume-poll up to the first batch *)

\* Variant of ToSend: a resume forgets the prompts it never sent.
ToSendNothing(mode, s, b) == IF mode = "new" THEN Batch(b) ELSE {}

\* The prompts of batch b that a run sends: run_new takes the whole batch,
\* run_resume its pending prompts, recover none.
ToSend(mode, s, b) ==
    CASE mode = "new" -> Batch(b)
      [] mode = "resume" -> Batch(b) \cap With(s, "pending")
      [] mode = "recover" -> {}

\* The first step of batch b: run_new submits, the others poll.
EnterBatch(mode, s, b) ==
    Goto(IF mode = "new" THEN "submit" ELSE "poll", s,
         [NoRun EXCEPT !.mode = mode, !.batch = b, !.todo = ToSend(mode, s, b)])

\* run: the first checkpoint.  After a failure Created::undo removes the
\* state file when it is the one this process renamed into place.
Start(save) ==
    /\ pc = "idle" /\ starts = 0 /\ starts < MaxStarts
    /\ starts' = 1
    /\ IF save = "unsynced"
       THEN /\ disk' = NoState
            /\ stale' = {NewState, NoState}
            /\ Leave("stopped")
       ELSE SaveThen(NewState, save, EnterBatch("new", NewState, 0))
    /\ UNCHANGED service

\* resume: load and settle; a checkpoint is due when an attempt was settled
\* or (`changed`) resolving the output changed its record.  A job with an
\* ambiguous prompt is only polled (recover), any other is run.
Resume(changed, save) ==
    /\ pc = "idle" /\ disk # NoState
    /\ 0 < starts /\ starts < MaxStarts
    /\ starts' = starts + 1
    /\ LET s == Settled(disk)
           mode == IF With(s, "ambiguous") = {} THEN "resume" ELSE "recover"
       IN  IF changed \/ With(disk, "submitting") # {}
           THEN SaveThen(s, save, EnterBatch(mode, s, 0))
           ELSE UNCHANGED <<disk, stale>> /\ EnterBatch(mode, s, 0)
    /\ UNCHANGED service

-----------------------------------------------------------------------------
(* Engine::submit_chunk *)

\* A request over the first prompts left to send (plan.rs chunks: where it
\* ends depends on their encoded size), or over the same ones again after a
\* rate limit.
Chunks ==
    IF run.chunk # {} THEN {run.chunk}
    ELSE {c \in SUBSET run.todo :
            /\ c # {} /\ Cardinality(c) <= ChunkSize
            /\ \A i \in c, j \in run.todo \ c : i < j}

\* C1: the prompts are durably `submitting` before the request exists.
Launch(save) ==
    /\ pc = "submit" /\ ~cancelled
    /\ \E chunk \in Chunks :
         LET s == Launched(mem, chunk)
         IN  SaveThen(s, save, Goto("post", s, [run EXCEPT !.chunk = chunk]))
    /\ UNCHANGED <<service, starts>>

Post ==
    /\ pc = "post"
    /\ wire' = wire \cup {[attempt |-> Len(mem.attempts), items |-> run.chunk]}
    /\ Goto("wait", mem, [run EXCEPT !.landed = FALSE])
    /\ UNCHANGED <<disk, stale, accepted, starts>>

\* C3 of an outcome that ends the run.
EndRun(outcome, status, save) ==
    SaveThen(Ended(mem, run.chunk, outcome, status, NoScan), save, Leave("stopped"))

\* A receipt with a usable scan id.
Receipt(scan, save) ==
    /\ pc = "wait" /\ run.landed
    /\ LET left == run.todo \ run.chunk
           s == Ended(mem, run.chunk, "accepted", "submitted", scan)
       IN  SaveThen(s, save,
             IF cancelled THEN Leave("stopped")
             ELSE Goto(IF left = {} THEN "poll" ELSE "submit", s,
                       [run EXCEPT !.todo = left, !.chunk = {}, !.retries = 0,
                                   !.landed = FALSE, !.sent = (left = {}), !.quiet = 0]))
    /\ UNCHANGED <<service, starts>>

\* A receipt without one: the service accepted prompts nobody can ask about.
UnusableReceipt(save) ==
    /\ pc = "wait" /\ run.landed
    /\ EndRun("unusableReceipt", "ambiguous", save)
    /\ UNCHANGED <<service, starts>>

InFlight == {q \in wire : q.attempt = Len(mem.attempts)}

\* The service refuses the request: 429 (retried after a wait while retries
\* are left) or another 4xx (the run stops).
Refused(limited, save) ==
    /\ pc = "wait" /\ InFlight # {}
    /\ wire' = wire \ InFlight
    /\ LET s == Ended(mem, run.chunk, "rejected", "pending", NoScan)
       IN  IF limited /\ run.retries < MaxRetries /\ ~cancelled
           THEN SaveThen(s, save, Goto("submit", s, [run EXCEPT !.retries = @ + 1]))
           ELSE EndRun("rejected", "pending", save)
    /\ UNCHANGED <<accepted, starts>>

\* The transport reports that the request never left (remoteOutcome notSent).
NotSent(save) ==
    /\ pc = "post"
    /\ EndRun("notSent", "pending", save)
    /\ UNCHANGED <<service, starts>>

\* Variant of Unknown: no answer is taken as a refusal.
UnknownAsRejected(save) ==
    /\ pc = "wait"
    /\ EndRun("rejected", "pending", save)
    /\ UNCHANGED <<service, starts>>

\* Variant of Unknown: the prompts are in doubt, the attempt is refused.
UnknownMisfiled(save) ==
    /\ pc = "wait"
    /\ EndRun("rejected", "ambiguous", save)
    /\ UNCHANGED <<service, starts>>

\* A timeout, a lost answer, a 5xx or a signal while the request is under
\* way: the service may have accepted it, or accept it later.
Unknown(save) ==
    /\ pc = "wait"
    /\ EndRun("unknown", "ambiguous", save)
    /\ UNCHANGED <<service, starts>>

\* A signal at the top of the submission loop or during a rate-limit wait.
SubmitInterrupted ==
    /\ pc = "submit" /\ cancelled
    /\ Leave("stopped")
    /\ UNCHANGED <<disk, stale, service, starts>>

-----------------------------------------------------------------------------
(* Engine::poll_batch and poll_receipt *)

Open == Batch(run.batch) \cap With(mem, "submitted")

\* plan.rs receipts: the open receipt with the lowest input index, and what
\* is unresolved under it in the whole job.
Polled ==
    LET first == CHOOSE i \in Open : \A j \in Open : i <= j
    IN  mem.scan[first]

\* Variant of Unresolved: a receipt's resolved prompts are resolved again.
AllOfReceipt == {i \in Items : mem.scan[i] = Polled}

Unresolved == {i \in With(mem, "submitted") : mem.scan[i] = Polled}

\* What the end of a poll leaves of the backoff level.
Eased == IF run.level = 0 THEN 0 ELSE run.level - 1

\* One answer resolves `ok` and `bad`; they are checkpointed with a CSV
\* rewrite.  Then the run stops (the CSV or a later row fails it), the read
\* of the report is rate-limited, which repeats the poll, or the poll is over.
Resolve(ok, bad, save, after) ==
    /\ pc = "poll" /\ Open # {}
    /\ ok \cup bad # {} /\ ok \cap bad = {} /\ ok \cup bad \subseteq Unresolved
    /\ \A i \in ok \cup bad : accepted[i] > 0
    /\ after = "limited" => run.level < MaxRetries
    /\ LET s == Recorded(mem, ok, bad)
           r == IF ok \cup bad = Unresolved THEN [run EXCEPT !.quiet = 0, !.level = 0]
                ELSE IF after = "limited" THEN [run EXCEPT !.level = @ + 1]
                ELSE [run EXCEPT !.quiet = 0, !.level = Eased]
       IN  SaveThen(s, save, IF after = "fails" THEN Leave("stopped") ELSE Goto("poll", s, r))
    /\ UNCHANGED <<service, starts>>

\* Variant of ReadLimited: a rate limit counts as progress.
ReadLimitedAsProgress ==
    /\ pc = "poll" /\ Open # {} /\ run.level < MaxRetries
    /\ Goto("poll", mem, [run EXCEPT !.level = @ + 1, !.quiet = 0])
    /\ UNCHANGED <<disk, stale, service, starts>>

\* A rate-limited read, after which the poll is repeated.
ReadLimited ==
    /\ pc = "poll" /\ Open # {} /\ run.level < MaxRetries
    /\ Goto("poll", mem, [run EXCEPT !.level = @ + 1])
    /\ UNCHANGED <<disk, stale, service, starts>>

\* A poll without a new result; MaxQuiet of them in a row stop the run.
NoProgress ==
    /\ pc = "poll" /\ Open # {}
    /\ IF run.quiet + 1 >= MaxQuiet
       THEN Leave("stopped")
       ELSE Goto("poll", mem, [run EXCEPT !.quiet = @ + 1, !.level = Eased])
    /\ UNCHANGED <<disk, stale, service, starts>>

\* A failed read, a correlation error or a signal.
PollStops ==
    /\ pc = "poll" /\ Open # {}
    /\ Leave("stopped")
    /\ UNCHANGED <<disk, stale, service, starts>>

\* Variant of BatchPolled: the receipts of the batch are not waited for.
BatchNotAwaited ==
    /\ pc = "poll"
    /\ IF run.batch + 1 \in Batches
       THEN EnterBatch(run.mode, mem, run.batch + 1)
       ELSE Goto("final", mem, [NoRun EXCEPT !.mode = run.mode])
    /\ UNCHANGED <<disk, stale, service, starts>>

\* Every receipt of the batch is resolved: its pending prompts are sent
\* (run_resume, before they were), or the next batch begins.
BatchPolled ==
    /\ pc = "poll" /\ Open = {}
    /\ LET todo == ToSend(run.mode, mem, run.batch) IN
       IF run.mode = "resume" /\ ~run.sent /\ todo # {}
       THEN Goto("submit", mem, [run EXCEPT !.todo = todo, !.quiet = 0])
       ELSE IF run.batch + 1 \in Batches
       THEN EnterBatch(run.mode, mem, run.batch + 1)
       ELSE Goto("final", mem, [NoRun EXCEPT !.mode = run.mode])
    /\ UNCHANGED <<disk, stale, service, starts>>

\* The last save_with_output; recover then refuses to send anything.
Finish(save, fails) ==
    /\ pc = "final"
    /\ SaveThen(mem, save,
                Leave(IF fails \/ cancelled THEN "stopped"
                      ELSE IF run.mode = "recover" THEN "refused" ELSE "done"))
    /\ UNCHANGED <<service, starts>>

-----------------------------------------------------------------------------
(* The world around the process *)

\* The service accepts a request it was sent, now or long after.
Accept(q) ==
    /\ q \in wire
    /\ wire' = wire \ {q}
    /\ accepted' = [i \in Items |-> IF i \in q.items THEN accepted[i] + 1 ELSE accepted[i]]
    /\ run' = [run EXCEPT !.landed = @ \/ (pc = "wait" /\ q \in InFlight)]
    /\ UNCHANGED <<disk, stale, mem, pc, cancelled, exit, starts>>

Signal ==
    /\ pc # "idle" /\ ~cancelled
    /\ cancelled' = TRUE
    /\ UNCHANGED <<disk, stale, mem, pc, run, exit, service, starts>>

\* The process dies (kill -9, a second signal, a panic).
Crash ==
    /\ pc # "idle"
    /\ Leave("stopped")
    /\ UNCHANGED <<disk, stale, service, starts>>

\* The machine loses power: the last synced state file or one renamed since.
PowerLoss ==
    /\ disk' \in {disk} \cup stale
    /\ stale' = {}
    /\ Leave(IF pc = "idle" THEN exit ELSE "stopped")
    /\ UNCHANGED <<service, starts>>

-----------------------------------------------------------------------------
Init ==
    /\ disk = NoState
    /\ stale = {}
    /\ mem = NoState
    /\ pc = "idle"
    /\ run = NoRun
    /\ cancelled = FALSE
    /\ exit = "none"
    /\ wire = {}
    /\ accepted = [i \in Items |-> 0]
    /\ starts = 0

\* The steps of a running process.
Process(save) ==
    \/ Launch(save)
    \/ \E scan \in ScanIds : Receipt(scan, save)
    \/ UnusableReceipt(save)
    \/ \E limited \in BOOLEAN : Refused(limited, save)
    \/ NotSent(save)
    \/ Unknown(save)
    \/ \E ok, bad \in SUBSET Items, after \in Afters : Resolve(ok, bad, save, after)
    \/ \E fails \in BOOLEAN : Finish(save, fails)

Running ==
    \/ \E save \in Saves : Process(save)
    \/ Post
    \/ SubmitInterrupted
    \/ ReadLimited
    \/ NoProgress
    \/ PollStops
    \/ BatchPolled

Next ==
    \/ \E save \in Saves : Start(save)
    \/ \E changed \in BOOLEAN, save \in Saves : Resume(changed, save)
    \/ Running
    \/ \E q \in wire : Accept(q)
    \/ Signal
    \/ Crash
    \/ PowerLoss

\* A running process goes on: every request has a time limit, every wait is
\* bounded.  Nothing obliges the user to resume, or the service to accept.
Spec == Init /\ [][Next]_vars /\ WF_vars(Running)

-----------------------------------------------------------------------------
(* Properties *)

\* What the state file can hold after a power loss now.
Versions == {disk} \cup stale

\* The service accepted prompt i, or still may.
OnWire(i) == \E q \in wire : i \in q.items
Sent(i) == accepted[i] > 0 \/ OnWire(i)

\* No prompt is ever scanned (and billed) twice: neither by a retry, nor by a
\* resume after a crash, a failed save or a power loss, nor because a request
\* given up as lost arrives late.
NeverAcceptedTwice == \A i \in Items : accepted[i] <= 1

\* A prompt the service has, or may get, is never `pending` (that is,
\* resendable) in any state file a later resume-poll could read.
SentIsRecorded ==
    \A v \in Versions, i \in Items : Sent(i) => v # NoState /\ v.status[i] # "pending"

\* The attempt journal accounts for every accepted prompt: one of its
\* attempts is accepted, unusable, unknown or still in flight, whatever was
\* lost between the service's answer and the next save.
JournalCoversService ==
    \A v \in Versions, i \in Items : accepted[i] > 0 =>
        /\ v # NoState
        /\ \E a \in 1 .. Len(v.attempts) :
             /\ i \in v.attempts[a].items
             /\ v.attempts[a].outcome \notin {"rejected", "notSent"}

\* The engine never builds a state its own validation refuses to save, as
\* long as the service does not hand out a scan id twice: neither before a
\* request, nor after its outcome, nor when a later run settles the attempt
\* a dead process left in flight.
CheckpointNeverRefused ==
    /\ pc = "submit" => \A c \in Chunks : Valid(Launched(mem, c))
    /\ pc = "wait" =>
         /\ \A id \in ScanIds : (\A i \in Items : mem.scan[i] # id) =>
              Valid(Ended(mem, run.chunk, "accepted", "submitted", id))
         /\ Valid(Ended(mem, run.chunk, "rejected", "pending", NoScan))
         /\ Valid(Ended(mem, run.chunk, "unknown", "ambiguous", NoScan))
    /\ (pc = "idle" /\ disk # NoState) => Valid(Settled(disk))

\* Batches are worked off in order, also by a resume that finds a job in the
\* middle of one: while batch b is submitted, every prompt of an earlier
\* batch has its result.
BatchesInOrder ==
    pc \in {"submit", "post", "wait"} =>
        \A i \in Items : i \div BatchSize < run.batch => mem.status[i] \in Terminal

\* A run that reports completion left every prompt with a result in a state
\* file no power loss can undo; one that refuses left a prompt in doubt and
\* no known receipt unread.
ExitIsHonest ==
    /\ exit = "done" => /\ stale = {} /\ disk # NoState
                        /\ \A i \in Items : disk.status[i] \in Terminal
    /\ exit = "refused" => /\ stale = {} /\ disk # NoState
                           /\ With(disk, "ambiguous") # {}
                           /\ With(disk, "submitted") = {}

\* Once every readable state file holds a result or a doubt about a prompt,
\* no later run, save, crash or power loss changes it.
HeldIn(i, status) == \A v \in Versions : v # NoState /\ v.status[i] = status
OutcomesAreFinal ==
    [][\A i \in Items, s \in Terminal \cup {"ambiguous"} :
          HeldIn(i, s) => HeldIn(i, s)']_vars

\* A run ends: the 429 loops of requests and polls, the polls of a receipt
\* and the batches are all bounded, even when the service never resolves
\* anything.
RunEnds == (pc # "idle") ~> (pc = "idle")

\* The promise, read from what the disk can be relied on for.
Reliably(i) ==
    LET seen == {IF v = NoState THEN "pending" ELSE v.status[i] : v \in Versions}
    IN  IF "submitting" \in seen THEN "inFlight"
        ELSE IF "submitted" \in seen THEN "known"
        ELSE IF "pending" \in seen THEN "unsent"
        ELSE IF "ambiguous" \in seen THEN "doubt"
        ELSE "done"

Promise == INSTANCE BulkPromise WITH
    life <- [i \in Items |-> Reliably(i)], accepted <- accepted

\* Every step of the job, its crashes and its power losses included, is a
\* step of the promise or leaves it unchanged.
KeepsPromise == Promise!Spec

=============================================================================

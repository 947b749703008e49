# A verification development of the AIRS command line

`airs` is a Rust command line for Prisma AIRS: runtime scans, bulk scan jobs,
local tenants, and administration of profiles, topics, DLP objects, red-team
scans, model security and the AI gateway. Most of its commands are one request
and one rendering. The difficulty is concentrated where a command leaves
something durable behind, where it sends something that costs money or cannot
be taken back, or where it reads a remote list that others change meanwhile.
That is what the TLA+ modules here model; source paths below are those of the
repository.

## 1. Inventory

### Bulk scan jobs

Sources: `src/commands/bulk_scan.rs`, `src/bulk/{engine,state,checkpoint,plan}.rs`.

- State: `JobState` (per prompt a status, its last attempt, its scan id and
  result; a journal of attempts) in memory and in `<job>.json`; the batch, the
  chunk, the retry and poll counters of the running engine.
- Operations: `run` (first run), `resume` (`resume-poll`), the engine's
  `run_new`, `run_resume`, `recover`, `submit_chunk` with its two checkpoints
  C1 (before the request) and C3 (after its outcome), `poll_batch`,
  `poll_receipt`, `record`, `save_with_output`.
- Hard: a crash, a signal or a failed save between any two steps; a request
  without an answer that the service accepts later; a rename whose directory
  was not synced; 429 loops; a resume in the middle of a batch.
- Correct when: no prompt is sent twice, no accepted prompt is forgotten, no
  result changes, exits tell the truth, a run ends.

### Output CSV of a job

Sources: `src/bulk/output.rs`, `save_with_output` in `engine.rs`,
`resolve_output` in `bulk_scan.rs`.

- State: the file at the output path (known by device and inode), the rewrite
  temporary, `output.current` and `output.next` of the job state.
- Hard: two files (state and CSV) that cannot be replaced in one step; the
  identity check and the rename are two calls; other programs at the path.
- Correct when: the CSV is never ahead of the state, rows do not disappear,
  files of others survive, the job recognises its own file after a crash.

### Job lock

Sources: `src/bulk/lock.rs`, `verify_lock`, the identity check of
`checkpoint.rs`. State: the inode at `<job>.lock`, `flock` holders. Hard: the
kernel locks an inode, the program means a name; a removed lock file lets a
second process in. Correct when one process works on a job.

### Tenant store

Sources: `src/store/{atomic,lock,mod}.rs`, `src/tenant/`,
`src/commands/{tenant,tenant_write,tenant_import}.rs`, `src/lib.rs` (`execute`).

- State: `config.toml` (pins, the selected tenant), one file per tenant,
  `config.lock`, the journal of a `Transaction`.
- Operations: `tenant create`, `set`, `unset`, `switch`, `delete`, `import`,
  and every reader.
- Hard: changes of two and more files; readers without a lock; a check before
  the lock that is out of date under it; a rollback that fails; a signal, after
  which the report only knows whether the commit point was passed.
- Correct when: commands act at one instant, tenants stay usable, reports are
  true.

### Page walks

Sources: `src/walk.rs` (`walk_with`, most listings), `src/dlp/walk.rs`
(`walk_bounded`, DLP listings), `src/dlp/backup.rs` (`Sweep`, DLP inventories),
`src/runtime/transfer/plan.rs` (`OffsetWalk`, profile inventories). State: rows
so far, offset or page number, pages, what earlier pages told. Hard: the list
changes between two pages; totals that are caps; fields a service leaves out;
the end of list, page and `--max` coincide. Correct when a complete walk is
complete.

### API keys

Sources: `src/commands/runtime_keys.rs`, `src/runtime/keys.rs`, `src/files.rs`;
`src/gateway/secrets.rs` follows the same protocol. State: keys at the service,
the file a value goes to, a temporary beside it. Operations: `api-keys create`,
`regenerate`, `delete`. Hard: a value is shown once, so the file is reserved
before the request and filled after it; another command may take the name in
between, the write may fail, a signal may be pending. Correct when the value is
where the command says and no file is overwritten.

### Topic evaluation

Source: `src/commands/topic_eval.rs`. State: the rows of a CSV, the scans in
flight, the dispatches of the last second, the verdicts. Hard: answers in any
order beside a rate window, a failed scan and a signal, each of which decides
whether another scan is sent. Correct when the limits hold in every second, a
failure stops the dispatch at once, and the metrics are those of the service's
verdicts.

### Management writes

Sources: `src/writes.rs`, `execute` in `src/lib.rs`, the outcome lines and
interrupt contexts of each command. State: none beyond one command; the service
keeps everything. Hard: a write is sent once, once more after a 401, and may be
refused, cancelled, answered unreadably or not at all, in which case it may be
carried out after the command has ended. Correct when what the user is told is
true of the service.

### Gateway provisioning

Source: `src/commands/gateway_provision.rs`. State: IAM scopes with the
workspaces bound to them, workspaces; both remote. Operations: `workspaces
create` (scope, workspace, binding, read-back, and the rollback of the scope),
`update`, `archive`; `scopes create`, `bind`, `delete`. Hard: one of four writes
fails or stays unanswered. Correct when no scope a workspace may depend on is
taken back, and the outcome names what exists.

### Topics and profiles

Sources: `src/commands/{topic_write,topic_assign,profile_write}.rs`,
`src/policy.rs`. State: profiles (the service keeps every revision) and topics;
a policy refers to topics by id. Operations: `topics create`, `update`,
`delete`, `apply`, `revert`, `profiles create`, `update`, `delete`. Hard:
read, change and write back without a version. Correct when an edit changes what
it is about and loses the edits of others only between its last read and its write.

### Profile cleanup, profile restore

Sources: `src/commands/{profile_cleanup,profile_restore}.rs`,
`src/runtime/transfer/plan.rs`. Cleanup lists the revisions, asks, lists again
and deletes the old ones one by one; restore plans, asks, checks again, writes
topics and profiles in order, stops at the first failure and can be run again.
Hard: the list changes during the question; one of several deletions or writes
fails or is in doubt; the second run meets what the first one left. Correct when
the newest revisions stay, nothing is made twice, and reports add up.

### DLP resources and their restore

Sources: `src/commands/{dlp_backup,dlp_write,dlp_patterns,dlp_profiles,dlp_dictionaries}.rs`,
`src/dlp/plan.rs`. State: dictionaries, patterns and profiles of a tenant, all
remote; a profile refers to patterns and dictionaries by id. Operations: the
edits of one resource, and `runtime dlp restore`, which sweeps the three
inventories, plans, asks, sweeps again and creates what is missing, each
resource read back before the next. Hard: a profile needs the ids of what the
run itself made; a name may be taken by an archived resource, for which
`--on-conflict reconcile` makes a copy under a suffixed name; an interrupted run
leaves some of it behind. Correct when a re-run finds what the first one made
and binds to it, and nothing is made twice.

### Signals and command execution

Sources: `src/signals.rs`, `src/lib.rs` (`execute`, `finish`), `src/input.rs`,
`src/dlp/body.rs`, `src/store/lock.rs`, `src/output.rs`, `run_step` in
`src/modelsec/uv.rs`, `wait` in `src/commands/redteam_scan.rs`.

- State: the atomics of `SignalState` (the first signal, the phase, the writing
  flag, the child's group, whether the signal was forwarded), the saved terminal
  mode, the SDK session; the terminal's echo; the child.
- Operations: the signal thread's `on_signal` and `act`; on the command thread
  everything that blocks: prompts, piped input, the lock, requests, the wait for a
  scan, a child, the write of the output.
- Hard: two threads share the fields without a lock around what belongs
  together; a blocked read or write can only be ended by ending the process.
- Correct when no signal is missed by both threads or acted on by both, two
  signals end the process whatever it waits for, and what it leaves behind is a
  terminal with echo and no child.

### Other parts

- Input parsing, rendering, reports, redaction, endpoint selection, the command
  grammar, packaging, the test harness: pure functions of their input, external
  tools or test code. Not modelled.

Interactions: a bulk job takes the job lock, then changes state and CSV
together; `BulkJob` leaves the lock and the CSV out and `BulkLock` and
`BulkOutput` say what they promise. Commands read the tenant store once at
their start and share nothing else with it. Management commands of several
processes meet only in the remote service. Signals reach a job, a transaction
and a request as a flag they look at between steps; `CommandThread` has the
blocking parts of all commands, without what they do.

## 2. Modules

| module | role |
|---|---|
| `BulkJob` | one job over all its runs, the disk and the service |
| `BulkPromise` | abstract: what a job promises about each prompt |
| `BulkJobProofs` | inductive invariants and theorems about `BulkJob` |
| `BulkOutput` | the CSV protocol between state file and output path |
| `BulkLock` | several processes, the lock file and the state file's identity |
| `TenantCommands` | what a tenant and a write command are |
| `TenantStore` | transactions, readers, signals and crashes on the store |
| `TenantRegistry` | abstract: every command acts at one instant |
| `Listing` | what all page loops share: rows, bounds, a list that changes |
| `PageWalk` | the skip and limit loop |
| `NumberedWalk` | the DLP loops over numbered pages: listing and inventory sweep |
| `OffsetWalk` | the profile and topic inventory |
| `ListWalks` | composes the four above |
| `TopicEval` | one evaluation: rate window, answers in any order, failures |
| `RemoteWrite` | one management write: its answers, and what is said of them |
| `RemoteCommands` | concurrent commands against a service: reads, writes, late writes, signals |
| `ScopeProvisioning` | scopes and workspaces of the gateway, and their commands |
| `RuntimeService` | profiles, topics and DLP resources as a service, and the state of a command |
| `RuntimeEdits` | the edits of one topic or profile |
| `ProfileCleanup` | the cleanup of old revisions |
| `ProfileRestore` | the restore of a backup |
| `DlpEdits` | the edits of one DLP resource |
| `DlpRestore` | the restore of a DLP backup |
| `KeySaving` | the API key commands and the files they write |
| `RuntimeAdmin` | composes the seven modules above |
| `SignalState` | what the two threads share, and the signal thread |
| `CommandThread` | the command thread wherever it can block, and the end of a command |
| `BulkFilesProofs` | the same about `BulkOutput` and `BulkLock` |
| `TenantStoreProofs`, `ListWalksProofs`, `TopicEvalProofs`, `ScopeProvisioningProofs`, `RuntimeAdminProofs`, `CommandThreadProofs` | the same about the module each is named after |
| `MC*` | instances for TLC |

Definitions marked "Variant of ..." are the faulty forms `PROJECT.json` lists
under "mutants": each property is shown to fail when the code is changed that
way. They are in no next-state relation.

### BulkJob

`mem` is the running process's `JobState`, `disk` the state file, `stale` the
earlier contents a power loss may bring back. `wire` holds requests the service
may still accept and `accepted` counts how often it did: those two are the
world, the program never reads them except through an answer.

| code | action or operator |
|---|---|
| `StateFile::checkpoint` | `Checkpoint`, `SaveThen` (saved, unsaved, unsynced) |
| `JobState::validate` | `Valid` |
| `run` and the undo of a failed setup | `Start` |
| `resume`, `settle_submitting` | `Resume`, `Settled` |
| `submit_chunk` up to C1 | `Launch`, `Launched`, `Chunks` |
| the request, and C3 of each outcome | `Post`, `Receipt`, `UnusableReceipt`, `Refused`, `NotSent`, `Unknown`, `Ended` |
| cancellation between chunks | `SubmitInterrupted` |
| `poll_batch`, `poll_receipt`, `record` | `Resolve`, `ReadLimited`, `NoProgress`, `PollStops`, `BatchPolled` |
| the last `save_with_output` | `Finish` |

`Accept`, `Signal`, `Crash` and `PowerLoss` are the environment. An action
includes its checkpoint and what the caller does when that fails; the request
of `Post` and its answer are separate steps because the process can die in
between. Two simplifications: a result that arrives with a rate limit in the
same poll counts as two polls, and a poll resolves any nonempty part of the
open prompts of one receipt (the code resolves what the answer holds).

### BulkOutput

A file is an identity, a row count and `mine` (written by the job; a ghost the
program cannot see). `Claim` and `FirstCheckpoint` are the setup, `Prepare`,
`SaveNext`, `CommitCheck` and `CommitRename` one `save_with_output`, `Resolve`
and `ResumeCheckpoint` the start of `resume-poll`. A claim whose write fails is
`ClaimFails` or `ResolveUnwritten`. The undo of a claim is `CheckUndo` and
`RemoveByName` (`remove_if`); of the failed claim it is `RemoveByName` alone,
which looks at nothing. A look and the call after it are two steps, here as in
`commit`, and `Intrude` may fall between them. Both removals, that of the state
(`kept` in `FirstCheckpoint`) and that of the CSV, may fail, which the code
ignores; `orphan` notes what stays. Rows and results are counts because results only accumulate
(`OutcomesAreFinal` of `BulkJob`).

### BulkLock

`Open`, `Flock` and `StillNamed` are `JobLock::acquire`; `VerifyLock`,
`CheckIdentity` and `Rename` the guarded checkpoint C1; `RemoveLock` is
somebody cleaning up. Inode numbers are reused as soon as nothing refers to
them, which is when a name check could be fooled. The job is reduced to one chunk.

### TenantStore and TenantRegistry

`Start` makes the unlocked checks (`Precheck`), `Acquire` and `GiveUp` the wait
for the lock, `Plan` the second check under it and what will be written,
`WriteFile` and `WriteIndex` are `Transaction::write`, `Unlink` the last step of
`delete`, `Undo` one file of `rollback`, `Release` the end, at which the user is
told what `Printed` says: the command's own report, or what `execute` makes of
it after a signal. `ReadIndex` and `ReadFile` are a reader.
`cut` is a ghost: tenants a two-file change left half written.

`TenantRegistry` has the store as one value and every command as one step. The
refinement `ActsAtOnce` shows it the tenants as `Visible` has them: a file that an
open transaction has written is what it held before, until the transaction
passes its commit point.

### Listing, PageWalk, NumberedWalk, OffsetWalk, ListWalks

`Page`, `NumberedPage`, `SweepPage` and `OffsetPage` are one iteration of
`walk_with`, `walk_bounded`, `Sweep::accept` and `OffsetWalk::accept`; `Take` is
the row loop of the first two, `OutOfPages` and `Fails` their other exits,
`Insert` and `Delete` other clients. How commands call a loop (page size,
`--max`, page bound, partial, shrinking last page) is a record of `MCPageWalks`,
`MCNumberedWalks` and `MCOffsetWalks`; what a service does with `limit`, `skip`,
`page` and totals, and which fields it sends, is one of `MCPageServices`,
`MCNumberedServices` and `MCOffsetServices`. An inventory sweep keeps in `told`
what earlier pages said and refuses a page that contradicts it; a listing takes
each page as it is. It has no `--max`, which `NumberedWalkAssumption` says.

### TopicEval

`Load` is `load_prompts` after parsing, `Open` the condition of the dispatch
loop, `Fresh` and `Free` are `rate_wait`, `Throttle` with `WindowMoved` and
`SignalSeen` its wait, `Answered` is `Progress::record` of any scan in flight,
`Finished` the end of `eval`. A second is `Second` ticks, and of a dispatch only
its age is kept; `window` is the set of rows `rate_wait` remembers. `said` holds
the service's verdicts, which the program knows only as far as `Note` stores them.

### RemoteWrite and RemoteCommands

`Answers` are the ways an SDK call ends; `attempt` in `writes.rs` is `Replays`,
`describe` and `in_contexts` are `Told`, `execute` is `Printed`. A message is
modelled by what it claims of each effect a command can have: it happened, it
did not, or it may have; of two lines that contradict each other, as in
`DropTopic`, by the firmer one. `RemoteCommands` gives every command its read, write
(`Send`), signal and end (`Report`); it is instantiated with what the service
accepts (`Takes`) and does (`After`). A write without an answer stays on `wire`
and may arrive at any later time. `did` and `doubt` are ghosts: the effects a
process had, and those whose outcome it never learned.

### ScopeProvisioning

`CreateScope`, `CreateWorkspace`, `BindRead`, `BindPut` and `ReadBack` are the
steps of `workspaces create`, `RollBack` is `rollback_scope`; the other commands
are `Resolve`, `Confirm` and `OneWrite`, with `BindRead` and `BindPut` shared by
`scopes bind`. `BindPut` writes the whole scope from what `BindRead` read, so two
commands can lose each other's binding, as the code says. Left out: names and
generated slugs, and a scope whose answer cannot be read inside `bind_workspace`.

### RuntimeService, RuntimeEdits, ProfileCleanup, ProfileRestore, DlpEdits, DlpRestore, KeySaving, RuntimeAdmin

A PUT of a profile adds a revision, under a new id or, on other services, under
the same one (`keepsId`): the code is written for both. A policy is the topics
it refers to and a rest. The steps are those of the code: `FindTopic`,
`FindProfile`, `WriteEdit`, `DropTopic`; `List`, `ListAgain`, `DeleteOne`;
`PlanProfiles`, `PlanTopics`, `Recheck`, then `Topic`, `PostTopic`, `Profile`,
`WriteProfile`, `VerifyProfile` for each item of the plan; for DLP `GuardDlp`
and `EditDlp`; `SweepDlp`, one step per inventory, ends in `DlpPlanned` or
`Rechecked`, and `CreateDlp` and `VerifyDlp` follow for each resource to make.
A service keeps the name of an archived DLP resource taken, that of every
resource, or none (`reserves`): the code is written for all. A listing is read in
one step (its pages are the subject of `ListWalks`). `CheckKeyFile` is
`check_new`, `ReserveKey` is `reserve_new` and the token, `WriteKey` is `post_key`,
`AnswerRead` and `SaveKey` are `save_answer`; `files` holds the key files and the
temporaries. A failed sync of a key file changes only warnings. `RuntimeAdmin`
adds the connection, the question and the ghost `stale`: a process about to write, after
whose last read another one changed the service.

Left out: the blocks, directions and groups inside a policy, updates that
replace a policy from a file, lookup by id and renaming, revisions of a topic,
the DLP bindings inside security profiles, restores into another tenant and name
prefixes, `--pattern-map`, versions and keywords of DLP resources, defaults the service adds, dry runs.

### SignalState, CommandThread

Each read, write or exchange of a shared field is a step. `Receive` to
`SeePhase` are `watch` and `on_signal`, in the order of its match arms; `TakeMode`
and `RestoreMode` (`restore_termios`), `CancelSession`, `KillChild` and `ExitNow`
are `act`; `FindGroup`, `ClaimForwarding` and `TellGroup` are `forward_once`, which
both threads run. A command is a sequence of parts:

| part | code | actions |
|---|---|---|
| hidden prompt | `Prompter::ask` | `EnterPhase`, `SaveMode`, `Silence`, `Reply`, `SetEcho`, `SaveMode`, `LeavePhase` |
| confirmation, piped stdin | `confirm`, `read_piped_stdin` | `EnterPhase`, `Reply`, `LeavePhase` |
| body on stdin | `read_stdin` of `dlp/body.rs` | `EnterPhase`, `CheckBody`, `Reply`, `LeavePhase` |
| store change | `begin`, `acquire_with` | `TryLock`, `Sleep`, `Slept`, `Apply` |
| request | an SDK call | `Send`, `Answer` |
| scan | `wait` | `Send`, `Answer`, `Poll`, `Polled`, `Pause` |
| child | `run_step`, `attach_child`, `detach_child` | `Spawn`, `ResetForwarded`, `Attach`, `TellChild`, `Reap`, `Detach`, `Reaped` |

`NextPart` is the look for a signal before a part, `Conclude` is `execute`, and
`SetWriting`, `LookBeforeWrite` and `Written` are `Output::commit`. `Others` is
everybody else: the user, the writer and the reader of the pipes, the child.
`group.late` and the value `late` of `echo` are ghosts: the signal thread had
finished with the terminal, or with looking for a child, and was about to end the
process. Left out: texts and `--quiet`, the registration of the handlers, the
output lines of a child and its grandchildren, stderr that stalls (the last
message gets 200 ms).

## 3. Runs

| run | question | bounds |
|---|---|---|
| `bulk_job` | is a prompt ever scanned twice, is anything forgotten? | 3 prompts, batches and chunks of 2, 2 runs, 1 retry, 1 quiet poll |
| `bulk_job_resume` | are saves accepted, exits honest; is `BulkPromise` implemented; does a run end? | 2 prompts, a batch of 2, chunks of 1, 3 runs, 1 retry, 2 quiet polls |
| `bulk_output` | do CSV and state stay consistent? | 2 paths, 5 identities, 1 result, 3 runs |
| `bulk_lock` | does one process work on a job? | 3 processes, 3 and 3 inodes, 2 attempts, 2 removals |
| `tenant_store` | do commands act at once, do tenants stay usable, is the user told the truth? | 3 names (two alike), room for 2 tenants, 2 processes, 2 commands, 3 faults |
| `list_walks` | what do a complete, a capped and a failed walk tell? | lists of up to 4 rows, pages of 1 and 2, ceiling 4, 2 edits, the four loops with every service |
| `topic_eval` | do the limits hold, does a failure stop the dispatch, are metrics true, does it end? | 3 rows, 2 at a time, no rate, 1 or 2 per second, 2 ticks a second |
| `scope_provisioning` | is a scope in use ever taken back, is what a command returns true? | 1 scope, 2 workspaces, `workspaces create` beside any command, 3 services |
| `scope_report` | violation, see section 5 | the same |
| `runtime_admin` | what can two commands do to each other; does a resumed restore work? | 1 topic, 2 profiles, 5 DLP resources, 2 key files, 7 ids, 2 commands, 10 services, 54 pairs |
| `restore_resume` | violation, see section 5 | its restores with `update` and `skip` |
| `signals` | is a signal missed or acted on twice, what is left behind, does the process end? | 3 signals of 2 kinds, 8 commands, scan wait of 2 intervals, up to 2 children |

Why the bounds are enough. Three prompts in batches of two give a full and a
partial batch and, with requests of one or two prompts, a batch that is partly sent; two
runs give every crash point and its recovery, three (on a smaller job) a recovery
that is itself interrupted. A second resume of a job with requests of two prompts
is left to the proofs, which hold for every bound. Two scan ids suffice for
CheckpointNeverRefused's condition that
an id is fresh. Five identities let a path, a temporary, the recorded current
and next file and a foreign file differ. Two concurrent tenant commands show
every conflict of two checks and two writes, and three faults a failed write
whose undo fails under a signal. Two alike names and a limit of two make both
checks of a new name matter; an import writes two files. Four rows in pages of
one and two make the end of the list fall on, before and after the end of a
page, of `--max` and of the ceiling.

With three rows, two scans in flight and rates of one and two, a dispatch waits
for the window, for a free place, and for both; two ticks let the window move
between two dispatches of a second. One scope and two workspaces suffice for a
binding that overwrites another and for a rollback of a scope somebody else
uses: the properties relate at most two commands. In `runtime_admin` `n1` has
old revisions and the topic and `n2` has neither, so the same command meets
both; `Empty`, `WithTopic` and `Half` are tenants a restore finds nothing or
a part of its backup in, and seven ids are what the longest pair can use. The
pairs are those in which one command writes what the other one has read. The
DLP backup has one resource of each kind, a predefined pattern and a profile of
each sort of reference; its tenants have none of it, a part, or an archived
profile.

In `signals` the third signal is one more than the program tells apart, and the
eight commands have every part, each alone and before or after the parts it is
combined with in the code: a prompt or piped input before a change, a question
or a body before a request, a request before two children.

The type invariants of `BulkLock`, `TopicEval`, `ScopeProvisioning`,
`RuntimeAdmin` and `CommandThread` are proved (section 4), so no run lists them.

`ScanIds`, the lock's inodes and processes and `Procs` of `TenantStore` are
symmetric where no liveness is checked.

The bounded starts, the end of each program and used-up identities are why
`CHECK_DEADLOCK` is off: these programs do stop. That a run does not stop
in the middle is `RunEnds`, that an evaluation does not, `EvalEnds`.

### What holds

- `NeverAcceptedTwice`, `SentIsRecorded`, `JournalCoversService`,
  `BatchesInOrder`, `CheckpointNeverRefused`, `ExitIsHonest`,
  `OutcomesAreFinal` hold with crashes, power losses, failed
  saves and late acceptance at any step. `KeepsPromise` sums them up per prompt:
  unsent, in flight, then known and done, or in doubt for ever, and never back
  to unsent except after a refusal.
- The CSV is never ahead of the state (`CsvNeverAhead`), loses rows only to a
  power loss (`RowsNeverLost`), and is recognised after every interruption but
  one (`OwnFileRecognised`, see section 5), and after every undo that did not
  fail itself. What a run says of both files is so (`ReportedTruly`). A foreign
  file is replaced or removed only when it arrives after the last look at its
  path (`OthersFilesSurvive`): between the identity check and the rename of
  `commit`, between the check and the removal of `remove_if`, or in place of a
  file that was created and could not be written, which is removed without one.
- `OneProcess` holds unless the lock file is removed under a working process;
  then the identity check of the state file leaves the one window the design
  admits (`SentTwiceOnlyInWindow`).
- Tenant commands are linearizable (`ActsAtOnce`) up to two-file changes that
  are cut short, which `TenantsUsable` limits to a pin mismatch. Besides
  `set mgmtTsgId`, `import --replace` writes both files of an existing tenant,
  so it too shows a reader a transient mismatch.
- What a tenant command tells its user is true when it is told
  (`ReportHonest`). "Saved" stands for the whole index and all files, compared
  with what the command was to make (`Makes`) of the store it found under the
  lock: values, pins, the selection, and nothing else changed. After a signal
  `execute` only knows whether the commit point was passed
  (`src/lib.rs:162-176`). The property names what goes unmentioned then, and
  only then: the file of a deleted tenant that is still there, and files an undo
  could not restore. The second disagrees with the design (section 5).
- A walk of a list that does not change is complete (`CompleteWhenStable`) if
  the service tells where its list ends: a total, full pages, a page count. Rows
  that others insert make a walk with keys fail rather than lie
  (`EditsHideNothing`). A row that others delete between two pages can hide
  another one from a listing or a profile inventory; an inventory sweep that is
  told the number of rows notices it, unless rows are both inserted and deleted.
- An evaluation never exceeds its concurrency nor its rate in any second
  (`WithinLimits`), sends nothing after a scan that did not complete
  (`StopsAtOnce`), and its metrics count the service's own verdicts
  (`OutcomeTrue`).
- `workspaces create` takes its scope back only if no workspace of its own can
  exist, not even later (`ScopeKept`). That says nothing of other commands: the
  rollback may take a scope another command has just bound a workspace to.
- What a management command returns is true of its writes, those included that
  arrive after it has ended (`ResultTrue`). There is one exception on each
  side, a sentence about a deletion without a usable answer: `RollbackInDoubt` of
  `workspaces create` and `TopicInDoubt` of `topics revert`, both in section 5. A key command tells where the value of its answer
  is, and it is there: under its name, never over an existing file, or in the
  temporary, which stays only if the message names it. What is printed after a signal is true for cleanup
  and restore, which keep their context up to date, and is not for the commands
  of `scope_report`.
- A cleanup never deletes the newest revision of a profile
  (`CleanupKeepsNewest`), also beside edits, a restore and another cleanup,
  unless profiles are deleted at the same time: then the revision it keeps may be
  the one that is deleted.
- An edit or a restore overwrites a change of another command only if that
  change falls between its last read and its write (`LostOnlyInWindow`), which is
  the window the design accepts because a PUT carries no version.
- A restore that was interrupted and is run again with `--on-conflict verify`
  makes nothing twice (`NothingTwice`), and when it succeeds all of the backup is
  there (`ResumeWorks`); it may be refused, see `restore_resume`. The same holds for a
  DLP restore, with `verify` or, where copies are made, `reconcile`, provided no
  write of the first run is still in doubt.
- A DLP restore makes a second resource of a name, or a copy of a profile in use,
  only if the other one was made after its second sweep of that kind began or,
  for copies, after the plan (`NoSecondDlp`).
- A signal is seen by one of the two threads wherever it arrives, and a child is
  told of it once (`NeverMissed`). What a process leaves behind is a terminal with
  echo and no child (`LeavesNothing`), but for the two windows of section 5. Two
  signals end it, whatever it waits for, one does unless a child or a prompt keeps
  it (`EndsWhenAsked`), and the wait for a scan ends at its bound.

### Fairness

`bulk_job_resume` assumes `WF_vars(Running)` for `RunEnds`, that a running
process goes on. The code justifies it: every request has a time limit, every
wait of the backoff is bounded, and nothing waits for another process. Neither
resuming nor acceptance by the service is assumed, nor that it ever resolves a
prompt. `topic_eval` assumes weak fairness of the loop's own steps, answers
included (each scan has a deadline of 60 s and then counts as failed), and
that time passes, which only the wait for the rate window needs. No signal is
assumed. `signals` assumes weak fairness of each thread: both are only blocked
by what the model has as a guard. Requests end (each has a time limit or is
cancelled with the session). Neither an answer of the user nor the end of a
child, nor a reader of stdout, nor a signal is assumed.

## 4. Proofs

There are eight modules of proofs. The theorems hold for every value of the
constants that satisfies the named assumptions; a run shows the same properties
on one instance.

| module | theorem | says |
|---|---|---|
| `BulkJobProofs` | `Inductive`, `TypeCorrect` | `Spec => []IInv`, `[]TypeOK` |
| | `AtMostOnce`, `Recording` | `[]NeverAcceptedTwice`, `[]SentIsRecorded` |
| | `JournalInductive`, `OrderInductive`, `FilesInductive` | `[]JInv`, `[]OInv`, `[]PInv` |
| | `JournalComplete`, `NeverRefused` | `[]JournalCoversService`, `[]CheckpointNeverRefused` |
| | `InOrder`, `HonestExit`, `Finality` | `[]BatchesInOrder`, `[]ExitIsHonest`, `OutcomesAreFinal` |
| | `Implements` | `KeepsPromise`: `BulkJob` implements `BulkPromise` |
| `BulkFilesProofs` | `Inductive`, `TypeCorrect` | `[]IInv`, `[]TypeOK` of `BulkOutput` |
| | `NeverAhead`, `Recognises` | `[]CsvNeverAhead`, `[]OwnFileRecognised` |
| | `OthersSurvive`, `RowsKept`, `Reported` | the three action properties of `bulk_output` |
| | `LockInductive`, `LockTypeCorrect` | `[]LockInv`, `[]LockTypeOK` of `BulkLock` |
| | `MutualExclusion`, `SentOnce` | `[]OneProcess`, `[]SentTwiceOnlyInWindow` |
| `TenantStoreProofs` | `Inductive`, `TypeCorrect` | `[]IInv`, `[]TypeOK` |
| | `Usable`, `Honest` | `[]TenantsUsable`, `[]ReportHonest` |
| | `Implements` | `ActsAtOnce`: `TenantStore` implements `TenantRegistry` |
| `ListWalksProofs` | `Inductive`, `TypeCorrect` | `[]IInv`, `[]TypeOK` |
| | `Complete`, `Hidden` | `[]CompleteWhenStable`, `[]EditsHideNothing` |
| `TopicEvalProofs` | `Inductive`, `TypeCorrect` | `[]IInv`, `[]TypeOK` |
| | `Limits`, `Stops`, `Outcome` | `[]WithinLimits`, `StopsAtOnce`, `[]OutcomeTrue` |
| `ScopeProvisioningProofs` | `Inductive`, `TypeCorrect` | `[]IInv`, `[]TypeOK` |
| | `NeverUnderAWorkspace`, `Truthful` | `[]ScopeKept`, `[]ResultTrue` |
| `RuntimeAdminProofs` | `Inductive`, `TypeCorrect` | `[]IInv`, `[]TypeOK` |
| | `Truthful`, `NewestKept` | `[]ResultTrue`, `CleanupKeepsNewest` |
| | `LostInWindow`, `NoSecond` | `LostOnlyInWindow`, `NoSecondDlp` |
| | `MadeOnce` | `[]NothingTwice` |
| `CommandThreadProofs` | `Inductive`, `TypeCorrect` | `[]IInv`, `[]TypeOK` |
| | `LeavesTerminalAndChildren`, `SignalsNeverMissed` | `[]LeavesNothing`, `[]NeverMissed` |

The assumptions, evaluated by TLC in the runs: sizes and bounds are natural
numbers, those of batches, chunks, retries of a lock, polls, concurrency, rates
and of a second positive; the values that stand for "none" (`NoScan`, `NoState`,
`NoFile`, `NoRec`, `None`, ...) are none of the values they stand beside; names
are finitely many numbers, their order that of the bytes; what a store, a
service or a program of parts starts as has its type, and `StoresAssumption`
that a command starts on a store that is in order. Of the services of
`RuntimeAdmin` (`RuntimeAssumption`) it is assumed that they hold finitely many
revisions of profiles, that revisions of one id have one name, and that ids are
given out once; of a DLP backup that its names are unique, which `prevalidate`
checks before anything is sent (`src/dlp/plan.rs:855-882`). `CopyAssumption` says
of the names of copies, which end in a hash of the source's id
(`src/dlp/plan.rs:834-853`), that they differ from each other and from the names
of the backup: it excludes a collision of hashes and a backup that itself holds
a profile named like the copy of another one of it. The bounds of the models (runs,
faults, removals, signals) are constants too, so the theorems hold for each value
of them, and for any set of processes, prompts and files.

### One prompt, once (`BulkJobProofs`)

`NeverAcceptedTwice` is not inductive: nothing in it stops a process from
sending a prompt the service already has. The argument follows the life of a
`pending` mark. A prompt is sent when memory says `pending`; memory comes from
a file; a power loss may put back any unsynced file. So `IInv` says

- of every file that may be read later (`World`, `VersionOK`) and of memory
  (`MemOK`) that what was sent is not `pending` in it (`Safe`), and that its
  journal has every attempt on the wire (`Known`), which makes the next attempt
  number new;
- that from C1 to the answer memory is on disk and synced (`FlightOK`), so that
  acceptance at any time finds every readable file prepared;
- that the request just made is over prompts never sent (`PostOK`), that the one
  whose answer is awaited is over the chunk (`WaitOK`), and that requests are
  disjoint (`WireOK`): a refusal takes off the wire exactly what it makes
  `pending`;
- that what is left to send is pending in memory (`SubmitOK`), for a first run
  also in later batches (`LaterOK`), which `run_new` takes up unseen;
- that nothing was sent before the first start (`StartOK`).

`StepInv` has one lemma per action or group of actions; they rest on lemmas
about the job state's operators (`LaunchedTyped`, `EndedTyped`, ...) and about
a checkpoint in any outcome (`WorldSaved`).

### The journal, the order, the promise (`BulkJobProofs`)

`IInv` says what the service has, not what the journal says of it. `JInv` adds
for every readable file that it passes `validate`, that an attempt in flight has
a prompt that waits for it (`Linked`) and that every prompt sent has an attempt
that may have sent it (`Covers`); and that memory between two steps is the file
last saved, with the chunk in hand as the prompts `submitting`. Every state the
engine builds from such a state passes `validate` again, so no checkpoint is
refused. `OInv` says how far a run is: what it has passed is finished, what is
pending in its batch is in `run.todo`, and only a run that sends nothing has
prompts in doubt. `PInv` compares readable files with each other: two that
differ on how far a prompt is are separated by a request of that prompt
(`Parted`), and a receipt is known only of an accepted prompt. That is why a
power loss, which takes the job back, is a step of `BulkPromise` or none, and why
an outcome that every readable file holds stays (`OutcomesAreFinal`).

### The CSV (`BulkFilesProofs`)

None of the properties is inductive, since a file is recognised by its identity,
wherever it is now. The invariant says what a recorded identity stands for
(file with an identity that some readable state or memory records
was written with an identity that some readable state or memory records
was written by the job, with at most the results of that state. New identities
are recorded by nobody, so a step can break this only where it records one, and
there the program records the results it wrote with it. The other parts
(`Rest`) say which files are synced, what the temporary and memory of the
running process hold, and what the check before a rename or a removal has seen:
what a step then replaces or removes is that file, or one that came later, which
is all `OthersFilesSurvive` admits.

### The lock (`BulkFilesProofs`)

The kernel's lock is on an inode. The invariant ties a lock to the descriptor of
its holder (`FdOK`, `HoldOK`) and the inode to the name as long as nobody
removed the file under a working process (`NamedOK`, `WindowOK`); then two
processes inside would hold one inode. `LiveOK` gives the single send outside
the window: a process that may still send is alone.

### The tenant store (`TenantStoreProofs`)

Inside a transaction files and index disagree. `IInv` says what the holder of
the lock has in hand (`HolderOK`): the store as it found it, what an undo would
restore (`JournalOK`) and a plan whose files and index agree once the index is
replaced (`PlanOK`); everybody else holds nothing (`LockOK`).

For the refinement, `AInv` says of a transaction before its commit point what
each kind of command will have done (`Effects`: the checks it made are still
true of the store, and what it has written with what is left to write is the
new content), and that what it leaves when it is cut short is what the design
admits (`Leftover`). A tenant is seen as an open transaction found it
(`Visible`), so `Start`, `Plan`, a write before the commit point and every step
of a process without the lock are stutters (`UnseenSteps`, `HiddenSteps`);
`WriteIndex`, and `WriteFile` of a command that leaves the index alone, are the
command (`CommitStep`, then `TakeCreate` to `TakeImport`); an `Undo` is a stutter
or, when it fails, `Cut`, and so is a crash in the middle.

`Honest` needs both sides of the commit point at the end of a command. For a
command that failed `IInv` has it: the index is the one that was found, and a
registered tenant's file differs only if it could not be restored, and then the
tenant is in `cut` (`JournalOK`, `ReleaseOK`). For one that passed the commit
point `AInv` says that the store is what `Makes` asks for, but for a file still
to be removed (`Done`), which rests on `Effects` and on the files a command has
not written (`Untouched`). `Plan` computes the rows of an import one
after the other in the order of names and `Makes` says only what may be skipped;
that a skipped row has an alike one that is written (`SkippedRow`) takes the
least name of a finite set (`LeastName`).

### Walks (`ListWalksProofs`)

The properties speak of finished walks; the invariant says how far one has come,
for lists, pages and caps of any size. While nobody changes the list the rows are
the list up to the next page (`InStep`), so a page holds no row twice and the
last one ends at the end of the list. While rows only come in, a row the walk owes
is collected or not yet passed (`Behind`): an insertion shifts it back, never
past the walk. A sweep that was told the row count has full pages so far, and the
first rows of the list whenever its length is again the one told (`Counted`), also
of a service that ignores `page`: its second page repeats the first row. The rest
is arithmetic of intervals of rows, stated once (`SliceFacts`, `JoinFacts`,
`PagesFacts`, `PageLength`) and used by `Reading`, what a page adds to the rows of
any loop; `PageStep`, `NumberedStep`, `SweepStep` and `OffsetStep` then only say
what their loop makes of such a page. `SweepSound` is the other direction: of a
service that contradicts nothing, no check of `Sweep::accept` refuses a page.

### An evaluation (`TopicEvalProofs`)

`rate_wait` counts the dispatches it remembers: `WindowOK` says that those of
the last second are all among them. `SaidOK` ties each note of the loop to the
service's answer, in whatever order answers come, `CountOK` the counter to the
notes, `StopOK` and `PhaseOK` say why the dispatch stopped and the loop ended.

### Provisioning (`ScopeProvisioningProofs`)

Writes may arrive after their command has ended. The invariant is a ledger per
process (`Ledger`, `KindOK`): before a command ends no write of it is in doubt
and what it did follows from where it is; a write on the wire is in doubt of the
command that sent it (`WireOK`). A late write thus only moves an effect from
`doubt` to `did`. `ScopeKept` follows from the class of answers after which
`rollback_scope` is called: refused before anything happened.

### Profiles, topics, DLP and keys (`RuntimeAdminProofs`)

The ledger of `ScopeProvisioningProofs`, for eighteen kinds of commands and the
file of a key. `IInv` says of every process what it did and may have done, from
where it is and what it says (`ProcsOK`); of the wire, that a write on it is in
doubt of its sender (`WireOK`); of the files, that one with the value of a key
is at the path of the command whose key it is, and that a temporary is there
only while its command runs or when its message names it (`FilesOK`). One lemma
per step of a command shows the ledger kept, and `ResultTrue` is read off it. The
ledger of a revert may end in `Misstated`: everything it says is so but what
became of the topic, whether or not the deletion arrives later.

Three more properties are about steps, and each needs to know what a read
of the past is worth now:

- `CleanOK`: an id that a cleanup is about to delete, or has on the wire, is
  superseded: every revision with it has a newer one of its name. Where a PUT
  adds its revision under the id it was read from, a selected id could become the
  newest one again; so there the invariant also says that an id somebody may PUT
  is one no cleanup selects as long as it is there (`Fresh`).
- `WindowOK`: what the last read of an edit or a restore showed still holds when
  it writes, unless its process is in `stale`. A change by somebody else puts
  every process about to write into `stale`, so what is left to show is that a
  command that comes to a write has just looked (`Looks`).
- `SweepOK`: what the sweeps of a DLP restore showed of a name holds for every
  resource it is still to make, also after it has made the others. This is
  where the uniqueness of names and `CopyAssumption` are used.

`NothingTwice` is about two runs. A restore that waits for the others starts when
they have ended (`WaitOK`); with no write in doubt nothing is on the wire, so it
is never stale, and what it knows of the service is so. What the first run made
is still there, since restores only add (`PresentKept`), and a create of the
second one is of something it knows to be absent (`RestoreAdds`).

### Signals (`CommandThreadProofs`)

`NeverMissed` and `LeavesNothing` say something only of the moments at which the
signal thread waits or the process has ended. The invariant follows a signal
through the steps of the signal thread (`SignalOK`, `HeardOK`), the saved
terminal mode from its owner to whoever restores it (`EchoOK`), a child from its
spawning to its end (`ChildOK`) and the claim to forward a signal (`ToldOK`); and
says for every place the command thread can block which later step of the signal
thread ends the wait (`NoticedOK`).

### Only model-checked

- `RunEnds`, `EvalEnds`, `EndsWhenAsked`: liveness under fairness is out of the
  prover's reach.
- `ResumeWorks`, which compares two runs of a restore: it speaks of all that the
  plans of both would list, and of what the first one did beside other commands.
  That the second run makes nothing twice is proved (`MadeOnce`), and so are the
  properties of one run it rests on.
- The disagreements of section 5, which are counterexamples.

## 5. Disagreements met

- `scope_report`: after a write without a readable answer, a signal makes
  `execute` (`src/lib.rs:163-176`) replace "may have been created" by "nothing
  was changed": the context is only set by a write that was answered. The design
  (`docs/DESIGN.md:13356`) has "nothing was changed" before the write is sent.
- `restore_resume`: an interrupted restore advises to run it again with
  `--on-conflict verify` (`src/commands/profile_restore.rs:460`). After one with
  `update` or `skip` the profiles not yet updated, or to be left alone, differ
  from the backup, and `verify` refuses the whole run
  (`src/runtime/transfer/plan.rs:1309`).

Met while modelling, in no run of their own:

- A tenant `delete` writes the index, then removes the file
  (`src/commands/tenant_write.rs:659`); a reader that read the index before and
  the file after reports a broken tenant, which `docs/DESIGN.md:1000-1003`
  excludes. It is harmless: the tenant is gone. (`ReadFile` ends as
  "unreadable".)
- A signal can end the process with echo off: the signal thread takes the saved
  mode just before `echo_off` saves it, or restores it just before `echo_off`
  turns echo off (`src/input.rs:175-182`). The comment at `src/input.rs:208-209`
  and `docs/DESIGN.md:1145-1148` have the terminal restored for a signal at any
  point. `LeavesNothing` excepts exactly this (`echo = "late"`).
- Prompts and `read_piped_stdin` (`src/input.rs:76-80`) enter their phase after the
  last look for a signal, unlike `src/dlp/body.rs:168-174`. A signal in between
  only cancels the session, and the command waits for input or for a second
  signal; `docs/DESIGN.md:328-330` has it stop before its next step.
  `EndsWhenAsked` excepts these reads.
- `begin` keeps the phase "waiting" until it returns and looks for no signal once
  it has the lock (`src/commands/tenant_write.rs:211-217`). A signal just then
  makes the signal thread print "no configuration was changed" and end the
  process up to 200 ms later, in which the transaction may commit.
- Two signals between the spawning of a child and `attach_child`
  (`src/modelsec/uv.rs:509-515`): the second one finds no child and ends the
  process, and the child runs on; `docs/DESIGN.md:10671` has "none outlives the
  CLI except after a `SIGKILL`". `LeavesNothing` excepts it (`group.late`).
- `resume-poll` claims an absent or re-pointed output before the checkpoint that
  records it (`src/commands/bulk_scan.rs:579`). Dying in between, it leaves a file
  of the job that no state knows, which the next `resume-poll` refuses as "not
  the file this job wrote" (`src/bulk/output.rs:107-112`).
- Without a total a full page counts as "more" (`src/walk.rs:214`), so a list that
  ends exactly at `--max` is reported as stopped "while more rows existed"
  (`src/walk.rs:83`, `docs/DESIGN.md:10108`).
- A `set mgmtTsgId` or an import replaces a tenant file, cannot write the index,
  and cannot put the old file back. Its own message says that the change is
  unfinished; a signal in between makes `execute` print "no configuration was
  changed" (`src/lib.rs:162-176`), which `docs/DESIGN.md:1082-1084` has for
  every signal before the commit point. `ReportHonest` excepts exactly this, and
  only for tenants in `cut`; without the exception TLC violates it in nine states.
- `topics revert` adds "the topic was not deleted" to every failure of the DELETE
  but a 409 and an interruption (`src/commands/topic_assign.rs:364-370`), also to
  an unknown outcome and to a 2xx that could not be read, and contradicts the
  line above it. `docs/research/rs-sdk-writes.md:343` asks for "topic not
  deleted" or "outcome unknown", `docs/DESIGN.md:5075-5077` for both lines.
  `ResultTrue` excepts exactly this (`TopicInDoubt`); without the exception TLC
  violates it in a run where a cleanup has removed the older revisions first and
  the service does delete the topic. A signal after such an answer leaves the same
  sentence alone, since the context of the interruption is that of the update.
- A rollback whose DELETE has an unknown outcome reports the scope as "still
  present" (`src/commands/gateway_provision.rs:361-366`); it may be deleted, or
  be deleted later. `ResultTrue` excepts exactly this.
- A signal during an answered rollback leaves the context of step 1: the scope
  "was created" is printed although it was deleted again.
- The second sweep of a DLP restore looks at the names of its plan, not at the
  names of copies (`src/commands/dlp_backup.rs:755-835`). Under `reconcile` a copy
  that a first run has sent and the service makes between the plan and the sweep
  is not seen, and the re-run makes another one, if the service lets it; D177 has
  a re-run verify the copy.
- Under `reconcile` every 409 counts as the name of an archived profile
  (`src/commands/dlp_backup.rs:1103-1109`); when somebody else has just made a
  profile of that name, a copy of it is made beside it. `NoSecondDlp` admits
  both as changes after the last look.
- An interrupted DLP restore advises "run the restore again to resume"
  (`src/commands/dlp_backup.rs:577`); with the default `--on-conflict error` that
  run is refused once a profile has been made. The hint of a failed create names
  the option (`dlp_backup.rs:705`).
- The removals of a failed setup are best effort. `remove_if`
  (`src/bulk/output.rs:274-280`) and `remove_if_ours`
  (`src/bulk/checkpoint.rs:332-342`) look and then remove by name, so a file put
  there in between goes; a claim that could not be written removes its file by
  name without a look (`src/bulk/output.rs:265-267`); and all three ignore that
  the removal failed, which leaves a file, or a state of a job that never ran.
  `OthersFilesSurvive` names these windows, `orphan` what is left. Of the state
  file only the failed removal is modelled: nobody else is assumed to write in
  the directory of the states.

## 6. Not modelled, and the plan

Not modelled in the parts above: a power loss on the tenant store (an unsynced
write is a warning there, and there is no recovery to check), the reading of a
TypeScript registry by `tenant import`, the sequence number and time stamps of
a job state, the content of prompts and reports, and what section 2 lists for
the management commands. `PROJECT.json` names every part that is left out with
its reason.

Most of the lines of the repository are the command grammar, views of answers
for terminal, table and JSON, data types of the services, and the test harness.
They keep no state between two steps and decide nothing a property here is
about, so the share of lines the map covers stays small: the modules follow the
protocols, not the volume of the code.

Order of work, most important first; done up to 10:

1. `BulkJob`, `BulkPromise` and their runs; `BulkJobProofs`.
2. `BulkOutput`, `BulkLock`: what `BulkJob` relies on.
3. `TenantStore` as an implementation of `TenantRegistry`.
4. `PageWalk`, then the DLP and inventory walks beside it (`ListWalks`).
5. `TopicEval`.
6. `RemoteWrite`, `RemoteCommands`, `ScopeProvisioning`.
7. `RuntimeService` and the commands on profiles and topics, `RuntimeAdmin`.
8. `DlpRestore` and `DlpEdits`, on `RuntimeService` like `ProfileRestore`.
9. `KeySaving`, on `RuntimeService` too.
10. `SignalState` and `CommandThread`, with the scan wait and the children.
11. Updates and deletion of customer applications; the downloads and the
    exclusive rename of a model-security installation.

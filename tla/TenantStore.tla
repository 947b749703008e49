---------------------------- MODULE TenantStore ----------------------------
(***************************************************************************)
(* The tenant store: config.toml and the tenant files, the write commands  *)
(* that run transactions on them under one lock (store/atomic.rs,          *)
(* store/lock.rs, commands/tenant_write.rs, commands/tenant_import.rs) and *)
(* the readers, which take no lock.                                        *)
(*                                                                         *)
(* A write command checks the store, takes the lock, reads and checks      *)
(* again, writes the tenant files, then config.toml (its commit point; a   *)
(* command that leaves the index alone commits with its one tenant file),  *)
(* and undoes what it wrote when a write fails.  One file is replaced at a *)
(* time, each of them atomically.  The lock is the one of BulkLock without *)
(* a removal of its file; a write whose directory cannot be synced counts  *)
(* as saved.                                                               *)
(***************************************************************************)
EXTENDS TenantCommands

CONSTANTS
    Procs,       \* processes
    Stores,      \* the stores earlier commands left
    MaxStarts,   \* bound of the model: commands started
    MaxFaults    \* bound of the model: failed writes, signals and crashes

Indexes == [pin : [Names -> Tsgs \cup {None}], active : Names \cup {None}]

ASSUME BoundsAssumption ==
    /\ MaxStarts \in Nat /\ MaxFaults \in Nat
    /\ None \notin Procs \cup Indexes \cup [pin : Tsgs, config : Configs]

Files == [Names -> Configs \cup {None}]

Registered(ix) == {n \in Names : ix.pin[n] # None}

\* At most MAX_TENANTS tenants, no two of them alike, the selected one among
\* them.
Sound(ix) ==
    /\ \A n \in Registered(ix) : Alike(n) \cap Registered(ix) = {}
    /\ Cardinality(Registered(ix)) <= MaxTenants
    /\ ix.active # None => ix.active \in Registered(ix)

\* A command starts on a store whose tenants have their files, which match
\* their pins.
ASSUME StoresAssumption ==
    \A s \in Stores :
        /\ s.index \in Indexes /\ s.file \in Files /\ Sound(s.index)
        /\ \A n \in Registered(s.index) :
             s.file[n] # None /\ s.file[n].tsg = s.index.pin[n]

VARIABLES
    index,   \* config.toml: the pin of each registered tenant, the selection
    file,    \* the tenant files
    holder,  \* who holds config.lock
    proc,    \* the processes
    last,    \* the command that passed its commit point last
    cut,     \* tenants a two-file change left half written
    starts, faults

vars == <<index, file, holder, proc, last, cut, starts, faults>>
store == <<index, file, last, cut>>
bounds == <<starts, faults>>

PCs == {"idle", "wait", "locked", "write", "commit", "unlink", "undo", "release", "read", "ended"}
Reports == {"none", "saved", "leftover", "unchanged", "unfinished", "ok", "mismatch", "unreadable"}

\* todo: tenant files still to write; next: the index to write, if any;
\* journal: the tenant files written, and what they held; seen: the pin a
\* reader read; before: the store when the lock was taken; whole: no undo
\* has failed; report: the outcome the command states (a signal replaces it).
ProcStates ==
    [pc : PCs, cmd : Commands \cup {None}, todo : Files, next : Indexes \cup {None},
     written : SUBSET Names, journal : Files, seen : Tsgs \cup {None},
     before : [index : Indexes, file : Files] \cup {None},
     whole : BOOLEAN, signal : BOOLEAN, report : Reports]

NoFiles == [n \in Names |-> None]

NewProc ==
    [pc |-> "idle", cmd |-> None, todo |-> NoFiles, next |-> None, written |-> {},
     journal |-> NoFiles, seen |-> None, before |-> None, whole |-> TRUE,
     signal |-> FALSE, report |-> "none"]

TypeOK ==
    /\ index \in Indexes
    /\ file \in Files
    /\ holder \in Procs \cup {None}
    /\ proc \in [Procs -> ProcStates]
    /\ last \in Commands \cup {None}
    /\ cut \subseteq Names
    /\ starts \in 0 .. MaxStarts
    /\ faults \in 0 .. MaxFaults

Set(p, r) == proc' = [proc EXCEPT ![p] = r]
Fault == faults < MaxFaults /\ faults' = faults + 1

\* The process ends; a lock it holds is released.
Ended(p, report) ==
    /\ Set(p, [NewProc EXCEPT !.pc = "ended", !.report = report])
    /\ holder' = IF holder = p THEN None ELSE holder

-----------------------------------------------------------------------------
(* The state checks and what the commands write *)

\* load_for_write: the tenant file exists and, when it counts, matches the pin.
Pinned(n) == file[n] # None /\ file[n].tsg = index.pin[n]

\* plan: the rows of an import that are written.  In byte order, a name that
\* differs only in case from a tenant or from an earlier written row is
\* skipped, an existing one too without --replace.
Rows(cmd) ==
    LET eligible == {n \in DOMAIN cmd.source :
                        /\ Alike(n) \cap Registered(index) = {}
                        /\ n \in Registered(index) => cmd.replace}
    IN  {n \in eligible : \A m \in Alike(n) \cap eligible : n < m}

\* The checks of a command under the lock.
Allowed(cmd) ==
    CASE cmd.kind = "create" ->
           /\ cmd.name \notin Registered(index)
           /\ Alike(cmd.name) \cap Registered(index) = {}
           /\ Cardinality(Registered(index)) < MaxTenants
      [] cmd.kind = "import" ->
           \/ Rows(cmd) \subseteq Registered(index)
           \/ Cardinality(Registered(index) \cup Rows(cmd)) <= MaxTenants
      [] cmd.kind \in {"setVal", "unset", "switch"} ->
           cmd.name \in Registered(index) /\ Pinned(cmd.name)
      [] cmd.kind = "setTsg" -> cmd.name \in Registered(index) /\ file[cmd.name] # None
      [] cmd.kind = "delete" -> cmd.name \in Registered(index)

\* What it checks before it waits for the lock.
Precheck(cmd) ==
    CASE cmd.kind \in {"unset", "switch", "delete"} -> cmd.name \in Registered(index)
      [] cmd.kind = "import" -> Allowed(cmd) /\ Rows(cmd) # {}
      [] OTHER -> Allowed(cmd)

\* The tenant files a command writes.
NewFiles(cmd) ==
    CASE cmd.kind = "create" -> [NoFiles EXCEPT ![cmd.name] = cmd.config]
      [] cmd.kind = "setVal" -> [NoFiles EXCEPT ![cmd.name] = [file[cmd.name] EXCEPT !.val = cmd.val]]
      [] cmd.kind = "unset" -> [NoFiles EXCEPT ![cmd.name] = [file[cmd.name] EXCEPT !.val = None]]
      [] cmd.kind = "setTsg" -> [NoFiles EXCEPT ![cmd.name] = [file[cmd.name] EXCEPT !.tsg = cmd.tsg]]
      [] cmd.kind \in {"switch", "delete"} -> NoFiles
      [] cmd.kind = "import" ->
           [n \in Names |-> IF n \in Rows(cmd) THEN cmd.source[n] ELSE None]

\* The index it writes, or None (setVal, unset).
NewIndex(cmd) ==
    CASE cmd.kind = "create" -> [index EXCEPT !.pin[cmd.name] = cmd.config.tsg]
      [] cmd.kind = "setTsg" -> [index EXCEPT !.pin[cmd.name] = cmd.tsg]
      [] cmd.kind = "switch" -> [index EXCEPT !.active = cmd.name]
      [] cmd.kind = "delete" ->
           [index EXCEPT !.pin[cmd.name] = None,
                         !.active = IF @ = cmd.name THEN None ELSE @]
      [] cmd.kind \in {"setVal", "unset"} -> None
      [] cmd.kind = "import" ->
           [pin |-> [n \in Names |-> IF n \in Rows(cmd) THEN cmd.source[n].tsg ELSE index.pin[n]],
            active |-> IF index.active = None /\ cmd.select \in Rows(cmd)
                       THEN cmd.select ELSE index.active]

\* `unset` of a key that is not there, and an import that skips every row,
\* write nothing.
NothingToDo(cmd) ==
    \/ cmd.kind = "unset" /\ file[cmd.name].val = None
    \/ cmd.kind = "import" /\ Rows(cmd) = {}

-----------------------------------------------------------------------------
(* The transaction *)

\* The unlocked checks passed; the command waits for the lock.
Start(p, cmd) ==
    /\ proc[p].pc = "idle" /\ starts < MaxStarts
    /\ Precheck(cmd)
    /\ starts' = starts + 1
    /\ Set(p, [proc[p] EXCEPT !.pc = "wait", !.cmd = cmd])
    /\ UNCHANGED <<store, holder, faults>>

\* Variant of Acquire: the lock is not exclusive.
AcquireShared(p) ==
    /\ proc[p].pc = "wait"
    /\ holder' = p
    /\ Set(p, [proc[p] EXCEPT !.pc = "locked", !.before = [index |-> index, file |-> file]])
    /\ UNCHANGED <<store, bounds>>

Acquire(p) ==
    /\ proc[p].pc = "wait" /\ holder = None
    /\ holder' = p
    /\ Set(p, [proc[p] EXCEPT !.pc = "locked", !.before = [index |-> index, file |-> file]])
    /\ UNCHANGED <<store, bounds>>

\* WAIT_BOUND passed, or a signal ended the wait at once.
GiveUp(p) ==
    /\ proc[p].pc = "wait"
    /\ Ended(p, "unchanged")
    /\ UNCHANGED <<store, bounds>>

\* Variant of Plan: new names are only checked without the lock.
CheckedOnce(p, refuses) ==
    /\ proc[p].pc = "locked"
    /\ LET cmd == proc[p].cmd IN
       IF refuses \/ (cmd.kind # "create" /\ ~Allowed(cmd)) \/ NothingToDo(cmd)
       THEN Set(p, [proc[p] EXCEPT !.pc = "release", !.report = "unchanged"])
       ELSE Set(p, [proc[p] EXCEPT !.pc = IF NewFiles(cmd) = NoFiles THEN "commit" ELSE "write",
                                   !.todo = NewFiles(cmd), !.next = NewIndex(cmd)])
    /\ UNCHANGED <<store, holder, bounds>>

\* Read and check again under the lock, and decide what to write.  `refuses`:
\* a size, safety or read-only check of a file to write fails.
Plan(p, refuses) ==
    /\ proc[p].pc = "locked"
    /\ LET cmd == proc[p].cmd IN
       IF refuses \/ ~Allowed(cmd) \/ NothingToDo(cmd)
       THEN Set(p, [proc[p] EXCEPT !.pc = "release", !.report = "unchanged"])
       ELSE Set(p, [proc[p] EXCEPT !.pc = IF NewFiles(cmd) = NoFiles THEN "commit" ELSE "write",
                                   !.todo = NewFiles(cmd), !.next = NewIndex(cmd)])
    /\ UNCHANGED <<store, holder, bounds>>

ToWrite(p) == {n \in Names : proc[p].todo[n] # None}

\* Variant of Failed: nothing is undone.
FailedOnly(p) ==
    Set(p, [proc[p] EXCEPT !.pc = "release", !.report = "unchanged"])

\* A write failed: what was written is undone; the message of a create does
\* not depend on how that went.
Failed(p) ==
    Set(p, [proc[p] EXCEPT !.pc = IF proc[p].written = {} THEN "release" ELSE "undo",
                           !.report = "unchanged"])

\* Variant of WriteFile: every command goes on to the index.
WriteFileThenIndex(p, n) ==
    /\ proc[p].pc = "write" /\ n \in ToWrite(p)
    /\ file' = [file EXCEPT ![n] = proc[p].todo[n]]
    /\ LET left == ToWrite(p) \ {n}
           r == [proc[p] EXCEPT !.todo[n] = None, !.written = @ \cup {n}, !.journal[n] = file[n]]
       IN  Set(p, IF left # {} THEN r ELSE [r EXCEPT !.pc = "commit"])
    /\ UNCHANGED <<index, holder, last, cut, bounds>>

\* Transaction::write of a tenant file.
WriteFile(p, n) ==
    /\ proc[p].pc = "write" /\ n \in ToWrite(p)
    /\ file' = [file EXCEPT ![n] = proc[p].todo[n]]
    /\ LET left == ToWrite(p) \ {n}
           r == [proc[p] EXCEPT !.todo[n] = None, !.written = @ \cup {n}, !.journal[n] = file[n]]
       IN  IF left # {} THEN Set(p, r) /\ UNCHANGED last
           ELSE IF r.next # None THEN Set(p, [r EXCEPT !.pc = "commit"]) /\ UNCHANGED last
           ELSE Set(p, [r EXCEPT !.pc = "release", !.report = "saved"]) /\ last' = r.cmd
    /\ UNCHANGED <<index, holder, cut, bounds>>

WriteFileFails(p) ==
    /\ proc[p].pc = "write"
    /\ Fault /\ Failed(p)
    /\ UNCHANGED <<store, holder, starts>>

\* The commit point.  A create's journal counts the file as new.
WriteIndex(p) ==
    /\ proc[p].pc = "commit"
    /\ index' = proc[p].next
    /\ last' = proc[p].cmd
    /\ cut' = cut \ proc[p].written
    /\ Set(p, [proc[p] EXCEPT !.pc = IF proc[p].cmd.kind = "delete" THEN "unlink" ELSE "release",
                              !.report = "saved"])
    /\ UNCHANGED <<file, holder, bounds>>

WriteIndexFails(p) ==
    /\ proc[p].pc = "commit"
    /\ Fault /\ Failed(p)
    /\ UNCHANGED <<store, holder, starts>>

\* delete: the tenant file goes last; a failure leaves it behind.
Unlink(p, fails) ==
    /\ proc[p].pc = "unlink"
    /\ IF fails
       THEN Fault /\ Set(p, [proc[p] EXCEPT !.pc = "release", !.report = "leftover"]) /\ UNCHANGED file
       ELSE /\ file' = [file EXCEPT ![proc[p].cmd.name] = None]
            /\ Set(p, [proc[p] EXCEPT !.pc = "release"])
            /\ UNCHANGED faults
    /\ UNCHANGED <<index, last, cut, holder, starts>>

\* Variant of Previous: every written file counts as new.
PreviousForgotten(p, n) == None

\* Transaction::rollback of one file.  create passes no previous content, so
\* an orphan it replaced is removed.
Previous(p, n) == IF proc[p].cmd.kind = "create" THEN None ELSE proc[p].journal[n]

Undo(p, n, fails) ==
    /\ proc[p].pc = "undo" /\ n \in proc[p].written
    /\ LET left == proc[p].written \ {n}
           whole == proc[p].whole /\ ~fails
       IN  Set(p, [proc[p] EXCEPT !.written = left, !.whole = whole,
                      !.pc = IF left = {} THEN "release" ELSE "undo",
                      !.report = IF whole \/ proc[p].cmd.kind = "create"
                                 THEN "unchanged" ELSE "unfinished"])
    /\ IF fails
       THEN Fault /\ cut' = cut \cup {n} /\ UNCHANGED file
       ELSE file' = [file EXCEPT ![n] = Previous(p, n)] /\ UNCHANGED <<cut, faults>>
    /\ UNCHANGED <<index, last, holder, starts>>

\* Variant of Printed: the commit point does not count.
PrintedUnsaved(p) == IF proc[p].signal THEN "unchanged" ELSE proc[p].report

\* lib.rs execute: what the user is told.  After a signal that is only whether
\* the commit point was passed, not what failed on the way.
Printed(p) ==
    IF ~proc[p].signal THEN proc[p].report
    ELSE IF proc[p].report \in {"saved", "leftover"} THEN "saved"
    ELSE "unchanged"

\* commit or the drop of the transaction: the lock is released, the command
\* says what it did.
Release(p) ==
    /\ proc[p].pc = "release"
    /\ Ended(p, Printed(p))
    /\ UNCHANGED <<store, bounds>>

-----------------------------------------------------------------------------
(* Readers, signals and crashes *)

\* An API command or `tenant read`: the index, then the tenant file.
ReadIndex(p, n) ==
    /\ proc[p].pc = "idle" /\ starts < MaxStarts
    /\ n \in Registered(index)
    /\ starts' = starts + 1
    /\ Set(p, [proc[p] EXCEPT !.pc = "read", !.cmd = [kind |-> "switch", name |-> n],
                              !.seen = index.pin[n]])
    /\ UNCHANGED <<store, holder, faults>>

ReadFile(p) ==
    /\ proc[p].pc = "read"
    /\ LET config == file[proc[p].cmd.name]
       IN  Ended(p, IF config = None THEN "unreadable"
                    ELSE IF config.tsg # proc[p].seen THEN "mismatch" ELSE "ok")
    /\ UNCHANGED <<store, bounds>>

\* The first signal while the transaction runs: it goes on to its end.
Signal(p) ==
    /\ proc[p].pc \in {"locked", "write", "commit", "unlink", "undo", "release"}
    /\ ~proc[p].signal
    /\ Fault
    /\ Set(p, [proc[p] EXCEPT !.signal = TRUE])
    /\ UNCHANGED <<store, holder, starts>>

\* A second signal, SIGKILL, or a power loss with every directory synced.
Crash(p) ==
    /\ proc[p].pc \notin {"idle", "read", "ended"}
    /\ Fault
    /\ Ended(p, "none")
    /\ cut' = IF proc[p].pc \in {"write", "commit", "undo"} THEN cut \cup proc[p].written ELSE cut
    /\ UNCHANGED <<index, file, last, starts>>

-----------------------------------------------------------------------------
Init ==
    /\ \E s \in Stores : index = s.index /\ file = s.file
    /\ holder = None
    /\ proc = [p \in Procs |-> NewProc]
    /\ last = None
    /\ cut = {}
    /\ starts = 0
    /\ faults = 0

Transaction(p) ==
    \/ Acquire(p) \/ GiveUp(p)
    \/ \E refuses \in BOOLEAN : Plan(p, refuses)
    \/ \E n \in Names : WriteFile(p, n)
    \/ WriteFileFails(p)
    \/ WriteIndex(p) \/ WriteIndexFails(p)
    \/ \E fails \in BOOLEAN : Unlink(p, fails)
    \/ \E n \in Names, fails \in BOOLEAN : Undo(p, n, fails)
    \/ Release(p)

Reader(p) == ReadFile(p) \/ \E n \in Names : ReadIndex(p, n)

Next ==
    \E p \in Procs :
        \/ \E cmd \in Commands : Start(p, cmd)
        \/ Transaction(p)
        \/ Reader(p)
        \/ Signal(p)
        \/ Crash(p)

Spec == Init /\ [][Next]_vars

-----------------------------------------------------------------------------
(* Properties *)

\* However many commands create and import at once: no two tenants differ
\* only in case, their number is bounded, and the selected one is registered.
\* Every registered tenant has its file, and outside a transaction the file
\* matches the pin, except a tenant that a two-file change left half written
\* (which `set mgmtTsgId` repairs): no crash, failed write or failed undo of
\* a delete, a create or a one-file change breaks a tenant.
TenantsUsable ==
    /\ Sound(index)
    /\ \A n \in Registered(index) :
        /\ file[n] # None
        /\ holder = None /\ n \notin cut => file[n].tsg = index.pin[n]

\* What a command is to make of the store b it found under the lock: which
\* fields of the index and of the files it changes, and no others.  An import
\* writes the rows W; it skips a row only for a tenant it may not replace or a
\* name that differs in case alone.
Makes(cmd, b, ix, fs) ==
    LET n == cmd.name IN
    CASE cmd.kind = "create" ->
           /\ ix = [b.index EXCEPT !.pin[n] = cmd.config.tsg]
           /\ fs = [b.file EXCEPT ![n] = cmd.config]
      [] cmd.kind = "setVal" -> ix = b.index /\ fs = [b.file EXCEPT ![n].val = cmd.val]
      [] cmd.kind = "unset" -> ix = b.index /\ fs = [b.file EXCEPT ![n].val = None]
      [] cmd.kind = "setTsg" ->
           /\ ix = [b.index EXCEPT !.pin[n] = cmd.tsg]
           /\ fs = [b.file EXCEPT ![n].tsg = cmd.tsg]
      [] cmd.kind = "switch" -> ix = [b.index EXCEPT !.active = n] /\ fs = b.file
      [] cmd.kind = "delete" ->
           /\ ix = [b.index EXCEPT !.pin[n] = None, !.active = IF @ = n THEN None ELSE @]
           /\ fs = [b.file EXCEPT ![n] = None]
      [] cmd.kind = "import" ->
           \E W \in SUBSET DOMAIN cmd.source :
               /\ \A m \in DOMAIN cmd.source \ W :
                    \/ m \in Registered(b.index) /\ ~cmd.replace
                    \/ Alike(m) \cap (W \cup Registered(b.index)) # {}
               /\ cmd.replace \/ W \cap Registered(b.index) = {}
               /\ ix.pin = [m \in Names |-> IF m \in W THEN cmd.source[m].tsg ELSE b.index.pin[m]]
               /\ ix.active = IF b.index.active = None /\ cmd.select \in W
                              THEN cmd.select ELSE b.index.active
               /\ fs = [m \in Names |-> IF m \in W THEN cmd.source[m] ELSE b.file[m]]

\* A deleted tenant whose file is still there.
LeftBehind(r) ==
    /\ r.cmd.kind = "delete" /\ file = r.before.file
    /\ Makes(r.cmd, r.before, index, [file EXCEPT ![r.cmd.name] = None])

\* The tenants whose file is not the one that was found.
Changed(b) == {n \in Registered(b.index) : file[n] # b.file[n]}

\* p ends and tells the user `said`.
Tells(p, said) ==
    /\ proc[p].pc = "release"
    /\ proc'[p].pc = "ended" /\ proc'[p].report = said

\* What a command tells the user of the store is true when it is told, a
\* signal or not.  "saved": the index and every file are what the command
\* was to make of the store it found, except that after a signal the file of
\* a deleted tenant may have been left behind unmentioned.  "leftover": so it
\* was.  "unchanged": the index and the files of its tenants are those it
\* found, except that after a signal a failed undo is not mentioned either.
\* "unfinished": the index is, and only files of half-written tenants differ.
ReportHonest ==
    [][\A p \in Procs, said \in Reports :
         Tells(p, said) =>
           LET r == proc[p]
               b == r.before
           IN  /\ said = "saved" => Makes(r.cmd, b, index, file) \/ (r.signal /\ LeftBehind(r))
               /\ said = "leftover" => LeftBehind(r)
               /\ said = "unchanged" =>
                    /\ index = b.index
                    /\ Changed(b) = {} \/ (r.signal /\ ~r.whole /\ Changed(b) \subseteq cut)
               /\ said = "unfinished" =>
                    index = b.index /\ ~r.whole /\ Changed(b) \subseteq cut]_vars

\* The store as the registry's users see it: the files an open transaction
\* has written do not count before its commit point.
Writing(n) ==
    {p \in Procs : proc[p].pc \in {"write", "commit", "undo"} /\ n \in proc[p].written}
Committed(n) ==
    IF Writing(n) = {} THEN file[n] ELSE proc[CHOOSE p \in Writing(n) : TRUE].journal[n]

Visible ==
    [n \in Names |-> IF index.pin[n] = None THEN None
                     ELSE [pin |-> index.pin[n], config |-> Committed(n)]]

Registry == INSTANCE TenantRegistry WITH reg <- Visible, active <- index.active

\* Every write command takes effect at one instant or not at all: no update
\* is lost and no check is out of date when the change is made, however
\* transactions, failures, signals and crashes interleave.
ActsAtOnce == Registry!Spec

=============================================================================

------------------------------ MODULE BulkLock ------------------------------
(***************************************************************************)
(* The job lock (bulk/lock.rs) and the identity check of a checkpoint      *)
(* (bulk/checkpoint.rs) between several resume-poll processes of one job,  *)
(* when somebody may remove the lock file while it is held.                *)
(*                                                                         *)
(* The kernel locks an inode, the program a name: `named` is the inode at  *)
(* <job>.lock, `flock` who holds the lock of each inode.  The job is one   *)
(* chunk of prompts, its state file an identity and a status.  Inode       *)
(* numbers are reused as soon as nothing links or opens them.              *)
(***************************************************************************)
EXTENDS Naturals, FiniteSets

CONSTANTS
    Procs,        \* resume-poll processes
    LockIds,      \* inodes of lock files (bound of the model)
    FileIds,      \* inodes of state files (bound of the model)
    None,
    Attempts,     \* ATTEMPTS: how often a replaced lock file is reopened (3)
    MaxRemovals   \* bound of the model: removals of the lock file

ASSUME LockAssumption ==
    /\ Attempts \in Nat \ {0} /\ MaxRemovals \in Nat
    /\ None \notin Procs \cup LockIds \cup FileIds

VARIABLES
    named,     \* the inode at <job>.lock
    flock,     \* the process that holds the lock of each inode
    file,      \* the state file: identity and status
    accepted,  \* how often the service accepted the chunk
    removals,
    underLock, \* the lock file was removed while a process worked under it
    inWindow,  \* ... between that process's check of it and its C1 rename
    proc       \* the processes

lockVars == <<named, flock, file, accepted, removals, underLock, inWindow, proc>>

Statuses == {"pending", "submitting", "submitted", "ambiguous"}
LockPCs == {"idle", "opened", "flocked", "locked", "loaded", "save", "rename", "post", "release", "ended"}

\* fd: the lock inode opened; tries: opens so far; ident: the state file it
\* last loaded or renamed; status: the chunk in memory; temp: the temporary
\* written; then: where a saved checkpoint leads.
ProcStates == [pc : LockPCs, fd : LockIds \cup {None}, tries : 0 .. Attempts,
               ident : FileIds \cup {None}, status : Statuses,
               temp : FileIds \cup {None}, then : LockPCs]

NewProc == [pc |-> "idle", fd |-> None, tries |-> 0, ident |-> None,
            status |-> "pending", temp |-> None, then |-> "idle"]

LockTypeOK ==
    /\ named \in LockIds \cup {None}
    /\ flock \in [LockIds -> Procs \cup {None}]
    /\ file \in [id : FileIds, status : Statuses]
    /\ accepted \in Nat
    /\ removals \in 0 .. MaxRemovals
    /\ underLock \in BOOLEAN
    /\ inWindow \in BOOLEAN
    /\ proc \in [Procs -> ProcStates]

Set(p, r) == proc' = [proc EXCEPT ![p] = r]

\* Closing the descriptor releases its lock.
Unlocked(p) == [l \in LockIds |-> IF flock[l] = p THEN None ELSE flock[l]]
End(p) ==
    /\ flock' = Unlocked(p)
    /\ Set(p, [NewProc EXCEPT !.pc = "ended"])

removal == <<removals, underLock, inWindow>>
world == <<file, accepted, removal>>

-----------------------------------------------------------------------------
(* JobLock::acquire *)

\* open_existing: the named file, created when it is missing.
OpenFds == {proc[q].fd : q \in Procs}
Open(p) ==
    /\ proc[p].pc = "idle"
    /\ \E l \in IF named # None THEN {named} ELSE LockIds \ OpenFds :
         /\ named' = l
         /\ Set(p, [proc[p] EXCEPT !.pc = "opened", !.fd = l, !.tries = @ + 1])
    /\ UNCHANGED <<flock, world>>

\* flock(LOCK_EX | LOCK_NB): a held lock is refused at once.
Flock(p) ==
    /\ proc[p].pc = "opened"
    /\ IF flock[proc[p].fd] = None
       THEN /\ flock' = [flock EXCEPT ![proc[p].fd] = p]
            /\ Set(p, [proc[p] EXCEPT !.pc = "flocked"])
       ELSE End(p)
    /\ UNCHANGED <<named, world>>

\* Variant of StillNamed: the locked file is not compared with the named one.
TakenAsNamed(p) ==
    /\ proc[p].pc = "flocked"
    /\ Set(p, [proc[p] EXCEPT !.pc = "locked"])
    /\ UNCHANGED <<named, flock, world>>

\* The lock taken must be on the file other processes would open; one that
\* was replaced in between is dropped and the name opened again.
StillNamed(p) ==
    /\ proc[p].pc = "flocked"
    /\ IF proc[p].fd = named
       THEN Set(p, [proc[p] EXCEPT !.pc = "locked"]) /\ UNCHANGED flock
       ELSE IF proc[p].tries < Attempts
       THEN /\ flock' = Unlocked(p)
            /\ Set(p, [proc[p] EXCEPT !.pc = "idle", !.fd = None])
       ELSE End(p)
    /\ UNCHANGED <<named, world>>

-----------------------------------------------------------------------------
(* resume under the lock *)

\* Start a checkpoint of `status`.
Save(p, status, then) ==
    Set(p, [proc[p] EXCEPT !.pc = "save", !.status = status, !.then = then])

\* load and settle_submitting; a job in doubt or done sends nothing.
Load(p) ==
    /\ proc[p].pc = "locked"
    /\ LET r == [proc[p] EXCEPT !.ident = file.id, !.status = file.status] IN
       CASE file.status = "pending" -> Set(p, [r EXCEPT !.pc = "loaded"])
         [] file.status = "submitting" ->
              Set(p, [r EXCEPT !.pc = "save", !.status = "ambiguous", !.then = "release"])
         [] OTHER -> Set(p, [r EXCEPT !.pc = "release"])
    /\ UNCHANGED <<named, flock, world>>

\* Variant of VerifyLock: a removed lock file is not noticed.
Unverified(p) ==
    /\ proc[p].pc = "loaded"
    /\ Save(p, "submitting", "post")
    /\ UNCHANGED <<named, flock, world>>

\* verify_lock, before C1.
VerifyLock(p) ==
    /\ proc[p].pc = "loaded"
    /\ IF proc[p].fd = named
       THEN Save(p, "submitting", "post") /\ UNCHANGED flock
       ELSE End(p)
    /\ UNCHANGED <<named, world>>

\* checkpoint: the temporary is written, then the file in place must be the
\* one this process last wrote or loaded.
CheckIdentity(p) ==
    /\ proc[p].pc = "save"
    /\ IF file.id = proc[p].ident
       THEN /\ \E id \in FileIds \ ({file.id} \cup {proc[q].temp : q \in Procs}) :
                 Set(p, [proc[p] EXCEPT !.pc = "rename", !.temp = id])
            /\ UNCHANGED flock
       ELSE End(p)
    /\ UNCHANGED <<named, world>>

\* The rename, a second call.
Rename(p) ==
    /\ proc[p].pc = "rename"
    /\ file' = [id |-> proc[p].temp, status |-> proc[p].status]
    /\ Set(p, [proc[p] EXCEPT !.pc = proc[p].then, !.ident = proc[p].temp, !.temp = None])
    /\ UNCHANGED <<named, flock, accepted, removal>>

\* The request and its C3: accepted, refused (tried again, a new C1), or
\* without an answer, accepted or not.
Post(p) ==
    /\ proc[p].pc = "post"
    /\ \/ accepted' = accepted + 1 /\ Save(p, "submitted", "release")
       \/ accepted' = accepted + 1 /\ Save(p, "ambiguous", "release")
       \/ accepted' = accepted /\ Save(p, "ambiguous", "release")
       \/ accepted' = accepted /\ Save(p, "pending", "loaded")
    /\ UNCHANGED <<named, flock, file, removal>>

\* JobLock::release: the descriptor is closed, the lock file stays.
Release(p) ==
    /\ proc[p].pc = "release"
    /\ End(p)
    /\ UNCHANGED <<named, world>>

\* The kernel releases the lock of a process that dies.
ProcessCrash(p) ==
    /\ proc[p].pc \notin {"idle", "ended"}
    /\ End(p)
    /\ UNCHANGED <<named, world>>

\* Between taking the lock and releasing it.
Inside(p) == proc[p].pc \in LockPCs \ {"idle", "opened", "flocked", "ended"}

\* Somebody cleans up the state directory.
InC1 == {q \in Procs : proc[q].pc \in {"save", "rename"} /\ proc[q].then = "post"}
RemoveLock ==
    /\ named # None /\ removals < MaxRemovals
    /\ named' = None
    /\ removals' = removals + 1
    /\ underLock' = (underLock \/ \E q \in Procs : Inside(q))
    /\ inWindow' = (inWindow \/ InC1 # {})
    /\ UNCHANGED <<flock, file, accepted, proc>>

-----------------------------------------------------------------------------
LockInit ==
    /\ named \in LockIds \cup {None}
    /\ flock = [l \in LockIds |-> None]
    /\ file \in [id : FileIds, status : {"pending"}]
    /\ accepted = 0
    /\ removals = 0
    /\ underLock = FALSE
    /\ inWindow = FALSE
    /\ proc = [p \in Procs |-> NewProc]

Step(p) ==
    \/ Open(p) \/ Flock(p) \/ StillNamed(p)
    \/ Load(p) \/ VerifyLock(p)
    \/ CheckIdentity(p) \/ Rename(p)
    \/ Post(p) \/ Release(p)

LockNext ==
    \/ \E p \in Procs : Step(p)
    \/ \E p \in Procs : ProcessCrash(p)
    \/ RemoveLock

LockSpec == LockInit /\ [][LockNext]_lockVars

-----------------------------------------------------------------------------
(* Properties *)

\* The job is worked on by one process, also when the lock file is removed and
\* made again between one process's open and its flock; only a removal under
\* a working process can let a second one in.
OneProcess ==
    ~underLock => \A p, q \in Procs : Inside(p) /\ Inside(q) => p = q

\* Even when the lock file is removed, no chunk is sent twice, except when
\* that happens between a holder's check of its lock and its C1 rename (the
\* window the design admits).
SentTwiceOnlyInWindow == accepted > 1 => inWindow

=============================================================================

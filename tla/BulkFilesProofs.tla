-------------------------- MODULE BulkFilesProofs --------------------------
(***************************************************************************)
(* Proofs about the two files beside the state of a bulk job: its output   *)
(* CSV (BulkOutput) and its lock (BulkLock).  The two specifications share *)
(* nothing; the names of the second start with Lock.                       *)
(***************************************************************************)
EXTENDS BulkOutput, BulkLock, TLAPS

(***************************************************************************)
(* Proofs about BulkOutput, for any paths, file identities, results and    *)
(* runs: the CSV is never ahead of the state (CsvNeverAhead), a resume     *)
(* recognises the job's own file (OwnFileRecognised), other files survive, *)
(* rows are not lost and the exit tells the truth.                         *)
(*                                                                         *)
(* What the argument rests on is what a recorded identity stands for       *)
(* (Vouched): a file with an identity that some state records, the durable *)
(* one, one a power loss may bring back or the one in memory, was written  *)
(* by the job with at most the results of that state, wherever it is now.  *)
(* A file is created with an identity nothing records, so a step can only  *)
(* break this by recording an identity, and the program records one        *)
(* together with the results it wrote.                                     *)
(***************************************************************************)

Live == {"prepared", "commit", "rename"}

\* The files there are, those included that a power loss may bring back.
Held == {f \in Files : f \in temps \/ \E p \in Paths : f = fs[p] \/ f \in lost[p]}

\* The job states there are.
Known == ({disk, mem} \cup stale) \ {NoRec}

\* What a state records about a file is true of it.
VouchedBy(r, f) == f.id \in {r.cur, r.next} => f.mine /\ f.rows <= r.results

Vouched == \A r \in Known : \A f \in Held : VouchedBy(r, f)

\* A file of somebody else has nothing behind it that a power loss restores.
OthersSynced == \A p \in Paths : lost[p] # {} => fs[p] = NoFile \/ fs[p].mine

\* Before the first run there is no state, and no file of the job.
Untouched ==
    starts = 0 =>
        /\ pc = "idle" /\ disk = NoRec /\ stale = {}
        /\ \A p \in Paths : lost[p] = {} /\ (fs[p] # NoFile => ~fs[p].mine)

\* The record in memory and the file in hand, at each point of a run.
Idle == pc = "idle" <=> mem = NoRec
Undoing == {"undo", "unlink", "unclaim"}
\* The only file of the job, if any, is the one in hand at its path.
OnlyMade ==
    \A p \in Paths : fs[p] # NoFile /\ fs[p].mine => p = mem.path /\ fs[p].id = made.id
InHand ==
    /\ pc \in {"idle", "ready"} => made = NoFile
    /\ pc = "claimed" =>
        made # NoFile /\ made.id = mem.cur /\ disk = NoRec /\ stale = {} /\ OnlyMade
    /\ pc \in Undoing =>
        /\ made # NoFile /\ made.id = mem.cur
        /\ starts = 1 => OnlyMade /\ (~orphan => disk = NoRec)
    /\ pc \in Live =>
        /\ made \in temps /\ made.id = mem.next
        /\ made.mine /\ made.rows = mem.results
    /\ pc \in {"commit", "rename"} => disk = mem /\ stale = {}
    /\ pc \in {"claimed", "ready", "resolved"} => mem.next = NoId
    /\ pc = "resolved" =>
        /\ disk # NoRec /\ starts # 1
        /\ made # NoFile => made.id = mem.cur
        /\ made = NoFile /\ disk.next = NoId => mem = disk
\* What is at the path when it is replaced is what the check saw, or was
\* put there since.
Checked ==
    pc = "rename" /\ fs[mem.path] # NoFile /\ fs[mem.path].mine
        => fs[mem.path] = seen
SeenOK ==
    seen # NoFile =>
        /\ pc \in {"rename", "unlink", "unclaim"}
        /\ VouchedBy(mem, seen) /\ seen.id \in {mem.cur, mem.next}

\* The file at a recorded path is the job's.
AtPathOK(r) == fs[r.path] = NoFile \/ fs[r.path].id \in {r.cur, r.next}

\* As long as nobody else changed a path and no process died between a claim
\* and its checkpoint, that holds of every state a resume may load, but of
\* one whose path is being claimed.
Recognised ==
    ~touched /\ ~orphan =>
        /\ pc # "idle" => fs[mem.path] = NoFile \/ fs[mem.path].id = mem.cur
        /\ \A r \in Known : (Unrecorded /\ r.path = mem.path) \/ AtPathOK(r)

Rest ==
    /\ Vouched /\ OthersSynced /\ Untouched
    /\ Idle /\ InHand /\ Checked /\ SeenOK /\ Recognised

IInv == TypeOK /\ Rest

-----------------------------------------------------------------------------
(* Types *)

\* The running process has a job state.
LEMMA Running ==
    ASSUME TypeOK, Idle, pc # "idle"
    PROVE  /\ mem \in Recs /\ mem.path \in Paths /\ mem.cur \in Ids
           /\ mem.next \in Ids \cup {NoId} /\ mem.results \in 0 .. MaxResults
           /\ mem.results \in Nat
  BY PathsAssumption DEF TypeOK, Idle, Recs

\* A checkpoint keeps the types of the durable states.
LEMMA CheckpointType ==
    ASSUME TypeOK, NEW rec \in Recs, NEW save \in Saves, Checkpoint(rec, save)
    PROVE  disk' \in Recs \cup {NoRec} /\ stale' \subseteq Recs \cup {NoRec}
  BY DEF TypeOK, Checkpoint, Saves

\* A change of a directory entry keeps the types of the paths.
LEMMA PlaceType ==
    ASSUME TypeOK, NEW p \in Paths, NEW f \in Files \cup {NoFile}, NEW synced,
           Place(p, f, synced)
    PROVE  /\ fs' \in [Paths -> Files \cup {NoFile}]
           /\ lost' \in [Paths -> SUBSET (Files \cup {NoFile})]
  BY DEF TypeOK, Place

\* The end of a run is well-typed.
LEMMA LeaveType ==
    ASSUME NEW how \in {"none", "done", "stopped", "unset"}, Leave(how)
    PROVE  /\ mem' \in Recs \cup {NoRec} /\ pc' \in PCs
           /\ exit' \in {"none", "done", "stopped", "unset"}
           /\ made' \in Files \cup {NoFile} /\ seen' \in Files \cup {NoFile}
  BY DEF Leave, PCs

\* So is the end of a failed claim or setup.
LEMMA GiveUpType ==
    ASSUME GiveUp
    PROVE  /\ mem' \in Recs \cup {NoRec} /\ pc' \in PCs
           /\ exit' \in {"none", "done", "stopped", "unset"}
           /\ made' \in Files \cup {NoFile} /\ seen' \in Files \cup {NoFile}
  BY DEF GiveUp, Leave, PCs

\* A file the job creates has a type and an identity nothing has.
LEMMA FreshFile ==
    ASSUME TypeOK, NEW n \in 0 .. MaxResults, NEW f \in Fresh(n)
    PROVE  /\ f \in Files /\ f.id \in Ids /\ f.rows = n /\ f.mine
           /\ f.id \notin InUse
  BY DEF Fresh, Files

\* The file of a claim that could not be written, and its record.
LEMMA UnwrittenFile ==
    ASSUME TypeOK, NEW p \in Paths, NEW results \in 0 .. MaxResults, ClaimUnwritten(p, results)
    PROVE  \E f \in Files :
             /\ f.id \in Ids /\ f.rows <= results /\ f.mine /\ f.id \notin InUse /\ f # NoFile
             /\ Place(p, f, FALSE) /\ made' = f /\ seen' = f
             /\ mem' \in Recs /\ mem' # NoRec
             /\ mem' = [path |-> p, cur |-> f.id, next |-> NoId, results |-> results]
<1> USE PathsAssumption
<1>0. PICK n \in 0 .. results : \E f \in Fresh(n) :
        /\ Place(p, f, FALSE) /\ made' = f /\ seen' = f
        /\ mem' = [path |-> p, cur |-> f.id, next |-> NoId, results |-> results]
  BY DEF ClaimUnwritten
<1>1. PICK f \in Fresh(n) :
        /\ Place(p, f, FALSE) /\ made' = f /\ seen' = f
        /\ mem' = [path |-> p, cur |-> f.id, next |-> NoId, results |-> results]
  BY <1>0
<1>2. n \in 0 .. MaxResults /\ n <= results
  OBVIOUS
<1>3. f \in Files /\ f.id \in Ids /\ f.rows = n /\ f.mine /\ f.id \notin InUse /\ f # NoFile
  BY <1>1, <1>2, FreshFile
<1>4. mem' \in Recs /\ mem' # NoRec
  BY <1>1, <1>3 DEF Recs
<1> QED BY <1>1, <1>2, <1>3, <1>4

\* An identity that is not in use is that of no file and in no record.
LEMMA NotInUse ==
    ASSUME TypeOK, NEW id \in Ids, id \notin InUse
    PROVE  /\ \A g \in Held : g.id # id
           /\ \A r \in Known : r.cur # id /\ r.next # id
<1>1. ASSUME NEW g \in Held PROVE g.id # id
  <2>1. g \in Files /\ g # NoFile
    BY PathsAssumption DEF Held
  <2>2. g \in {fs[p] : p \in Paths} \cup temps \cup UNION {lost[p] : p \in Paths}
    BY DEF Held
  <2> QED BY <2>1, <2>2 DEF InUse
<1>2. ASSUME NEW r \in Known PROVE r.cur # id /\ r.next # id
  <2>1. IdsOf(r) = {r.cur, r.next}
    BY DEF Known, IdsOf
  <2>2. IdsOf(r) \subseteq InUse
    BY DEF Known, InUse
  <2> QED BY <2>1, <2>2
<1> QED BY <1>1, <1>2

\* Each step keeps the type invariant.
LEMMA TypeStep ==
    ASSUME TypeOK, Idle, InHand, [Next]_vars
    PROVE  TypeOK'
<1> USE PathsAssumption
<1>1. ASSUME NEW synced \in BOOLEAN, Claim(synced) PROVE TypeOK'
  <2>1. 0 \in 0 .. MaxResults /\ 1 \in 0 .. MaxStarts
    BY <1>1 DEF Claim, TypeOK
  <2>2. PICK f \in Fresh(0) :
          /\ Place(FirstPath, f, synced) /\ made' = f
          /\ mem' = [path |-> FirstPath, cur |-> f.id, next |-> NoId, results |-> 0]
    BY <1>1 DEF Claim
  <2>3. f \in Files /\ f.id \in Ids
    BY <2>1, FreshFile
  <2>4. mem' \in Recs
    BY <2>1, <2>2, <2>3 DEF Recs
  <2>5. fs' \in [Paths -> Files \cup {NoFile}] /\ lost' \in [Paths -> SUBSET (Files \cup {NoFile})]
    BY <2>2, <2>3, PlaceType
  <2> QED BY <1>1, <2>1, <2>2, <2>3, <2>4, <2>5 DEF Claim, TypeOK, PCs
<1>2. ASSUME NEW save \in Saves, NEW kept \in BOOLEAN, FirstCheckpoint(save, kept) PROVE TypeOK'
  <2>1. mem \in Recs
    BY <1>2, Running DEF FirstCheckpoint
  <2>2. disk' \in Recs \cup {NoRec} /\ stale' \subseteq Recs \cup {NoRec}
    <3>1. CASE save = "saved"
      BY <1>2, <2>1, <3>1, CheckpointType DEF FirstCheckpoint
    <3>2. CASE save # "saved"
      BY <1>2, <2>1, <3>2 DEF FirstCheckpoint, TypeOK
    <3> QED BY <3>1, <3>2
  <2>3. made' \in Files \cup {NoFile} /\ pc' \in PCs /\ orphan' \in BOOLEAN
    BY <1>2 DEF FirstCheckpoint, TypeOK, PCs
  <2>4. UNCHANGED <<fs, lost, temps, mem, exit, seen, touched, starts>>
    BY <1>2 DEF FirstCheckpoint
  <2> QED BY <2>2, <2>3, <2>4 DEF TypeOK
<1>3. ASSUME NEW more \in 0 .. 1, Prepare(more) PROVE TypeOK'
  <2>1. mem \in Recs /\ mem.results + more \in 0 .. MaxResults
    BY <1>3, Running DEF Prepare
  <2>2. PICK f \in Fresh(mem.results + more) :
          /\ temps' = temps \cup {f} /\ made' = f
          /\ mem' = [mem EXCEPT !.results = @ + more, !.next = f.id]
    BY <1>3 DEF Prepare
  <2>3. f \in Files /\ f.id \in Ids
    BY <2>1, FreshFile
  <2>4. mem' \in Recs
    BY <2>1, <2>2, <2>3 DEF Recs
  <2> QED BY <1>3, <2>2, <2>3, <2>4 DEF Prepare, TypeOK, PCs
<1>4. ASSUME NEW more \in 0 .. 1, NEW save \in Saves, PrepareFails(more, save) PROVE TypeOK'
  <2>1. mem \in Recs /\ mem.results + more \in 0 .. MaxResults
    BY <1>4, Running DEF PrepareFails
  <2>2. [mem EXCEPT !.results = @ + more, !.next = NoId] \in Recs
    BY <2>1 DEF Recs
  <2>3. disk' \in Recs \cup {NoRec} /\ stale' \subseteq Recs \cup {NoRec}
    BY <1>4, <2>2, CheckpointType DEF PrepareFails
  <2>4. Leave("stopped") /\ UNCHANGED <<fs, lost, temps, touched, orphan, starts>>
    BY <1>4 DEF PrepareFails
  <2> QED BY <2>3, <2>4, LeaveType DEF TypeOK
<1>5. ASSUME NEW save \in Saves, SaveNext(save) PROVE TypeOK'
  <2>1. mem \in Recs
    BY <1>5, Running DEF SaveNext
  <2>2. disk' \in Recs \cup {NoRec} /\ stale' \subseteq Recs \cup {NoRec}
    BY <1>5, <2>1, CheckpointType DEF SaveNext
  <2>3. CASE save = "saved"
    BY <1>5, <2>2, <2>3 DEF SaveNext, TypeOK, PCs
  <2>4. CASE save # "saved"
    <3>1. Leave("stopped") /\ temps' = temps \ {made} /\ UNCHANGED <<fs, lost, touched, orphan, starts>>
      BY <1>5, <2>4 DEF SaveNext
    <3> QED BY <2>2, <3>1, LeaveType DEF TypeOK
  <2> QED BY <2>3, <2>4
<1>6. ASSUME CommitCheck PROVE TypeOK'
  <2>1. mem.path \in Paths
    BY <1>6, Running DEF CommitCheck
  <2>2. CASE AtPath(mem) = "foreign"
    BY <1>6, <2>2 DEF CommitCheck, Leave, TypeOK, PCs
  <2>3. CASE AtPath(mem) # "foreign"
    BY <1>6, <2>1, <2>3 DEF CommitCheck, TypeOK, PCs
  <2> QED BY <2>2, <2>3
<1>7. ASSUME NEW synced \in BOOLEAN, NEW last \in BOOLEAN, CommitRename(synced, last) PROVE TypeOK'
  <2>1. mem \in Recs /\ mem.path \in Paths /\ made \in temps /\ made \in Files /\ made.id \in Ids
    BY <1>7, Running DEF CommitRename, InHand, Live, TypeOK, Files
  <2>2. fs' \in [Paths -> Files \cup {NoFile}] /\ lost' \in [Paths -> SUBSET (Files \cup {NoFile})]
    BY <1>7, <2>1, PlaceType DEF CommitRename
  <2>3. CASE last /\ mem.results = MaxResults
    BY <1>7, <2>2, <2>3 DEF CommitRename, Leave, TypeOK, PCs
  <2>4. CASE ~(last /\ mem.results = MaxResults)
    <3>1. mem' = [mem EXCEPT !.cur = made.id, !.next = NoId]
      BY <1>7, <2>4 DEF CommitRename
    <3>2. mem' \in Recs
      BY <2>1, <3>1 DEF Recs
    <3> QED BY <1>7, <2>2, <2>4, <3>2 DEF CommitRename, TypeOK, PCs
  <2> QED BY <2>3, <2>4
<1>8. CASE RenameFails
  BY <1>8 DEF RenameFails, Leave, TypeOK, PCs
<1>9. CASE Stop
  BY <1>9 DEF Stop, Leave, TypeOK, PCs
<1>10. ASSUME NEW p \in Paths, ResumeRefused(p) PROVE TypeOK'
  BY <1>10 DEF ResumeRefused, CanResume, Leave, TypeOK, PCs
<1>11. ASSUME NEW p \in Paths, NEW synced \in BOOLEAN, Resolve(p, synced) PROVE TypeOK'
  <2>1. disk \in Recs /\ disk.results \in 0 .. MaxResults /\ starts' \in 0 .. MaxStarts
    BY <1>11 DEF Resolve, CanResume, TypeOK, Recs
  <2>2. CASE p = disk.path /\ AtPath(disk) # "absent"
    <3>1. mem' = [disk EXCEPT !.cur = IF AtPath(disk) = "next" THEN disk.next ELSE @, !.next = NoId]
      BY <1>11, <2>2 DEF Resolve
    <3>2. AtPath(disk) = "next" => disk.next \in Ids
      BY <2>1 DEF AtPath, TypeOK, Recs, Files
    <3>3. mem' \in Recs
      BY <2>1, <3>1, <3>2 DEF Recs
    <3> QED BY <1>11, <2>1, <2>2, <3>3 DEF Resolve, TypeOK, PCs
  <2>3. CASE ~(p = disk.path /\ AtPath(disk) # "absent")
    <3>1. PICK f \in Fresh(disk.results) :
            /\ Place(p, f, synced) /\ made' = f
            /\ mem' = [path |-> p, cur |-> f.id, next |-> NoId, results |-> disk.results]
      BY <1>11, <2>3 DEF Resolve
    <3>2. f \in Files /\ f.id \in Ids
      BY <2>1, FreshFile
    <3>3. mem' \in Recs
      BY <2>1, <3>1, <3>2 DEF Recs
    <3>4. fs' \in [Paths -> Files \cup {NoFile}] /\ lost' \in [Paths -> SUBSET (Files \cup {NoFile})]
      BY <3>1, <3>2, PlaceType
    <3> QED BY <1>11, <2>1, <3>1, <3>2, <3>3, <3>4 DEF Resolve, TypeOK, PCs
  <2> QED BY <2>2, <2>3
<1>12. ASSUME NEW p \in Paths, ResolveFails(p) PROVE TypeOK'
  BY <1>12 DEF ResolveFails, CanResume, Leave, TypeOK, PCs
<1>13. ASSUME NEW settled \in BOOLEAN, NEW save \in Saves, ResumeCheckpoint(settled, save) PROVE TypeOK'
  <2>1. mem \in Recs
    BY <1>13, Running DEF ResumeCheckpoint
  <2>2. UNCHANGED <<fs, lost, temps, touched, orphan, starts>>
    BY <1>13 DEF ResumeCheckpoint
  <2>3. Checkpoint(mem, save) \/ UNCHANGED <<disk, stale>>
    BY <1>13 DEF ResumeCheckpoint
  <2>4. disk' \in Recs \cup {NoRec} /\ stale' \subseteq Recs \cup {NoRec}
    BY <2>1, <2>3, CheckpointType DEF TypeOK
  <2>5. \/ pc' = "ready" /\ made' = NoFile /\ UNCHANGED <<mem, exit, seen>>
        \/ Leave("stopped")
        \/ pc' = "undo" /\ UNCHANGED <<mem, exit, made, seen>>
    BY <1>13 DEF ResumeCheckpoint
  <2> QED BY <2>2, <2>4, <2>5, LeaveType DEF TypeOK, PCs
<1>14. ASSUME NEW p \in Paths, Intrude(p) PROVE TypeOK'
  <2>1. PICK id \in Ids \ InUse : fs' = [fs EXCEPT ![p] = [id |-> id, rows |-> 0, mine |-> FALSE]]
    BY <1>14 DEF Intrude
  <2>2. [id |-> id, rows |-> 0, mine |-> FALSE] \in Files
    BY DEF Files
  <2> QED BY <1>14, <2>1, <2>2 DEF Intrude, TypeOK
<1>15. ASSUME NEW p \in Paths, Remove(p) PROVE TypeOK'
  BY <1>15 DEF Remove, TypeOK
<1>16. CASE Crash
  BY <1>16 DEF Crash, Unrecorded, Leave, TypeOK, PCs
<1>17. CASE PowerLoss
  <2>1. disk' \in Recs \cup {NoRec} /\ stale' \subseteq Recs \cup {NoRec}
    BY <1>17 DEF PowerLoss, TypeOK
  <2>2. fs' \in [Paths -> Files \cup {NoFile}] /\ lost' \in [Paths -> SUBSET (Files \cup {NoFile})]
    BY <1>17 DEF PowerLoss
  <2> QED BY <1>17, <2>1, <2>2 DEF PowerLoss, Unrecorded, Leave, TypeOK, PCs
<1>18. CASE UNCHANGED vars
  BY <1>18 DEF vars, TypeOK
<1>19. ASSUME NEW p \in Paths, NEW results \in 0 .. MaxResults, ClaimUnwritten(p, results),
              temps' \subseteq temps, starts < MaxStarts
       PROVE  TypeOK'
  <2>1. PICK f \in Files :
          /\ Place(p, f, FALSE) /\ made' = f /\ seen' = f /\ mem' \in Recs
    BY <1>19, UnwrittenFile
  <2>2. fs' \in [Paths -> Files \cup {NoFile}] /\ lost' \in [Paths -> SUBSET (Files \cup {NoFile})]
    BY <2>1, PlaceType
  <2> QED BY <1>19, <2>1, <2>2 DEF ClaimUnwritten, TypeOK, PCs
<1>20. CASE ClaimFails
  <2>1. 0 \in 0 .. MaxResults
    OBVIOUS
  <2> QED BY <1>19, <1>20, <2>1 DEF ClaimFails
<1>21. ASSUME NEW p \in Paths, ResolveUnwritten(p) PROVE TypeOK'
  <2>1. disk.results \in 0 .. MaxResults
    BY <1>21 DEF ResolveUnwritten, CanResume, TypeOK, Recs
  <2> QED BY <1>19, <1>21, <2>1 DEF ResolveUnwritten, CanResume
<1>22. CASE CheckUndo
  <2>1. UNCHANGED <<fs, lost, temps, disk, stale, touched, orphan, starts>>
    BY <1>22 DEF CheckUndo
  <2>2. mem.path \in Paths
    BY <1>22, Running DEF CheckUndo
  <2>3. \/ pc' = "unlink" /\ seen' = fs[mem.path] /\ UNCHANGED <<mem, exit, made>>
        \/ GiveUp
    BY <1>22 DEF CheckUndo
  <2> QED BY <2>1, <2>2, <2>3, GiveUpType DEF TypeOK, PCs
<1>23. ASSUME NEW fails \in BOOLEAN, RemoveByName(fails) PROVE TypeOK'
  <2>1. mem.path \in Paths
    BY <1>23, Running DEF RemoveByName
  <2>2. /\ fs' \in [Paths -> Files \cup {NoFile}]
        /\ lost' \in [Paths -> SUBSET (Files \cup {NoFile})]
        /\ orphan' \in BOOLEAN
    <3>1. CASE fails
      BY <1>23, <3>1 DEF RemoveByName, TypeOK
    <3>2. CASE ~fails
      BY <1>23, <2>1, <3>2, PlaceType DEF RemoveByName, TypeOK
    <3> QED BY <3>1, <3>2
  <2>3. GiveUp /\ UNCHANGED <<temps, disk, stale, touched, starts>>
    BY <1>23 DEF RemoveByName
  <2> QED BY <2>2, <2>3, GiveUpType DEF TypeOK
<1> QED
  BY <1>1, <1>2, <1>3, <1>4, <1>5, <1>6, <1>7, <1>8, <1>9, <1>10, <1>11, <1>12,
     <1>13, <1>14, <1>15, <1>16, <1>17, <1>18, <1>20, <1>21, <1>22, <1>23 DEF Next

-----------------------------------------------------------------------------
(* The pieces of a step *)

\* A change of a directory entry adds at most the file put there.
LEMMA HeldPlace ==
    ASSUME TypeOK, NEW p \in Paths, NEW f \in Files \cup {NoFile}, NEW synced,
           Place(p, f, synced), temps' \subseteq temps
    PROVE  Held' \subseteq Held \cup {f}
<1> SUFFICES ASSUME NEW g \in Held', g # f PROVE g \in Held
  OBVIOUS
<1>1. g \in Files /\ (g \in temps' \/ \E q \in Paths : g = fs'[q] \/ g \in lost'[q])
  BY DEF Held
<1>2. CASE g \in temps'
  BY <1>1, <1>2 DEF Held
<1>3. ASSUME NEW q \in Paths, g = fs'[q] \/ g \in lost'[q] PROVE g \in Held
  <2>1. g = fs[q] \/ g \in lost[q]
    BY <1>3 DEF Place, TypeOK
  <2> QED BY <1>1, <2>1 DEF Held
<1> QED BY <1>1, <1>2, <1>3

\* A removal adds no file.
LEMMA HeldUnlink ==
    ASSUME TypeOK, NEW p \in Paths, Place(p, NoFile, FALSE), temps' \subseteq temps
    PROVE  Held' \subseteq Held
<1>1. Held' \subseteq Held \cup {NoFile}
  BY HeldPlace
<1>2. NoFile \notin Held'
  BY PathsAssumption DEF Held
<1> QED BY <1>1, <1>2

\* Nothing is added when no path changes.
LEMMA HeldSame ==
    ASSUME UNCHANGED <<fs, lost>>, temps' \subseteq temps
    PROVE  Held' \subseteq Held
  BY DEF Held

\* The record of the running process is a known one.
LEMMA MemKnown ==
    ASSUME TypeOK, Idle, pc # "idle"
    PROVE  mem \in Known
  BY DEF Idle, Known

\* What is known after a step is vouched for, when it was before or stands
\* for it.
LEMMA VouchedStep ==
    ASSUME Vouched, Held' \subseteq Held,
           \A r \in Known' : r \in Known \/ \A f \in Held : VouchedBy(r, f)
    PROVE  Vouched'
  BY DEF Vouched

\* The end of a run needs no more than what the paths and the durable states
\* are left as.
LEMMA LeaveStep ==
    ASSUME NEW how, Leave(how), starts' # 0,
           Vouched', OthersSynced', Recognised'
    PROVE  Rest'
<1>1. pc' = "idle" /\ mem' = NoRec /\ made' = NoFile /\ seen' = NoFile
  BY DEF Leave
<1>2. Idle' /\ Checked' /\ SeenOK' /\ Untouched'
  BY <1>1 DEF Idle, Checked, SeenOK, Untouched
<1>3. InHand'
  BY <1>1 DEF InHand, Live, Undoing
<1> QED BY <1>2, <1>3 DEF Rest

\* A run that ends without a change of a path or of the durable state.
LEMMA QuietEnd ==
    ASSUME IInv, NEW how, Leave(how), starts' # 0, temps' \subseteq temps,
           UNCHANGED <<fs, lost, disk, stale, touched>>,
           Unrecorded => orphan', orphan => orphan', orphan' \in BOOLEAN
    PROVE  Rest'
<1>1. pc' = "idle" /\ mem' = NoRec
  BY DEF Leave
<1>2. Held' \subseteq Held /\ Known' \subseteq Known
  BY <1>1, HeldSame DEF Known
<1>3. Vouched'
  BY <1>2, VouchedStep DEF IInv, Rest
<1>4. OthersSynced'
  BY DEF IInv, Rest, OthersSynced
<1>5. Recognised'
  BY <1>1, <1>2 DEF IInv, Rest, Recognised, AtPathOK
<1> QED BY <1>3, <1>4, <1>5, LeaveStep

-----------------------------------------------------------------------------
(* The steps of a run *)

\* Claiming the path of a new job.
LEMMA ClaimStep ==
    ASSUME IInv, TypeOK', NEW synced \in BOOLEAN, Claim(synced)
    PROVE  Rest'
<1> USE PathsAssumption
<1>1. PICK f \in Fresh(0) :
        /\ Place(FirstPath, f, synced) /\ made' = f
        /\ mem' = [path |-> FirstPath, cur |-> f.id, next |-> NoId, results |-> 0]
  BY DEF Claim
<1>2. f \in Files /\ f.id \in Ids /\ f.rows = 0 /\ f.mine /\ f.id \notin InUse /\ f # NoFile
  BY <1>1, FreshFile DEF IInv
<1>3. /\ starts = 0 /\ disk = NoRec /\ stale = {} /\ seen = NoFile
      /\ \A p \in Paths : fs[p] # NoFile => ~fs[p].mine
  BY DEF Claim, IInv, Rest, Untouched, SeenOK
<1>4. /\ pc' = "claimed" /\ starts' = 1
      /\ UNCHANGED <<temps, disk, stale, seen, touched, orphan>>
  BY DEF Claim
<1>5. fs'[FirstPath] = f /\ \A p \in Paths : p # FirstPath => fs'[p] = fs[p] /\ lost'[p] = lost[p]
  BY <1>1 DEF Place, IInv, TypeOK
<1>mem. mem' # NoRec
  <2>1. 0 \in 0 .. MaxResults
    OBVIOUS
  <2>2. mem' \in Recs
    BY <1>1, <1>2, <2>1 DEF Recs
  <2> QED BY <2>2
<1>6. Vouched'
  <2>1. Held' \subseteq Held \cup {f}
    BY <1>1, <1>2, <1>4, HeldPlace DEF IInv
  <2>2. Known' = {mem'}
    BY <1>3, <1>4, <1>mem DEF Known
  <2>3. \A g \in Held : g.id # f.id /\ g.id # NoId
    BY <1>2, NotInUse DEF IInv, Held, Files
  <2> QED BY <1>1, <1>2, <2>1, <2>2, <2>3 DEF Vouched, VouchedBy
<1>7. OthersSynced'
  BY <1>2, <1>5 DEF IInv, Rest, OthersSynced
<1>8. Idle' /\ Untouched' /\ Checked' /\ SeenOK'
  BY <1>3, <1>4, <1>mem DEF Idle, Untouched, Checked, SeenOK
<1>9. InHand'
  BY <1>1, <1>2, <1>3, <1>4, <1>5 DEF InHand, Live, Undoing, OnlyMade
<1>10. Recognised'
  BY <1>1, <1>3, <1>4, <1>5 DEF Recognised, Known, AtPathOK
<1> QED BY <1>6, <1>7, <1>8, <1>9, <1>10 DEF Rest

\* The first checkpoint.
LEMMA FirstCheckpointStep ==
    ASSUME IInv, TypeOK', NEW save \in Saves, NEW kept \in BOOLEAN, FirstCheckpoint(save, kept)
    PROVE  Rest'
<1>1. /\ mem \in Recs /\ mem.path \in Paths /\ mem.cur \in Ids
      /\ disk = NoRec /\ stale = {} /\ starts # 0 /\ seen = NoFile
      /\ made # NoFile /\ made.id = mem.cur /\ mem.next = NoId /\ OnlyMade
      /\ pc = "claimed" /\ mem # NoRec
  BY Running, PathsAssumption DEF FirstCheckpoint, IInv, Rest, InHand, Untouched, SeenOK
<1>2. UNCHANGED <<fs, lost, temps, mem, exit, seen, touched, starts>> /\ orphan' = (orphan \/ kept)
  BY DEF FirstCheckpoint
<1>3. mem \in Known
  BY <1>1 DEF Known
<1>4. OthersSynced' /\ Held' \subseteq Held
  BY <1>2, HeldSame DEF IInv, Rest, OthersSynced
<1>5. /\ disk' \in {mem, NoRec} /\ stale' \subseteq {mem, NoRec}
      /\ pc' \in {"ready", "undo"}
  BY <1>1 DEF FirstCheckpoint, Checkpoint
<1>6. Known' = {mem}
  BY <1>1, <1>2, <1>5 DEF Known
<1>7. Vouched'
  BY <1>3, <1>4, <1>6, VouchedStep DEF IInv, Rest
<1>8. Untouched' /\ Idle' /\ Checked' /\ SeenOK'
  BY <1>1, <1>2, <1>5 DEF Untouched, Idle, Checked, SeenOK
<1>9. CASE save = "saved"
  <2>1. disk' = mem /\ stale' = {} /\ pc' = "ready" /\ made' = NoFile
    BY <1>9 DEF FirstCheckpoint, Checkpoint
  <2>2. Recognised'
    BY <1>1, <1>2, <1>6, <2>1 DEF IInv, Rest, Recognised, AtPathOK
  <2>3. InHand'
    BY <1>1, <1>2, <2>1 DEF InHand, Live, Undoing
  <2> QED BY <1>4, <1>7, <1>8, <2>2, <2>3 DEF Rest
<1>10. CASE save # "saved"
  <2>1. disk' = (IF kept THEN mem ELSE NoRec) /\ pc' = "undo" /\ made' = made
    BY <1>10 DEF FirstCheckpoint
  <2>2. Recognised'
    BY <1>1, <1>2, <1>6, <2>1 DEF IInv, Rest, Recognised, Unrecorded, AtPathOK
  <2>3. InHand'
    <3>1. OnlyMade'
      BY <1>1, <1>2, <2>1 DEF OnlyMade
    <3>2. ~orphan' => disk' = NoRec
      BY <1>2, <2>1
    <3> QED BY <1>1, <1>2, <2>1, <3>1, <3>2 DEF InHand, Live, Undoing
  <2> QED BY <1>4, <1>7, <1>8, <2>2, <2>3 DEF Rest
<1> QED BY <1>9, <1>10

\* A file that is created and cannot be written.
LEMMA UnwrittenStep ==
    ASSUME IInv, TypeOK', NEW p \in Paths, NEW results \in 0 .. MaxResults,
           ClaimUnwritten(p, results), temps' \subseteq temps, fs[p] = NoFile, pc = "idle",
           starts # 0 => starts + 1 # 1,
           starts + 1 # 0
    PROVE  Rest'
<1> USE PathsAssumption
<1>1. PICK f \in Files :
        /\ f.id \in Ids /\ f.rows <= results /\ f.mine /\ f.id \notin InUse /\ f # NoFile
        /\ Place(p, f, FALSE) /\ made' = f /\ seen' = f /\ mem' # NoRec
        /\ mem' = [path |-> p, cur |-> f.id, next |-> NoId, results |-> results]
  BY UnwrittenFile DEF IInv
<1>2. /\ pc' = "unclaim" /\ starts' = starts + 1
      /\ UNCHANGED <<disk, stale, touched, orphan>>
  BY DEF ClaimUnwritten
<1>3. fs'[p] = f /\ \A q \in Paths : q # p => fs'[q] = fs[q] /\ lost'[q] = lost[q]
  BY <1>1 DEF Place, IInv, TypeOK
<1>4. Held' \subseteq Held \cup {f}
  BY <1>1, HeldPlace DEF IInv
<1>5. Known' \subseteq Known \cup {mem'}
  BY <1>2 DEF Known
<1>6. VouchedBy(mem', f)
  BY <1>1 DEF VouchedBy
<1>7. Vouched'
  <2>1. \A g \in Held : g.id # f.id /\ g.id # NoId
    BY <1>1, NotInUse DEF IInv, Held, Files
  <2>2. \A r \in Known : r.cur # f.id /\ r.next # f.id
    BY <1>1, NotInUse DEF IInv
  <2>3. \A g \in Held : VouchedBy(mem', g)
    BY <1>1, <2>1 DEF VouchedBy
  <2>4. \A r \in Known : VouchedBy(r, f)
    BY <2>2 DEF VouchedBy
  <2>5. \A r \in Known, g \in Held : VouchedBy(r, g)
    BY DEF IInv, Rest, Vouched
  <2> QED BY <1>4, <1>5, <1>6, <2>3, <2>4, <2>5 DEF Vouched
<1>8. OthersSynced' /\ Idle' /\ Untouched' /\ Checked'
  BY <1>1, <1>2, <1>3 DEF IInv, Rest, OthersSynced, Idle, Untouched, Checked
<1>9. SeenOK'
  BY <1>1, <1>2, <1>6 DEF SeenOK
<1>10. InHand'
  <2>1. starts' = 1 => disk' = NoRec /\ OnlyMade'
    <3> SUFFICES ASSUME starts' = 1 PROVE disk' = NoRec /\ OnlyMade'
      OBVIOUS
    <3>1. starts = 0
      BY <1>2
    <3>2. disk = NoRec /\ \A q \in Paths : fs[q] # NoFile => ~fs[q].mine
      BY <3>1 DEF IInv, Rest, Untouched
    <3> QED BY <1>1, <1>2, <1>3, <3>2 DEF OnlyMade
  <2> QED BY <1>1, <1>2, <2>1 DEF InHand, Live, Undoing
<1>11. Recognised'
  <2>1. Unrecorded' /\ fs'[mem'.path].id = mem'.cur /\ mem'.path = p
    BY <1>1, <1>2, <1>3 DEF Unrecorded
  <2>2. ASSUME NEW r \in Known', ~touched', ~orphan', r.path # p PROVE AtPathOK(r)'
    <3>1. r \in Known
      BY <1>1, <1>5, <2>2
    <3>2. AtPathOK(r) /\ r.path \in Paths
      BY <1>2, <2>2, <3>1 DEF IInv, Rest, Recognised, Unrecorded, TypeOK, Known, Recs
    <3> QED BY <1>3, <2>2, <3>2 DEF AtPathOK
  <2> QED BY <2>1, <2>2 DEF Recognised
<1> QED BY <1>7, <1>8, <1>9, <1>10, <1>11 DEF Rest

\* Of a claim of the first run and of a resume.
LEMMA ClaimFailsStep ==
    ASSUME IInv, TypeOK', ClaimFails \/ \E p \in Paths : ResolveUnwritten(p)
    PROVE  Rest'
<1> USE PathsAssumption
<1>1. CASE ClaimFails
  <2>1. 0 \in 0 .. MaxResults /\ starts = 0 /\ temps' = temps /\ pc = "idle"
        /\ fs[FirstPath] = NoFile /\ ClaimUnwritten(FirstPath, 0)
    BY <1>1 DEF ClaimFails
  <2> QED BY <2>1, UnwrittenStep
<1>2. ASSUME NEW p \in Paths, ResolveUnwritten(p) PROVE Rest'
  <2>1. /\ pc = "idle" /\ temps' \subseteq temps /\ ClaimUnwritten(p, disk.results)
        /\ disk \in Recs /\ disk.results \in 0 .. MaxResults
    BY <1>2 DEF ResolveUnwritten, CanResume, IInv, TypeOK, Recs
  <2>2. starts \in Nat /\ starts # 0
    BY <1>2 DEF ResolveUnwritten, CanResume, IInv, TypeOK
  <2>3. fs[p] = NoFile
    BY <1>2 DEF ResolveUnwritten, Refuses, AtPath
  <2> QED BY <2>1, <2>2, <2>3, UnwrittenStep
<1> QED BY <1>1, <1>2

\* The identity check of the undo.
LEMMA CheckUndoStep ==
    ASSUME IInv, TypeOK', CheckUndo
    PROVE  Rest'
<1>1. /\ mem \in Recs /\ mem.path \in Paths /\ pc = "undo" /\ mem # NoRec /\ mem \in Known
      /\ starts # 0 /\ made # NoFile /\ made.id = mem.cur
      /\ starts = 1 => OnlyMade /\ (~orphan => disk = NoRec)
  BY Running, MemKnown, PathsAssumption DEF CheckUndo, IInv, Rest, Untouched, InHand, Undoing
<1>2. UNCHANGED <<fs, lost, temps, disk, stale, touched, orphan, starts>>
  BY DEF CheckUndo
<1>3. OthersSynced' /\ Held' \subseteq Held
  BY <1>2, HeldSame DEF IInv, Rest, OthersSynced
<1>4. CASE fs[mem.path] # NoFile /\ fs[mem.path].id = made.id
  <2>1. pc' = "unlink" /\ seen' = fs[mem.path] /\ UNCHANGED <<mem, exit, made>>
    BY <1>4 DEF CheckUndo
  <2>2. Known' = Known
    BY <1>2, <2>1 DEF Known
  <2>3. Vouched'
    BY <1>3, <2>2, VouchedStep DEF IInv, Rest
  <2>4. Recognised'
    BY <1>1, <1>2, <2>1, <2>2 DEF IInv, Rest, Recognised, Unrecorded, AtPathOK
  <2>5. Untouched' /\ Idle' /\ Checked'
    BY <1>1, <1>2, <2>1 DEF Untouched, Idle, Checked
  <2>6. InHand'
    <3>1. starts' = 1 => OnlyMade' /\ (~orphan' => disk' = NoRec)
      BY <1>1, <1>2, <2>1 DEF OnlyMade
    <3> QED BY <1>1, <1>2, <2>1, <3>1 DEF InHand, Live, Undoing
  <2>7. SeenOK'
    <3>1. fs[mem.path] \in Held
      BY <1>1, <1>4 DEF Held, IInv, TypeOK
    <3>2. VouchedBy(mem, fs[mem.path])
      BY <1>1, <3>1 DEF IInv, Rest, Vouched
    <3> QED BY <1>1, <1>4, <2>1, <3>2 DEF SeenOK
  <2> QED BY <1>3, <2>3, <2>4, <2>5, <2>6, <2>7 DEF Rest
<1>5. CASE ~(fs[mem.path] # NoFile /\ fs[mem.path].id = made.id)
  <2>1. PICK how : Leave(how)
    BY <1>5 DEF CheckUndo, GiveUp
  <2>2. mem' = NoRec /\ pc' = "idle"
    BY <2>1 DEF Leave
  <2>3. Known' \subseteq Known
    BY <1>2, <2>2 DEF Known
  <2>4. Vouched'
    BY <1>3, <2>3, VouchedStep DEF IInv, Rest
  <2>5. Recognised'
    <3>1. ASSUME NEW r \in Known', ~touched', ~orphan' PROVE AtPathOK(r)'
      <4>1. fs[mem.path] = NoFile
        BY <1>1, <1>2, <1>5, <3>1 DEF IInv, Rest, Recognised
      <4>2. (Unrecorded /\ r.path = mem.path) \/ AtPathOK(r)
        BY <1>2, <2>3, <3>1 DEF IInv, Rest, Recognised
      <4> QED BY <1>2, <4>1, <4>2 DEF AtPathOK
    <3> QED BY <2>2, <3>1 DEF Recognised
  <2> QED BY <1>1, <1>2, <1>3, <2>1, <2>4, <2>5, LeaveStep
<1> QED BY <1>4, <1>5

\* The removal of a claimed file.
LEMMA RemoveByNameStep ==
    ASSUME IInv, TypeOK', NEW fails \in BOOLEAN, RemoveByName(fails)
    PROVE  Rest'
<1>1. /\ mem \in Recs /\ mem.path \in Paths /\ pc \in {"unlink", "unclaim"}
      /\ starts # 0 /\ starts' # 0
  BY Running DEF RemoveByName, IInv, Rest, Untouched
<1>2. UNCHANGED <<temps, disk, stale, touched, starts>>
  BY DEF RemoveByName
<1>3. PICK how : Leave(how)
  BY DEF RemoveByName, GiveUp
<1>4. mem' = NoRec /\ pc' = "idle"
  BY <1>3 DEF Leave
<1>5. Known' \subseteq Known
  BY <1>2, <1>4 DEF Known
<1>6. CASE fails
  <2>1. orphan' = TRUE /\ UNCHANGED <<fs, lost>>
    BY <1>6 DEF RemoveByName
  <2>2. Vouched'
    BY <1>2, <1>5, <2>1, HeldSame, VouchedStep DEF IInv, Rest
  <2>3. OthersSynced' /\ Recognised'
    BY <2>1 DEF IInv, Rest, OthersSynced, Recognised
  <2> QED BY <1>1, <1>3, <2>2, <2>3, LeaveStep
<1>7. CASE ~fails
  <2>1. Place(mem.path, NoFile, FALSE) /\ orphan' = orphan
    BY <1>7 DEF RemoveByName
  <2>2. /\ fs'[mem.path] = NoFile
        /\ \A q \in Paths : q # mem.path => fs'[q] = fs[q] /\ lost'[q] = lost[q]
    BY <1>1, <2>1 DEF Place, IInv, TypeOK
  <2>3. Held' \subseteq Held
    BY <1>1, <1>2, <2>1, HeldUnlink DEF IInv
  <2>4. Vouched'
    BY <1>5, <2>3, VouchedStep DEF IInv, Rest
  <2>5. OthersSynced'
    BY <2>2 DEF IInv, Rest, OthersSynced
  <2>6. Recognised'
    <3>1. ASSUME NEW r \in Known', ~touched', ~orphan' PROVE AtPathOK(r)'
      <4>1. (Unrecorded /\ r.path = mem.path) \/ AtPathOK(r)
        BY <1>2, <1>5, <2>1, <3>1 DEF IInv, Rest, Recognised
      <4>2. r.path \in Paths
        BY <1>5, <3>1 DEF Known, IInv, TypeOK, Recs
      <4> QED BY <2>2, <4>1, <4>2 DEF AtPathOK
    <3> QED BY <1>4, <3>1 DEF Recognised
  <2> QED BY <1>1, <1>3, <2>4, <2>5, <2>6, LeaveStep
<1> QED BY <1>6, <1>7

\* Preparing a rewrite.
LEMMA PrepareStep ==
    ASSUME IInv, TypeOK', NEW more \in 0 .. 1, Prepare(more)
    PROVE  Rest'
<1> USE PathsAssumption
<1>1. /\ mem \in Recs /\ mem.path \in Paths /\ mem.cur \in Ids
      /\ mem.results \in 0 .. MaxResults /\ mem.results + more \in 0 .. MaxResults
      /\ pc = "ready" /\ mem # NoRec /\ mem \in Known /\ starts # 0
      /\ mem.next = NoId /\ made = NoFile /\ seen = NoFile
  BY Running, MemKnown DEF Prepare, IInv, Rest, InHand, Untouched, SeenOK
<1>2. PICK f \in Fresh(mem.results + more) :
        /\ temps' = temps \cup {f} /\ made' = f
        /\ mem' = [mem EXCEPT !.results = @ + more, !.next = f.id]
  BY DEF Prepare
<1>3. /\ f \in Files /\ f.id \in Ids /\ f.rows = mem.results + more /\ f.mine
      /\ f.id \notin InUse /\ f # NoFile
  BY <1>1, FreshFile DEF IInv
<1>4. /\ mem'.path = mem.path /\ mem'.cur = mem.cur /\ mem'.next = f.id
      /\ mem'.results = mem.results + more /\ mem' # NoRec
  <2>1. mem' \in Recs
    BY <1>1, <1>2, <1>3 DEF Recs
  <2> QED BY <1>1, <1>2, <2>1 DEF Recs
<1>5. pc' = "prepared" /\ UNCHANGED <<fs, lost, disk, stale, exit, seen, touched, orphan, starts>>
  BY DEF Prepare
<1>6. Known' \subseteq Known \cup {mem'} /\ Held' \subseteq Held \cup {f}
  BY <1>2, <1>5 DEF Known, Held
<1>7. Vouched'
  <2>1. \A g \in Held : g.id # f.id /\ g.rows \in Nat
    BY <1>3, NotInUse DEF IInv, Held, Files
  <2>2. \A r \in Known : r.cur # f.id /\ r.next # f.id
    BY <1>3, NotInUse DEF IInv
  <2>3. \A g \in Held : VouchedBy(mem, g)
    BY <1>1 DEF IInv, Rest, Vouched
  <2>4. \A g \in Held : VouchedBy(mem', g)
    BY <1>1, <1>4, <2>1, <2>3 DEF VouchedBy
  <2>5. VouchedBy(mem', f)
    BY <1>1, <1>3, <1>4 DEF VouchedBy
  <2>6. \A r \in Known : VouchedBy(r, f)
    BY <2>2 DEF VouchedBy
  <2>7. \A r \in Known, g \in Held : VouchedBy(r, g)
    BY DEF IInv, Rest, Vouched
  <2> QED BY <1>6, <2>4, <2>5, <2>6, <2>7 DEF Vouched
<1>8. Recognised'
  <2>1. ~Unrecorded
    BY <1>1 DEF Unrecorded
  <2> QED BY <1>1, <1>4, <1>5, <1>6, <2>1 DEF IInv, Rest, Recognised, AtPathOK
<1>9. OthersSynced' /\ Untouched' /\ Idle' /\ Checked' /\ SeenOK'
  BY <1>1, <1>4, <1>5 DEF IInv, Rest, OthersSynced, Untouched, Idle, Checked, SeenOK
<1>10. InHand'
  BY <1>2, <1>3, <1>4, <1>5 DEF InHand, Live, Undoing
<1> QED BY <1>7, <1>8, <1>9, <1>10 DEF Rest

\* A rewrite that cannot be prepared.
LEMMA PrepareFailsStep ==
    ASSUME IInv, TypeOK', NEW more \in 0 .. 1, NEW save \in Saves, PrepareFails(more, save)
    PROVE  Rest'
<1> USE PathsAssumption
<1> DEFINE rec == [mem EXCEPT !.results = @ + more, !.next = NoId]
<1>1. /\ mem \in Recs /\ mem.path \in Paths /\ mem.cur \in Ids /\ mem.results \in 0 .. MaxResults
      /\ pc = "ready" /\ mem # NoRec /\ mem \in Known /\ starts # 0
  BY Running, MemKnown DEF PrepareFails, IInv, Rest, Untouched
<1>2. rec.path = mem.path /\ rec.cur = mem.cur /\ rec.next = NoId /\ rec.results = mem.results + more
  BY <1>1 DEF Recs
<1>3. /\ Checkpoint(rec, save) /\ Leave("stopped")
      /\ UNCHANGED <<fs, lost, temps, touched, orphan, starts>>
  BY DEF PrepareFails
<1> HIDE DEF rec
<1>4. mem' = NoRec /\ pc' = "idle"
  BY <1>3 DEF Leave
<1>5. Known' \subseteq Known \cup {rec} /\ Held' \subseteq Held
  BY <1>3, <1>4, HeldSame DEF Known, Checkpoint, Saves
<1>6. \A g \in Held : VouchedBy(rec, g)
  <2>1. \A g \in Held : VouchedBy(mem, g) /\ g.rows \in Nat /\ g.id # NoId
    BY <1>1 DEF IInv, Rest, Vouched, Held, Files
  <2> QED BY <1>1, <1>2, <2>1 DEF VouchedBy
<1>7. Vouched'
  BY <1>5, <1>6, VouchedStep DEF IInv, Rest
<1>8. OthersSynced'
  BY <1>3 DEF IInv, Rest, OthersSynced
<1>9. Recognised'
  <2>1. ~Unrecorded
    BY <1>1 DEF Unrecorded
  <2> QED BY <1>1, <1>2, <1>3, <1>4, <1>5, <2>1 DEF IInv, Rest, Recognised, AtPathOK
<1> QED BY <1>1, <1>3, <1>7, <1>8, <1>9, LeaveStep

\* The checkpoint that records the coming rewrite.
LEMMA SaveNextStep ==
    ASSUME IInv, TypeOK', NEW save \in Saves, SaveNext(save)
    PROVE  Rest'
<1>1. /\ mem \in Recs /\ mem.path \in Paths
      /\ pc = "prepared" /\ mem # NoRec /\ mem \in Known /\ starts # 0 /\ seen = NoFile
      /\ made \in temps /\ made.id = mem.next /\ made.mine /\ made.rows = mem.results
  BY Running, MemKnown, PathsAssumption DEF SaveNext, IInv, Rest, Untouched, InHand, Live, SeenOK
<1>2. Checkpoint(mem, save) /\ UNCHANGED <<fs, lost, touched, orphan, starts>>
  BY DEF SaveNext
<1>3. ~Unrecorded
  BY <1>1 DEF Unrecorded
<1>4. OthersSynced'
  BY <1>2 DEF IInv, Rest, OthersSynced
<1>5. CASE save = "saved"
  <2>1. /\ disk' = mem /\ stale' = {} /\ pc' = "commit"
        /\ UNCHANGED <<temps, exit, mem, made, seen>>
    BY <1>2, <1>5 DEF SaveNext, Checkpoint
  <2>2. Known' = {mem} /\ Held' \subseteq Held
    BY <1>1, <1>2, <2>1, HeldSame DEF Known
  <2>3. Vouched'
    BY <1>1, <2>2, VouchedStep DEF IInv, Rest
  <2>4. Recognised'
    BY <1>1, <1>2, <2>1, <2>2 DEF IInv, Rest, Recognised, AtPathOK
  <2>5. Untouched' /\ Idle' /\ Checked' /\ SeenOK'
    BY <1>1, <1>2, <2>1 DEF Untouched, Idle, Checked, SeenOK
  <2>6. InHand'
    BY <1>1, <2>1 DEF InHand, Live, Undoing
  <2> QED BY <1>4, <2>3, <2>4, <2>5, <2>6 DEF Rest
<1>6. CASE save # "saved"
  <2>1. temps' = temps \ {made} /\ Leave("stopped")
    BY <1>6 DEF SaveNext
  <2>2. mem' = NoRec /\ pc' = "idle"
    BY <2>1 DEF Leave
  <2>3. Known' \subseteq Known /\ Held' \subseteq Held
    BY <1>1, <1>2, <2>1, <2>2, HeldSame DEF Known, Checkpoint, Saves
  <2>4. Vouched'
    BY <2>3, VouchedStep DEF IInv, Rest
  <2>5. Recognised'
    BY <1>1, <1>2, <1>3, <2>2, <2>3 DEF IInv, Rest, Recognised, AtPathOK
  <2> QED BY <1>1, <1>2, <1>4, <2>1, <2>4, <2>5, LeaveStep
<1> QED BY <1>5, <1>6

\* The identity check of the path.
LEMMA CommitCheckStep ==
    ASSUME IInv, TypeOK', CommitCheck
    PROVE  Rest'
<1>1. /\ mem \in Recs /\ mem.path \in Paths /\ pc = "commit" /\ mem # NoRec /\ mem \in Known
      /\ starts # 0 /\ mem.cur \in Ids /\ mem.next \in Ids \cup {NoId}
  BY Running, MemKnown, PathsAssumption DEF CommitCheck, IInv, Rest, Untouched
<1>2. UNCHANGED <<fs, lost, disk, stale, touched, orphan, starts>>
  BY DEF CommitCheck
<1>3. ~Unrecorded
  BY <1>1 DEF Unrecorded
<1>4. CASE AtPath(mem) = "foreign"
  <2>1. temps' \subseteq temps /\ Leave("stopped")
    BY <1>4 DEF CommitCheck
  <2> QED BY <1>1, <1>2, <1>3, <2>1, QuietEnd DEF IInv, TypeOK
<1>5. CASE AtPath(mem) # "foreign"
  <2>1. pc' = "rename" /\ seen' = fs[mem.path] /\ UNCHANGED <<temps, exit, mem, made>>
    BY <1>5 DEF CommitCheck
  <2>2. Known' \subseteq Known /\ Held' \subseteq Held
    BY <1>2, <2>1, HeldSame DEF Known
  <2>3. Vouched'
    BY <2>2, VouchedStep DEF IInv, Rest
  <2>4. Recognised'
    BY <1>1, <1>2, <1>3, <2>1, <2>2 DEF IInv, Rest, Recognised, AtPathOK
  <2>5. OthersSynced' /\ Untouched' /\ Idle' /\ Checked'
    BY <1>1, <1>2, <2>1 DEF IInv, Rest, OthersSynced, Untouched, Idle, Checked
  <2>6. InHand'
    BY <1>1, <1>2, <2>1 DEF IInv, Rest, InHand, Live, Undoing
  <2>7. SeenOK'
    <3>1. ASSUME seen' # NoFile PROVE seen'.id \in {mem.cur, mem.next}
      BY <1>5, <2>1, <3>1 DEF AtPath
    <3>2. ASSUME seen' # NoFile PROVE seen' \in Held
      BY <1>1, <2>1, <3>2 DEF Held, IInv, TypeOK
    <3> QED BY <1>1, <2>1, <3>1, <3>2 DEF SeenOK, IInv, Rest, Vouched
  <2> QED BY <2>3, <2>4, <2>5, <2>6, <2>7 DEF Rest
<1> QED BY <1>4, <1>5

\* The rename.
LEMMA CommitRenameStep ==
    ASSUME IInv, TypeOK', NEW synced \in BOOLEAN, NEW last \in BOOLEAN,
           CommitRename(synced, last)
    PROVE  Rest'
<1> USE PathsAssumption
<1>1. /\ mem \in Recs /\ mem.path \in Paths /\ pc = "rename" /\ mem # NoRec /\ mem \in Known
      /\ mem.results \in Nat /\ mem.cur \in Ids /\ mem.next \in Ids \cup {NoId}
      /\ starts # 0 /\ disk = mem /\ stale = {}
      /\ made \in temps /\ made \in Files /\ made.id = mem.next /\ made.mine
      /\ made.rows = mem.results /\ made # NoFile /\ made.id \in Ids
  BY Running, MemKnown DEF CommitRename, IInv, Rest, InHand, Live, Untouched, TypeOK, Files
<1>2. /\ Place(mem.path, made, synced) /\ temps' = temps \ {made}
      /\ UNCHANGED <<disk, stale, touched, orphan, starts>>
  BY DEF CommitRename
<1>3. fs'[mem.path] = made /\ \A p \in Paths : p # mem.path => fs'[p] = fs[p] /\ lost'[p] = lost[p]
  BY <1>1, <1>2 DEF Place, IInv, TypeOK
<1>4. Held' \subseteq Held
  <2>1. Held' \subseteq Held \cup {made}
    BY <1>1, <1>2, HeldPlace DEF IInv
  <2> QED BY <1>1, <2>1 DEF Held
<1>5. OthersSynced'
  BY <1>1, <1>3 DEF IInv, Rest, OthersSynced
<1>6. CASE last /\ mem.results = MaxResults
  <2>1. Leave("done")
    BY <1>6 DEF CommitRename
  <2>2. mem' = NoRec /\ pc' = "idle"
    BY <2>1 DEF Leave
  <2>3. Known' \subseteq {mem}
    BY <1>1, <1>2, <2>2 DEF Known
  <2>4. Vouched'
    BY <1>1, <1>4, <2>3, VouchedStep DEF IInv, Rest
  <2>5. Recognised'
    BY <1>1, <1>3, <2>2, <2>3 DEF Recognised, AtPathOK
  <2> QED BY <1>1, <1>2, <1>5, <2>1, <2>4, <2>5, LeaveStep
<1>7. CASE ~(last /\ mem.results = MaxResults)
  <2>1. /\ mem' = [mem EXCEPT !.cur = made.id, !.next = NoId]
        /\ pc' = "ready" /\ made' = NoFile /\ seen' = NoFile
    BY <1>7 DEF CommitRename
  <2>2. /\ mem'.path = mem.path /\ mem'.cur = made.id /\ mem'.next = NoId
        /\ mem'.results = mem.results /\ mem' # NoRec
    <3>1. mem' \in Recs
      BY <1>1, <2>1 DEF Recs
    <3> QED BY <1>1, <2>1, <3>1 DEF Recs
  <2>3. Known' \subseteq Known \cup {mem'}
    BY <1>2 DEF Known
  <2>4. \A g \in Held : VouchedBy(mem, g) /\ g.id # NoId
    BY <1>1 DEF IInv, Rest, Vouched, Held, Files
  <2>5. \A g \in Held : VouchedBy(mem', g)
    BY <1>1, <2>2, <2>4 DEF VouchedBy
  <2>6. Vouched'
    BY <1>4, <2>3, <2>5, VouchedStep DEF IInv, Rest
  <2>7. Recognised'
    <3>1. Known' = {mem, mem'}
      BY <1>1, <1>2, <2>2 DEF Known
    <3> QED BY <1>1, <1>3, <2>2, <3>1 DEF Recognised, AtPathOK
  <2>8. Untouched' /\ Idle' /\ Checked' /\ SeenOK'
    BY <1>1, <1>2, <2>1, <2>2 DEF Untouched, Idle, Checked, SeenOK
  <2>9. InHand'
    BY <2>1, <2>2 DEF InHand, Live, Undoing
  <2> QED BY <1>5, <2>6, <2>7, <2>8, <2>9 DEF Rest
<1> QED BY <1>6, <1>7

\* The ends of a run that touch no more than its temporary.
LEMMA EndStep ==
    ASSUME IInv, TypeOK',
           RenameFails \/ Stop \/ Crash
           \/ (\E p \in Paths : ResumeRefused(p) \/ ResolveFails(p))
    PROVE  Rest'
<1>1. orphan \in BOOLEAN /\ touched \in BOOLEAN /\ starts \in Nat
  BY PathsAssumption DEF IInv, TypeOK
<1>2. pc # "idle" => starts # 0
  BY DEF IInv, Rest, Untouched
<1>3. CASE RenameFails \/ Stop
  <2>1. pc # "idle" /\ ~Unrecorded
    BY <1>3 DEF RenameFails, Stop, Unrecorded
  <2>2. /\ Leave("stopped") /\ temps' \subseteq temps
        /\ UNCHANGED <<fs, lost, disk, stale, touched, orphan, starts>>
    BY <1>3 DEF RenameFails, Stop
  <2> QED BY <1>1, <1>2, <2>1, <2>2, QuietEnd
<1>4. CASE Crash
  <2>1. /\ pc # "idle" /\ Leave("stopped") /\ temps' \subseteq temps
        /\ UNCHANGED <<fs, lost, disk, stale, touched, starts>>
        /\ orphan' = (orphan \/ Unrecorded)
    BY <1>4 DEF Crash
  <2>2. orphan' \in BOOLEAN
    BY DEF TypeOK
  <2>3. (Unrecorded => orphan') /\ (orphan => orphan')
    BY <2>1
  <2> QED BY <1>2, <2>1, <2>2, <2>3, QuietEnd
<1>5. ASSUME NEW p \in Paths, ResumeRefused(p) \/ ResolveFails(p) PROVE Rest'
  <2>1. ~Unrecorded
    BY <1>5 DEF ResumeRefused, ResolveFails, CanResume, Unrecorded
  <2>2. /\ Leave("stopped") /\ temps' \subseteq temps /\ starts' = starts + 1
        /\ UNCHANGED <<fs, lost, disk, stale, touched, orphan>>
    BY <1>5 DEF ResumeRefused, ResolveFails
  <2> QED BY <1>1, <2>1, <2>2, QuietEnd
<1> QED BY <1>3, <1>4, <1>5

\* What a resume makes of the output.
LEMMA ResolveStep ==
    ASSUME IInv, TypeOK', NEW p \in Paths, NEW synced \in BOOLEAN, Resolve(p, synced)
    PROVE  Rest'
<1> USE PathsAssumption
<1>1. /\ pc = "idle" /\ disk # NoRec /\ disk \in Recs /\ disk.path \in Paths /\ disk.cur \in Ids
      /\ disk.next \in Ids \cup {NoId} /\ disk.results \in 0 .. MaxResults
      /\ starts \in Nat /\ starts # 0 /\ starts' = starts + 1 /\ seen = NoFile /\ disk \in Known
      /\ mem = NoRec /\ made = NoFile
  BY DEF Resolve, CanResume, IInv, TypeOK, Rest, SeenOK, Recs, Known, Idle, InHand
<1>2. /\ pc' = "resolved" /\ temps' \subseteq temps
      /\ UNCHANGED <<disk, stale, seen, touched, orphan>>
  BY DEF Resolve
<1>3. Untouched' /\ SeenOK' /\ Checked'
  BY <1>1, <1>2 DEF Untouched, SeenOK, Checked
<1>4. ~Unrecorded
  BY <1>1 DEF Unrecorded
<1>5. CASE p = disk.path /\ AtPath(disk) # "absent"
  <2>1. /\ mem' = [disk EXCEPT !.cur = IF AtPath(disk) = "next" THEN disk.next ELSE @, !.next = NoId]
        /\ UNCHANGED <<fs, lost, made>>
    BY <1>5 DEF Resolve
  <2>2. AtPath(disk) \in {"current", "next"}
    BY <1>5 DEF Resolve, Refuses, AtPath
  <2>3. fs[disk.path] # NoFile /\ fs[disk.path] \in Files
    BY <1>1, <2>2 DEF AtPath, IInv, TypeOK
  <2>4. /\ mem'.path = disk.path /\ mem'.next = NoId /\ mem'.results = disk.results
        /\ mem'.cur = fs[disk.path].id /\ mem'.cur \in {disk.cur, disk.next} /\ mem'.cur \in Ids
        /\ disk.next = NoId => mem' = disk
    <3>1. CASE AtPath(disk) = "next"
      <4>1. fs[disk.path].id = disk.next /\ disk.next \in Ids
        BY <2>3, <3>1 DEF AtPath, Files
      <4> QED BY <1>1, <2>1, <3>1, <4>1 DEF Recs
    <3>2. CASE AtPath(disk) = "current"
      <4>1. fs[disk.path].id = disk.cur
        BY <2>3, <3>2 DEF AtPath
      <4> QED BY <1>1, <2>1, <3>2, <4>1 DEF Recs
    <3> QED BY <2>2, <3>1, <3>2
  <2>5. mem' # NoRec
    <3>1. mem' \in Recs
      BY <1>1, <1>2, <2>1, <2>4 DEF Recs
    <3> QED BY <3>1
  <2>6. Known' \subseteq Known \cup {mem'} /\ Held' \subseteq Held
    BY <1>2, <2>1, HeldSame DEF Known
  <2>7. \A g \in Held : VouchedBy(disk, g) /\ g.id # NoId
    BY <1>1 DEF IInv, Rest, Vouched, Held, Files
  <2>8. \A g \in Held : VouchedBy(mem', g)
    BY <1>1, <2>4, <2>7 DEF VouchedBy
  <2>9. Vouched'
    BY <2>6, <2>8, VouchedStep DEF IInv, Rest
  <2>10. OthersSynced' /\ Idle'
    BY <1>2, <2>1, <2>5 DEF IInv, Rest, OthersSynced, Idle
  <2>11. InHand'
    BY <1>1, <1>2, <2>1, <2>4 DEF InHand, Live, Undoing
  <2>12. Recognised'
    BY <1>2, <1>4, <2>1, <2>4, <2>6 DEF IInv, Rest, Recognised, AtPathOK
  <2> QED BY <1>3, <2>9, <2>10, <2>11, <2>12 DEF Rest
<1>6. CASE ~(p = disk.path /\ AtPath(disk) # "absent")
  <2>1. PICK f \in Fresh(disk.results) :
          /\ Place(p, f, synced) /\ made' = f
          /\ mem' = [path |-> p, cur |-> f.id, next |-> NoId, results |-> disk.results]
    BY <1>6 DEF Resolve
  <2>2. /\ f \in Files /\ f.id \in Ids /\ f.rows = disk.results /\ f.mine
        /\ f.id \notin InUse /\ f # NoFile
    BY <1>1, <2>1, FreshFile DEF IInv
  <2>3. fs'[p] = f /\ \A q \in Paths : q # p => fs'[q] = fs[q] /\ lost'[q] = lost[q]
    BY <2>1 DEF Place, IInv, TypeOK
  <2>4. mem' # NoRec
    <3>1. mem' \in Recs
      BY <1>1, <2>1, <2>2 DEF Recs
    <3> QED BY <3>1
  <2>5. Held' \subseteq Held \cup {f}
    BY <1>2, <2>1, <2>2, HeldPlace DEF IInv
  <2>6. Known' \subseteq Known \cup {mem'}
    BY <1>2 DEF Known
  <2>7. Vouched'
    <3>1. \A g \in Held : g.id # f.id /\ g.id # NoId
      BY <2>2, NotInUse DEF IInv, Held, Files
    <3>2. \A r \in Known : r.cur # f.id /\ r.next # f.id
      BY <2>2, NotInUse DEF IInv
    <3>3. \A g \in Held : VouchedBy(mem', g)
      BY <2>1, <3>1 DEF VouchedBy
    <3>4. VouchedBy(mem', f)
      BY <1>1, <2>1, <2>2 DEF VouchedBy
    <3>5. \A r \in Known : VouchedBy(r, f)
      BY <3>2 DEF VouchedBy
    <3>6. \A r \in Known, g \in Held : VouchedBy(r, g)
      BY DEF IInv, Rest, Vouched
    <3> QED BY <2>5, <2>6, <3>3, <3>4, <3>5, <3>6 DEF Vouched
  <2>8. OthersSynced' /\ Idle'
    BY <1>2, <2>2, <2>3, <2>4 DEF IInv, Rest, OthersSynced, Idle
  <2>9. InHand'
    BY <1>1, <1>2, <2>1, <2>2 DEF InHand, Live, Undoing
  <2>10. Recognised'
    <3>1. Unrecorded' /\ fs'[mem'.path].id = mem'.cur /\ mem'.path = p
      BY <1>2, <2>1, <2>2, <2>3 DEF Unrecorded
    <3>2. ASSUME NEW r \in Known', ~touched', ~orphan', r.path # p PROVE AtPathOK(r)'
      <4>1. r \in Known
        BY <2>1, <2>6, <3>2
      <4>2. AtPathOK(r) /\ r.path \in Paths
        BY <1>2, <1>4, <3>2, <4>1 DEF IInv, Rest, Recognised, TypeOK, Known, Recs
      <4> QED BY <2>3, <3>2, <4>2 DEF AtPathOK
    <3> QED BY <3>1, <3>2 DEF Recognised
  <2> QED BY <1>3, <2>7, <2>8, <2>9, <2>10 DEF Rest
<1> QED BY <1>5, <1>6

\* The checkpoint of a resume.
LEMMA ResumeCheckpointStep ==
    ASSUME IInv, TypeOK', NEW settled \in BOOLEAN, NEW save \in Saves,
           ResumeCheckpoint(settled, save)
    PROVE  Rest'
<1> USE PathsAssumption
<1>1. /\ mem \in Recs /\ mem.path \in Paths /\ pc = "resolved" /\ mem # NoRec /\ mem \in Known
      /\ starts # 0 /\ starts # 1 /\ seen = NoFile /\ mem.next = NoId /\ disk # NoRec
      /\ made # NoFile => made.id = mem.cur
      /\ made = NoFile /\ disk.next = NoId => mem = disk
  BY Running, MemKnown DEF ResumeCheckpoint, IInv, Rest, Untouched, InHand, SeenOK
<1>2. UNCHANGED <<fs, lost, temps, touched, orphan, starts>>
  BY DEF ResumeCheckpoint
<1>3. OthersSynced' /\ Held' \subseteq Held
  BY <1>2, HeldSame DEF IInv, Rest, OthersSynced
<1>4. Checkpoint(mem, save) \/ UNCHANGED <<disk, stale>>
  BY DEF ResumeCheckpoint
<1>5. mem' \in {mem, NoRec}
  BY DEF ResumeCheckpoint, Leave
<1>6. Known' \subseteq Known
  BY <1>1, <1>4, <1>5 DEF Known, Checkpoint, Saves
<1>7. Vouched'
  BY <1>3, <1>6, VouchedStep DEF IInv, Rest
<1>8. ASSUME pc' = "ready", made' = NoFile, UNCHANGED <<mem, exit, seen>>,
             \/ disk' = mem /\ stale' = {}
             \/ made = NoFile /\ UNCHANGED <<disk, stale>>
      PROVE  Rest'
  <2>1. Untouched' /\ Idle' /\ Checked' /\ SeenOK'
    BY <1>1, <1>2, <1>8 DEF Untouched, Idle, Checked, SeenOK
  <2>2. InHand'
    BY <1>1, <1>8 DEF InHand, Live, Undoing
  <2>3. Recognised'
    <3>1. CASE disk' = mem /\ stale' = {}
      <4>1. Known' = {mem}
        BY <1>1, <1>8, <3>1 DEF Known
      <4> QED BY <1>1, <1>2, <1>8, <4>1 DEF IInv, Rest, Recognised, AtPathOK
    <3>2. CASE made = NoFile /\ UNCHANGED <<disk, stale>>
      <4>1. ~Unrecorded
        BY <3>2 DEF Unrecorded
      <4> QED BY <1>1, <1>2, <1>6, <1>8, <4>1 DEF IInv, Rest, Recognised, AtPathOK
    <3> QED BY <1>8, <3>1, <3>2
  <2> QED BY <1>3, <1>7, <2>1, <2>2, <2>3 DEF Rest
<1>9. ASSUME Leave("stopped"), made = NoFile PROVE Rest'
  <2>1. pc' = "idle" /\ ~Unrecorded
    BY <1>9 DEF Leave, Unrecorded
  <2>2. Recognised'
    BY <1>1, <1>2, <1>6, <2>1 DEF IInv, Rest, Recognised, AtPathOK
  <2> QED BY <1>1, <1>2, <1>3, <1>7, <1>9, <2>2, LeaveStep
<1>10. ASSUME pc' = "undo", UNCHANGED <<mem, exit, made, seen>>, made # NoFile PROVE Rest'
  <2>1. Untouched' /\ Idle' /\ Checked' /\ SeenOK'
    BY <1>1, <1>2, <1>10 DEF Untouched, Idle, Checked, SeenOK
  <2>2. InHand'
    BY <1>1, <1>2, <1>10 DEF InHand, Live, Undoing
  <2>3. Recognised'
    BY <1>1, <1>2, <1>6, <1>10 DEF IInv, Rest, Recognised, Unrecorded, AtPathOK
  <2> QED BY <1>3, <1>7, <2>1, <2>2, <2>3 DEF Rest
<1>11. CASE ~(disk.next # NoId \/ made # NoFile \/ settled)
  <2>1. /\ pc' = "ready" /\ made' = NoFile /\ UNCHANGED <<mem, exit, seen>>
        /\ made = NoFile /\ UNCHANGED <<disk, stale>>
    BY <1>11 DEF ResumeCheckpoint
  <2> QED BY <1>8, <2>1
<1>12. CASE disk.next # NoId \/ made # NoFile \/ settled
  <2>1. Checkpoint(mem, save)
    BY <1>12 DEF ResumeCheckpoint
  <2>2. CASE save = "saved"
    <3>1. pc' = "ready" /\ made' = NoFile /\ UNCHANGED <<mem, exit, seen>>
      BY <1>12, <2>2 DEF ResumeCheckpoint
    <3>2. disk' = mem /\ stale' = {}
      BY <2>1, <2>2 DEF Checkpoint
    <3> QED BY <1>8, <3>1, <3>2
  <2>3. CASE save # "saved" /\ made = NoFile
    BY <1>9, <1>12, <2>3 DEF ResumeCheckpoint
  <2>4. CASE save # "saved" /\ made # NoFile
    BY <1>10, <1>12, <2>4 DEF ResumeCheckpoint
  <2> QED BY <2>2, <2>3, <2>4
<1> QED BY <1>11, <1>12

\* A change by somebody else.
LEMMA OtherStep ==
    ASSUME IInv, TypeOK', NEW p \in Paths, Intrude(p) \/ Remove(p)
    PROVE  Rest'
<1> USE PathsAssumption
<1>1. /\ UNCHANGED <<temps, disk, stale, mem, pc, exit, made, seen, orphan, starts>>
      /\ lost' = [lost EXCEPT ![p] = {}]
  BY DEF Intrude, Remove
<1>2. PICK f \in Files \cup {NoFile} :
        /\ fs' = [fs EXCEPT ![p] = f]
        /\ f # NoFile => ~f.mine /\ f.id \in Ids /\ f.id \notin InUse /\ touched'
        /\ touched => touched'
  <2>1. CASE Intrude(p)
    <3>1. PICK id \in Ids \ InUse : fs' = [fs EXCEPT ![p] = [id |-> id, rows |-> 0, mine |-> FALSE]]
      BY <2>1 DEF Intrude
    <3>2. [id |-> id, rows |-> 0, mine |-> FALSE] \in Files /\ touched'
      BY <2>1 DEF Intrude, Files
    <3> QED BY <3>1, <3>2
  <2>2. CASE Remove(p)
    BY <2>2 DEF Remove
  <2> QED BY <2>1, <2>2
<1>3. fs'[p] = f /\ lost'[p] = {} /\ \A q \in Paths : q # p => fs'[q] = fs[q] /\ lost'[q] = lost[q]
  BY <1>1, <1>2 DEF IInv, TypeOK
<1>4. Known' = Known /\ (Unrecorded' <=> Unrecorded)
  BY <1>1 DEF Known, Unrecorded
<1>5. Held' \subseteq Held \cup {f}
  <2> SUFFICES ASSUME NEW g \in Held', g # f PROVE g \in Held
    OBVIOUS
  <2>1. g \in Files /\ (g \in temps \/ \E q \in Paths : g = fs'[q] \/ g \in lost'[q])
    BY <1>1 DEF Held
  <2> QED BY <1>3, <2>1 DEF Held
<1>6. Vouched'
  <2>1. CASE f = NoFile
    <3>1. Held' \subseteq Held
      BY <1>5, <2>1 DEF Held
    <3> QED BY <1>4, <3>1, VouchedStep DEF IInv, Rest
  <2>2. CASE f # NoFile
    <3>1. \A r \in Known : r.cur # f.id /\ r.next # f.id
      BY <1>2, <2>2, NotInUse DEF IInv
    <3>2. \A r \in Known : VouchedBy(r, f)
      BY <3>1 DEF VouchedBy
    <3>3. \A r \in Known, g \in Held : VouchedBy(r, g)
      BY DEF IInv, Rest, Vouched
    <3> QED BY <1>4, <1>5, <3>2, <3>3 DEF Vouched
  <2> QED BY <2>1, <2>2
<1>7. OthersSynced'
  BY <1>3 DEF IInv, Rest, OthersSynced
<1>8. Untouched'
  BY <1>1, <1>2, <1>3 DEF IInv, Rest, Untouched
<1>9. Idle' /\ SeenOK'
  BY <1>1 DEF IInv, Rest, Idle, SeenOK
<1>10. Checked'
  BY <1>1, <1>2, <1>3, Running DEF IInv, Rest, Checked
<1>11. InHand'
  BY <1>1, <1>2, <1>3 DEF IInv, Rest, InHand, Live, Undoing, OnlyMade
<1>12. Recognised'
  <2> SUFFICES ASSUME ~touched', ~orphan'
               PROVE  /\ pc # "idle" => fs'[mem.path] = NoFile \/ fs'[mem.path].id = mem.cur
                      /\ \A r \in Known : (Unrecorded /\ r.path = mem.path) \/ AtPathOK(r)'
    BY <1>1, <1>4 DEF Recognised
  <2>1. f = NoFile /\ ~touched /\ ~orphan
    BY <1>1, <1>2
  <2>2. pc # "idle" => mem.path \in Paths
    BY Running DEF IInv, Rest
  <2>3. \A r \in Known : r.path \in Paths
    BY DEF Known, IInv, TypeOK, Recs
  <2>4. pc # "idle" => fs'[mem.path] = NoFile \/ fs'[mem.path].id = mem.cur
    BY <1>3, <2>1, <2>2 DEF IInv, Rest, Recognised
  <2>5. ASSUME NEW r \in Known PROVE (Unrecorded /\ r.path = mem.path) \/ AtPathOK(r)'
    BY <1>3, <2>1, <2>3 DEF IInv, Rest, Recognised, AtPathOK
  <2> QED BY <2>4, <2>5
<1> QED BY <1>6, <1>7, <1>8, <1>9, <1>10, <1>11, <1>12 DEF Rest

\* A power loss.
LEMMA PowerLossStep ==
    ASSUME IInv, TypeOK', PowerLoss
    PROVE  Rest'
<1>1. /\ disk' \in {disk} \cup stale /\ stale' = {}
      /\ \A p \in Paths : fs'[p] \in {fs[p]} \cup lost[p]
      /\ lost' = [p \in Paths |-> {}]
      /\ touched' = (touched \/ fs' # fs) /\ orphan' = (orphan \/ Unrecorded)
      /\ temps' = temps /\ starts' = starts
  BY DEF PowerLoss
<1>2. /\ pc' = "idle" /\ mem' = NoRec /\ made' = NoFile /\ seen' = NoFile
  BY DEF PowerLoss, Leave
<1>3. Known' \subseteq Known
  BY <1>1, <1>2 DEF Known
<1>4. Held' \subseteq Held
  BY <1>1 DEF Held
<1>5. Vouched'
  BY <1>3, <1>4, VouchedStep DEF IInv, Rest
<1>6. OthersSynced'
  BY <1>1 DEF OthersSynced
<1>7. Untouched'
  <2> SUFFICES ASSUME starts = 0
               PROVE  /\ disk' = NoRec
                      /\ \A p \in Paths : fs'[p] # NoFile => ~fs'[p].mine
    BY <1>1, <1>2 DEF Untouched
  <2>1. /\ disk = NoRec /\ stale = {}
        /\ \A p \in Paths : lost[p] = {} /\ (fs[p] # NoFile => ~fs[p].mine)
    BY DEF IInv, Rest, Untouched
  <2> QED BY <1>1, <2>1
<1>8. Idle' /\ Checked' /\ SeenOK' /\ InHand'
  BY <1>2 DEF Idle, Checked, SeenOK, InHand, Live, Undoing
<1>9. Recognised'
  <2> SUFFICES ASSUME ~touched', ~orphan', NEW r \in Known' PROVE AtPathOK(r)'
    BY <1>2 DEF Recognised
  <2>1. ~touched /\ ~orphan /\ ~Unrecorded /\ fs' = fs
    BY <1>1
  <2> QED BY <1>3, <2>1 DEF IInv, Rest, Recognised, AtPathOK
<1> QED BY <1>5, <1>6, <1>7, <1>8, <1>9 DEF Rest

-----------------------------------------------------------------------------
(* The invariant *)

\* The initial state is as described.
LEMMA InitInv == Init => IInv
<1> SUFFICES ASSUME Init PROVE IInv
  OBVIOUS
<1> USE PathsAssumption DEF Init
<1>1. TypeOK
  <2>1. fs \in [Paths -> Files \cup {NoFile}] /\ lost \in [Paths -> SUBSET (Files \cup {NoFile})]
    OBVIOUS
  <2>2. starts \in 0 .. MaxStarts
    OBVIOUS
  <2> QED BY <2>1, <2>2 DEF TypeOK, PCs
<1>2. Known = {}
  BY DEF Known
<1>3. Vouched /\ Recognised
  BY <1>2 DEF Vouched, Recognised
<1>4. OthersSynced /\ Untouched /\ Idle /\ InHand /\ Checked /\ SeenOK
  BY DEF OthersSynced, Untouched, Idle, InHand, Live, Undoing, Checked, SeenOK
<1> QED BY <1>1, <1>3, <1>4 DEF IInv, Rest

\* Every step keeps it.
LEMMA StepInv == IInv /\ [Next]_vars => IInv'
<1> SUFFICES ASSUME IInv, [Next]_vars PROVE IInv'
  OBVIOUS
<1>1. TypeOK'
  BY TypeStep DEF IInv, Rest
<1>2. CASE UNCHANGED vars
  <2>1. /\ Vouched' /\ OthersSynced' /\ Untouched' /\ Idle' /\ InHand' /\ Checked' /\ SeenOK'
    BY <1>2 DEF vars, IInv, Rest, Vouched, Known, Held, OthersSynced, Untouched, Idle, InHand,
                Live, Undoing, OnlyMade, Checked, SeenOK
  <2>2. Recognised'
    BY <1>2 DEF vars, IInv, Rest, Recognised, Known, Unrecorded, AtPathOK
  <2> QED BY <1>1, <2>1, <2>2 DEF IInv, Rest
<1>3. CASE \/ \E synced \in BOOLEAN : Claim(synced)
           \/ \E save \in Saves, kept \in BOOLEAN : FirstCheckpoint(save, kept)
           \/ ClaimFails
           \/ \E p \in Paths : ResolveUnwritten(p)
           \/ CheckUndo
           \/ \E fails \in BOOLEAN : RemoveByName(fails)
           \/ \E more \in 0 .. 1 : Prepare(more)
           \/ \E more \in 0 .. 1, save \in Saves : PrepareFails(more, save)
           \/ \E save \in Saves : SaveNext(save)
           \/ CommitCheck
           \/ \E synced, last \in BOOLEAN : CommitRename(synced, last)
  <2>1. Rest'
    BY <1>1, <1>3, ClaimStep, FirstCheckpointStep, ClaimFailsStep, CheckUndoStep,
       RemoveByNameStep, PrepareStep, PrepareFailsStep, SaveNextStep, CommitCheckStep,
       CommitRenameStep
  <2> QED BY <1>1, <2>1 DEF IInv
<1>4. CASE \/ RenameFails \/ Stop \/ Crash
           \/ \E p \in Paths : ResumeRefused(p)
           \/ \E p \in Paths : ResolveFails(p)
  BY <1>1, <1>4, EndStep DEF IInv
<1>5. CASE \/ \E p \in Paths, synced \in BOOLEAN : Resolve(p, synced)
           \/ \E settled \in BOOLEAN, save \in Saves : ResumeCheckpoint(settled, save)
           \/ \E p \in Paths : Intrude(p)
           \/ \E p \in Paths : Remove(p)
           \/ PowerLoss
  <2>1. Rest'
    BY <1>1, <1>5, ResolveStep, ResumeCheckpointStep, OtherStep, PowerLossStep
  <2> QED BY <1>1, <2>1 DEF IInv
<1> QED BY <1>2, <1>3, <1>4, <1>5 DEF Next

\* In every reachable state of every job output the recorded identities stand
\* for the job's own files, with no more results than recorded.
THEOREM Inductive == Spec => []IInv
  BY InitInv, StepInv, PTL DEF Spec

\* The state stays well-typed.
THEOREM TypeCorrect == Spec => []TypeOK
<1>1. IInv => TypeOK
  BY DEF IInv
<1> QED BY <1>1, Inductive, PTL

\* The CSV the state file vouches for never shows a result the state does not
\* hold, wherever the process dies or the power fails in a rewrite
\* (engine.rs save_with_output, output.rs prepare and commit).
THEOREM NeverAhead == Spec => []CsvNeverAhead
<1>1. IInv => CsvNeverAhead
  <2> SUFFICES ASSUME IInv, disk # NoRec, AtPath(disk) \in {"current", "next"}
               PROVE  fs[disk.path].rows <= disk.results
    BY DEF CsvNeverAhead
  <2>1. disk \in Known /\ disk.path \in Paths
    BY DEF IInv, TypeOK, Known, Recs
  <2>2. fs[disk.path] \in Held /\ fs[disk.path].id \in {disk.cur, disk.next}
    BY <2>1 DEF AtPath, Held, IInv, TypeOK
  <2> QED BY <2>1, <2>2 DEF IInv, Rest, Vouched, VouchedBy
<1> QED BY <1>1, Inductive, PTL

\* Whatever step a run died in, resume-poll recognises the file the job left
\* at its recorded path (commands/bulk_scan.rs resolve_output), unless the run
\* died between a claim and its checkpoint.
THEOREM Recognises == Spec => []OwnFileRecognised
<1>1. IInv => OwnFileRecognised
  <2> SUFFICES ASSUME IInv, pc = "idle", disk # NoRec, ~touched, ~orphan
               PROVE  AtPath(disk) # "foreign"
    BY DEF OwnFileRecognised
  <2>1. AtPathOK(disk)
    BY DEF IInv, Rest, Recognised, Known, Unrecorded
  <2> QED BY <2>1 DEF AtPathOK, AtPath
<1> QED BY <1>1, Inductive, PTL

\* What a step does to a path: it leaves it alone, puts back what a power loss
\* may restore, creates the job's file at a free path, renames the prepared one
\* over what is there or removes that by its name; or somebody else changes it.
LEMMA PathStep ==
    ASSUME IInv, [Next]_vars, NEW p \in Paths
    PROVE  \/ fs'[p] = fs[p] \/ fs'[p] \in lost[p] \/ fs[p] = NoFile
           \/ pc' = pc /\ (fs'[p] = NoFile \/ ~fs'[p].mine)
           \/ p = mem.path /\ pc = "rename" /\ fs'[p] = made
           \/ p = mem.path /\ pc \in {"unlink", "unclaim"} /\ fs'[p] = NoFile
<1> USE PathsAssumption DEF IInv, TypeOK
<1>1. ASSUME NEW synced \in BOOLEAN, Claim(synced)
      PROVE  fs'[p] = fs[p] \/ fs[p] = NoFile
  BY <1>1 DEF Claim, Place
<1>2. ASSUME NEW fails \in BOOLEAN, RemoveByName(fails)
      PROVE  \/ fs'[p] = fs[p]
             \/ p = mem.path /\ pc \in {"unlink", "unclaim"} /\ fs'[p] = NoFile
  BY <1>2 DEF RemoveByName, Place
<1>3. ASSUME pc # "idle" PROVE mem.path \in Paths
  BY <1>3, Running DEF Rest
<1>4. ASSUME ClaimFails \/ \E q \in Paths : ResolveUnwritten(q)
      PROVE  fs'[p] = fs[p] \/ fs[p] = NoFile
  <2>1. PICK q \in Paths, results \in {0, disk.results} : fs[q] = NoFile /\ ClaimUnwritten(q, results)
    BY <1>4 DEF ClaimFails, ResolveUnwritten, Refuses, AtPath
  <2>2. PICK f : Place(q, f, FALSE)
    BY <2>1 DEF ClaimUnwritten
  <2> QED BY <2>1, <2>2 DEF Place
<1>5. ASSUME NEW synced \in BOOLEAN, NEW last \in BOOLEAN, CommitRename(synced, last)
      PROVE  fs'[p] = fs[p] \/ (pc = "rename" /\ p = mem.path /\ fs'[p] = made)
  BY <1>3, <1>5 DEF CommitRename, Place
<1>6. ASSUME NEW q \in Paths, NEW synced \in BOOLEAN, Resolve(q, synced)
      PROVE  fs'[p] = fs[p] \/ fs[p] = NoFile
  <2>1. CASE q = disk.path /\ AtPath(disk) # "absent"
    BY <1>6, <2>1 DEF Resolve
  <2>2. CASE ~(q = disk.path /\ AtPath(disk) # "absent")
    <3>1. fs[q] = NoFile
      BY <1>6, <2>2 DEF Resolve, Refuses, AtPath
    <3>2. PICK f : Place(q, f, synced)
      BY <1>6, <2>2 DEF Resolve
    <3> QED BY <3>1, <3>2 DEF Place
  <2> QED BY <2>1, <2>2
<1>8. ASSUME NEW q \in Paths, Intrude(q)
      PROVE  pc' = pc /\ (fs'[p] = fs[p] \/ ~fs'[p].mine)
  BY <1>8 DEF Intrude
<1>9. ASSUME NEW q \in Paths, Remove(q)
      PROVE  pc' = pc /\ (fs'[p] = NoFile \/ fs'[p] = fs[p])
  BY <1>9 DEF Remove
<1>10. ASSUME PowerLoss PROVE fs'[p] = fs[p] \/ fs'[p] \in lost[p]
  BY <1>10 DEF PowerLoss
<1>11. CASE UNCHANGED fs
  BY <1>11
<1>12. ASSUME \/ \E save \in Saves, kept \in BOOLEAN : FirstCheckpoint(save, kept)
              \/ CheckUndo
              \/ \E more \in 0 .. 1 : Prepare(more)
              \/ \E more \in 0 .. 1, save \in Saves : PrepareFails(more, save)
              \/ \E save \in Saves : SaveNext(save)
              \/ CommitCheck \/ RenameFails \/ Stop \/ Crash
              \/ \E q \in Paths : ResumeRefused(q)
              \/ \E q \in Paths : ResolveFails(q)
              \/ \E settled \in BOOLEAN, save \in Saves : ResumeCheckpoint(settled, save)
       PROVE  UNCHANGED fs
  BY <1>12 DEF FirstCheckpoint, CheckUndo, Prepare, PrepareFails, SaveNext, CommitCheck,
               RenameFails, Stop, Crash, ResumeRefused, ResolveFails, ResumeCheckpoint
<1>13. CASE UNCHANGED vars
  BY <1>13 DEF vars
<1> QED
  BY <1>1, <1>2, <1>4, <1>5, <1>6, <1>8, <1>9, <1>10, <1>11, <1>12, <1>13 DEF Next

\* What the rename replaces, when the job wrote it, is what the check saw, and
\* has no more rows than the new file; that is the job's.
LEMMA RenamedOver ==
    ASSUME IInv, pc = "rename"
    PROVE  /\ made.mine /\ made \in Files /\ (seen # NoFile => seen.mine)
           /\ fs[mem.path] # NoFile /\ fs[mem.path].mine
                => fs[mem.path] = seen /\ fs[mem.path].rows <= made.rows
  BY DEF IInv, Rest, InHand, Live, TypeOK, Checked, SeenOK, VouchedBy

\* What the process saw at the path was the job's.
LEMMA SeenMine ==
    ASSUME IInv, seen # NoFile
    PROVE  seen.mine
  BY DEF IInv, Rest, SeenOK, VouchedBy

\* What the program does to a path leaves a file of somebody else alone, unless
\* that was put there after the program last looked: between the check and the
\* rename (output.rs commit) or the removal (remove_if), or after the create of
\* a claim that could not be written, whose removal checks nothing (claim).
THEOREM OthersSurvive == Spec => OthersFilesSurvive
<1>1. IInv /\ [Next]_vars =>
        [\A p \in Paths :
           (fs[p] # NoFile /\ ~fs[p].mine /\ fs'[p] # fs[p] /\ pc' # pc)
              => pc \in {"rename", "unlink", "unclaim"} /\ p = mem.path /\ fs[p] # seen]_vars
  <2> SUFFICES ASSUME IInv, [Next]_vars, NEW p \in Paths,
                      fs[p] # NoFile, ~fs[p].mine, fs'[p] # fs[p], pc' # pc
               PROVE  pc \in {"rename", "unlink", "unclaim"} /\ p = mem.path /\ fs[p] # seen
    OBVIOUS
  <2>1. lost[p] = {}
    BY DEF IInv, Rest, OthersSynced
  <2>2. pc \in {"rename", "unlink", "unclaim"} /\ p = mem.path
    BY <2>1, PathStep
  <2> QED BY <2>2, SeenMine
<1> QED BY <1>1, Inductive, PTL DEF Spec, OthersFilesSurvive

\* Rows are never taken out of the job's file again, by a crash, a failed save
\* or a resume; only a power loss brings an older file back.
THEOREM RowsKept == Spec => RowsNeverLost
<1>1. IInv /\ [Next]_vars =>
        [\A p \in Paths :
           (fs[p] # NoFile /\ fs[p].mine /\ fs'[p] # NoFile /\ fs'[p].mine)
              => fs'[p].rows >= fs[p].rows \/ fs'[p] \in lost[p]]_vars
  <2> SUFFICES ASSUME IInv, [Next]_vars, NEW p \in Paths,
                      fs[p] # NoFile, fs[p].mine, fs'[p] # NoFile, fs'[p].mine
               PROVE  fs'[p].rows >= fs[p].rows \/ fs'[p] \in lost[p]
    OBVIOUS
  <2>1. fs[p] \in Files /\ fs[p].rows \in Nat
    BY PathsAssumption DEF IInv, TypeOK, Files
  <2>2. \/ fs'[p] = fs[p] \/ fs'[p] \in lost[p]
        \/ pc = "rename" /\ p = mem.path /\ fs'[p] = made
    BY PathStep
  <2>3. CASE pc = "rename" /\ p = mem.path /\ fs'[p] = made
    <3>1. made.rows \in Nat
      BY <2>3, RenamedOver, PathsAssumption DEF Files
    <3> QED BY <2>1, <2>3, <3>1, RenamedOver
  <2> QED BY <2>1, <2>2, <2>3
<1> QED BY <1>1, Inductive, PTL DEF Spec, RowsNeverLost

\* The end of a failed claim or setup: only the first run says it set up
\* nothing.
LEMMA GiveUpExit ==
    ASSUME GiveUp
    PROVE  exit' = "stopped" \/ (exit' = "unset" /\ starts = 1)
  BY DEF GiveUp, Leave

\* A step that is neither a rename nor of an undo reports nothing.
LEMMA ReportsNothing ==
    ASSUME [Next]_vars,
           ~ \E synced, last \in BOOLEAN : CommitRename(synced, last),
           ~ CheckUndo, ~ \E fails \in BOOLEAN : RemoveByName(fails)
    PROVE  exit' = exit \/ exit' \in {"none", "stopped"}
<1>1. ASSUME \/ \E synced \in BOOLEAN : Claim(synced)
             \/ ClaimFails \/ \E p \in Paths : ResolveUnwritten(p)
      PROVE  exit' = "none"
  BY <1>1 DEF Claim, ClaimFails, ResolveUnwritten, ClaimUnwritten
<1>2. ASSUME \/ \E more \in 0 .. 1 : Prepare(more)
             \/ \E save \in Saves, kept \in BOOLEAN : FirstCheckpoint(save, kept)
      PROVE  exit' = exit
  BY <1>2 DEF Prepare, FirstCheckpoint
<1>3. ASSUME \/ \E more \in 0 .. 1, save \in Saves : PrepareFails(more, save)
             \/ RenameFails \/ Stop \/ Crash
             \/ \E p \in Paths : ResumeRefused(p)
             \/ \E p \in Paths : ResolveFails(p)
      PROVE  exit' = "stopped"
  BY <1>3 DEF PrepareFails, RenameFails, Stop, Crash, ResumeRefused, ResolveFails, Leave
<1>4. ASSUME CommitCheck \/ \E save \in Saves : SaveNext(save)
      PROVE  exit' \in {exit, "stopped"}
  BY <1>4 DEF CommitCheck, SaveNext, Leave
<1>5. ASSUME \E p \in Paths, synced \in BOOLEAN : Resolve(p, synced) PROVE exit' = "none"
  BY <1>5 DEF Resolve
<1>6. ASSUME \E settled \in BOOLEAN, save \in Saves : ResumeCheckpoint(settled, save)
      PROVE  exit' \in {exit, "stopped"}
  BY <1>6 DEF ResumeCheckpoint, Leave
<1>7. ASSUME \E p \in Paths : Intrude(p) \/ Remove(p) PROVE exit' = exit
  BY <1>7 DEF Intrude, Remove
<1>8. ASSUME PowerLoss PROVE exit' \in {exit, "stopped"}
  BY <1>8 DEF PowerLoss, Leave
<1>9. ASSUME UNCHANGED vars PROVE exit' = exit
  BY <1>9 DEF vars
<1> QED BY <1>1, <1>2, <1>3, <1>4, <1>5, <1>6, <1>7, <1>8, <1>9 DEF Next

\* A run that reports completion left a CSV with every result of the job; a
\* failed setup leaves neither a state nor a file of its own, whichever step of
\* it failed, unless the removal itself did (commands/bulk_scan.rs Created).
THEOREM Reported == Spec => ReportedTruly
<1> DEFINE Done == (exit # "done" /\ exit' = "done") =>
                     /\ fs'[mem.path] = made /\ made.mine
                     /\ made.rows = MaxResults /\ disk.results = MaxResults
           Unset == (exit # "unset" /\ exit' = "unset" /\ ~orphan') =>
                      /\ disk' = NoRec
                      /\ \A p \in Paths : fs'[p] # NoFile => ~fs'[p].mine
<1>1. IInv /\ [Next]_vars => Done /\ Unset
  <2> SUFFICES ASSUME IInv, [Next]_vars PROVE Done /\ Unset
    OBVIOUS
  <2>1. ASSUME NEW synced \in BOOLEAN, NEW last \in BOOLEAN, CommitRename(synced, last)
        PROVE  Done /\ Unset
    <3>1. /\ pc = "rename" /\ mem.path \in Paths /\ disk = mem /\ made.mine
          /\ made.rows = mem.results
      BY <2>1, Running DEF CommitRename, IInv, Rest, InHand, Live, Undoing
    <3>2. fs'[mem.path] = made
      BY <2>1, <3>1 DEF CommitRename, Place, IInv, TypeOK
    <3> QED BY <2>1, <3>1, <3>2 DEF CommitRename, Leave
  <2>2. ASSUME pc \in Undoing, starts = 1, UNCHANGED disk, orphan => orphan', exit' = "unset",
               orphan' \/ /\ fs'[mem.path] # NoFile => fs'[mem.path].id # made.id
                          /\ \A p \in Paths : p # mem.path => fs'[p] = fs[p]
                          /\ fs'[mem.path] \in {fs[mem.path], NoFile}
        PROVE  Done /\ Unset
    <3>1. OnlyMade /\ (~orphan => disk = NoRec)
      BY <2>2 DEF IInv, Rest, InHand
    <3> QED BY <2>2, <3>1 DEF OnlyMade
  <2>4. ASSUME CheckUndo PROVE Done /\ Unset
    <3>1. CASE pc' = "unlink"
      BY <2>4, <3>1 DEF CheckUndo, GiveUp, Leave
    <3>2. CASE pc' # "unlink"
      <4>1. GiveUp /\ ~(fs[mem.path] # NoFile /\ fs[mem.path].id = made.id)
        BY <2>4, <3>2 DEF CheckUndo
      <4>2. pc \in Undoing /\ UNCHANGED <<fs, disk, orphan>>
        BY <2>4 DEF CheckUndo, Undoing
      <4> QED BY <2>2, <4>1, <4>2, GiveUpExit
    <3> QED BY <3>1, <3>2
  <2>5. ASSUME NEW fails \in BOOLEAN, RemoveByName(fails) PROVE Done /\ Unset
    <3>1. pc \in Undoing /\ UNCHANGED disk /\ GiveUp /\ mem.path \in Paths
      BY <2>5, Running DEF RemoveByName, Undoing, IInv, Rest
    <3>2. CASE fails
      <4>1. orphan' = TRUE
        BY <2>5, <3>2 DEF RemoveByName
      <4> QED BY <2>2, <3>1, <4>1, GiveUpExit
    <3>3. CASE ~fails
      <4>1. /\ fs'[mem.path] = NoFile /\ orphan' = orphan
            /\ \A p \in Paths : p # mem.path => fs'[p] = fs[p]
        BY <2>5, <3>1, <3>3 DEF RemoveByName, Place, IInv, TypeOK
      <4> QED BY <2>2, <3>1, <4>1, GiveUpExit
    <3> QED BY <3>2, <3>3
  <2>3. ASSUME exit' = exit \/ exit' \in {"none", "stopped"}
        PROVE  Done /\ Unset
    BY <2>3
  <2> QED BY <2>1, <2>3, <2>4, <2>5, ReportsNothing
<1>2. IInv /\ [Next]_vars => [Done /\ Unset]_vars
  BY <1>1
<1> QED BY <1>2, Inductive, PTL DEF Spec, ReportedTruly

-----------------------------------------------------------------------------
(***************************************************************************)
(* Proofs about BulkLock, for any number of processes, inodes, attempts    *)
(* and removals of the lock file: type correctness, one process at a time  *)
(* while the lock file is left alone, and one send however it is removed   *)
(* outside the window.                                                     *)
(*                                                                         *)
(* OneProcess is not inductive: the kernel's lock is on an inode, so two   *)
(* holders are excluded only while both hold the inode that is named.  The *)
(* strengthening ties each lock to the descriptor of its holder (HoldOK),  *)
(* and the holder's inode to the name as long as nobody removed the file   *)
(* under it (NamedOK, and WindowOK for a process in its C1).  LiveOK is    *)
(* the argument for a single send: a process that may still send, or whose *)
(* answer may make the chunk pending again, is alone, and while it is, or  *)
(* once the chunk was accepted, the state file does not say `pending`.     *)
(***************************************************************************)

\* The process holds the lock of the inode it opened.
Holds(p) == Inside(p) \/ proc[p].pc = "flocked"

FdOK == \A p \in Procs :
    /\ proc[p].pc \in {"idle", "ended"} => proc[p].fd = None
    /\ proc[p].pc = "opened" => proc[p].fd \in LockIds
    /\ Holds(p) => proc[p].fd \in LockIds /\ flock[proc[p].fd] = p

HoldOK == \A l \in LockIds :
    flock[l] # None => Holds(flock[l]) /\ proc[flock[l]].fd = l

\* What the step a process is at says of its record: a checkpoint is C1, the
\* end of an accepted, unanswered or settled chunk, or that of a refused one.
Saving == {"save", "rename"}
StepOK == \A p \in Procs :
    /\ proc[p].pc = "idle" => proc[p].tries < Attempts
    /\ proc[p].pc = "rename" => proc[p].temp \in FileIds
    /\ proc[p].pc \in Saving =>
         \/ proc[p].status = "submitting" /\ proc[p].then = "post"
         \/ proc[p].status \in {"submitted", "ambiguous"} /\ proc[p].then = "release"
         \/ proc[p].status = "pending" /\ proc[p].then = "loaded"

\* Without a removal under a working process, its inode is the named one.
NamedOK == ~underLock => \A p \in Procs : Inside(p) => proc[p].fd = named

\* The same of C1 and a removal within it.
C1(p) == proc[p].pc \in Saving /\ proc[p].then = "post"
WindowOK == ~inWindow => \A p \in Procs : C1(p) => proc[p].fd = named

\* The request was not answered yet, or its refusal is being recorded.
MayPost(p) == proc[p].pc = "post" \/ (proc[p].pc \in Saving /\ proc[p].status = "pending")

\* The process may come to a request with what it has in memory.
MaySend(p) == C1(p) \/ MayPost(p) \/ (proc[p].pc = "loaded" /\ proc[p].fd = named)

LiveOK ==
    ~inWindow =>
        /\ accepted \in {0, 1}
        /\ accepted = 1 => file.status # "pending"
        /\ \A p \in Procs : MayPost(p) => file.status # "pending"
        /\ \A p \in Procs : MaySend(p) => accepted = 0
        /\ \A p, q \in Procs : MaySend(p) /\ MayPost(q) => p = q

\* The inductive invariant.
LockInv == LockTypeOK /\ FdOK /\ HoldOK /\ StepOK /\ NamedOK /\ WindowOK /\ LiveOK

-----------------------------------------------------------------------------
(* Steps of one process *)

\* A process's step changes its record only, and what is said of the others
\* stays as it is.
LEMMA OneRecord ==
    ASSUME LockTypeOK, NEW p \in Procs, NEW r \in ProcStates, Set(p, r)
    PROVE  /\ proc' \in [Procs -> ProcStates]
           /\ proc'[p] = r
           /\ \A q \in Procs : q # p =>
                /\ proc'[q] = proc[q]
                /\ (Holds(q)' <=> Holds(q)) /\ (Inside(q)' <=> Inside(q))
                /\ (C1(q)' <=> C1(q)) /\ (MayPost(q)' <=> MayPost(q))
                /\ (named' = named => (MaySend(q)' <=> MaySend(q)))
<1>1. /\ proc' \in [Procs -> ProcStates]
      /\ proc'[p] = r
      /\ \A q \in Procs : q # p => proc'[q] = proc[q]
  BY DEF LockTypeOK, Set
<1> QED
  BY <1>1 DEF Holds, Inside, C1, MayPost, MaySend

\* No process is at a step of its own before it starts.
LEMMA NewProcTyped ==
    /\ NewProc \in ProcStates
    /\ [NewProc EXCEPT !.pc = "ended"] \in ProcStates
    /\ NewProc.pc = "idle" /\ NewProc.fd = None /\ NewProc.tries = 0
BY LockAssumption DEF NewProc, ProcStates, LockPCs, Statuses

\* A lock is held by one process: two processes on one inode are the same.
LEMMA OneHolder ==
    ASSUME LockInv, NEW p \in Procs, NEW q \in Procs, Holds(p), Holds(q), proc[p].fd = proc[q].fd
    PROVE  p = q
BY DEF LockInv, FdOK

\* A process that ends, for whatever reason, keeps the invariant: its
\* descriptor is closed and only its own lock released.
LEMMA EndInv ==
    ASSUME LockInv, NEW p \in Procs, End(p), UNCHANGED <<named, world>>
    PROVE  LockInv'
<1> DEFINE r == [NewProc EXCEPT !.pc = "ended"]
<1>1. r \in ProcStates /\ r.pc = "ended" /\ r.fd = None
  BY NewProcTyped DEF NewProc
<1>2. Set(p, r) /\ flock' = Unlocked(p)
  BY DEF End
<1>3. /\ proc' \in [Procs -> ProcStates]
      /\ proc'[p] = r
      /\ \A q \in Procs : q # p => proc'[q] = proc[q]
  BY <1>1, <1>2, OneRecord DEF LockInv
<1>4. UNCHANGED <<named, file, accepted, removals, underLock, inWindow>>
  BY DEF world, removal
<1>5. /\ flock' \in [LockIds -> Procs \cup {None}]
      /\ \A l \in LockIds : flock'[l] = IF flock[l] = p THEN None ELSE flock[l]
  BY <1>2 DEF LockInv, LockTypeOK, Unlocked
<1>6. LockTypeOK'
  BY <1>3, <1>4, <1>5 DEF LockInv, LockTypeOK
<1>7. /\ ~Holds(p)' /\ ~Inside(p)' /\ ~C1(p)' /\ ~MayPost(p)' /\ ~MaySend(p)'
      /\ \A q \in Procs : q # p =>
            /\ (Holds(q)' <=> Holds(q)) /\ (Inside(q)' <=> Inside(q)) /\ (C1(q)' <=> C1(q))
            /\ (MayPost(q)' <=> MayPost(q)) /\ (MaySend(q)' <=> MaySend(q))
  <2>1. /\ ~Holds(p)' /\ ~Inside(p)' /\ ~C1(p)' /\ ~MayPost(p)' /\ ~MaySend(p)'
    BY <1>1, <1>3 DEF Holds, Inside, C1, MayPost, MaySend, Saving
  <2> QED
    BY <2>1, <1>1, <1>2, <1>4, OneRecord DEF LockInv
<1>8. FdOK'
  BY <1>1, <1>3, <1>5, <1>7, ZenonT(60) DEF LockInv, FdOK
<1>9. HoldOK'
  BY <1>3, <1>5, <1>7 DEF LockInv, HoldOK, LockTypeOK
<1>10. StepOK'
  BY <1>1, <1>3 DEF LockInv, StepOK, Saving
<1>11. NamedOK' /\ WindowOK'
  BY <1>3, <1>4, <1>7 DEF LockInv, NamedOK, WindowOK
<1>12. LiveOK'
  BY <1>4, <1>7 DEF LockInv, LiveOK
<1> QED
  BY <1>6, <1>8, <1>9, <1>10, <1>11, <1>12 DEF LockInv

-----------------------------------------------------------------------------
(* One lemma per action *)

\* Open: the named file, or a new one that no process has open.
LEMMA OpenInv ==
    ASSUME LockInv, NEW p \in Procs, Open(p)
    PROVE  LockInv'
<1>1. PICK l \in IF named # None THEN {named} ELSE LockIds \ OpenFds :
         /\ named' = l
         /\ Set(p, [proc[p] EXCEPT !.pc = "opened", !.fd = l, !.tries = @ + 1])
  BY DEF Open
<1>2. UNCHANGED <<flock, file, accepted, removals, underLock, inWindow>> /\ proc[p].pc = "idle"
  BY DEF Open, world, removal
<1>3. l \in LockIds /\ (named # None => l = named) /\ (named = None => \A q \in Procs : proc[q].fd # l)
  BY DEF LockInv, LockTypeOK, OpenFds
<1> DEFINE r == [proc[p] EXCEPT !.pc = "opened", !.fd = l, !.tries = @ + 1]
<1>4. r \in ProcStates /\ r.pc = "opened" /\ r.fd = l
  <2>1. proc[p] \in ProcStates /\ proc[p].tries \in 0 .. Attempts /\ proc[p].tries < Attempts
    BY <1>2 DEF LockInv, LockTypeOK, StepOK, ProcStates
  <2>2. proc[p].tries + 1 \in 0 .. Attempts
    BY <2>1, LockAssumption
  <2> QED
    BY <1>3, <2>1, <2>2 DEF ProcStates, LockPCs
<1>5. /\ proc' \in [Procs -> ProcStates]
      /\ proc'[p] = r
      /\ \A q \in Procs : q # p =>
            /\ proc'[q] = proc[q]
            /\ (Holds(q)' <=> Holds(q)) /\ (Inside(q)' <=> Inside(q))
            /\ (C1(q)' <=> C1(q)) /\ (MayPost(q)' <=> MayPost(q))
  BY <1>1, <1>4, OneRecord DEF LockInv
<1> HIDE DEF r
<1>6. /\ ~Holds(p)' /\ ~Inside(p)' /\ ~C1(p)' /\ ~MayPost(p)' /\ ~MaySend(p)'
      /\ ~Holds(p)
  BY <1>2, <1>4, <1>5 DEF Holds, Inside, C1, MayPost, MaySend, Saving
<1>7. \A q \in Procs : MaySend(q)' => MaySend(q)
  BY <1>1, <1>3, <1>5, <1>6 DEF MaySend, MayPost, C1
<1>8. LockTypeOK'
  BY <1>1, <1>2, <1>3, <1>5 DEF LockInv, LockTypeOK
<1>9. FdOK'
  BY <1>2, <1>3, <1>4, <1>5, <1>6 DEF LockInv, FdOK
<1>10. HoldOK'
  BY <1>2, <1>5, <1>6 DEF LockInv, HoldOK, LockTypeOK
<1>11. StepOK'
  BY <1>4, <1>5 DEF LockInv, StepOK, Saving
<1>12. NamedOK'
  BY <1>1, <1>2, <1>3, <1>5, <1>6, LockAssumption DEF LockInv, NamedOK, FdOK, Holds
<1>13. WindowOK'
  <2>1. \A q \in Procs : C1(q) => proc[q].fd \in LockIds
    BY DEF LockInv, FdOK, C1, Holds, Inside, Saving, LockPCs
  <2> QED
    BY <1>1, <1>2, <1>3, <1>5, <1>6, <2>1, LockAssumption DEF LockInv, WindowOK
<1>14. LiveOK'
  BY <1>2, <1>5, <1>6, <1>7 DEF LockInv, LiveOK
<1> QED
  BY <1>8, <1>9, <1>10, <1>11, <1>12, <1>13, <1>14 DEF LockInv

\* Flock: the lock of the inode opened, if nobody has it.
LEMMA FlockInv ==
    ASSUME LockInv, NEW p \in Procs, Flock(p)
    PROVE  LockInv'
<1>1. CASE flock[proc[p].fd] # None
  BY <1>1, EndInv DEF Flock
<1>2. CASE flock[proc[p].fd] = None
  <2> DEFINE r == [proc[p] EXCEPT !.pc = "flocked"]
  <2>1. /\ proc[p].pc = "opened" /\ proc[p].fd \in LockIds
        /\ Set(p, r) /\ flock' = [flock EXCEPT ![proc[p].fd] = p]
        /\ UNCHANGED <<named, file, accepted, removals, underLock, inWindow>>
    BY <1>2 DEF Flock, LockInv, FdOK, world, removal
  <2>2. r \in ProcStates /\ r.pc = "flocked" /\ r.fd = proc[p].fd
    BY DEF LockInv, LockTypeOK, ProcStates, LockPCs
  <2>3. /\ proc' \in [Procs -> ProcStates]
        /\ proc'[p] = r
        /\ \A q \in Procs : q # p =>
              /\ proc'[q] = proc[q]
              /\ (Holds(q)' <=> Holds(q)) /\ (Inside(q)' <=> Inside(q))
              /\ (C1(q)' <=> C1(q)) /\ (MayPost(q)' <=> MayPost(q)) /\ (MaySend(q)' <=> MaySend(q))
    BY <2>1, <2>2, OneRecord DEF LockInv
  <2> HIDE DEF r
  <2>4. Holds(p)' /\ ~Inside(p)' /\ ~C1(p)' /\ ~MayPost(p)' /\ ~MaySend(p)'
    BY <2>2, <2>3 DEF Holds, Inside, C1, MayPost, MaySend, Saving
  <2>5. /\ flock' \in [LockIds -> Procs \cup {None}]
        /\ \A l \in LockIds : flock'[l] = IF l = proc[p].fd THEN p ELSE flock[l]
    BY <2>1 DEF LockInv, LockTypeOK
  <2>6. LockTypeOK'
    BY <2>1, <2>3, <2>5 DEF LockInv, LockTypeOK
  <2>7. FdOK'
    BY <1>2, <2>1, <2>2, <2>3, <2>4, <2>5, LockAssumption DEF LockInv, FdOK
  <2>8. HoldOK'
    BY <2>1, <2>2, <2>3, <2>4, <2>5 DEF LockInv, HoldOK, LockTypeOK, Holds, Inside
  <2>9. StepOK' /\ NamedOK' /\ WindowOK'
    BY <2>1, <2>2, <2>3, <2>4 DEF LockInv, StepOK, NamedOK, WindowOK, Saving
  <2>10. LiveOK'
    BY <2>1, <2>3, <2>4 DEF LockInv, LiveOK
  <2> QED
    BY <2>6, <2>7, <2>8, <2>9, <2>10 DEF LockInv
<1> QED
  BY <1>1, <1>2

\* A step of a process that keeps its lock and works on (again): the locks,
\* descriptors and names stay as the invariant has them.
LEMMA WithinInv ==
    ASSUME LockInv, NEW p \in Procs, NEW r \in ProcStates,
           Holds(p), Inside(p) \/ proc[p].fd = named,
           Set(p, r), r.pc \in LockPCs \ {"idle", "opened", "flocked", "ended"}, r.fd = proc[p].fd,
           UNCHANGED <<named, flock, removal>>
    PROVE  /\ proc' \in [Procs -> ProcStates]
           /\ proc'[p] = r
           /\ \A q \in Procs : q # p =>
                /\ proc'[q] = proc[q]
                /\ (C1(q)' <=> C1(q)) /\ (MayPost(q)' <=> MayPost(q)) /\ (MaySend(q)' <=> MaySend(q))
           /\ FdOK' /\ HoldOK' /\ NamedOK'
<1>1. UNCHANGED <<named, flock, removals, underLock, inWindow>>
  BY DEF removal
<1>2. /\ proc' \in [Procs -> ProcStates]
      /\ proc'[p] = r
      /\ \A q \in Procs : q # p =>
            /\ proc'[q] = proc[q]
            /\ (Holds(q)' <=> Holds(q)) /\ (Inside(q)' <=> Inside(q))
            /\ (C1(q)' <=> C1(q)) /\ (MayPost(q)' <=> MayPost(q)) /\ (MaySend(q)' <=> MaySend(q))
  BY <1>1, OneRecord DEF LockInv
<1>3. Holds(p)' /\ Inside(p)'
  BY <1>2 DEF Holds, Inside
<1>4. FdOK'
  BY <1>1, <1>2, <1>3 DEF LockInv, FdOK
<1>5. HoldOK'
  BY <1>1, <1>2, <1>3 DEF LockInv, HoldOK, LockTypeOK
<1>6. NamedOK'
  BY <1>1, <1>2, <1>3 DEF LockInv, NamedOK
<1> QED
  BY <1>2, <1>4, <1>5, <1>6

\* StillNamed: a replaced lock file is dropped, the named one kept.
LEMMA StillNamedInv ==
    ASSUME LockInv, NEW p \in Procs, StillNamed(p)
    PROVE  LockInv'
<1>1. proc[p].pc = "flocked" /\ Holds(p) /\ UNCHANGED <<named, world>>
  BY DEF StillNamed, Holds
<1>2. proc[p] \in ProcStates /\ UNCHANGED <<file, accepted, removals, underLock, inWindow>>
  BY <1>1 DEF LockInv, LockTypeOK, world, removal
<1>3. CASE proc[p].fd = named
  <2> DEFINE r == [proc[p] EXCEPT !.pc = "locked"]
  <2>1. Set(p, r) /\ UNCHANGED flock
    BY <1>3 DEF StillNamed
  <2>2. r \in ProcStates /\ r.pc = "locked" /\ r.fd = proc[p].fd
    BY <1>2 DEF ProcStates, LockPCs
  <2> HIDE DEF r
  <2>3. r.pc \in LockPCs \ {"idle", "opened", "flocked", "ended"}
    BY <2>2 DEF LockPCs
  <2>4. /\ proc' \in [Procs -> ProcStates]
        /\ proc'[p] = r
        /\ \A q \in Procs : q # p =>
             /\ proc'[q] = proc[q]
             /\ (C1(q)' <=> C1(q)) /\ (MayPost(q)' <=> MayPost(q)) /\ (MaySend(q)' <=> MaySend(q))
        /\ FdOK' /\ HoldOK' /\ NamedOK'
    BY <1>1, <1>2, <1>3, <2>1, <2>2, <2>3, WithinInv DEF world, removal
  <2>5. ~C1(p)' /\ ~MayPost(p)' /\ ~MaySend(p)'
    BY <2>2, <2>4 DEF C1, MayPost, MaySend, Saving
  <2>6. LockTypeOK'
    BY <1>1, <1>2, <2>1, <2>4 DEF LockInv, LockTypeOK
  <2>7. StepOK' /\ WindowOK'
    BY <1>1, <1>2, <2>2, <2>4, <2>5 DEF LockInv, StepOK, WindowOK, Saving
  <2>8. LiveOK'
    BY <1>2, <2>4, <2>5 DEF LockInv, LiveOK
  <2> QED
    BY <2>4, <2>6, <2>7, <2>8 DEF LockInv
<1>4. CASE proc[p].fd # named /\ proc[p].tries < Attempts
  <2> DEFINE r == [proc[p] EXCEPT !.pc = "idle", !.fd = None]
  <2>1. Set(p, r) /\ flock' = Unlocked(p)
    BY <1>4 DEF StillNamed
  <2>2. r \in ProcStates /\ r.pc = "idle" /\ r.fd = None /\ r.tries < Attempts
    BY <1>2, <1>4 DEF ProcStates, LockPCs
  <2>3. /\ proc' \in [Procs -> ProcStates]
        /\ proc'[p] = r
        /\ \A q \in Procs : q # p =>
              /\ proc'[q] = proc[q]
              /\ (Holds(q)' <=> Holds(q)) /\ (Inside(q)' <=> Inside(q))
              /\ (C1(q)' <=> C1(q)) /\ (MayPost(q)' <=> MayPost(q)) /\ (MaySend(q)' <=> MaySend(q))
    BY <1>1, <2>1, <2>2, OneRecord DEF LockInv
  <2> HIDE DEF r
  <2>4. ~Holds(p)' /\ ~Inside(p)' /\ ~C1(p)' /\ ~MayPost(p)' /\ ~MaySend(p)'
    BY <2>2, <2>3 DEF Holds, Inside, C1, MayPost, MaySend, Saving
  <2>5. /\ flock' \in [LockIds -> Procs \cup {None}]
        /\ \A l \in LockIds : flock'[l] = IF flock[l] = p THEN None ELSE flock[l]
    BY <2>1 DEF LockInv, LockTypeOK, Unlocked
  <2>6. LockTypeOK'
    BY <1>1, <1>2, <2>3, <2>5 DEF LockInv, LockTypeOK
  <2>7. FdOK'
    BY <2>2, <2>3, <2>4, <2>5 DEF LockInv, FdOK
  <2>8. HoldOK'
    BY <2>3, <2>4, <2>5 DEF LockInv, HoldOK, LockTypeOK
  <2>9. StepOK' /\ NamedOK' /\ WindowOK'
    BY <1>1, <1>2, <2>2, <2>3, <2>4 DEF LockInv, StepOK, NamedOK, WindowOK, Saving
  <2>10. LiveOK'
    BY <1>2, <2>3, <2>4 DEF LockInv, LiveOK
  <2> QED
    BY <2>6, <2>7, <2>8, <2>9, <2>10 DEF LockInv
<1>5. CASE proc[p].fd # named /\ ~(proc[p].tries < Attempts)
  BY <1>1, <1>5, EndInv DEF StillNamed
<1> QED
  BY <1>3, <1>4, <1>5

\* Load: the chunk as the state file has it; one in doubt is settled.
LEMMA LoadInv ==
    ASSUME LockInv, NEW p \in Procs, Load(p)
    PROVE  LockInv'
<1>1. /\ proc[p].pc = "locked" /\ Holds(p) /\ Inside(p)
      /\ UNCHANGED <<named, flock, file, accepted, removals, underLock, inWindow>>
  BY DEF Load, Holds, Inside, LockPCs, world, removal
<1>2. proc[p] \in ProcStates /\ file.id \in FileIds /\ file.status \in Statuses
  BY <1>1 DEF LockInv, LockTypeOK
<1>3. PICK r \in ProcStates :
         /\ Set(p, r) /\ r.fd = proc[p].fd
         /\ \/ file.status = "pending" /\ r.pc = "loaded"
            \/ r.pc = "save" /\ r.status = "ambiguous" /\ r.then = "release"
            \/ r.pc = "release"
  <2> DEFINE r == [proc[p] EXCEPT !.ident = file.id, !.status = file.status]
             a == [r EXCEPT !.pc = "loaded"]
             b == [r EXCEPT !.pc = "save", !.status = "ambiguous", !.then = "release"]
             c == [r EXCEPT !.pc = "release"]
  <2>1. r \in ProcStates /\ r.fd = proc[p].fd
    BY <1>2 DEF ProcStates
  <2> HIDE DEF r
  <2>2. /\ a \in ProcStates /\ a.fd = proc[p].fd /\ a.pc = "loaded"
        /\ b \in ProcStates /\ b.fd = proc[p].fd /\ b.pc = "save"
        /\ b.status = "ambiguous" /\ b.then = "release"
        /\ c \in ProcStates /\ c.fd = proc[p].fd /\ c.pc = "release"
    BY <2>1 DEF ProcStates, LockPCs, Statuses
  <2>3. \/ file.status = "pending" /\ Set(p, a)
        \/ Set(p, b)
        \/ Set(p, c)
    BY DEF Load, r
  <2> QED
    BY <2>2, <2>3
<1>4. r.pc \in LockPCs \ {"idle", "opened", "flocked", "ended"}
  BY <1>3 DEF LockPCs
<1>5. /\ proc' \in [Procs -> ProcStates]
      /\ proc'[p] = r
      /\ \A q \in Procs : q # p =>
           /\ proc'[q] = proc[q]
           /\ (C1(q)' <=> C1(q)) /\ (MayPost(q)' <=> MayPost(q)) /\ (MaySend(q)' <=> MaySend(q))
      /\ FdOK' /\ HoldOK' /\ NamedOK'
  BY <1>1, <1>3, <1>4, WithinInv DEF removal
<1>6. ~C1(p)' /\ ~MayPost(p)' /\ (MaySend(p)' => file.status = "pending")
  BY <1>3, <1>5 DEF C1, MayPost, MaySend, Saving
<1>7. LockTypeOK'
  BY <1>1, <1>5 DEF LockInv, LockTypeOK
<1>8. StepOK' /\ WindowOK'
  BY <1>1, <1>3, <1>5, <1>6 DEF LockInv, StepOK, WindowOK, Saving
<1>9. LiveOK'
  BY <1>1, <1>5, <1>6 DEF LockInv, LiveOK
<1> QED
  BY <1>5, <1>7, <1>8, <1>9 DEF LockInv

\* VerifyLock: only a process whose lock is on the named file starts its C1.
LEMMA VerifyLockInv ==
    ASSUME LockInv, NEW p \in Procs, VerifyLock(p)
    PROVE  LockInv'
<1>1. /\ proc[p].pc = "loaded" /\ Holds(p) /\ Inside(p)
      /\ UNCHANGED <<named, file, accepted, removals, underLock, inWindow>>
  BY DEF VerifyLock, Holds, Inside, LockPCs, world, removal
<1>2. CASE proc[p].fd # named
  BY <1>2, EndInv DEF VerifyLock
<1>3. CASE proc[p].fd = named
  <2> DEFINE r == [proc[p] EXCEPT !.pc = "save", !.status = "submitting", !.then = "post"]
  <2>1. Set(p, r) /\ UNCHANGED flock
    BY <1>3 DEF VerifyLock, Save
  <2>2. /\ r \in ProcStates /\ r.fd = proc[p].fd
        /\ r.pc = "save" /\ r.status = "submitting" /\ r.then = "post"
    BY ZenonT(60) DEF LockInv, LockTypeOK, ProcStates, LockPCs, Statuses
  <2> HIDE DEF r
  <2>3. r.pc \in LockPCs \ {"idle", "opened", "flocked", "ended"}
    BY <2>2 DEF LockPCs
  <2>4. /\ proc' \in [Procs -> ProcStates]
        /\ proc'[p] = r
        /\ \A q \in Procs : q # p =>
             /\ proc'[q] = proc[q]
             /\ (C1(q)' <=> C1(q)) /\ (MayPost(q)' <=> MayPost(q)) /\ (MaySend(q)' <=> MaySend(q))
        /\ FdOK' /\ HoldOK' /\ NamedOK'
    BY <1>1, <2>1, <2>2, <2>3, WithinInv DEF removal
  <2>5. MaySend(p) /\ ~MayPost(p)'
    BY <1>1, <1>3, <2>2, <2>4 DEF MaySend, MayPost, Saving
  <2>6. LockTypeOK'
    BY <1>1, <2>1, <2>4 DEF LockInv, LockTypeOK
  <2>7. StepOK'
    BY <2>2, <2>4 DEF LockInv, StepOK
  <2>8. WindowOK'
    BY <1>1, <1>3, <2>2, <2>4 DEF LockInv, WindowOK
  <2>9. LiveOK'
    BY <1>1, <2>4, <2>5 DEF LockInv, LiveOK
  <2> QED
    BY <2>4, <2>6, <2>7, <2>8, <2>9 DEF LockInv
<1> QED
  BY <1>2, <1>3

\* CheckIdentity: the temporary of a checkpoint whose file is still its own.
LEMMA CheckIdentityInv ==
    ASSUME LockInv, NEW p \in Procs, CheckIdentity(p)
    PROVE  LockInv'
<1>1. /\ proc[p].pc = "save" /\ Holds(p) /\ Inside(p)
      /\ UNCHANGED <<named, file, accepted, removals, underLock, inWindow>>
  BY DEF CheckIdentity, Holds, Inside, LockPCs, world, removal
<1>2. CASE file.id # proc[p].ident
  BY <1>2, EndInv DEF CheckIdentity
<1>3. CASE file.id = proc[p].ident
  <2>1. PICK id \in FileIds : Set(p, [proc[p] EXCEPT !.pc = "rename", !.temp = id]) /\ UNCHANGED flock
    BY <1>3 DEF CheckIdentity
  <2> DEFINE r == [proc[p] EXCEPT !.pc = "rename", !.temp = id]
  <2>2. /\ r \in ProcStates /\ r.fd = proc[p].fd /\ r.temp \in FileIds
        /\ r.pc = "rename" /\ r.status = proc[p].status /\ r.then = proc[p].then
    BY DEF LockInv, LockTypeOK, ProcStates, LockPCs
  <2>3. Set(p, r)
    BY <2>1
  <2> HIDE DEF r
  <2>4. r.pc \in LockPCs \ {"idle", "opened", "flocked", "ended"}
    BY <2>2 DEF LockPCs
  <2>5. /\ proc' \in [Procs -> ProcStates]
        /\ proc'[p] = r
        /\ \A q \in Procs : q # p =>
             /\ proc'[q] = proc[q]
             /\ (C1(q)' <=> C1(q)) /\ (MayPost(q)' <=> MayPost(q)) /\ (MaySend(q)' <=> MaySend(q))
        /\ FdOK' /\ HoldOK' /\ NamedOK'
    BY <1>1, <2>1, <2>2, <2>3, <2>4, WithinInv DEF removal
  <2>6. (C1(p)' <=> C1(p)) /\ (MayPost(p)' <=> MayPost(p)) /\ (MaySend(p)' <=> MaySend(p))
    BY <1>1, <2>2, <2>5 DEF C1, MayPost, MaySend, Saving
  <2>7. LockTypeOK'
    BY <1>1, <2>1, <2>5 DEF LockInv, LockTypeOK
  <2>8. StepOK'
    BY <1>1, <2>2, <2>5 DEF LockInv, StepOK, Saving
  <2>9. WindowOK'
    BY <1>1, <2>2, <2>5, <2>6 DEF LockInv, WindowOK
  <2>10. LiveOK'
    BY <1>1, <2>5, <2>6 DEF LockInv, LiveOK
  <2> QED
    BY <2>5, <2>7, <2>8, <2>9, <2>10 DEF LockInv
<1> QED
  BY <1>2, <1>3

\* Rename: the state file says what the process saved, and the process goes on.
LEMMA RenameInv ==
    ASSUME LockInv, NEW p \in Procs, Rename(p)
    PROVE  LockInv'
<1> DEFINE r == [proc[p] EXCEPT !.pc = proc[p].then, !.ident = proc[p].temp, !.temp = None]
<1>1. /\ proc[p].pc = "rename" /\ Holds(p) /\ Inside(p) /\ Set(p, r)
      /\ UNCHANGED <<named, flock, accepted, removals, underLock, inWindow>>
      /\ file' = [id |-> proc[p].temp, status |-> proc[p].status]
  BY DEF Rename, Holds, Inside, LockPCs, removal
<1>2. /\ proc[p] \in ProcStates /\ proc[p].temp \in FileIds
      /\ \/ proc[p].status = "submitting" /\ proc[p].then = "post"
         \/ proc[p].status \in {"submitted", "ambiguous"} /\ proc[p].then = "release"
         \/ proc[p].status = "pending" /\ proc[p].then = "loaded"
  BY <1>1 DEF LockInv, LockTypeOK, StepOK, Saving
<1>3. r \in ProcStates /\ r.fd = proc[p].fd /\ r.pc = proc[p].then
  BY <1>2 DEF ProcStates
<1>4. file' \in [id : FileIds, status : Statuses] /\ file'.status = proc[p].status
  BY <1>1, <1>2 DEF ProcStates
<1> HIDE DEF r
<1>5. r.pc \in LockPCs \ {"idle", "opened", "flocked", "ended"}
  BY <1>2, <1>3 DEF LockPCs
<1>6. /\ proc' \in [Procs -> ProcStates]
      /\ proc'[p] = r
      /\ \A q \in Procs : q # p =>
           /\ proc'[q] = proc[q]
           /\ (C1(q)' <=> C1(q)) /\ (MayPost(q)' <=> MayPost(q)) /\ (MaySend(q)' <=> MaySend(q))
      /\ FdOK' /\ HoldOK' /\ NamedOK'
  BY <1>1, <1>3, <1>5, WithinInv DEF removal
<1>7. LockTypeOK'
  BY <1>1, <1>4, <1>6 DEF LockInv, LockTypeOK
<1>8. StepOK' /\ WindowOK' /\ ~C1(p)'
  BY <1>1, <1>2, <1>3, <1>6 DEF LockInv, StepOK, WindowOK, Saving, C1
<1>9. LiveOK'
  <2> SUFFICES ASSUME ~inWindow PROVE LiveOK'
    BY <1>1 DEF LiveOK
  <2>1. CASE proc[p].status = "submitting" /\ proc[p].then = "post"
    <3>1. C1(p) /\ MaySend(p) /\ MaySend(p)' /\ file'.status = "submitting"
      BY <1>1, <1>3, <1>4, <1>6, <2>1 DEF C1, MaySend, MayPost, Saving
    <3>2. accepted = 0 /\ \A q \in Procs : MayPost(q) => q = p
      BY <3>1 DEF LockInv, LiveOK
    <3>3. \A q \in Procs : q # p => ~MaySend(q)
      <4> SUFFICES ASSUME NEW q \in Procs, q # p, MaySend(q) PROVE FALSE
        OBVIOUS
      <4>1. proc[p].fd = named
        BY <3>1 DEF LockInv, WindowOK
      <4>2. ~MayPost(q)
        BY <3>2
      <4>3. proc[q].fd = named /\ Holds(q)
        BY <4>2 DEF LockInv, WindowOK, MaySend, C1, Holds, Inside, LockPCs, Saving
      <4> QED
        BY <1>1, <4>1, <4>3, OneHolder
    <3> QED
      BY <1>1, <1>6, <3>1, <3>2, <3>3 DEF LockInv, LiveOK, MaySend
  <2>2. CASE proc[p].status \in {"submitted", "ambiguous"} /\ proc[p].then = "release"
    <3>1. ~MaySend(p)' /\ ~MayPost(p)' /\ file'.status # "pending"
      BY <1>3, <1>4, <1>6, <2>2 DEF C1, MaySend, MayPost, Saving
    <3> QED
      BY <1>1, <1>6, <3>1 DEF LockInv, LiveOK
  <2>3. CASE proc[p].status = "pending" /\ proc[p].then = "loaded"
    <3>1. MayPost(p) /\ MaySend(p) /\ ~MayPost(p)'
      BY <1>1, <1>3, <1>6, <2>3 DEF MaySend, MayPost, Saving
    <3>2. accepted = 0 /\ \A q \in Procs : MayPost(q) => q = p
      BY <3>1 DEF LockInv, LiveOK
    <3> QED
      BY <1>1, <1>6, <3>1, <3>2 DEF LockInv, LiveOK
  <2> QED
    BY <1>2, <2>1, <2>2, <2>3
<1> QED
  BY <1>6, <1>7, <1>8, <1>9 DEF LockInv

\* Post: whatever the answer, one that was not refused is the last.
LEMMA PostInv ==
    ASSUME LockInv, NEW p \in Procs, Post(p)
    PROVE  LockInv'
<1>1. /\ proc[p].pc = "post" /\ Holds(p) /\ Inside(p)
      /\ UNCHANGED <<named, flock, file, removals, underLock, inWindow>>
  BY DEF Post, Holds, Inside, LockPCs, removal
<1>2. PICK r \in ProcStates :
         /\ Set(p, r) /\ r.fd = proc[p].fd /\ r.pc = "save"
         /\ \/ /\ accepted' \in {accepted, accepted + 1}
               /\ r.status \in {"submitted", "ambiguous"} /\ r.then = "release"
            \/ accepted' = accepted /\ r.status = "pending" /\ r.then = "loaded"
  <2> DEFINE to(status, then) == [proc[p] EXCEPT !.pc = "save", !.status = status, !.then = then]
  <2>1. \A status \in Statuses, then \in LockPCs :
          /\ to(status, then) \in ProcStates /\ to(status, then).fd = proc[p].fd
          /\ to(status, then).pc = "save"
          /\ to(status, then).status = status /\ to(status, then).then = then
    BY ZenonT(60) DEF LockInv, LockTypeOK, ProcStates, LockPCs
  <2>2. \/ accepted' = accepted + 1 /\ Set(p, to("submitted", "release"))
        \/ accepted' \in {accepted, accepted + 1} /\ Set(p, to("ambiguous", "release"))
        \/ accepted' = accepted /\ Set(p, to("pending", "loaded"))
    BY DEF Post, Save
  <2>3. {"submitted", "ambiguous", "pending"} \subseteq Statuses /\ {"release", "loaded"} \subseteq LockPCs
    BY DEF Statuses, LockPCs
  <2> HIDE DEF to
  <2> QED
    BY <2>1, <2>2, <2>3
<1>3. r.pc \in LockPCs \ {"idle", "opened", "flocked", "ended"}
  BY <1>2 DEF LockPCs
<1>4. /\ proc' \in [Procs -> ProcStates]
      /\ proc'[p] = r
      /\ \A q \in Procs : q # p =>
           /\ proc'[q] = proc[q]
           /\ (C1(q)' <=> C1(q)) /\ (MayPost(q)' <=> MayPost(q)) /\ (MaySend(q)' <=> MaySend(q))
      /\ FdOK' /\ HoldOK' /\ NamedOK'
  BY <1>1, <1>2, <1>3, WithinInv DEF removal
<1>5. LockTypeOK'
  BY <1>1, <1>2, <1>4 DEF LockInv, LockTypeOK
<1>6. StepOK' /\ WindowOK' /\ ~C1(p)'
  BY <1>1, <1>2, <1>4 DEF LockInv, StepOK, WindowOK, C1, Saving
<1>7. LiveOK'
  <2> SUFFICES ASSUME ~inWindow PROVE LiveOK'
    BY <1>1 DEF LiveOK
  <2>1. MayPost(p) /\ MaySend(p)
    BY <1>1 DEF MayPost, MaySend
  <2>2. /\ accepted = 0 /\ file.status # "pending"
        /\ \A q \in Procs : q # p => ~MaySend(q) /\ ~MayPost(q)
    BY <2>1 DEF LockInv, LiveOK
  <2>3. MaySend(p)' <=> MayPost(p)'
    BY <1>2, <1>4, <1>6 DEF MaySend
  <2>4. MayPost(p)' => accepted' = 0
    BY <1>2, <1>4, <2>2 DEF MayPost, Saving
  <2> QED
    BY <1>1, <1>2, <1>4, <2>2, <2>3, <2>4 DEF LiveOK
<1> QED
  BY <1>4, <1>5, <1>6, <1>7 DEF LockInv

\* RemoveLock: no process holds an inode by name any more.
LEMMA RemoveLockInv ==
    ASSUME LockInv, RemoveLock
    PROVE  LockInv'
<1>1. /\ UNCHANGED <<flock, file, accepted, proc>> /\ named' = None
      /\ removals' = removals + 1 /\ removals < MaxRemovals
      /\ underLock' = (underLock \/ \E q \in Procs : Inside(q))
      /\ inWindow' = (inWindow \/ InC1 # {})
  BY DEF RemoveLock
<1>2. LockTypeOK'
  BY <1>1, LockAssumption DEF LockInv, LockTypeOK
<1>3. \A p \in Procs : /\ (Holds(p)' <=> Holds(p)) /\ (Inside(p)' <=> Inside(p))
                       /\ (C1(p)' <=> C1(p)) /\ (MayPost(p)' <=> MayPost(p))
  BY <1>1 DEF Holds, Inside, C1, MayPost
<1>4. FdOK' /\ StepOK'
  BY <1>1, <1>3 DEF LockInv, FdOK, StepOK
<1>5. HoldOK'
  BY <1>1, <1>3 DEF LockInv, HoldOK, LockTypeOK
<1>6. NamedOK'
  BY <1>1, <1>3 DEF NamedOK
<1>7. ~inWindow' => ~inWindow /\ \A p \in Procs : ~C1(p)
  BY <1>1 DEF InC1, C1, Saving
<1>8. WindowOK'
  BY <1>3, <1>7 DEF WindowOK
<1>9. \A p \in Procs : proc[p].pc = "loaded" => proc[p].fd # None
  BY LockAssumption DEF LockInv, FdOK, Holds, Inside, LockPCs
<1>10. \A p \in Procs : MaySend(p)' => MaySend(p)
  BY <1>1, <1>3, <1>9 DEF MaySend
<1>11. LiveOK'
  BY <1>1, <1>3, <1>7, <1>10 DEF LockInv, LiveOK
<1> QED
  BY <1>2, <1>4, <1>5, <1>6, <1>8, <1>11 DEF LockInv

-----------------------------------------------------------------------------
(* The theorems *)

\* Every initial state satisfies the inductive invariant.
LEMMA LockInitInv == LockInit => LockInv
<1> SUFFICES ASSUME LockInit PROVE LockInv
  OBVIOUS
<1>1. \A p \in Procs : proc[p] = NewProc
  BY DEF LockInit
<1>2. \A p \in Procs : ~Holds(p) /\ ~Inside(p) /\ ~C1(p) /\ ~MayPost(p) /\ ~MaySend(p)
  BY <1>1, NewProcTyped DEF Holds, Inside, C1, MayPost, MaySend, Saving
<1>3. LockTypeOK
  <2>1. flock \in [LockIds -> Procs \cup {None}] /\ proc \in [Procs -> ProcStates]
    BY NewProcTyped DEF LockInit
  <2>2. file \in [id : FileIds, status : Statuses]
    BY DEF LockInit, Statuses
  <2>3. accepted \in Nat /\ removals \in 0 .. MaxRemovals
    BY LockAssumption DEF LockInit
  <2>4. named \in LockIds \cup {None} /\ underLock \in BOOLEAN /\ inWindow \in BOOLEAN
    BY DEF LockInit
  <2> QED
    BY <2>1, <2>2, <2>3, <2>4 DEF LockTypeOK
<1>4. FdOK /\ StepOK
  BY <1>1, <1>2, NewProcTyped, LockAssumption DEF FdOK, StepOK, Saving
<1>5. HoldOK /\ NamedOK /\ WindowOK /\ LiveOK
  BY <1>2 DEF LockInit, HoldOK, NamedOK, WindowOK, LiveOK
<1> QED
  BY <1>3, <1>4, <1>5 DEF LockInv

\* Every step keeps the inductive invariant.
LEMMA LockStepInv == LockInv /\ [LockNext]_lockVars => LockInv'
<1> SUFFICES ASSUME LockInv, [LockNext]_lockVars PROVE LockInv'
  OBVIOUS
<1>1. ASSUME NEW p \in Procs, Step(p) PROVE LockInv'
  <2>1. CASE Release(p)
    BY <2>1, EndInv DEF Release
  <2> QED
    BY <1>1, <2>1, OpenInv, FlockInv, StillNamedInv, LoadInv, VerifyLockInv,
       CheckIdentityInv, RenameInv, PostInv DEF Step
<1>2. ASSUME NEW p \in Procs, ProcessCrash(p) PROVE LockInv'
  BY <1>2, EndInv DEF ProcessCrash
<1>3. CASE RemoveLock
  BY <1>3, RemoveLockInv
<1>4. CASE UNCHANGED lockVars
  <2>1. UNCHANGED <<named, flock, file, accepted, removals, underLock, inWindow, proc>>
    BY <1>4 DEF lockVars
  <2> QED
    BY <2>1 DEF LockInv, LockTypeOK, FdOK, HoldOK, StepOK, NamedOK, WindowOK, LiveOK,
                Holds, Inside, C1, MayPost, MaySend
<1> QED
  BY <1>1, <1>2, <1>3, <1>4 DEF LockNext

\* The invariant holds of every behaviour of the lock.
THEOREM LockInductive == LockSpec => []LockInv
<1>1. LockInit => LockInv
  BY LockInitInv
<1>2. LockInv /\ [LockNext]_lockVars => LockInv'
  BY LockStepInv
<1> QED
  BY <1>1, <1>2, PTL DEF LockSpec

\* Type correctness of the lock, the state file and the processes.
THEOREM LockTypeCorrect == LockSpec => []LockTypeOK
<1>1. LockInv => LockTypeOK
  BY DEF LockInv
<1> QED
  BY <1>1, LockInductive, PTL

\* As long as nobody removes the lock file under a working process, at most
\* one process works on the job, however many compete, die or reopen a file
\* that was replaced between their open and their flock.
THEOREM MutualExclusion == LockSpec => []OneProcess
<1>1. LockInv => OneProcess
  <2> SUFFICES ASSUME LockInv, ~underLock, NEW p \in Procs, NEW q \in Procs, Inside(p), Inside(q)
               PROVE  p = q
    BY DEF OneProcess
  <2>1. proc[p].fd = named /\ proc[q].fd = named
    BY DEF LockInv, NamedOK
  <2> QED
    BY <2>1, OneHolder DEF Holds
<1> QED
  BY <1>1, LockInductive, PTL

\* The chunk is accepted once, whenever the lock file is removed, unless that
\* happens between a holder's check of its lock and its C1 rename; the proof
\* does not need the identity check of a checkpoint.
THEOREM SentOnce == LockSpec => []SentTwiceOnlyInWindow
<1>1. LockInv => SentTwiceOnlyInWindow
  BY DEF LockInv, LiveOK, SentTwiceOnlyInWindow
<1> QED
  BY <1>1, LockInductive, PTL

=============================================================================

----------------------------- MODULE BulkOutput -----------------------------
(***************************************************************************)
(* The output CSV of one bulk-scan job (bulk/output.rs) and its protocol   *)
(* with the job state: bulk-scan claims the path, every results checkpoint *)
(* carries a rewrite (engine.rs save_with_output), resume-poll finds out   *)
(* what became of the last one (commands/bulk_scan.rs resolve_output).     *)
(*                                                                         *)
(* A file is known by its identity (device and inode).  The state records  *)
(* the identity of the job's file, `cur`, and before each rewrite that of  *)
(* the temporary about to be renamed over it, `next`.  The rows of a CSV   *)
(* and the results of a state are a count: results only ever accumulate    *)
(* (BulkJob, OutcomesAreFinal).  Inode numbers still recorded or in use    *)
(* are not reused.                                                         *)
(***************************************************************************)
EXTENDS Naturals, FiniteSets

CONSTANTS
    Paths,       \* output paths: the first --output-file and re-pointed ones
    FirstPath,   \* the path bulk-scan was given
    Ids,         \* file identities (bound of the model)
    NoId,        \* no identity: output.next is null
    NoFile,      \* nothing at a path
    NoRec,       \* no job state
    MaxResults,  \* bound of the model: results of the job
    MaxStarts    \* bound of the model: runs of the program

VARIABLES
    fs,       \* what is at each path
    lost,     \* earlier contents of each path a power loss may restore
    temps,    \* rewrite temporaries of the job
    disk,     \* the durable job state
    stale,    \* earlier job states a power loss may restore
    mem,      \* the running process's job state
    pc, exit,
    made,     \* the file this process prepared or claimed
    seen,     \* what the process last saw at the path it changes next
    touched,  \* someone else changed a path, or a power loss undid a rename
    orphan,   \* a claim was left behind: its process died before the
              \* checkpoint, or a removal of the undo failed
    starts

vars == <<fs, lost, temps, disk, stale, mem, pc, exit, made, seen, touched, orphan, starts>>

\* `mine`: written by the job (the program cannot see this).
Files == [id : Ids, rows : 0 .. MaxResults, mine : BOOLEAN]
Recs == [path : Paths, cur : Ids, next : Ids \cup {NoId}, results : 0 .. MaxResults]
Saves == {"saved", "unsaved", "unsynced"}
\* "undo": the checkpoint after a claim failed; "unlink": the undo found its
\* own file; "unclaim": the claimed file could not be written.
PCs == {"idle", "claimed", "ready", "prepared", "commit", "rename", "resolved",
        "undo", "unlink", "unclaim"}

ASSUME PathsAssumption ==
    /\ FirstPath \in Paths /\ MaxResults \in Nat /\ MaxStarts \in Nat
    /\ NoId \notin Ids /\ NoFile \notin Files /\ NoRec \notin Recs

TypeOK ==
    /\ fs \in [Paths -> Files \cup {NoFile}]
    /\ lost \in [Paths -> SUBSET (Files \cup {NoFile})]
    /\ temps \subseteq Files
    /\ disk \in Recs \cup {NoRec}
    /\ stale \subseteq Recs \cup {NoRec}
    /\ mem \in Recs \cup {NoRec}
    /\ pc \in PCs
    /\ exit \in {"none", "done", "stopped", "unset"}
    /\ made \in Files \cup {NoFile}
    /\ seen \in Files \cup {NoFile}
    /\ touched \in BOOLEAN /\ orphan \in BOOLEAN
    /\ starts \in 0 .. MaxStarts

IdsOf(rec) == IF rec = NoRec THEN {} ELSE {rec.cur, rec.next}

InUse ==
    {f.id : f \in ({fs[p] : p \in Paths} \cup temps \cup UNION {lost[p] : p \in Paths}) \ {NoFile}}
    \cup UNION {IdsOf(r) : r \in {disk, mem} \cup stale}

\* Variant of Fresh: the header line counts as a row.
FreshWithHeader(results) == [id : Ids \ InUse, rows : {results + 1}, mine : {TRUE}]

\* A file the job creates now with the rows of `results`.
Fresh(results) == [id : Ids \ InUse, rows : {results}, mine : {TRUE}]

-----------------------------------------------------------------------------
(* Steps the program is made of *)

\* StateFile::checkpoint of rec: as in BulkJob.
Checkpoint(rec, save) ==
    /\ disk' = IF save = "unsaved" THEN disk ELSE rec
    /\ stale' = CASE save = "saved" -> {}
                  [] save = "unsaved" -> stale
                  [] save = "unsynced" -> stale \cup {disk}

\* A directory entry changed; `synced`: its directory could be synced, which
\* is only a warning when it could not.
Place(p, f, synced) ==
    /\ fs' = [fs EXCEPT ![p] = f]
    /\ lost' = [lost EXCEPT ![p] = IF synced THEN {} ELSE @ \cup {fs[p]}]

Leave(how) ==
    /\ pc' = "idle" /\ exit' = how
    /\ mem' = NoRec /\ made' = NoFile /\ seen' = NoFile

\* A failed claim or its undo ends the run: bulk-scan, the first run, has set
\* up nothing.
GiveUp == Leave(IF starts = 1 THEN "unset" ELSE "stopped")

\* output.rs at_path: what is at the recorded path.
AtPath(rec) ==
    LET f == fs[rec.path] IN
    IF f = NoFile THEN "absent"
    ELSE IF f.id = rec.cur THEN "current"
    ELSE IF f.id = rec.next THEN "next"
    ELSE "foreign"

-----------------------------------------------------------------------------
(* bulk-scan: run *)

\* refuse_existing, then OutputFile::claim (O_EXCL) of the header-only CSV.
Claim(synced) ==
    /\ pc = "idle" /\ starts = 0 /\ starts < MaxStarts
    /\ fs[FirstPath] = NoFile
    /\ \E f \in Fresh(0) :
         /\ Place(FirstPath, f, synced)
         /\ mem' = [path |-> FirstPath, cur |-> f.id, next |-> NoId, results |-> 0]
         /\ made' = f
    /\ pc' = "claimed" /\ exit' = "none" /\ starts' = 1
    /\ UNCHANGED <<temps, disk, stale, seen, touched, orphan>>

\* Variant of FirstCheckpoint: the undo forgets a state that was renamed into
\* place but not synced.
FirstCheckpointKept(save, kept) ==
    /\ pc = "claimed" /\ ~kept
    /\ Checkpoint(mem, save)
    /\ IF save = "saved"
       THEN pc' = "ready" /\ made' = NoFile
       ELSE pc' = "undo" /\ UNCHANGED made
    /\ UNCHANGED <<fs, lost, temps, mem, exit, seen, touched, orphan, starts>>

\* The first checkpoint; after a failure Created::undo removes the state, which
\* is there when only its directory was not synced and is `kept` when the
\* removal fails, and goes on to the CSV.
FirstCheckpoint(save, kept) ==
    /\ pc = "claimed" /\ (kept => save = "unsynced")
    /\ IF save = "saved"
       THEN /\ Checkpoint(mem, save)
            /\ pc' = "ready" /\ made' = NoFile
       ELSE /\ disk' = IF kept THEN mem ELSE NoRec
            /\ stale' = IF save = "unsynced" THEN {mem, NoRec} ELSE stale
            /\ pc' = "undo" /\ UNCHANGED made
    /\ orphan' = (orphan \/ kept)
    /\ UNCHANGED <<fs, lost, temps, mem, exit, seen, touched, starts>>

-----------------------------------------------------------------------------
(* A claim that fails, and the undo of one *)

\* OutputFile::claim: the file was created and its write or sync fails, with
\* any part of the rows.
ClaimUnwritten(target, results) ==
    /\ \E n \in 0 .. results : \E f \in Fresh(n) :
         /\ Place(target, f, FALSE)
         /\ made' = f /\ seen' = f
         /\ mem' = [path |-> target, cur |-> f.id, next |-> NoId, results |-> results]
    /\ pc' = "unclaim" /\ exit' = "none" /\ starts' = starts + 1
    /\ UNCHANGED <<disk, stale, touched, orphan>>

ClaimFails ==
    /\ pc = "idle" /\ starts = 0 /\ starts < MaxStarts
    /\ fs[FirstPath] = NoFile
    /\ ClaimUnwritten(FirstPath, 0)
    /\ UNCHANGED temps

\* Variant of CheckUndo: the file is removed by its name.
UndoUnchecked ==
    /\ pc = "undo"
    /\ pc' = "unlink" /\ seen' = fs[mem.path]
    /\ UNCHANGED <<fs, lost, temps, disk, stale, mem, exit, made, touched, orphan, starts>>

\* OutputFile::remove_if, the identity check of the path.
CheckUndo ==
    /\ pc = "undo"
    /\ IF fs[mem.path] # NoFile /\ fs[mem.path].id = made.id
       THEN pc' = "unlink" /\ seen' = fs[mem.path] /\ UNCHANGED <<mem, exit, made>>
       ELSE GiveUp
    /\ UNCHANGED <<fs, lost, temps, disk, stale, touched, orphan, starts>>

\* The removal, a second call, and the one removal of a claim that could not
\* be written: what has the name now goes; that it fails is ignored.
RemoveByName(fails) ==
    /\ pc \in {"unlink", "unclaim"}
    /\ IF fails
       THEN /\ fs[mem.path] # NoFile
            /\ orphan' = TRUE /\ UNCHANGED <<fs, lost>>
       ELSE Place(mem.path, NoFile, FALSE) /\ UNCHANGED orphan
    /\ GiveUp
    /\ UNCHANGED <<temps, disk, stale, touched, starts>>

-----------------------------------------------------------------------------
(* Engine: save_with_output *)

\* Variant of Prepare: only the new rows are written.
PrepareAppending(more) ==
    /\ pc = "ready" /\ mem.results + more <= MaxResults
    /\ \E f \in Fresh(more) :
         /\ temps' = temps \cup {f}
         /\ made' = f
         /\ mem' = [mem EXCEPT !.results = @ + more, !.next = f.id]
    /\ pc' = "prepared"
    /\ UNCHANGED <<fs, lost, disk, stale, exit, seen, touched, orphan, starts>>

\* OutputFile::prepare: new results (or, at the end, the same) and the
\* temporary that holds all of them.
Prepare(more) ==
    /\ pc = "ready" /\ mem.results + more <= MaxResults
    /\ \E f \in Fresh(mem.results + more) :
         /\ temps' = temps \cup {f}
         /\ made' = f
         /\ mem' = [mem EXCEPT !.results = @ + more, !.next = f.id]
    /\ pc' = "prepared"
    /\ UNCHANGED <<fs, lost, disk, stale, exit, seen, touched, orphan, starts>>

\* The temporary cannot be written: the results are saved without a rewrite,
\* then the run stops.
PrepareFails(more, save) ==
    /\ pc = "ready" /\ mem.results + more <= MaxResults
    /\ Checkpoint([mem EXCEPT !.results = @ + more, !.next = NoId], save)
    /\ Leave("stopped")
    /\ UNCHANGED <<fs, lost, temps, touched, orphan, starts>>

\* The checkpoint that records output.next; on failure the temporary goes.
SaveNext(save) ==
    /\ pc = "prepared"
    /\ Checkpoint(mem, save)
    /\ IF save = "saved"
       THEN pc' = "commit" /\ UNCHANGED <<temps, exit, mem, made, seen>>
       ELSE temps' = temps \ {made} /\ Leave("stopped")
    /\ UNCHANGED <<fs, lost, touched, orphan, starts>>

\* Variant of CommitCheck: whatever is at the path is replaced.
CommitUnchecked ==
    /\ pc = "commit"
    /\ pc' = "rename" /\ seen' = fs[mem.path]
    /\ UNCHANGED <<temps, exit, mem, made, fs, lost, disk, stale, touched, orphan, starts>>

\* OutputFile::commit, the identity check of the path.
CommitCheck ==
    /\ pc = "commit"
    /\ IF AtPath(mem) = "foreign"
       THEN temps' = temps \ {made} /\ Leave("stopped")
       ELSE /\ pc' = "rename" /\ seen' = fs[mem.path]
            /\ UNCHANGED <<temps, exit, mem, made>>
    /\ UNCHANGED <<fs, lost, disk, stale, touched, orphan, starts>>

\* The rename, a second call: what is at the path now is replaced.  After
\* the last rewrite (all results) the run may end.
CommitRename(synced, last) ==
    /\ pc = "rename"
    /\ Place(mem.path, made, synced)
    /\ temps' = temps \ {made}
    /\ IF last /\ mem.results = MaxResults
       THEN Leave("done")
       ELSE /\ mem' = [mem EXCEPT !.cur = made.id, !.next = NoId]
            /\ pc' = "ready" /\ made' = NoFile /\ seen' = NoFile
            /\ UNCHANGED exit
    /\ UNCHANGED <<disk, stale, touched, orphan, starts>>

RenameFails ==
    /\ pc = "rename"
    /\ temps' = temps \ {made}
    /\ Leave("stopped")
    /\ UNCHANGED <<fs, lost, disk, stale, touched, orphan, starts>>

\* The run stops elsewhere (a submission or a poll failed).
Stop ==
    /\ pc = "ready"
    /\ Leave("stopped")
    /\ UNCHANGED <<fs, lost, temps, disk, stale, touched, orphan, starts>>

-----------------------------------------------------------------------------
(* resume-poll: resolve_output and its checkpoint *)

\* remove_leftover_temp: the temporary of the recorded rewrite.
Leftover == {t \in temps : t.id = disk.next}

\* What refuses before anything is written: a re-pointed path that exists,
\* or a recorded path with a file that is neither `cur` nor `next`.
Refuses(target) ==
    IF target # disk.path THEN fs[target] # NoFile ELSE AtPath(disk) = "foreign"

CanResume ==
    /\ pc = "idle" /\ disk # NoRec
    /\ 0 < starts /\ starts < MaxStarts

ResumeRefused(target) ==
    /\ CanResume /\ Refuses(target)
    /\ starts' = starts + 1
    /\ Leave("stopped")
    /\ UNCHANGED <<fs, lost, temps, disk, stale, touched, orphan>>

\* Variant of Resolve: output.next is dropped, never promoted.
ResolveNotPromoted(target, synced) ==
    /\ CanResume /\ ~Refuses(target)
    /\ target = disk.path /\ AtPath(disk) # "absent"
    /\ starts' = starts + 1 /\ exit' = "none" /\ pc' = "resolved"
    /\ temps' = temps \ Leftover
    /\ mem' = [disk EXCEPT !.next = NoId]
    /\ UNCHANGED <<fs, lost, made, disk, stale, seen, touched, orphan>>

\* The recorded rewrite is promoted when the path has it, its leftover
\* temporary removed, and an absent or re-pointed output claimed with the
\* rows of the loaded state.
Resolve(target, synced) ==
    /\ CanResume /\ ~Refuses(target)
    /\ starts' = starts + 1 /\ exit' = "none" /\ pc' = "resolved"
    /\ temps' = temps \ Leftover
    /\ IF target = disk.path /\ AtPath(disk) # "absent"
       THEN /\ mem' = [disk EXCEPT !.cur = IF AtPath(disk) = "next" THEN disk.next ELSE @,
                                   !.next = NoId]
            /\ UNCHANGED <<fs, lost, made>>
       ELSE \E f \in Fresh(disk.results) :
            /\ Place(target, f, synced)
            /\ made' = f
            /\ mem' = [path |-> target, cur |-> f.id, next |-> NoId, results |-> disk.results]
    /\ UNCHANGED <<disk, stale, seen, touched, orphan>>

\* An absent or re-pointed output is created but cannot be written.
ResolveUnwritten(target) ==
    /\ CanResume /\ ~Refuses(target)
    /\ target # disk.path \/ AtPath(disk) = "absent"
    /\ temps' = temps \ Leftover
    /\ ClaimUnwritten(target, disk.results)

\* The output's directory takes no temporary (probe, claim): the leftover is
\* gone, nothing else is.
ResolveFails(target) ==
    /\ CanResume /\ ~Refuses(target)
    /\ starts' = starts + 1
    /\ temps' = temps \ Leftover
    /\ Leave("stopped")
    /\ UNCHANGED <<fs, lost, disk, stale, touched, orphan>>

\* The checkpoint is due when the record changed or an attempt was settled;
\* when it fails, a file claimed by this run is to be removed again.
ResumeCheckpoint(settled, save) ==
    /\ pc = "resolved"
    /\ LET due == disk.next # NoId \/ made # NoFile \/ settled
           goOn == pc' = "ready" /\ made' = NoFile /\ UNCHANGED <<mem, exit, seen>>
       IN  IF ~due THEN goOn /\ UNCHANGED <<disk, stale>>
           ELSE /\ Checkpoint(mem, save)
                /\ \/ save = "saved" /\ goOn
                   \/ save # "saved" /\ made = NoFile /\ Leave("stopped")
                   \/ /\ save # "saved" /\ made # NoFile
                      /\ pc' = "undo" /\ UNCHANGED <<mem, exit, made, seen>>
    /\ UNCHANGED <<fs, lost, temps, touched, orphan, starts>>

-----------------------------------------------------------------------------
(* The world around the process *)

\* Somebody puts another file at a path, or removes what is there.
Intrude(p) ==
    /\ \E id \in Ids \ InUse :
         fs' = [fs EXCEPT ![p] = [id |-> id, rows |-> 0, mine |-> FALSE]]
    /\ lost' = [lost EXCEPT ![p] = {}]
    /\ touched' = TRUE
    /\ UNCHANGED <<temps, disk, stale, mem, pc, exit, made, seen, orphan, starts>>

Remove(p) ==
    /\ fs[p] # NoFile
    /\ fs' = [fs EXCEPT ![p] = NoFile]
    /\ lost' = [lost EXCEPT ![p] = {}]
    /\ UNCHANGED <<temps, disk, stale, mem, pc, exit, made, seen, touched, orphan, starts>>

\* The process dies; between a claim and its checkpoint this leaves a file
\* no state knows.
Unrecorded == pc \in {"claimed", "resolved", "undo", "unlink", "unclaim"} /\ made # NoFile

Crash ==
    /\ pc # "idle"
    /\ orphan' = (orphan \/ Unrecorded)
    /\ Leave("stopped")
    /\ UNCHANGED <<fs, lost, temps, disk, stale, touched, starts>>

PowerLoss ==
    /\ disk' \in {disk} \cup stale /\ stale' = {}
    /\ fs' \in [Paths -> Files \cup {NoFile}]
    /\ \A p \in Paths : fs'[p] \in {fs[p]} \cup lost[p]
    /\ lost' = [p \in Paths |-> {}]
    /\ touched' = (touched \/ fs' # fs)
    /\ orphan' = (orphan \/ Unrecorded)
    /\ Leave(IF pc = "idle" THEN exit ELSE "stopped")
    /\ UNCHANGED <<temps, starts>>

-----------------------------------------------------------------------------
Init ==
    /\ fs = [p \in Paths |-> NoFile]
    /\ lost = [p \in Paths |-> {}]
    /\ temps = {}
    /\ disk = NoRec /\ stale = {} /\ mem = NoRec
    /\ pc = "idle" /\ exit = "none" /\ made = NoFile /\ seen = NoFile
    /\ touched = FALSE /\ orphan = FALSE
    /\ starts = 0

Next ==
    \/ \E synced \in BOOLEAN : Claim(synced)
    \/ \E save \in Saves, kept \in BOOLEAN : FirstCheckpoint(save, kept)
    \/ ClaimFails
    \/ CheckUndo
    \/ \E fails \in BOOLEAN : RemoveByName(fails)
    \/ \E more \in 0 .. 1 : Prepare(more)
    \/ \E more \in 0 .. 1, save \in Saves : PrepareFails(more, save)
    \/ \E save \in Saves : SaveNext(save)
    \/ CommitCheck
    \/ \E synced, last \in BOOLEAN : CommitRename(synced, last)
    \/ RenameFails
    \/ Stop
    \/ \E p \in Paths : ResumeRefused(p)
    \/ \E p \in Paths, synced \in BOOLEAN : Resolve(p, synced)
    \/ \E p \in Paths : ResolveUnwritten(p)
    \/ \E p \in Paths : ResolveFails(p)
    \/ \E settled \in BOOLEAN, save \in Saves : ResumeCheckpoint(settled, save)
    \/ \E p \in Paths : Intrude(p)
    \/ \E p \in Paths : Remove(p)
    \/ Crash
    \/ PowerLoss

\* Liveness of a run is BulkJob's; nothing is assumed fair here.
Spec == Init /\ [][Next]_vars

-----------------------------------------------------------------------------
(* Properties *)

\* The CSV the state file vouches for never shows a result the state does
\* not hold, whether the process dies or the power fails before, between or
\* after the steps of a rewrite.
CsvNeverAhead ==
    (disk # NoRec /\ AtPath(disk) \in {"current", "next"})
        => fs[disk.path].rows <= disk.results

\* What the program does to a path that has a file of somebody else: a rewrite
\* or a removal leaves it alone, unless it was put there after the program last
\* looked, between the check and the rename of commit or the removal of
\* remove_if, or after the create of a claim that could not be written.
OthersFilesSurvive ==
    [][\A p \in Paths :
         (fs[p] # NoFile /\ ~fs[p].mine /\ fs'[p] # fs[p] /\ pc' # pc)
            => pc \in {"rename", "unlink", "unclaim"} /\ p = mem.path /\ fs[p] # seen]_vars

\* Rows are never taken out of the job's file again, by a crash, a failed
\* save or a resume; only a power loss can bring an older file back.
RowsNeverLost ==
    [][\A p \in Paths :
         (fs[p] # NoFile /\ fs[p].mine /\ fs'[p] # NoFile /\ fs'[p].mine)
            => fs'[p].rows >= fs[p].rows \/ fs'[p] \in lost[p]]_vars

\* Whatever step a run died in, resume-poll recognises the file the job left
\* at its recorded path, unless a claim was left behind.
OwnFileRecognised ==
    (pc = "idle" /\ disk # NoRec /\ ~touched /\ ~orphan) => AtPath(disk) # "foreign"

\* A run that reports completion left a CSV with every result of the job; a
\* failed setup leaves neither a state nor a file of its own, whichever step
\* failed, unless the removal itself did.
ReportedTruly ==
    [][/\ (exit # "done" /\ exit' = "done") =>
            /\ fs'[mem.path] = made /\ made.mine
            /\ made.rows = MaxResults /\ disk.results = MaxResults
       /\ (exit # "unset" /\ exit' = "unset" /\ ~orphan') =>
            /\ disk' = NoRec
            /\ \A p \in Paths : fs'[p] # NoFile => ~fs'[p].mine]_vars

=============================================================================

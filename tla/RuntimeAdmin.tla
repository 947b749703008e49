---------------------------- MODULE RuntimeAdmin ----------------------------
(***************************************************************************)
(* The commands that write security profiles, custom topics and DLP        *)
(* resources, several of them at once against one tenant: the single edits *)
(* (RuntimeEdits, DlpEdits), the cleanup of old revisions                  *)
(* (ProfileCleanup), the restores of backups (ProfileRestore, DlpRestore); *)
(* and those of API keys (KeySaving).                                      *)
(***************************************************************************)
EXTENDS RuntimeEdits, ProfileCleanup, ProfileRestore, DlpEdits, DlpRestore,
        KeySaving

VARIABLE
    stale     \* a process about to write, after whose last read another
              \* one changed the service (for the properties only)

vars == <<svc, wire, signal, proc, did, doubt, files, stale>>

PCs == {"start", "connect", "ask", "findTopic", "findProfile", "write", "drop",
        "list", "relist", "delete", "planProfiles", "planTopics", "recheck", "topic",
        "postTopic", "profile", "writeProfile", "verifyProfile", "guardDlp", "editDlp",
        "planDlp", "recheckDlp", "createDlp", "copyDlp", "verifyDlp", "reserve", "writeKey", "saveKey",
        "exit", "ended"}

TypeOK ==
    /\ IsService(svc)
    /\ \A m \in wire : m.by \in Procs /\ m.effect \in Effects
    /\ signal \subseteq Procs
    /\ DOMAIN proc = Procs
    /\ \A p \in Procs :
         /\ ProcTyped(proc[p]) /\ proc[p].pc \in PCs
         /\ proc[p].pc \in {"topic", "postTopic"} => proc[p].i \in TopicItems(proc[p])
         /\ proc[p].pc \in {"profile", "writeProfile", "verifyProfile"}
              => proc[p].i \in ProfileItems(proc[p])
         /\ proc[p].pc \in {"planDlp", "recheckDlp"} => proc[p].i < Len(DlpKinds)
         /\ proc[p].pc \in {"createDlp", "copyDlp", "verifyDlp"}
              => proc[p].i \in DlpItems(proc[p])
    /\ did \in [Procs -> SUBSET Effects]
    /\ doubt \in [Procs -> SUBSET Effects]
    /\ FilesTyped
    /\ stale \subseteq Procs

Init ==
    /\ \E s \in Starts :
         /\ svc = s.svc
         /\ proc = [p \in Procs |-> NewProc(s.plan[p])]
    /\ wire = {}
    /\ signal = {}
    /\ did = [p \in Procs |-> {}]
    /\ doubt = [p \in Procs |-> {}]
    /\ files = NoFiles
    /\ stale = {}

\* A topics or key delete asks before it connects, the others later or not at
\* all.
AsksFirst(p) == Kind(p) \in {"topicsDelete", "keyDelete"} /\ ~proc[p].cmd.force

Restores(p) == Kind(p) \in {"restore", "dlpRestore"}

Waiting(p) ==
    /\ Restores(p) /\ proc[p].cmd.waits
    /\ \E q \in Procs \ {p} : proc[q].pc # "ended"

\* The first step of each command after the tenant and the token.
FirstStep(p) ==
    CASE Kind(p) = "cleanup" -> "list"
      [] Kind(p) = "restore" -> "planProfiles"
      [] Kind(p) = "dlpRestore" -> "planDlp"
      [] Kind(p) = "dlpCreate" -> "editDlp"
      [] Kind(p) \in {"dlpPatch", "dlpReplace", "dlpDelete"} -> "guardDlp"
      [] Kind(p) \in {"apply", "revert", "topicsCreate"} -> "findTopic"
      [] Kind(p) \in {"profilesUpdate", "profilesDelete"} -> "findProfile"
      [] Kind(p) = "keyDelete" -> "writeKey"
      [] OTHER -> "write"

Start(p) ==
    /\ proc[p].pc = "start" /\ AsksFirst(p)
    /\ Move(p, At(p, "ask"))

\* connect_management and authenticate.
Connect(p) ==
    /\ \/ proc[p].pc = "connect"
       \/ proc[p].pc = "start" /\ ~AsksFirst(p) /\ ~WritesKey(p) /\ ~Waiting(p)
    /\ \/ p \notin signal /\ Move(p, At(p, FirstStep(p)))
       \/ ReadFails(p)

\* What a confirmed command goes on with.
Confirmed(p) ==
    CASE Kind(p) = "cleanup" -> "relist"
      [] Kind(p) = "restore" -> "recheck"
      [] Kind(p) = "dlpRestore" -> "recheckDlp"
      [] Kind(p) \in {"dlpReplace", "dlpDelete"} -> "editDlp"
      [] Kind(p) = "revert" -> "findProfile"
      [] Kind(p) = "profilesDelete" -> "write"
      [] Kind(p) \in {"topicsDelete", "keyDelete"} -> "connect"
      [] Kind(p) = "keyRotate" -> "reserve"

\* confirm: confirmed, declined, or ended by a signal.
Confirm(p) ==
    /\ proc[p].pc = "ask"
    /\ \/ p \notin signal /\ Move(p, At(p, Confirmed(p)))
       \/ p \notin signal /\ Move(p, Exit(p, Ok(NothingChanged)))
       \/ p \in signal /\ Move(p, Interrupt(p))

Step(p) ==
    \/ Start(p) \/ Connect(p) \/ Confirm(p)
    \/ FindTopic(p) \/ FindProfile(p) \/ WriteEdit(p) \/ DropTopic(p)
    \/ List(p) \/ ListAgain(p) \/ DeleteOne(p)
    \/ PlanProfiles(p) \/ PlanTopics(p) \/ Recheck(p)
    \/ Topic(p) \/ PostTopic(p) \/ Profile(p) \/ WriteProfile(p) \/ VerifyProfile(p)
    \/ GuardDlp(p) \/ EditDlp(p)
    \/ SweepDlp(p) \/ CreateDlp(p) \/ VerifyDlp(p)
    \/ Report(p, proc[p].result.says) \/ Signal(p)

KeyStep(p) == CheckKeyFile(p) \/ ReserveKey(p) \/ WriteKey(p) \/ SaveKey(p)

\* A DLP restore looks at nothing again after its second sweep has begun, and
\* at the names of copies only when it plans.
Writing(r) ==
    \/ r.pc \in {"write", "postTopic", "writeProfile", "createDlp", "copyDlp", "verifyDlp"}
    \/ r.cmd.kind = "dlpRestore"
       /\ \/ r.pc = "recheckDlp" /\ r.i > 0
          \/ r.cmd.conflict = "reconcile" /\ (r.pc \in {"ask", "recheckDlp"} \/ r.i > 0)

\* stale after a step of process p, or of none.
Observe(actors) ==
    stale' = {q \in Procs : /\ Writing(proc'[q])
                            /\ q \in stale \/ (q \notin actors /\ svc' # svc)}

Next ==
    \/ \E p \in Procs : Step(p) /\ UNCHANGED files /\ Observe({p})
    \/ \E p \in Procs : KeyStep(p) /\ Observe({p})
    \/ \E m \in wire : Arrive(m) /\ UNCHANGED files /\ Observe({})

Spec == Init /\ [][Next]_vars

-----------------------------------------------------------------------------
(* Properties *)

\* topics revert has updated the profile and has sent the deletion of the
\* topic, which was carried out or whose outcome it does not know, and says
\* that the topic was not deleted.
TopicInDoubt(p) ==
    LET put == EditEffect(p)
    IN  /\ Kind(p) = "revert"
        /\ proc[p].result.kind = "error" /\ proc[p].result.says = Claim({put}, {})
        /\ put \in did[p] /\ did[p] \cup doubt[p] = {put, <<"dropTopic", proc[p].id>>}

\* What a command returns is true of its own writes, those included that the
\* service carries out after it has ended, but for TopicInDoubt; and so is what
\* a cleanup, a restore or a key command with its answer prints when a signal
\* came in between.  The one-time value of a key (D204) is where that says it
\* is, and nowhere else.
ResultTrue ==
    \A p \in Procs :
        /\ proc[p].result.kind # "none" /\ ~TopicInDoubt(p)
             => True(proc[p].result.says, did[p], doubt[p])
        /\ proc[p].report.kind # "none" /\ (Kind(p) = "cleanup" \/ Restores(p))
             => True(proc[p].report.says, did[p], doubt[p])
        /\ WritesKey(p) /\ proc[p].pc \in {"exit", "ended"}
             => ValueKept(p, proc[p].result.says)
        /\ WritesKey(p) /\ proc[p].pc = "ended" /\ proc[p].id # 0
             => /\ True(proc[p].report.says, did[p], doubt[p])
                /\ ValueKept(p, proc[p].report.says)

\* `runtime profiles cleanup` keeps the newest revision of every profile:
\* whatever runs beside it, a revision it deletes leaves a newer one, unless
\* somebody deletes profiles by hand at the same time.
CleanupKeepsNewest ==
    [][\A p \in Procs :
         Kind(p) = "cleanup" /\ proc'[p] # proc[p]
         /\ (\A q \in Procs : Kind(q) # "profilesDelete")
           => \A r \in svc.profiles \ svc'.profiles :
                \E q \in svc'.profiles : q.name = r.name /\ q.rev > r.rev]_vars

\* D97, D217: a PUT carries no version, so what another administrator writes
\* between the last read and the write is lost; nothing else is.  A restore
\* makes no second topic or profile of a name and replaces no revision but the
\* planned one; an edit leaves everything alone that it is not about.
LostOnlyInWindow ==
    [][\A p \in Procs :
         Writing(proc[p]) /\ proc'[p] # proc[p] /\ p \notin stale
           => /\ \A t \in svc'.topics \ svc.topics :
                   Kind(p) = "restore" => Named(svc.topics, t.name) = {}
              /\ \A r \in svc'.profiles \ svc.profiles :
                   LET old == Highest(Named(svc.profiles, r.name))
                   IN  CASE Kind(p) = "restore" -> old = Named(proc[p].read, r.name)
                         [] Kind(p) = "profilesUpdate" ->
                              \E o \in old : o.policy.topics = r.policy.topics
                         [] Kind(p) \in {"apply", "revert"} ->
                              \E o \in old : /\ o.policy.rest = r.policy.rest
                                             /\ o.policy.topics \ Own(p) = r.policy.topics \ Own(p)
                         [] OTHER -> TRUE]_vars

\* D177: unless somebody else changed the service meanwhile, a DLP restore makes
\* no second resource of a name in use, and no copy of a profile in use or of
\* which there is a copy in use.
NoSecondDlp ==
    [][\A p \in Procs :
         Kind(p) = "dlpRestore" /\ Writing(proc[p]) /\ proc'[p] # proc[p] /\ p \notin stale
           => \A o \in svc'.dlp \ svc.dlp :
                Active(svc.dlp, o.name) = {} /\ Active(svc.dlp, DlpName(proc[p])) = {}]_vars

\* The run that resumes the restore q.
Advised(q) ==
    IF Kind(q) = "dlpRestore" /\ proc[q].cmd.conflict = "reconcile" THEN "reconcile" ELSE "verify"

\* A restore q was interrupted after it had written something, has told its
\* user to run it again, and p is that run: nobody else writes, and no write of
\* q is in doubt.
Resumes(p, q) ==
    /\ p # q /\ Restores(p) /\ Kind(q) = Kind(p)
    /\ proc[p].cmd.waits /\ proc[p].cmd.conflict = Advised(q)
    /\ proc[q].pc = "ended" /\ proc[q].result.kind = "interrupted"
    /\ proc[q].result.says # NothingChanged
    /\ \A o \in Procs \ {p, q} : did[o] = {}
    /\ \A o \in Procs : doubt[o] = {}

\* README: "a re-run with `--on-conflict verify` resumes without duplicating
\* anything"; D177: a DLP re-run "verifies the copy instead of creating
\* another".  The resumed run makes nothing that the interrupted one has made.
NothingTwice ==
    \A p, q \in Procs :
        Resumes(p, q) =>
          \A e \in did[p] \cap did[q] : e[1] \notin {"makeTopic", "makeProfile", "makeDlp"}

\* The profiles of the backup as the restore c was to leave them; for DLP, but
\* for the skipped ones, under their names or as copies of archived ones.
RestoredDlp(c) ==
    \A n \in Elements(c.cmd.profiles) :
        \/ DlpAction(c, n) = "skip"
        \/ \E o \in svc.dlp :
             /\ ~o.retired /\ o.body = SourceDlp[n].body
             /\ o.name = n \/ (o.name = Suffixed[n] /\ Active(svc.dlp, n) = {})
             /\ {d.name : d \in {k \in svc.dlp : k.id \in o.refs}} = SourceDlp[n].refs

RestoredProfiles(c) ==
    \A n \in Elements(c.cmd.profiles) :
        \E r \in Latest(svc.profiles) :
            /\ r.name = n /\ r.policy.rest = SourcePolicy[n].rest
            /\ {t.name : t \in {k \in svc.topics : k.id \in r.policy.topics}}
                 = SourcePolicy[n].topics

Restored(c) == IF c.cmd.kind = "restore" THEN RestoredProfiles(c) ELSE RestoredDlp(c)

\* The hint of an interrupted restore: to run it again resumes it.  When that
\* run succeeds the whole backup is restored; unless the interrupted one changed
\* or skipped profiles that were there, it is not refused either.
ResumeWorks ==
    \A p, q \in Procs :
        Resumes(p, q) =>
          /\ proc[p].result.kind = "ok" => Restored(proc[p])
          /\ proc[q].cmd.conflict \notin {"skip", "update"} => ~proc[p].refused

\* DESIGN 18.16 and the message of the interrupted run: "run the restore again
\* with --on-conflict verify to resume".
AdviceHelps ==
    \A p, q \in Procs : Resumes(p, q) => ~proc[p].refused

=============================================================================

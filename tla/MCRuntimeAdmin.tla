--------------------------- MODULE MCRuntimeAdmin ---------------------------
(* One topic, two profiles, a few DLP resources, two commands at once. *)
EXTENDS RuntimeAdmin, TLC

CONSTANTS t1, n1, n2, f1, f2, p1, p2

MCTopicNames == {t1}
MCProfileNames == {n1, n2}
MCKeyPaths == {f1, f2}
MCContents == {"a", "b"}
MCProcs == {p1, p2}

\* The backup: n1 refers to t1.
MCSourceTopic == t1 :> "a"
MCSourcePolicy == n1 :> [topics |-> {t1}, rest |-> "a"] @@ n2 :> [topics |-> {}, rest |-> "a"]

\* The DLP backup: a dictionary, a pattern, a predefined pattern, a profile of
\* the first two and one of the third.
MCDlpKind ==
    "dict" :> "dictionary" @@ "pat" :> "pattern" @@ "pre" :> "pattern"
    @@ "dp" :> "profile" @@ "dq" :> "profile" @@ "dp2" :> "profile" @@ "dq2" :> "profile"
MCSuffixed == "dp" :> "dp2" @@ "dq" :> "dq2" @@ "dp2" :> "dp2" @@ "dq2" :> "dq2"
FromDlp(from, refs) == [from |-> from, refs |-> refs, body |-> "a"]
MCSourceDlp ==
    "dict" :> FromDlp("own", {}) @@ "pat" :> FromDlp("own", {}) @@ "pre" :> FromDlp("predefined", {})
    @@ "dp" :> FromDlp("own", {"dict", "pat"}) @@ "dq" :> FromDlp("own", {"pre"})

Rev(id, n, rev, topics, rest) ==
    [id |-> id, name |-> n, rev |-> rev, policy |-> [topics |-> topics, rest |-> rest]]
Service(profiles, topics, next, keepsId) ==
    [profiles |-> profiles, topics |-> topics, next |-> next, keepsId |-> keepsId,
     dlp |-> {}, reserves |-> "nothing", keys |-> {}]

TopicT == [id |-> 1, name |-> t1, def |-> "a"]

Empty == Service({}, {}, 1, FALSE)
WithTopic == Service({}, {TopicT}, 2, FALSE)
Live == Service({Rev(2, n1, 1, {}, "b"), Rev(3, n1, 2, {1}, "b"), Rev(4, n2, 1, {}, "b")},
                {TopicT}, 5, FALSE)
Half == Service({Rev(2, n1, 1, {}, "b")}, {}, 3, FALSE)
KeepsId == Service({Rev(2, n1, 1, {}, "b"), Rev(2, n1, 2, {1}, "b"), Rev(3, n2, 1, {}, "b")},
                 {TopicT}, 4, TRUE)

DlpService(dlp, next, reserves) ==
    [Empty EXCEPT !.dlp = dlp, !.next = next, !.reserves = reserves]
Dlp(id, n, refs, retired) ==
    [id |-> id, name |-> n, refs |-> refs, body |-> "a", predefined |-> n = "pre",
     retired |-> retired]

DlpEmpty == DlpService({}, 1, "all")
DlpHalf == DlpService({Dlp(1, "pre", {}, FALSE), Dlp(2, "pat", {}, FALSE)}, 3, "nothing")
DlpArchived(reserves) ==
    DlpService({Dlp(1, "pre", {}, FALSE), Dlp(2, "dq", {1}, TRUE)}, 3, reserves)

Restore(conflict, force, waits) ==
    [kind |-> "restore", profiles |-> <<n1, n2>>, topics |-> <<t1>>,
     conflict |-> conflict, force |-> force, waits |-> waits]
RestoreDlp(conflict, skip, force, waits) ==
    [kind |-> "dlpRestore", deps |-> <<"dict", "pat", "pre">>, profiles |-> <<"dp", "dq">>,
     conflict |-> conflict, skip |-> skip, force |-> force, waits |-> waits]
MakeDlp(n) == [kind |-> "dlpCreate", n |-> n, body |-> "b"]
ReplaceDlp(id) == [kind |-> "dlpReplace", id |-> id, body |-> "b", force |-> FALSE]
PatchDlp(id) == [kind |-> "dlpPatch", id |-> id, body |-> "b"]
DeleteDlp(id) == [kind |-> "dlpDelete", id |-> id, force |-> FALSE]
Cleanup(force) == [kind |-> "cleanup", force |-> force]
Apply(n) == [kind |-> "apply", t |-> t1, n |-> n]
Revert(n, force) == [kind |-> "revert", t |-> t1, n |-> n, force |-> force]
UpdateN(n) == [kind |-> "profilesUpdate", n |-> n, rest |-> "a"]
CreateN(n) == [kind |-> "profilesCreate", n |-> n, rest |-> "b"]
DeleteN(n) == [kind |-> "profilesDelete", n |-> n, force |-> FALSE]
CreateT == [kind |-> "topicsCreate", t |-> t1, def |-> "b"]
UpdateT == [kind |-> "topicsUpdate", id |-> 1, def |-> "b"]
DeleteT(force) == [kind |-> "topicsDelete", id |-> 1, force |-> force]

MakeKey(f) == [kind |-> "keyCreate", path |-> f]
RotateKey(f, force) == [kind |-> "keyRotate", id |-> 1, path |-> f, force |-> force]
DeleteKey(force) == [kind |-> "keyDelete", id |-> 1, force |-> force]

Pair(s, a, b) == [svc |-> s, plan |-> p1 :> a @@ p2 :> b]

\* A cleanup beside another command, in both kinds of service.
Cleanups ==
    {Pair(s, Cleanup(FALSE), b) :
       s \in {Live, KeepsId}, b \in {UpdateN(n1), Revert(n1, FALSE), Cleanup(TRUE), DeleteN(n1),
                                Restore("update", TRUE, FALSE)}}

\* Edits beside each other.
Edits ==
    {Pair(Live, Apply(n2), b) :
       b \in {UpdateN(n2), Revert(n1, TRUE), CreateT, DeleteT(FALSE), DeleteT(TRUE), DeleteN(n2)}}

\* A restore beside an edit of what it is about to write.
ProfileRestores ==
    {Pair(Empty, Restore("error", TRUE, FALSE), b) : b \in {CreateN(n2), CreateT}}
    \cup {Pair(WithTopic, Restore("error", TRUE, FALSE), UpdateT)}
    \cup {Pair(Live, Restore("update", FALSE, FALSE), b) : b \in {UpdateN(n2), Apply(n2)}}

\* A restore, and after it the same with --on-conflict verify.
Resumed(conflicts) ==
    {Pair(s, Restore(c, TRUE, FALSE), Restore("verify", TRUE, TRUE)) :
       s \in {Empty, Half, Live}, c \in conflicts}

\* A DLP restore, and the run that resumes it; into a tenant without the
\* predefined pattern only with --skip-unresolved.
DlpResumed ==
    {Pair(s, RestoreDlp(c, s = DlpEmpty, TRUE, FALSE),
             RestoreDlp(IF c = "reconcile" THEN c ELSE "verify", s = DlpEmpty, TRUE, TRUE)) :
       s \in {DlpEmpty, DlpHalf, DlpArchived("archived")}, c \in {"error", "skip", "reconcile"}}

\* A DLP restore beside an edit.
DlpBeside ==
    {Pair(DlpHalf, RestoreDlp("error", FALSE, TRUE, FALSE), b) :
       b \in {MakeDlp("dict"), DeleteDlp(2), PatchDlp(2)}}
    \cup {Pair(DlpArchived("all"), RestoreDlp("reconcile", FALSE, FALSE, FALSE), b) :
            b \in {MakeDlp("dp"), ReplaceDlp(1), ReplaceDlp(2)}}

\* Key commands beside each other, with the same file and with two.
WithKey == [Empty EXCEPT !.keys = {[id |-> 1, value |-> 1]}, !.next = 2]
Keys ==
    {Pair(WithKey, MakeKey(f1), b) : b \in {MakeKey(f1), RotateKey(f1, TRUE), RotateKey(f2, FALSE)}}
    \cup {Pair(WithKey, RotateKey(f1, TRUE), b) :
            b \in {RotateKey(f2, FALSE), DeleteKey(TRUE), DeleteKey(FALSE)}}

MCStarts ==
    Keys
    \cup Cleanups \cup DlpResumed \cup DlpBeside
    \cup Edits \cup ProfileRestores \cup Resumed({"error", "verify", "skip", "update"})
MCUpdates == Resumed({"skip", "update"})
=============================================================================

--------------------------- MODULE RuntimeService ---------------------------
(***************************************************************************)
(* The security profiles, custom topics and DLP resources of a tenant, and *)
(* the commands that change them: the state they share.  A profile is a    *)
(* name; the service keeps every revision of it, and a PUT adds one, under *)
(* a new id or, on some services, under the same.  A policy is the topics  *)
(* it refers to and the rest.  A DLP resource is a dictionary, a pattern   *)
(* or a profile, which refers to some of the others by their ids.  An API  *)
(* key has a value, which a rotation replaces.                             *)
(***************************************************************************)
EXTENDS Naturals, FiniteSets, Sequences, Functions

CONSTANTS
    TopicNames,
    ProfileNames,
    Contents,      \* topic definitions, and the rest of a policy
    MaxId,         \* bound of the model: ids the service gives out
    SourcePolicy,  \* the profiles of the backup file: topics, by name, and rest
    SourceTopic,   \* the topics of the backup file
    DlpKind,       \* the names of DLP resources, and what each of them is
    SourceDlp,     \* the DLP resources of their backup file, by name
    Suffixed,      \* the name of the copy of a DLP profile
    KeyPaths,      \* files that are to hold the value of an API key
    Procs,
    Starts         \* [svc, plan]: the service, and the command of each process

Ids == 1 .. MaxId
Policies == [topics : SUBSET Ids, rest : Contents]
Revisions == [id : Ids, name : ProfileNames, rev : Nat \ {0}, policy : Policies]
TopicRecords == [id : Ids, name : TopicNames, def : Contents]

Elements(seq) == {seq[i] : i \in DOMAIN seq}

\* body: the keywords of a dictionary, the rest of a pattern or a profile.
DlpNames == DOMAIN DlpKind
DlpKinds == <<"dictionary", "pattern", "profile">>
DlpRecords ==
    [id : Ids, name : DlpNames, refs : SUBSET Ids, body : Contents,
     predefined : BOOLEAN, retired : BOOLEAN]

KeyRecords == [id : Ids, value : Ids]

\* saveKey and keepKey are had on the files of the user.
Effects ==
    ({"makeTopic"} \X TopicNames) \cup ({"putTopic", "dropTopic", "dropProfile"} \X Ids)
    \cup ({"makeProfile", "putProfile"} \X ProfileNames)
    \cup ({"makeDlp"} \X DlpNames) \cup ({"putDlp", "dropDlp", "rotateKey", "dropKey"} \X Ids)
    \cup ({"makeKey", "saveKey", "keepKey"} \X KeyPaths)

Commands ==
    [kind : {"cleanup"}, force : BOOLEAN]
    \cup [kind : {"apply"}, t : TopicNames, n : ProfileNames]
    \cup [kind : {"revert"}, t : TopicNames, n : ProfileNames, force : BOOLEAN]
    \cup [kind : {"topicsCreate"}, t : TopicNames, def : Contents]
    \cup [kind : {"topicsUpdate"}, id : Ids, def : Contents]
    \cup [kind : {"topicsDelete"}, id : Ids, force : BOOLEAN]
    \cup [kind : {"profilesCreate", "profilesUpdate"}, n : ProfileNames, rest : Contents]
    \cup [kind : {"profilesDelete"}, n : ProfileNames, force : BOOLEAN]
    \cup [kind : {"dlpCreate"}, n : DlpNames, body : Contents]
    \cup [kind : {"dlpPatch"}, id : Ids, body : Contents]
    \cup [kind : {"dlpReplace"}, id : Ids, body : Contents, force : BOOLEAN]
    \cup [kind : {"dlpDelete", "keyDelete"}, id : Ids, force : BOOLEAN]
    \cup [kind : {"keyCreate"}, path : KeyPaths]
    \cup [kind : {"keyRotate"}, id : Ids, path : KeyPaths, force : BOOLEAN]

\* A restore: its profiles and topics in the order it writes them; `waits`
\* when it is run after the other commands have ended.
IsRestore(c) ==
    /\ DOMAIN c = {"kind", "profiles", "topics", "conflict", "force", "waits"}
    /\ c.kind = "restore" /\ {c.force, c.waits} \subseteq BOOLEAN
    /\ c.profiles \in Seq(DOMAIN SourcePolicy) /\ c.topics \in Seq(DOMAIN SourceTopic)
    /\ c.conflict \in {"error", "verify", "skip", "update"}

\* A DLP restore, of unique names; skip is --skip-unresolved.
IsDlpRestore(c) ==
    /\ DOMAIN c = {"kind", "deps", "profiles", "conflict", "skip", "force", "waits"}
    /\ c.kind = "dlpRestore" /\ {c.skip, c.force, c.waits} \subseteq BOOLEAN
    /\ c.deps \in Seq({n \in DOMAIN SourceDlp : DlpKind[n] # "profile"})
    /\ c.profiles \in Seq({n \in DOMAIN SourceDlp : DlpKind[n] = "profile"})
    /\ IsInjective(c.deps) /\ IsInjective(c.profiles)
    /\ c.conflict \in {"error", "verify", "skip", "reconcile"}

IsCommand(c) == IsRestore(c) \/ IsDlpRestore(c) \/ c \in Commands

ServiceStates ==
    [profiles : SUBSET Revisions, topics : SUBSET TopicRecords, dlp : SUBSET DlpRecords,
     keys : SUBSET KeyRecords, next : 1 .. MaxId + 1, keepsId : BOOLEAN,
     reserves : {"nothing", "archived", "all"}]

\* An id is given once; the revisions of a profile may share one.
IsService(s) ==
    /\ s \in ServiceStates
    /\ IsFiniteSet(s.profiles)
    /\ \A x \in s.profiles \cup s.topics \cup s.dlp \cup s.keys : x.id < s.next
    /\ \A r, q \in s.profiles : r.id = q.id => r.name = q.name

ASSUME RuntimeAssumption ==
    /\ MaxId \in Nat
    /\ DOMAIN SourcePolicy \subseteq ProfileNames /\ DOMAIN SourceTopic \subseteq TopicNames
    /\ \A t \in DOMAIN SourceTopic : SourceTopic[t] \in Contents
    /\ \A n \in DOMAIN SourcePolicy :
         SourcePolicy[n].topics \subseteq DOMAIN SourceTopic /\ SourcePolicy[n].rest \in Contents
    /\ \A n \in DOMAIN SourceDlp :
         /\ n \in DlpNames /\ DlpKind[n] \in Elements(DlpKinds)
         /\ SourceDlp[n].refs \subseteq DOMAIN SourceDlp /\ SourceDlp[n].body \in Contents
         /\ SourceDlp[n].from \in {"own", "predefined", "bound"}
         /\ DlpKind[n] = "profile"
              => Suffixed[n] \in DlpNames /\ DlpKind[Suffixed[n]] = "profile"
    /\ \A s \in Starts :
         /\ IsService(s.svc)
         /\ \A p \in Procs : IsCommand(s.plan[p])

\* The name of a copy ends in a hash of the id of its source: it is neither the
\* name of another copy nor that of another profile of the backup.
ASSUME CopyAssumption ==
    \A s \in Starts, p \in Procs :
        IsDlpRestore(s.plan[p]) =>
          LET names == Elements(s.plan[p].profiles)
          IN  IsInjective([n \in names |-> Suffixed[n]]) /\ \A n \in names : Suffixed[n] \notin names

VARIABLES svc, wire, signal, proc, did, doubt   \* see RemoteCommands

-----------------------------------------------------------------------------
(* The service *)

Named(records, n) == {r \in records : r.name = n}
Highest(revisions) == {r \in revisions : \A q \in revisions : q.rev <= r.rev}

\* The listing with latest=true.
Latest(revisions) == {r \in revisions : r \in Highest(Named(revisions, r.name))}

Referenced(s, id) == \E r \in s.profiles : id \in r.policy.topics

Op(m) == m.effect[1]
Target(m) == m.effect[2]

\* Whether a create of a DLP resource is answered 409: on some services for the
\* name of an archived one, on some for every name in use.
Taken(s, n) ==
    \E o \in Named(s.dlp, n) :
        s.reserves = "all" \/ (s.reserves = "archived" /\ o.retired)

\* A create finds a free id; a plain topic DELETE is refused while a revision
\* refers to the topic.
Takes(s, m) ==
    CASE Op(m) \in {"makeTopic", "makeProfile"} -> s.next <= MaxId
      [] Op(m) = "putTopic" -> \E t \in s.topics : t.id = Target(m)
      [] Op(m) = "dropTopic" ->
            /\ \E t \in s.topics : t.id = Target(m)
            /\ m.force \/ ~Referenced(s, Target(m))
      [] Op(m) = "putProfile" ->
            /\ \E r \in s.profiles : r.id = m.id
            /\ s.keepsId \/ s.next <= MaxId
      [] Op(m) = "dropProfile" -> \E r \in s.profiles : r.id = Target(m)
      [] Op(m) = "makeDlp" -> s.next <= MaxId /\ ~Taken(s, Target(m))
      [] Op(m) \in {"putDlp", "dropDlp"} -> \E o \in s.dlp : o.id = Target(m)
      [] Op(m) = "makeKey" -> s.next <= MaxId
      [] Op(m) = "rotateKey" -> s.next <= MaxId /\ \E k \in s.keys : k.id = Target(m)
      [] Op(m) = "dropKey" -> \E k \in s.keys : k.id = Target(m)

\* The revision a PUT of profile id adds.
Revised(s, id, policy) ==
    LET n == (CHOOSE r \in s.profiles : r.id = id).name
        top == CHOOSE r \in Highest(Named(s.profiles, n)) : TRUE
    IN  [id |-> IF s.keepsId THEN id ELSE s.next, name |-> n, rev |-> top.rev + 1,
         policy |-> policy]

\* A deleted pattern stays, archived; a deleted dictionary is gone.
DlpDropped(dlp, id) ==
    {IF o.id = id THEN [o EXCEPT !.retired = TRUE] ELSE o
       : o \in {q \in dlp : q.id # id \/ DlpKind[q.name] = "pattern"}}

After(s, m) ==
    CASE Op(m) = "makeTopic" ->
            [s EXCEPT !.topics = @ \cup {[id |-> s.next, name |-> Target(m), def |-> m.def]},
                      !.next = @ + 1]
      [] Op(m) = "putTopic" ->
            [s EXCEPT !.topics = {IF t.id = Target(m) THEN [t EXCEPT !.def = m.def] ELSE t
                                    : t \in @}]
      [] Op(m) = "dropTopic" -> [s EXCEPT !.topics = {t \in @ : t.id # Target(m)}]
      [] Op(m) = "makeProfile" ->
            [s EXCEPT !.profiles = @ \cup {[id |-> s.next, name |-> Target(m), rev |-> 1,
                                            policy |-> m.policy]},
                      !.next = @ + 1]
      [] Op(m) = "putProfile" ->
            [s EXCEPT !.profiles = @ \cup {Revised(s, m.id, m.policy)},
                      !.next = IF s.keepsId THEN @ ELSE @ + 1]
      [] Op(m) = "dropProfile" -> [s EXCEPT !.profiles = {r \in @ : r.id # Target(m)}]
      [] Op(m) = "makeDlp" ->
            [s EXCEPT !.dlp = @ \cup {[id |-> s.next, name |-> Target(m), refs |-> m.refs,
                                      body |-> m.body, predefined |-> FALSE,
                                      retired |-> FALSE]},
                      !.next = @ + 1]
      [] Op(m) = "putDlp" ->
            [s EXCEPT !.dlp = {IF o.id = Target(m) THEN [o EXCEPT !.body = m.body] ELSE o
                                 : o \in @}]
      [] Op(m) = "dropDlp" -> [s EXCEPT !.dlp = DlpDropped(@, Target(m))]
      [] Op(m) = "makeKey" ->
            [s EXCEPT !.keys = @ \cup {[id |-> s.next, value |-> s.next]}, !.next = @ + 1]
      [] Op(m) = "rotateKey" ->
            [s EXCEPT !.keys = {IF k.id = Target(m) THEN [k EXCEPT !.value = s.next] ELSE k
                                  : k \in @},
                      !.next = @ + 1]
      [] Op(m) = "dropKey" -> [s EXCEPT !.keys = {k \in @ : k.id # Target(m)}]

INSTANCE RemoteCommands

-----------------------------------------------------------------------------
(* A command *)

\* replayed: the write at hand was sent twice; context, committed:
\* invocation.interrupt and .committed.  read, known: what it read of the
\* service and acts on; i: the item it is at, or how many failed; id: the id a
\* write answered with; refused: its plan was refused.
ProcTyped(r) ==
    /\ IsCommand(r.cmd)
    /\ \A x \in r.read : x \in Revisions \/ x \in DlpRecords
    /\ \A x \in r.known : x \in TopicRecords \/ x \in DlpRecords
    /\ r.i \in Nat /\ r.id \in Ids \cup {0} /\ r.refused \in BOOLEAN
    /\ r.context \in Claims /\ r.result \in Results /\ r.report \in Results

NewProc(cmd) ==
    [cmd |-> cmd, pc |-> "start", replayed |-> FALSE, context |-> NothingChanged,
     committed |-> FALSE, result |-> NoResult, report |-> NoResult,
     read |-> {}, known |-> {}, i |-> 0, id |-> 0, refused |-> FALSE]

Kind(p) == proc[p].cmd.kind

\* nothing_changed, read_failed: a read that fails ends the command.
ReadFails(p) == \E a \in Unread(p) : Move(p, Exit(p, Failed(a, proc[p].context)))

\* A refusal by the command itself.
Stop(p) == Exit(p, Failed("local", proc[p].context))
Interrupt(p) == Exit(p, Failed("unsent", proc[p].context))

Done(p, says) == [Exit(p, Ok(says)) EXCEPT !.committed = TRUE]

\* A restore whose plan is refused.
Refuse(p) == [Stop(p) EXCEPT !.refused = TRUE]

\* An item a restore wrote, and one that failed: in doubt, also for the run's
\* own count when only its answer could not be read.
Written(c, effect) == [c EXCEPT !.context[effect] = "yes"]
WriteFailed(p, a, effect) ==
    LET done == {e \in Effects : proc[p].context[e] = "yes"}
    IN  [Exit(p, Failed(a, Told(a, done, effect))) EXCEPT
            !.context[effect] = IF a \in InDoubt \cup {"unreadable"} THEN "maybe" ELSE @]

\* The first of some items, by their places.
First(items) == CHOOSE j \in items : \A k \in items : j <= k

=============================================================================

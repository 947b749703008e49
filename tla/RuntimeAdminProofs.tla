-------------------------- MODULE RuntimeAdminProofs --------------------------
(***************************************************************************)
(* Proofs about RuntimeAdmin, for any processes, commands, services and    *)
(* backups: its types (TypeCorrect); that what a command tells its user is *)
(* true of its own writes and of the file of its key (Truthful); that a    *)
(* cleanup keeps the newest revision of every profile (NewestKept); that   *)
(* an edit or a restore overwrites only what was written after its last    *)
(* read (LostInWindow); that a DLP restore makes nothing a second time     *)
(* (NoSecond); and that a restore that is run again makes nothing of what  *)
(* the interrupted one made (MadeOnce).                                    *)
(*                                                                         *)
(* The invariant of the first two has four parts.  Typed bounds every      *)
(* state.  WireOK: a write on the wire is one its command has in doubt,    *)
(* and says how it revises a profile.  ProcsOK is a ledger for each        *)
(* process: up to its exit what it did is told by where it is (SoFar), and *)
(* what it returns or prints after that is true of it.  FilesOK: the file  *)
(* of a key is the process's own and holds what the ledger says.  A write  *)
(* carried out late only moves an effect from `doubt` to `did`, which no   *)
(* result tells apart.                                                     *)
(*                                                                         *)
(* The third adds CleanOK: the ids a cleanup is about to delete, or has on *)
(* the wire, are superseded; and where a PUT adds its revision under the   *)
(* id it was read from, an id somebody may PUT is one no cleanup selects.  *)
(*                                                                         *)
(* The next two each add what a process has read and acts on: unless it is *)
(* stale, what its last read showed still holds when it writes (WindowOK); *)
(* and what the sweeps of a DLP restore showed holds of every row it is    *)
(* still to create, also after it made the others (SweepOK).               *)
(*                                                                         *)
(* The last adds both, and that a restore which waits for another one is   *)
(* never stale and finds all the other one made (AloneOK).                 *)
(***************************************************************************)
EXTENDS RuntimeAdmin, FiniteSetTheorems, NaturalsInduction, WellFoundedInduction,
        SequenceTheorems, TLAPS

-----------------------------------------------------------------------------
(* Numbers and revisions *)

\* A set of naturals has a least element.
LEMMA LeastNat ==
    ASSUME NEW T \in SUBSET Nat, T # {}
    PROVE  \E k \in T : \A j \in T : k <= j
<1>1. PICK k \in T : \A j \in T : ~(<<j, k>> \in OpToRel(<, Nat))
  BY NatLessThanWellFounded, WFMin
<1>2. \A j \in T : <<j, k>> \in Nat \X Nat
  OBVIOUS
<1>3. \A j \in T : ~(j < k)
  BY <1>1, <1>2 DEF OpToRel
<1> QED BY <1>3

\* First is the least.
LEMMA FirstIs ==
    ASSUME NEW T \in SUBSET Nat, T # {}
    PROVE  First(T) \in T /\ \A j \in T : First(T) <= j
  BY LeastNat DEF First

\* Finitely many numbers have a bound: the shortest prefix without one is not
\* empty, and the prefix before it has one.
LEMMA PrefixBounded ==
    ASSUME NEW n \in Nat, NEW f, \A j \in 1 .. n : f[j] \in Nat
    PROVE  \E b \in Nat : \A j \in 1 .. n : f[j] <= b
<1> DEFINE Bounded(k) == \E b \in Nat : \A j \in 1 .. k : f[j] <= b
           T == {k \in 0 .. n : ~Bounded(k)}
<1>1. T \in SUBSET Nat /\ \A k \in 0 .. n : k \in T <=> ~Bounded(k)
  OBVIOUS
<1>2. Bounded(0)
  <2>1. \A j \in 1 .. 0 : f[j] <= 0
    OBVIOUS
  <2> QED BY <2>1
<1>3. ASSUME NEW k \in 1 .. n, Bounded(k - 1) PROVE Bounded(k)
  <2>1. PICK b \in Nat : \A j \in 1 .. (k - 1) : f[j] <= b
    BY <1>3
  <2>2. f[k] \in Nat
    OBVIOUS
  <2>3. PICK c \in Nat : b <= c /\ f[k] <= c
    <3>1. CASE b <= f[k]
      BY <2>2, <3>1
    <3>2. CASE ~(b <= f[k])
      BY <2>2, <3>2
    <3> QED BY <3>1, <3>2
  <2>4. ASSUME NEW j \in 1 .. k PROVE f[j] <= c
    <3>1. CASE j = k
      BY <2>3, <3>1
    <3>2. CASE j # k
      <4>1. j \in 1 .. (k - 1) /\ f[j] \in Nat
        BY <3>2
      <4> QED BY <2>1, <2>3, <4>1
    <3> QED BY <3>1, <3>2
  <2> QED BY <2>4
<1> HIDE DEF T, Bounded
<1>4. T = {}
  <2> SUFFICES ASSUME T # {} PROVE FALSE
    OBVIOUS
  <2>1. PICK k \in T : \A j \in T : k <= j
    BY <1>1, LeastNat
  <2>2. k \in 0 .. n /\ ~Bounded(k) /\ k # 0
    BY <1>1, <1>2, <2>1 DEF T
  <2>3. k \in 1 .. n /\ k - 1 \in 0 .. n /\ k - 1 < k
    BY <2>2
  <2>4. k - 1 \notin T
    BY <2>1, <2>3
  <2> QED BY <1>1, <1>3, <2>2, <2>3, <2>4
<1>5. Bounded(n)
  BY <1>1, <1>4
<1> QED BY <1>5 DEF Bounded

\* The revisions of a finite set have a bound.
LEMMA RevsBounded ==
    ASSUME NEW S \in SUBSET Revisions, IsFiniteSet(S)
    PROVE  \E b \in Nat : \A r \in S : r.rev <= b
<1>1. PICK seq \in Seq(S) : \A r \in S : \E n \in 1 .. Len(seq) : seq[n] = r
  BY DEF IsFiniteSet
<1> DEFINE f == [j \in 1 .. Len(seq) |-> seq[j].rev]
<1>2. Len(seq) \in Nat /\ \A j \in 1 .. Len(seq) : f[j] \in Nat /\ f[j] = seq[j].rev
  BY DEF Revisions
<1> HIDE DEF f
<1>3. PICK b \in Nat : \A j \in 1 .. Len(seq) : f[j] <= b
  BY <1>2, PrefixBounded
<1>4. ASSUME NEW r \in S PROVE r.rev <= b
  <2>1. PICK n \in 1 .. Len(seq) : seq[n] = r
    BY <1>1
  <2> QED BY <1>2, <1>3, <2>1
<1> QED BY <1>4

\* Some revision is the highest.
LEMMA HighestIs ==
    ASSUME NEW S \in SUBSET Revisions, IsFiniteSet(S), S # {}
    PROVE  Highest(S) # {}
<1> DEFINE B == {b \in Nat : \A r \in S : r.rev <= b}
<1>1. PICK b \in B : \A c \in B : b <= c
  BY RevsBounded, LeastNat
<1>2. \A r \in S : r.rev \in Nat \ {0}
  BY DEF Revisions
<1>3. b - 1 \in Nat /\ b - 1 \notin B
  BY <1>1, <1>2
<1>4. PICK r \in S : ~(r.rev <= b - 1)
  BY <1>3
<1>5. r.rev = b
  BY <1>1, <1>2, <1>4
<1> QED BY <1>1, <1>5 DEF Highest

-----------------------------------------------------------------------------
(* The invariant: types *)

\* The commands of the processes.
Cmds == {s.plan[p] : s \in Starts, p \in Procs}

ProcStates ==
    [cmd : Cmds, pc : PCs, replayed : BOOLEAN, context : Claims, committed : BOOLEAN,
     result : Results, report : Results, read : SUBSET (Revisions \cup DlpRecords),
     known : SUBSET (TopicRecords \cup DlpRecords), i : Nat, id : Ids \cup {0},
     refused : BOOLEAN]

AllKinds ==
    {"cleanup", "apply", "revert", "topicsCreate", "topicsUpdate", "topicsDelete",
     "profilesCreate", "profilesUpdate", "profilesDelete", "dlpCreate", "dlpPatch",
     "dlpReplace", "dlpDelete", "keyCreate", "keyRotate", "keyDelete", "restore", "dlpRestore"}

\* What a command of a kind is about.
CmdOK(c) ==
    /\ c.kind \in AllKinds
    /\ c.kind \in {"apply", "revert", "topicsCreate"} => c.t \in TopicNames
    /\ c.kind \in {"apply", "revert", "profilesCreate", "profilesUpdate", "profilesDelete"}
         => c.n \in ProfileNames
    /\ c.kind \in {"topicsCreate", "topicsUpdate"} => c.def \in Contents
    /\ c.kind \in {"profilesCreate", "profilesUpdate"} => c.rest \in Contents
    /\ c.kind \in {"topicsUpdate", "topicsDelete", "dlpPatch", "dlpReplace", "dlpDelete",
                   "keyDelete", "keyRotate"} => c.id \in Ids
    /\ c.kind = "dlpCreate" => c.n \in DlpNames
    /\ c.kind \in {"dlpCreate", "dlpPatch", "dlpReplace"} => c.body \in Contents
    /\ c.kind \in {"keyCreate", "keyRotate"} => c.path \in KeyPaths
    /\ c.kind = "restore" => IsRestore(c)
    /\ c.kind = "dlpRestore" => IsDlpRestore(c)

LEMMA CmdFacts ==
    ASSUME NEW c \in Cmds
    PROVE  IsCommand(c) /\ CmdOK(c)
<1>1. IsCommand(c)
  BY RuntimeAssumption DEF Cmds
<1>2. CASE IsRestore(c)
  BY <1>2 DEF IsCommand, CmdOK, IsRestore, AllKinds
<1>3. CASE IsDlpRestore(c)
  BY <1>3 DEF IsCommand, CmdOK, IsDlpRestore, AllKinds
<1>4. CASE c \in Commands
  BY <1>4 DEF IsCommand, CmdOK, Commands, AllKinds
<1> QED BY <1>1, <1>2, <1>3, <1>4 DEF IsCommand

\* The processes that come to a point.
KindOK(r) ==
    LET k == r.cmd.kind
    IN  /\ r.pc = "connect" => k \in {"topicsDelete", "keyDelete"}
        /\ r.pc = "ask" => k \in {"topicsDelete", "keyDelete", "cleanup", "restore", "dlpRestore",
                                  "dlpReplace", "dlpDelete", "revert", "profilesDelete",
                                  "keyRotate"}
        /\ r.pc = "findTopic" => k \in {"apply", "revert", "topicsCreate"}
        /\ r.pc = "findProfile"
             => k \in {"apply", "revert", "profilesUpdate", "profilesDelete"}
        /\ r.pc = "write"
             => k \in {"apply", "revert", "topicsCreate", "topicsUpdate", "topicsDelete",
                       "profilesCreate", "profilesUpdate", "profilesDelete"}
        /\ r.pc = "drop" => k = "revert"
        /\ r.pc \in {"list", "relist", "delete"} => k = "cleanup"
        /\ r.pc \in {"planProfiles", "planTopics", "recheck", "topic", "postTopic", "profile",
                     "writeProfile", "verifyProfile"} => k = "restore"
        /\ r.pc = "guardDlp" => k \in {"dlpPatch", "dlpReplace", "dlpDelete"}
        /\ r.pc = "editDlp" => k \in {"dlpCreate", "dlpPatch", "dlpReplace", "dlpDelete"}
        /\ r.pc \in {"planDlp", "recheckDlp", "createDlp", "copyDlp", "verifyDlp"}
             => k = "dlpRestore"
        /\ r.pc \in {"reserve", "saveKey"} => k \in {"keyCreate", "keyRotate"}
        /\ r.pc = "writeKey" => k \in {"keyCreate", "keyRotate", "keyDelete"}

-----------------------------------------------------------------------------
(* The service *)

\* A write is about things there are.
WriteOK(m) ==
    /\ m.by \in Procs /\ m.effect \in Effects
    /\ Op(m) \notin {"saveKey", "keepKey"}
    /\ Op(m) = "makeTopic" => Target(m) \in TopicNames
    /\ Op(m) \in {"makeTopic", "putTopic"} => m.def \in Contents
    /\ Op(m) = "makeProfile" => Target(m) \in ProfileNames
    /\ Op(m) \in {"makeProfile", "putProfile"} => m.policy \in Policies
    /\ Op(m) = "makeDlp" => Target(m) \in DlpNames /\ m.refs \subseteq Ids
    /\ Op(m) \in {"makeDlp", "putDlp"} => m.body \in Contents

Ops == {"makeTopic", "putTopic", "dropTopic", "makeProfile", "putProfile", "dropProfile",
        "makeDlp", "putDlp", "dropDlp", "makeKey", "rotateKey", "dropKey"}

LEMMA OpIs ==
    ASSUME NEW m, WriteOK(m)
    PROVE  Op(m) \in Ops
  BY DEF WriteOK, Ops, Op, Effects

\* The revision a PUT adds is the highest of its name.
LEMMA RevisedIs ==
    ASSUME NEW s, IsService(s), NEW id, NEW policy \in Policies,
           \E r \in s.profiles : r.id = id, s.keepsId \/ s.next <= MaxId
    PROVE  LET t == Revised(s, id, policy)
           IN  /\ t \in Revisions /\ t.id = (IF s.keepsId THEN id ELSE s.next)
               /\ t.policy = policy
               /\ \A r \in s.profiles : r.id = id => r.name = t.name
               /\ \A r \in Named(s.profiles, t.name) : r.rev < t.rev
<1> DEFINE n == (CHOOSE r \in s.profiles : r.id = id).name
           top == CHOOSE r \in Highest(Named(s.profiles, n)) : TRUE
           t == Revised(s, id, policy)
<1>1. /\ s.profiles \in SUBSET Revisions /\ s.next \in 1 .. MaxId + 1 /\ MaxId \in Nat
      /\ \A r \in s.profiles : r.id \in Ids /\ r.name \in ProfileNames /\ r.rev \in Nat \ {0}
      /\ \A r, q \in s.profiles : r.id = q.id => r.name = q.name
      /\ IsFiniteSet(s.profiles)
  BY RuntimeAssumption DEF IsService, ServiceStates, Revisions
<1>2. \A r \in s.profiles : r.id = id => r.name = n
  BY <1>1
<1>3. n \in ProfileNames /\ id \in Ids /\ Named(s.profiles, n) # {}
  BY <1>1, <1>2 DEF Named
<1>4. Named(s.profiles, n) \in SUBSET Revisions /\ IsFiniteSet(Named(s.profiles, n))
  BY <1>1, FS_Subset DEF Named
<1>5. top \in Highest(Named(s.profiles, n))
  BY <1>3, <1>4, HighestIs
<1>6. /\ top.rev \in Nat \ {0}
      /\ \A r \in Named(s.profiles, n) : r.rev <= top.rev /\ r.rev \in Nat
  BY <1>1, <1>5 DEF Highest, Named
<1> HIDE DEF n, top
<1>7. t = [id |-> IF s.keepsId THEN id ELSE s.next, name |-> n, rev |-> top.rev + 1,
           policy |-> policy]
  BY DEF Revised, n, top
<1>8. s.next \in Ids \/ s.keepsId
  BY <1>1 DEF Ids
<1>9. t \in Revisions
  BY <1>3, <1>6, <1>7, <1>8 DEF Revisions
<1> QED BY <1>2, <1>6, <1>7, <1>9

\* The ids of a part are those of before, or the one given next.
OldIds(s, part, before, next) ==
    \A y \in part : (y.id = s.next /\ s.next < next) \/ \E z \in before : z.id = y.id

\* A service whose ids are those of before, and given in order.
LEMMA ServiceKept ==
    ASSUME NEW s, IsService(s), NEW t \in ServiceStates, s.next <= t.next,
           t.keepsId = s.keepsId,
           OldIds(s, t.profiles, s.profiles, t.next), OldIds(s, t.topics, s.topics, t.next),
           OldIds(s, t.dlp, s.dlp, t.next), OldIds(s, t.keys, s.keys, t.next),
           IsFiniteSet(t.profiles),
           \A r, q \in t.profiles : r.id = q.id => r.name = q.name
    PROVE  IsService(t) /\ t.keepsId = s.keepsId /\ s.next <= t.next
<1>1. s.next \in Nat /\ t.next \in Nat
  BY RuntimeAssumption DEF IsService, ServiceStates
<1>2. \A z \in s.profiles \cup s.topics \cup s.dlp \cup s.keys : z.id \in Nat /\ z.id < s.next
  BY DEF IsService, ServiceStates, Revisions, TopicRecords, DlpRecords, KeyRecords, Ids
<1>3. \A y \in t.profiles \cup t.topics \cup t.dlp \cup t.keys : y.id < t.next
  BY <1>1, <1>2 DEF OldIds
<1> QED BY <1>3 DEF IsService

\* A write leaves a service.
LEMMA AfterService ==
    ASSUME NEW s, IsService(s), NEW m, WriteOK(m), Takes(s, m)
    PROVE  LET t == After(s, m)
           IN  IsService(t) /\ t.keepsId = s.keepsId /\ s.next <= t.next
<1> DEFINE t == After(s, m)
<1>1. /\ s \in ServiceStates /\ IsFiniteSet(s.profiles)
      /\ s.profiles \subseteq Revisions /\ s.topics \subseteq TopicRecords
      /\ s.dlp \subseteq DlpRecords /\ s.keys \subseteq KeyRecords
      /\ s.next \in 1 .. MaxId + 1 /\ MaxId \in Nat
      /\ \A x \in s.profiles \cup s.topics \cup s.dlp \cup s.keys : x.id < s.next
      /\ \A r, q \in s.profiles : r.id = q.id => r.name = q.name
  BY RuntimeAssumption DEF IsService, ServiceStates
<1>2. Op(m) \in Ops
  BY OpIs
<1>3. CASE Op(m) = "makeTopic"
  <2> DEFINE x == [id |-> s.next, name |-> Target(m), def |-> m.def]
             X == s.topics \cup {x}
             n == s.next + 1
  <2>1. t = [s EXCEPT !.topics = X, !.next = n] /\ s.next <= MaxId
    BY <1>3 DEF After, Takes
  <2>2. x \in TopicRecords /\ x.id = s.next
    BY <1>1, <1>3, <2>1 DEF WriteOK, TopicRecords, Ids
  <2> HIDE DEF x
  <2>3. X \subseteq TopicRecords /\ n \in 1 .. MaxId + 1 /\ s.next < n
    BY <1>1, <2>1, <2>2
  <2>4. \A y \in X : y \in s.topics \/ y.id = s.next
    BY <2>2
  <2> HIDE DEF X, n, t
  <2>6. /\ t \in ServiceStates /\ t.topics = X /\ t.next = n /\ t.keepsId = s.keepsId
        /\ t.profiles = s.profiles /\ t.dlp = s.dlp /\ t.keys = s.keys
    BY <1>1, <2>1, <2>3 DEF ServiceStates
  <2> QED BY <1>1, <2>3, <2>4, <2>6, ServiceKept DEF OldIds, t
<1>4. CASE Op(m) = "makeProfile"
  <2> DEFINE x == [id |-> s.next, name |-> Target(m), rev |-> 1, policy |-> m.policy]
             X == s.profiles \cup {x}
             n == s.next + 1
  <2>1. t = [s EXCEPT !.profiles = X, !.next = n] /\ s.next <= MaxId
    BY <1>4 DEF After, Takes
  <2>2. x \in Revisions /\ x.id = s.next
    BY <1>1, <1>4, <2>1 DEF WriteOK, Revisions, Ids, Policies
  <2> HIDE DEF x
  <2>3. X \subseteq Revisions /\ n \in 1 .. MaxId + 1 /\ s.next < n
    BY <1>1, <2>1, <2>2
  <2>4. \A y \in X : y \in s.profiles \/ y.id = s.next
    BY <2>2
  <2>5. IsFiniteSet(X) /\ \A r, q \in X : r.id = q.id => r.name = q.name
    <3>1. \A r \in s.profiles : r.id # x.id
      BY <1>1, <2>2 DEF Revisions, Ids
    <3> QED BY <1>1, <3>1, FS_AddElement
  <2> HIDE DEF X, n, t
  <2>6. /\ t \in ServiceStates /\ t.profiles = X /\ t.next = n /\ t.keepsId = s.keepsId
        /\ t.topics = s.topics /\ t.dlp = s.dlp /\ t.keys = s.keys
    BY <1>1, <2>1, <2>3 DEF ServiceStates
  <2> QED BY <1>1, <2>3, <2>4, <2>5, <2>6, ServiceKept DEF OldIds, t
<1>5. CASE Op(m) = "makeDlp"
  <2> DEFINE x == [id |-> s.next, name |-> Target(m), refs |-> m.refs,
                   body |-> m.body, predefined |-> FALSE, retired |-> FALSE]
             X == s.dlp \cup {x}
             n == s.next + 1
  <2>1. t = [s EXCEPT !.dlp = X, !.next = n] /\ s.next <= MaxId
    BY <1>5 DEF After, Takes
  <2>2. x \in DlpRecords /\ x.id = s.next
    BY <1>1, <1>5, <2>1 DEF WriteOK, DlpRecords, Ids
  <2> HIDE DEF x
  <2>3. X \subseteq DlpRecords /\ n \in 1 .. MaxId + 1 /\ s.next < n
    BY <1>1, <2>1, <2>2
  <2>4. \A y \in X : y \in s.dlp \/ y.id = s.next
    BY <2>2
  <2> HIDE DEF X, n, t
  <2>6. /\ t \in ServiceStates /\ t.dlp = X /\ t.next = n /\ t.keepsId = s.keepsId
        /\ t.profiles = s.profiles /\ t.topics = s.topics /\ t.keys = s.keys
    BY <1>1, <2>1, <2>3 DEF ServiceStates
  <2> QED BY <1>1, <2>3, <2>4, <2>6, ServiceKept DEF OldIds, t
<1>6. CASE Op(m) = "makeKey"
  <2> DEFINE x == [id |-> s.next, value |-> s.next]
             X == s.keys \cup {x}
             n == s.next + 1
  <2>1. t = [s EXCEPT !.keys = X, !.next = n] /\ s.next <= MaxId
    BY <1>6 DEF After, Takes
  <2>2. x \in KeyRecords /\ x.id = s.next
    BY <1>1, <1>6, <2>1 DEF WriteOK, KeyRecords, Ids
  <2> HIDE DEF x
  <2>3. X \subseteq KeyRecords /\ n \in 1 .. MaxId + 1 /\ s.next < n
    BY <1>1, <2>1, <2>2
  <2>4. \A y \in X : y \in s.keys \/ y.id = s.next
    BY <2>2
  <2> HIDE DEF X, n, t
  <2>6. /\ t \in ServiceStates /\ t.keys = X /\ t.next = n /\ t.keepsId = s.keepsId
        /\ t.profiles = s.profiles /\ t.topics = s.topics /\ t.dlp = s.dlp
    BY <1>1, <2>1, <2>3 DEF ServiceStates
  <2> QED BY <1>1, <2>3, <2>4, <2>6, ServiceKept DEF OldIds, t
<1>7. CASE Op(m) = "dropTopic"
  <2> DEFINE X == {k \in s.topics : k.id # Target(m)}
  <2>1. t = [s EXCEPT !.topics = X]
    BY <1>7 DEF After
  <2>2. X \subseteq s.topics
    OBVIOUS
  <2> HIDE DEF X, t
  <2>4. /\ t \in ServiceStates /\ t.topics = X /\ t.next = s.next /\ t.keepsId = s.keepsId
        /\ t.profiles = s.profiles /\ t.dlp = s.dlp /\ t.keys = s.keys
    BY <1>1, <2>1, <2>2 DEF ServiceStates
  <2> QED BY <1>1, <2>2, <2>4, ServiceKept DEF OldIds, t
<1>8. CASE Op(m) = "dropProfile"
  <2> DEFINE X == {r \in s.profiles : r.id # Target(m)}
  <2>1. t = [s EXCEPT !.profiles = X]
    BY <1>8 DEF After
  <2>2. X \subseteq s.profiles
    OBVIOUS
  <2>3. IsFiniteSet(X)
    BY <1>1, <2>2, FS_Subset
  <2> HIDE DEF X, t
  <2>4. /\ t \in ServiceStates /\ t.profiles = X /\ t.next = s.next /\ t.keepsId = s.keepsId
        /\ t.topics = s.topics /\ t.dlp = s.dlp /\ t.keys = s.keys
    BY <1>1, <2>1, <2>2 DEF ServiceStates
  <2> QED BY <1>1, <2>2, <2>3, <2>4, ServiceKept DEF OldIds, t
<1>9. CASE Op(m) = "dropKey"
  <2> DEFINE X == {k \in s.keys : k.id # Target(m)}
  <2>1. t = [s EXCEPT !.keys = X]
    BY <1>9 DEF After
  <2>2. X \subseteq s.keys
    OBVIOUS
  <2> HIDE DEF X, t
  <2>4. /\ t \in ServiceStates /\ t.keys = X /\ t.next = s.next /\ t.keepsId = s.keepsId
        /\ t.profiles = s.profiles /\ t.topics = s.topics /\ t.dlp = s.dlp
    BY <1>1, <2>1, <2>2 DEF ServiceStates
  <2> QED BY <1>1, <2>2, <2>4, ServiceKept DEF OldIds, t
<1>10. CASE Op(m) = "putTopic"
  <2> DEFINE X == {IF k.id = Target(m) THEN [k EXCEPT !.def = m.def] ELSE k : k \in s.topics}
  <2>1. t = [s EXCEPT !.topics = X]
    BY <1>10 DEF After
  <2>2. X \subseteq TopicRecords /\ \A y \in X : \E z \in s.topics : z.id = y.id
    BY <1>1, <1>10 DEF WriteOK, TopicRecords
  <2> HIDE DEF X, t
  <2>4. /\ t \in ServiceStates /\ t.topics = X /\ t.next = s.next /\ t.keepsId = s.keepsId
        /\ t.profiles = s.profiles /\ t.dlp = s.dlp /\ t.keys = s.keys
    BY <1>1, <2>1, <2>2 DEF ServiceStates
  <2> QED BY <1>1, <2>2, <2>4, ServiceKept DEF OldIds, t
<1>11. CASE Op(m) = "putDlp"
  <2> DEFINE X == {IF o.id = Target(m) THEN [o EXCEPT !.body = m.body] ELSE o : o \in s.dlp}
  <2>1. t = [s EXCEPT !.dlp = X]
    BY <1>11 DEF After
  <2>2. X \subseteq DlpRecords /\ \A y \in X : \E z \in s.dlp : z.id = y.id
    BY <1>1, <1>11 DEF WriteOK, DlpRecords
  <2> HIDE DEF X, t
  <2>4. /\ t \in ServiceStates /\ t.dlp = X /\ t.next = s.next /\ t.keepsId = s.keepsId
        /\ t.profiles = s.profiles /\ t.topics = s.topics /\ t.keys = s.keys
    BY <1>1, <2>1, <2>2 DEF ServiceStates
  <2> QED BY <1>1, <2>2, <2>4, ServiceKept DEF OldIds, t
<1>12. CASE Op(m) = "dropDlp"
  <2> DEFINE X == {IF o.id = Target(m) THEN [o EXCEPT !.retired = TRUE] ELSE o
                     : o \in {q \in s.dlp : q.id # Target(m) \/ DlpKind[q.name] = "pattern"}}
  <2>1. t = [s EXCEPT !.dlp = X]
    BY <1>12 DEF After, DlpDropped
  <2>2. X \subseteq DlpRecords /\ \A y \in X : \E z \in s.dlp : z.id = y.id
    BY <1>1, <1>12 DEF WriteOK, DlpRecords
  <2> HIDE DEF X, t
  <2>4. /\ t \in ServiceStates /\ t.dlp = X /\ t.next = s.next /\ t.keepsId = s.keepsId
        /\ t.profiles = s.profiles /\ t.topics = s.topics /\ t.keys = s.keys
    BY <1>1, <2>1, <2>2 DEF ServiceStates
  <2> QED BY <1>1, <2>2, <2>4, ServiceKept DEF OldIds, t
<1>13. CASE Op(m) = "rotateKey"
  <2> DEFINE X == {IF k.id = Target(m) THEN [k EXCEPT !.value = s.next] ELSE k : k \in s.keys}
             n == s.next + 1
  <2>1. t = [s EXCEPT !.keys = X, !.next = n] /\ s.next <= MaxId
    BY <1>13 DEF After, Takes
  <2>2. X \subseteq KeyRecords /\ \A y \in X : \E z \in s.keys : z.id = y.id
    BY <1>1, <1>13, <2>1 DEF WriteOK, KeyRecords, Ids
  <2>3. n \in 1 .. MaxId + 1 /\ s.next < n
    BY <1>1, <2>1
  <2> HIDE DEF X, n, t
  <2>4. /\ t \in ServiceStates /\ t.keys = X /\ t.next = n /\ t.keepsId = s.keepsId
        /\ t.profiles = s.profiles /\ t.topics = s.topics /\ t.dlp = s.dlp
    BY <1>1, <2>1, <2>2, <2>3 DEF ServiceStates
  <2> QED BY <1>1, <2>2, <2>3, <2>4, ServiceKept DEF OldIds, t
<1>14. CASE Op(m) = "putProfile"
  <2> DEFINE x == Revised(s, m.id, m.policy)
             X == s.profiles \cup {x}
             n == IF s.keepsId THEN s.next ELSE s.next + 1
  <2>1. /\ t = [s EXCEPT !.profiles = X, !.next = n]
        /\ \E r \in s.profiles : r.id = m.id
        /\ s.keepsId \/ s.next <= MaxId
    BY <1>14 DEF After, Takes
  <2>2. /\ x \in Revisions /\ x.id = (IF s.keepsId THEN m.id ELSE s.next)
        /\ \A r \in s.profiles : r.id = m.id => r.name = x.name
    BY <1>14, <2>1, RevisedIs DEF WriteOK
  <2> HIDE DEF x
  <2>3. X \subseteq Revisions /\ n \in 1 .. MaxId + 1 /\ s.next <= n
    BY <1>1, <2>1, <2>2
  <2>4. \A r \in s.profiles : r.id = x.id => r.name = x.name
    <3>1. \A r \in s.profiles : r.id # s.next
      BY <1>1 DEF Revisions, Ids
    <3> QED BY <2>2, <3>1
  <2>5. IsFiniteSet(X) /\ \A r, q \in X : r.id = q.id => r.name = q.name
    BY <1>1, <2>4, FS_AddElement
  <2>6. \A y \in X : (y.id = s.next /\ s.next < n) \/ \E z \in s.profiles : z.id = y.id
    BY <1>1, <2>1, <2>2
  <2> HIDE DEF X, n, t
  <2>7. /\ t \in ServiceStates /\ t.profiles = X /\ t.next = n /\ t.keepsId = s.keepsId
        /\ t.topics = s.topics /\ t.dlp = s.dlp /\ t.keys = s.keys
    BY <1>1, <2>1, <2>3 DEF ServiceStates
  <2> QED BY <1>1, <2>3, <2>5, <2>6, <2>7, ServiceKept DEF OldIds, t
<1> QED BY <1>2, <1>3, <1>4, <1>5, <1>6, <1>7, <1>8, <1>9, <1>10, <1>11, <1>12, <1>13, <1>14 DEF Ops

-----------------------------------------------------------------------------
(* The invariant: ledgers *)

Over == {"exit", "ended"}
KeyKinds == {"keyCreate", "keyRotate"}
ManyWrites == {"cleanup", "restore", "dlpRestore"}

\* What it read, and the id it has.
ReadOK(r) ==
    LET k == r.cmd.kind
    IN  /\ k = "dlpRestore" => r.read \subseteq DlpRecords /\ r.known \subseteq DlpRecords
        /\ k # "dlpRestore" => r.read \subseteq Revisions /\ r.known \subseteq TopicRecords
        /\ k \in {"apply", "revert", "topicsCreate"} /\ r.known # {}
             => \E t \in r.known : t.id = r.id
        /\ k \in {"apply", "revert"} /\ r.pc \in {"ask", "findProfile", "write", "drop"}
             => r.known # {}
        /\ r.pc = "write" /\ k \in {"apply", "revert", "profilesUpdate", "profilesDelete"}
             => \E x \in Revisions : r.read = {x}
        /\ r.pc = "ask" /\ k = "profilesDelete" => \E x \in Revisions : r.read = {x}
        /\ k \in KeyKinds /\ r.pc \notin Over => (r.id # 0 <=> r.pc = "saveKey")

\* The item it is at.
PlaceOK(r) ==
    /\ r.pc \in {"start", "connect", "ask", "findTopic", "findProfile", "list", "guardDlp",
                 "planProfiles", "planTopics"} => r.i = 0
    /\ r.pc \in {"topic", "postTopic"} => r.i \in TopicItems(r)
    /\ r.pc \in {"profile", "writeProfile", "verifyProfile"} => r.i \in ProfileItems(r)
    /\ r.pc \in {"planDlp", "recheckDlp"} => r.i < Len(DlpKinds)
    /\ r.pc \in {"createDlp", "copyDlp", "verifyDlp"} => r.i \in DlpItems(r)
    /\ r.pc = "copyDlp" => DlpKind[DlpName(r)] = "profile"

\* Where a command may have written something already.
Busy == {"drop", "delete", "topic", "postTopic", "profile", "writeProfile", "verifyProfile",
         "createDlp", "copyDlp", "verifyDlp", "saveKey"}

\* The effect of the write of a key command.
KeyEffectOf(r) ==
    IF r.cmd.kind = "keyCreate" THEN <<"makeKey", r.cmd.path>> ELSE <<"rotateKey", r.cmd.id>>

\* What a command prints when a signal came in between is checked for these.
Noted(r) == r.cmd.kind \in ManyWrites \/ (r.cmd.kind \in KeyKinds /\ r.id # 0)

\* TopicInDoubt, of a state of a process.
Misstated(r, d, q) ==
    LET put == <<"putProfile", r.cmd.n>>
    IN  /\ r.cmd.kind = "revert"
        /\ r.result.kind = "error" /\ r.result.says = Claim({put}, {})
        /\ put \in d /\ d \cup q = {put, <<"dropTopic", r.id>>}

\* The context of a command before its end says what it did; its result is
\* true, but for TopicInDoubt, and so is the context it leaves.
Ledger(r, d, q) ==
    /\ d \subseteq Effects /\ q \subseteq Effects
    /\ r.pc \notin Over =>
         /\ q = {} /\ r.context = Claim(d, {})
         /\ r.result = NoResult /\ r.report = NoResult /\ ~r.committed
         /\ r.pc = "drop" => d = {<<"putProfile", r.cmd.n>>}
         /\ r.pc = "saveKey" => d = {KeyEffectOf(r)}
         /\ r.pc \notin Busy => d = {}
    /\ r.pc \in Over =>
         /\ True(r.result.says, d, q) \/ Misstated(r, d, q)
         /\ Noted(r) => ~r.committed /\ (r.result.kind = "interrupted" \/ True(r.context, d, q))
         /\ r.pc = "exit" => r.report = NoResult
         /\ Noted(r) /\ r.pc = "ended" => True(r.report.says, d, q)

ProcOK(r, d, q) == r \in ProcStates /\ KindOK(r) /\ ReadOK(r) /\ PlaceOK(r) /\ Ledger(r, d, q)

\* The next state of a process.
StepOK(p, r, d, q) == ProcOK(r, d, q) /\ r.cmd = proc[p].cmd

FileStates == [at : [KeyPaths -> 0 .. MaxId], temps : SUBSET (Procs \X (0 .. MaxId))]

NoTemp(p, f) == \A t \in f.temps : t[1] # p

\* ValueKept, of a state of a process and of the files.
Kept(p, r, f, says) ==
    /\ says[<<"saveKey", r.cmd.path>>] = "yes" => r.id # 0 /\ f.at[r.cmd.path] = r.id
    /\ IF says[<<"keepKey", r.cmd.path>>] = "yes" THEN <<p, r.id>> \in f.temps ELSE NoTemp(p, f)

\* The temporary and the file of a command that writes a key.
KeyOK(p, r, f) ==
    r.cmd.kind \in KeyKinds =>
      /\ r.pc \in {"writeKey", "saveKey"} => <<p, 0>> \in f.temps
      /\ r.pc \notin Over \cup {"writeKey", "saveKey"} => NoTemp(p, f)
      /\ r.pc \in Over => Kept(p, r, f, r.result.says)
      /\ r.pc \in Over /\ r.id # 0 => Kept(p, r, f, r.context)
      /\ r.pc = "ended" /\ r.id # 0 => Kept(p, r, f, r.report.says)

Typed ==
    /\ IsService(svc) /\ signal \subseteq Procs /\ stale \subseteq Procs
    /\ proc \in [Procs -> ProcStates]
    /\ did \in [Procs -> SUBSET Effects] /\ doubt \in [Procs -> SUBSET Effects]
    /\ files \in FileStates

\* A write on the wire is one its command has in doubt.
WireOK == \A m \in wire : WriteOK(m) /\ m.effect \in doubt[m.by]

ProcsOK == \A p \in Procs : ProcOK(proc[p], did[p], doubt[p])
FilesOK == \A p \in Procs : KeyOK(p, proc[p], files)

IInv == Typed /\ WireOK /\ ProcsOK /\ FilesOK

-----------------------------------------------------------------------------
(* Claims *)

\* A message is a claim about every effect.
LEMMA ClaimFacts ==
    ASSUME NEW yes, NEW maybe
    PROVE  /\ Claim(yes, maybe) \in Claims
           /\ \A e \in Effects :
                /\ e \in maybe => Claim(yes, maybe)[e] = "maybe"
                /\ e \notin maybe /\ e \in yes => Claim(yes, maybe)[e] = "yes"
                /\ e \notin maybe /\ e \notin yes => Claim(yes, maybe)[e] = "no"
  BY DEF Claim, Claims

\* It is true when the effects it claims were had, and those it does not
\* mention neither were had nor are in doubt.
LEMMA ClaimTrue ==
    ASSUME NEW yes, NEW maybe, NEW d, NEW q,
           yes \subseteq d \cup maybe, d \cup q \subseteq yes \cup maybe
    PROVE  True(Claim(yes, maybe), d, q)
  BY ClaimFacts DEF True

\* What is said of a failed write is true of the effects after it.
LEMMA ToldTrue ==
    ASSUME NEW a \in Answers, a # "ok", NEW done, NEW e, NEW d, NEW q,
           d = done \cup (IF a \in Carried THEN {e} ELSE {}),
           q = IF a \in InDoubt THEN {e} ELSE {}
    PROVE  Told(a, done, e) \in Claims /\ True(Told(a, done, e), d, q)
<1>1. CASE a \in InDoubt
  <2>1. Told(a, done, e) = Claim(done, {e})
    BY <1>1 DEF Told
  <2>2. d = done /\ q = {e}
    BY <1>1 DEF InDoubt, Carried
  <2> QED BY <2>1, <2>2, ClaimTrue, ClaimFacts
<1>2. CASE a = "unreadable"
  <2>1. Told(a, done, e) = Claim(done \cup {e}, {}) /\ d = done \cup {e} /\ q = {}
    BY <1>2 DEF Told, InDoubt, Carried
  <2> QED BY <2>1, ClaimTrue, ClaimFacts
<1>3. CASE a \notin InDoubt /\ a # "unreadable"
  <2>1. Told(a, done, e) = Claim(done, {}) /\ d = done /\ q = {}
    BY <1>3 DEF Told, Carried
  <2> QED BY <2>1, ClaimTrue, ClaimFacts
<1> QED BY <1>1, <1>2, <1>3

\* A result has a type.
LEMMA ResultType ==
    ASSUME NEW says \in Claims
    PROVE  /\ Ok(says) \in Results /\ Ok(says).says = says /\ Ok(says).kind = "ok"
           /\ \A a \in Answers : /\ Failed(a, says) \in Results /\ Failed(a, says).says = says
                                 /\ a \in Interrupted => Failed(a, says).kind = "interrupted"
           /\ NoResult \in Results
  BY ClaimFacts DEF Ok, Failed, Results, NoResult, NothingChanged

LEMMA NothingIs == NothingChanged \in Claims /\ True(NothingChanged, {}, {})
  BY ClaimFacts, ClaimTrue DEF NothingChanged

-----------------------------------------------------------------------------
(* The states of a process *)

\* The state at another point.
LEMMA AtIs ==
    ASSUME IInv, NEW p \in Procs, NEW pc \in PCs
    PROVE  LET r == At(p, pc) IN
           /\ r \in ProcStates /\ r.pc = pc /\ r.cmd = proc[p].cmd /\ r.context = proc[p].context
           /\ r.committed = proc[p].committed /\ r.result = proc[p].result
           /\ r.report = proc[p].report /\ r.read = proc[p].read /\ r.known = proc[p].known
           /\ r.i = proc[p].i /\ r.id = proc[p].id
<1>1. proc[p] \in ProcStates
  BY DEF IInv, Typed
<1> QED BY <1>1 DEF At, ProcStates

\* The state of a command that exits.
LEMMA ExitIs ==
    ASSUME IInv, NEW p \in Procs, NEW result \in Results
    PROVE  LET r == Exit(p, result) IN
           /\ r \in ProcStates /\ r.pc = "exit" /\ r.cmd = proc[p].cmd
           /\ r.context = proc[p].context /\ r.committed = proc[p].committed
           /\ r.result = result /\ r.report = proc[p].report /\ r.read = proc[p].read
           /\ r.known = proc[p].known /\ r.i = proc[p].i /\ r.id = proc[p].id
<1>1. proc[p] \in ProcStates
  BY DEF IInv, Typed
<1> QED BY <1>1 DEF Exit, At, ProcStates, PCs

\* What holds of the state of a process.
LEMMA ProcIs ==
    ASSUME IInv, NEW p \in Procs
    PROVE  /\ proc[p] \in ProcStates /\ proc[p].cmd \in Cmds /\ CmdOK(proc[p].cmd)
           /\ KindOK(proc[p]) /\ ReadOK(proc[p]) /\ PlaceOK(proc[p])
           /\ Ledger(proc[p], did[p], doubt[p]) /\ KeyOK(p, proc[p], files)
<1>1. proc[p] \in ProcStates /\ KeyOK(p, proc[p], files)
  BY DEF IInv, Typed, FilesOK
<1>2. proc[p].cmd \in Cmds
  BY <1>1 DEF ProcStates
<1> QED BY <1>1, <1>2, CmdFacts DEF IInv, ProcsOK, ProcOK

\* A process that exits, in any way.
LEMMA OverOK ==
    ASSUME NEW r \in ProcStates, r.pc = "exit", ReadOK(r), r.report = NoResult,
           NEW d, d \subseteq Effects, NEW q, q \subseteq Effects,
           True(r.result.says, d, q) \/ Misstated(r, d, q),
           Noted(r) => ~r.committed /\ (r.result.kind = "interrupted" \/ True(r.context, d, q))
    PROVE  ProcOK(r, d, q)
<1>1. KindOK(r) /\ PlaceOK(r)
  BY DEF KindOK, PlaceOK
<1>2. Ledger(r, d, q)
  BY DEF Ledger, Over
<1> QED BY <1>1, <1>2 DEF ProcOK

\* What it read stays as it was.
LEMMA ReadStays ==
    ASSUME IInv, NEW p \in Procs, NEW r, r.cmd = proc[p].cmd, r.pc = "exit",
           r.read = proc[p].read, r.known = proc[p].known, r.id = proc[p].id
    PROVE  ReadOK(r)
  BY ProcIs DEF ReadOK, Over

\* A command exits with a true result.
LEMMA ExitOK ==
    ASSUME IInv, NEW p \in Procs, proc[p].pc \notin Over, NEW result \in Results,
           NEW d, d \subseteq Effects, NEW q, q \subseteq Effects, True(result.says, d, q),
           Noted(proc[p]) => result.kind = "interrupted" \/ True(proc[p].context, d, q)
    PROVE  StepOK(p, Exit(p, result), d, q)
<1> DEFINE r == Exit(p, result)
<1>1. /\ r \in ProcStates /\ r.pc = "exit" /\ r.cmd = proc[p].cmd
      /\ r.context = proc[p].context /\ r.committed = proc[p].committed
      /\ r.result = result /\ r.report = proc[p].report /\ r.read = proc[p].read
      /\ r.known = proc[p].known /\ r.id = proc[p].id
  BY ExitIs
<1> HIDE DEF r
<1>2. r.report = NoResult /\ ~r.committed
  BY <1>1, ProcIs DEF Ledger
<1>3. ReadOK(r)
  BY <1>1, ReadStays
<1>4. Noted(r) <=> Noted(proc[p])
  BY <1>1 DEF Noted
<1>5. ProcOK(r, d, q)
  BY <1>1, <1>2, <1>3, <1>4, OverOK
<1> QED BY <1>1, <1>5 DEF StepOK, r

\* A command exits with what it did so far.
LEMMA QuitOK ==
    ASSUME IInv, NEW p \in Procs, proc[p].pc \notin Over, NEW a \in Answers
    PROVE  StepOK(p, Exit(p, Failed(a, proc[p].context)), did[p], doubt[p])
<1>1. /\ did[p] \subseteq Effects /\ doubt[p] = {} /\ proc[p].context = Claim(did[p], {})
  BY ProcIs DEF Ledger
<1>2. proc[p].context \in Claims /\ True(proc[p].context, did[p], doubt[p])
  BY <1>1, ClaimFacts, ClaimTrue
<1> QED BY <1>1, <1>2, ExitOK, ResultType

\* A command that changed nothing exits and says so.
LEMMA NothingOK ==
    ASSUME IInv, NEW p \in Procs, proc[p].pc \notin Over, proc[p].pc \notin Busy
    PROVE  StepOK(p, Exit(p, Ok(NothingChanged)), did[p], doubt[p])
<1>1. did[p] = {} /\ doubt[p] = {} /\ proc[p].context = NothingChanged
  BY ProcIs DEF Ledger, NothingChanged
<1> QED BY <1>1, NothingIs, ExitOK, ResultType

-----------------------------------------------------------------------------
(* Steps *)

\* Only p moves, and the files stay.
LEMMA FilesStay ==
    ASSUME IInv, NEW p \in Procs, NEW r, proc' = [proc EXCEPT ![p] = r], files' = files,
           KeyOK(p, r, files)
    PROVE  FilesOK'
  BY DEF IInv, Typed, FilesOK

\* The commands that hold no key have no file.
LEMMA NoKey ==
    ASSUME NEW p \in Procs, NEW r, r.cmd = proc[p].cmd, Kind(p) \notin KeyKinds
    PROVE  KeyOK(p, r, files)
  BY DEF KeyOK, Kind

\* A step of one process that writes nothing.
LEMMA MoveStep ==
    ASSUME IInv, NEW p \in Procs, NEW r, Move(p, r), StepOK(p, r, did[p], doubt[p]),
           files' = files, KeyOK(p, r, files), stale' \subseteq Procs
    PROVE  IInv'
<1>1. proc' = [proc EXCEPT ![p] = r] /\ UNCHANGED <<svc, wire, did, doubt, signal>>
  BY DEF Move, Set, world
<1>2. r \in ProcStates /\ ProcOK(r, did[p], doubt[p])
  BY DEF StepOK, ProcOK
<1>3. Typed'
  BY <1>1, <1>2 DEF IInv, Typed
<1>4. WireOK'
  BY <1>1 DEF IInv, WireOK
<1>5. ProcsOK'
  BY <1>1, <1>2 DEF IInv, Typed, ProcsOK
<1>6. FilesOK'
  BY <1>1, FilesStay
<1> QED BY <1>3, <1>4, <1>5, <1>6 DEF IInv

\* A read that fails ends a command.
LEMMA ReadFailsStep ==
    ASSUME IInv, NEW p \in Procs, proc[p].pc \notin Over, Kind(p) \notin KeyKinds,
           ReadFails(p), files' = files, stale' \subseteq Procs
    PROVE  IInv'
<1>1. PICK a \in Unread(p) : Move(p, Exit(p, Failed(a, proc[p].context)))
  BY DEF ReadFails
<1>2. a \in Answers
  BY DEF Unread, Interrupted, Answers
<1>3. StepOK(p, Exit(p, Failed(a, proc[p].context)), did[p], doubt[p])
  BY <1>2, QuitOK
<1>4. KeyOK(p, Exit(p, Failed(a, proc[p].context)), files)
  BY <1>3, NoKey DEF StepOK
<1> QED BY <1>1, <1>3, <1>4, MoveStep

\* What a process had and has in doubt after the answer a to a write of
\* effect e.
Had(p, a, e) == IF a \in Carried THEN did[p] \cup {e} ELSE did[p]
Open(p, a, e) == IF a \in InDoubt THEN doubt[p] \cup {e} ELSE doubt[p]

\* A write is sent again from the same state.
LEMMA AgainOK ==
    ASSUME IInv, NEW p \in Procs, proc[p].pc \notin Over
    PROVE  LET r == [At(p, proc[p].pc) EXCEPT !.replayed = TRUE]
           IN  StepOK(p, r, did[p], doubt[p]) /\ KeyOK(p, r, files)
<1> DEFINE r == [At(p, proc[p].pc) EXCEPT !.replayed = TRUE]
<1>1. proc[p] \in ProcStates
  BY ProcIs
<1>2. /\ r \in ProcStates /\ r.pc = proc[p].pc /\ r.cmd = proc[p].cmd
      /\ r.context = proc[p].context /\ r.committed = proc[p].committed
      /\ r.result = proc[p].result /\ r.report = proc[p].report
      /\ r.read = proc[p].read /\ r.known = proc[p].known /\ r.i = proc[p].i /\ r.id = proc[p].id
  BY <1>1 DEF At, ProcStates
<1> HIDE DEF r
<1>3. KindOK(r) /\ ReadOK(r) /\ KeyOK(p, r, files)
  BY <1>2, ProcIs DEF KindOK, ReadOK, KeyOK
<1>4. TopicItems(r) = TopicItems(proc[p]) /\ ProfileItems(r) = ProfileItems(proc[p])
  BY <1>2 DEF TopicItems, ProfileItems, Topics, Acted, Action
<1>5. DlpItems(r) = DlpItems(proc[p]) /\ DlpName(r) = DlpName(proc[p])
  BY <1>2 DEF DlpName, DlpItems, DlpSequence, DlpCreates, DlpRows, Unresolved, DlpAction, Existing, RowName
<1>6. PlaceOK(r)
  BY <1>2, <1>4, <1>5, ProcIs DEF PlaceOK
<1>7. Ledger(r, did[p], doubt[p])
  BY <1>2, ProcIs DEF Ledger, Noted, KeyEffectOf
<1> QED BY <1>2, <1>3, <1>6, <1>7 DEF StepOK, ProcOK, r

\* A step of one process that sends a write.
LEMMA SendStep ==
    ASSUME IInv, NEW p \in Procs, proc[p].pc \notin Over, NEW m, WriteOK(m), m.by = p,
           NEW then, Send(p, m, proc[p].pc, then),
           \A a \in Answers : (a \in Carried => Takes(svc, m)) =>
              StepOK(p, then[a], Had(p, a, m.effect), Open(p, a, m.effect)),
           stale' \subseteq Procs, files' \in FileStates
    PROVE  /\ Typed' /\ WireOK' /\ ProcsOK'
           /\ proc' = [proc EXCEPT ![p] = proc'[p]] /\ proc'[p].cmd = proc[p].cmd
           /\ \/ proc'[p] = [At(p, proc[p].pc) EXCEPT !.replayed = TRUE]
              \/ \E a \in Answers : (a \in Carried => Takes(svc, m)) /\ proc'[p] = then[a]
<1>1. PICK a \in Possible(p \in signal) :
        /\ a \in Carried => Takes(svc, m)
        /\ svc' = IF a \in Carried THEN After(svc, m) ELSE svc
        /\ did' = IF a \in Carried THEN [did EXCEPT ![p] = @ \cup {m.effect}] ELSE did
        /\ wire' = IF a \in InDoubt THEN wire \cup {m} ELSE wire
        /\ doubt' = IF a \in InDoubt THEN [doubt EXCEPT ![p] = @ \cup {m.effect}] ELSE doubt
        /\ Set(p, IF Replays(a, proc[p].replayed)
                  THEN [At(p, proc[p].pc) EXCEPT !.replayed = TRUE]
                  ELSE then[a])
  BY DEF Send
<1>2. a \in Answers /\ signal' = signal
  BY <1>1 DEF Send, Possible, Interrupted, Answers
<1>3. /\ did' \in [Procs -> SUBSET Effects] /\ did'[p] = Had(p, a, m.effect)
      /\ \A o \in Procs : o # p => did'[o] = did[o]
      /\ doubt' \in [Procs -> SUBSET Effects] /\ doubt'[p] = Open(p, a, m.effect)
      /\ \A o \in Procs : o # p => doubt'[o] = doubt[o]
  BY <1>1 DEF IInv, Typed, WriteOK, Had, Open
<1> DEFINE r == IF Replays(a, proc[p].replayed)
                THEN [At(p, proc[p].pc) EXCEPT !.replayed = TRUE] ELSE then[a]
<1>4. proc' = [proc EXCEPT ![p] = r] /\ StepOK(p, r, did'[p], doubt'[p])
  <2>1. CASE Replays(a, proc[p].replayed)
    <3>1. did'[p] = did[p] /\ doubt'[p] = doubt[p]
      BY <1>3, <2>1 DEF Replays, Had, Open, Carried, InDoubt
    <3> QED BY <1>1, <2>1, <3>1, AgainOK DEF Set
  <2>2. CASE ~Replays(a, proc[p].replayed)
    <3>1. r = then[a] /\ StepOK(p, then[a], Had(p, a, m.effect), Open(p, a, m.effect))
      BY <1>1, <1>2, <2>2
    <3> QED BY <1>1, <1>3, <3>1 DEF Set
  <2> QED BY <2>1, <2>2
<1>5. \/ r = [At(p, proc[p].pc) EXCEPT !.replayed = TRUE]
      \/ (a \in Carried => Takes(svc, m)) /\ r = then[a]
  BY <1>1
<1> HIDE DEF r
<1>6. r \in ProcStates /\ r.cmd = proc[p].cmd /\ ProcOK(r, did'[p], doubt'[p])
  BY <1>4 DEF StepOK, ProcOK
<1>7. proc'[p] = r /\ \A o \in Procs : o # p => proc'[o] = proc[o]
  BY <1>4 DEF IInv, Typed
<1>8. IsService(svc')
  BY <1>1, AfterService DEF IInv, Typed
<1>9. Typed'
  BY <1>2, <1>3, <1>4, <1>6, <1>8 DEF IInv, Typed
<1>10. WireOK'
  <2> SUFFICES ASSUME NEW n \in wire' PROVE WriteOK(n) /\ n.effect \in doubt'[n.by]
    BY DEF WireOK
  <2>1. CASE n \in wire
    BY <1>3, <2>1 DEF IInv, WireOK, WriteOK, Open
  <2>2. CASE n \notin wire
    BY <1>1, <1>3, <2>2 DEF Open
  <2> QED BY <2>1, <2>2
<1>11. ProcsOK'
  <2> SUFFICES ASSUME NEW o \in Procs PROVE ProcOK(proc'[o], did'[o], doubt'[o])
    BY DEF ProcsOK
  <2>1. CASE o = p
    BY <1>6, <1>7, <2>1
  <2>2. CASE o # p
    BY <1>3, <1>7, <2>2 DEF IInv, ProcsOK
  <2> QED BY <2>1, <2>2
<1> QED BY <1>2, <1>4, <1>5, <1>6, <1>7, <1>9, <1>10, <1>11

\* ... of a command that holds no key.
LEMMA PlainSend ==
    ASSUME IInv, NEW p \in Procs, proc[p].pc \notin Over, Kind(p) \notin KeyKinds,
           NEW m, WriteOK(m), m.by = p, NEW then, Send(p, m, proc[p].pc, then),
           \A a \in Answers : (a \in Carried => Takes(svc, m)) =>
              StepOK(p, then[a], Had(p, a, m.effect), Open(p, a, m.effect)),
           stale' \subseteq Procs, files' = files
    PROVE  IInv'
<1>1. files' \in FileStates
  BY DEF IInv, Typed
<1>2. /\ Typed' /\ WireOK' /\ ProcsOK'
      /\ proc' = [proc EXCEPT ![p] = proc'[p]] /\ proc'[p].cmd = proc[p].cmd
  BY <1>1, SendStep
<1>3. KeyOK(p, proc'[p], files)
  BY <1>2, NoKey
<1>4. FilesOK'
  BY <1>2, <1>3, FilesStay
<1> QED BY <1>2, <1>4 DEF IInv

\* A late write moves an effect its process has in doubt.
LEMMA TrueLater ==
    ASSUME NEW says, NEW d, NEW q, NEW e \in q, True(says, d, q)
    PROVE  True(says, d \cup {e}, q)
  BY DEF True

LEMMA ArriveStep ==
    ASSUME IInv, NEW m \in wire, Arrive(m), stale' \subseteq Procs, files' = files
    PROVE  IInv'
<1>1. WriteOK(m) /\ m.effect \in doubt[m.by] /\ m.by \in Procs /\ m.effect \in Effects
  BY DEF IInv, WireOK, WriteOK
<1>2. wire' = wire \ {m} /\ UNCHANGED <<signal, proc, doubt>>
  BY DEF Arrive
<1>3. \/ did' = did
      \/ did' = [did EXCEPT ![m.by] = @ \cup {m.effect}]
  BY DEF Arrive
<1>4. IsService(svc')
  BY <1>1, AfterService DEF Arrive, IInv, Typed
<1>5. did' \in [Procs -> SUBSET Effects]
  BY <1>1, <1>3 DEF IInv, Typed
<1>6. Typed'
  BY <1>2, <1>4, <1>5 DEF IInv, Typed
<1>7. WireOK'
  BY <1>2 DEF IInv, WireOK
<1>8. FilesOK'
  BY <1>2 DEF IInv, FilesOK
<1>9. ProcsOK'
  <2> SUFFICES ASSUME NEW o \in Procs PROVE ProcOK(proc[o], did'[o], doubt[o])
    BY <1>2 DEF ProcsOK
  <2>1. ProcOK(proc[o], did[o], doubt[o])
    BY DEF IInv, ProcsOK
  <2>2. CASE did'[o] = did[o]
    BY <2>1, <2>2
  <2>3. CASE did'[o] # did[o]
    <3>1. did'[o] = did[o] \cup {m.effect} /\ m.effect \in doubt[o]
      BY <1>1, <1>3, <2>3 DEF IInv, Typed
    <3>2. proc[o].pc \in Over
      BY <2>1, <3>1 DEF ProcOK, Ledger
    <3>3. Misstated(proc[o], did[o], doubt[o]) => Misstated(proc[o], did'[o], doubt[o])
      BY <3>1 DEF Misstated
    <3>4. Ledger(proc[o], did'[o], doubt[o])
      BY <1>5, <2>1, <3>1, <3>2, <3>3, TrueLater DEF ProcOK, Ledger
    <3> QED BY <2>1, <3>4 DEF ProcOK
  <2> QED BY <2>2, <2>3
<1> QED BY <1>6, <1>7, <1>8, <1>9 DEF IInv

LEMMA SignalStep ==
    ASSUME IInv, NEW p \in Procs, Signal(p), stale' \subseteq Procs, files' = files
    PROVE  IInv'
<1>1. signal' = signal \cup {p} /\ UNCHANGED <<svc, wire, did, doubt, proc>>
  BY DEF Signal, world
<1>2. Typed'
  BY <1>1 DEF IInv, Typed
<1>3. WireOK' /\ ProcsOK' /\ FilesOK'
  BY <1>1 DEF IInv, WireOK, ProcsOK, FilesOK
<1> QED BY <1>2, <1>3 DEF IInv

\* The end: what it prints is its result, or the context.
LEMMA ReportStep ==
    ASSUME IInv, NEW p \in Procs, Report(p, proc[p].result.says), stale' \subseteq Procs,
           files' = files
    PROVE  IInv'
<1> DEFINE printed == Printed(proc[p].result, p \in signal, proc[p].committed,
                              proc[p].result.says, proc[p].context)
           r == [At(p, "ended") EXCEPT !.report = printed]
<1>1. Move(p, r) /\ proc[p].pc = "exit"
  BY DEF Report
<1>2. /\ proc[p] \in ProcStates
      /\ proc[p].result \in Results /\ proc[p].context \in Claims /\ proc[p].result.says \in Claims
  BY ProcIs DEF ProcStates, Results
<1>3. /\ printed \in Results
      /\ \/ printed.says = proc[p].result.says
         \/ ~proc[p].committed /\ proc[p].result.kind # "interrupted"
            /\ printed.says = proc[p].context
  BY <1>2 DEF Printed, Results
<1> HIDE DEF printed
<1>4. /\ r \in ProcStates /\ r.pc = "ended" /\ r.cmd = proc[p].cmd
      /\ r.context = proc[p].context /\ r.committed = proc[p].committed
      /\ r.result = proc[p].result /\ r.report = printed
      /\ r.read = proc[p].read /\ r.known = proc[p].known /\ r.id = proc[p].id
  BY <1>2, <1>3 DEF At, ProcStates, PCs
<1> HIDE DEF r
<1>5. KindOK(r) /\ PlaceOK(r)
  BY <1>4 DEF KindOK, PlaceOK
<1>6. ReadOK(r)
  BY <1>1, <1>4, ProcIs DEF ReadOK, Over
<1>7. Ledger(r, did[p], doubt[p])
  <2>1. Misstated(proc[p], did[p], doubt[p])
          => Misstated(r, did[p], doubt[p]) /\ ~Noted(r)
    BY <1>4 DEF Misstated, Noted, ManyWrites, KeyKinds
  <2> QED BY <1>1, <1>3, <1>4, <2>1, ProcIs DEF Ledger, Over, Noted
<1>8. KeyOK(p, r, files)
  <2> SUFFICES ASSUME proc[p].cmd.kind \in KeyKinds PROVE KeyOK(p, r, files)
    BY <1>4 DEF KeyOK
  <2>1. /\ Kept(p, proc[p], files, proc[p].result.says)
        /\ proc[p].id # 0 => Kept(p, proc[p], files, proc[p].context)
    BY <1>1, ProcIs DEF KeyOK, Over
  <2> QED BY <1>3, <1>4, <2>1 DEF KeyOK, Kept, Over
<1>9. StepOK(p, r, did[p], doubt[p])
  BY <1>4, <1>5, <1>6, <1>7 DEF StepOK, ProcOK
<1> QED BY <1>1, <1>8, <1>9, MoveStep

-----------------------------------------------------------------------------
(* The first steps *)

\* A command goes on, and has done nothing meanwhile.
LEMMA GoOnOK ==
    ASSUME IInv, NEW p \in Procs, proc[p].pc \notin Over,
           NEW r \in ProcStates, r.cmd = proc[p].cmd, r.pc \notin Over \cup {"drop", "saveKey"},
           r.context = proc[p].context, r.committed = proc[p].committed,
           r.result = proc[p].result, r.report = proc[p].report,
           KindOK(r), ReadOK(r), PlaceOK(r), r.pc \in Busy \/ proc[p].pc \notin Busy
    PROVE  StepOK(p, r, did[p], doubt[p])
<1>1. Ledger(r, did[p], doubt[p])
  BY ProcIs DEF Ledger
<1> QED BY <1>1 DEF StepOK, ProcOK

\* Two that take such a step.
LEMMA AtStep ==
    ASSUME IInv, NEW p \in Procs, proc[p].pc \notin Over, Kind(p) \notin KeyKinds,
           NEW pc \in PCs, pc \notin Over \cup {"drop", "saveKey"}, Move(p, At(p, pc)),
           KindOK(At(p, pc)), ReadOK(At(p, pc)), PlaceOK(At(p, pc)),
           pc \in Busy \/ proc[p].pc \notin Busy, files' = files, stale' \subseteq Procs
    PROVE  IInv'
<1> DEFINE r == At(p, pc)
<1>1. /\ r \in ProcStates /\ r.pc = pc /\ r.cmd = proc[p].cmd
      /\ r.context = proc[p].context /\ r.committed = proc[p].committed
      /\ r.result = proc[p].result /\ r.report = proc[p].report
  BY AtIs
<1> HIDE DEF r
<1>2. StepOK(p, r, did[p], doubt[p])
  BY <1>1, GoOnOK DEF r
<1>3. KeyOK(p, r, files)
  BY <1>1, NoKey
<1> QED BY <1>2, <1>3, MoveStep DEF r

LEMMA StopStep ==
    ASSUME IInv, NEW p \in Procs, proc[p].pc \notin Over, Kind(p) \notin KeyKinds,
           Move(p, Stop(p)) \/ Move(p, Interrupt(p)), files' = files, stale' \subseteq Procs
    PROVE  IInv'
<1>1. PICK a \in {"local", "unsent"} : Move(p, Exit(p, Failed(a, proc[p].context)))
  BY DEF Stop, Interrupt
<1>2. a \in Answers
  BY DEF Answers
<1>3. StepOK(p, Exit(p, Failed(a, proc[p].context)), did[p], doubt[p])
  BY <1>2, QuitOK
<1>4. KeyOK(p, Exit(p, Failed(a, proc[p].context)), files)
  BY <1>3, NoKey DEF StepOK
<1> QED BY <1>1, <1>3, <1>4, MoveStep

LEMMA NothingStep ==
    ASSUME IInv, NEW p \in Procs, proc[p].pc \notin Over \cup Busy, Kind(p) \notin KeyKinds,
           Move(p, Exit(p, Ok(NothingChanged))), files' = files, stale' \subseteq Procs
    PROVE  IInv'
<1>1. StepOK(p, Exit(p, Ok(NothingChanged)), did[p], doubt[p])
  BY NothingOK
<1>2. KeyOK(p, Exit(p, Ok(NothingChanged)), files)
  BY <1>1, NoKey DEF StepOK
<1> QED BY <1>1, <1>2, MoveStep

LEMMA StartStep ==
    ASSUME IInv, NEW p \in Procs, Start(p), files' = files, stale' \subseteq Procs
    PROVE  IInv'
<1>1. /\ proc[p].pc = "start" /\ Kind(p) \in {"topicsDelete", "keyDelete"}
      /\ Move(p, At(p, "ask"))
  BY DEF Start, AsksFirst
<1> DEFINE r == At(p, "ask")
<1>2. /\ r.pc = "ask" /\ r.cmd = proc[p].cmd /\ r.read = proc[p].read
      /\ r.known = proc[p].known /\ r.i = proc[p].i /\ r.id = proc[p].id
  BY AtIs DEF PCs
<1> HIDE DEF r
<1>3. KindOK(r) /\ ReadOK(r) /\ PlaceOK(r)
  BY <1>1, <1>2, ProcIs DEF KindOK, ReadOK, PlaceOK, Kind, KeyKinds
<1> QED BY <1>1, <1>3, AtStep DEF r, PCs, Over, Busy, KeyKinds

LEMMA ConnectStep ==
    ASSUME IInv, NEW p \in Procs, Connect(p), files' = files, stale' \subseteq Procs
    PROVE  IInv'
<1>1. proc[p].pc \in {"start", "connect"} /\ Kind(p) \notin KeyKinds /\ Kind(p) \in AllKinds
  BY ProcIs DEF Connect, WritesKey, KindOK, Kind, KeyKinds, CmdOK
<1>2. CASE ReadFails(p)
  BY <1>1, <1>2, ReadFailsStep DEF Over
<1>3. CASE Move(p, At(p, FirstStep(p)))
  <2> DEFINE pc == FirstStep(p)
             r == At(p, pc)
  <2>1. /\ Kind(p) = "cleanup" => pc = "list"
        /\ Kind(p) = "restore" => pc = "planProfiles"
        /\ Kind(p) = "dlpRestore" => pc = "planDlp"
        /\ Kind(p) = "dlpCreate" => pc = "editDlp"
        /\ Kind(p) \in {"dlpPatch", "dlpReplace", "dlpDelete"} => pc = "guardDlp"
        /\ Kind(p) \in {"apply", "revert", "topicsCreate"} => pc = "findTopic"
        /\ Kind(p) \in {"profilesUpdate", "profilesDelete"} => pc = "findProfile"
        /\ Kind(p) = "keyDelete" => pc = "writeKey"
        /\ Kind(p) \in {"topicsUpdate", "topicsDelete", "profilesCreate"} => pc = "write"
    BY DEF FirstStep
  <2> HIDE DEF pc
  <2>2. pc \in {"list", "planProfiles", "planDlp", "editDlp", "guardDlp", "findTopic",
                "findProfile", "writeKey", "write"}
    BY <1>1, <2>1 DEF AllKinds, KeyKinds
  <2>3. pc \in PCs /\ pc \notin Over \cup Busy
    BY <2>2 DEF PCs, Over, Busy
  <2>4. /\ r.pc = pc /\ r.cmd = proc[p].cmd /\ r.read = proc[p].read
        /\ r.known = proc[p].known /\ r.i = proc[p].i /\ r.id = proc[p].id
    BY <2>3, AtIs
  <2> HIDE DEF r
  <2>5. KindOK(r)
    BY <1>1, <2>1, <2>2, <2>4 DEF KindOK, Kind, AllKinds, KeyKinds
  <2>6. ReadOK(r)
    BY <1>1, <2>1, <2>2, <2>4, ProcIs DEF ReadOK, Kind, AllKinds, KeyKinds
  <2>7. PlaceOK(r)
    BY <1>1, <2>2, <2>4, ProcIs DEF PlaceOK, DlpKinds
  <2> QED BY <1>1, <1>3, <2>3, <2>5, <2>6, <2>7, AtStep DEF r, pc, Over, Busy
<1> QED BY <1>2, <1>3 DEF Connect

\* A key command that ends without having sent its write, or with a failure of
\* it, leaves no temporary and no file.
LEMMA KeyExit ==
    ASSUME IInv, NEW p \in Procs, Kind(p) \in KeyKinds, proc[p].pc \notin Over \cup {"saveKey"},
           NEW f, NoTemp(p, f), NEW result \in Results,
           \A where \in {"saveKey", "keepKey"} : result.says[<<where, Path(p)>>] # "yes"
    PROVE  KeyOK(p, Exit(p, result), f)
<1> DEFINE r == Exit(p, result)
<1>1. r.pc = "exit" /\ r.cmd = proc[p].cmd /\ r.result = result /\ r.id = proc[p].id
  BY ExitIs
<1> HIDE DEF r
<1>2. r.id = 0
  BY <1>1, ProcIs DEF ReadOK, Kind, Over
<1>3. Kept(p, r, f, r.result.says)
  BY <1>1 DEF Kept, Path
<1> QED BY <1>1, <1>2, <1>3 DEF KeyOK, Over, r

LEMMA KeyQuit ==
    ASSUME IInv, NEW p \in Procs, Kind(p) \in KeyKinds, proc[p].pc \in {"start", "ask", "reserve"},
           NEW result \in Results, result.says = proc[p].context \/ result.says = NothingChanged
    PROVE  KeyOK(p, Exit(p, result), files)
<1>1. NoTemp(p, files) /\ did[p] = {} /\ proc[p].context = Claim(did[p], {})
  BY ProcIs DEF KeyOK, Kind, Ledger, Over, Busy
<1>2. \A where \in {"saveKey", "keepKey"} : <<where, Path(p)>> \in Effects
  BY ProcIs DEF CmdOK, Kind, KeyKinds, Path, Effects
<1>3. \A where \in {"saveKey", "keepKey"} : result.says[<<where, Path(p)>>] # "yes"
  BY <1>1, <1>2, ClaimFacts DEF NothingChanged
<1> QED BY <1>1, <1>3, KeyExit DEF Over

LEMMA ConfirmStep ==
    ASSUME IInv, NEW p \in Procs, Confirm(p), files' = files, stale' \subseteq Procs
    PROVE  IInv'
<1>1. /\ proc[p].pc = "ask" /\ proc[p].pc \notin Over \cup Busy
      /\ Kind(p) \in {"topicsDelete", "keyDelete", "cleanup", "restore", "dlpRestore",
                      "dlpReplace", "dlpDelete", "revert", "profilesDelete", "keyRotate"}
  BY ProcIs DEF Confirm, KindOK, Kind, Over, Busy
<1>2. CASE Move(p, At(p, Confirmed(p)))
  <2> DEFINE pc == Confirmed(p)
             r == At(p, pc)
  <2>1. /\ Kind(p) = "cleanup" => pc = "relist"
        /\ Kind(p) = "restore" => pc = "recheck"
        /\ Kind(p) = "dlpRestore" => pc = "recheckDlp"
        /\ Kind(p) \in {"dlpReplace", "dlpDelete"} => pc = "editDlp"
        /\ Kind(p) = "revert" => pc = "findProfile"
        /\ Kind(p) = "profilesDelete" => pc = "write"
        /\ Kind(p) \in {"topicsDelete", "keyDelete"} => pc = "connect"
        /\ Kind(p) = "keyRotate" => pc = "reserve"
    BY DEF Confirmed
  <2> HIDE DEF pc
  <2>2. pc \in {"relist", "recheck", "recheckDlp", "editDlp", "findProfile", "write", "connect",
                "reserve"}
    BY <1>1, <2>1
  <2>3. pc \in PCs /\ pc \notin Over \cup Busy
    BY <2>2 DEF PCs, Over, Busy
  <2>4. /\ r \in ProcStates
        /\ r.pc = pc /\ r.cmd = proc[p].cmd /\ r.read = proc[p].read
        /\ r.known = proc[p].known /\ r.i = proc[p].i /\ r.id = proc[p].id
        /\ r.context = proc[p].context /\ r.committed = proc[p].committed
        /\ r.result = proc[p].result /\ r.report = proc[p].report
    BY <2>3, AtIs
  <2> HIDE DEF r
  <2>5. KindOK(r)
    BY <1>1, <2>1, <2>2, <2>4 DEF KindOK, Kind
  <2>6. ReadOK(r)
    BY <1>1, <2>1, <2>2, <2>4, ProcIs DEF ReadOK, Kind, KeyKinds, Over
  <2>7. PlaceOK(r)
    BY <1>1, <2>2, <2>4, ProcIs DEF PlaceOK, DlpKinds
  <2>8. StepOK(p, r, did[p], doubt[p])
    BY <1>1, <2>3, <2>4, <2>5, <2>6, <2>7, GoOnOK DEF Busy
  <2>9. KeyOK(p, r, files)
    BY <1>1, <2>2, <2>4, ProcIs DEF KeyOK, Over
  <2> QED BY <1>2, <2>8, <2>9, MoveStep DEF r, pc
<1>3. CASE Move(p, Exit(p, Ok(NothingChanged)))
  <2>1. StepOK(p, Exit(p, Ok(NothingChanged)), did[p], doubt[p])
    BY <1>1, NothingOK
  <2>2. KeyOK(p, Exit(p, Ok(NothingChanged)), files)
    BY <1>1, <2>1, NoKey, KeyQuit, NothingIs, ResultType DEF StepOK
  <2> QED BY <1>3, <2>1, <2>2, MoveStep
<1>4. CASE Move(p, Interrupt(p))
  <2>1. "unsent" \in Answers
    BY DEF Answers
  <2>2. StepOK(p, Interrupt(p), did[p], doubt[p])
    BY <1>1, <2>1, QuitOK DEF Interrupt
  <2>3. proc[p].context \in Claims
    BY ProcIs DEF ProcStates
  <2>4. KeyOK(p, Interrupt(p), files)
    BY <1>1, <2>1, <2>2, <2>3, NoKey, KeyQuit, ResultType DEF StepOK, Interrupt
  <2> QED BY <1>4, <2>2, <2>4, MoveStep
<1> QED BY <1>2, <1>3, <1>4 DEF Confirm

-----------------------------------------------------------------------------
(* The single edits *)

LEMMA SvcIs ==
    ASSUME IInv
    PROVE  /\ svc \in ServiceStates /\ IsFiniteSet(svc.profiles)
           /\ svc.profiles \subseteq Revisions /\ svc.topics \subseteq TopicRecords
           /\ svc.dlp \subseteq DlpRecords /\ svc.next \in 1 .. MaxId + 1 /\ MaxId \in Nat
           /\ svc.keepsId \in BOOLEAN
           /\ \A r, q \in svc.profiles : r.id = q.id => r.name = q.name
           /\ \A x \in svc.profiles \cup svc.topics \cup svc.dlp : x.id < svc.next
  BY RuntimeAssumption DEF IInv, Typed, IsService, ServiceStates

LEMMA FindTopicStep ==
    ASSUME IInv, NEW p \in Procs, FindTopic(p), files' = files, stale' \subseteq Procs
    PROVE  IInv'
<1>1. /\ proc[p].pc = "findTopic" /\ proc[p].pc \notin Over \cup Busy
      /\ Kind(p) \in {"apply", "revert", "topicsCreate"} /\ Kind(p) \notin KeyKinds
  BY ProcIs DEF FindTopic, KindOK, Kind, Over, Busy, KeyKinds
<1>2. CASE NamedTopics(p) # {} /\
           \E t \in NamedTopics(p) :
             Move(p, [At(p, CASE Kind(p) = "topicsCreate" -> "write"
                              [] Kind(p) = "revert" /\ ~proc[p].cmd.force -> "ask"
                              [] OTHER -> "findProfile")
                      EXCEPT !.id = t.id, !.known = NamedTopics(p)])
  <2> DEFINE pc == CASE Kind(p) = "topicsCreate" -> "write"
                     [] Kind(p) = "revert" /\ ~proc[p].cmd.force -> "ask"
                     [] OTHER -> "findProfile"
  <2>1. PICK t \in NamedTopics(p) :
          Move(p, [At(p, pc) EXCEPT !.id = t.id, !.known = NamedTopics(p)])
    BY <1>2
  <2> DEFINE r == [At(p, pc) EXCEPT !.id = t.id, !.known = NamedTopics(p)]
  <2>2. /\ pc = "write" => Kind(p) = "topicsCreate"
        /\ pc = "ask" => Kind(p) = "revert"
        /\ pc \in {"write", "ask", "findProfile"}
        /\ Kind(p) = "topicsCreate" => pc = "write"
    BY DEF NamedTopics
  <2> HIDE DEF pc
  <2>3. pc \in PCs /\ pc \notin Over \cup Busy
    BY <2>2 DEF PCs, Over, Busy
  <2>4. NamedTopics(p) \subseteq TopicRecords /\ t \in TopicRecords /\ t.id \in Ids
    BY SvcIs DEF NamedTopics, Named, TopicRecords
  <2>5. /\ At(p, pc) \in ProcStates /\ At(p, pc).pc = pc /\ At(p, pc).cmd = proc[p].cmd
        /\ At(p, pc).context = proc[p].context /\ At(p, pc).committed = proc[p].committed
        /\ At(p, pc).result = proc[p].result /\ At(p, pc).report = proc[p].report
        /\ At(p, pc).read = proc[p].read /\ At(p, pc).i = proc[p].i
    BY <2>3, AtIs
  <2>6. /\ r \in ProcStates
        /\ r.pc = pc /\ r.cmd = proc[p].cmd /\ r.read = proc[p].read
        /\ r.known = NamedTopics(p) /\ r.i = proc[p].i /\ r.id = t.id
        /\ r.context = proc[p].context /\ r.committed = proc[p].committed
        /\ r.result = proc[p].result /\ r.report = proc[p].report
    BY <2>4, <2>5 DEF ProcStates
  <2> HIDE DEF r
  <2>7. KindOK(r)
    BY <1>1, <2>2, <2>6 DEF KindOK, Kind
  <2>8. ReadOK(r)
    BY <1>1, <2>2, <2>4, <2>6, ProcIs DEF ReadOK, Kind, KeyKinds
  <2>9. proc[p].i = 0
    BY <1>1, ProcIs DEF PlaceOK
  <2>10. PlaceOK(r)
    BY <2>2, <2>6, <2>9 DEF PlaceOK
  <2>11. StepOK(p, r, did[p], doubt[p])
    BY <1>1, <2>3, <2>6, <2>7, <2>8, <2>10, GoOnOK DEF Busy
  <2> QED BY <1>1, <2>1, <2>6, <2>11, NoKey, MoveStep DEF r
<1>3. CASE NamedTopics(p) = {} /\
           Move(p, IF Kind(p) = "topicsCreate" THEN At(p, "write") ELSE Stop(p))
  <2>1. CASE Kind(p) = "topicsCreate"
    <3> DEFINE r == At(p, "write")
    <3>1. /\ r.pc = "write" /\ r.cmd = proc[p].cmd /\ r.read = proc[p].read
          /\ r.known = proc[p].known /\ r.i = proc[p].i /\ r.id = proc[p].id
      BY AtIs DEF PCs
    <3> HIDE DEF r
    <3>2. KindOK(r) /\ ReadOK(r) /\ PlaceOK(r)
      BY <2>1, <3>1, ProcIs DEF KindOK, ReadOK, PlaceOK, Kind, KeyKinds
    <3> QED BY <1>1, <1>3, <2>1, <3>2, AtStep DEF r, PCs, Over, Busy
  <2>2. CASE Kind(p) # "topicsCreate"
    BY <1>1, <1>3, <2>2, StopStep
  <2> QED BY <2>1, <2>2
<1>4. CASE ReadFails(p)
  BY <1>1, <1>4, ReadFailsStep
<1> QED BY <1>2, <1>3, <1>4 DEF FindTopic

LEMMA FindProfileStep ==
    ASSUME IInv, NEW p \in Procs, FindProfile(p), files' = files, stale' \subseteq Procs
    PROVE  IInv'
<1>1. /\ proc[p].pc = "findProfile" /\ proc[p].pc \notin Over \cup Busy
      /\ Kind(p) \in {"apply", "revert", "profilesUpdate", "profilesDelete"}
      /\ Kind(p) \notin KeyKinds
  BY ProcIs DEF FindProfile, KindOK, Kind, Over, Busy, KeyKinds
<1>2. ASSUME NEW x \in NamedProfiles(p), NEW pc \in {"write", "ask"},
             pc = "ask" => Kind(p) = "profilesDelete",
             Move(p, [At(p, pc) EXCEPT !.read = {x}])
      PROVE  IInv'
  <2> DEFINE r == [At(p, pc) EXCEPT !.read = {x}]
  <2>1. pc \in PCs /\ pc \notin Over \cup Busy
    BY DEF PCs, Over, Busy
  <2>2. x \in Revisions
    BY SvcIs DEF NamedProfiles, Named, Highest
  <2>3. /\ At(p, pc) \in ProcStates /\ At(p, pc).pc = pc /\ At(p, pc).cmd = proc[p].cmd
        /\ At(p, pc).context = proc[p].context /\ At(p, pc).committed = proc[p].committed
        /\ At(p, pc).result = proc[p].result /\ At(p, pc).report = proc[p].report
        /\ At(p, pc).known = proc[p].known /\ At(p, pc).i = proc[p].i /\ At(p, pc).id = proc[p].id
    BY <2>1, AtIs
  <2>4. /\ r \in ProcStates
        /\ r.pc = pc /\ r.cmd = proc[p].cmd /\ r.read = {x}
        /\ r.known = proc[p].known /\ r.i = proc[p].i /\ r.id = proc[p].id
        /\ r.context = proc[p].context /\ r.committed = proc[p].committed
        /\ r.result = proc[p].result /\ r.report = proc[p].report
    BY <2>2, <2>3 DEF ProcStates
  <2> HIDE DEF r
  <2>5. KindOK(r)
    BY <1>1, <1>2, <2>4 DEF KindOK, Kind
  <2>6. ReadOK(r)
    BY <1>1, <1>2, <2>2, <2>4, ProcIs DEF ReadOK, Kind, KeyKinds
  <2>7. PlaceOK(r)
    BY <1>1, <1>2, <2>4, ProcIs DEF PlaceOK
  <2>8. StepOK(p, r, did[p], doubt[p])
    BY <1>1, <2>1, <2>4, <2>5, <2>6, <2>7, GoOnOK DEF Busy
  <2> QED BY <1>1, <1>2, <2>4, <2>8, NoKey, MoveStep DEF r
<1>3. ASSUME NEW x \in NamedProfiles(p),
             Move(p, CASE Kind(p) = "profilesDelete" ->
                            [At(p, IF proc[p].cmd.force THEN "write" ELSE "ask")
                               EXCEPT !.read = {x}]
                       [] Kind(p) = "apply" /\ NewPolicy(p, x.policy) = x.policy ->
                            Exit(p, Ok(NothingChanged))
                       [] Kind(p) = "revert" /\ x.policy.topics \cap Own(p) = {} -> Stop(p)
                       [] OTHER -> [At(p, "write") EXCEPT !.read = {x}])
      PROVE  IInv'
  <2>1. CASE Kind(p) = "profilesDelete"
    <3>1. Move(p, [At(p, IF proc[p].cmd.force THEN "write" ELSE "ask") EXCEPT !.read = {x}])
      BY <1>3, <2>1
    <3> QED BY <1>2, <2>1, <3>1
  <2>2. CASE Kind(p) = "apply" /\ NewPolicy(p, x.policy) = x.policy
    BY <1>1, <1>3, <2>2, NothingStep
  <2>3. CASE Kind(p) = "revert" /\ x.policy.topics \cap Own(p) = {}
    BY <1>1, <1>3, <2>3, StopStep
  <2>4. CASE ~\/ Kind(p) = "profilesDelete"
              \/ Kind(p) = "apply" /\ NewPolicy(p, x.policy) = x.policy
              \/ Kind(p) = "revert" /\ x.policy.topics \cap Own(p) = {}
    <3>1. Move(p, [At(p, "write") EXCEPT !.read = {x}])
      BY <1>3, <2>4
    <3> QED BY <1>2, <3>1
  <2> QED BY <2>1, <2>2, <2>3, <2>4
<1>4. CASE Move(p, Stop(p))
  BY <1>1, <1>4, StopStep
<1>5. CASE ReadFails(p)
  BY <1>1, <1>5, ReadFailsStep
<1> QED BY <1>3, <1>4, <1>5 DEF FindProfile

\* A write that fails ends a single edit.
LEMMA FailOK ==
    ASSUME IInv, NEW p \in Procs, proc[p].pc \notin Over, ~Noted(proc[p]),
           NEW a \in Answers, a # "ok", NEW e \in Effects
    PROVE  StepOK(p, Exit(p, Failed(a, Told(a, did[p], e))), Had(p, a, e), Open(p, a, e))
<1>1. did[p] \subseteq Effects /\ doubt[p] = {}
  BY ProcIs DEF Ledger
<1>2. /\ Had(p, a, e) = did[p] \cup (IF a \in Carried THEN {e} ELSE {})
      /\ Open(p, a, e) = IF a \in InDoubt THEN {e} ELSE {}
  BY <1>1 DEF Had, Open
<1>3. /\ Told(a, did[p], e) \in Claims
      /\ True(Told(a, did[p], e), Had(p, a, e), Open(p, a, e))
  BY <1>2, ToldTrue
<1>4. Had(p, a, e) \subseteq Effects /\ Open(p, a, e) \subseteq Effects
  BY <1>1, <1>2
<1> QED BY <1>3, <1>4, ExitOK, ResultType

\* A single edit that is done.
LEMMA DoneOK ==
    ASSUME IInv, NEW p \in Procs, proc[p].pc \notin Over, ~Noted(proc[p]),
           NEW d, d \subseteq Effects
    PROVE  StepOK(p, Done(p, Claim(d, {})), d, {})
<1> DEFINE r == Exit(p, Ok(Claim(d, {})))
           t == Done(p, Claim(d, {}))
<1>1. Ok(Claim(d, {})) \in Results /\ Ok(Claim(d, {})).says = Claim(d, {})
  BY ClaimFacts, ResultType
<1>2. True(Claim(d, {}), d, {})
  BY ClaimTrue
<1>3. StepOK(p, r, d, {})
  BY <1>1, <1>2, ExitOK
<1>4. /\ r \in ProcStates /\ r.pc = "exit" /\ r.cmd = proc[p].cmd
      /\ r.result = Ok(Claim(d, {})) /\ r.id = proc[p].id
  BY <1>1, ExitIs
<1>5. t = [r EXCEPT !.committed = TRUE]
  BY DEF Done
<1> HIDE DEF r, t
<1>6. /\ t \in ProcStates /\ t.pc = "exit" /\ t.cmd = r.cmd /\ t.report = r.report
      /\ t.result = r.result /\ t.id = r.id /\ t.read = r.read /\ t.known = r.known
  BY <1>4, <1>5 DEF ProcStates
<1>7. ~Noted(t)
  BY <1>4, <1>6 DEF Noted
<1>8. ReadOK(t)
  BY <1>3, <1>4, <1>6 DEF StepOK, ProcOK, ReadOK, Over
<1>9. t.report = NoResult
  BY <1>3, <1>4, <1>6 DEF StepOK, ProcOK, Ledger, Over
<1>10. ProcOK(t, d, {})
  BY <1>1, <1>2, <1>4, <1>6, <1>7, <1>8, <1>9, OverOK
<1> QED BY <1>4, <1>6, <1>10 DEF StepOK, t

\* What the answer "ok" leaves.
LEMMA OkIs ==
    ASSUME IInv, NEW p \in Procs, proc[p].pc \notin Over, NEW e
    PROVE  Had(p, "ok", e) = did[p] \cup {e} /\ Open(p, "ok", e) = {}
  BY ProcIs DEF Ledger, Had, Open, Carried, InDoubt

\* The write of a single edit.
LEMMA EditIs ==
    ASSUME IInv, NEW p \in Procs, proc[p].pc = "write"
    PROVE  /\ WriteOK(Edit(p)) /\ Edit(p).by = p /\ Edit(p).effect = EditEffect(p)
           /\ Kind(p) \notin KeyKinds \cup ManyWrites
           /\ Kind(p) = "revert" => EditEffect(p) = <<"putProfile", proc[p].cmd.n>>
<1> DEFINE c == proc[p].cmd
           m == Edit(p)
           e == EditEffect(p)
<1>1. /\ Kind(p) \in {"apply", "revert", "topicsCreate", "topicsUpdate", "topicsDelete",
                      "profilesCreate", "profilesUpdate", "profilesDelete"}
      /\ CmdOK(c) /\ Kind(p) = c.kind
  BY ProcIs DEF KindOK, Kind
<1>2. Kind(p) \notin KeyKinds \cup ManyWrites
  BY <1>1 DEF KeyKinds, ManyWrites
<1>3. CASE Kind(p) = "topicsCreate"
  <2>1. m = [by |-> p, effect |-> e, def |-> c.def] /\ c.def \in Contents /\ c.t \in TopicNames
    BY <1>1, <1>3 DEF Edit, CmdOK
  <2>2. \/ e = <<"makeTopic", c.t>>
        \/ e = <<"putTopic", proc[p].id>> /\ proc[p].known # {}
    BY <1>3 DEF EditEffect
  <2>3. proc[p].known # {} => proc[p].id \in Ids
    BY <1>1, <1>3, ProcIs DEF ReadOK, TopicRecords
  <2> QED BY <1>2, <1>3, <2>1, <2>2, <2>3 DEF WriteOK, Op, Target, Effects
<1>4. CASE Kind(p) = "topicsUpdate"
  <2>1. m = [by |-> p, effect |-> e, def |-> c.def] /\ c.def \in Contents /\ c.id \in Ids
    BY <1>1, <1>4 DEF Edit, CmdOK
  <2>2. e = <<"putTopic", c.id>>
    BY <1>4 DEF EditEffect
  <2> QED BY <1>2, <1>4, <2>1, <2>2 DEF WriteOK, Op, Target, Effects
<1>5. CASE Kind(p) = "topicsDelete"
  <2>1. m = [by |-> p, effect |-> e, force |-> c.force] /\ c.id \in Ids
    BY <1>1, <1>5 DEF Edit, CmdOK
  <2>2. e = <<"dropTopic", c.id>>
    BY <1>5 DEF EditEffect
  <2> QED BY <1>2, <1>5, <2>1, <2>2 DEF WriteOK, Op, Target, Effects
<1>6. CASE Kind(p) = "profilesCreate"
  <2> DEFINE policy == [topics |-> {}, rest |-> c.rest]
  <2>1. m = [by |-> p, effect |-> e, policy |-> policy] /\ c.n \in ProfileNames
    BY <1>1, <1>6 DEF Edit, CmdOK
  <2>2. e = <<"makeProfile", c.n>>
    BY <1>6 DEF EditEffect
  <2>3. policy \in Policies
    BY <1>1, <1>6 DEF CmdOK, Policies
  <2> HIDE DEF policy
  <2> QED BY <1>2, <1>6, <2>1, <2>2, <2>3 DEF WriteOK, Op, Target, Effects
<1>7. CASE Kind(p) = "profilesDelete"
  <2>1. m = [by |-> p, effect |-> e] /\ e = <<"dropProfile", ReadProfile(p).id>>
    BY <1>7 DEF Edit, EditEffect
  <2>2. ReadProfile(p) \in Revisions
    BY <1>1, <1>7, ProcIs DEF ReadOK, ReadProfile
  <2>3. ReadProfile(p).id \in Ids
    BY <2>2 DEF Revisions
  <2> QED BY <1>2, <1>7, <2>1, <2>3 DEF WriteOK, Op, Target, Effects
<1>8. CASE Kind(p) \in {"apply", "revert", "profilesUpdate"}
  <2> DEFINE policy == NewPolicy(p, ReadProfile(p).policy)
  <2>1. /\ m = [by |-> p, effect |-> e, id |-> ReadProfile(p).id, policy |-> policy]
        /\ e = <<"putProfile", c.n>>
    BY <1>8 DEF Edit, EditEffect
  <2>2. ReadProfile(p) \in Revisions
    <3>1. PICK x \in Revisions : proc[p].read = {x}
      BY <1>1, <1>8, ProcIs DEF ReadOK
    <3> QED BY <3>1 DEF ReadProfile
  <2>3. ReadProfile(p).policy \in Policies
    BY <2>2 DEF Revisions
  <2>4. Kind(p) = "apply" => proc[p].id \in Ids
    BY <1>1, ProcIs DEF ReadOK, TopicRecords
  <2>5. policy \in Policies
    <3> DEFINE y == ReadProfile(p).policy
    <3>1. y \in [topics : SUBSET Ids, rest : Contents]
      BY <2>3 DEF Policies
    <3> HIDE DEF y
    <3>2. NewPolicy(p, y) \in [topics : SUBSET Ids, rest : Contents]
      BY <1>1, <1>8, <2>4, <3>1 DEF NewPolicy, CmdOK
    <3> QED BY <3>2 DEF y, Policies
  <2> HIDE DEF policy
  <2> QED BY <1>1, <1>2, <1>8, <2>1, <2>5 DEF WriteOK, Op, Target, Effects, CmdOK
<1> QED BY <1>1, <1>3, <1>4, <1>5, <1>6, <1>7, <1>8

LEMMA WriteEditStep ==
    ASSUME IInv, NEW p \in Procs, WriteEdit(p), files' = files, stale' \subseteq Procs
    PROVE  IInv'
<1> DEFINE e == EditEffect(p)
           then == [a \in Answers |->
              IF a # "ok" THEN Exit(p, Failed(a, Told(a, {}, EditEffect(p))))
              ELSE IF Kind(p) = "revert"
              THEN [At(p, "drop") EXCEPT !.context = Claim({EditEffect(p)}, {})]
              ELSE Done(p, Claim({EditEffect(p)}, {}))]
<1>1. /\ proc[p].pc = "write" /\ Send(p, Edit(p), proc[p].pc, then)
      /\ proc[p].pc \notin Over
  BY DEF WriteEdit, Over
<1>2. /\ WriteOK(Edit(p)) /\ Edit(p).by = p /\ Edit(p).effect = e
      /\ Kind(p) \notin KeyKinds \cup ManyWrites
      /\ Kind(p) = "revert" => e = <<"putProfile", proc[p].cmd.n>>
  BY <1>1, EditIs
<1>3. e \in Effects
  BY <1>2 DEF WriteOK
<1>4. did[p] = {} /\ ~Noted(proc[p])
  BY <1>1, <1>2, ProcIs DEF Ledger, Over, Busy, Noted, Kind
<1>5. Had(p, "ok", e) = {e} /\ Open(p, "ok", e) = {}
  BY <1>1, <1>4, OkIs
<1>6. ASSUME NEW a \in Answers PROVE StepOK(p, then[a], Had(p, a, e), Open(p, a, e))
  <2>1. CASE a # "ok"
    <3>1. then[a] = Exit(p, Failed(a, Told(a, did[p], e)))
      BY <1>4, <2>1
    <3> QED BY <1>1, <1>3, <1>4, <2>1, <3>1, FailOK
  <2>2. CASE a = "ok" /\ Kind(p) = "revert"
    <3> DEFINE t == At(p, "drop")
               r == [t EXCEPT !.context = Claim({e}, {})]
    <3>1. then[a] = r
      BY <2>2
    <3>2. /\ t \in ProcStates /\ t.pc = "drop" /\ t.cmd = proc[p].cmd
          /\ t.committed = proc[p].committed /\ t.result = proc[p].result
          /\ t.report = proc[p].report /\ t.read = proc[p].read /\ t.known = proc[p].known
          /\ t.i = proc[p].i /\ t.id = proc[p].id
      BY AtIs DEF PCs
    <3>3. Claim({e}, {}) \in Claims
      BY ClaimFacts
    <3> HIDE DEF t
    <3>4. /\ r \in ProcStates /\ r.pc = "drop" /\ r.cmd = proc[p].cmd
          /\ r.committed = proc[p].committed /\ r.result = proc[p].result
          /\ r.report = proc[p].report /\ r.read = proc[p].read /\ r.known = proc[p].known
          /\ r.i = proc[p].i /\ r.id = proc[p].id /\ r.context = Claim({e}, {})
      BY <3>2, <3>3 DEF ProcStates
    <3> HIDE DEF r
    <3>5. KindOK(r) /\ PlaceOK(r)
      BY <2>2, <3>4 DEF KindOK, PlaceOK, Kind
    <3>6. ReadOK(r)
      BY <1>1, <2>2, <3>4, ProcIs DEF ReadOK, Kind, KeyKinds
    <3>7. Ledger(r, {e}, {})
      BY <1>1, <1>2, <1>3, <2>2, <3>4, ProcIs DEF Ledger, Over, Busy
    <3> QED BY <1>5, <2>2, <3>1, <3>4, <3>5, <3>6, <3>7 DEF StepOK, ProcOK
  <2>3. CASE a = "ok" /\ Kind(p) # "revert"
    <3>1. then[a] = Done(p, Claim({e}, {}))
      BY <2>3
    <3>2. StepOK(p, Done(p, Claim({e}, {})), {e}, {})
      BY <1>1, <1>3, <1>4, DoneOK
    <3> QED BY <1>5, <2>3, <3>1, <3>2
  <2> QED BY <2>1, <2>2, <2>3
<1> HIDE DEF then, e
<1> QED BY <1>1, <1>2, <1>6, PlainSend

\* revert says of every other failure of the deletion that the topic stays.
LEMMA MisstatedOK ==
    ASSUME IInv, NEW p \in Procs, proc[p].pc \notin Over, ~Noted(proc[p]),
           Kind(p) = "revert", NEW a \in Answers \ Interrupted, a # "ok",
           LET put == <<"putProfile", proc[p].cmd.n>> IN put \in Effects /\ did[p] = {put},
           <<"dropTopic", proc[p].id>> \in Effects
    PROVE  LET put == <<"putProfile", proc[p].cmd.n>>
               drop == <<"dropTopic", proc[p].id>>
           IN  StepOK(p, Exit(p, Failed(a, Claim({put}, {}))), Had(p, a, drop), Open(p, a, drop))
<1> DEFINE put == <<"putProfile", proc[p].cmd.n>>
           drop == <<"dropTopic", proc[p].id>>
           result == Failed(a, Claim({put}, {}))
           r == Exit(p, result)
           d == Had(p, a, drop)
           q == Open(p, a, drop)
<1>1. result \in Results /\ result.kind = "error" /\ result.says = Claim({put}, {})
  BY ClaimFacts, ResultType DEF Failed
<1>2. doubt[p] = {}
  BY ProcIs DEF Ledger
<1>3. /\ d = {put} \cup (IF a \in Carried THEN {drop} ELSE {})
      /\ q = IF a \in InDoubt THEN {drop} ELSE {}
  BY <1>2 DEF Had, Open
<1>4. d \subseteq Effects /\ q \subseteq Effects
  BY <1>3
<1> HIDE DEF result
<1>5. /\ r \in ProcStates /\ r.pc = "exit" /\ r.cmd = proc[p].cmd
      /\ r.committed = proc[p].committed /\ r.result = result /\ r.report = proc[p].report
      /\ r.read = proc[p].read /\ r.known = proc[p].known /\ r.id = proc[p].id
  BY <1>1, ExitIs
<1> HIDE DEF r
<1>6. r.report = NoResult /\ ~Noted(r)
  BY <1>5, ProcIs DEF Ledger, Noted
<1>7. ReadOK(r)
  BY <1>5, ReadStays
<1>8. True(r.result.says, d, q) \/ Misstated(r, d, q)
  <2>1. CASE a \in Carried \cup InDoubt
    <3>1. put \in d /\ d \cup q = {put, drop}
      BY <1>3, <2>1
    <3> QED BY <1>1, <1>5, <3>1 DEF Misstated, Kind
  <2>2. CASE a \notin Carried \cup InDoubt
    <3>1. d = {put} /\ q = {}
      BY <1>3, <2>2
    <3> HIDE DEF put, d, q
    <3>2. True(Claim({put}, {}), d, q)
      BY <3>1, ClaimTrue
    <3> QED BY <1>1, <1>5, <3>2
  <2> QED BY <2>1, <2>2
<1> HIDE DEF d, q
<1>9. ProcOK(r, d, q)
  BY <1>4, <1>5, <1>6, <1>7, <1>8, OverOK
<1> QED BY <1>5, <1>9 DEF StepOK, r, d, q, result

LEMMA DropTopicStep ==
    ASSUME IInv, NEW p \in Procs, DropTopic(p), files' = files, stale' \subseteq Procs
    PROVE  IInv'
<1> DEFINE put == EditEffect(p)
           drop == <<"dropTopic", proc[p].id>>
           m == [by |-> p, effect |-> drop, force |-> FALSE]
           then == [a \in Answers |->
                  IF a = "ok" THEN Done(p, Claim({put, drop}, {}))
                  ELSE IF a = "rejected" /\ Referenced(svc, proc[p].id) THEN Done(p, Claim({put}, {}))
                  ELSE IF a \in Interrupted THEN Exit(p, Failed(a, Told(a, {put}, drop)))
                  ELSE Exit(p, Failed(a, Claim({put}, {})))]
<1>1. proc[p].pc = "drop" /\ Send(p, m, proc[p].pc, then) /\ proc[p].pc \notin Over
  BY DEF DropTopic, Over
<1>2. /\ Kind(p) = "revert" /\ CmdOK(proc[p].cmd) /\ proc[p].id \in Ids
  BY <1>1, ProcIs DEF KindOK, ReadOK, Kind, TopicRecords
<1>3. EditEffect(p) = <<"putProfile", proc[p].cmd.n>> /\ proc[p].cmd.n \in ProfileNames
  BY <1>2 DEF EditEffect, CmdOK, Kind
<1>4. /\ did[p] = {EditEffect(p)} /\ ~Noted(proc[p]) /\ Kind(p) \notin KeyKinds
  BY <1>1, <1>2, <1>3, ProcIs DEF Ledger, Over, Noted, Kind, ManyWrites, KeyKinds
<1>5. WriteOK(m) /\ drop \in Effects /\ m.by = p /\ m.effect = drop
  BY <1>2 DEF WriteOK, Op, Target, Effects
<1>6. Had(p, "ok", drop) = {EditEffect(p), drop} /\ Open(p, "ok", drop) = {}
  BY <1>1, <1>4, OkIs
<1>7. Had(p, "rejected", drop) = {EditEffect(p)} /\ Open(p, "rejected", drop) = {}
  BY <1>1, <1>4, ProcIs DEF Had, Open, Carried, InDoubt, Ledger
<1>8. EditEffect(p) \in Effects
  BY <1>3 DEF Effects
<1>9. ASSUME NEW a \in Answers PROVE StepOK(p, then[a], Had(p, a, drop), Open(p, a, drop))
  <2>1. CASE a = "ok"
    <3>1. then[a] = Done(p, Claim({EditEffect(p), drop}, {}))
      BY <2>1
    <3>2. StepOK(p, Done(p, Claim({EditEffect(p), drop}, {})), {EditEffect(p), drop}, {})
      BY <1>1, <1>4, <1>5, <1>8, DoneOK
    <3> QED BY <1>6, <2>1, <3>1, <3>2
  <2>2. CASE a = "rejected" /\ Referenced(svc, proc[p].id)
    <3>1. then[a] = Done(p, Claim({EditEffect(p)}, {}))
      BY <2>2
    <3>2. StepOK(p, Done(p, Claim({EditEffect(p)}, {})), {EditEffect(p)}, {})
      BY <1>1, <1>4, <1>8, DoneOK
    <3> QED BY <1>7, <2>2, <3>1, <3>2
  <2>3. CASE a \in Interrupted
    <3>1. then[a] = Exit(p, Failed(a, Told(a, did[p], drop)))
      BY <1>4, <2>3 DEF Interrupted
    <3> QED BY <1>1, <1>4, <1>5, <2>3, <3>1, FailOK DEF Interrupted
  <2>4. CASE a \notin Interrupted \cup {"ok"} /\ ~(a = "rejected" /\ Referenced(svc, proc[p].id))
    <3>1. then[a] = Exit(p, Failed(a, Claim({put}, {})))
      BY <2>4
    <3>2. a \in Answers \ Interrupted /\ a # "ok"
      BY <2>4
    <3> HIDE DEF then, put
    <3>3. put = <<"putProfile", proc[p].cmd.n>> /\ put \in Effects /\ did[p] = {put}
      BY <1>3, <1>4, <1>8 DEF put
    <3> QED BY <1>1, <1>2, <1>4, <1>5, <3>1, <3>2, <3>3, MisstatedOK
  <2> QED BY <2>1, <2>2, <2>3, <2>4
<1> HIDE DEF then, m, drop
<1> QED BY <1>1, <1>4, <1>5, <1>9, PlainSend

\* The guard and the write of a single DLP edit.
LEMMA GuardDlpStep ==
    ASSUME IInv, NEW p \in Procs, GuardDlp(p), files' = files, stale' \subseteq Procs
    PROVE  IInv'
<1>1. /\ proc[p].pc = "guardDlp" /\ proc[p].pc \notin Over \cup Busy
      /\ Kind(p) \in {"dlpPatch", "dlpReplace", "dlpDelete"} /\ Kind(p) \notin KeyKinds
  BY ProcIs DEF GuardDlp, KindOK, Kind, Over, Busy, KeyKinds
<1>2. CASE Move(p, At(p, IF Kind(p) = "dlpPatch" \/ proc[p].cmd.force THEN "editDlp" ELSE "ask"))
  <2> DEFINE pc == IF Kind(p) = "dlpPatch" \/ proc[p].cmd.force THEN "editDlp" ELSE "ask"
             r == At(p, pc)
  <2>1. pc \in {"editDlp", "ask"} /\ (pc = "ask" => Kind(p) # "dlpPatch")
    OBVIOUS
  <2>2. Move(p, r)
    BY <1>2
  <2> HIDE DEF pc
  <2>3. pc \in PCs /\ pc \notin Over \cup Busy \cup {"drop", "saveKey"}
    BY <2>1 DEF PCs, Over, Busy
  <2>4. /\ r.pc = pc /\ r.cmd = proc[p].cmd /\ r.read = proc[p].read
        /\ r.known = proc[p].known /\ r.i = proc[p].i /\ r.id = proc[p].id
    BY <2>3, AtIs
  <2> HIDE DEF r
  <2>5. KindOK(r) /\ ReadOK(r) /\ PlaceOK(r)
    BY <1>1, <2>1, <2>4, ProcIs DEF KindOK, ReadOK, PlaceOK, Kind, KeyKinds
  <2> QED BY <1>1, <2>2, <2>3, <2>5, AtStep DEF r
<1>3. CASE Move(p, Stop(p))
  BY <1>1, <1>3, StopStep
<1>4. CASE ReadFails(p)
  BY <1>1, <1>4, ReadFailsStep
<1> QED BY <1>2, <1>3, <1>4 DEF GuardDlp

LEMMA EditDlpStep ==
    ASSUME IInv, NEW p \in Procs, EditDlp(p), files' = files, stale' \subseteq Procs
    PROVE  IInv'
<1> DEFINE m == DlpEdit(p)
           then == [a \in Answers |->
                      IF a = "ok" THEN Done(p, Claim({m.effect}, {}))
                      ELSE Exit(p, Failed(a, Told(a, {}, m.effect)))]
<1>1. proc[p].pc = "editDlp" /\ Send(p, m, proc[p].pc, then) /\ proc[p].pc \notin Over \cup Busy
  BY DEF EditDlp, Over, Busy
<1>2. /\ Kind(p) \in {"dlpCreate", "dlpPatch", "dlpReplace", "dlpDelete"}
      /\ Kind(p) = proc[p].cmd.kind /\ CmdOK(proc[p].cmd)
  BY <1>1, ProcIs DEF KindOK, Kind
<1>3. did[p] = {} /\ ~Noted(proc[p]) /\ Kind(p) \notin KeyKinds
  BY <1>1, <1>2, ProcIs DEF Ledger, Noted, ManyWrites, KeyKinds
<1>4. WriteOK(m) /\ m.by = p
  <2>1. CASE Kind(p) = "dlpCreate"
    <3>1. /\ m = [by |-> p, effect |-> <<"makeDlp", proc[p].cmd.n>>, refs |-> {},
                  body |-> proc[p].cmd.body]
          /\ proc[p].cmd.n \in DlpNames /\ proc[p].cmd.body \in Contents
      BY <1>2, <2>1 DEF DlpEdit, CmdOK
    <3> QED BY <3>1 DEF WriteOK, Op, Target, Effects
  <2>2. CASE Kind(p) = "dlpDelete"
    <3>1. m = [by |-> p, effect |-> <<"dropDlp", proc[p].cmd.id>>] /\ proc[p].cmd.id \in Ids
      BY <1>2, <2>2 DEF DlpEdit, CmdOK
    <3> QED BY <3>1 DEF WriteOK, Op, Target, Effects
  <2>3. CASE Kind(p) \in {"dlpPatch", "dlpReplace"}
    <3>1. /\ m = [by |-> p, effect |-> <<"putDlp", proc[p].cmd.id>>, body |-> proc[p].cmd.body]
          /\ proc[p].cmd.id \in Ids /\ proc[p].cmd.body \in Contents
      BY <1>2, <2>3 DEF DlpEdit, CmdOK
    <3> QED BY <3>1 DEF WriteOK, Op, Target, Effects
  <2> QED BY <1>2, <2>1, <2>2, <2>3
<1> HIDE DEF m
<1>5. m.effect \in Effects
  BY <1>4 DEF WriteOK
<1>6. Had(p, "ok", m.effect) = {m.effect} /\ Open(p, "ok", m.effect) = {}
  BY <1>1, <1>3, OkIs
<1>7. ASSUME NEW a \in Answers
      PROVE  StepOK(p, then[a], Had(p, a, m.effect), Open(p, a, m.effect))
  <2>1. CASE a # "ok"
    <3>1. then[a] = Exit(p, Failed(a, Told(a, did[p], m.effect)))
      BY <1>3, <2>1
    <3> QED BY <1>1, <1>3, <1>5, <2>1, <3>1, FailOK
  <2>2. CASE a = "ok"
    <3>1. then[a] = Done(p, Claim({m.effect}, {}))
      BY <2>2
    <3>2. StepOK(p, Done(p, Claim({m.effect}, {})), {m.effect}, {})
      BY <1>1, <1>3, <1>5, DoneOK
    <3> QED BY <1>6, <2>2, <3>1, <3>2
  <2> QED BY <2>1, <2>2
<1> HIDE DEF then
<1> QED BY <1>1, <1>3, <1>4, <1>7, PlainSend

-----------------------------------------------------------------------------
(* The cleanup *)

\* The listing that is shown, and the revisions to delete.
LEMMA OldIs ==
    ASSUME IInv
    PROVE  Old(svc.profiles) \subseteq svc.profiles /\ Old(svc.profiles) \subseteq Revisions
  BY SvcIs DEF Old

\* A cleanup goes on with a listing.
LEMMA ListedStep ==
    ASSUME IInv, NEW p \in Procs, proc[p].pc \notin Over \cup Busy, Kind(p) = "cleanup",
           NEW pc \in {"ask", "delete"}, pc = "ask" => proc[p].i = 0,
           NEW listing, listing \subseteq Revisions,
           Move(p, [At(p, pc) EXCEPT !.read = listing]), files' = files, stale' \subseteq Procs
    PROVE  IInv'
<1> DEFINE t == At(p, pc)
           r == [t EXCEPT !.read = listing]
<1>1. pc \in PCs /\ pc \notin Over
  BY DEF PCs, Over
<1>2. /\ t \in ProcStates /\ t.pc = pc /\ t.cmd = proc[p].cmd
      /\ t.context = proc[p].context /\ t.committed = proc[p].committed
      /\ t.result = proc[p].result /\ t.report = proc[p].report
      /\ t.known = proc[p].known /\ t.i = proc[p].i /\ t.id = proc[p].id
  BY <1>1, AtIs
<1> HIDE DEF t
<1>3. /\ r \in ProcStates
      /\ r.pc = pc /\ r.cmd = proc[p].cmd /\ r.read = listing
      /\ r.known = proc[p].known /\ r.i = proc[p].i /\ r.id = proc[p].id
      /\ r.context = proc[p].context /\ r.committed = proc[p].committed
      /\ r.result = proc[p].result /\ r.report = proc[p].report
  BY <1>2 DEF ProcStates
<1> HIDE DEF r
<1>4. KindOK(r) /\ PlaceOK(r)
  BY <1>3 DEF KindOK, PlaceOK, Kind
<1>5. ReadOK(r)
  BY <1>3, ProcIs DEF ReadOK, Kind, KeyKinds
<1>6. StepOK(p, r, did[p], doubt[p])
  BY <1>1, <1>3, <1>4, <1>5, GoOnOK
<1>7. KeyOK(p, r, files)
  BY <1>3, NoKey DEF KeyKinds
<1> QED BY <1>6, <1>7, MoveStep DEF r, t

LEMMA ListStep ==
    ASSUME IInv, NEW p \in Procs, List(p), files' = files, stale' \subseteq Procs
    PROVE  IInv'
<1>1. /\ proc[p].pc = "list" /\ proc[p].pc \notin Over \cup Busy /\ proc[p].i = 0
      /\ Kind(p) = "cleanup" /\ Kind(p) \notin KeyKinds
  BY ProcIs DEF List, KindOK, PlaceOK, Kind, Over, Busy, KeyKinds
<1>2. CASE Move(p, Exit(p, Ok(NothingChanged)))
  BY <1>1, <1>2, NothingStep
<1>3. CASE Move(p, IF proc[p].cmd.force
                   THEN [At(p, "delete") EXCEPT !.read = Old(svc.profiles)]
                   ELSE [At(p, "ask") EXCEPT !.read = svc.profiles])
  BY <1>1, <1>3, OldIs, SvcIs, ListedStep
<1>4. CASE ReadFails(p)
  BY <1>1, <1>4, ReadFailsStep
<1> QED BY <1>2, <1>3, <1>4 DEF List

LEMMA ListAgainStep ==
    ASSUME IInv, NEW p \in Procs, ListAgain(p), files' = files, stale' \subseteq Procs
    PROVE  IInv'
<1>1. /\ proc[p].pc = "relist" /\ proc[p].pc \notin Over \cup Busy
      /\ Kind(p) = "cleanup" /\ Kind(p) \notin KeyKinds
  BY ProcIs DEF ListAgain, KindOK, Kind, Over, Busy, KeyKinds
<1>2. CASE Move(p, [At(p, "delete") EXCEPT !.read = Old(svc.profiles)])
  BY <1>1, <1>2, OldIs, ListedStep
<1>3. CASE Move(p, Stop(p))
  BY <1>1, <1>3, StopStep
<1>4. CASE ReadFails(p)
  BY <1>1, <1>4, ReadFailsStep
<1> QED BY <1>2, <1>3, <1>4 DEF ListAgain

\* A context with one effect more.
LEMMA Marked ==
    ASSUME NEW d, NEW e \in Effects
    PROVE  /\ [Claim(d, {}) EXCEPT ![e] = "yes"] = Claim(d \cup {e}, {})
           /\ [Claim(d, {}) EXCEPT ![e] = "maybe"] = Claim(d, {e})
           /\ [Claim(d, {}) EXCEPT ![e] = @] = Claim(d, {})
  BY DEF Claim

\* What one deletion leaves.
LEMMA DeletedOK ==
    ASSUME IInv, NEW p \in Procs, proc[p].pc = "delete", NEW x \in proc[p].read,
           NEW a \in Answers \ Interrupted
    PROVE  LET e == <<"dropProfile", x.id>>
           IN  StepOK(p, Deleted(p, x, Status(a)), Had(p, a, e), Open(p, a, e))
<1> DEFINE e == <<"dropProfile", x.id>>
           status == Status(a)
           d == Had(p, a, e)
           q == Open(p, a, e)
           context == [proc[p].context EXCEPT ![e] = CASE status = "ok" -> "yes"
                                                       [] status = "unknown" -> "maybe"
                                                       [] OTHER -> @]
           failed == IF status = "failed" THEN 1 ELSE 0
           c == [proc[p] EXCEPT !.replayed = FALSE, !.read = @ \ {x}, !.i = @ + failed,
                                !.context = context]
           result == IF status = "unknown" \/ c.i > 0
                     THEN Failed("rejected", c.context) ELSE Ok(c.context)
           t == [c EXCEPT !.pc = "exit", !.result = result]
<1>1. /\ proc[p] \in ProcStates /\ proc[p].cmd.kind = "cleanup"
      /\ proc[p].read \subseteq Revisions /\ proc[p].known \subseteq TopicRecords
  BY ProcIs DEF KindOK, ReadOK
<1>2. x.id \in Ids
  BY <1>1 DEF Revisions
<1>3. e \in Effects
  BY <1>2 DEF Effects
<1>4. /\ did[p] \subseteq Effects /\ doubt[p] = {} /\ proc[p].context = Claim(did[p], {})
      /\ proc[p].result = NoResult /\ proc[p].report = NoResult /\ ~proc[p].committed
  BY ProcIs DEF Ledger, Over
<1>5. Deleted(p, x, status) = IF status # "unknown" /\ c.read # {} THEN c ELSE t
  BY DEF Deleted
<1> HIDE DEF e
<1>6. /\ status \in {"ok", "unknown", "failed"}
      /\ d \subseteq Effects /\ q \subseteq Effects
      /\ context \in Claims /\ True(context, d, q)
      /\ status # "unknown" => q = {} /\ context = Claim(d, {})
  <2>1. CASE a \in Carried
    <3>1. status = "ok" /\ d = did[p] \cup {e} /\ q = {}
      BY <1>4, <2>1 DEF Status, Had, Open, Carried, InDoubt
    <3>2. context = Claim(d, {})
      <4>1. [Claim(did[p], {}) EXCEPT ![e] = "yes"] = Claim(did[p] \cup {e}, {})
        BY <1>3, Marked
      <4> QED BY <1>4, <3>1, <4>1
    <3> QED BY <1>3, <1>4, <3>1, <3>2, ClaimFacts, ClaimTrue
  <2>2. CASE a = "unknown"
    <3>1. status = "unknown" /\ d = did[p] /\ q = {e}
      BY <1>4, <2>2 DEF Status, Had, Open, Carried, InDoubt
    <3>2. context = Claim(d, {e})
      <4>1. [Claim(did[p], {}) EXCEPT ![e] = "maybe"] = Claim(did[p], {e})
        BY <1>3, <1>4, Marked
      <4> QED BY <1>4, <3>1, <4>1
    <3> QED BY <1>3, <1>4, <3>1, <3>2, ClaimFacts, ClaimTrue
  <2>3. CASE a \notin Carried \cup {"unknown"}
    <3>1. status = "failed" /\ d = did[p] /\ q = {}
      BY <1>4, <2>3 DEF Status, Had, Open, Carried, InDoubt, Interrupted
    <3>2. context = Claim(d, {})
      <4>1. [Claim(did[p], {}) EXCEPT ![e] = @] = Claim(did[p], {})
        BY <1>3, <1>4, Marked
      <4> QED BY <1>4, <3>1, <4>1
    <3> QED BY <1>3, <1>4, <3>1, <3>2, ClaimFacts, ClaimTrue
  <2> QED BY <2>1, <2>2, <2>3
<1>7. failed \in Nat
  OBVIOUS
<1> HIDE DEF context, failed, d, q
<1>8. /\ c \in ProcStates /\ c.pc = "delete" /\ c.cmd = proc[p].cmd /\ c.context = context
      /\ c.committed = proc[p].committed /\ c.result = NoResult /\ c.report = NoResult
      /\ c.read \subseteq Revisions /\ c.known = proc[p].known /\ c.id = proc[p].id
  <2> DEFINE read == proc[p].read \ {x}
             i == proc[p].i + failed
  <2>1. read \subseteq Revisions
    BY <1>1
  <2>2. i \in Nat
    BY <1>1, <1>7 DEF ProcStates
  <2>3. c = [proc[p] EXCEPT !.replayed = FALSE, !.read = read, !.i = i, !.context = context]
    OBVIOUS
  <2> HIDE DEF read, i, c
  <2> QED BY <1>1, <1>4, <1>6, <2>1, <2>2, <2>3 DEF ProcStates
<1>9. Deleted(p, x, status) = (IF status # "unknown" /\ c.read # {} THEN c ELSE t)
  BY <1>5
<1> HIDE DEF c, status
<1>10. "rejected" \in Answers /\ result \in Results /\ result.says = context
  BY <1>6, <1>8, ResultType DEF Answers
<1> HIDE DEF result
<1>11. CASE status # "unknown" /\ c.read # {}
  <2>1. KindOK(c) /\ PlaceOK(c) /\ ReadOK(c)
    BY <1>1, <1>8, ProcIs DEF KindOK, PlaceOK, ReadOK, KeyKinds
  <2>2. Ledger(c, d, q)
    BY <1>4, <1>6, <1>8, <1>11 DEF Ledger, Over, Busy
  <2> QED BY <1>8, <1>9, <1>11, <2>1, <2>2 DEF StepOK, ProcOK, d, q, status, e
<1>12. CASE ~(status # "unknown" /\ c.read # {})
  <2>1. /\ t \in ProcStates /\ t.pc = "exit" /\ t.cmd = proc[p].cmd /\ t.context = context
        /\ t.committed = proc[p].committed /\ t.result = result /\ t.report = NoResult
        /\ t.read \subseteq Revisions /\ t.known = proc[p].known /\ t.id = proc[p].id
    BY <1>8, <1>10 DEF ProcStates, PCs
  <2> HIDE DEF t
  <2>2. ReadOK(t)
    BY <1>1, <2>1, ProcIs DEF ReadOK, KeyKinds
  <2>3. ProcOK(t, d, q)
    BY <1>4, <1>6, <1>10, <2>1, <2>2, OverOK
  <2> QED BY <1>9, <1>12, <2>1, <2>3 DEF StepOK, d, q, status, e
<1> QED BY <1>11, <1>12

LEMMA DeleteOneStep ==
    ASSUME IInv, NEW p \in Procs, DeleteOne(p), files' = files, stale' \subseteq Procs
    PROVE  IInv'
<1>1. /\ proc[p].pc = "delete" /\ proc[p].pc \notin Over
      /\ Kind(p) = "cleanup" /\ Kind(p) \notin KeyKinds /\ proc[p].read \subseteq Revisions
  BY ProcIs DEF DeleteOne, KindOK, ReadOK, Kind, Over, KeyKinds
<1>2. CASE Move(p, Interrupt(p))
  BY <1>1, <1>2, StopStep
<1>3. ASSUME NEW x \in Latest(proc[p].read),
             Send(p, [by |-> p, effect |-> <<"dropProfile", x.id>>], "delete",
                  [a \in Answers |->
                    CASE a = "unsent" -> Interrupt(p)
                      [] a = "cancelled" ->
                           Exit(p, Failed(a, [proc[p].context EXCEPT
                                                ![<<"dropProfile", x.id>>] = "maybe"]))
                      [] OTHER -> Deleted(p, x, Status(a))])
      PROVE  IInv'
  <2> DEFINE e == <<"dropProfile", x.id>>
             m == [by |-> p, effect |-> e]
             then == [a \in Answers |->
                       CASE a = "unsent" -> Interrupt(p)
                         [] a = "cancelled" ->
                              Exit(p, Failed(a, [proc[p].context EXCEPT ![e] = "maybe"]))
                         [] OTHER -> Deleted(p, x, Status(a))]
  <2>1. Send(p, m, proc[p].pc, then)
    BY <1>1, <1>3
  <2>2. x \in proc[p].read /\ x.id \in Ids
    BY <1>1 DEF Latest, Revisions
  <2>3. WriteOK(m) /\ m.by = p /\ m.effect = e /\ e \in Effects
    BY <2>2 DEF WriteOK, Op, Target, Effects
  <2>4. did[p] \subseteq Effects /\ doubt[p] = {} /\ proc[p].context = Claim(did[p], {})
    BY <1>1, ProcIs DEF Ledger
  <2> HIDE DEF e
  <2>5. ASSUME NEW a \in Answers PROVE StepOK(p, then[a], Had(p, a, e), Open(p, a, e))
    <3>1. CASE a = "unsent"
      <4>1. then[a] = Exit(p, Failed(a, proc[p].context))
        BY <3>1 DEF Interrupt
      <4>2. Had(p, a, e) = did[p] /\ Open(p, a, e) = doubt[p]
        BY <3>1 DEF Had, Open, Carried, InDoubt
      <4> QED BY <1>1, <4>1, <4>2, QuitOK
    <3>2. CASE a = "cancelled"
      <4> DEFINE says == [proc[p].context EXCEPT ![e] = "maybe"]
      <4>1. then[a] = Exit(p, Failed(a, says))
        BY <3>2
      <4>2. Had(p, a, e) = did[p] /\ Open(p, a, e) = {e}
        BY <2>4, <3>2 DEF Had, Open, Carried, InDoubt
      <4>3. says = Claim(did[p], {e})
        <5>1. [Claim(did[p], {}) EXCEPT ![e] = "maybe"] = Claim(did[p], {e})
          BY <2>3, Marked
        <5> QED BY <2>4, <5>1
      <4> HIDE DEF says
      <4>4. says \in Claims /\ True(says, did[p], {e})
        BY <4>3, ClaimFacts, ClaimTrue
      <4>5. /\ Failed(a, says) \in Results /\ Failed(a, says).says = says
            /\ Failed(a, says).kind = "interrupted"
        BY <3>2, <4>4, ResultType DEF Interrupted
      <4> QED BY <1>1, <2>3, <2>4, <4>1, <4>2, <4>4, <4>5, ExitOK
    <3>3. CASE a \notin {"unsent", "cancelled"}
      <4>1. then[a] = Deleted(p, x, Status(a)) /\ a \in Answers \ Interrupted
        BY <3>3 DEF Interrupted
      <4> QED BY <1>1, <2>2, <4>1, DeletedOK DEF e
    <3> QED BY <3>1, <3>2, <3>3
  <2> HIDE DEF then, m
  <2> QED BY <1>1, <2>1, <2>3, <2>5, PlainSend
<1> QED BY <1>2, <1>3 DEF DeleteOne

-----------------------------------------------------------------------------
(* The values of API keys *)

\* Files in which a process changed nothing of the others, and filled only
\* what was empty.
OwnFiles(p, f) ==
    /\ f \in FileStates
    /\ \A t \in f.temps \cup files.temps : t[1] # p => t \in f.temps /\ t \in files.temps
    /\ \A k \in KeyPaths : files.at[k] # 0 => f.at[k] = files.at[k]

\* Such a change leaves the others as they were.
LEMMA OthersKeep ==
    ASSUME IInv, NEW p \in Procs, NEW o \in Procs, o # p, NEW f, OwnFiles(p, f)
    PROVE  KeyOK(o, proc[o], f)
<1> SUFFICES ASSUME proc[o].cmd.kind \in KeyKinds PROVE KeyOK(o, proc[o], f)
  BY DEF KeyOK
<1>1. KeyOK(o, proc[o], files) /\ proc[o].cmd.path \in KeyPaths
  BY ProcIs DEF CmdOK, KeyKinds
<1>2. \A v : <<o, v>> \in files.temps => <<o, v>> \in f.temps
  BY DEF OwnFiles
<1>3. NoTemp(o, files) => NoTemp(o, f)
  BY DEF OwnFiles, NoTemp
<1>4. \A says : Kept(o, proc[o], files, says) => Kept(o, proc[o], f, says)
  BY <1>1, <1>2, <1>3 DEF Kept, OwnFiles
<1> QED BY <1>1, <1>2, <1>3, <1>4 DEF KeyOK

LEMMA KeyFiles ==
    ASSUME IInv, NEW p \in Procs, NEW r, proc' = [proc EXCEPT ![p] = r], OwnFiles(p, files'),
           KeyOK(p, r, files')
    PROVE  FilesOK'
<1>1. proc'[p] = r /\ \A o \in Procs : o # p => proc'[o] = proc[o]
  BY DEF IInv, Typed
<1>2. ASSUME NEW o \in Procs PROVE KeyOK(o, proc'[o], files')
  <2>1. CASE o = p
    BY <1>1, <2>1
  <2>2. CASE o # p
    BY <1>1, <2>2, OthersKeep
  <2> QED BY <2>1, <2>2
<1> QED BY <1>2 DEF FilesOK, KeyOK, Kept, NoTemp

LEMMA FilesAre ==
    ASSUME IInv, NEW p \in Procs
    PROVE  /\ files \in FileStates /\ OwnFiles(p, files)
           /\ OwnFiles(p, Dropped(p)) /\ NoTemp(p, Dropped(p)) /\ Dropped(p).at = files.at
<1>1. files \in FileStates
  BY DEF IInv, Typed
<1>2. OwnFiles(p, files)
  BY <1>1 DEF OwnFiles
<1>3. Dropped(p) \in FileStates /\ Dropped(p).temps = WithoutTemp(p) /\ Dropped(p).at = files.at
  BY <1>1 DEF Dropped, WithoutTemp, FileStates
<1> QED BY <1>1, <1>2, <1>3 DEF OwnFiles, NoTemp, WithoutTemp

\* A step of a key command that writes nothing to the service.
LEMMA KeyMove ==
    ASSUME IInv, NEW p \in Procs, NEW r, Move(p, r), StepOK(p, r, did[p], doubt[p]),
           OwnFiles(p, files'), KeyOK(p, r, files'), stale' \subseteq Procs
    PROVE  IInv'
<1>1. proc' = [proc EXCEPT ![p] = r] /\ UNCHANGED <<svc, wire, did, doubt, signal>>
  BY DEF Move, Set, world
<1>2. r \in ProcStates /\ ProcOK(r, did[p], doubt[p])
  BY DEF StepOK, ProcOK
<1>3. Typed'
  BY <1>1, <1>2 DEF IInv, Typed, OwnFiles
<1>4. WireOK'
  BY <1>1 DEF IInv, WireOK
<1>5. ProcsOK'
  BY <1>1, <1>2 DEF IInv, Typed, ProcsOK
<1>6. FilesOK'
  BY <1>1, KeyFiles
<1> QED BY <1>3, <1>4, <1>5, <1>6 DEF IInv

LEMMA CheckKeyFileStep ==
    ASSUME IInv, NEW p \in Procs, CheckKeyFile(p), stale' \subseteq Procs
    PROVE  IInv'
<1>1. /\ proc[p].pc = "start" /\ proc[p].pc \notin Over \cup Busy /\ Kind(p) \in KeyKinds
      /\ files' = files
  BY DEF CheckKeyFile, WritesKey, Over, Busy, KeyKinds
<1>2. CASE Move(p, Stop(p))
  <2>1. "local" \in Answers
    BY DEF Answers
  <2>2. StepOK(p, Stop(p), did[p], doubt[p])
    BY <1>1, <2>1, QuitOK DEF Stop
  <2>3. proc[p].context \in Claims
    BY ProcIs DEF ProcStates
  <2>4. KeyOK(p, Stop(p), files)
    BY <1>1, <2>1, <2>3, KeyQuit, ResultType DEF Stop
  <2> QED BY <1>1, <1>2, <2>2, <2>4, MoveStep
<1>3. CASE Move(p, At(p, IF Kind(p) = "keyRotate" /\ ~proc[p].cmd.force THEN "ask" ELSE "reserve"))
  <2> DEFINE pc == IF Kind(p) = "keyRotate" /\ ~proc[p].cmd.force THEN "ask" ELSE "reserve"
             r == At(p, pc)
  <2>1. pc \in {"ask", "reserve"} /\ (pc = "ask" => Kind(p) = "keyRotate") /\ Move(p, r)
    BY <1>3
  <2> HIDE DEF pc
  <2>2. pc \in PCs /\ pc \notin Over \cup Busy
    BY <2>1 DEF PCs, Over, Busy
  <2>3. /\ r \in ProcStates /\ r.pc = pc /\ r.cmd = proc[p].cmd /\ r.read = proc[p].read
        /\ r.known = proc[p].known /\ r.i = proc[p].i /\ r.id = proc[p].id
        /\ r.context = proc[p].context /\ r.committed = proc[p].committed
        /\ r.result = proc[p].result /\ r.report = proc[p].report
    BY <2>2, AtIs
  <2> HIDE DEF r
  <2>4. KindOK(r) /\ PlaceOK(r)
    BY <1>1, <2>1, <2>3, ProcIs DEF KindOK, PlaceOK, Kind, KeyKinds
  <2>5. ReadOK(r)
    BY <1>1, <2>1, <2>3, ProcIs DEF ReadOK, Kind, KeyKinds, Over
  <2>6. StepOK(p, r, did[p], doubt[p])
    BY <1>1, <2>1, <2>2, <2>3, <2>4, <2>5, GoOnOK DEF Busy
  <2>7. KeyOK(p, r, files)
    BY <1>1, <2>1, <2>3, ProcIs DEF KeyOK, Over
  <2> QED BY <1>1, <2>1, <2>6, <2>7, MoveStep
<1> QED BY <1>2, <1>3 DEF CheckKeyFile

LEMMA ReserveKeyStep ==
    ASSUME IInv, NEW p \in Procs, ReserveKey(p), stale' \subseteq Procs
    PROVE  IInv'
<1>1. /\ proc[p].pc = "reserve" /\ proc[p].pc \notin Over \cup Busy
      /\ Kind(p) \in KeyKinds
  BY ProcIs DEF ReserveKey, KindOK, Kind, KeyKinds, Over, Busy
<1>2. CASE Move(p, At(p, "writeKey")) /\ files' = [files EXCEPT !.temps = @ \cup {<<p, 0>>}]
  <2> DEFINE r == At(p, "writeKey")
  <2>1. /\ r \in ProcStates /\ r.pc = "writeKey" /\ r.cmd = proc[p].cmd /\ r.read = proc[p].read
        /\ r.known = proc[p].known /\ r.i = proc[p].i /\ r.id = proc[p].id
        /\ r.context = proc[p].context /\ r.committed = proc[p].committed
        /\ r.result = proc[p].result /\ r.report = proc[p].report
    BY AtIs DEF PCs
  <2> HIDE DEF r
  <2>2. KindOK(r) /\ PlaceOK(r)
    BY <1>1, <2>1 DEF KindOK, PlaceOK, Kind, KeyKinds
  <2>3. ReadOK(r)
    BY <1>1, <2>1, ProcIs DEF ReadOK, Kind, KeyKinds, Over
  <2>4. StepOK(p, r, did[p], doubt[p])
    BY <1>1, <2>1, <2>2, <2>3, GoOnOK DEF Over
  <2>5. OwnFiles(p, files') /\ <<p, 0>> \in files'.temps
    BY <1>2, FilesAre, RuntimeAssumption DEF OwnFiles, FileStates
  <2>6. KeyOK(p, r, files')
    BY <2>1, <2>5 DEF KeyOK, Over
  <2> QED BY <1>2, <2>4, <2>5, <2>6, KeyMove DEF r
<1>3. CASE (Move(p, Stop(p)) \/ ReadFails(p)) /\ files' = files
  <2>1. PICK a \in Answers : Move(p, Exit(p, Failed(a, proc[p].context)))
    BY <1>3 DEF Stop, ReadFails, Unread, Interrupted, Answers
  <2>2. StepOK(p, Exit(p, Failed(a, proc[p].context)), did[p], doubt[p])
    BY <1>1, QuitOK
  <2>3. proc[p].context \in Claims
    BY ProcIs DEF ProcStates
  <2>4. KeyOK(p, Exit(p, Failed(a, proc[p].context)), files)
    BY <1>1, <2>3, KeyQuit, ResultType
  <2> QED BY <1>3, <2>1, <2>2, <2>4, MoveStep
<1> QED BY <1>2, <1>3 DEF ReserveKey

\* What a failed write tells of another effect.
LEMMA ToldOther ==
    ASSUME NEW a, NEW e, NEW x \in Effects, x # e
    PROVE  Told(a, {}, e)[x] = "no"
  BY ClaimFacts DEF Told

LEMMA WriteKeyStep ==
    ASSUME IInv, NEW p \in Procs, WriteKey(p), stale' \subseteq Procs
    PROVE  IInv'
<1> DEFINE e == KeyEffect(p)
           m == [by |-> p, effect |-> e]
           then == [a \in Answers |->
                     IF a # "ok" THEN Exit(p, Failed(a, Told(a, {}, e)))
                     ELSE IF WritesKey(p) THEN AnswerRead(p)
                     ELSE Done(p, Claim({e}, {}))]
<1>1. /\ proc[p].pc = "writeKey" /\ proc[p].pc \notin Over \cup Busy
      /\ Send(p, m, proc[p].pc, then)
      /\ files' = IF proc'[p].pc = "exit" THEN Dropped(p) ELSE files
  BY DEF WriteKey, Over, Busy
<1>2. /\ Kind(p) \in KeyKinds \cup {"keyDelete"} /\ Kind(p) = proc[p].cmd.kind
      /\ CmdOK(proc[p].cmd) /\ (Kind(p) \in KeyKinds <=> WritesKey(p))
  BY <1>1, ProcIs DEF KindOK, Kind, KeyKinds, WritesKey
<1>3. did[p] = {} /\ ~Noted(proc[p]) /\ (Kind(p) \in KeyKinds => proc[p].id = 0)
  BY <1>1, <1>2, ProcIs DEF Ledger, Noted, ManyWrites, KeyKinds, ReadOK
<1>4. \/ e = <<"makeKey", Path(p)>> /\ Path(p) \in KeyPaths /\ Kind(p) = "keyCreate"
      \/ e = <<"rotateKey", proc[p].cmd.id>> /\ proc[p].cmd.id \in Ids /\ Kind(p) = "keyRotate"
      \/ e = <<"dropKey", proc[p].cmd.id>> /\ proc[p].cmd.id \in Ids /\ Kind(p) = "keyDelete"
  BY <1>2 DEF KeyEffect, CmdOK, KeyKinds, Path
<1>5. WriteOK(m) /\ m.by = p /\ m.effect = e /\ e \in Effects
  BY <1>4 DEF WriteOK, Op, Target, Effects
<1>6. Kind(p) \in KeyKinds /\ Takes(svc, m) => svc.next \in Ids /\ svc.next # 0
  <2> SUFFICES ASSUME Kind(p) \in KeyKinds, Takes(svc, m) PROVE svc.next \in Ids /\ svc.next # 0
    OBVIOUS
  <2>1. Op(m) \in {"makeKey", "rotateKey"}
    BY <1>4 DEF Op, KeyKinds
  <2>2. svc.next <= MaxId
    BY <2>1 DEF Takes
  <2> QED BY <2>2, SvcIs DEF Ids
<1>7. e[1] \notin {"saveKey", "keepKey"}
  BY <1>4
<1>8. Kind(p) \in KeyKinds => KeyEffectOf(proc[p]) = e /\ Path(p) \in KeyPaths
  BY <1>2, <1>4 DEF KeyEffectOf, CmdOK, KeyKinds, Path
<1> HIDE DEF e
<1>9. Had(p, "ok", e) = {e} /\ Open(p, "ok", e) = {}
  BY <1>1, <1>3, OkIs
<1>10. ASSUME Kind(p) \in KeyKinds, Takes(svc, m)
       PROVE  StepOK(p, AnswerRead(p), {e}, {}) /\ AnswerRead(p).pc = "saveKey"
  <2> DEFINE t == At(p, "saveKey")
             says == Claim({e}, {})
             r == [t EXCEPT !.id = svc.next, !.context = says]
  <2>1. AnswerRead(p) = r
    BY DEF AnswerRead, e
  <2>2. /\ t \in ProcStates /\ t.pc = "saveKey" /\ t.cmd = proc[p].cmd
        /\ t.read = proc[p].read /\ t.known = proc[p].known
        /\ t.committed = proc[p].committed
        /\ t.result = proc[p].result /\ t.report = proc[p].report
    BY AtIs DEF PCs
  <2>3. says \in Claims
    BY ClaimFacts
  <2> HIDE DEF t, says
  <2>4. /\ r \in ProcStates /\ r.pc = "saveKey" /\ r.cmd = proc[p].cmd
        /\ r.read = proc[p].read /\ r.known = proc[p].known /\ r.id = svc.next
        /\ r.committed = proc[p].committed /\ r.context = says
        /\ r.result = proc[p].result /\ r.report = proc[p].report
    BY <1>6, <1>10, <2>2, <2>3 DEF ProcStates
  <2> HIDE DEF r
  <2>5. KindOK(r) /\ PlaceOK(r)
    BY <1>2, <1>10, <2>4 DEF KindOK, PlaceOK, KeyKinds
  <2>6. ReadOK(r)
    BY <1>2, <1>6, <1>10, <2>4, ProcIs DEF ReadOK, KeyKinds
  <2>7. KeyEffectOf(r) = e
    BY <1>8, <1>10, <2>4 DEF KeyEffectOf
  <2>8. Ledger(r, {e}, {})
    BY <1>1, <1>5, <2>4, <2>7, ProcIs DEF Ledger, Over, Busy, says
  <2> QED BY <2>1, <2>4, <2>5, <2>6, <2>8 DEF StepOK, ProcOK
<1>11. ASSUME NEW a \in Answers, a \in Carried => Takes(svc, m)
       PROVE  StepOK(p, then[a], Had(p, a, e), Open(p, a, e))
  <2>1. CASE a # "ok"
    <3>1. then[a] = Exit(p, Failed(a, Told(a, did[p], e)))
      BY <1>3, <2>1
    <3> QED BY <1>1, <1>3, <1>5, <2>1, <3>1, FailOK
  <2>2. CASE a = "ok" /\ WritesKey(p)
    <3>1. then[a] = AnswerRead(p) /\ Takes(svc, m)
      BY <1>11, <2>2 DEF Carried
    <3> QED BY <1>2, <1>9, <1>10, <2>2, <3>1
  <2>3. CASE a = "ok" /\ ~WritesKey(p)
    <3>1. then[a] = Done(p, Claim({e}, {}))
      BY <2>3
    <3>2. StepOK(p, Done(p, Claim({e}, {})), {e}, {})
      BY <1>1, <1>3, <1>5, DoneOK
    <3> QED BY <1>9, <2>3, <3>1, <3>2
  <2> QED BY <2>1, <2>2, <2>3
<1>12. OwnFiles(p, files') /\ files' \in FileStates
  BY <1>1, FilesAre DEF OwnFiles
<1>13. /\ Typed' /\ WireOK' /\ ProcsOK'
       /\ proc' = [proc EXCEPT ![p] = proc'[p]] /\ proc'[p].cmd = proc[p].cmd
       /\ \/ proc'[p] = [At(p, proc[p].pc) EXCEPT !.replayed = TRUE]
          \/ \E a \in Answers : (a \in Carried => Takes(svc, m)) /\ proc'[p] = then[a]
  <2> HIDE DEF m, then
  <2> QED BY <1>1, <1>5, <1>11, <1>12, SendStep
<1>14. KeyOK(p, proc'[p], files')
  <2>1. CASE Kind(p) \notin KeyKinds
    BY <1>13, <2>1 DEF KeyOK, Kind
  <2>2. CASE proc'[p] = [At(p, proc[p].pc) EXCEPT !.replayed = TRUE]
    <3>1. proc[p] \in ProcStates
      BY ProcIs
    <3>2. proc'[p].pc = "writeKey"
      BY <1>1, <2>2, <3>1 DEF At, ProcStates
    <3>3. files' = files
      BY <1>1, <3>2
    <3> QED BY <1>1, <2>2, <3>3, AgainOK
  <2>3. ASSUME Kind(p) \in KeyKinds, NEW a \in Answers, a \in Carried => Takes(svc, m),
               proc'[p] = then[a]
        PROVE  KeyOK(p, proc'[p], files')
    <3>1. CASE a # "ok"
      <4> DEFINE says == Told(a, {}, e)
                 result == Failed(a, says)
      <4>1. proc'[p] = Exit(p, result)
        BY <2>3, <3>1
      <4>2. says \in Claims
        BY ClaimFacts DEF Told
      <4>3. result \in Results /\ result.says = says
        BY <4>2, ResultType
      <4>4. \A where \in {"saveKey", "keepKey"} :
              <<where, Path(p)>> \in Effects /\ <<where, Path(p)>> # e
        BY <1>7, <1>8, <2>3 DEF Effects
      <4>5. \A where \in {"saveKey", "keepKey"} : result.says[<<where, Path(p)>>] # "yes"
        BY <4>3, <4>4, ToldOther
      <4> HIDE DEF result
      <4>6. proc'[p].pc = "exit"
        BY <4>1, <4>3, ExitIs
      <4>7. files' = Dropped(p) /\ NoTemp(p, files')
        BY <1>1, <4>6, FilesAre
      <4> QED BY <1>1, <2>3, <4>1, <4>3, <4>5, <4>7, KeyExit DEF Busy
    <3>2. CASE a = "ok"
      <4>1. proc'[p] = AnswerRead(p) /\ Takes(svc, m)
        BY <1>2, <2>3, <3>2 DEF Carried
      <4>2. proc'[p].pc = "saveKey"
        BY <1>10, <2>3, <4>1
      <4>3. files' = files /\ <<p, 0>> \in files.temps
        BY <1>1, <1>2, <2>3, <4>2, ProcIs DEF KeyOK
      <4> QED BY <4>2, <4>3 DEF KeyOK, Over
    <3> QED BY <3>1, <3>2
  <2> QED BY <1>13, <2>1, <2>2, <2>3
<1>15. FilesOK'
  BY <1>12, <1>13, <1>14, KeyFiles
<1> QED BY <1>13, <1>15 DEF IInv

\* The value is stored, and told of.
LEMMA StoredStep ==
    ASSUME IInv, NEW p \in Procs, proc[p].pc = "saveKey", NEW where \in {"saveKey", "keepKey"},
           NEW kind \in {"ok", "error"}, Stored(p, where, kind), OwnFiles(p, files'),
           where = "saveKey" => files'.at[Path(p)] = proc[p].id /\ NoTemp(p, files'),
           where = "keepKey" => <<p, proc[p].id>> \in files'.temps, stale' \subseteq Procs
    PROVE  IInv'
<1> DEFINE e == KeyEffect(p)
           x == <<where, Path(p)>>
           says == Claim({e, x}, {})
           result == [kind |-> kind, says |-> says]
           t == Exit(p, result)
           r == [t EXCEPT !.context = says]
<1>1. /\ Kind(p) \in KeyKinds /\ Kind(p) = proc[p].cmd.kind /\ CmdOK(proc[p].cmd)
      /\ proc[p].id # 0 /\ proc[p].pc \notin Over
      /\ did[p] = {KeyEffectOf(proc[p])} /\ did[p] \subseteq Effects /\ doubt[p] = {}
      /\ proc[p].report = NoResult /\ ~proc[p].committed
  BY ProcIs DEF KindOK, ReadOK, Kind, KeyKinds, Ledger, Over
<1>2. e = KeyEffectOf(proc[p]) /\ Path(p) \in KeyPaths /\ Path(p) = proc[p].cmd.path
  BY <1>1 DEF KeyEffect, KeyEffectOf, KeyKinds, Path, CmdOK
<1>3. /\ proc' = [proc EXCEPT ![p] = r]
      /\ did' = [did EXCEPT ![p] = @ \cup {x}] /\ UNCHANGED <<svc, wire, signal, doubt>>
  BY DEF Stored, Set
<1>4. x \in Effects /\ e \in Effects
  BY <1>1, <1>2 DEF Effects
<1>5. <<"saveKey", Path(p)>> # e /\ <<"keepKey", Path(p)>> # e
  BY <1>2 DEF KeyEffectOf
<1> HIDE DEF e
<1>6. /\ says \in Claims /\ True(says, {e, x}, {})
      /\ result \in Results /\ result.says = says
  BY ClaimFacts, ClaimTrue DEF Results
<1>7. /\ says[<<"saveKey", Path(p)>>] = "yes" => where = "saveKey"
      /\ says[<<"keepKey", Path(p)>>] = "yes" <=> where = "keepKey"
  <2>1. <<"saveKey", Path(p)>> \in Effects /\ <<"keepKey", Path(p)>> \in Effects
    BY <1>2 DEF Effects
  <2>2. \A y \in Effects : says[y] = IF y \in {e, x} THEN "yes" ELSE "no"
    BY DEF Claim
  <2> QED BY <1>5, <2>1, <2>2
<1> HIDE DEF says, result, x
<1>8. /\ t \in ProcStates /\ t.pc = "exit" /\ t.cmd = proc[p].cmd
      /\ t.committed = proc[p].committed /\ t.result = result /\ t.report = proc[p].report
      /\ t.read = proc[p].read /\ t.known = proc[p].known /\ t.id = proc[p].id
  BY <1>6, ExitIs
<1> HIDE DEF t
<1>9. /\ r \in ProcStates /\ r.pc = "exit" /\ r.cmd = proc[p].cmd /\ r.context = says
      /\ r.committed = proc[p].committed /\ r.result = result /\ r.report = proc[p].report
      /\ r.read = proc[p].read /\ r.known = proc[p].known /\ r.id = proc[p].id
  BY <1>6, <1>8 DEF ProcStates
<1> HIDE DEF r
<1>10. /\ did' \in [Procs -> SUBSET Effects] /\ did'[p] = {e, x} /\ doubt'[p] = {}
       /\ \A o \in Procs : o # p => did'[o] = did[o]
  BY <1>1, <1>2, <1>3, <1>4 DEF IInv, Typed
<1>11. ProcOK(r, {e, x}, {})
  <2>1. ReadOK(r)
    BY <1>9, ReadStays
  <2> QED BY <1>1, <1>4, <1>6, <1>9, <2>1, OverOK
<1>12. Typed'
  BY <1>3, <1>9, <1>10 DEF IInv, Typed, OwnFiles
<1>13. WireOK'
  BY <1>3 DEF IInv, WireOK
<1>14. ProcsOK'
  <2> SUFFICES ASSUME NEW o \in Procs PROVE ProcOK(proc'[o], did'[o], doubt'[o])
    BY DEF ProcsOK
  <2>1. CASE o = p
    BY <1>3, <1>10, <1>11, <2>1 DEF IInv, Typed
  <2>2. CASE o # p
    BY <1>3, <1>10, <2>2 DEF IInv, Typed, ProcsOK
  <2> QED BY <2>1, <2>2
<1>15. KeyOK(p, r, files')
  <2>1. Kept(p, r, files', says)
    BY <1>1, <1>2, <1>7, <1>9 DEF Kept
  <2> QED BY <1>6, <1>9, <2>1 DEF KeyOK, Over
<1>16. FilesOK'
  BY <1>3, <1>15, KeyFiles
<1> QED BY <1>12, <1>13, <1>14, <1>16 DEF IInv

LEMMA SaveKeyStep ==
    ASSUME IInv, NEW p \in Procs, SaveKey(p), stale' \subseteq Procs
    PROVE  IInv'
<1>1. /\ proc[p].pc = "saveKey" /\ proc[p].pc \notin Over
      /\ Kind(p) \in KeyKinds /\ Kind(p) = proc[p].cmd.kind /\ CmdOK(proc[p].cmd)
      /\ proc[p].id \in 0 .. MaxId /\ Path(p) \in KeyPaths
      /\ did[p] = {KeyEffectOf(proc[p])} /\ did[p] \subseteq Effects /\ doubt[p] = {}
      /\ proc[p].context = Claim(did[p], {})
  BY ProcIs, RuntimeAssumption
     DEF SaveKey, KindOK, Kind, KeyKinds, Ledger, Over, ProcStates, Ids, CmdOK, Path
<1>2. KeyEffect(p) = KeyEffectOf(proc[p])
  BY <1>1 DEF KeyEffect, KeyEffectOf, KeyKinds, Path
<1>3. CASE /\ Move(p, Exit(p, Failed("unreadable", Claim({KeyEffect(p)}, {}))))
           /\ files' = Dropped(p)
  <2> DEFINE says == Claim(did[p], {})
             result == Failed("unreadable", says)
             r == Exit(p, result)
  <2>1. says \in Claims /\ True(says, did[p], {})
    BY ClaimFacts, ClaimTrue
  <2>2. \A where \in {"saveKey", "keepKey"} : says[<<where, Path(p)>>] # "yes"
    <3>1. \A where \in {"saveKey", "keepKey"} :
            <<where, Path(p)>> \in Effects /\ <<where, Path(p)>> \notin did[p]
      BY <1>1 DEF Effects, KeyEffectOf
    <3> QED BY <3>1, ClaimFacts
  <2>3. r = Exit(p, Failed("unreadable", Claim({KeyEffect(p)}, {}))) /\ says = proc[p].context
    BY <1>1, <1>2
  <2> HIDE DEF says
  <2>4. result \in Results /\ result.says = says
    BY <2>1, ResultType DEF Answers
  <2> HIDE DEF result
  <2>5. StepOK(p, r, did[p], doubt[p])
    BY <1>1, <2>1, <2>3, <2>4, ExitOK
  <2>6. /\ r.pc = "exit" /\ r.cmd = proc[p].cmd /\ r.result = result
        /\ r.context = says
    BY <2>3, <2>4, ExitIs
  <2>7. OwnFiles(p, files') /\ NoTemp(p, files')
    BY <1>3, FilesAre
  <2>8. Kept(p, r, files', says)
    BY <2>2, <2>6, <2>7 DEF Kept, Path
  <2>9. KeyOK(p, r, files')
    BY <2>4, <2>6, <2>8 DEF KeyOK, Over
  <2> QED BY <1>3, <2>3, <2>5, <2>7, <2>9, KeyMove
<1>4. CASE /\ Links(p)
           /\ \E result \in {"ok", "error"} : Stored(p, "saveKey", result)
           /\ files' = [Dropped(p) EXCEPT !.at[Path(p)] = proc[p].id]
  <2>1. files'.temps = Dropped(p).temps /\ files' \in FileStates
        /\ files'.at = [files.at EXCEPT ![Path(p)] = proc[p].id]
    BY <1>1, <1>4, FilesAre DEF FileStates, OwnFiles
  <2>2. files'.at[Path(p)] = proc[p].id /\ NoTemp(p, files')
    BY <1>1, <2>1, FilesAre DEF NoTemp, FileStates
  <2>3. OwnFiles(p, files')
    BY <1>1, <1>4, <2>1, FilesAre DEF OwnFiles, FileStates, Links
  <2> QED BY <1>1, <1>4, <2>2, <2>3, StoredStep
<1>5. CASE /\ Stored(p, "keepKey", "error")
           /\ files' = [files EXCEPT !.temps = WithoutTemp(p) \cup {<<p, proc[p].id>>}]
  <2>1. /\ files' \in FileStates /\ files'.at = files.at
        /\ files'.temps = WithoutTemp(p) \cup {<<p, proc[p].id>>}
    BY <1>1, <1>5, FilesAre DEF FileStates, WithoutTemp
  <2>2. OwnFiles(p, files') /\ <<p, proc[p].id>> \in files'.temps
    BY <2>1 DEF OwnFiles, WithoutTemp
  <2> QED BY <1>1, <1>5, <2>2, StoredStep
<1> QED BY <1>3, <1>4, <1>5 DEF SaveKey

-----------------------------------------------------------------------------
(* The restore of profiles *)

\* A state of a process as far as what it did is concerned.
SoFar(p, c) ==
    /\ c \in ProcStates /\ c.cmd = proc[p].cmd
    /\ c.context = proc[p].context /\ c.committed = proc[p].committed
    /\ c.result = proc[p].result /\ c.report = proc[p].report

\* A restore goes on.
LEMMA GoesStep ==
    ASSUME IInv, NEW p \in Procs, proc[p].pc \notin Over, Kind(p) \in ManyWrites,
           NEW r, SoFar(p, r), r.pc \notin Over \cup {"drop", "saveKey"},
           KindOK(r), ReadOK(r), PlaceOK(r), r.pc \in Busy \/ proc[p].pc \notin Busy,
           Move(p, r), files' = files, stale' \subseteq Procs
    PROVE  IInv'
<1>1. StepOK(p, r, did[p], doubt[p])
  BY GoOnOK DEF SoFar
<1>2. KeyOK(p, r, files)
  BY NoKey DEF SoFar, ManyWrites, KeyKinds
<1> QED BY <1>1, <1>2, MoveStep

\* A plan is refused.
LEMMA RefuseStep ==
    ASSUME IInv, NEW p \in Procs, proc[p].pc \notin Over, Kind(p) \in ManyWrites,
           Move(p, Refuse(p)), files' = files, stale' \subseteq Procs
    PROVE  IInv'
<1> DEFINE t == Stop(p)
           r == [t EXCEPT !.refused = TRUE]
<1>1. "local" \in Answers /\ proc[p].context \in Claims
  BY ProcIs DEF Answers, ProcStates
<1>2. StepOK(p, t, did[p], doubt[p])
  BY <1>1, QuitOK DEF Stop
<1>3. t \in ProcStates /\ t.pc = "exit" /\ Move(p, r)
  BY <1>1, ResultType, ExitIs DEF Stop, Refuse
<1> HIDE DEF t
<1>4. /\ r \in ProcStates /\ r.pc = "exit" /\ r.cmd = t.cmd /\ r.result = t.result
      /\ r.report = t.report /\ r.context = t.context /\ r.committed = t.committed
      /\ r.read = t.read /\ r.known = t.known /\ r.id = t.id /\ r.i = t.i
  BY <1>3 DEF ProcStates
<1> HIDE DEF r
<1>5. KindOK(r) /\ ReadOK(r) /\ PlaceOK(r)
  BY <1>2, <1>3, <1>4 DEF StepOK, ProcOK, KindOK, ReadOK, PlaceOK
<1>6. Ledger(r, did[p], doubt[p])
  <2>1. Misstated(t, did[p], doubt[p]) => Misstated(r, did[p], doubt[p])
    BY <1>4 DEF Misstated
  <2> QED BY <1>2, <1>3, <1>4, <2>1 DEF StepOK, ProcOK, Ledger, Noted, KeyEffectOf, Over
<1>7. StepOK(p, r, did[p], doubt[p])
  BY <1>2, <1>4, <1>5, <1>6 DEF StepOK, ProcOK
<1>8. KeyOK(p, r, files)
  BY <1>7, NoKey DEF StepOK, ManyWrites, KeyKinds
<1> QED BY <1>3, <1>7, <1>8, MoveStep

\* A write that fails ends a restore.
LEMMA WriteFailedOK ==
    ASSUME IInv, NEW p \in Procs, proc[p].pc \notin Over, Kind(p) \in ManyWrites,
           NEW a \in Answers, a # "ok", NEW e \in Effects
    PROVE  StepOK(p, WriteFailed(p, a, e), Had(p, a, e), Open(p, a, e))
<1> DEFINE done == {x \in Effects : proc[p].context[x] = "yes"}
           says == Told(a, done, e)
           maybe == a \in InDoubt \cup {"unreadable"}
           context == IF maybe THEN [proc[p].context EXCEPT ![e] = "maybe"] ELSE proc[p].context
           d == Had(p, a, e)
           q == Open(p, a, e)
           t == Exit(p, Failed(a, says))
           r == [t EXCEPT !.context = context]
<1>1. /\ did[p] \subseteq Effects /\ doubt[p] = {} /\ proc[p].context = Claim(did[p], {})
      /\ proc[p].report = NoResult /\ ~proc[p].committed /\ proc[p] \in ProcStates
  BY ProcIs DEF Ledger
<1>2. done = did[p]
  BY <1>1, ClaimFacts
<1>3. /\ d = did[p] \cup (IF a \in Carried THEN {e} ELSE {})
      /\ q = IF a \in InDoubt THEN {e} ELSE {}
  BY <1>1 DEF Had, Open
<1> HIDE DEF done, d, q
<1>4. says \in Claims /\ True(says, d, q) /\ d \subseteq Effects /\ q \subseteq Effects
  BY <1>1, <1>2, <1>3, ToldTrue
<1>5. context \in Claims /\ True(context, d, q)
  <2>1. CASE maybe
    <3>1. [Claim(did[p], {}) EXCEPT ![e] = "maybe"] = Claim(did[p], {e})
      BY Marked
    <3>2. context = Claim(did[p], {e})
      BY <1>1, <2>1, <3>1
    <3> HIDE DEF context
    <3> QED BY <1>3, <3>2, ClaimFacts, ClaimTrue
  <2>2. CASE ~maybe
    <3>1. a \notin Carried /\ a \notin InDoubt
      BY <2>2 DEF Carried
    <3>2. d = did[p] /\ q = {} /\ context = Claim(did[p], {})
      BY <1>1, <1>3, <2>2, <3>1
    <3> HIDE DEF context
    <3> QED BY <3>2, ClaimFacts, ClaimTrue
  <2> QED BY <2>1, <2>2
<1>6. WriteFailed(p, a, e) = r
  <2>1. t \in ProcStates /\ t.context = proc[p].context
    BY <1>4, ExitIs, ResultType
  <2>2. t = [t EXCEPT !.context = proc[p].context]
    BY <2>1 DEF ProcStates
  <2>3. [t EXCEPT !.context[e] = IF a \in InDoubt \cup {"unreadable"} THEN "maybe" ELSE @] = r
    <3>1. CASE maybe
      BY <2>1, <3>1
    <3>2. CASE ~maybe
      <4>1. [proc[p].context EXCEPT ![e] = @] = proc[p].context
        BY <1>1, Marked
      <4> HIDE DEF t
      <4> QED BY <2>1, <3>2, <4>1
    <3> QED BY <3>1, <3>2
  <2> QED BY <2>3 DEF WriteFailed, done
<1>7. Failed(a, says) \in Results /\ Failed(a, says).says = says
  BY <1>4, ResultType
<1> HIDE DEF context, says
<1>8. /\ t \in ProcStates /\ t.pc = "exit" /\ t.cmd = proc[p].cmd
      /\ t.committed = proc[p].committed
      /\ t.result = Failed(a, says) /\ t.report = proc[p].report /\ t.read = proc[p].read
      /\ t.known = proc[p].known /\ t.i = proc[p].i /\ t.id = proc[p].id
  BY <1>7, ExitIs
<1> HIDE DEF t
<1>9. /\ r \in ProcStates /\ r.pc = "exit" /\ r.cmd = proc[p].cmd
      /\ r.committed = proc[p].committed /\ r.context = context
      /\ r.result = Failed(a, says) /\ r.report = proc[p].report /\ r.read = proc[p].read
      /\ r.known = proc[p].known /\ r.id = proc[p].id
  BY <1>5, <1>8 DEF ProcStates
<1> HIDE DEF r
<1>10. ReadOK(r)
  BY <1>9, ReadStays
<1>11. ProcOK(r, d, q)
  BY <1>1, <1>4, <1>5, <1>7, <1>9, <1>10, OverOK
<1> QED BY <1>6, <1>9, <1>11 DEF StepOK, d, q

-----------------------------------------------------------------------------

\* The commands of a restore.
LEMMA RestoreIs ==
    ASSUME IInv, NEW p \in Procs, Kind(p) = "restore"
    PROVE  /\ IsRestore(proc[p].cmd) /\ Kind(p) \in ManyWrites /\ Kind(p) \notin KeyKinds
           /\ proc[p].read \subseteq Revisions /\ proc[p].known \subseteq TopicRecords
           /\ Len(proc[p].cmd.topics) \in Nat
  BY ProcIs DEF CmdOK, Kind, ReadOK, ManyWrites, KeyKinds, IsRestore

\* The places of the items.
LEMMA ItemsAre ==
    ASSUME NEW c, IsRestore(c.cmd)
    PROVE  /\ Items(c) \subseteq Nat
           /\ \A j \in TopicItems(c) : j <= Len(c.cmd.topics)
           /\ \A j \in ProfileItems(c) : ~(j <= Len(c.cmd.topics))
           /\ \A j \in TopicItems(c) :
                c.cmd.topics[j] \in DOMAIN SourceTopic /\ \E k \in ProfileItems(c) : k > j
           /\ \A j \in ProfileItems(c) :
                c.cmd.profiles[j - Len(c.cmd.topics)] \in DOMAIN SourcePolicy
<1> DEFINE topics == c.cmd.topics
           profiles == c.cmd.profiles
<1>1. topics \in Seq(DOMAIN SourceTopic) /\ profiles \in Seq(DOMAIN SourcePolicy)
  BY DEF IsRestore
<1> HIDE DEF topics, profiles
<1>2. /\ Len(topics) \in Nat /\ DOMAIN topics = 1 .. Len(topics)
      /\ Len(profiles) \in Nat /\ DOMAIN profiles = 1 .. Len(profiles)
      /\ \A j \in DOMAIN topics : topics[j] \in DOMAIN SourceTopic
      /\ \A j \in DOMAIN profiles : profiles[j] \in DOMAIN SourcePolicy
  BY <1>1
<1>3. TopicItems(c) = {j \in DOMAIN topics : topics[j] \in Topics(c)}
  BY DEF TopicItems, topics
<1>4. ProfileItems(c) = {j + Len(topics) : j \in {k \in DOMAIN profiles : profiles[k] \in Acted(c)}}
  BY DEF ProfileItems, topics, profiles
<1>5. \A j \in TopicItems(c) : j \in Nat /\ j <= Len(topics) /\ topics[j] \in DOMAIN SourceTopic
  BY <1>2, <1>3
<1>6. \A j \in ProfileItems(c) :
        /\ j \in Nat /\ ~(j <= Len(topics))
        /\ profiles[j - Len(topics)] \in DOMAIN SourcePolicy
  <2> SUFFICES ASSUME NEW j \in ProfileItems(c)
               PROVE  /\ j \in Nat /\ ~(j <= Len(topics))
                      /\ profiles[j - Len(topics)] \in DOMAIN SourcePolicy
    OBVIOUS
  <2>1. PICK k \in DOMAIN profiles : j = k + Len(topics)
    BY <1>4
  <2>2. k \in Nat /\ k >= 1 /\ j - Len(topics) = k
    BY <1>2, <2>1
  <2> QED BY <1>2, <2>1, <2>2
<1>7. ASSUME NEW j \in TopicItems(c) PROVE \E k \in ProfileItems(c) : k > j
  <2>1. PICK n \in Acted(c) : topics[j] \in SourcePolicy[n].topics
    BY <1>3 DEF Topics
  <2>2. PICK k \in DOMAIN profiles : profiles[k] = n
    BY <2>1 DEF Acted, Elements, profiles
  <2>3. k + Len(topics) \in ProfileItems(c)
    BY <1>4, <2>1, <2>2
  <2>4. k + Len(topics) > j
    BY <1>2, <1>3, <2>2
  <2> QED BY <2>3, <2>4
<1> QED BY <1>5, <1>6, <1>7 DEF Items, topics, profiles

\* On to the next item.
LEMMA ItemOK ==
    ASSUME NEW c \in ProcStates, c.cmd.kind = "restore", IsRestore(c.cmd),
           c.read \subseteq Revisions, c.known \subseteq TopicRecords,
           NEW d, d \subseteq Effects, c.context = Claim(d, {}),
           c.result = NoResult, c.report = NoResult, ~c.committed, NEW i \in Nat
    PROVE  ProcOK(Item(c, i), d, {}) /\ Item(c, i).cmd = c.cmd
<1> DEFINE later == {j \in Items(c) : j > i}
           j == First(later)
           pc == IF j <= Len(c.cmd.topics) THEN "topic" ELSE "profile"
           r == [c EXCEPT !.i = j, !.replayed = FALSE, !.pc = pc]
           t == [c EXCEPT !.replayed = FALSE, !.pc = "exit", !.result = Ok(c.context)]
<1>1. Item(c, i) = IF later = {} THEN t ELSE r
  BY DEF Item
<1>2. c.context \in Claims /\ True(c.context, d, {})
  BY ClaimFacts, ClaimTrue
<1>3. later \in SUBSET Nat
  BY ItemsAre
<1>4. CASE later = {}
  <2>1. Ok(c.context) \in Results /\ Ok(c.context).says = c.context
    BY <1>2, ResultType
  <2>2. /\ t \in ProcStates /\ t.pc = "exit" /\ t.cmd = c.cmd /\ t.context = c.context
        /\ t.committed = c.committed /\ t.result = Ok(c.context) /\ t.report = NoResult
        /\ t.read = c.read /\ t.known = c.known
    BY <2>1 DEF ProcStates, PCs
  <2> HIDE DEF t
  <2>3. ReadOK(t)
    BY <2>2 DEF ReadOK, KeyKinds
  <2>4. ProcOK(t, d, {})
    BY <1>2, <2>1, <2>2, <2>3, OverOK
  <2> QED BY <1>1, <1>4, <2>2, <2>4
<1>5. CASE later # {}
  <2>1. j \in later /\ j \in Nat
    BY <1>3, <1>5, FirstIs
  <2>2. pc \in {"topic", "profile"}
    OBVIOUS
  <2>3. /\ pc = "topic" => j \in TopicItems(c)
        /\ pc = "profile" => j \in ProfileItems(c)
    <3>1. j \in TopicItems(c) \cup ProfileItems(c)
      BY <2>1 DEF Items
    <3> QED BY <3>1, ItemsAre
  <2> HIDE DEF j, pc, later
  <2>4. /\ r \in ProcStates /\ r.pc = pc /\ r.cmd = c.cmd /\ r.context = c.context
        /\ r.committed = c.committed /\ r.result = NoResult /\ r.report = NoResult
        /\ r.read = c.read /\ r.known = c.known /\ r.i = j
    BY <2>1, <2>2 DEF ProcStates, PCs
  <2> HIDE DEF r
  <2>5. TopicItems(r) = TopicItems(c) /\ ProfileItems(r) = ProfileItems(c)
    BY <2>4 DEF TopicItems, ProfileItems, Topics, Acted, Action
  <2>6. KindOK(r)
    BY <2>2, <2>4 DEF KindOK
  <2>7. ReadOK(r)
    BY <2>4 DEF ReadOK, KeyKinds
  <2>8. PlaceOK(r)
    BY <2>2, <2>3, <2>4, <2>5 DEF PlaceOK
  <2>9. Ledger(r, d, {})
    BY <2>2, <2>4 DEF Ledger, Over, Busy
  <2> QED BY <1>1, <1>5, <2>4, <2>6, <2>7, <2>8, <2>9 DEF ProcOK
<1> QED BY <1>4, <1>5

\* A restore goes on to the next item, having written nothing.
LEMMA ItemStep ==
    ASSUME IInv, NEW p \in Procs, proc[p].pc \notin Over, Kind(p) = "restore",
           NEW c, SoFar(p, c), c.read = proc[p].read, c.known = proc[p].known, NEW i \in Nat,
           Move(p, Item(c, i)), files' = files, stale' \subseteq Procs
    PROVE  IInv'
<1> DEFINE r == Item(c, i)
<1>1. /\ did[p] \subseteq Effects /\ doubt[p] = {} /\ c.context = Claim(did[p], {})
      /\ c.result = NoResult /\ c.report = NoResult /\ ~c.committed
  BY ProcIs DEF Ledger, SoFar
<1>2. ProcOK(r, did[p], {}) /\ r.cmd = c.cmd
  BY <1>1, RestoreIs, ItemOK DEF SoFar, Kind
<1>3. StepOK(p, r, did[p], doubt[p])
  BY <1>1, <1>2 DEF StepOK, SoFar
<1>4. KeyOK(p, r, files)
  BY <1>3, RestoreIs, NoKey DEF StepOK
<1> QED BY <1>3, <1>4, MoveStep

\* The plan of a restore, complete.
LEMMA PlannedStep ==
    ASSUME IInv, NEW p \in Procs, proc[p].pc \notin Over \cup Busy, Kind(p) = "restore",
           NEW c, SoFar(p, c), c.read \subseteq Revisions, c.known \subseteq TopicRecords,
           c.i = 0, Move(p, Planned(p, c)), files' = files, stale' \subseteq Procs
    PROVE  IInv'
<1>1. CASE Move(p, Refuse(p))
  BY <1>1, RestoreIs, RefuseStep
<1>2. CASE ~Mismatch(c)
  <2> DEFINE pc == IF Changing(c) # {} /\ ~c.cmd.force THEN "ask" ELSE "recheck"
             r == [c EXCEPT !.pc = pc]
  <2>1. pc \in {"ask", "recheck"} /\ Move(p, r)
    BY <1>2 DEF Planned
  <2> HIDE DEF pc
  <2>2. SoFar(p, r) /\ r.pc = pc /\ r.read = c.read /\ r.known = c.known /\ r.i = 0
    BY <2>1 DEF SoFar, ProcStates, PCs
  <2> HIDE DEF r
  <2>3. KindOK(r) /\ ReadOK(r) /\ PlaceOK(r)
    BY <2>1, <2>2 DEF KindOK, ReadOK, PlaceOK, Kind, KeyKinds, SoFar
  <2> QED BY <2>1, <2>2, <2>3, RestoreIs, GoesStep DEF Over
<1> QED BY <1>1, <1>2 DEF Planned

LEMMA PlanProfilesStep ==
    ASSUME IInv, NEW p \in Procs, PlanProfiles(p), files' = files, stale' \subseteq Procs
    PROVE  IInv'
<1>1. /\ proc[p].pc = "planProfiles" /\ proc[p].pc \notin Over \cup Busy /\ proc[p].i = 0
      /\ Kind(p) = "restore" /\ proc[p] \in ProcStates
  BY ProcIs DEF PlanProfiles, KindOK, PlaceOK, Kind, Over, Busy
<1> DEFINE read == {r \in Latest(svc.profiles) : r.name \in Elements(proc[p].cmd.profiles)}
           c == [proc[p] EXCEPT !.read = read]
<1>2. read \subseteq Revisions
  BY SvcIs DEF Latest
<1> HIDE DEF read
<1>3. /\ SoFar(p, c) /\ c.pc = "planProfiles" /\ c.read = read /\ c.known = proc[p].known
      /\ c.i = 0
  BY <1>1, <1>2 DEF SoFar, ProcStates
<1>4. \/ Move(p, Refuse(p)) \/ Move(p, Planned(p, c)) \/ Move(p, [c EXCEPT !.pc = "planTopics"])
      \/ ReadFails(p)
  BY DEF PlanProfiles, read
<1> HIDE DEF c
<1>5. CASE Move(p, Refuse(p))
  BY <1>1, <1>5, RestoreIs, RefuseStep
<1>6. CASE Move(p, Planned(p, c))
  BY <1>1, <1>2, <1>3, <1>6, RestoreIs, PlannedStep
<1>7. CASE Move(p, [c EXCEPT !.pc = "planTopics"])
  <2> DEFINE r == [c EXCEPT !.pc = "planTopics"]
  <2>1. SoFar(p, r) /\ r.pc = "planTopics" /\ r.read = c.read /\ r.known = c.known /\ r.i = 0
    BY <1>3 DEF SoFar, ProcStates, PCs
  <2> HIDE DEF r
  <2>2. KindOK(r) /\ ReadOK(r) /\ PlaceOK(r)
    BY <1>1, <1>2, <1>3, <2>1, RestoreIs DEF KindOK, ReadOK, PlaceOK, Kind, KeyKinds, SoFar
  <2> QED BY <1>1, <1>7, <2>1, <2>2, RestoreIs, GoesStep DEF Over, r
<1>8. CASE ReadFails(p)
  BY <1>1, <1>8, RestoreIs, ReadFailsStep
<1> QED BY <1>4, <1>5, <1>6, <1>7, <1>8

LEMMA PlanTopicsStep ==
    ASSUME IInv, NEW p \in Procs, PlanTopics(p), files' = files, stale' \subseteq Procs
    PROVE  IInv'
<1>1. /\ proc[p].pc = "planTopics" /\ proc[p].pc \notin Over \cup Busy /\ proc[p].i = 0
      /\ Kind(p) = "restore" /\ proc[p] \in ProcStates
  BY ProcIs DEF PlanTopics, KindOK, PlaceOK, Kind, Over, Busy
<1> DEFINE known == {t \in svc.topics : t.name \in Topics(proc[p])}
           c == [proc[p] EXCEPT !.known = known]
<1>2. known \subseteq TopicRecords
  BY SvcIs
<1>3. Move(p, Refuse(p)) \/ Move(p, Planned(p, c)) \/ ReadFails(p)
  BY DEF PlanTopics
<1> HIDE DEF known
<1>4. SoFar(p, c) /\ c.read = proc[p].read /\ c.known = known /\ c.i = 0
  BY <1>1, <1>2 DEF SoFar, ProcStates
<1> HIDE DEF c
<1>5. CASE Move(p, Refuse(p))
  BY <1>1, <1>5, RestoreIs, RefuseStep
<1>6. CASE Move(p, Planned(p, c))
  BY <1>1, <1>2, <1>4, <1>6, RestoreIs, PlannedStep
<1>7. CASE ReadFails(p)
  BY <1>1, <1>7, RestoreIs, ReadFailsStep
<1> QED BY <1>3, <1>5, <1>6, <1>7

\* A process as it is.
LEMMA SelfSoFar ==
    ASSUME IInv, NEW p \in Procs
    PROVE  SoFar(p, proc[p]) /\ proc[p].i \in Nat
  BY ProcIs DEF SoFar, ProcStates

LEMMA RecheckStep ==
    ASSUME IInv, NEW p \in Procs, Recheck(p), files' = files, stale' \subseteq Procs
    PROVE  IInv'
<1>1. proc[p].pc = "recheck" /\ proc[p].pc \notin Over /\ Kind(p) = "restore"
  BY ProcIs DEF Recheck, KindOK, Kind, Over
<1>2. CASE Move(p, Stop(p))
  BY <1>1, <1>2, RestoreIs, StopStep
<1>3. CASE Move(p, Item(proc[p], 0))
  BY <1>1, <1>3, SelfSoFar, ItemStep
<1>4. CASE ReadFails(p)
  BY <1>1, <1>4, RestoreIs, ReadFailsStep
<1> QED BY <1>2, <1>3, <1>4 DEF Recheck

\* A restore stays at its item.
LEMMA PlaceStep ==
    ASSUME IInv, NEW p \in Procs, proc[p].pc \in {"topic", "profile"},
           NEW pc, pc = IF proc[p].pc = "topic" THEN "postTopic" ELSE "writeProfile",
           Move(p, At(p, pc)), files' = files, stale' \subseteq Procs
    PROVE  IInv'
<1> DEFINE r == At(p, pc)
<1>1. pc \in {"postTopic", "writeProfile"} /\ Kind(p) = "restore" /\ proc[p].pc \notin Over
  BY ProcIs DEF KindOK, Kind, Over
<1>2. /\ SoFar(p, r) /\ r.pc = pc /\ r.read = proc[p].read /\ r.known = proc[p].known
      /\ r.i = proc[p].i
  BY <1>1, AtIs DEF SoFar, PCs
<1> HIDE DEF r
<1>3. TopicItems(r) = TopicItems(proc[p]) /\ ProfileItems(r) = ProfileItems(proc[p])
  BY <1>2 DEF TopicItems, ProfileItems, Topics, Acted, Action, SoFar
<1>4. KindOK(r) /\ ReadOK(r)
  BY <1>1, <1>2, RestoreIs DEF KindOK, ReadOK, Kind, KeyKinds, SoFar
<1>5. PlaceOK(r)
  BY <1>1, <1>2, <1>3, ProcIs DEF PlaceOK
<1> QED BY <1>1, <1>2, <1>4, <1>5, RestoreIs, GoesStep DEF Over, Busy, r

LEMMA TopicStep ==
    ASSUME IInv, NEW p \in Procs, Topic(p), files' = files, stale' \subseteq Procs
    PROVE  IInv'
<1>1. proc[p].pc = "topic" /\ proc[p].pc \notin Over /\ Kind(p) = "restore"
  BY ProcIs DEF Topic, KindOK, Kind, Over
<1>2. \/ Move(p, Stop(p)) \/ Move(p, Item(proc[p], proc[p].i)) \/ Move(p, At(p, "postTopic"))
      \/ ReadFails(p)
  BY DEF Topic
<1>3. CASE Move(p, Stop(p))
  BY <1>1, <1>3, RestoreIs, StopStep
<1>4. CASE Move(p, Item(proc[p], proc[p].i))
  BY <1>1, <1>4, SelfSoFar, ItemStep
<1>5. CASE Move(p, At(p, "postTopic"))
  BY <1>1, <1>5, PlaceStep
<1>6. CASE ReadFails(p)
  BY <1>1, <1>6, RestoreIs, ReadFailsStep
<1> QED BY <1>2, <1>3, <1>4, <1>5, <1>6

LEMMA PostTopicStep ==
    ASSUME IInv, NEW p \in Procs, PostTopic(p), files' = files, stale' \subseteq Procs
    PROVE  IInv'
<1>1. /\ proc[p].pc = "postTopic" /\ proc[p].pc \notin Over /\ Kind(p) = "restore"
      /\ Kind(p) \in ManyWrites /\ Kind(p) \notin KeyKinds
      /\ proc[p] \in ProcStates /\ proc[p].i \in TopicItems(proc[p]) /\ proc[p].i \in Nat
  BY ProcIs, RestoreIs DEF PostTopic, KindOK, Kind, Over, PlaceOK, ProcStates
<1> DEFINE t == TopicName(proc[p])
           e == <<"makeTopic", t>>
           made == [id |-> svc.next, name |-> t, def |-> SourceTopic[t]]
           m == [by |-> p, effect |-> e, def |-> SourceTopic[t]]
           known == proc[p].known \cup {made}
           k == [proc[p] EXCEPT !.known = known]
           then == [a \in Answers |->
                     IF a = "ok" THEN Item(Written(k, e), proc[p].i) ELSE WriteFailed(p, a, e)]
<1>2. CASE Move(p, Interrupt(p))
  BY <1>1, <1>2, StopStep
<1>3. CASE Send(p, m, proc[p].pc, then)
  <2>1. t \in TopicNames /\ SourceTopic[t] \in Contents
    BY <1>1, RestoreIs, ItemsAre, RuntimeAssumption DEF TopicName
  <2> HIDE DEF t
  <2>2. WriteOK(m) /\ m.by = p /\ m.effect = e /\ e \in Effects
    BY <2>1 DEF WriteOK, Op, Target, Effects
  <2>3. Takes(svc, m) => made \in TopicRecords
    <3> SUFFICES ASSUME Takes(svc, m) PROVE made \in TopicRecords
      OBVIOUS
    <3>1. Op(m) = "makeTopic"
      BY DEF Op
    <3>2. svc.next <= MaxId
      BY <3>1 DEF Takes
    <3>3. svc.next \in Ids
      BY <3>2, SvcIs DEF Ids
    <3> QED BY <2>1, <3>3 DEF TopicRecords
  <2> HIDE DEF e, made, m
  <2>4. /\ did[p] \subseteq Effects /\ doubt[p] = {} /\ proc[p].context = Claim(did[p], {})
        /\ proc[p].result = NoResult /\ proc[p].report = NoResult /\ ~proc[p].committed
    BY <1>1, ProcIs DEF Ledger
  <2>5. ASSUME Takes(svc, m)
        PROVE  StepOK(p, Item(Written(k, e), proc[p].i), did[p] \cup {e}, {})
    <3> DEFINE context == [proc[p].context EXCEPT ![e] = "yes"]
               c == [k EXCEPT !.context = context]
    <3>1. context = Claim(did[p] \cup {e}, {})
      <4>1. e \in Effects
        BY <2>2
      <4>2. [Claim(did[p], {}) EXCEPT ![e] = "yes"] = Claim(did[p] \cup {e}, {})
        BY <4>1, Marked
      <4> QED BY <2>4, <4>2
    <3>2. context \in Claims
      BY <3>1, ClaimFacts
    <3>3. known \subseteq TopicRecords
      BY <1>1, <2>3, <2>5, RestoreIs
    <3> HIDE DEF known
    <3>4. /\ k \in ProcStates /\ k.cmd = proc[p].cmd /\ k.context = proc[p].context
          /\ k.read = proc[p].read /\ k.known = known /\ k.committed = proc[p].committed
          /\ k.result = proc[p].result /\ k.report = proc[p].report
      BY <1>1, <3>3 DEF ProcStates
    <3>5. Written(k, e) = c
      BY <3>4 DEF Written
    <3> HIDE DEF k, context
    <3>6. /\ c \in ProcStates /\ c.cmd = proc[p].cmd /\ c.context = context
          /\ c.read = proc[p].read /\ c.known = known /\ c.committed = proc[p].committed
          /\ c.result = proc[p].result /\ c.report = proc[p].report
      BY <3>2, <3>4 DEF ProcStates
    <3> HIDE DEF c
    <3>7. /\ c.cmd.kind = "restore" /\ IsRestore(c.cmd) /\ did[p] \cup {e} \subseteq Effects
          /\ c.read \subseteq Revisions /\ c.known \subseteq TopicRecords
      BY <1>1, <2>2, <2>4, <3>3, <3>6, RestoreIs DEF Kind
    <3>8. ProcOK(Item(c, proc[p].i), did[p] \cup {e}, {}) /\ Item(c, proc[p].i).cmd = c.cmd
      BY <1>1, <2>4, <3>1, <3>6, <3>7, ItemOK
    <3> QED BY <3>5, <3>6, <3>8 DEF StepOK
  <2> HIDE DEF k
  <2>6. Had(p, "ok", e) = did[p] \cup {e} /\ Open(p, "ok", e) = {}
    BY <1>1, OkIs
  <2>7. ASSUME NEW a \in Answers, a \in Carried => Takes(svc, m)
        PROVE  StepOK(p, then[a], Had(p, a, e), Open(p, a, e))
    <3>1. CASE a = "ok"
      BY <2>5, <2>6, <2>7, <3>1 DEF Carried
    <3>2. CASE a # "ok"
      <4>1. then[a] = WriteFailed(p, a, e)
        BY <3>2
      <4> QED BY <1>1, <2>2, <3>2, <4>1, WriteFailedOK
    <3> QED BY <3>1, <3>2
  <2> HIDE DEF then
  <2> QED BY <1>1, <1>3, <2>2, <2>7, PlainSend
<1> QED BY <1>1, <1>2, <1>3 DEF PostTopic

LEMMA ProfileStep ==
    ASSUME IInv, NEW p \in Procs, Profile(p), files' = files, stale' \subseteq Procs
    PROVE  IInv'
<1>1. proc[p].pc = "profile" /\ proc[p].pc \notin Over /\ Kind(p) = "restore"
  BY ProcIs DEF Profile, KindOK, Kind, Over
<1>2. \/ Move(p, Stop(p)) \/ Move(p, Item(proc[p], proc[p].i)) \/ Move(p, At(p, "writeProfile"))
      \/ ReadFails(p)
  BY DEF Profile
<1>3. CASE Move(p, Stop(p))
  BY <1>1, <1>3, RestoreIs, StopStep
<1>4. CASE Move(p, Item(proc[p], proc[p].i))
  BY <1>1, <1>4, SelfSoFar, ItemStep
<1>5. CASE Move(p, At(p, "writeProfile"))
  BY <1>1, <1>5, PlaceStep
<1>6. CASE ReadFails(p)
  BY <1>1, <1>6, RestoreIs, ReadFailsStep
<1> QED BY <1>2, <1>3, <1>4, <1>5, <1>6

\* The write of a profile.
LEMMA ProfileWriteIs ==
    ASSUME IInv, NEW p \in Procs, proc[p].pc = "writeProfile"
    PROVE  LET m == ProfileWrite(p)
               n == ProfileName(proc[p])
           IN  /\ WriteOK(m) /\ m.by = p /\ m.policy = Mapped(proc[p], n)
               /\ \/ m.effect = <<"makeProfile", n>>
                  \/ m.effect = <<"putProfile", n>> /\ m.id \in Ids
                     /\ \E x \in Named(proc[p].read, n) : m.id = x.id
<1> DEFINE n == ProfileName(proc[p])
           policy == Mapped(proc[p], n)
<1>1. Kind(p) = "restore" /\ proc[p].i \in ProfileItems(proc[p])
  BY ProcIs DEF KindOK, Kind, PlaceOK
<1>2. n \in DOMAIN SourcePolicy
  BY <1>1, RestoreIs, ItemsAre DEF ProfileName
<1> HIDE DEF n
<1>3. n \in ProfileNames /\ SourcePolicy[n].rest \in Contents
  BY <1>2, RuntimeAssumption
<1>4. policy \in Policies
  BY <1>1, <1>3, RestoreIs DEF Mapped, Policies, TopicRecords
<1> HIDE DEF policy
<1>5. CASE Action(proc[p], n) = "create"
  <2>1. ProfileWrite(p) = [by |-> p, effect |-> <<"makeProfile", n>>, policy |-> policy]
    BY <1>5 DEF ProfileWrite, n, policy
  <2> QED BY <1>3, <1>4, <2>1 DEF WriteOK, Op, Target, Effects, n, policy
<1>6. CASE Action(proc[p], n) # "create"
  <2> DEFINE x == CHOOSE r \in Named(proc[p].read, n) : TRUE
  <2>1. ProfileWrite(p) = [by |-> p, effect |-> <<"putProfile", n>>, policy |-> policy, id |-> x.id]
    BY <1>6 DEF ProfileWrite, n, policy
  <2>2. Named(proc[p].read, n) # {}
    BY <1>6 DEF Action
  <2>3. x \in Named(proc[p].read, n) /\ x.id \in Ids
    BY <1>1, <2>2, RestoreIs DEF Named, Revisions
  <2> HIDE DEF x
  <2> QED BY <1>3, <1>4, <2>1, <2>3 DEF WriteOK, Op, Target, Effects, n, policy
<1> QED BY <1>5, <1>6

\* A write of a restore that is answered, and read back next.
LEMMA WrittenOK ==
    ASSUME IInv, NEW p \in Procs, proc[p].pc \in {"writeProfile", "createDlp", "copyDlp"},
           NEW pc, pc = IF proc[p].pc = "writeProfile" THEN "verifyProfile" ELSE "verifyDlp",
           NEW e \in Effects, NEW id \in Ids
    PROVE  StepOK(p, Written([At(p, pc) EXCEPT !.id = id], e), Had(p, "ok", e), Open(p, "ok", e))
<1> DEFINE t == At(p, pc)
           k == [t EXCEPT !.id = id]
           d == did[p] \cup {e}
           context == [proc[p].context EXCEPT ![e] = "yes"]
           r == [k EXCEPT !.context = context]
<1>1. /\ pc \in {"verifyProfile", "verifyDlp"} /\ proc[p].pc \notin Over
      /\ did[p] \subseteq Effects /\ proc[p].context = Claim(did[p], {})
      /\ proc[p].result = NoResult /\ proc[p].report = NoResult /\ ~proc[p].committed
      /\ pc = "verifyProfile" => Kind(p) = "restore" /\ proc[p].i \in ProfileItems(proc[p])
      /\ pc = "verifyDlp" => Kind(p) = "dlpRestore" /\ proc[p].i \in DlpItems(proc[p])
  BY ProcIs DEF KindOK, Kind, PlaceOK, Ledger, Over
<1>2. Had(p, "ok", e) = d /\ Open(p, "ok", e) = {} /\ d \subseteq Effects
  BY <1>1, OkIs
<1>3. context = Claim(d, {}) /\ context \in Claims
  <2>1. [Claim(did[p], {}) EXCEPT ![e] = "yes"] = Claim(d, {})
    BY Marked
  <2> QED BY <1>1, <2>1, ClaimFacts
<1>4. /\ t \in ProcStates /\ t.pc = pc /\ t.cmd = proc[p].cmd /\ t.context = proc[p].context
      /\ t.committed = proc[p].committed /\ t.result = proc[p].result
      /\ t.report = proc[p].report /\ t.read = proc[p].read /\ t.known = proc[p].known
      /\ t.i = proc[p].i
  BY <1>1, AtIs DEF PCs
<1> HIDE DEF t, d
<1>5. /\ k \in ProcStates /\ k.pc = pc /\ k.cmd = proc[p].cmd /\ k.context = proc[p].context
      /\ k.committed = proc[p].committed /\ k.result = proc[p].result
      /\ k.report = proc[p].report /\ k.read = proc[p].read /\ k.known = proc[p].known
      /\ k.i = proc[p].i
  BY <1>4 DEF ProcStates
<1> HIDE DEF k
<1>6. Written(k, e) = r
  BY <1>5 DEF Written
<1> HIDE DEF context
<1>7. /\ r \in ProcStates /\ r.pc = pc /\ r.cmd = proc[p].cmd /\ r.context = context
      /\ r.committed = proc[p].committed /\ r.result = proc[p].result
      /\ r.report = proc[p].report /\ r.read = proc[p].read /\ r.known = proc[p].known
      /\ r.i = proc[p].i
  BY <1>3, <1>5 DEF ProcStates
<1> HIDE DEF r
<1>8. ProfileItems(r) = ProfileItems(proc[p]) /\ DlpItems(r) = DlpItems(proc[p])
  BY <1>7 DEF ProfileItems, Acted, Action, DlpItems, DlpSequence, DlpCreates, DlpRows,
     Unresolved, DlpAction, Existing, RowName
<1>9. KindOK(r) /\ PlaceOK(r)
  BY <1>1, <1>7, <1>8 DEF KindOK, PlaceOK, Kind
<1>10. ReadOK(r)
  BY <1>1, <1>7, ProcIs DEF ReadOK, Kind, KeyKinds
<1>11. Ledger(r, d, {})
  BY <1>1, <1>2, <1>3, <1>7 DEF Ledger, Over, Busy
<1> QED BY <1>2, <1>6, <1>7, <1>9, <1>10, <1>11 DEF StepOK, ProcOK, k, t

LEMMA WriteProfileStep ==
    ASSUME IInv, NEW p \in Procs, WriteProfile(p), files' = files, stale' \subseteq Procs
    PROVE  IInv'
<1> DEFINE m == ProfileWrite(p)
           id == IF Op(m) = "putProfile" /\ svc.keepsId THEN m.id ELSE svc.next
           then == [a \in Answers |->
                     IF a = "ok" THEN Written([At(p, "verifyProfile") EXCEPT !.id = id], m.effect)
                     ELSE WriteFailed(p, a, m.effect)]
<1>1. /\ proc[p].pc = "writeProfile" /\ proc[p].pc \notin Over
      /\ Kind(p) \in ManyWrites /\ Kind(p) \notin KeyKinds
  BY ProcIs DEF WriteProfile, KindOK, Kind, Over, ManyWrites, KeyKinds
<1>2. CASE Move(p, Interrupt(p))
  BY <1>1, <1>2, StopStep
<1>3. CASE Send(p, m, proc[p].pc, then)
  <2>1. /\ WriteOK(m) /\ m.by = p /\ m.effect \in Effects
        /\ Op(m) \in {"makeProfile", "putProfile"} /\ (Op(m) = "putProfile" => m.id \in Ids)
    BY <1>1, ProfileWriteIs DEF WriteOK, Op
  <2>2. Takes(svc, m) => id \in Ids
    <3> SUFFICES ASSUME Takes(svc, m) PROVE id \in Ids
      OBVIOUS
    <3>1. (Op(m) = "putProfile" /\ svc.keepsId) \/ svc.next <= MaxId
      BY <2>1 DEF Takes
    <3> QED BY <2>1, <3>1, SvcIs DEF Ids
  <2> HIDE DEF m, id
  <2>3. ASSUME NEW a \in Answers, a \in Carried => Takes(svc, m)
        PROVE  StepOK(p, then[a], Had(p, a, m.effect), Open(p, a, m.effect))
    <3>1. CASE a = "ok"
      BY <1>1, <2>1, <2>2, <2>3, <3>1, WrittenOK DEF Carried
    <3>2. CASE a # "ok"
      <4>1. then[a] = WriteFailed(p, a, m.effect)
        BY <3>2
      <4> QED BY <1>1, <2>1, <3>2, <4>1, WriteFailedOK
    <3> QED BY <3>1, <3>2
  <2> HIDE DEF then
  <2> QED BY <1>1, <1>3, <2>1, <2>3, PlainSend
<1> QED BY <1>1, <1>2, <1>3 DEF WriteProfile

LEMMA VerifyProfileStep ==
    ASSUME IInv, NEW p \in Procs, VerifyProfile(p), files' = files, stale' \subseteq Procs
    PROVE  IInv'
<1>1. /\ proc[p].pc = "verifyProfile" /\ proc[p].pc \notin Over /\ Kind(p) = "restore"
      /\ proc[p] \in ProcStates
  BY ProcIs DEF VerifyProfile, KindOK, Kind, Over
<1> DEFINE c == [proc[p] EXCEPT !.id = 0]
<1>2. Move(p, Stop(p)) \/ Move(p, Item(c, proc[p].i)) \/ ReadFails(p)
  <2>1. c.i = proc[p].i
    BY <1>1 DEF ProcStates
  <2> QED BY <2>1 DEF VerifyProfile
<1>3. SoFar(p, c) /\ c.read = proc[p].read /\ c.known = proc[p].known /\ proc[p].i \in Nat
  BY <1>1 DEF SoFar, ProcStates
<1> HIDE DEF c
<1>4. CASE Move(p, Stop(p))
  BY <1>1, <1>4, RestoreIs, StopStep
<1>5. CASE Move(p, Item(c, proc[p].i))
  BY <1>1, <1>3, <1>5, ItemStep
<1>6. CASE ReadFails(p)
  BY <1>1, <1>6, RestoreIs, ReadFailsStep
<1> QED BY <1>2, <1>4, <1>5, <1>6

-----------------------------------------------------------------------------
(* The restore of DLP resources *)

LEMMA DlpIs ==
    ASSUME IInv, NEW p \in Procs, Kind(p) = "dlpRestore"
    PROVE  /\ IsDlpRestore(proc[p].cmd) /\ Kind(p) \in ManyWrites /\ Kind(p) \notin KeyKinds
           /\ proc[p].read \subseteq DlpRecords /\ proc[p].known \subseteq DlpRecords
           /\ proc[p] \in ProcStates /\ proc[p].i \in Nat
  BY ProcIs DEF CmdOK, Kind, ReadOK, ManyWrites, KeyKinds, ProcStates

\* The places of the rows.
LEMMA RowsAre ==
    ASSUME NEW c, IsDlpRestore(c.cmd)
    PROVE  /\ DlpItems(c) \subseteq Nat
           /\ \A j \in DlpItems(c) : DlpSequence(c)[j] \in DOMAIN SourceDlp
<1> DEFINE sources == DOMAIN SourceDlp
           rows == c.cmd.deps \o c.cmd.profiles
<1>1. c.cmd.deps \in Seq(sources) /\ c.cmd.profiles \in Seq(sources)
  BY DEF IsDlpRestore
<1>2. rows \in Seq(sources)
  BY <1>1
<1> HIDE DEF rows, sources
<1>3. DOMAIN rows \subseteq Nat /\ \A j \in DOMAIN rows : rows[j] \in sources
  BY <1>2
<1> QED BY <1>3 DEF DlpItems, DlpSequence, rows, sources

\* On to the next row.
LEMMA DlpItemOK ==
    ASSUME NEW c \in ProcStates, c.cmd.kind = "dlpRestore", IsDlpRestore(c.cmd),
           c.read \subseteq DlpRecords, c.known \subseteq DlpRecords,
           NEW d, d \subseteq Effects, c.context = Claim(d, {}),
           c.result = NoResult, c.report = NoResult, ~c.committed, NEW i \in Nat
    PROVE  ProcOK(DlpItem(c, i), d, {}) /\ DlpItem(c, i).cmd = c.cmd
<1> DEFINE later == {j \in DlpItems(c) : j > i}
           j == First(later)
           r == [c EXCEPT !.i = j, !.id = 0, !.replayed = FALSE, !.pc = "createDlp"]
           t == [c EXCEPT !.id = 0, !.replayed = FALSE, !.pc = "exit", !.result = Ok(c.context)]
<1>1. DlpItem(c, i) = IF later = {} THEN t ELSE r
  BY DEF DlpItem
<1>2. c.context \in Claims /\ True(c.context, d, {})
  BY ClaimFacts, ClaimTrue
<1>3. later \in SUBSET Nat
  BY RowsAre
<1>4. CASE later = {}
  <2>1. Ok(c.context) \in Results /\ Ok(c.context).says = c.context
    BY <1>2, ResultType
  <2>2. /\ t \in ProcStates /\ t.pc = "exit" /\ t.cmd = c.cmd /\ t.context = c.context
        /\ t.committed = c.committed /\ t.result = Ok(c.context) /\ t.report = NoResult
        /\ t.read = c.read /\ t.known = c.known
    BY <2>1 DEF ProcStates, PCs
  <2> HIDE DEF t
  <2>3. ReadOK(t)
    BY <2>2 DEF ReadOK, KeyKinds
  <2>4. ProcOK(t, d, {})
    BY <1>2, <2>1, <2>2, <2>3, OverOK
  <2> QED BY <1>1, <1>4, <2>2, <2>4
<1>5. CASE later # {}
  <2>1. j \in later /\ j \in Nat /\ j \in DlpItems(c)
    BY <1>3, <1>5, FirstIs
  <2> HIDE DEF j, later
  <2>2. /\ r \in ProcStates /\ r.pc = "createDlp" /\ r.cmd = c.cmd /\ r.context = c.context
        /\ r.committed = c.committed /\ r.result = NoResult /\ r.report = NoResult
        /\ r.read = c.read /\ r.known = c.known /\ r.i = j
    BY <2>1 DEF ProcStates, PCs
  <2> HIDE DEF r
  <2>3. DlpItems(r) = DlpItems(c)
    BY <2>2 DEF DlpItems, DlpSequence, DlpCreates, DlpRows, Unresolved, DlpAction, Existing,
       RowName
  <2>4. KindOK(r) /\ ReadOK(r) /\ PlaceOK(r)
    BY <2>1, <2>2, <2>3 DEF KindOK, ReadOK, PlaceOK, KeyKinds
  <2>5. Ledger(r, d, {})
    BY <2>2 DEF Ledger, Over, Busy
  <2> QED BY <1>1, <1>5, <2>2, <2>4, <2>5 DEF ProcOK
<1> QED BY <1>4, <1>5

LEMMA DlpItemStep ==
    ASSUME IInv, NEW p \in Procs, proc[p].pc \notin Over, Kind(p) = "dlpRestore",
           NEW c, SoFar(p, c), c.read = proc[p].read, c.known \subseteq DlpRecords,
           NEW i \in Nat, Move(p, DlpItem(c, i)), files' = files, stale' \subseteq Procs
    PROVE  IInv'
<1> DEFINE r == DlpItem(c, i)
<1>1. /\ did[p] \subseteq Effects /\ doubt[p] = {} /\ c.context = Claim(did[p], {})
      /\ c.result = NoResult /\ c.report = NoResult /\ ~c.committed
  BY ProcIs DEF Ledger, SoFar
<1>2. ProcOK(r, did[p], {}) /\ r.cmd = c.cmd
  BY <1>1, DlpIs, DlpItemOK DEF SoFar, Kind
<1>3. StepOK(p, r, did[p], doubt[p])
  BY <1>1, <1>2 DEF StepOK, SoFar
<1>4. KeyOK(p, r, files)
  BY <1>3, DlpIs, NoKey DEF StepOK
<1> QED BY <1>3, <1>4, MoveStep

LEMMA SweepDlpStep ==
    ASSUME IInv, NEW p \in Procs, SweepDlp(p), files' = files, stale' \subseteq Procs
    PROVE  IInv'
<1>1. /\ proc[p].pc \in {"planDlp", "recheckDlp"} /\ proc[p].pc \notin Over \cup Busy
      /\ Kind(p) = "dlpRestore"
  BY ProcIs DEF SweepDlp, KindOK, Kind, Over, Busy
<1> DEFINE known == proc[p].known \cup {o \in svc.dlp : DlpKind[o.name] = DlpKinds[proc[p].i + 1]}
           i == proc[p].i + 1
           c == [proc[p] EXCEPT !.known = known, !.i = i]
           plan == [c EXCEPT !.read = c.known, !.known = {}, !.i = 0]
           again == [c EXCEPT !.known = {}]
<1>2. \/ ReadFails(p)
      \/ Move(p, IF c.i < Len(DlpKinds) THEN c
                 ELSE IF c.pc = "planDlp" THEN DlpPlanned(p, plan)
                 ELSE Rechecked(p, c))
  BY DEF SweepDlp
<1>3. known \subseteq DlpRecords /\ i \in Nat
  BY <1>1, DlpIs, SvcIs
<1> HIDE DEF known, i
<1>4. /\ SoFar(p, c) /\ c.pc = proc[p].pc /\ c.read = proc[p].read /\ c.known = known
      /\ c.i = i
  BY <1>1, <1>3, DlpIs DEF SoFar, ProcStates
<1> HIDE DEF c
<1>5. CASE Move(p, c) /\ c.i < Len(DlpKinds)
  <2>1. KindOK(c) /\ ReadOK(c)
    BY <1>1, <1>3, <1>4, DlpIs DEF KindOK, ReadOK, Kind, KeyKinds, SoFar
  <2>2. PlaceOK(c)
    BY <1>1, <1>4, <1>5 DEF PlaceOK
  <2> QED BY <1>1, <1>4, <1>5, <2>1, <2>2, DlpIs, GoesStep DEF Over, Busy
<1>6. CASE Move(p, DlpPlanned(p, plan))
  <2>1. /\ SoFar(p, plan) /\ plan.read = known /\ plan.known = {} /\ plan.i = 0
    BY <1>3, <1>4 DEF SoFar, ProcStates
  <2> HIDE DEF plan
  <2>2. CASE Move(p, Refuse(p))
    BY <1>1, <2>2, DlpIs, RefuseStep
  <2>3. CASE ~DlpRefused(plan)
    <3> DEFINE pc == IF DlpCreates(plan) # {} /\ ~plan.cmd.force THEN "ask" ELSE "recheckDlp"
               r == [plan EXCEPT !.pc = pc]
    <3>1. pc \in {"ask", "recheckDlp"} /\ Move(p, r)
      BY <1>6, <2>3 DEF DlpPlanned
    <3> HIDE DEF pc
    <3>2. SoFar(p, r) /\ r.pc = pc /\ r.read = known /\ r.known = {} /\ r.i = 0
      BY <2>1, <3>1 DEF SoFar, ProcStates, PCs
    <3> HIDE DEF r
    <3>3. KindOK(r) /\ ReadOK(r)
      BY <1>1, <1>3, <3>1, <3>2 DEF KindOK, ReadOK, Kind, KeyKinds, SoFar
    <3>4. PlaceOK(r)
      BY <3>1, <3>2 DEF PlaceOK, DlpKinds
    <3> QED BY <1>1, <3>1, <3>2, <3>3, <3>4, DlpIs, GoesStep DEF Over
  <2> QED BY <1>6, <2>2, <2>3 DEF DlpPlanned
<1>7. CASE Move(p, Rechecked(p, c))
  <2>1. SoFar(p, again) /\ again.read = proc[p].read /\ again.known = {}
    BY <1>4 DEF SoFar, ProcStates
  <2>2. Move(p, Stop(p)) \/ Move(p, DlpItem(again, 0))
    BY <1>7 DEF Rechecked
  <2> HIDE DEF again
  <2>3. CASE Move(p, Stop(p))
    BY <1>1, <2>3, DlpIs, StopStep
  <2>4. CASE Move(p, DlpItem(again, 0))
    BY <1>1, <2>1, <2>4, DlpItemStep
  <2> QED BY <2>2, <2>3, <2>4
<1>8. CASE ReadFails(p)
  BY <1>1, <1>8, DlpIs, ReadFailsStep
<1> QED BY <1>2, <1>5, <1>6, <1>7, <1>8

LEMMA CreateDlpStep ==
    ASSUME IInv, NEW p \in Procs, CreateDlp(p), files' = files, stale' \subseteq Procs
    PROVE  IInv'
<1>1. /\ proc[p].pc \in {"createDlp", "copyDlp"} /\ proc[p].pc \notin Over
      /\ Kind(p) = "dlpRestore" /\ proc[p].i \in DlpItems(proc[p])
      /\ proc[p].pc = "copyDlp" => DlpKind[DlpName(proc[p])] = "profile"
  BY ProcIs DEF CreateDlp, KindOK, Kind, PlaceOK, Over
<1>2. Kind(p) \in ManyWrites /\ Kind(p) \notin KeyKinds
  BY <1>1, DlpIs
<1> DEFINE n == DlpName(proc[p])
           name == IF proc[p].pc = "copyDlp" THEN Suffixed[n] ELSE n
           body == DlpBody(proc[p], n)
           m == [by |-> p, effect |-> <<"makeDlp", name>>, refs |-> body.refs,
                 body |-> body.body]
           then(conflict) ==
             [a \in Answers |->
               IF a = "ok"
               THEN Written([At(p, "verifyDlp") EXCEPT !.id = svc.next], m.effect)
               ELSE IF /\ a = "rejected" /\ conflict /\ proc[p].pc = "createDlp"
                       /\ DlpKind[n] = "profile" /\ proc[p].cmd.conflict = "reconcile"
               THEN At(p, "copyDlp")
               ELSE WriteFailed(p, a, m.effect)]
<1>3. n \in DOMAIN SourceDlp
  BY <1>1, DlpIs, RowsAre DEF DlpName
<1>4. CASE Move(p, Interrupt(p))
  BY <1>1, <1>2, <1>4, StopStep
<1>5. ASSUME NEW conflict, Send(p, m, proc[p].pc, then(conflict))
      PROVE  IInv'
  <2>1. name \in DlpNames
    BY <1>1, <1>3, RuntimeAssumption
  <2>2. body.refs \subseteq Ids /\ body.body \in Contents
    BY <1>1, <1>3, DlpIs, RuntimeAssumption DEF DlpBody, DlpRecords
  <2> HIDE DEF name, body
  <2>3. /\ WriteOK(m) /\ m.by = p /\ m.effect = <<"makeDlp", name>> /\ Op(m) = "makeDlp"
        /\ m.effect \in Effects
    BY <2>1, <2>2 DEF WriteOK, Op, Target, Effects
  <2> HIDE DEF m
  <2>4. Takes(svc, m) => svc.next \in Ids
    <3> SUFFICES ASSUME Takes(svc, m) PROVE svc.next \in Ids
      OBVIOUS
    <3>1. svc.next <= MaxId
      BY <2>3 DEF Takes
    <3> QED BY <3>1, SvcIs DEF Ids
  <2>5. CASE DlpKind[n] = "profile" /\ proc[p].pc = "createDlp"
    <3> DEFINE r == At(p, "copyDlp")
    <3>1. /\ SoFar(p, r) /\ r.pc = "copyDlp" /\ r.read = proc[p].read
          /\ r.known = proc[p].known /\ r.i = proc[p].i
      BY AtIs DEF SoFar, PCs
    <3> HIDE DEF r
    <3>2. DlpItems(r) = DlpItems(proc[p]) /\ DlpName(r) = n
      BY <3>1 DEF SoFar, DlpItems, DlpSequence, DlpName, DlpCreates, DlpRows, Unresolved,
         DlpAction, Existing, RowName
    <3>3. KindOK(r) /\ ReadOK(r)
      BY <1>1, <3>1, DlpIs DEF KindOK, ReadOK, Kind, KeyKinds, SoFar
    <3>4. PlaceOK(r)
      BY <1>1, <2>5, <3>1, <3>2 DEF PlaceOK
    <3>5. StepOK(p, At(p, "copyDlp"), did[p], doubt[p])
      BY <1>1, <3>1, <3>3, <3>4, GoOnOK DEF SoFar, Over, Busy, r
    <3>6. Had(p, "rejected", m.effect) = did[p] /\ Open(p, "rejected", m.effect) = doubt[p]
      BY DEF Had, Open, Carried, InDoubt
    <3>7. ASSUME NEW a \in Answers, a \in Carried => Takes(svc, m)
          PROVE  StepOK(p, then(conflict)[a], Had(p, a, m.effect), Open(p, a, m.effect))
      <4>1. CASE a = "ok"
        BY <1>1, <2>3, <2>4, <3>7, <4>1, WrittenOK DEF Carried
      <4>2. CASE a # "ok" /\ then(conflict)[a] = WriteFailed(p, a, m.effect)
        BY <1>1, <1>2, <2>3, <4>2, WriteFailedOK
      <4>3. CASE a = "rejected" /\ then(conflict)[a] = At(p, "copyDlp")
        BY <3>5, <3>6, <4>3
      <4> QED BY <4>1, <4>2, <4>3
    <3> HIDE DEF then
    <3> QED BY <1>1, <1>2, <1>5, <2>3, <3>7, PlainSend
  <2>6. CASE ~(DlpKind[n] = "profile" /\ proc[p].pc = "createDlp")
    <3>1. ASSUME NEW a \in Answers, a \in Carried => Takes(svc, m)
          PROVE  StepOK(p, then(conflict)[a], Had(p, a, m.effect), Open(p, a, m.effect))
      <4>1. CASE a = "ok"
        BY <1>1, <2>3, <2>4, <3>1, <4>1, WrittenOK DEF Carried
      <4>2. CASE a # "ok"
        <5>1. then(conflict)[a] = WriteFailed(p, a, m.effect)
          BY <2>6, <4>2
        <5> QED BY <1>1, <1>2, <2>3, <4>2, <5>1, WriteFailedOK
      <4> QED BY <4>1, <4>2
    <3> HIDE DEF then
    <3> QED BY <1>1, <1>2, <1>5, <2>3, <3>1, PlainSend
  <2> QED BY <2>5, <2>6
<1>6. Move(p, Interrupt(p)) \/ \E conflict \in {FALSE, Taken(svc, name)} :
                                 Send(p, m, proc[p].pc, then(conflict))
  BY DEF CreateDlp
<1> QED BY <1>4, <1>5, <1>6

LEMMA VerifyDlpStep ==
    ASSUME IInv, NEW p \in Procs, VerifyDlp(p), files' = files, stale' \subseteq Procs
    PROVE  IInv'
<1>1. proc[p].pc = "verifyDlp" /\ proc[p].pc \notin Over /\ Kind(p) = "dlpRestore"
  BY ProcIs DEF VerifyDlp, KindOK, Kind, Over
<1> DEFINE back == {o \in svc.dlp : /\ o.id = proc[p].id /\ ~o.retired
                                    /\ Echoes(o, DlpBody(proc[p], DlpName(proc[p])))}
           known == proc[p].known \cup back
           c == [proc[p] EXCEPT !.known = known]
<1>2. Move(p, Stop(p)) \/ Move(p, DlpItem(c, proc[p].i)) \/ ReadFails(p)
  <2>1. c.i = proc[p].i
    BY <1>1, DlpIs DEF ProcStates
  <2> QED BY <2>1 DEF VerifyDlp
<1>3. known \subseteq DlpRecords
  BY <1>1, DlpIs, SvcIs
<1> HIDE DEF known
<1>4. SoFar(p, c) /\ c.read = proc[p].read /\ c.known = known
  BY <1>1, <1>3, DlpIs DEF SoFar, ProcStates
<1> HIDE DEF c
<1>5. CASE Move(p, Stop(p))
  BY <1>1, <1>5, DlpIs, StopStep
<1>6. CASE Move(p, DlpItem(c, proc[p].i))
  BY <1>1, <1>3, <1>4, <1>6, DlpIs, DlpItemStep
<1>7. CASE ReadFails(p)
  BY <1>1, <1>7, DlpIs, ReadFailsStep
<1> QED BY <1>2, <1>5, <1>6, <1>7

-----------------------------------------------------------------------------
(* The theorems *)

LEMMA InitInv == Init => IInv
<1> SUFFICES ASSUME Init PROVE IInv
  OBVIOUS
<1>1. PICK s \in Starts : svc = s.svc /\ proc = [p \in Procs |-> NewProc(s.plan[p])]
  BY DEF Init
<1>2. IsService(svc)
  BY <1>1, RuntimeAssumption
<1>3. NothingChanged \in Claims /\ NoResult \in Results
  BY NothingIs, ResultType
<1>4. ASSUME NEW p \in Procs
      PROVE  /\ proc[p] \in ProcStates /\ proc[p].pc = "start" /\ proc[p].i = 0
             /\ proc[p].context = Claim({}, {}) /\ ~proc[p].committed
             /\ proc[p].result = NoResult /\ proc[p].report = NoResult
             /\ proc[p].read = {} /\ proc[p].known = {} /\ proc[p].id = 0
  <2>1. proc[p] = NewProc(s.plan[p]) /\ s.plan[p] \in Cmds
    BY <1>1 DEF Cmds
  <2> QED BY <1>3, <2>1 DEF NewProc, ProcStates, PCs, NothingChanged
<1>5. files \in FileStates /\ files.temps = {}
  BY RuntimeAssumption DEF Init, NoFiles, FileStates
<1>6. Typed
  BY <1>1, <1>2, <1>4, <1>5 DEF Init, Typed
<1>7. WireOK
  BY DEF Init, WireOK
<1>8. ASSUME NEW p \in Procs PROVE ProcOK(proc[p], {}, {})
  <2>1. KindOK(proc[p]) /\ ReadOK(proc[p]) /\ PlaceOK(proc[p])
    BY <1>4 DEF KindOK, ReadOK, PlaceOK
  <2>2. Ledger(proc[p], {}, {})
    BY <1>4 DEF Ledger, Over
  <2> QED BY <1>4, <2>1, <2>2 DEF ProcOK
<1>9. ProcsOK
  BY <1>8 DEF ProcsOK, Init
<1>10. FilesOK
  BY <1>4, <1>5 DEF FilesOK, KeyOK, Over, NoTemp
<1> QED BY <1>6, <1>7, <1>9, <1>10 DEF IInv

LEMMA StepInv ==
    ASSUME IInv, Next PROVE IInv'
<1>1. stale' \subseteq Procs
  BY DEF Next, Observe
<1>2. ASSUME NEW p \in Procs, Step(p), files' = files PROVE IInv'
  BY <1>1, <1>2, StartStep, ConnectStep, ConfirmStep, FindTopicStep, FindProfileStep,
     WriteEditStep, DropTopicStep, ListStep, ListAgainStep, DeleteOneStep, PlanProfilesStep,
     PlanTopicsStep, RecheckStep, TopicStep, PostTopicStep, ProfileStep, WriteProfileStep,
     VerifyProfileStep, GuardDlpStep, EditDlpStep, SweepDlpStep, CreateDlpStep, VerifyDlpStep,
     ReportStep, SignalStep DEF Step
<1>3. ASSUME NEW p \in Procs, KeyStep(p) PROVE IInv'
  BY <1>1, <1>3, CheckKeyFileStep, ReserveKeyStep, WriteKeyStep, SaveKeyStep DEF KeyStep
<1>4. ASSUME NEW m \in wire, Arrive(m), files' = files PROVE IInv'
  BY <1>1, <1>4, ArriveStep
<1> QED BY <1>2, <1>3, <1>4 DEF Next

\* The inductive invariant.
LEMMA Inductive == Spec => []IInv
<1>1. ASSUME IInv, UNCHANGED vars PROVE IInv'
  <2>1. Typed'
    BY <1>1 DEF vars, IInv, Typed
  <2>2. WireOK' /\ ProcsOK' /\ FilesOK'
    BY <1>1 DEF vars, IInv, WireOK, ProcsOK, FilesOK
  <2> QED BY <2>1, <2>2 DEF IInv
<1> QED BY <1>1, InitInv, StepInv, PTL DEF Spec

\* RuntimeAdmin.TypeOK: the service, the writes on their way, the commands and
\* the files have their types, and a restore is always at an item of its plan.
THEOREM TypeCorrect == Spec => []TypeOK
<1>1. ASSUME IInv PROVE TypeOK
  <2>1. /\ IsService(svc) /\ signal \subseteq Procs /\ stale \subseteq Procs
        /\ DOMAIN proc = Procs
        /\ did \in [Procs -> SUBSET Effects] /\ doubt \in [Procs -> SUBSET Effects]
    BY <1>1 DEF IInv, Typed
  <2>2. \A m \in wire : m.by \in Procs /\ m.effect \in Effects
    BY <1>1 DEF IInv, WireOK, WriteOK
  <2>3. FilesTyped
    BY <1>1 DEF IInv, Typed, FileStates, FilesTyped
  <2>4. ASSUME NEW p \in Procs PROVE ProcTyped(proc[p]) /\ proc[p].pc \in PCs
    <3>1. proc[p] \in ProcStates /\ IsCommand(proc[p].cmd)
      BY <1>1, ProcIs, CmdFacts
    <3> QED BY <3>1 DEF ProcStates, ProcTyped
  <2>5. ASSUME NEW p \in Procs PROVE PlaceOK(proc[p])
    BY <1>1, ProcIs
  <2> QED BY <2>1, <2>2, <2>3, <2>4, <2>5 DEF TypeOK, PlaceOK
<1> QED BY <1>1, Inductive, PTL

\* The invariant says of the file of a key what ValueKept does.
LEMMA KeptIsValueKept ==
    ASSUME IInv, NEW p \in Procs, NEW says, Kept(p, proc[p], files, says)
    PROVE  ValueKept(p, says)
  BY DEF Kept, ValueKept, Path, NoTemp

\* RuntimeAdmin.ResultTrue: whatever runs beside it and whenever a signal comes,
\* what a command returns is true of its own writes, also of those that the
\* service carries out later, but for one sentence: a revert whose deletion was
\* carried out unread, or is in doubt, says that the topic was not deleted.  So
\* is what cleanup, the restores and the key commands print after a signal; and
\* the value of a key is where they say.
THEOREM Truthful == Spec => []ResultTrue
<1>1. ASSUME IInv PROVE ResultTrue
  <2> SUFFICES ASSUME NEW p \in Procs
               PROVE
                 /\ proc[p].result.kind # "none" /\ ~TopicInDoubt(p)
                      => True(proc[p].result.says, did[p], doubt[p])
                 /\ proc[p].report.kind # "none" /\ (Kind(p) = "cleanup" \/ Restores(p))
                      => True(proc[p].report.says, did[p], doubt[p])
                 /\ WritesKey(p) /\ proc[p].pc \in {"exit", "ended"}
                      => ValueKept(p, proc[p].result.says)
                 /\ WritesKey(p) /\ proc[p].pc = "ended" /\ proc[p].id # 0
                      => /\ True(proc[p].report.says, did[p], doubt[p])
                         /\ ValueKept(p, proc[p].report.says)
    BY DEF ResultTrue
  <2>1. Ledger(proc[p], did[p], doubt[p]) /\ KeyOK(p, proc[p], files)
    BY <1>1, ProcIs
  <2>2. proc[p].pc \notin Over => proc[p].result.kind = "none" /\ proc[p].report.kind = "none"
    BY <2>1 DEF Ledger, NoResult
  <2>3. proc[p].pc \in Over /\ ~TopicInDoubt(p) => True(proc[p].result.says, did[p], doubt[p])
    <3>1. Misstated(proc[p], did[p], doubt[p]) => TopicInDoubt(p)
      BY DEF Misstated, TopicInDoubt, EditEffect, Kind
    <3> QED BY <2>1, <3>1 DEF Ledger
  <2>4. proc[p].report.kind # "none" => proc[p].pc = "ended"
    BY <2>1, <2>2 DEF Ledger, NoResult, Over
  <2>5. Noted(proc[p]) /\ proc[p].pc = "ended" => True(proc[p].report.says, did[p], doubt[p])
    BY <2>1 DEF Ledger, Over
  <2>6. Kind(p) = "cleanup" \/ Restores(p) => Noted(proc[p])
    BY DEF Kind, Restores, Noted, ManyWrites
  <2>7. CASE ~WritesKey(p)
    BY <2>2, <2>3, <2>4, <2>5, <2>6, <2>7
  <2>8. CASE WritesKey(p)
    <3>1. proc[p].cmd.kind \in KeyKinds
      BY <2>8 DEF WritesKey, Kind, KeyKinds
    <3>2. proc[p].id # 0 => Noted(proc[p])
      BY <3>1 DEF Noted
    <3>3. proc[p].pc \in Over => ValueKept(p, proc[p].result.says)
      BY <1>1, <2>1, <3>1, KeptIsValueKept DEF KeyOK
    <3>4. proc[p].pc = "ended" /\ proc[p].id # 0 => ValueKept(p, proc[p].report.says)
      BY <1>1, <2>1, <3>1, KeptIsValueKept DEF KeyOK
    <3> QED BY <2>2, <2>3, <2>4, <2>5, <2>6, <3>2, <3>3, <3>4 DEF Over
  <2> QED BY <2>7, <2>8
<1> QED BY <1>1, Inductive, PTL


-----------------------------------------------------------------------------
(* What a cleanup deletes *)

\* Nobody deletes profiles by hand.
NoDeletes == \A q \in Procs : Kind(q) # "profilesDelete"

\* The commands that send a PUT of a profile they have read.
PutKinds == {"restore", "apply", "revert", "profilesUpdate"}

\* The ids a command may still delete, and those it may still PUT.
Drops(r) == IF r.cmd.kind = "cleanup" /\ r.pc = "delete" THEN {x.id : x \in r.read} ELSE {}
Puts(r) == IF r.cmd.kind \in PutKinds THEN {x.id : x \in r.read} ELSE {}

Dropping(id) ==
    \/ \E p \in Procs : id \in Drops(proc[p])
    \/ \E m \in wire : Op(m) = "dropProfile" /\ Target(m) = id

Putting(id) ==
    \/ \E p \in Procs : id \in Puts(proc[p])
    \/ \E m \in wire : Op(m) = "putProfile" /\ m.id = id

\* Every revision with that id has a newer one of its name.
Superseded(s, id) ==
    /\ id \in Ids /\ id < s.next
    /\ \A x \in s.profiles : x.id = id => \E y \in Named(s.profiles, x.name) : y.rev > x.rev

\* A revision with that id has no newer one of its name with an id of its own:
\* as long as it is there no cleanup selects it.
Fresh(s, id) ==
    /\ id \in Ids /\ id < s.next
    /\ \A x \in s.profiles : x.id = id =>
         \E t \in s.profiles :
            /\ t.id = id
            /\ \A y \in Named(s.profiles, t.name) :
                 y.rev > t.rev => \E z \in s.profiles : z # y /\ z.id = y.id

\* On a service that gives no new ids a PUT adds to what it was read from.
CleanOK ==
    /\ \A id : Dropping(id) => Superseded(svc, id)
    /\ svc.keepsId => \A id : Putting(id) => Fresh(svc, id) /\ ~Dropping(id)

-----------------------------------------------------------------------------

\* The newest of the revisions above one of them.
LEMMA NewestAbove ==
    ASSUME NEW s, IsService(s), NEW x \in s.profiles,
           NEW w \in Named(s.profiles, x.name), w.rev > x.rev
    PROVE  \E y \in Named(s.profiles, x.name) :
              y.rev > x.rev /\ \A z \in Named(s.profiles, x.name) : z.rev <= y.rev
<1> DEFINE S == Named(s.profiles, x.name)
<1>1. s.profiles \in SUBSET Revisions /\ IsFiniteSet(s.profiles)
  BY DEF IsService, ServiceStates
<1>2. S \in SUBSET Revisions /\ IsFiniteSet(S) /\ w \in S
  BY <1>1, FS_Subset DEF Named
<1> HIDE DEF S
<1>3. PICK y \in S : \A z \in S : z.rev <= y.rev
  BY <1>2, HighestIs DEF Highest
<1>4. x.rev \in Nat /\ y.rev \in Nat /\ w.rev \in Nat /\ w.rev <= y.rev
  BY <1>1, <1>2, <1>3 DEF Revisions
<1> QED BY <1>3, <1>4 DEF S

\* The deletion of a superseded id leaves a newer revision of every other.
LEMMA DropKeeps ==
    ASSUME NEW s, IsService(s), NEW d, Superseded(s, d),
           NEW t, t.profiles = {r \in s.profiles : r.id # d}, t.next = s.next
    PROVE  /\ \A id : Superseded(s, id) => Superseded(t, id)
           /\ \A id : id # d /\ Fresh(s, id) => Fresh(t, id)
<1>1. s.profiles \subseteq Revisions
  BY DEF IsService, ServiceStates
<1>2. ASSUME NEW id, Superseded(s, id) PROVE Superseded(t, id)
  <2> SUFFICES ASSUME NEW x \in t.profiles, x.id = id
               PROVE  \E y \in Named(t.profiles, x.name) : y.rev > x.rev
    BY <1>2 DEF Superseded
  <2>1. x \in s.profiles /\ \E w \in Named(s.profiles, x.name) : w.rev > x.rev
    BY <1>2 DEF Superseded
  <2>2. PICK y \in Named(s.profiles, x.name) :
               y.rev > x.rev /\ \A z \in Named(s.profiles, x.name) : z.rev <= y.rev
    BY <2>1, NewestAbove
  <2>3. y \in s.profiles /\ y.name = x.name /\ y.rev \in Nat
    BY <1>1, <2>2 DEF Named, Revisions
  <2>4. y.id # d
    <3> SUFFICES ASSUME y.id = d PROVE FALSE
      OBVIOUS
    <3>1. PICK z \in Named(s.profiles, x.name) : z.rev > y.rev
      BY <2>3 DEF Superseded
    <3>2. z.rev \in Nat
      BY <1>1 DEF Named, Revisions
    <3> QED BY <2>2, <2>3, <3>1, <3>2
  <2> QED BY <2>2, <2>3, <2>4 DEF Named
<1>3. ASSUME NEW id, id # d, Fresh(s, id) PROVE Fresh(t, id)
  <2> SUFFICES ASSUME NEW x \in t.profiles, x.id = id
               PROVE  \E v \in t.profiles :
                        /\ v.id = id
                        /\ \A y \in Named(t.profiles, v.name) :
                             y.rev > v.rev => \E z \in t.profiles : z # y /\ z.id = y.id
    BY <1>3 DEF Fresh
  <2>1. PICK v \in s.profiles :
          /\ v.id = id
          /\ \A y \in Named(s.profiles, v.name) :
               y.rev > v.rev => \E z \in s.profiles : z # y /\ z.id = y.id
    BY <1>3 DEF Fresh
  <2> QED BY <1>3, <2>1 DEF Named
<1> QED BY <1>2, <1>3

\* A new revision supersedes nothing less.
LEMMA AddKeeps ==
    ASSUME NEW s, IsService(s), NEW x, NEW t, t.profiles = s.profiles \cup {x},
           s.next <= t.next, t.next \in Nat
    PROVE  /\ \A id : id # x.id /\ Superseded(s, id) => Superseded(t, id)
           /\ \A id : /\ Fresh(s, id)
                      /\ \/ x.rev = 1 /\ id # x.id
                         \/ x \notin s.profiles /\ \E z \in s.profiles : z.id = x.id
                      => Fresh(t, id)
<1>1. s.profiles \subseteq Revisions /\ s.next \in Nat
  BY RuntimeAssumption DEF IsService, ServiceStates
<1>2. ASSUME NEW id, id # x.id, Superseded(s, id) PROVE Superseded(t, id)
  <2>1. id < t.next
    BY <1>1, <1>2, RuntimeAssumption DEF Superseded, Ids
  <2> QED BY <1>2, <2>1 DEF Superseded, Named
<1>3. ASSUME NEW id, Fresh(s, id),
             \/ x.rev = 1 /\ id # x.id
             \/ x \notin s.profiles /\ \E z \in s.profiles : z.id = x.id
      PROVE  Fresh(t, id)
  <2>1. id < t.next
    BY <1>1, <1>3, RuntimeAssumption DEF Fresh, Ids
  <2> SUFFICES ASSUME NEW u \in t.profiles, u.id = id
               PROVE  \E v \in t.profiles :
                        /\ v.id = id
                        /\ \A y \in Named(t.profiles, v.name) :
                             y.rev > v.rev => \E z \in t.profiles : z # y /\ z.id = y.id
    BY <1>3, <2>1 DEF Fresh
  <2>2. \E w \in s.profiles : w.id = id
    BY <1>3
  <2>3. PICK v \in s.profiles :
          /\ v.id = id
          /\ \A y \in Named(s.profiles, v.name) :
               y.rev > v.rev => \E z \in s.profiles : z # y /\ z.id = y.id
    BY <1>3, <2>2 DEF Fresh
  <2>4. v.rev \in Nat \ {0}
    BY <1>1 DEF Revisions
  <2>5. ASSUME NEW y \in Named(t.profiles, v.name), y.rev > v.rev
        PROVE  \E z \in t.profiles : z # y /\ z.id = y.id
    <3>1. CASE y \in s.profiles
      BY <2>3, <2>5, <3>1 DEF Named
    <3>2. CASE y \notin s.profiles
      <4>1. y = x
        BY <3>2 DEF Named
      <4>2. x.rev # 1
        BY <2>4, <2>5, <4>1
      <4> QED BY <1>3, <4>1, <4>2
    <3> QED BY <3>1, <3>2
  <2> QED BY <2>3, <2>5
<1> QED BY <1>2, <1>3

\* A write that is to be: a deletion of an id to drop, a PUT of an id to put.
ProfileOps == {"makeProfile", "putProfile", "dropProfile"}

Proper(m) == Op(m) \in Ops /\ (Op(m) \in ProfileOps => WriteOK(m))
Allowed(m) ==
    /\ Op(m) = "dropProfile" => Dropping(Target(m))
    /\ Op(m) = "putProfile" => Putting(m.id)

\* The service carries out such a write.
LEMMA CarriedOK ==
    ASSUME IInv, CleanOK, NEW m, Proper(m), Takes(svc, m), Allowed(m)
    PROVE  LET t == After(svc, m)
           IN  /\ \A id : Dropping(id) => Superseded(t, id)
               /\ svc.keepsId => \A id : Putting(id) => Fresh(t, id)
<1> DEFINE t == After(svc, m)
<1>1. IsService(svc) /\ svc.next <= t.next /\ t.next \in Nat
  <2>1. IsService(svc) /\ svc.next \in Nat
    BY RuntimeAssumption DEF IInv, Typed, IsService, ServiceStates
  <2>2. t.next \in {svc.next, svc.next + 1}
    BY <2>1 DEF Proper, Ops, After, IsService, ServiceStates
  <2> QED BY <2>1, <2>2
<1>2. /\ svc.profiles \subseteq Revisions /\ svc.next \in Nat
      /\ \A x \in svc.profiles : x.id < svc.next /\ x.id \in Nat
  BY <1>1, RuntimeAssumption DEF IsService, ServiceStates, Revisions, Ids
<1>3. \A id : Dropping(id) => Superseded(svc, id) /\ id # svc.next
  BY <1>2, RuntimeAssumption DEF CleanOK, Superseded, Ids
<1>4. svc.keepsId => \A id : Putting(id) => Fresh(svc, id) /\ ~Dropping(id) /\ id # svc.next
  BY <1>2, RuntimeAssumption DEF CleanOK, Fresh, Ids
<1>5. CASE Op(m) = "dropProfile"
  <2>1. t.profiles = {r \in svc.profiles : r.id # Target(m)} /\ t.next = svc.next
    BY <1>1, <1>5 DEF After, IsService, ServiceStates
  <2>2. Superseded(svc, Target(m)) /\ Dropping(Target(m))
    BY <1>3, <1>5 DEF Allowed
  <2> HIDE DEF t
  <2> QED BY <1>1, <1>3, <1>4, <2>1, <2>2, DropKeeps DEF t
<1>6. CASE Op(m) = "makeProfile"
  <2> DEFINE x == [id |-> svc.next, name |-> Target(m), rev |-> 1, policy |-> m.policy]
  <2>1. t.profiles = svc.profiles \cup {x}
    BY <1>1, <1>6 DEF After, IsService, ServiceStates
  <2>2. x.id = svc.next /\ x.rev = 1
    OBVIOUS
  <2> HIDE DEF x, t
  <2> QED BY <1>1, <1>3, <1>4, <2>1, <2>2, AddKeeps DEF t
<1>7. CASE Op(m) = "putProfile"
  <2> DEFINE x == Revised(svc, m.id, m.policy)
  <2>1. t.profiles = svc.profiles \cup {x}
    BY <1>1, <1>7 DEF After, IsService, ServiceStates
  <2>2. \E z \in svc.profiles : z.id = m.id
    BY <1>7 DEF Takes
  <2>3. /\ x \in Revisions /\ x.id = (IF svc.keepsId THEN m.id ELSE svc.next)
        /\ \A r \in svc.profiles : r.id = m.id => r.name = x.name
        /\ \A r \in Named(svc.profiles, x.name) : r.rev < x.rev
    BY <1>1, <1>7, <2>2, RevisedIs DEF Takes, WriteOK, Proper, ProfileOps
  <2>4. Putting(m.id)
    BY <1>7 DEF Allowed
  <2> HIDE DEF x, t
  <2>5. x \notin svc.profiles
    BY <1>2, <2>3 DEF Named, Revisions
  <2>6. \A id : Dropping(id) => id # x.id
    BY <1>3, <1>4, <2>3, <2>4
  <2>7. svc.keepsId => \E z \in svc.profiles : z.id = x.id
    BY <2>2, <2>3
  <2> QED BY <1>1, <1>3, <1>4, <2>1, <2>5, <2>6, <2>7, AddKeeps DEF t
<1>8. CASE Op(m) \notin {"dropProfile", "makeProfile", "putProfile"}
  <2>1. t.profiles = svc.profiles
    BY <1>1, <1>8 DEF Proper, After, IsService, ServiceStates, Ops
  <2> HIDE DEF t
  <2>2. \A id : Superseded(svc, id) => Superseded(t, id)
    BY <1>1, <1>2, <2>1, RuntimeAssumption DEF Superseded, Ids
  <2>3. \A id : Fresh(svc, id) => Fresh(t, id)
    BY <1>1, <1>2, <2>1, RuntimeAssumption DEF Fresh, Ids
  <2> QED BY <1>3, <1>4, <2>2, <2>3 DEF t
<1> QED BY <1>5, <1>6, <1>7, <1>8

\* The old revisions of a listing are superseded, and none has an id that
\* somebody may still PUT.
LEMMA OldOK ==
    ASSUME NEW s, IsService(s), NEW x \in Old(s.profiles)
    PROVE  Superseded(s, x.id) /\ ~Fresh(s, x.id)
<1>1. s.profiles \subseteq Revisions /\ s.next \in Nat
  BY RuntimeAssumption DEF IsService, ServiceStates
<1>2. /\ x \in s.profiles /\ x.id \in Ids /\ x.id < s.next
      /\ x \notin Highest(Named(s.profiles, x.name)) /\ Cleanable(s.profiles, x.name)
  BY <1>1 DEF Old, IsService, Revisions
<1>3. \A r \in Named(s.profiles, x.name) : OwnId(s.profiles, r)
  BY <1>2 DEF Cleanable
<1>4. x \in Named(s.profiles, x.name) /\ \A q \in s.profiles : q.id = x.id => q = x
  BY <1>2, <1>3 DEF OwnId, Named
<1>5. PICK y \in Named(s.profiles, x.name) : y.rev > x.rev
  BY <1>1, <1>2, <1>4 DEF Highest, Named, Revisions
<1>6. Superseded(s, x.id)
  BY <1>2, <1>4, <1>5 DEF Superseded
<1>7. ~Fresh(s, x.id)
  BY <1>2, <1>3, <1>4, <1>5 DEF Fresh, OwnId, Named
<1> QED BY <1>6, <1>7

\* The newest revisions of a listing are fresh, and nobody is about to delete
\* them.
LEMMA LatestOK ==
    ASSUME NEW s, IsService(s), NEW x \in Latest(s.profiles)
    PROVE  Fresh(s, x.id) /\ ~Superseded(s, x.id)
<1>1. s.profiles \subseteq Revisions /\ s.next \in Nat
  BY RuntimeAssumption DEF IsService, ServiceStates
<1>2. /\ x \in s.profiles /\ x.id \in Ids /\ x.id < s.next /\ x.rev \in Nat
      /\ \A y \in Named(s.profiles, x.name) : y.rev <= x.rev /\ y.rev \in Nat
  BY <1>1 DEF Latest, Highest, Named, IsService, Revisions
<1> QED BY <1>2 DEF Fresh, Superseded


\* The state r of a process that was in state c: the same command, with what
\* it has read.
Keeps(c, r) ==
    /\ {"cmd", "read", "pc"} \subseteq DOMAIN r
    /\ r.cmd = c.cmd /\ r.read = c.read /\ (r.pc = "delete" => c.pc = "delete")

LEMMA KeepsFacts ==
    ASSUME IInv, NEW p \in Procs
    PROVE  /\ Keeps(proc[p], proc[p])
           /\ \A pc : pc # "delete" => Keeps(proc[p], At(p, pc))
           /\ Keeps(proc[p], [At(p, proc[p].pc) EXCEPT !.replayed = TRUE])
           /\ \A result : Keeps(proc[p], Exit(p, result))
<1>1. {"cmd", "read", "pc"} \subseteq DOMAIN proc[p]
  BY ProcIs DEF ProcStates
<1> QED BY <1>1 DEF Keeps, At, Exit

\* Writing down, and going on.
LEMMA KeepsOn ==
    ASSUME NEW c, NEW r, Keeps(c, r)
    PROVE  /\ \A e : Keeps(c, Written(r, e))
           /\ \A known : Keeps(c, [r EXCEPT !.known = known])
           /\ \A id : Keeps(c, [r EXCEPT !.id = id])
           /\ \A i : Keeps(c, Item(r, i)) /\ Keeps(c, DlpItem(r, i))
<1>1. \A e : Keeps(c, Written(r, e))
  BY DEF Keeps, Written
<1>2. \A known : Keeps(c, [r EXCEPT !.known = known])
  BY DEF Keeps
<1>3. \A id : Keeps(c, [r EXCEPT !.id = id])
  BY DEF Keeps
<1>4. \A i : Keeps(c, Item(r, i))
  BY DEF Keeps, Item
<1>5. \A i : Keeps(c, DlpItem(r, i))
  BY DEF Keeps, DlpItem
<1> QED BY <1>1, <1>2, <1>3, <1>4, <1>5

LEMMA DoneKeeps ==
    ASSUME IInv, NEW p \in Procs, NEW says
    PROVE  Keeps(proc[p], Done(p, says))
<1>1. Keeps(proc[p], Exit(p, Ok(says)))
  BY KeepsFacts
<1> QED BY <1>1 DEF Keeps, Done

LEMMA KeepsFailed ==
    ASSUME IInv, NEW p \in Procs, NEW a, NEW e
    PROVE  Keeps(proc[p], WriteFailed(p, a, e))
<1> DEFINE done == {d \in Effects : proc[p].context[d] = "yes"}
           r == Exit(p, Failed(a, Told(a, done, e)))
           context == [r.context EXCEPT ![e] = IF a \in InDoubt \cup {"unreadable"} THEN "maybe" ELSE @]
<1>1. Keeps(proc[p], r)
  BY KeepsFacts
<1>2. WriteFailed(p, a, e) = [r EXCEPT !.context = context]
  BY DEF WriteFailed
<1> HIDE DEF r, context
<1> QED BY <1>1, <1>2 DEF Keeps


\* The state r of a process after state c: what it is about to delete is old,
\* what it is about to PUT is the newest.
Stays(c, r) == r.cmd = c.cmd /\ Drops(r) \subseteq Drops(c) /\ Puts(r) \subseteq Puts(c)
Goes(c, r) ==
    /\ r.cmd = c.cmd
    /\ \A id \in Drops(r) : id \in Drops(c) \/ \E x \in Old(svc.profiles) : x.id = id
    /\ \A id \in Puts(r) : id \in Puts(c) \/ \E x \in Latest(svc.profiles) : x.id = id

LEMMA KeepsIs ==
    ASSUME NEW c, NEW r
    PROVE  (Keeps(c, r) => Stays(c, r)) /\ (Stays(c, r) => Goes(c, r))
  BY DEF Keeps, Stays, Goes, Drops, Puts

\* A write of process p.
Mine(p, m) ==
    /\ Proper(m)
    /\ Op(m) = "dropProfile" => Kind(p) = "profilesDelete" \/ Target(m) \in Drops(proc[p])
    /\ Op(m) = "putProfile" => m.id \in Puts(proc[p])

\* What a step of process p does to the revisions and to the plans.
CalmMove(p) ==
    /\ \E r : proc' = [proc EXCEPT ![p] = r] /\ Goes(proc[p], r)
    /\ svc' = svc /\ wire' = wire

CalmSend(p) ==
    /\ \E r : proc' = [proc EXCEPT ![p] = r] /\ Stays(proc[p], r)
    /\ \E m : /\ Mine(p, m) /\ wire' \subseteq wire \cup {m}
              /\ svc' = svc \/ (Takes(svc, m) /\ svc' = After(svc, m))

Calm(p) == CalmMove(p) \/ CalmSend(p)

LEMMA MoveCalm ==
    ASSUME NEW p \in Procs, NEW r, Move(p, r), Goes(proc[p], r)
    PROVE  Calm(p)
  BY DEF Move, Set, world, Calm, CalmMove

LEMMA KeepCalm ==
    ASSUME NEW p \in Procs, NEW r, Move(p, r), Keeps(proc[p], r)
    PROVE  Calm(p)
  BY MoveCalm, KeepsIs

LEMMA SendCalm ==
    ASSUME IInv, NEW p \in Procs, NEW m, Mine(p, m), NEW then, Send(p, m, proc[p].pc, then),
           \A a \in Answers : Stays(proc[p], then[a])
    PROVE  Calm(p)
<1>1. PICK a \in Possible(p \in signal) :
        /\ a \in Carried => Takes(svc, m)
        /\ svc' = IF a \in Carried THEN After(svc, m) ELSE svc
        /\ wire' = IF a \in InDoubt THEN wire \cup {m} ELSE wire
        /\ Set(p, IF Replays(a, proc[p].replayed)
                  THEN [At(p, proc[p].pc) EXCEPT !.replayed = TRUE]
                  ELSE then[a])
  BY DEF Send
<1>2. a \in Answers
  BY DEF Possible, Interrupted, Answers
<1>3. Stays(proc[p], [At(p, proc[p].pc) EXCEPT !.replayed = TRUE]) /\ Stays(proc[p], then[a])
  BY <1>2, KeepsFacts, KeepsIs
<1>4. \E r : proc' = [proc EXCEPT ![p] = r] /\ Stays(proc[p], r)
  BY <1>1, <1>3 DEF Set
<1>5. wire' \subseteq wire \cup {m} /\ (svc' = svc \/ (Takes(svc, m) /\ svc' = After(svc, m)))
  BY <1>1
<1> QED BY <1>4, <1>5 DEF Calm, CalmSend

LEMMA FailsCalm ==
    ASSUME IInv, NEW p \in Procs, ReadFails(p)
    PROVE  Calm(p)
  BY KeepsFacts, KeepCalm DEF ReadFails

LEMMA StopCalm ==
    ASSUME IInv, NEW p \in Procs, Move(p, Stop(p)) \/ Move(p, Interrupt(p)) \/ Move(p, Refuse(p))
    PROVE  Calm(p)
<1>1. Keeps(proc[p], Stop(p)) /\ Keeps(proc[p], Interrupt(p))
  BY KeepsFacts DEF Stop, Interrupt
<1>2. Keeps(proc[p], Refuse(p))
  BY <1>1 DEF Keeps, Refuse
<1> QED BY <1>1, <1>2, KeepCalm

LEMMA AtCalm ==
    ASSUME IInv, NEW p \in Procs, NEW pc, pc # "delete", Move(p, At(p, pc))
    PROVE  Calm(p)
  BY KeepsFacts, KeepCalm


\* The commands stay what they are.
LEMMA CmdsStay ==
    ASSUME IInv, NEW p \in Procs, NEW r, proc' = [proc EXCEPT ![p] = r], r.cmd = proc[p].cmd
    PROVE  /\ proc'[p] = r /\ \A q \in Procs : q # p => proc'[q] = proc[q]
           /\ NoDeletes' <=> NoDeletes
<1>1. proc'[p] = r /\ \A q \in Procs : q # p => proc'[q] = proc[q]
  BY DEF IInv, Typed
<1>2. \A q \in Procs : proc'[q].cmd = proc[q].cmd
  BY <1>1
<1> QED BY <1>1, <1>2 DEF NoDeletes, Kind

LEMMA CalmMoveOK ==
    ASSUME IInv, NoDeletes => CleanOK, NEW p \in Procs, CalmMove(p)
    PROVE  NoDeletes' => CleanOK'
<1>1. PICK r : proc' = [proc EXCEPT ![p] = r] /\ Goes(proc[p], r)
  BY DEF CalmMove
<1>2. svc' = svc /\ wire' = wire /\ IsService(svc)
  BY DEF CalmMove, IInv, Typed
<1>3. /\ proc'[p] = r /\ \A q \in Procs : q # p => proc'[q] = proc[q]
      /\ NoDeletes' <=> NoDeletes
  BY <1>1, CmdsStay DEF Goes
<1> SUFFICES ASSUME NoDeletes PROVE CleanOK'
  BY <1>3
<1>4. \A id : Dropping(id)' => Dropping(id) \/ \E x \in Old(svc.profiles) : x.id = id
  BY <1>1, <1>2, <1>3 DEF Dropping, Goes
<1>5. \A id : Putting(id)' => Putting(id) \/ \E x \in Latest(svc.profiles) : x.id = id
  BY <1>1, <1>2, <1>3 DEF Putting, Goes
<1>6. \A id : Dropping(id)' => Superseded(svc, id)
  BY <1>2, <1>4, OldOK DEF CleanOK
<1>7. ASSUME svc.keepsId, NEW id, Putting(id)' PROVE Fresh(svc, id) /\ ~Dropping(id)'
  <2>1. Fresh(svc, id)
    BY <1>2, <1>5, <1>7, LatestOK DEF CleanOK
  <2>2. Putting(id) => ~Dropping(id)
    BY <1>7 DEF CleanOK
  <2>3. ~\E x \in Old(svc.profiles) : x.id = id
    BY <1>2, <2>1, OldOK
  <2>4. ASSUME NEW x \in Latest(svc.profiles), x.id = id PROVE ~Dropping(id)
    BY <1>2, <2>4, LatestOK DEF CleanOK
  <2> QED BY <1>4, <1>5, <1>7, <2>1, <2>2, <2>3, <2>4
<1> QED BY <1>2, <1>6, <1>7 DEF CleanOK

\* The service carries out a write, or does not.
LEMMA ServiceOK ==
    ASSUME IInv, CleanOK, NEW m, Proper(m), Allowed(m),
           svc' = svc \/ (Takes(svc, m) /\ svc' = After(svc, m)),
           \A id : Dropping(id)' => Dropping(id), \A id : Putting(id)' => Putting(id)
    PROVE  CleanOK'
<1>1. /\ \A id : Dropping(id) => Superseded(svc', id)
      /\ svc'.keepsId = svc.keepsId
      /\ svc.keepsId => \A id : Putting(id) => Fresh(svc', id)
  <2>1. CASE svc' = svc
    BY <2>1 DEF CleanOK
  <2>2. CASE Takes(svc, m) /\ svc' = After(svc, m)
    <3>1. After(svc, m).keepsId = svc.keepsId
      BY DEF Proper, Ops, After, IInv, Typed, IsService, ServiceStates
    <3> QED BY <2>2, <3>1, CarriedOK
  <2> QED BY <2>1, <2>2
<1> QED BY <1>1 DEF CleanOK

LEMMA CalmSendOK ==
    ASSUME IInv, NoDeletes => CleanOK, NEW p \in Procs, CalmSend(p)
    PROVE  NoDeletes' => CleanOK'
<1>1. PICK r : proc' = [proc EXCEPT ![p] = r] /\ Stays(proc[p], r)
  BY DEF CalmSend
<1>2. PICK m : /\ Mine(p, m) /\ wire' \subseteq wire \cup {m}
               /\ svc' = svc \/ (Takes(svc, m) /\ svc' = After(svc, m))
  BY DEF CalmSend
<1>3. /\ proc'[p] = r /\ \A q \in Procs : q # p => proc'[q] = proc[q]
      /\ NoDeletes' <=> NoDeletes
  BY <1>1, CmdsStay DEF Stays
<1> SUFFICES ASSUME NoDeletes PROVE CleanOK'
  BY <1>3
<1>4. Proper(m) /\ Allowed(m)
  BY <1>2 DEF Mine, Allowed, Dropping, Putting, NoDeletes
<1>5. \A id : Dropping(id)' => Dropping(id)
  BY <1>1, <1>2, <1>3, <1>4 DEF Dropping, Stays, Allowed
<1>6. \A id : Putting(id)' => Putting(id)
  BY <1>1, <1>2, <1>3, <1>4 DEF Putting, Stays, Allowed
<1> QED BY <1>2, <1>4, <1>5, <1>6, ServiceOK

\* A write on the wire is carried out late.
LEMMA ArriveOK ==
    ASSUME IInv, NoDeletes => CleanOK, NEW m \in wire, Arrive(m)
    PROVE  NoDeletes' => CleanOK'
<1>1. /\ wire' \subseteq wire /\ proc' = proc
      /\ svc' = svc \/ (Takes(svc, m) /\ svc' = After(svc, m))
  BY DEF Arrive
<1> SUFFICES ASSUME NoDeletes PROVE CleanOK'
  BY <1>1 DEF NoDeletes, Kind
<1>2. Proper(m) /\ Allowed(m)
  BY OpIs DEF IInv, WireOK, Proper, Allowed, Dropping, Putting
<1>3. \A id : (Dropping(id)' => Dropping(id)) /\ (Putting(id)' => Putting(id))
  BY <1>1 DEF Dropping, Putting
<1> QED BY <1>1, <1>2, <1>3, ServiceOK

\* What a process deletes leaves a newer revision.
LEMMA CalmProperty ==
    ASSUME IInv, CleanOK, NoDeletes, NEW p \in Procs, Calm(p),
           NEW r \in svc.profiles \ svc'.profiles
    PROVE  \E q \in svc'.profiles : q.name = r.name /\ q.rev > r.rev
<1>1. CalmSend(p)
  BY DEF Calm, CalmMove
<1>2. PICK m : /\ Mine(p, m) /\ wire' \subseteq wire \cup {m}
               /\ svc' = svc \/ (Takes(svc, m) /\ svc' = After(svc, m))
  BY <1>1 DEF CalmSend
<1>3. svc' = After(svc, m) /\ svc \in ServiceStates /\ IsService(svc)
  BY <1>2 DEF IInv, Typed, IsService
<1>4. Op(m) = "dropProfile"
  BY <1>2, <1>3 DEF Mine, Proper, Ops, After, ServiceStates
<1>5. svc'.profiles = {x \in svc.profiles : x.id # Target(m)} /\ svc'.next = svc.next
  BY <1>3, <1>4 DEF After, ServiceStates
<1>6. Superseded(svc, Target(m))
  BY <1>2, <1>4 DEF Mine, NoDeletes, CleanOK, Dropping
<1>7. r.id = Target(m)
  BY <1>5
<1>8. \E w \in Named(svc.profiles, r.name) : w.rev > r.rev
  BY <1>6, <1>7 DEF Superseded
<1>9. PICK y \in Named(svc.profiles, r.name) :
             y.rev > r.rev /\ \A z \in Named(svc.profiles, r.name) : z.rev <= y.rev
  BY <1>3, <1>8, NewestAbove
<1>10. y.id # Target(m)
  <2> SUFFICES ASSUME y.id = Target(m) PROVE FALSE
    OBVIOUS
  <2>1. PICK z \in Named(svc.profiles, y.name) : z.rev > y.rev
    BY <1>6, <1>9 DEF Superseded, Named
  <2>2. z \in Named(svc.profiles, r.name)
    BY <1>9, <2>1 DEF Named
  <2>3. z.rev \in Nat /\ y.rev \in Nat
    BY <1>3, <1>9, <2>2 DEF Named, ServiceStates, Revisions
  <2> QED BY <1>9, <2>1, <2>2, <2>3
<1> QED BY <1>5, <1>9, <1>10 DEF Named


-----------------------------------------------------------------------------
(* The steps *)

LEMMA StartCalm ==
    ASSUME IInv, NEW p \in Procs, Start(p) \/ Connect(p) \/ Confirm(p)
    PROVE  Calm(p)
<1>1. CASE Start(p)
  BY <1>1, AtCalm DEF Start
<1>2. CASE Connect(p)
  <2>1. FirstStep(p) # "delete"
    BY DEF FirstStep
  <2> QED BY <1>2, <2>1, AtCalm, FailsCalm DEF Connect
<1>3. CASE Confirm(p)
  <2>1. Confirmed(p) # "delete"
    <3>1. proc[p].pc = "ask"
      BY <1>3 DEF Confirm
    <3>2. Kind(p) \in {"topicsDelete", "keyDelete", "cleanup", "restore", "dlpRestore",
                       "dlpReplace", "dlpDelete", "revert", "profilesDelete", "keyRotate"}
      BY <3>1, ProcIs DEF KindOK, Kind
    <3> QED BY <3>2 DEF Confirmed
  <2> QED BY <1>3, <2>1, AtCalm, StopCalm, KeepsFacts, KeepCalm DEF Confirm
<1> QED BY <1>1, <1>2, <1>3

LEMMA FindTopicCalm ==
    ASSUME IInv, NEW p \in Procs, FindTopic(p)
    PROVE  Calm(p)
<1>1. CASE ReadFails(p)
  BY <1>1, FailsCalm
<1>2. ASSUME NEW t \in NamedTopics(p),
             Move(p, [At(p, CASE Kind(p) = "topicsCreate" -> "write"
                              [] Kind(p) = "revert" /\ ~proc[p].cmd.force -> "ask"
                              [] OTHER -> "findProfile")
                      EXCEPT !.id = t.id, !.known = NamedTopics(p)])
      PROVE  Calm(p)
  <2> DEFINE pc == CASE Kind(p) = "topicsCreate" -> "write"
                     [] Kind(p) = "revert" /\ ~proc[p].cmd.force -> "ask"
                     [] OTHER -> "findProfile"
             r == [At(p, pc) EXCEPT !.id = t.id]
  <2>1. pc # "delete"
    OBVIOUS
  <2> HIDE DEF pc
  <2>2. Keeps(proc[p], r)
    BY <2>1, KeepsFacts, KeepsOn
  <2>3. Keeps(proc[p], [r EXCEPT !.known = NamedTopics(p)])
    BY <2>2, KeepsOn
  <2>4. Move(p, [r EXCEPT !.known = NamedTopics(p)])
    BY <1>2 DEF pc
  <2> QED BY <2>3, <2>4, KeepCalm
<1>3. CASE Move(p, IF Kind(p) = "topicsCreate" THEN At(p, "write") ELSE Stop(p))
  BY <1>3, AtCalm, StopCalm
<1> QED BY <1>1, <1>2, <1>3 DEF FindTopic

\* A profile that is looked up is the newest of its name.
LEMMA FindProfileCalm ==
    ASSUME IInv, NEW p \in Procs, FindProfile(p)
    PROVE  Calm(p)
<1>1. CASE ReadFails(p) \/ Move(p, Stop(p))
  BY <1>1, FailsCalm, StopCalm
<1>2. ASSUME NEW x \in NamedProfiles(p), NEW pc \in {"write", "ask"},
             Move(p, [At(p, pc) EXCEPT !.read = {x}])
      PROVE  Calm(p)
  <2> DEFINE r == [At(p, pc) EXCEPT !.read = {x}]
  <2>1. r.cmd = proc[p].cmd /\ r.read = {x} /\ r.pc = pc
    BY AtIs, ProcIs DEF PCs, ProcStates
  <2>2. x \in Latest(svc.profiles)
    BY DEF NamedProfiles, Latest, Highest, Named
  <2> HIDE DEF r
  <2>3. Goes(proc[p], r)
    BY <2>1, <2>2 DEF Goes, Drops, Puts
  <2> QED BY <1>2, <2>3, MoveCalm DEF r
<1>3. CASE Move(p, Exit(p, Ok(NothingChanged)))
  BY <1>3, KeepsFacts, KeepCalm
<1>4. \/ ReadFails(p) \/ Move(p, Stop(p)) \/ Move(p, Exit(p, Ok(NothingChanged)))
      \/ \E x \in NamedProfiles(p), pc \in {"write", "ask"} : Move(p, [At(p, pc) EXCEPT !.read = {x}])
  BY DEF FindProfile
<1> QED BY <1>1, <1>2, <1>3, <1>4

\* The writes that are about no revisions.
LEMMA OtherMine ==
    ASSUME NEW p \in Procs, NEW m, Op(m) \in Ops \ ProfileOps
    PROVE  Mine(p, m)
  BY DEF Mine, Proper, ProfileOps

LEMMA WriteEditCalm ==
    ASSUME IInv, NEW p \in Procs, WriteEdit(p)
    PROVE  Calm(p)
<1> DEFINE m == Edit(p)
           then == [a \in Answers |->
              IF a # "ok" THEN Exit(p, Failed(a, Told(a, {}, EditEffect(p))))
              ELSE IF Kind(p) = "revert"
              THEN [At(p, "drop") EXCEPT !.context = Claim({EditEffect(p)}, {})]
              ELSE Done(p, Claim({EditEffect(p)}, {}))]
<1>1. proc[p].pc = "write" /\ Send(p, m, proc[p].pc, then)
  BY DEF WriteEdit
<1>2. WriteOK(m) /\ m.effect = EditEffect(p)
  BY <1>1, EditIs
<1>3. /\ Op(m) = "dropProfile" => Kind(p) = "profilesDelete"
      /\ Op(m) = "putProfile" => Kind(p) \in {"apply", "revert", "profilesUpdate"}
                                 /\ m.id = ReadProfile(p).id
  <2>1. Kind(p) \in {"apply", "revert", "topicsCreate", "topicsUpdate", "topicsDelete",
                     "profilesCreate", "profilesUpdate", "profilesDelete"}
    BY <1>1, ProcIs DEF KindOK, Kind
  <2>2. /\ Op(m) = "dropProfile" => Kind(p) = "profilesDelete"
        /\ Op(m) = "putProfile" => Kind(p) \in {"apply", "revert", "profilesUpdate"}
    BY <1>2, <2>1 DEF Op, EditEffect
  <2>3. Kind(p) \in {"apply", "revert", "profilesUpdate"} => m.id = ReadProfile(p).id
    BY DEF Edit
  <2> QED BY <2>2, <2>3
<1>4. Op(m) = "putProfile" => m.id \in Puts(proc[p])
  <2> SUFFICES ASSUME Op(m) = "putProfile" PROVE m.id \in Puts(proc[p])
    OBVIOUS
  <2>1. PICK x \in Revisions : proc[p].read = {x}
    BY <1>1, <1>3, ProcIs DEF ReadOK, Kind
  <2>2. m.id = x.id
    BY <1>3, <2>1 DEF ReadProfile
  <2> QED BY <1>3, <2>1, <2>2 DEF Puts, PutKinds, Kind
<1>5. Mine(p, m)
  BY <1>2, <1>3, <1>4, OpIs DEF Mine, Proper
<1>6. ASSUME NEW a \in Answers PROVE Keeps(proc[p], then[a])
  <2>1. CASE a # "ok"
    <3>1. then[a] = Exit(p, Failed(a, Told(a, {}, EditEffect(p))))
      BY <2>1
    <3> HIDE DEF then
    <3> QED BY <3>1, KeepsFacts
  <2>2. CASE a = "ok" /\ Kind(p) = "revert"
    <3>1. then[a] = [At(p, "drop") EXCEPT !.context = Claim({EditEffect(p)}, {})]
      BY <2>2
    <3>2. Keeps(proc[p], At(p, "drop"))
      BY KeepsFacts
    <3> QED BY <3>1, <3>2 DEF Keeps
  <2>3. CASE a = "ok" /\ Kind(p) # "revert"
    <3>1. then[a] = Done(p, Claim({EditEffect(p)}, {}))
      BY <2>3
    <3> QED BY <3>1, DoneKeeps
  <2> QED BY <2>1, <2>2, <2>3
<1> HIDE DEF m, then
<1> QED BY <1>1, <1>5, <1>6, SendCalm, KeepsIs

LEMMA DropTopicCalm ==
    ASSUME IInv, NEW p \in Procs, DropTopic(p)
    PROVE  Calm(p)
<1> DEFINE drop == <<"dropTopic", proc[p].id>>
           m == [by |-> p, effect |-> drop, force |-> FALSE]
           put == EditEffect(p)
           then == [a \in Answers |->
                  IF a = "ok" THEN Done(p, Claim({put, drop}, {}))
                  ELSE IF a = "rejected" /\ Referenced(svc, proc[p].id) THEN Done(p, Claim({put}, {}))
                  ELSE IF a \in Interrupted THEN Exit(p, Failed(a, Told(a, {put}, drop)))
                  ELSE Exit(p, Failed(a, Claim({put}, {})))]
<1>1. Send(p, m, proc[p].pc, then)
  BY DEF DropTopic
<1>2. Mine(p, m)
  <2>1. Op(m) = "dropTopic"
    BY DEF Op
  <2> QED BY <2>1, OtherMine DEF Ops, ProfileOps
<1>3. ASSUME NEW a \in Answers PROVE Keeps(proc[p], then[a])
  <2>1. \/ \E says : then[a] = Done(p, says)
        \/ \E result : then[a] = Exit(p, result)
    OBVIOUS
  <2> QED BY <2>1, KeepsFacts, DoneKeeps
<1> HIDE DEF m, then
<1> QED BY <1>1, <1>2, <1>3, SendCalm, KeepsIs


\* The listings of a cleanup, and a deletion.
LEMMA ListCalm ==
    ASSUME IInv, NEW p \in Procs, List(p) \/ ListAgain(p)
    PROVE  Calm(p)
<1>1. Kind(p) = "cleanup"
  BY ProcIs DEF List, ListAgain, KindOK, Kind
<1>2. CASE Move(p, [At(p, "delete") EXCEPT !.read = Old(svc.profiles)])
  <2> DEFINE r == [At(p, "delete") EXCEPT !.read = Old(svc.profiles)]
  <2>1. r.cmd = proc[p].cmd /\ r.read = Old(svc.profiles)
    BY AtIs, ProcIs DEF PCs, ProcStates
  <2> HIDE DEF r
  <2>2. Goes(proc[p], r)
    BY <1>1, <2>1 DEF Goes, Drops, Puts, PutKinds, Kind
  <2> QED BY <1>2, <2>2, MoveCalm DEF r
<1>3. CASE Move(p, [At(p, "ask") EXCEPT !.read = svc.profiles])
  <2> DEFINE r == [At(p, "ask") EXCEPT !.read = svc.profiles]
  <2>1. r.cmd = proc[p].cmd /\ r.pc = "ask"
    BY AtIs, ProcIs DEF PCs, ProcStates
  <2> HIDE DEF r
  <2>2. Goes(proc[p], r)
    BY <1>1, <2>1 DEF Goes, Drops, Puts, PutKinds, Kind
  <2> QED BY <1>3, <2>2, MoveCalm DEF r
<1>4. CASE ReadFails(p) \/ Move(p, Stop(p))
  BY <1>4, FailsCalm, StopCalm
<1>5. CASE Move(p, Exit(p, Ok(NothingChanged)))
  BY <1>5, KeepsFacts, KeepCalm
<1> QED BY <1>2, <1>3, <1>4, <1>5 DEF List, ListAgain

LEMMA DeletedStays ==
    ASSUME IInv, NEW p \in Procs, proc[p].pc = "delete", NEW x, NEW status
    PROVE  Stays(proc[p], Deleted(p, x, status))
<1> DEFINE drop == <<"dropProfile", x.id>>
           read == proc[p].read \ {x}
           i == proc[p].i + (IF status = "failed" THEN 1 ELSE 0)
           context == [proc[p].context EXCEPT ![drop] = CASE status = "ok" -> "yes"
                                                          [] status = "unknown" -> "maybe"
                                                          [] OTHER -> @]
           c == [proc[p] EXCEPT !.replayed = FALSE, !.read = read, !.i = i, !.context = context]
           result == IF status = "unknown" \/ c.i > 0
                     THEN Failed("rejected", c.context) ELSE Ok(c.context)
           t == [c EXCEPT !.pc = "exit", !.result = result]
<1>1. {"cmd", "read", "pc"} \subseteq DOMAIN proc[p] /\ proc[p].cmd.kind = "cleanup"
  BY ProcIs DEF ProcStates, KindOK
<1>2. Deleted(p, x, status) = IF status # "unknown" /\ c.read # {} THEN c ELSE t
  BY DEF Deleted
<1>3. read \subseteq proc[p].read
  OBVIOUS
<1> HIDE DEF read, i, context
<1>4. c.cmd = proc[p].cmd /\ c.read = read /\ {"cmd", "read", "pc"} \subseteq DOMAIN c
  BY <1>1
<1> HIDE DEF c, result
<1>5. t.cmd = proc[p].cmd /\ t.pc = "exit"
  BY <1>4
<1> HIDE DEF t
<1>6. Stays(proc[p], c) /\ Stays(proc[p], t)
  BY <1>1, <1>3, <1>4, <1>5 DEF Stays, Drops, Puts, PutKinds
<1> QED BY <1>2, <1>6

LEMMA DeleteOneCalm ==
    ASSUME IInv, NEW p \in Procs, DeleteOne(p)
    PROVE  Calm(p)
<1>1. /\ proc[p].pc = "delete" /\ proc[p].cmd.kind = "cleanup"
      /\ proc[p].read \subseteq Revisions
  BY ProcIs DEF DeleteOne, KindOK, ReadOK
<1>2. CASE Move(p, Interrupt(p))
  BY <1>2, StopCalm
<1>3. ASSUME NEW x \in Latest(proc[p].read),
             Send(p, [by |-> p, effect |-> <<"dropProfile", x.id>>], "delete",
                  [a \in Answers |->
                    CASE a = "unsent" -> Interrupt(p)
                      [] a = "cancelled" ->
                           Exit(p, Failed(a, [proc[p].context EXCEPT
                                                ![<<"dropProfile", x.id>>] = "maybe"]))
                      [] OTHER -> Deleted(p, x, Status(a))])
      PROVE  Calm(p)
  <2> DEFINE e == <<"dropProfile", x.id>>
             m == [by |-> p, effect |-> e]
             then == [a \in Answers |->
                       CASE a = "unsent" -> Interrupt(p)
                         [] a = "cancelled" ->
                              Exit(p, Failed(a, [proc[p].context EXCEPT ![e] = "maybe"]))
                         [] OTHER -> Deleted(p, x, Status(a))]
  <2>1. Send(p, m, proc[p].pc, then)
    BY <1>1, <1>3
  <2>2. x \in proc[p].read /\ x.id \in Ids
    BY <1>1 DEF Latest, Revisions
  <2>3. Op(m) = "dropProfile" /\ Target(m) = x.id /\ WriteOK(m)
    BY <2>2 DEF WriteOK, Op, Target, Effects
  <2>4. Mine(p, m)
    BY <1>1, <2>2, <2>3 DEF Mine, Proper, Ops, Drops
  <2>5. ASSUME NEW a \in Answers PROVE Stays(proc[p], then[a])
    <3>1. \/ \E result : then[a] = Exit(p, result)
          \/ then[a] = Deleted(p, x, Status(a))
      BY DEF Interrupt
    <3> HIDE DEF then
    <3>2. \A result : Stays(proc[p], Exit(p, result))
      BY KeepsFacts, KeepsIs
    <3> QED BY <1>1, <3>1, <3>2, DeletedStays
  <2> HIDE DEF m, then
  <2> QED BY <2>1, <2>4, <2>5, SendCalm
<1> QED BY <1>2, <1>3 DEF DeleteOne

\* A restore plans with the newest revisions.
LEMMA PlanCalm ==
    ASSUME IInv, NEW p \in Procs, PlanProfiles(p) \/ PlanTopics(p)
    PROVE  Calm(p)
<1>1. proc[p].cmd.kind = "restore" /\ {"cmd", "read", "pc"} \subseteq DOMAIN proc[p]
  BY ProcIs DEF PlanProfiles, PlanTopics, KindOK, ProcStates
<1>2. CASE PlanProfiles(p)
  <2> DEFINE read == {r \in Latest(svc.profiles) : r.name \in Elements(proc[p].cmd.profiles)}
             c == [proc[p] EXCEPT !.read = read]
             plan(pc) == [c EXCEPT !.pc = pc]
  <2>1. \/ ReadFails(p) \/ Move(p, Refuse(p))
        \/ \E pc \in {"ask", "recheck", "planTopics"} : Move(p, plan(pc))
    BY <1>2 DEF PlanProfiles, Planned
  <2>2. ASSUME NEW pc \in {"ask", "recheck", "planTopics"} PROVE Goes(proc[p], plan(pc))
    <3>1. read \subseteq Latest(svc.profiles)
      OBVIOUS
    <3> HIDE DEF read
    <3>2. plan(pc).cmd = proc[p].cmd /\ plan(pc).read = read
      BY <1>1
    <3> HIDE DEF plan
    <3> QED BY <1>1, <3>1, <3>2 DEF Goes, Drops, Puts
  <2> HIDE DEF plan
  <2> QED BY <2>1, <2>2, FailsCalm, StopCalm, MoveCalm
<1>3. CASE PlanTopics(p)
  <2> DEFINE known == {t \in svc.topics : t.name \in Topics(proc[p])}
             c == [proc[p] EXCEPT !.known = known]
             plan(pc) == [c EXCEPT !.pc = pc]
  <2>1. \/ ReadFails(p) \/ Move(p, Refuse(p))
        \/ \E pc \in {"ask", "recheck"} : Move(p, plan(pc))
    BY <1>3 DEF PlanTopics, Planned
  <2>2. ASSUME NEW pc \in {"ask", "recheck"} PROVE Keeps(proc[p], plan(pc))
    <3> HIDE DEF known
    <3> QED BY <1>1 DEF Keeps
  <2> HIDE DEF plan
  <2> QED BY <2>1, <2>2, FailsCalm, StopCalm, KeepCalm
<1> QED BY <1>2, <1>3


\* The steps of a restore that write nothing.
LEMMA RestoreCalm ==
    ASSUME IInv, NEW p \in Procs, Recheck(p) \/ Topic(p) \/ Profile(p) \/ VerifyProfile(p)
    PROVE  Calm(p)
<1>1. \A i : Keeps(proc[p], Item(proc[p], i)) /\ Keeps(proc[p], Item([proc[p] EXCEPT !.id = 0], i))
  BY KeepsFacts, KeepsOn
<1>2. \/ ReadFails(p) \/ Move(p, Stop(p)) \/ Move(p, At(p, "postTopic"))
      \/ Move(p, At(p, "writeProfile"))
      \/ \E i : \/ Move(p, Item(proc[p], i))
                \/ Move(p, Item([proc[p] EXCEPT !.id = 0], i))
  BY DEF Recheck, Topic, Profile, VerifyProfile
<1> QED BY <1>1, <1>2, FailsCalm, StopCalm, AtCalm, KeepCalm

LEMMA PostTopicCalm ==
    ASSUME IInv, NEW p \in Procs, PostTopic(p)
    PROVE  Calm(p)
<1> DEFINE t == TopicName(proc[p])
           e == <<"makeTopic", t>>
           known == proc[p].known \cup {[id |-> svc.next, name |-> t, def |-> SourceTopic[t]]}
           m == [by |-> p, effect |-> e, def |-> SourceTopic[t]]
           then == [a \in Answers |->
                     IF a = "ok" THEN Item(Written([proc[p] EXCEPT !.known = known], e), proc[p].i)
                     ELSE WriteFailed(p, a, e)]
<1>1. CASE Move(p, Interrupt(p))
  BY <1>1, StopCalm
<1>2. CASE Send(p, m, proc[p].pc, then)
  <2>1. Mine(p, m)
    <3>1. Op(m) = "makeTopic"
      BY DEF Op
    <3> QED BY <3>1, OtherMine DEF Ops, ProfileOps
  <2> HIDE DEF m, e, known
  <2>2. Keeps(proc[p], Item(Written([proc[p] EXCEPT !.known = known], e), proc[p].i))
    <3>1. Keeps(proc[p], [proc[p] EXCEPT !.known = known])
      BY KeepsFacts, KeepsOn
    <3>2. Keeps(proc[p], Written([proc[p] EXCEPT !.known = known], e))
      BY <3>1, KeepsOn
    <3> QED BY <3>2, KeepsOn
  <2>3. ASSUME NEW a \in Answers PROVE Keeps(proc[p], then[a])
    BY <2>2, KeepsFailed
  <2> HIDE DEF then
  <2> QED BY <1>2, <2>1, <2>3, SendCalm, KeepsIs
<1> QED BY <1>1, <1>2 DEF PostTopic

LEMMA WriteProfileCalm ==
    ASSUME IInv, NEW p \in Procs, WriteProfile(p)
    PROVE  Calm(p)
<1> DEFINE m == ProfileWrite(p)
           id == IF Op(m) = "putProfile" /\ svc.keepsId THEN m.id ELSE svc.next
           then == [a \in Answers |->
                     IF a = "ok" THEN Written([At(p, "verifyProfile") EXCEPT !.id = id], m.effect)
                     ELSE WriteFailed(p, a, m.effect)]
<1>1. proc[p].pc = "writeProfile" /\ proc[p].cmd.kind = "restore"
  BY ProcIs DEF WriteProfile, KindOK
<1>2. CASE Move(p, Interrupt(p))
  BY <1>2, StopCalm
<1>3. CASE Send(p, m, proc[p].pc, then)
  <2>1. Mine(p, m)
    <3>1. /\ WriteOK(m) /\ Op(m) \in {"makeProfile", "putProfile"}
          /\ Op(m) = "putProfile" => \E x \in proc[p].read : m.id = x.id
      BY <1>1, ProfileWriteIs DEF Op, Named
    <3> QED BY <1>1, <3>1 DEF Mine, Proper, Ops, Puts, PutKinds
  <2> HIDE DEF m, id
  <2>2. Keeps(proc[p], Written([At(p, "verifyProfile") EXCEPT !.id = id], m.effect))
    <3>1. Keeps(proc[p], [At(p, "verifyProfile") EXCEPT !.id = id])
      BY KeepsFacts, KeepsOn
    <3> QED BY <3>1, KeepsOn
  <2>3. ASSUME NEW a \in Answers PROVE Keeps(proc[p], then[a])
    BY <2>2, KeepsFailed
  <2> HIDE DEF then
  <2> QED BY <1>3, <2>1, <2>3, SendCalm, KeepsIs
<1> QED BY <1>2, <1>3 DEF WriteProfile

\* The commands that are about no revisions have none to delete or to PUT.
LEMMA NoRevisions ==
    ASSUME IInv, NEW p \in Procs, Kind(p) \notin PutKinds \cup {"cleanup"},
           NEW r, r.cmd = proc[p].cmd
    PROVE  Stays(proc[p], r)
  BY DEF Stays, Drops, Puts, PutKinds, Kind

\* The edits of DLP resources.
LEMMA DlpEditCalm ==
    ASSUME IInv, NEW p \in Procs, GuardDlp(p) \/ EditDlp(p)
    PROVE  Calm(p)
<1>1. CASE GuardDlp(p)
  <2>1. \/ ReadFails(p) \/ Move(p, Stop(p))
        \/ \E pc \in {"editDlp", "ask"} : Move(p, At(p, pc))
    BY <1>1 DEF GuardDlp
  <2> QED BY <2>1, FailsCalm, StopCalm, AtCalm
<1>2. CASE EditDlp(p)
  <2> DEFINE m == DlpEdit(p)
             then == [a \in Answers |->
                        IF a = "ok" THEN Done(p, Claim({m.effect}, {}))
                        ELSE Exit(p, Failed(a, Told(a, {}, m.effect)))]
  <2>1. Send(p, m, proc[p].pc, then)
    BY <1>2 DEF EditDlp
  <2>2. Mine(p, m)
    <3>1. Op(m) \in {"makeDlp", "dropDlp", "putDlp"}
      BY DEF DlpEdit, Op
    <3> QED BY <3>1, OtherMine DEF Ops, ProfileOps
  <2>3. ASSUME NEW a \in Answers PROVE Keeps(proc[p], then[a])
    <3>1. (\E says : then[a] = Done(p, says)) \/ \E result : then[a] = Exit(p, result)
      OBVIOUS
    <3> HIDE DEF then
    <3> QED BY <3>1, KeepsFacts, DoneKeeps
  <2> HIDE DEF m, then
  <2> QED BY <2>1, <2>2, <2>3, SendCalm, KeepsIs
<1> QED BY <1>1, <1>2

LEMMA SweepDlpCalm ==
    ASSUME IInv, NEW p \in Procs, SweepDlp(p)
    PROVE  Calm(p)
<1>1. /\ Kind(p) \notin PutKinds \cup {"cleanup"}
      /\ {"cmd", "read", "pc"} \subseteq DOMAIN proc[p]
  BY ProcIs DEF SweepDlp, KindOK, Kind, PutKinds, ProcStates
<1> DEFINE known == proc[p].known \cup {o \in svc.dlp : DlpKind[o.name] = DlpKinds[proc[p].i + 1]}
           i == proc[p].i + 1
           c == [proc[p] EXCEPT !.known = known, !.i = i]
           plan == [c EXCEPT !.read = c.known, !.known = {}, !.i = 0]
           again == [c EXCEPT !.known = {}]
           asked(pc) == [plan EXCEPT !.pc = pc]
<1>2. \/ ReadFails(p) \/ Move(p, c) \/ Move(p, Refuse(p)) \/ Move(p, Stop(p))
      \/ (\E pc : Move(p, asked(pc))) \/ Move(p, DlpItem(again, 0))
  BY DEF SweepDlp, DlpPlanned, Rechecked
<1> HIDE DEF known, i
<1>3. c.cmd = proc[p].cmd /\ Keeps(proc[p], again) /\ {"cmd", "read", "pc"} \subseteq DOMAIN c
  <2>1. /\ c.cmd = proc[p].cmd /\ c.read = proc[p].read /\ c.pc = proc[p].pc
        /\ {"cmd", "read", "pc"} \subseteq DOMAIN c
    BY <1>1
  <2> HIDE DEF c
  <2> QED BY <2>1 DEF Keeps
<1> HIDE DEF c, again
<1>4. \A pc : asked(pc).cmd = proc[p].cmd
  <2>1. plan.cmd = proc[p].cmd /\ {"cmd", "read", "pc"} \subseteq DOMAIN plan
    BY <1>3
  <2> HIDE DEF plan
  <2> QED BY <2>1
<1> HIDE DEF asked
<1>5. CASE Move(p, c) \/ \E pc : Move(p, asked(pc))
  BY <1>1, <1>3, <1>4, <1>5, NoRevisions, KeepsIs, MoveCalm
<1>6. CASE Move(p, DlpItem(again, 0))
  BY <1>3, <1>6, KeepsOn, KeepCalm
<1> QED BY <1>2, <1>5, <1>6, FailsCalm, StopCalm

LEMMA CreateDlpCalm ==
    ASSUME IInv, NEW p \in Procs, CreateDlp(p)
    PROVE  Calm(p)
<1> DEFINE n == DlpName(proc[p])
           name == IF proc[p].pc = "copyDlp" THEN Suffixed[n] ELSE n
           body == DlpBody(proc[p], n)
           m == [by |-> p, effect |-> <<"makeDlp", name>>, refs |-> body.refs,
                 body |-> body.body]
           id == svc.next
           then(conflict) ==
             [a \in Answers |->
               IF a = "ok"
               THEN Written([At(p, "verifyDlp") EXCEPT !.id = id], m.effect)
               ELSE IF /\ a = "rejected" /\ conflict /\ proc[p].pc = "createDlp"
                       /\ DlpKind[n] = "profile" /\ proc[p].cmd.conflict = "reconcile"
               THEN At(p, "copyDlp")
               ELSE WriteFailed(p, a, m.effect)]
<1>1. CASE Move(p, Interrupt(p))
  BY <1>1, StopCalm
<1>2. ASSUME NEW conflict, Send(p, m, proc[p].pc, then(conflict))
      PROVE  Calm(p)
  <2>1. Mine(p, m)
    <3>1. Op(m) = "makeDlp"
      BY DEF Op
    <3> QED BY <3>1, OtherMine DEF Ops, ProfileOps
  <2> HIDE DEF m, id
  <2>2. Keeps(proc[p], Written([At(p, "verifyDlp") EXCEPT !.id = id], m.effect))
    <3>1. Keeps(proc[p], [At(p, "verifyDlp") EXCEPT !.id = id])
      BY KeepsFacts, KeepsOn
    <3> QED BY <3>1, KeepsOn
  <2>3. Keeps(proc[p], At(p, "copyDlp"))
    BY KeepsFacts
  <2>4. ASSUME NEW a \in Answers PROVE Keeps(proc[p], then(conflict)[a])
    <3>1. \/ then(conflict)[a] = Written([At(p, "verifyDlp") EXCEPT !.id = id], m.effect)
          \/ then(conflict)[a] = At(p, "copyDlp")
          \/ then(conflict)[a] = WriteFailed(p, a, m.effect)
      OBVIOUS
    <3> HIDE DEF then
    <3> QED BY <2>2, <2>3, <3>1, KeepsFailed
  <2> HIDE DEF then
  <2> QED BY <1>2, <2>1, <2>4, SendCalm, KeepsIs
<1>3. Move(p, Interrupt(p)) \/ \E conflict \in {FALSE, Taken(svc, name)} :
                                 Send(p, m, proc[p].pc, then(conflict))
  BY DEF CreateDlp
<1> QED BY <1>1, <1>2, <1>3

LEMMA VerifyDlpCalm ==
    ASSUME IInv, NEW p \in Procs, VerifyDlp(p)
    PROVE  Calm(p)
<1>1. \/ ReadFails(p) \/ Move(p, Stop(p))
      \/ \E known, i : Move(p, DlpItem([proc[p] EXCEPT !.known = known], i))
  BY DEF VerifyDlp
<1>2. \A known, i : Keeps(proc[p], DlpItem([proc[p] EXCEPT !.known = known], i))
  BY KeepsFacts, KeepsOn
<1> QED BY <1>1, <1>2, FailsCalm, StopCalm, KeepCalm

\* The end of a command, and a signal.
LEMMA EndCalm ==
    ASSUME IInv, NEW p \in Procs, Report(p, proc[p].result.says) \/ Signal(p)
    PROVE  Calm(p)
<1>1. CASE Report(p, proc[p].result.says)
  <2> DEFINE report == Printed(proc[p].result, p \in signal, proc[p].committed,
                               proc[p].result.says, proc[p].context)
  <2>1. Move(p, [At(p, "ended") EXCEPT !.report = report])
    BY <1>1 DEF Report
  <2> HIDE DEF report
  <2>2. Keeps(proc[p], At(p, "ended"))
    BY KeepsFacts
  <2>3. Keeps(proc[p], [At(p, "ended") EXCEPT !.report = report])
    BY <2>2 DEF Keeps
  <2> QED BY <2>1, <2>3, KeepCalm
<1>2. CASE Signal(p)
  <2>1. proc' = proc /\ svc' = svc /\ wire' = wire
    BY <1>2 DEF Signal, world
  <2>2. proc' = [proc EXCEPT ![p] = proc[p]]
    BY <2>1 DEF IInv, Typed
  <2>3. Goes(proc[p], proc[p])
    BY DEF Goes
  <2> QED BY <2>1, <2>2, <2>3 DEF Calm, CalmMove
<1> QED BY <1>1, <1>2

\* The commands of API keys.
LEMMA KeyCalm ==
    ASSUME IInv, NEW p \in Procs, KeyStep(p)
    PROVE  Calm(p)
<1>1. CASE CheckKeyFile(p) \/ ReserveKey(p)
  <2>1. \/ ReadFails(p) \/ Move(p, Stop(p))
        \/ \E pc \in {"ask", "reserve", "writeKey"} : Move(p, At(p, pc))
    BY <1>1 DEF CheckKeyFile, ReserveKey
  <2> QED BY <2>1, FailsCalm, StopCalm, AtCalm
<1>2. CASE WriteKey(p)
  <2> DEFINE m == [by |-> p, effect |-> KeyEffect(p)]
             then == [a \in Answers |->
                       IF a # "ok" THEN Exit(p, Failed(a, Told(a, {}, KeyEffect(p))))
                       ELSE IF WritesKey(p) THEN AnswerRead(p)
                       ELSE Done(p, Claim({KeyEffect(p)}, {}))]
  <2>1. Send(p, m, proc[p].pc, then)
    BY <1>2 DEF WriteKey
  <2>2. Mine(p, m)
    <3>1. Kind(p) \in {"keyCreate", "keyRotate", "keyDelete"}
      BY <1>2, ProcIs DEF WriteKey, KindOK, Kind
    <3>2. Op(m) \in {"makeKey", "rotateKey", "dropKey"}
      BY <3>1 DEF KeyEffect, Op
    <3> QED BY <3>2, OtherMine DEF Ops, ProfileOps
  <2>3. Keeps(proc[p], AnswerRead(p))
    <3> DEFINE k == [At(p, "saveKey") EXCEPT !.id = svc.next]
               context == Claim({KeyEffect(p)}, {})
    <3>1. Keeps(proc[p], k)
      BY KeepsFacts, KeepsOn
    <3>2. AnswerRead(p) = [k EXCEPT !.context = context]
      BY DEF AnswerRead
    <3> HIDE DEF k, context
    <3> QED BY <3>1, <3>2 DEF Keeps
  <2>4. ASSUME NEW a \in Answers PROVE Keeps(proc[p], then[a])
    <3>1. \/ (\E says : then[a] = Done(p, says)) \/ (\E result : then[a] = Exit(p, result))
          \/ then[a] = AnswerRead(p)
      OBVIOUS
    <3> HIDE DEF then
    <3> QED BY <2>3, <3>1, KeepsFacts, DoneKeeps
  <2> HIDE DEF m, then
  <2> QED BY <2>1, <2>2, <2>4, SendCalm, KeepsIs
<1>3. CASE SaveKey(p)
  <2>1. CASE Move(p, Exit(p, Failed("unreadable", Claim({KeyEffect(p)}, {}))))
    BY <2>1, KeepsFacts, KeepCalm
  <2>2. ASSUME NEW where, NEW result, Stored(p, where, result) PROVE Calm(p)
    <3> DEFINE says == Claim({KeyEffect(p), <<where, Path(p)>>}, {})
               t == Exit(p, [kind |-> result, says |-> says])
               r == [t EXCEPT !.context = says]
    <3>1. proc' = [proc EXCEPT ![p] = r] /\ svc' = svc /\ wire' = wire
      BY <2>2 DEF Stored, Set
    <3>2. Keeps(proc[p], t)
      BY KeepsFacts
    <3> HIDE DEF t, says
    <3>3. Keeps(proc[p], r)
      BY <3>2 DEF Keeps
    <3> HIDE DEF r
    <3> QED BY <3>1, <3>3, KeepsIs DEF Calm, CalmMove
  <2> QED BY <1>3, <2>1, <2>2 DEF SaveKey
<1> QED BY <1>1, <1>2, <1>3 DEF KeyStep

LEMMA StepCalm ==
    ASSUME IInv, NEW p \in Procs, Step(p) \/ KeyStep(p)
    PROVE  Calm(p)
  BY StartCalm, FindTopicCalm, FindProfileCalm, WriteEditCalm, DropTopicCalm, ListCalm,
     DeleteOneCalm, PlanCalm, RestoreCalm, PostTopicCalm, WriteProfileCalm, DlpEditCalm,
     SweepDlpCalm, CreateDlpCalm, VerifyDlpCalm, EndCalm, KeyCalm DEF Step


-----------------------------------------------------------------------------
(* The theorem *)

CleanInv == IInv /\ (NoDeletes => CleanOK)

LEMMA CleanStart == Init => (NoDeletes => CleanOK)
<1> SUFFICES ASSUME Init PROVE CleanOK
  OBVIOUS
<1>1. PICK s \in Starts : proc = [p \in Procs |-> NewProc(s.plan[p])]
  BY DEF Init
<1>2. \A p \in Procs : Drops(proc[p]) = {} /\ Puts(proc[p]) = {}
  BY <1>1 DEF Drops, Puts, NewProc
<1>3. wire = {}
  BY DEF Init
<1> QED BY <1>2, <1>3 DEF CleanOK, Dropping, Putting

LEMMA CleanStep ==
    ASSUME CleanInv, Next
    PROVE  NoDeletes' => CleanOK'
<1>1. \/ \E p \in Procs : Step(p) \/ KeyStep(p)
      \/ \E m \in wire : Arrive(m)
  BY DEF Next
<1> QED BY <1>1, StepCalm, CalmMoveOK, CalmSendOK, ArriveOK DEF CleanInv, Calm

LEMMA CleanInductive == Spec => []CleanInv
<1>1. ASSUME CleanInv, UNCHANGED vars PROVE (NoDeletes => CleanOK)'
  BY <1>1 DEF CleanInv, vars, NoDeletes, Kind, CleanOK, Dropping, Putting
<1>2. ASSUME CleanInv, Next PROVE (NoDeletes => CleanOK)'
  BY <1>2, CleanStep
<1>3. ASSUME CleanInv, IInv', [Next]_vars PROVE CleanInv'
  BY <1>1, <1>2, <1>3 DEF CleanInv
<1>4. Init => CleanInv
  BY InitInv, CleanStart DEF CleanInv
<1> QED BY <1>3, <1>4, Inductive, PTL DEF Spec

\* RuntimeAdmin.CleanupKeepsNewest: whatever edits, restores and other cleanups
\* run beside it and however late its deletions arrive, a cleanup deletes no
\* revision that has no newer one, unless somebody deletes profiles by hand.
THEOREM NewestKept == Spec => CleanupKeepsNewest
<1>1. ASSUME CleanInv, Next,
             NEW p \in Procs, proc'[p] # proc[p], \A q \in Procs : Kind(q) # "profilesDelete",
             NEW r \in svc.profiles \ svc'.profiles
      PROVE  \E q \in svc'.profiles : q.name = r.name /\ q.rev > r.rev
  <2>1. NoDeletes /\ CleanOK
    BY <1>1 DEF CleanInv, NoDeletes
  <2>2. PICK q \in Procs : Step(q) \/ KeyStep(q)
    BY <1>1 DEF Next, Arrive
  <2> QED BY <1>1, <2>1, <2>2, StepCalm, CalmProperty DEF CleanInv
<1>2. CleanInv /\ [Next]_vars =>
        [\A p \in Procs :
           Kind(p) = "cleanup" /\ proc'[p] # proc[p]
           /\ (\A q \in Procs : Kind(q) # "profilesDelete")
             => \A r \in svc.profiles \ svc'.profiles :
                  \E q \in svc'.profiles : q.name = r.name /\ q.rev > r.rev]_vars
  BY <1>1
<1> QED BY <1>2, CleanInductive, PTL DEF Spec, CleanupKeepsNewest

-----------------------------------------------------------------------------
(* What a write may overwrite *)

Edits == {"apply", "revert", "profilesUpdate"}

\* What the last read of a process showed, before it writes.
ReadHolds(s, r) ==
    /\ r.pc = "postTopic" => Named(s.topics, TopicName(r)) = {}
    /\ r.pc = "writeProfile" =>
         Named(Latest(s.profiles), ProfileName(r)) = Named(r.read, ProfileName(r))
    /\ r.pc = "write" /\ r.cmd.kind \in Edits =>
         r.read \subseteq Highest(Named(s.profiles, r.cmd.n))

WindowOK == \A p \in Procs : p \notin stale => ReadHolds(svc, proc[p])

\* Not about to write.
Away(r) == "pc" \in DOMAIN r /\ r.pc \notin {"write", "postTopic", "writeProfile"}

\* The same write, sent again.
Same(c, r) ==
    r.pc = c.pc /\ r.cmd = c.cmd /\ r.read = c.read /\ r.i = c.i

\* A step of process p: where it comes to a write it has just looked.
Looks(p) ==
    \E r : /\ proc' = [proc EXCEPT ![p] = r]
           /\ \/ Away(r) \/ (r.pc = "write" /\ r.cmd.kind \notin Edits)
              \/ svc' = svc /\ (ReadHolds(svc, r) \/ Same(proc[p], r))

LEMMA LooksOK ==
    ASSUME IInv, WindowOK, NEW p \in Procs, Looks(p), Observe({p})
    PROVE  WindowOK'
<1>1. PICK r : /\ proc' = [proc EXCEPT ![p] = r]
               /\ \/ Away(r) \/ (r.pc = "write" /\ r.cmd.kind \notin Edits)
                  \/ svc' = svc /\ (ReadHolds(svc, r) \/ Same(proc[p], r))
  BY DEF Looks
<1>2. proc'[p] = r /\ \A q \in Procs : q # p => proc'[q] = proc[q]
  BY <1>1 DEF IInv, Typed
<1> SUFFICES ASSUME NEW q \in Procs, q \notin stale' PROVE ReadHolds(svc', proc'[q])
  BY DEF WindowOK, ReadHolds
<1>3. CASE Away(proc'[q]) \/ (proc'[q].pc = "write" /\ proc'[q].cmd.kind \notin Edits)
  BY <1>3 DEF Away, ReadHolds
<1>4. CASE ~Away(proc'[q]) /\ q # p
  <2>1. Writing(proc'[q]) \/ "pc" \notin DOMAIN proc[q]
    BY <1>2, <1>4 DEF Away, Writing
  <2>2. "pc" \in DOMAIN proc[q]
    BY ProcIs DEF ProcStates
  <2>3. q \notin stale /\ svc' = svc
    BY <1>4, <2>1, <2>2, <1>2 DEF Observe
  <2> QED BY <1>2, <1>4, <2>3 DEF WindowOK
<1>5. CASE ~Away(proc'[q]) /\ ~(proc'[q].pc = "write" /\ proc'[q].cmd.kind \notin Edits) /\ q = p
  <2>1. svc' = svc /\ (ReadHolds(svc, r) \/ Same(proc[p], r))
    BY <1>1, <1>2, <1>5
  <2>2. CASE ReadHolds(svc, r)
    BY <1>2, <1>5, <2>1, <2>2
  <2>3. CASE Same(proc[p], r)
    <3>1. "pc" \in DOMAIN proc[p]
      BY ProcIs DEF ProcStates
    <3>2. Writing(proc'[p]) \/ Away(proc[p])
      BY <1>2, <2>3, <3>1 DEF Away, Writing, Same
    <3>3. CASE Away(proc[p])
      BY <1>2, <1>5, <2>3, <3>3 DEF Away, Same, ReadHolds
    <3>4. CASE Writing(proc'[p])
      <4>1. p \notin stale
        BY <1>5, <3>4 DEF Observe
      <4>2. ReadHolds(svc, proc[p])
        BY <4>1 DEF WindowOK
      <4> QED BY <1>2, <1>5, <2>1, <2>3, <4>2 DEF ReadHolds, Same, TopicName, ProfileName
    <3> QED BY <3>2, <3>3, <3>4
  <2> QED BY <2>1, <2>2, <2>3
<1> QED BY <1>3, <1>4, <1>5

\* Where a process goes that does not write next.
LEMMA AwayFacts ==
    ASSUME IInv, NEW p \in Procs
    PROVE  /\ \A pc : pc \notin {"write", "postTopic", "writeProfile"} => Away(At(p, pc))
           /\ \A result : Away(Exit(p, result))
           /\ \A says : Away(Done(p, says))
           /\ \A a, e : Away(WriteFailed(p, a, e))
           /\ Away(Refuse(p))
<1>1. {"pc", "committed", "context", "refused"} \subseteq DOMAIN proc[p]
  BY ProcIs DEF ProcStates
<1>2. /\ \A pc : pc \notin {"write", "postTopic", "writeProfile"} => Away(At(p, pc))
      /\ \A result : Away(Exit(p, result))
  BY <1>1 DEF Away, At, Exit
<1>3. \A says : Away(Done(p, says))
  BY <1>2 DEF Away, Done
<1>4. \A a, e : Away(WriteFailed(p, a, e))
  <2> SUFFICES ASSUME NEW a, NEW e PROVE Away(WriteFailed(p, a, e))
    OBVIOUS
  <2> DEFINE done == {d \in Effects : proc[p].context[d] = "yes"}
             r == Exit(p, Failed(a, Told(a, done, e)))
             context == [r.context EXCEPT ![e] = IF a \in InDoubt \cup {"unreadable"} THEN "maybe" ELSE @]
  <2>1. Away(r)
    BY <1>2
  <2>2. WriteFailed(p, a, e) = [r EXCEPT !.context = context]
    BY DEF WriteFailed
  <2> HIDE DEF r, context
  <2> QED BY <2>1, <2>2 DEF Away
<1>5. Away(Refuse(p))
  BY <1>2 DEF Away, Refuse, Stop
<1> QED BY <1>2, <1>3, <1>4, <1>5

LEMMA AwayOn ==
    ASSUME NEW r, "pc" \in DOMAIN r
    PROVE  /\ \A i : Away(Item(r, i))
           /\ \A e : "pc" \in DOMAIN Written(r, e) /\ (Away(r) => Away(Written(r, e)))
           /\ \A id : Away(r) => Away([r EXCEPT !.id = id])
<1>1. \A i : Away(Item(r, i))
  BY DEF Away, Item
<1>2. \A e : "pc" \in DOMAIN Written(r, e) /\ (Away(r) => Away(Written(r, e)))
  BY DEF Away, Written
<1>3. \A id : Away(r) => Away([r EXCEPT !.id = id])
  BY DEF Away
<1> QED BY <1>1, <1>2, <1>3

LEMMA MoveLooks ==
    ASSUME NEW p \in Procs, NEW r, Move(p, r), Away(r) \/ ReadHolds(svc, r)
    PROVE  Looks(p)
  BY DEF Move, Set, world, Looks

LEMMA SendLooks ==
    ASSUME IInv, NEW p \in Procs, NEW m, NEW then, Send(p, m, proc[p].pc, then),
           \A a \in Answers : Away(then[a])
    PROVE  Looks(p)
<1> DEFINE again == [At(p, proc[p].pc) EXCEPT !.replayed = TRUE]
<1>1. PICK a \in Possible(p \in signal) :
        /\ svc' = IF a \in Carried THEN After(svc, m) ELSE svc
        /\ Set(p, IF Replays(a, proc[p].replayed) THEN again ELSE then[a])
  BY DEF Send
<1>2. a \in Answers
  BY DEF Possible, Interrupted, Answers
<1>3. Same(proc[p], again)
  <2>1. {"cmd", "read", "pc", "i"} \subseteq DOMAIN proc[p]
    BY ProcIs DEF ProcStates
  <2> QED BY <2>1 DEF Same, At
<1> HIDE DEF again
<1>4. Replays(a, proc[p].replayed) => a \notin Carried
  BY DEF Replays, Carried
<1> QED BY <1>1, <1>2, <1>3, <1>4 DEF Set, Looks

LEMMA FailsLooks ==
    ASSUME IInv, NEW p \in Procs,
           ReadFails(p) \/ Move(p, Stop(p)) \/ Move(p, Interrupt(p)) \/ Move(p, Refuse(p))
    PROVE  Looks(p)
  BY AwayFacts, MoveLooks DEF ReadFails, Stop, Interrupt

LEMMA EndLooks ==
    ASSUME IInv, NEW p \in Procs, Report(p, proc[p].result.says) \/ Signal(p)
    PROVE  Looks(p)
<1>1. CASE Report(p, proc[p].result.says)
  <2> DEFINE report == Printed(proc[p].result, p \in signal, proc[p].committed,
                               proc[p].result.says, proc[p].context)
  <2>1. Move(p, [At(p, "ended") EXCEPT !.report = report])
    BY <1>1 DEF Report
  <2> HIDE DEF report
  <2>2. Away(At(p, "ended"))
    BY AwayFacts
  <2>3. Away([At(p, "ended") EXCEPT !.report = report])
    BY <2>2 DEF Away
  <2> QED BY <2>1, <2>3, MoveLooks
<1>2. CASE Signal(p)
  <2>1. proc' = proc /\ svc' = svc
    BY <1>2 DEF Signal, world
  <2>2. proc' = [proc EXCEPT ![p] = proc[p]]
    BY <2>1 DEF IInv, Typed
  <2> QED BY <2>1, <2>2 DEF Looks, Same
<1> QED BY <1>1, <1>2

LEMMA StartLooks ==
    ASSUME IInv, NEW p \in Procs, Kind(p) \in Edits \cup {"restore"},
           Start(p) \/ Connect(p) \/ Confirm(p)
    PROVE  Looks(p)
<1>1. FirstStep(p) \notin {"write", "postTopic", "writeProfile"}
  BY DEF FirstStep, Edits
<1>2. CASE Confirm(p)
  <2>1. Kind(p) \in {"revert", "restore"}
    BY <1>2, ProcIs DEF Confirm, KindOK, Kind, Edits
  <2>2. Confirmed(p) \notin {"write", "postTopic", "writeProfile"}
    BY <2>1 DEF Confirmed
  <2> QED BY <1>2, <2>2, AwayFacts, MoveLooks DEF Confirm, Interrupt
<1>3. CASE Start(p) \/ Connect(p)
  BY <1>1, <1>3, AwayFacts, MoveLooks, FailsLooks DEF Start, Connect
<1> QED BY <1>2, <1>3

\* An edit looks its profile up and writes.
LEMMA FindTopicLooks ==
    ASSUME IInv, NEW p \in Procs, Kind(p) # "topicsCreate", FindTopic(p)
    PROVE  Looks(p)
<1>1. ASSUME NEW t \in NamedTopics(p), NEW pc \in {"ask", "findProfile"},
             Move(p, [At(p, pc) EXCEPT !.id = t.id, !.known = NamedTopics(p)])
      PROVE  Looks(p)
  <2>1. Away([At(p, pc) EXCEPT !.id = t.id, !.known = NamedTopics(p)])
    <3>1. Away(At(p, pc))
      BY AwayFacts
    <3> QED BY <3>1 DEF Away
  <2> QED BY <1>1, <2>1, MoveLooks
<1>2. \/ ReadFails(p) \/ Move(p, Stop(p))
      \/ \E t \in NamedTopics(p), pc \in {"ask", "findProfile"} :
           Move(p, [At(p, pc) EXCEPT !.id = t.id, !.known = NamedTopics(p)])
  BY DEF FindTopic
<1> QED BY <1>1, <1>2, FailsLooks

LEMMA FindProfileLooks ==
    ASSUME IInv, NEW p \in Procs, Kind(p) \in Edits, FindProfile(p)
    PROVE  Looks(p)
<1>1. ASSUME NEW x \in NamedProfiles(p), Move(p, [At(p, "write") EXCEPT !.read = {x}])
      PROVE  Looks(p)
  <2> DEFINE r == [At(p, "write") EXCEPT !.read = {x}]
  <2>1. r.cmd = proc[p].cmd /\ r.read = {x} /\ r.pc = "write"
    BY AtIs, ProcIs DEF PCs, ProcStates
  <2> HIDE DEF r
  <2>2. ReadHolds(svc, r)
    BY <2>1 DEF ReadHolds, NamedProfiles
  <2> QED BY <1>1, <2>2, MoveLooks DEF r
<1>2. \/ ReadFails(p) \/ Move(p, Stop(p)) \/ Move(p, Exit(p, Ok(NothingChanged)))
      \/ \E x \in NamedProfiles(p) : Move(p, [At(p, "write") EXCEPT !.read = {x}])
  BY DEF FindProfile, Edits
<1> QED BY <1>1, <1>2, FailsLooks, AwayFacts, MoveLooks

LEMMA WriteEditLooks ==
    ASSUME IInv, NEW p \in Procs, WriteEdit(p) \/ DropTopic(p)
    PROVE  Looks(p)
<1>1. CASE WriteEdit(p)
  <2> DEFINE then == [a \in Answers |->
                IF a # "ok" THEN Exit(p, Failed(a, Told(a, {}, EditEffect(p))))
                ELSE IF Kind(p) = "revert"
                THEN [At(p, "drop") EXCEPT !.context = Claim({EditEffect(p)}, {})]
                ELSE Done(p, Claim({EditEffect(p)}, {}))]
  <2>1. Send(p, Edit(p), proc[p].pc, then)
    BY <1>1 DEF WriteEdit
  <2>2. Away([At(p, "drop") EXCEPT !.context = Claim({EditEffect(p)}, {})])
    <3>1. Away(At(p, "drop"))
      BY AwayFacts
    <3> QED BY <3>1 DEF Away
  <2>3. ASSUME NEW a \in Answers PROVE Away(then[a])
    BY <2>2, AwayFacts
  <2> HIDE DEF then
  <2> QED BY <2>1, <2>3, SendLooks
<1>2. CASE DropTopic(p)
  <2> DEFINE put == EditEffect(p)
             drop == <<"dropTopic", proc[p].id>>
             m == [by |-> p, effect |-> drop, force |-> FALSE]
             then == [a \in Answers |->
                    IF a = "ok" THEN Done(p, Claim({put, drop}, {}))
                    ELSE IF a = "rejected" /\ Referenced(svc, proc[p].id) THEN Done(p, Claim({put}, {}))
                    ELSE IF a \in Interrupted THEN Exit(p, Failed(a, Told(a, {put}, drop)))
                    ELSE Exit(p, Failed(a, Claim({put}, {})))]
  <2>1. Send(p, m, proc[p].pc, then)
    BY <1>2 DEF DropTopic
  <2>2. ASSUME NEW a \in Answers PROVE Away(then[a])
    BY AwayFacts
  <2> HIDE DEF then
  <2> QED BY <2>1, <2>2, SendLooks
<1> QED BY <1>1, <1>2

\* A restore looks at each item again and writes.
LEMMA PlanLooks ==
    ASSUME IInv, NEW p \in Procs, PlanProfiles(p) \/ PlanTopics(p)
    PROVE  Looks(p)
<1>1. "pc" \in DOMAIN proc[p]
  BY ProcIs DEF ProcStates
<1>2. ASSUME NEW read, NEW known, NEW pc \in {"ask", "recheck", "planTopics"},
             \/ Move(p, [proc[p] EXCEPT !.read = read, !.pc = pc])
             \/ Move(p, [proc[p] EXCEPT !.known = known, !.pc = pc])
      PROVE  Looks(p)
  <2>1. /\ Away([proc[p] EXCEPT !.read = read, !.pc = pc])
        /\ Away([proc[p] EXCEPT !.known = known, !.pc = pc])
    BY <1>1 DEF Away
  <2> QED BY <1>2, <2>1, MoveLooks
<1>3. \/ ReadFails(p) \/ Move(p, Refuse(p))
      \/ \E read, known : \E pc \in {"ask", "recheck", "planTopics"} :
           \/ Move(p, [proc[p] EXCEPT !.read = read, !.pc = pc])
           \/ Move(p, [proc[p] EXCEPT !.known = known, !.pc = pc])
  BY DEF PlanProfiles, PlanTopics, Planned
<1> QED BY <1>2, <1>3, FailsLooks

LEMMA ItemLooks ==
    ASSUME IInv, NEW p \in Procs, Recheck(p) \/ Topic(p) \/ Profile(p) \/ VerifyProfile(p)
    PROVE  Looks(p)
<1>1. {"pc", "cmd", "read", "i"} \subseteq DOMAIN proc[p]
  BY ProcIs DEF ProcStates
<1>2. \A i : Away(Item(proc[p], i)) /\ Away(Item([proc[p] EXCEPT !.id = 0], i))
  BY <1>1, AwayOn
<1>3. CASE Move(p, At(p, "postTopic")) /\ Named(svc.topics, TopicName(proc[p])) = {}
  <2> DEFINE r == At(p, "postTopic")
  <2>1. r.pc = "postTopic" /\ r.cmd = proc[p].cmd /\ r.i = proc[p].i
    BY AtIs DEF PCs
  <2> HIDE DEF r
  <2>2. ReadHolds(svc, r)
    BY <1>3, <2>1 DEF ReadHolds, TopicName
  <2> QED BY <1>3, <2>2, MoveLooks DEF r
<1>4. CASE Move(p, At(p, "writeProfile")) /\ ~Changed(proc[p], ProfileName(proc[p]))
  <2> DEFINE r == At(p, "writeProfile")
  <2>1. r.pc = "writeProfile" /\ r.cmd = proc[p].cmd /\ r.i = proc[p].i /\ r.read = proc[p].read
    BY AtIs DEF PCs
  <2> HIDE DEF r
  <2>2. ReadHolds(svc, r)
    BY <1>4, <2>1 DEF ReadHolds, ProfileName, Changed
  <2> QED BY <1>4, <2>2, MoveLooks DEF r
<1>5. \/ ReadFails(p) \/ Move(p, Stop(p))
      \/ Move(p, At(p, "postTopic")) /\ Named(svc.topics, TopicName(proc[p])) = {}
      \/ Move(p, At(p, "writeProfile")) /\ ~Changed(proc[p], ProfileName(proc[p]))
      \/ \E i : Move(p, Item(proc[p], i)) \/ Move(p, Item([proc[p] EXCEPT !.id = 0], i))
  BY DEF Recheck, Topic, Profile, VerifyProfile
<1> QED BY <1>2, <1>3, <1>4, <1>5, FailsLooks, MoveLooks

LEMMA WriteItemLooks ==
    ASSUME IInv, NEW p \in Procs, PostTopic(p) \/ WriteProfile(p)
    PROVE  Looks(p)
<1>1. "pc" \in DOMAIN proc[p]
  BY ProcIs DEF ProcStates
<1>2. CASE PostTopic(p)
  <2> DEFINE t == TopicName(proc[p])
             e == <<"makeTopic", t>>
             known == proc[p].known \cup {[id |-> svc.next, name |-> t, def |-> SourceTopic[t]]}
             m == [by |-> p, effect |-> e, def |-> SourceTopic[t]]
             c == [proc[p] EXCEPT !.known = known]
             then == [a \in Answers |->
                       IF a = "ok" THEN Item(Written(c, e), proc[p].i)
                       ELSE WriteFailed(p, a, e)]
  <2>1. Move(p, Interrupt(p)) \/ Send(p, m, proc[p].pc, then)
    BY <1>2 DEF PostTopic
  <2>2. "pc" \in DOMAIN c
    BY <1>1
  <2> HIDE DEF m, e, c
  <2>3. Away(Item(Written(c, e), proc[p].i))
    BY <2>2, AwayOn
  <2>4. ASSUME NEW a \in Answers PROVE Away(then[a])
    BY <2>3, AwayFacts
  <2> HIDE DEF then
  <2> QED BY <2>1, <2>4, SendLooks, FailsLooks
<1>3. CASE WriteProfile(p)
  <2> DEFINE m == ProfileWrite(p)
             id == IF Op(m) = "putProfile" /\ svc.keepsId THEN m.id ELSE svc.next
             r == [At(p, "verifyProfile") EXCEPT !.id = id]
             then == [a \in Answers |->
                       IF a = "ok" THEN Written(r, m.effect) ELSE WriteFailed(p, a, m.effect)]
  <2>1. Move(p, Interrupt(p)) \/ Send(p, m, proc[p].pc, then)
    BY <1>3 DEF WriteProfile
  <2> HIDE DEF m, id
  <2>2. Away(r)
    <3>1. Away(At(p, "verifyProfile"))
      BY AwayFacts
    <3> QED BY <3>1 DEF Away
  <2> HIDE DEF r
  <2>3. Away(Written(r, m.effect))
    BY <2>2, AwayOn DEF Away
  <2>4. ASSUME NEW a \in Answers PROVE Away(then[a])
    BY <2>3, AwayFacts
  <2> HIDE DEF then
  <2> QED BY <2>1, <2>4, SendLooks, FailsLooks
<1> QED BY <1>2, <1>3

\* Where a process is when it makes a step.
LEMMA Guards ==
    ASSUME NEW p \in Procs
    PROVE  /\ Start(p) => proc[p].pc = "start" /\ AsksFirst(p)
           /\ Connect(p) => proc[p].pc \in {"connect", "start"}
           /\ Confirm(p) => proc[p].pc = "ask"
           /\ FindTopic(p) => proc[p].pc = "findTopic"
           /\ FindProfile(p) => proc[p].pc = "findProfile"
           /\ WriteEdit(p) => proc[p].pc = "write"
           /\ DropTopic(p) => proc[p].pc = "drop"
           /\ List(p) => proc[p].pc = "list"
           /\ ListAgain(p) => proc[p].pc = "relist"
           /\ DeleteOne(p) => proc[p].pc = "delete"
           /\ PlanProfiles(p) => proc[p].pc = "planProfiles"
           /\ PlanTopics(p) => proc[p].pc = "planTopics"
           /\ Recheck(p) => proc[p].pc = "recheck"
           /\ Topic(p) => proc[p].pc = "topic"
           /\ PostTopic(p) => proc[p].pc = "postTopic"
           /\ Profile(p) => proc[p].pc = "profile"
           /\ WriteProfile(p) => proc[p].pc = "writeProfile"
           /\ VerifyProfile(p) => proc[p].pc = "verifyProfile"
           /\ GuardDlp(p) => proc[p].pc = "guardDlp"
           /\ EditDlp(p) => proc[p].pc = "editDlp"
           /\ SweepDlp(p) => proc[p].pc \in {"planDlp", "recheckDlp"}
           /\ CreateDlp(p) => proc[p].pc \in {"createDlp", "copyDlp"}
           /\ VerifyDlp(p) => proc[p].pc = "verifyDlp"
           /\ Report(p, proc[p].result.says) => proc[p].pc = "exit"
<1>1. /\ Start(p) => proc[p].pc = "start" /\ AsksFirst(p)
      /\ Connect(p) => proc[p].pc \in {"connect", "start"}
      /\ Confirm(p) => proc[p].pc = "ask"
      /\ Report(p, proc[p].result.says) => proc[p].pc = "exit"
  BY DEF Start, Connect, Confirm, Report
<1>2. /\ FindTopic(p) => proc[p].pc = "findTopic"
      /\ FindProfile(p) => proc[p].pc = "findProfile"
      /\ WriteEdit(p) => proc[p].pc = "write"
      /\ DropTopic(p) => proc[p].pc = "drop"
      /\ List(p) => proc[p].pc = "list"
      /\ ListAgain(p) => proc[p].pc = "relist"
      /\ DeleteOne(p) => proc[p].pc = "delete"
  BY DEF FindTopic, FindProfile, WriteEdit, DropTopic, List, ListAgain, DeleteOne
<1>3. /\ PlanProfiles(p) => proc[p].pc = "planProfiles"
      /\ PlanTopics(p) => proc[p].pc = "planTopics"
      /\ Recheck(p) => proc[p].pc = "recheck"
      /\ Topic(p) => proc[p].pc = "topic"
      /\ PostTopic(p) => proc[p].pc = "postTopic"
      /\ Profile(p) => proc[p].pc = "profile"
      /\ WriteProfile(p) => proc[p].pc = "writeProfile"
      /\ VerifyProfile(p) => proc[p].pc = "verifyProfile"
  BY DEF PlanProfiles, PlanTopics, Recheck, Topic, PostTopic, Profile, WriteProfile, VerifyProfile
<1>4. /\ GuardDlp(p) => proc[p].pc = "guardDlp"
      /\ EditDlp(p) => proc[p].pc = "editDlp"
      /\ SweepDlp(p) => proc[p].pc \in {"planDlp", "recheckDlp"}
      /\ CreateDlp(p) => proc[p].pc \in {"createDlp", "copyDlp"}
      /\ VerifyDlp(p) => proc[p].pc = "verifyDlp"
  BY DEF GuardDlp, EditDlp, SweepDlp, CreateDlp, VerifyDlp
<1> QED BY <1>1, <1>2, <1>3, <1>4

\* A step changes no command.
LEMMA CmdStays ==
    ASSUME IInv, NEW p \in Procs, Step(p) \/ KeyStep(p)
    PROVE  /\ \E r : proc' = [proc EXCEPT ![p] = r]
           /\ proc'[p].cmd = proc[p].cmd
<1>1. \E r : proc' = [proc EXCEPT ![p] = r] /\ r.cmd = proc[p].cmd
  BY StepCalm DEF Calm, CalmMove, CalmSend, Goes, Stays
<1> QED BY <1>1, CmdsStay

LEMMA StepLooks ==
    ASSUME IInv, IInv', NEW p \in Procs, Step(p) \/ KeyStep(p)
    PROVE  Looks(p)
<1>1. PICK r : proc' = [proc EXCEPT ![p] = r]
  BY CmdStays
<1>2. proc'[p] = r /\ r.cmd = proc[p].cmd
  BY <1>1, CmdStays DEF IInv, Typed
<1>3. CASE Kind(p) \notin Edits \cup {"restore"}
  <2>1. r \in ProcStates /\ KindOK(r)
    BY <1>2 DEF IInv, ProcsOK, ProcOK
  <2>2. Away(r) \/ (r.pc = "write" /\ r.cmd.kind \notin Edits)
    BY <1>2, <1>3, <2>1 DEF ProcStates, KindOK, Kind, Away
  <2> QED BY <1>1, <2>2 DEF Looks
<1>4. CASE Kind(p) \in Edits \cup {"restore"}
  <2>1. /\ proc[p].pc \notin {"guardDlp", "editDlp", "planDlp", "recheckDlp", "createDlp", "copyDlp",
                              "verifyDlp", "list", "relist", "delete", "reserve", "writeKey",
                              "saveKey"}
        /\ proc[p].pc \in {"findTopic", "findProfile", "write", "drop"} => Kind(p) \in Edits
    BY <1>4, ProcIs DEF KindOK, Kind, Edits
  <2>2. ~KeyStep(p)
    BY <1>4, <2>1 DEF KeyStep, CheckKeyFile, ReserveKey, WriteKey, SaveKey, WritesKey, Edits
  <2>3. CASE Start(p) \/ Connect(p) \/ Confirm(p)
    BY <1>4, <2>3, StartLooks
  <2>4. CASE FindTopic(p) \/ FindProfile(p)
    BY <2>1, <2>4, Guards, FindTopicLooks, FindProfileLooks DEF Edits
  <2>5. CASE WriteEdit(p) \/ DropTopic(p)
    BY <2>5, WriteEditLooks
  <2>6. CASE PlanProfiles(p) \/ PlanTopics(p)
    BY <2>6, PlanLooks
  <2>7. CASE Recheck(p) \/ Topic(p) \/ Profile(p) \/ VerifyProfile(p)
    BY <2>7, ItemLooks
  <2>8. CASE PostTopic(p) \/ WriteProfile(p)
    BY <2>8, WriteItemLooks
  <2>9. CASE Report(p, proc[p].result.says) \/ Signal(p)
    BY <2>9, EndLooks
  <2>10. /\ ~List(p) /\ ~ListAgain(p) /\ ~DeleteOne(p) /\ ~GuardDlp(p) /\ ~EditDlp(p)
         /\ ~SweepDlp(p) /\ ~CreateDlp(p) /\ ~VerifyDlp(p)
    BY <2>1, Guards
  <2> QED BY <2>2, <2>3, <2>4, <2>5, <2>6, <2>7, <2>8, <2>9, <2>10 DEF Step
<1> QED BY <1>3, <1>4

-----------------------------------------------------------------------------
(* What a write adds *)

\* The highest of a name are those of the listing with latest=true.
LEMMA LatestNamed ==
    ASSUME NEW R, NEW n
    PROVE  Named(Latest(R), n) = Highest(Named(R, n))
  BY DEF Named, Latest, Highest

LEMMA SendDoes ==
    ASSUME NEW p, NEW m, NEW again, NEW then, Send(p, m, again, then)
    PROVE  svc' = svc \/ (Takes(svc, m) /\ svc' = After(svc, m))
  BY DEF Send

\* A PUT of a revision there is adds one of its name.
LEMMA PutAdds ==
    ASSUME IInv, NEW m, WriteOK(m), Op(m) = "putProfile", Takes(svc, m), svc' = After(svc, m),
           NEW x \in svc.profiles, x.id = m.id
    PROVE  /\ svc'.topics = svc.topics
           /\ \A r \in svc'.profiles \ svc.profiles : r.name = x.name /\ r.policy = m.policy
<1> DEFINE t == Revised(svc, m.id, m.policy)
<1>1. svc'.topics = svc.topics /\ svc'.profiles = svc.profiles \cup {t}
  BY SvcIs DEF After, ServiceStates
<1>2. t.policy = m.policy /\ \A r \in svc.profiles : r.id = m.id => r.name = t.name
  <2>1. IsService(svc) /\ m.policy \in Policies /\ (svc.keepsId \/ svc.next <= MaxId)
    BY DEF IInv, Typed, WriteOK, Takes
  <2> QED BY <2>1, RevisedIs
<1> HIDE DEF t
<1> QED BY <1>1, <1>2

\* The write of an edit.
LEMMA EditAdds ==
    ASSUME IInv, NEW p \in Procs, ReadHolds(svc, proc[p]), Kind(p) \in Edits, WriteEdit(p),
           NEW r \in svc'.profiles \ svc.profiles
    PROVE  /\ svc'.topics = svc.topics
           /\ \E o \in Highest(Named(svc.profiles, r.name)) :
                r.policy = NewPolicy(p, o.policy) /\ o.policy \in Policies
<1> DEFINE m == Edit(p)
           x == ReadProfile(p)
<1>1. proc[p].pc = "write" /\ (svc' = svc \/ (Takes(svc, m) /\ svc' = After(svc, m)))
  BY SendDoes DEF WriteEdit
<1>2. Takes(svc, m) /\ svc' = After(svc, m)
  BY <1>1
<1>3. WriteOK(m) /\ m.effect = EditEffect(p)
  BY <1>1, EditIs
<1>4. PICK y \in Revisions : proc[p].read = {y}
  BY <1>1, ProcIs DEF ReadOK, Kind, Edits
<1>5. x = y /\ x \in Revisions
  BY <1>4 DEF ReadProfile
<1>6. x \in Highest(Named(svc.profiles, proc[p].cmd.n))
  BY <1>1, <1>4, <1>5 DEF ReadHolds, Kind
<1>7. Op(m) = "putProfile" /\ m.id = x.id /\ m.policy = NewPolicy(p, x.policy)
  <2>1. EditEffect(p) = <<"putProfile", proc[p].cmd.n>>
    BY DEF EditEffect, Edits
  <2>2. m.id = x.id /\ m.policy = NewPolicy(p, x.policy)
    BY DEF Edit, Edits
  <2> QED BY <1>3, <2>1, <2>2 DEF Op
<1> HIDE DEF m, x
<1>8. x \in svc.profiles /\ x.name = proc[p].cmd.n
  BY <1>6 DEF Highest, Named
<1>9. svc'.topics = svc.topics /\ r.name = x.name /\ r.policy = m.policy
  BY <1>2, <1>3, <1>7, <1>8, PutAdds
<1> QED BY <1>5, <1>6, <1>7, <1>8, <1>9 DEF Revisions

\* The writes of a restore.
LEMMA TopicAdds ==
    ASSUME IInv, NEW p \in Procs, ReadHolds(svc, proc[p]), PostTopic(p)
    PROVE  /\ \A t \in svc'.topics \ svc.topics : Named(svc.topics, t.name) = {}
           /\ svc'.profiles = svc.profiles
<1> DEFINE n == TopicName(proc[p])
           m == [by |-> p, effect |-> <<"makeTopic", n>>, def |-> SourceTopic[n]]
<1>1. proc[p].pc = "postTopic" /\ (svc' = svc \/ (Takes(svc, m) /\ svc' = After(svc, m)))
  BY SendDoes DEF PostTopic, Move, world
<1>2. Named(svc.topics, n) = {}
  BY <1>1 DEF ReadHolds
<1>3. Op(m) = "makeTopic" /\ Target(m) = n
  BY DEF Op, Target
<1> HIDE DEF m, n
<1>4. CASE svc' = After(svc, m)
  <2> DEFINE t == [id |-> svc.next, name |-> n, def |-> m.def]
  <2>1. svc'.topics = svc.topics \cup {t} /\ svc'.profiles = svc.profiles
    BY <1>3, <1>4, SvcIs DEF After, ServiceStates
  <2>2. t.name = n
    OBVIOUS
  <2> HIDE DEF t
  <2> QED BY <1>2, <2>1, <2>2
<1> QED BY <1>1, <1>4

LEMMA ProfileAdds ==
    ASSUME IInv, NEW p \in Procs, ReadHolds(svc, proc[p]), WriteProfile(p)
    PROVE  /\ svc'.topics = svc.topics
           /\ \A r \in svc'.profiles \ svc.profiles :
                Highest(Named(svc.profiles, r.name)) = Named(proc[p].read, r.name)
<1> DEFINE m == ProfileWrite(p)
           n == ProfileName(proc[p])
<1>1. proc[p].pc = "writeProfile" /\ (svc' = svc \/ (Takes(svc, m) /\ svc' = After(svc, m)))
  BY SendDoes DEF WriteProfile, Move, world
<1>2. Highest(Named(svc.profiles, n)) = Named(proc[p].read, n)
  BY <1>1, LatestNamed DEF ReadHolds
<1>3. /\ WriteOK(m)
      /\ \/ m.effect = <<"makeProfile", n>>
         \/ m.effect = <<"putProfile", n>> /\ \E x \in Named(proc[p].read, n) : m.id = x.id
  BY <1>1, ProfileWriteIs
<1> HIDE DEF m, n
<1>4. CASE svc' = svc
  BY <1>4
<1>5. CASE svc' = After(svc, m) /\ Op(m) = "makeProfile" /\ Target(m) = n
  <2> DEFINE x == [id |-> svc.next, name |-> n, rev |-> 1, policy |-> m.policy]
  <2>1. svc'.topics = svc.topics /\ svc'.profiles = svc.profiles \cup {x}
    BY <1>5, SvcIs DEF After, ServiceStates
  <2>2. x.name = n
    OBVIOUS
  <2> HIDE DEF x
  <2> QED BY <1>2, <2>1, <2>2
<1>6. CASE /\ Takes(svc, m) /\ svc' = After(svc, m) /\ Op(m) = "putProfile"
           /\ \E x \in Named(proc[p].read, n) : m.id = x.id
  <2>1. PICK x \in Named(proc[p].read, n) : m.id = x.id
    BY <1>6
  <2>2. x \in svc.profiles /\ x.name = n
    BY <1>2, <2>1 DEF Highest, Named
  <2> QED BY <1>2, <1>3, <1>6, <2>1, <2>2, PutAdds
<1>7. \/ Op(m) = "makeProfile" /\ Target(m) = n
      \/ Op(m) = "putProfile" /\ \E x \in Named(proc[p].read, n) : m.id = x.id
  <2>1. CASE m.effect = <<"makeProfile", n>>
    BY <2>1 DEF Op, Target
  <2>2. CASE m.effect = <<"putProfile", n>> /\ \E x \in Named(proc[p].read, n) : m.id = x.id
    <3>1. Op(m) = "putProfile"
      BY <2>2 DEF Op
    <3> QED BY <2>2, <3>1
  <2> QED BY <1>3, <2>1, <2>2
<1>8. CASE Takes(svc, m) /\ svc' = After(svc, m)
  <2>1. CASE Op(m) = "makeProfile"
    BY <1>5, <1>7, <1>8, <2>1
  <2>2. CASE Op(m) = "putProfile"
    BY <1>6, <1>7, <1>8, <2>2
  <2> QED BY <1>7, <2>1, <2>2
<1> QED BY <1>1, <1>4, <1>8

\* What an edit leaves alone.
LEMMA EditLeaves ==
    ASSUME IInv, NEW p \in Procs, proc[p].pc = "write", NEW policy \in Policies
    PROVE  /\ Kind(p) = "profilesUpdate" => NewPolicy(p, policy).topics = policy.topics
           /\ Kind(p) \in {"apply", "revert"} =>
                /\ NewPolicy(p, policy).rest = policy.rest
                /\ NewPolicy(p, policy).topics \ Own(p) = policy.topics \ Own(p)
<1>1. Kind(p) = "apply" => proc[p].id \in Own(p)
  BY ProcIs DEF ReadOK, Kind, Own
<1> HIDE DEF Own
<1> QED BY <1>1 DEF NewPolicy, Policies

-----------------------------------------------------------------------------

WindowInv == IInv /\ WindowOK

LEMMA WindowStep ==
    ASSUME WindowInv, IInv', Next
    PROVE  WindowOK'
<1>1. ASSUME NEW p \in Procs, Step(p) \/ KeyStep(p), Observe({p}) PROVE WindowOK'
  BY <1>1, StepLooks, LooksOK DEF WindowInv
<1>2. ASSUME NEW m \in wire, Arrive(m), Observe({}) PROVE WindowOK'
  <2>1. proc' = proc
    BY <1>2 DEF Arrive
  <2> SUFFICES ASSUME NEW q \in Procs, q \notin stale' PROVE ReadHolds(svc', proc'[q])
    BY DEF WindowOK
  <2>2. CASE Writing(proc[q])
    <3>1. q \notin stale /\ svc' = svc
      BY <1>2, <2>1, <2>2 DEF Observe
    <3> QED BY <2>1, <3>1 DEF WindowInv, WindowOK
  <2>3. CASE ~Writing(proc[q])
    BY <2>1, <2>3 DEF Writing, ReadHolds
  <2> QED BY <2>2, <2>3
<1> QED BY <1>1, <1>2 DEF Next

LEMMA WindowInductive == Spec => []WindowInv
<1>1. ASSUME WindowInv, UNCHANGED vars PROVE WindowOK'
  BY <1>1 DEF vars, WindowInv, WindowOK
<1>2. ASSUME WindowInv, IInv', [Next]_vars PROVE WindowInv'
  BY <1>1, <1>2, WindowStep DEF WindowInv
<1>3. Init => WindowInv
  <2> SUFFICES ASSUME Init PROVE WindowOK
    BY InitInv DEF WindowInv
  <2>1. \A p \in Procs : proc[p].pc = "start"
    BY DEF Init, NewProc
  <2> QED BY <2>1 DEF WindowOK, ReadHolds
<1> QED BY <1>2, <1>3, Inductive, PTL DEF Spec

\* RuntimeAdmin.LostOnlyInWindow: what a restore or an edit overwrites or makes
\* a second time somebody else wrote after its last read.
THEOREM LostInWindow == Spec => LostOnlyInWindow
<1> DEFINE Lost(p) ==
      Writing(proc[p]) /\ proc'[p] # proc[p] /\ p \notin stale
           => /\ \A t \in svc'.topics \ svc.topics :
                   Kind(p) = "restore" => Named(svc.topics, t.name) = {}
              /\ \A r \in svc'.profiles \ svc.profiles :
                   LET old == Highest(Named(svc.profiles, r.name))
                   IN  CASE Kind(p) = "restore" -> old = Named(proc[p].read, r.name)
                         [] Kind(p) = "profilesUpdate" ->
                              \E o \in old : o.policy.topics = r.policy.topics
                         [] Kind(p) \in {"apply", "revert"} ->
                              \E o \in old : /\ o.policy.rest = r.policy.rest
                                             /\ o.policy.topics \ Own(p) = r.policy.topics \ Own(p)
                         [] OTHER -> TRUE
<1>1. ASSUME WindowInv, Next, NEW p \in Procs PROVE Lost(p)
  <2> SUFFICES ASSUME Writing(proc[p]), proc'[p] # proc[p], p \notin stale,
                      Kind(p) \in Edits \cup {"restore"}
               PROVE  Lost(p)
    BY DEF Edits
  <2>1. IInv /\ ReadHolds(svc, proc[p])
    BY <1>1 DEF WindowInv, WindowOK
  <2>2. Step(p) \/ KeyStep(p)
    <3>1. PICK q \in Procs : Step(q) \/ KeyStep(q)
      BY <1>1 DEF Next, Arrive
    <3>2. PICK r : proc' = [proc EXCEPT ![q] = r]
      BY <2>1, <3>1, CmdStays
    <3>3. p = q
      BY <2>1, <3>2 DEF IInv, Typed
    <3> QED BY <3>1, <3>3
  <2>3. /\ proc[p].pc = "write" => WriteEdit(p)
        /\ proc[p].pc = "postTopic" => PostTopic(p)
        /\ proc[p].pc = "writeProfile" => WriteProfile(p)
    <3>1. proc[p].pc \in {"write", "postTopic", "writeProfile"} => ~KeyStep(p)
      BY DEF KeyStep, CheckKeyFile, ReserveKey, WriteKey, SaveKey
    <3>2. ~Signal(p)
      BY DEF Signal
    <3> QED BY <2>2, <3>1, <3>2, Guards DEF Step
  <2>4. CASE Kind(p) \in Edits
    <3>1. WriteEdit(p)
      BY <2>1, <2>3, <2>4, ProcIs DEF Writing, KindOK, Kind, Edits
    <3>2. proc[p].pc = "write"
      BY <3>1, Guards
    <3> SUFFICES ASSUME NEW r \in svc'.profiles \ svc.profiles
                 PROVE  LET old == Highest(Named(svc.profiles, r.name))
                        IN  /\ Kind(p) = "profilesUpdate" =>
                                 \E o \in old : o.policy.topics = r.policy.topics
                            /\ Kind(p) \in {"apply", "revert"} =>
                                 \E o \in old : /\ o.policy.rest = r.policy.rest
                                                /\ o.policy.topics \ Own(p) = r.policy.topics \ Own(p)
      BY <2>4 DEF Edits
    <3>3. PICK o \in Highest(Named(svc.profiles, r.name)) :
                 r.policy = NewPolicy(p, o.policy) /\ o.policy \in Policies
      BY <2>1, <2>4, <3>1, EditAdds
    <3> QED BY <2>1, <3>2, <3>3, EditLeaves
  <2>5. CASE Kind(p) = "restore"
    <3>1. PostTopic(p) \/ WriteProfile(p)
      BY <2>1, <2>3, <2>5, ProcIs DEF Writing, KindOK, Kind
    <3> QED BY <2>1, <2>5, <3>1, TopicAdds, ProfileAdds
  <2> QED BY <2>4, <2>5
<1>2. WindowInv /\ [Next]_vars => [\A p \in Procs : Lost(p)]_vars
  BY <1>1
<1> QED BY <1>2, WindowInductive, PTL DEF Spec, LostOnlyInWindow

-----------------------------------------------------------------------------
(* What a DLP restore makes a second time *)

Reconciles(r) == r.cmd.conflict = "reconcile"

\* The kinds of the first i sweeps.
Swept(i) == {DlpKinds[k] : k \in 1 .. i}

\* Records that are in the service, and all it has of some kinds.
Shows(s, records, kinds) ==
    \A n \in DlpNames :
        /\ Named(records, n) \subseteq Named(s.dlp, n)
        /\ DlpKind[n] \in kinds => Named(records, n) = Named(s.dlp, n)

\* A resource of the backup that is not in use, nor is its copy.
Unused(s, r, n) ==
    /\ Active(s.dlp, n) = {}
    /\ Reconciles(r) /\ DlpKind[n] = "profile" => Active(s.dlp, Suffixed[n]) = {}

\* The rows it is still to create.
Left(r) == {j \in DlpItems(r) : j > r.i \/ (j = r.i /\ r.pc # "verifyDlp")}

\* What its sweeps showed, of service s.
SweepHolds(s, r) ==
    /\ r.pc = "recheckDlp" \/ (r.pc = "planDlp" /\ Reconciles(r)) => Shows(s, r.known, Swept(r.i))
    /\ r.pc \in {"ask", "recheckDlp"} /\ Reconciles(r) => Shows(s, r.read, Swept(3))
    /\ r.pc \in {"createDlp", "copyDlp", "verifyDlp"} =>
         \A j \in Left(r) : Unused(s, r, DlpSequence(r)[j])

DlpOK(r) ==
    /\ r.pc \in {"start", "ask", "planDlp", "recheckDlp"} /\ r.i = 0 => r.known = {}
    /\ r.pc = "copyDlp" => Reconciles(r)

SweepOK ==
    \A p \in Procs : Kind(p) = "dlpRestore" =>
        DlpOK(proc[p]) /\ (p \notin stale => SweepHolds(svc, proc[p]))

\* The sweeps.
LEMMA NoneSwept ==
    ASSUME NEW s PROVE Shows(s, {}, Swept(0))
<1>1. Swept(0) = {}
  BY DEF Swept
<1> QED BY <1>1 DEF Shows, Named

LEMMA SweepOne ==
    ASSUME NEW s, NEW known, NEW i \in 0 .. 2, Shows(s, known, Swept(i))
    PROVE  Shows(s, known \cup {o \in s.dlp : DlpKind[o.name] = DlpKinds[i + 1]}, Swept(i + 1))
<1> DEFINE kind == DlpKinds[i + 1]
           more == {o \in s.dlp : DlpKind[o.name] = kind}
<1>1. Swept(i + 1) = Swept(i) \cup {kind}
  BY DEF Swept
<1> HIDE DEF kind
<1> SUFFICES ASSUME NEW n \in DlpNames
             PROVE  /\ Named(known \cup more, n) \subseteq Named(s.dlp, n)
                    /\ DlpKind[n] \in Swept(i) \cup {kind} =>
                         Named(known \cup more, n) = Named(s.dlp, n)
  BY <1>1 DEF Shows, kind
<1>2. /\ Named(known, n) \subseteq Named(s.dlp, n)
      /\ DlpKind[n] \in Swept(i) => Named(known, n) = Named(s.dlp, n)
  BY DEF Shows
<1>3. Named(known \cup more, n) = Named(known, n) \cup Named(more, n)
  BY DEF Named
<1>4. Named(more, n) \subseteq Named(s.dlp, n) /\ (DlpKind[n] = kind => Named(more, n) = Named(s.dlp, n))
  BY DEF Named
<1> HIDE DEF more
<1> QED BY <1>2, <1>3, <1>4

\* The rows and their names.
LEMMA SameRows ==
    ASSUME NEW c, NEW r, r.cmd = c.cmd, r.read = c.read
    PROVE  /\ DlpItems(r) = DlpItems(c) /\ DlpSequence(r) = DlpSequence(c)
           /\ DlpCreates(r) = DlpCreates(c)
  BY DEF DlpItems, DlpSequence, DlpCreates, DlpRows, Unresolved, DlpAction, Existing, RowName

LEMMA NamesAre ==
    ASSUME NEW n \in DOMAIN SourceDlp
    PROVE  /\ n \in DlpNames /\ DlpKind[n] \in Swept(3)
           /\ DlpKind[n] = "profile" =>
                Suffixed[n] \in DlpNames /\ DlpKind[Suffixed[n]] = "profile"
           /\ "profile" \in Swept(3)
<1>1. Elements(DlpKinds) = Swept(3)
  BY DEF Elements, Swept, DlpKinds
<1>2. "profile" \in Swept(3)
  <2>1. DlpKinds[3] = "profile" /\ 3 \in 1 .. 3
    BY DEF DlpKinds
  <2> QED BY <2>1 DEF Swept
<1> QED BY <1>1, <1>2, RuntimeAssumption

LEMMA SequenceIs ==
    ASSUME NEW c, IsDlpRestore(c.cmd)
    PROVE  LET seq == DlpSequence(c) IN
           /\ \A j \in DOMAIN seq :
                /\ j \in Nat /\ seq[j] \in DOMAIN SourceDlp
                /\ DlpKind[seq[j]] = "profile" => seq[j] \in Elements(c.cmd.profiles)
           /\ \A j, k \in DOMAIN seq : seq[j] = seq[k] => j = k
           /\ DlpRows(c) \subseteq DOMAIN SourceDlp
<1> DEFINE deps == c.cmd.deps
           profiles == c.cmd.profiles
           sources == DOMAIN SourceDlp
           seq == DlpSequence(c)
<1>1. /\ deps \in Seq({n \in sources : DlpKind[n] # "profile"}) /\ IsInjective(deps)
      /\ profiles \in Seq({n \in sources : DlpKind[n] = "profile"}) /\ IsInjective(profiles)
  BY DEF IsDlpRestore
<1>2. seq = deps \o profiles
  BY DEF DlpSequence
<1>3. Elements(deps) \subseteq sources /\ Elements(profiles) \subseteq sources
  BY <1>1 DEF Elements
<1>4. DlpRows(c) \subseteq sources
  BY <1>3 DEF DlpRows
<1>5. /\ \A j \in DOMAIN deps : deps[j] \in sources /\ DlpKind[deps[j]] # "profile"
      /\ \A j \in DOMAIN profiles : profiles[j] \in sources /\ DlpKind[profiles[j]] = "profile"
      /\ DOMAIN deps = 1 .. Len(deps) /\ DOMAIN profiles = 1 .. Len(profiles)
      /\ Len(deps) \in Nat /\ Len(profiles) \in Nat
  BY <1>1
<1>6. /\ DOMAIN seq = 1 .. (Len(deps) + Len(profiles))
      /\ \A j \in DOMAIN seq :
           IF j <= Len(deps) THEN j \in DOMAIN deps /\ seq[j] = deps[j]
           ELSE j - Len(deps) \in DOMAIN profiles /\ seq[j] = profiles[j - Len(deps)]
  <2>1. deps \in Seq(sources) /\ profiles \in Seq(sources)
    BY <1>1
  <2> HIDE DEF deps, profiles, seq, sources
  <2>2. seq \in Seq(sources) /\ Len(seq) = Len(deps) + Len(profiles)
    BY <1>2, <2>1, ConcatProperties
  <2>3. ASSUME NEW j \in DOMAIN seq
        PROVE  IF j <= Len(deps) THEN j \in DOMAIN deps /\ seq[j] = deps[j]
               ELSE j - Len(deps) \in DOMAIN profiles /\ seq[j] = profiles[j - Len(deps)]
    <3>1. j \in 1 .. Len(deps) + Len(profiles)
      BY <2>2, <2>3
    <3>2. seq[j] = IF j <= Len(deps) THEN deps[j] ELSE profiles[j - Len(deps)]
      BY <1>2, <2>1, <3>1, ConcatProperties
    <3> QED BY <1>5, <3>1, <3>2
  <2> QED BY <2>2, <2>3
<1> HIDE DEF deps, profiles, seq, sources
<1>7. ASSUME NEW j \in DOMAIN seq
      PROVE  /\ j \in Nat /\ seq[j] \in sources
             /\ DlpKind[seq[j]] = "profile" => seq[j] \in Elements(profiles)
  BY <1>5, <1>6 DEF Elements
<1>8. ASSUME NEW j \in DOMAIN seq, NEW k \in DOMAIN seq, seq[j] = seq[k] PROVE j = k
  <2>1. CASE j <= Len(deps)
    <3>1. k <= Len(deps)
      BY <1>5, <1>6, <1>8, <2>1
    <3> QED BY <1>1, <1>6, <1>8, <2>1, <3>1 DEF IsInjective
  <2>2. CASE ~(j <= Len(deps))
    <3>1. ~(k <= Len(deps))
      BY <1>5, <1>6, <1>8, <2>2
    <3>2. j - Len(deps) = k - Len(deps)
      BY <1>1, <1>6, <1>8, <2>2, <3>1 DEF IsInjective
    <3> QED BY <1>5, <1>6, <3>2
  <2> QED BY <2>1, <2>2
<1> QED BY <1>4, <1>7, <1>8 DEF seq, profiles, sources

LEMMA NamesApart ==
    ASSUME NEW c, c.cmd \in Cmds, IsDlpRestore(c.cmd)
    PROVE  LET seq == DlpSequence(c) IN
           \A j, k \in DOMAIN seq :
              /\ DlpKind[seq[j]] = "profile" => Suffixed[seq[j]] # seq[k]
              /\ DlpKind[seq[j]] = "profile" /\ DlpKind[seq[k]] = "profile" /\ j # k
                   => Suffixed[seq[j]] # Suffixed[seq[k]]
<1> DEFINE seq == DlpSequence(c)
           names == Elements(c.cmd.profiles)
<1>1. PICK s \in Starts, p \in Procs : c.cmd = s.plan[p]
  BY DEF Cmds
<1>2. /\ IsInjective([n \in names |-> Suffixed[n]])
      /\ \A n \in names : Suffixed[n] \notin names
  BY <1>1, CopyAssumption
<1>3. /\ \A j \in DOMAIN seq :
           /\ seq[j] \in DOMAIN SourceDlp
           /\ DlpKind[seq[j]] = "profile" => seq[j] \in names
      /\ \A j, k \in DOMAIN seq : seq[j] = seq[k] => j = k
  BY SequenceIs
<1> HIDE DEF seq, names
<1> SUFFICES ASSUME NEW j \in DOMAIN seq, NEW k \in DOMAIN seq, DlpKind[seq[j]] = "profile"
             PROVE  /\ Suffixed[seq[j]] # seq[k]
                    /\ DlpKind[seq[k]] = "profile" /\ j # k => Suffixed[seq[j]] # Suffixed[seq[k]]
  BY DEF seq
<1>4. seq[j] \in names /\ DlpKind[Suffixed[seq[j]]] = "profile"
  BY <1>3, NamesAre
<1>5. Suffixed[seq[j]] # seq[k]
  BY <1>2, <1>3, <1>4
<1>6. ASSUME DlpKind[seq[k]] = "profile", Suffixed[seq[j]] = Suffixed[seq[k]] PROVE j = k
  <2>1. seq[j] = seq[k]
    BY <1>2, <1>3, <1>4, <1>6 DEF IsInjective
  <2> QED BY <1>3, <2>1
<1> QED BY <1>5, <1>6

\* What its state says of every service: at the end, and before the sweeps that
\* count.
LEMMA OverFree ==
    ASSUME NEW r, r.pc \in Over
    PROVE  DlpOK(r) /\ \A s : SweepHolds(s, r)
  BY DEF Over, DlpOK, SweepHolds

LEMMA Unseen ==
    ASSUME NEW r, r.cmd.kind = "dlpRestore", r.i \in Nat, DlpOK(r), ~Writing(r), NEW s
    PROVE  SweepHolds(s, r)
<1>1. r.pc \notin {"createDlp", "copyDlp", "verifyDlp"}
  BY DEF Writing
<1>2. Reconciles(r) => r.pc \notin {"ask", "recheckDlp"}
  BY DEF Writing, Reconciles
<1>3. r.pc = "recheckDlp" \/ (r.pc = "planDlp" /\ Reconciles(r)) => r.i = 0
  BY DEF Writing, Reconciles
<1>4. r.pc = "recheckDlp" \/ (r.pc = "planDlp" /\ Reconciles(r)) => r.known = {}
  BY <1>3 DEF DlpOK
<1> QED BY <1>1, <1>2, <1>3, <1>4, NoneSwept DEF SweepHolds

\* A plan that still holds makes nothing that is there.
LEMMA PlanFree ==
    ASSUME NEW s, NEW c, IsDlpRestore(c.cmd), Shows(s, c.known, Swept(3)),
           Reconciles(c) => Shows(s, c.read, Swept(3)),
           \A n \in DlpRows(c) : Seen(c.known, RowName(c, n)) = Seen(c.read, RowName(c, n)),
           NEW n \in DlpCreates(c)
    PROVE  Unused(s, c, n)
<1>1. n \in DlpRows(c) /\ n \in DOMAIN SourceDlp
  BY SequenceIs DEF DlpCreates
<1>2. Active(c.read, RowName(c, n)) = {}
  BY DEF DlpCreates, DlpAction, Existing
<1>3. /\ RowName(c, n) = n
      /\ Reconciles(c) /\ DlpKind[n] = "profile" => Active(c.read, Suffixed[n]) = {}
  BY <1>2 DEF RowName, Reconciles
<1>4. Active(c.known, n) = {}
  <2>1. Seen(c.known, n) = Seen(c.read, n)
    BY <1>1, <1>3
  <2>2. Seen(c.read, n) = {}
    BY <1>2, <1>3 DEF Seen
  <2>3. ASSUME NEW o \in Active(c.known, n) PROVE Seen(c.known, n) # {}
    BY DEF Seen
  <2> QED BY <2>1, <2>2, <2>3
<1>5. Active(s.dlp, n) = {}
  BY <1>1, <1>4, NamesAre DEF Shows, Active
<1>6. ASSUME Reconciles(c), DlpKind[n] = "profile" PROVE Active(s.dlp, Suffixed[n]) = {}
  BY <1>1, <1>3, <1>6, NamesAre DEF Shows, Active
<1> QED BY <1>5, <1>6 DEF Unused

LEMMA ItemFree ==
    ASSUME NEW s, NEW c \in ProcStates, IsDlpRestore(c.cmd), NEW i \in Nat
    PROVE  /\ DlpOK(DlpItem(c, i))
           /\ (\A j \in DlpItems(c) : j > i => Unused(s, c, DlpSequence(c)[j]))
                => SweepHolds(s, DlpItem(c, i))
<1> DEFINE later == {j \in DlpItems(c) : j > i}
           r == [c EXCEPT !.i = First(later), !.id = 0, !.replayed = FALSE, !.pc = "createDlp"]
           t == [c EXCEPT !.id = 0, !.replayed = FALSE, !.pc = "exit", !.result = Ok(c.context)]
           Free == \A j \in DlpItems(c) : j > i => Unused(s, c, DlpSequence(c)[j])
<1>1. DlpItem(c, i) = IF later = {} THEN t ELSE r
  BY DEF DlpItem
<1>2. CASE later = {}
  <2>1. t.pc = "exit"
    BY DEF ProcStates
  <2> HIDE DEF t
  <2> QED BY <1>1, <1>2, <2>1, OverFree DEF Over
<1>3. CASE later # {}
  <2>1. later \in SUBSET Nat /\ DlpItems(c) \subseteq Nat
    BY RowsAre
  <2>2. First(later) \in later
    BY <1>3, <2>1, FirstIs
  <2>3. r.pc = "createDlp" /\ r.i = First(later) /\ r.cmd = c.cmd /\ r.read = c.read
    BY DEF ProcStates
  <2> HIDE DEF r
  <2>4. DlpItems(r) = DlpItems(c) /\ DlpSequence(r) = DlpSequence(c)
    BY <2>3, SameRows
  <2>5. ASSUME Free, NEW j \in Left(r) PROVE Unused(s, r, DlpSequence(r)[j])
    <3>1. j \in DlpItems(c) /\ (j > First(later) \/ j = First(later))
      BY <2>3, <2>4, <2>5 DEF Left
    <3>2. j > i
      BY <2>1, <2>2, <3>1
    <3>3. Unused(s, c, DlpSequence(c)[j])
      BY <2>5, <3>1, <3>2
    <3> QED BY <2>3, <2>4, <3>3 DEF Unused, Reconciles
  <2>6. DlpOK(r) /\ (Free => SweepHolds(s, r))
    BY <2>3, <2>5 DEF DlpOK, SweepHolds
  <2> QED BY <1>1, <1>3, <2>6
<1> QED BY <1>2, <1>3

\* What it makes is not what the rows after it are to be.
LEMMA CreateFree ==
    ASSUME NEW c, c.cmd \in Cmds, IsDlpRestore(c.cmd), c.i \in DlpItems(c),
           NEW s, NEW t, NEW o, t.dlp = s.dlp \cup {o},
           \/ o.name = DlpName(c)
           \/ o.name = Suffixed[DlpName(c)] /\ DlpKind[DlpName(c)] = "profile",
           NEW j \in DlpItems(c), j > c.i, Unused(s, c, DlpSequence(c)[j])
    PROVE  Unused(t, c, DlpSequence(c)[j])
<1> DEFINE seq == DlpSequence(c)
           n == seq[c.i]
           k == seq[j]
<1>1. /\ c.i \in DOMAIN seq /\ j \in DOMAIN seq /\ c.i # j
      /\ n = DlpName(c)
  <2>1. c.i \in DOMAIN seq /\ j \in DOMAIN seq
    BY DEF DlpItems
  <2>2. c.i \in Nat
    BY <2>1, SequenceIs
  <2> QED BY <2>1, <2>2 DEF DlpName
<1>2. k # n /\ (DlpKind[k] = "profile" => Suffixed[k] # n)
  BY <1>1, SequenceIs, NamesApart
<1>3. DlpKind[n] = "profile" =>
        k # Suffixed[n] /\ (DlpKind[k] = "profile" => Suffixed[k] # Suffixed[n])
  BY <1>1, NamesApart
<1> HIDE DEF n, k
<1>4. o.name # k /\ (DlpKind[k] = "profile" => o.name # Suffixed[k])
  BY <1>1, <1>2, <1>3
<1>5. \A name : o.name # name => Active(t.dlp, name) = Active(s.dlp, name)
  BY DEF Active, Named
<1>6. Unused(s, c, k)
  BY DEF k
<1>7. Unused(t, c, k)
  BY <1>4, <1>5, <1>6 DEF Unused
<1> QED BY <1>7 DEF k

\* Where a command ends.
LEMMA Overs ==
    ASSUME IInv, NEW p \in Procs
    PROVE  /\ \A result : Exit(p, result).pc \in Over
           /\ \A a, e : WriteFailed(p, a, e).pc \in Over
           /\ Refuse(p).pc \in Over
<1>1. {"pc", "context", "refused"} \subseteq DOMAIN proc[p]
  BY ProcIs DEF ProcStates
<1>2. \A result : Exit(p, result).pc = "exit"
  BY <1>1 DEF At, Exit
<1>3. \A a, e : WriteFailed(p, a, e).pc = "exit"
  <2> SUFFICES ASSUME NEW a, NEW e PROVE WriteFailed(p, a, e).pc = "exit"
    OBVIOUS
  <2> DEFINE done == {d \in Effects : proc[p].context[d] = "yes"}
             r == Exit(p, Failed(a, Told(a, done, e)))
             context == [r.context EXCEPT ![e] = IF a \in InDoubt \cup {"unreadable"} THEN "maybe" ELSE @]
  <2>1. r.pc = "exit"
    BY <1>2
  <2>2. WriteFailed(p, a, e) = [r EXCEPT !.context = context]
    BY DEF WriteFailed
  <2> HIDE DEF r, context
  <2> QED BY <2>1, <2>2
<1>4. Refuse(p).pc = "exit"
  BY <1>2 DEF Refuse, Stop
<1> QED BY <1>2, <1>3, <1>4 DEF Over

\* A step of a restore keeps what its sweeps showed.
Sees(p, r) ==
    DlpOK(r) /\ (SweepHolds(svc, proc[p]) => SweepHolds(svc', r))
DlpSees(p) == \E r : proc' = [proc EXCEPT ![p] = r] /\ Sees(p, r)

LEMMA OverSees ==
    ASSUME NEW p \in Procs, NEW r, Set(p, r), r.pc \in Over
    PROVE  DlpSees(p)
  BY OverFree DEF Set, DlpSees, Sees

LEMMA FailsSees ==
    ASSUME IInv, NEW p \in Procs,
           ReadFails(p) \/ Move(p, Stop(p)) \/ Move(p, Interrupt(p)) \/ Move(p, Refuse(p))
    PROVE  DlpSees(p)
  BY Overs, OverSees DEF ReadFails, Stop, Interrupt, Move

LEMMA MoveSees ==
    ASSUME NEW p \in Procs, NEW r, Move(p, r), DlpOK(r),
           SweepHolds(svc, proc[p]) => SweepHolds(svc, r)
    PROVE  DlpSees(p)
  BY DEF Move, Set, world, DlpSees, Sees

LEMMA ConnectSees ==
    ASSUME IInv, NEW p \in Procs, Kind(p) = "dlpRestore", DlpOK(proc[p]), Connect(p)
    PROVE  DlpSees(p)
<1>1. proc[p].pc = "start"
  BY Guards, ProcIs DEF KindOK, Kind
<1>2. proc[p].i = 0 /\ proc[p].known = {}
  BY <1>1, ProcIs DEF PlaceOK, DlpOK
<1>3. CASE Move(p, At(p, "planDlp"))
  <2> DEFINE r == At(p, "planDlp")
  <2>1. r.pc = "planDlp" /\ r.i = 0 /\ r.known = {}
    BY <1>2, AtIs DEF PCs
  <2> HIDE DEF r
  <2>2. DlpOK(r) /\ SweepHolds(svc, r)
    BY <2>1, NoneSwept DEF DlpOK, SweepHolds
  <2> QED BY <1>3, <2>2, MoveSees DEF r
<1>4. FirstStep(p) = "planDlp"
  BY DEF FirstStep
<1> QED BY <1>3, <1>4, FailsSees DEF Connect

LEMMA ConfirmSees ==
    ASSUME IInv, NEW p \in Procs, Kind(p) = "dlpRestore", DlpOK(proc[p]), Confirm(p)
    PROVE  DlpSees(p)
<1>1. proc[p].pc = "ask"
  BY Guards
<1>2. proc[p].i = 0 /\ proc[p].known = {}
  BY <1>1, ProcIs DEF PlaceOK, DlpOK
<1>3. CASE Move(p, At(p, "recheckDlp"))
  <2> DEFINE r == At(p, "recheckDlp")
  <2>1. /\ r.pc = "recheckDlp" /\ r.i = 0 /\ r.known = {}
        /\ r.cmd = proc[p].cmd /\ r.read = proc[p].read
    BY <1>2, AtIs DEF PCs
  <2> HIDE DEF r
  <2>2. DlpOK(r)
    BY <2>1 DEF DlpOK
  <2>3. SweepHolds(svc, proc[p]) => SweepHolds(svc, r)
    BY <1>1, <2>1, NoneSwept DEF SweepHolds, Reconciles
  <2> QED BY <1>3, <2>2, <2>3, MoveSees DEF r
<1>4. Confirmed(p) = "recheckDlp"
  BY DEF Confirmed
<1>5. CASE Move(p, Exit(p, Ok(NothingChanged)))
  BY <1>5, Overs, OverSees DEF Move
<1> QED BY <1>3, <1>4, <1>5, FailsSees DEF Confirm

LEMMA SweepSees ==
    ASSUME IInv, NEW p \in Procs, Kind(p) = "dlpRestore", SweepDlp(p)
    PROVE  DlpSees(p)
<1>1. /\ proc[p].pc \in {"planDlp", "recheckDlp"} /\ proc[p].i \in 0 .. 2
      /\ IsDlpRestore(proc[p].cmd)
  BY ProcIs, DlpIs DEF SweepDlp, PlaceOK, DlpKinds
<1> DEFINE known == proc[p].known \cup {o \in svc.dlp : DlpKind[o.name] = DlpKinds[proc[p].i + 1]}
           i == proc[p].i + 1
           c == [proc[p] EXCEPT !.known = known, !.i = i]
           plan == [c EXCEPT !.read = c.known, !.known = {}, !.i = 0]
           again == [c EXCEPT !.known = {}]
<1>2. \/ ReadFails(p)
      \/ c.i < 3 /\ Move(p, c)
      \/ c.i >= 3 /\ c.pc = "planDlp" /\ Move(p, DlpPlanned(p, plan))
      \/ c.i >= 3 /\ c.pc # "planDlp" /\ Move(p, Rechecked(p, c))
  <2>1. c.i = i /\ i \in Nat
    BY <1>1, DlpIs DEF ProcStates
  <2>2. Len(DlpKinds) = 3
    BY DEF DlpKinds
  <2>3. \/ ReadFails(p)
        \/ Move(p, IF c.i < Len(DlpKinds) THEN c
                   ELSE IF c.pc = "planDlp" THEN DlpPlanned(p, plan)
                   ELSE Rechecked(p, c))
    BY DEF SweepDlp
  <2> HIDE DEF c, plan, i
  <2> QED BY <2>1, <2>2, <2>3
<1>3. Shows(svc, proc[p].known, Swept(proc[p].i)) => Shows(svc, known, Swept(i))
  BY <1>1, SweepOne
<1>4. known \subseteq DlpRecords /\ i \in 1 .. 3
  BY <1>1, DlpIs, SvcIs
<1>5. proc[p].i = i - 1
  BY <1>1, <1>4
<1> HIDE DEF known, i
<1>6. /\ c \in ProcStates /\ c.pc = proc[p].pc /\ c.cmd = proc[p].cmd
      /\ c.read = proc[p].read /\ c.known = known /\ c.i = i
  <2>1. proc[p] \in ProcStates /\ i \in Nat
    BY <1>4, ProcIs
  <2> QED BY <1>4, <2>1 DEF ProcStates
<1> HIDE DEF c
<1>7. CASE Move(p, c)
  <2>1. DlpOK(c)
    BY <1>1, <1>4, <1>6 DEF DlpOK
  <2>2. SweepHolds(svc, proc[p]) => SweepHolds(svc, c)
    BY <1>1, <1>3, <1>6 DEF SweepHolds, Reconciles
  <2> QED BY <1>7, <2>1, <2>2, MoveSees
<1>8. CASE c.i >= 3 /\ c.pc = "planDlp" /\ Move(p, DlpPlanned(p, plan))
  <2>1. plan \in ProcStates /\ plan.cmd = proc[p].cmd /\ plan.read = known /\ plan.known = {} /\ plan.i = 0
    BY <1>4, <1>6 DEF ProcStates
  <2> HIDE DEF plan
  <2>2. CASE ~DlpRefused(plan)
    <3> DEFINE pc == IF DlpCreates(plan) # {} /\ ~plan.cmd.force THEN "ask" ELSE "recheckDlp"
               r == [plan EXCEPT !.pc = pc]
    <3>1. pc \in {"ask", "recheckDlp"} /\ Move(p, r)
      BY <1>8, <2>2 DEF DlpPlanned
    <3> HIDE DEF pc
    <3>2. r.cmd = proc[p].cmd /\ r.read = known /\ r.known = {} /\ r.i = 0 /\ r.pc = pc
      BY <2>1, <3>1 DEF ProcStates
    <3> HIDE DEF r
    <3>3. DlpOK(r)
      BY <3>1, <3>2 DEF DlpOK
    <3>4. i = 3
      BY <1>4, <1>6, <1>8
    <3>5. SweepHolds(svc, proc[p]) /\ Reconciles(r) => Shows(svc, known, Swept(3))
      BY <1>3, <1>6, <1>8, <3>2, <3>4 DEF SweepHolds, Reconciles
    <3>6. SweepHolds(svc, proc[p]) => SweepHolds(svc, r)
      BY <3>1, <3>2, <3>5, NoneSwept DEF SweepHolds
    <3> QED BY <3>1, <3>3, <3>6, MoveSees
  <2> QED BY <1>8, <2>2, FailsSees DEF DlpPlanned
<1>9. CASE c.i >= 3 /\ c.pc # "planDlp" /\ Move(p, Rechecked(p, c))
  <2>1. again \in ProcStates /\ again.cmd = c.cmd /\ again.read = c.read
    BY <1>6 DEF ProcStates
  <2> DEFINE Unmoved == \A n \in DlpRows(c) :
                         Seen(c.known, RowName(c, n)) = Seen(c.read, RowName(c, n))
  <2>2. CASE Unmoved /\ Move(p, DlpItem(again, 0))
    <3> DEFINE r == DlpItem(again, 0)
    <3>1. i = 3 /\ proc[p].pc = "recheckDlp"
      BY <1>1, <1>4, <1>6, <1>9
    <3>2. SweepHolds(svc, proc[p]) =>
            Shows(svc, c.known, Swept(3)) /\ (Reconciles(c) => Shows(svc, c.read, Swept(3)))
      BY <1>3, <1>6, <3>1 DEF SweepHolds, Reconciles
    <3>3. SweepHolds(svc, proc[p]) => \A n \in DlpCreates(c) : Unused(svc, c, n)
      BY <1>1, <1>6, <2>2, <3>2, PlanFree
    <3>4. DlpItems(again) = DlpItems(c) /\ DlpSequence(again) = DlpSequence(c)
      BY <2>1, SameRows
    <3>5. ASSUME SweepHolds(svc, proc[p]), NEW j \in DlpItems(again)
          PROVE  Unused(svc, again, DlpSequence(again)[j])
      <4>1. Unused(svc, c, DlpSequence(c)[j])
        BY <3>3, <3>4, <3>5 DEF DlpItems
      <4> QED BY <2>1, <3>4, <4>1 DEF Unused, Reconciles
    <3> HIDE DEF again
    <3>6. DlpOK(r) /\ (SweepHolds(svc, proc[p]) => SweepHolds(svc, r))
      BY <1>1, <1>6, <2>1, <3>5, ItemFree
    <3> HIDE DEF r
    <3> QED BY <2>2, <3>6, MoveSees DEF r
  <2>3. Move(p, Stop(p)) \/ (Unmoved /\ Move(p, DlpItem(again, 0)))
    BY <1>9 DEF Rechecked
  <2> QED BY <2>2, <2>3, FailsSees
<1> QED BY <1>2, <1>7, <1>8, <1>9, FailsSees

\* What the service makes of the create of a DLP resource.
LEMMA MadeIs ==
    ASSUME IInv, NEW m, Op(m) = "makeDlp"
    PROVE  \E o : o.name = Target(m) /\ After(svc, m).dlp = svc.dlp \cup {o}
<1> DEFINE o == [id |-> svc.next, name |-> Target(m), refs |-> m.refs, body |-> m.body,
                 predefined |-> FALSE, retired |-> FALSE]
<1>1. After(svc, m).dlp = svc.dlp \cup {o}
  BY SvcIs DEF After, ServiceStates
<1>2. o.name = Target(m)
  OBVIOUS
<1> HIDE DEF o
<1> QED BY <1>1, <1>2

LEMMA CreateSees ==
    ASSUME IInv, NEW p \in Procs, Kind(p) = "dlpRestore", DlpOK(proc[p]), CreateDlp(p)
    PROVE  DlpSees(p)
<1> DEFINE n == DlpName(proc[p])
           name == IF proc[p].pc = "copyDlp" THEN Suffixed[n] ELSE n
           body == DlpBody(proc[p], n)
           m == [by |-> p, effect |-> <<"makeDlp", name>>, refs |-> body.refs,
                 body |-> body.body]
           made == [At(p, "verifyDlp") EXCEPT !.id = svc.next]
           again == [At(p, proc[p].pc) EXCEPT !.replayed = TRUE]
           Copies(conflict) == /\ conflict /\ proc[p].pc = "createDlp"
                               /\ DlpKind[n] = "profile" /\ proc[p].cmd.conflict = "reconcile"
           then(conflict) ==
             [a \in Answers |->
               IF a = "ok" THEN Written(made, m.effect)
               ELSE IF a = "rejected" /\ Copies(conflict)
               THEN At(p, "copyDlp")
               ELSE WriteFailed(p, a, m.effect)]
<1>1. /\ proc[p].pc \in {"createDlp", "copyDlp"} /\ proc[p].i \in DlpItems(proc[p])
      /\ proc[p].pc = "copyDlp" => DlpKind[n] = "profile"
      /\ IsDlpRestore(proc[p].cmd) /\ proc[p].cmd \in Cmds
  BY ProcIs, DlpIs, Guards DEF PlaceOK
<1>2. /\ Op(m) = "makeDlp" /\ Target(m) = name
      /\ name = n \/ (name = Suffixed[n] /\ DlpKind[n] = "profile")
  BY <1>1 DEF Op, Target
<1>3. Move(p, Interrupt(p)) \/ \E conflict \in {FALSE, Taken(svc, name)} :
                                 Send(p, m, proc[p].pc, then(conflict))
  BY DEF CreateDlp
<1> HIDE DEF m, name
<1>4. ASSUME NEW conflict, Send(p, m, proc[p].pc, then(conflict))
      PROVE  DlpSees(p)
  <2>1. PICK a \in Possible(p \in signal) :
          /\ svc' = IF a \in Carried THEN After(svc, m) ELSE svc
          /\ Set(p, IF Replays(a, proc[p].replayed) THEN again ELSE then(conflict)[a])
    BY <1>4 DEF Send
  <2>2. a \in Answers
    BY DEF Possible, Interrupted, Answers
  <2>3. CASE Replays(a, proc[p].replayed)
    <3>1. /\ again.pc = proc[p].pc /\ again.cmd = proc[p].cmd /\ again.read = proc[p].read
          /\ again.i = proc[p].i
      BY ProcIs DEF At, ProcStates
    <3> HIDE DEF again
    <3>2. svc' = svc
      BY <2>1, <2>3 DEF Replays, Carried
    <3>3. Left(again) = Left(proc[p]) /\ DlpSequence(again) = DlpSequence(proc[p])
      BY <3>1, SameRows DEF Left
    <3>4. DlpOK(again) /\ (SweepHolds(svc, proc[p]) => SweepHolds(svc', again))
      BY <1>1, <3>1, <3>2, <3>3 DEF DlpOK, SweepHolds, Unused, Reconciles
    <3> QED BY <2>1, <2>3, <3>4 DEF Set, DlpSees, Sees
  <2>4. CASE ~Replays(a, proc[p].replayed) /\ a = "ok"
    <3> DEFINE r == Written(made, m.effect)
    <3>1. Set(p, r) /\ svc' = After(svc, m)
      BY <2>1, <2>4 DEF Carried, Answers
    <3>2. /\ "context" \in DOMAIN made /\ made.pc = "verifyDlp" /\ made.cmd = proc[p].cmd
          /\ made.read = proc[p].read /\ made.i = proc[p].i
      BY ProcIs DEF At, ProcStates
    <3> HIDE DEF made
    <3>3. r.pc = "verifyDlp" /\ r.cmd = proc[p].cmd /\ r.read = proc[p].read /\ r.i = proc[p].i
      BY <3>2 DEF Written
    <3> HIDE DEF r
    <3>4. DlpItems(r) = DlpItems(proc[p]) /\ DlpSequence(r) = DlpSequence(proc[p])
      BY <3>3, SameRows
    <3>5. ASSUME SweepHolds(svc, proc[p]), NEW j \in Left(r)
          PROVE  Unused(svc', r, DlpSequence(r)[j])
      <4>1. j \in DlpItems(proc[p]) /\ j > proc[p].i
        BY <3>3, <3>4, <3>5 DEF Left
      <4>2. Unused(svc, proc[p], DlpSequence(proc[p])[j])
        BY <1>1, <3>5, <4>1 DEF SweepHolds, Left
      <4>3. PICK o : o.name = name /\ svc'.dlp = svc.dlp \cup {o}
        BY <1>2, <3>1, MadeIs
      <4>4. Unused(svc', proc[p], DlpSequence(proc[p])[j])
        BY <1>1, <1>2, <4>1, <4>2, <4>3, CreateFree
      <4> QED BY <3>3, <3>4, <4>4 DEF Unused, Reconciles
    <3>6. DlpOK(r) /\ (SweepHolds(svc, proc[p]) => SweepHolds(svc', r))
      BY <3>3, <3>5 DEF DlpOK, SweepHolds
    <3> QED BY <3>1, <3>6 DEF Set, DlpSees, Sees
  <2>5. CASE ~Replays(a, proc[p].replayed) /\ a = "rejected" /\ Copies(conflict)
    <3> DEFINE r == At(p, "copyDlp")
    <3>1. Set(p, r) /\ svc' = svc
      BY <2>1, <2>5 DEF Carried, Answers
    <3>2. r.pc = "copyDlp" /\ r.cmd = proc[p].cmd /\ r.read = proc[p].read /\ r.i = proc[p].i
      BY AtIs DEF PCs
    <3> HIDE DEF r
    <3>3. Left(r) = Left(proc[p]) /\ DlpSequence(r) = DlpSequence(proc[p]) /\ Reconciles(r)
      BY <2>5, <3>2, SameRows DEF Left, Reconciles
    <3>4. DlpOK(r) /\ (SweepHolds(svc, proc[p]) => SweepHolds(svc', r))
      BY <1>1, <3>1, <3>2, <3>3 DEF DlpOK, SweepHolds, Unused, Reconciles
    <3> QED BY <3>1, <3>4 DEF Set, DlpSees, Sees
  <2>6. CASE ~Replays(a, proc[p].replayed) /\ a # "ok" /\ ~(a = "rejected" /\ Copies(conflict))
    <3>1. Set(p, WriteFailed(p, a, m.effect))
      BY <2>1, <2>2, <2>6
    <3> QED BY <3>1, Overs, OverSees
  <2> QED BY <2>3, <2>4, <2>5, <2>6
<1> QED BY <1>3, <1>4, FailsSees

LEMMA VerifySees ==
    ASSUME IInv, NEW p \in Procs, Kind(p) = "dlpRestore", VerifyDlp(p)
    PROVE  DlpSees(p)
<1>1. proc[p].pc = "verifyDlp" /\ IsDlpRestore(proc[p].cmd) /\ proc[p].i \in Nat
  BY Guards, DlpIs
<1> DEFINE back == {o \in svc.dlp : /\ o.id = proc[p].id /\ ~o.retired
                                    /\ Echoes(o, DlpBody(proc[p], DlpName(proc[p])))}
           known == proc[p].known \cup back
           c == [proc[p] EXCEPT !.known = known]
           r == DlpItem(c, proc[p].i)
<1>2. known \subseteq DlpRecords
  BY DlpIs, SvcIs
<1>3. Move(p, Stop(p)) \/ Move(p, r) \/ ReadFails(p)
  <2>1. c.i = proc[p].i
    BY DlpIs DEF ProcStates
  <2> QED BY <2>1 DEF VerifyDlp
<1> HIDE DEF known
<1>4. c \in ProcStates /\ c.cmd = proc[p].cmd /\ c.read = proc[p].read
  BY <1>2, DlpIs DEF ProcStates
<1> HIDE DEF c
<1>5. DlpItems(c) = DlpItems(proc[p]) /\ DlpSequence(c) = DlpSequence(proc[p])
  BY <1>4, SameRows
<1>6. ASSUME SweepHolds(svc, proc[p]), NEW j \in DlpItems(c), j > proc[p].i
      PROVE  Unused(svc, c, DlpSequence(c)[j])
  <2>1. Unused(svc, proc[p], DlpSequence(proc[p])[j])
    BY <1>1, <1>5, <1>6 DEF SweepHolds, Left
  <2> QED BY <1>4, <1>5, <2>1 DEF Unused, Reconciles
<1>7. DlpOK(r) /\ (SweepHolds(svc, proc[p]) => SweepHolds(svc, r))
  BY <1>1, <1>4, <1>6, ItemFree
<1> HIDE DEF r
<1> QED BY <1>3, <1>7, FailsSees, MoveSees

LEMMA EndSees ==
    ASSUME IInv, NEW p \in Procs, DlpOK(proc[p]), Report(p, proc[p].result.says) \/ Signal(p)
    PROVE  DlpSees(p)
<1>1. CASE Report(p, proc[p].result.says)
  <2> DEFINE report == Printed(proc[p].result, p \in signal, proc[p].committed,
                               proc[p].result.says, proc[p].context)
             r == At(p, "ended")
  <2>1. Move(p, [r EXCEPT !.report = report])
    BY <1>1 DEF Report
  <2>2. "pc" \in DOMAIN r /\ r.pc = "ended"
    BY AtIs DEF PCs, ProcStates
  <2> HIDE DEF report, r
  <2>3. [r EXCEPT !.report = report].pc \in Over
    BY <2>2 DEF Over
  <2> QED BY <2>1, <2>3, OverSees DEF Move
<1>2. CASE Signal(p)
  <2>1. proc' = proc /\ svc' = svc
    BY <1>2 DEF Signal, world
  <2>2. proc' = [proc EXCEPT ![p] = proc[p]]
    BY <2>1 DEF IInv, Typed
  <2> QED BY <2>1, <2>2 DEF DlpSees, Sees
<1> QED BY <1>1, <1>2

LEMMA StepSees ==
    ASSUME IInv, NEW p \in Procs, Kind(p) = "dlpRestore", DlpOK(proc[p]), Step(p) \/ KeyStep(p)
    PROVE  DlpSees(p)
<1>1. proc[p].pc \in {"start", "ask", "planDlp", "recheckDlp", "createDlp", "copyDlp", "verifyDlp",
                     "exit", "ended"}
  BY ProcIs DEF KindOK, Kind, ProcStates, PCs
<1>2. ~KeyStep(p) /\ ~Start(p)
  BY <1>1 DEF KeyStep, CheckKeyFile, ReserveKey, WriteKey, SaveKey, WritesKey, Start, AsksFirst
<1>3. Connect(p) \/ Confirm(p) \/ SweepDlp(p) \/ CreateDlp(p) \/ VerifyDlp(p)
      \/ Report(p, proc[p].result.says) \/ Signal(p)
  BY <1>1, <1>2, Guards DEF Step
<1> QED BY <1>3, ConnectSees, ConfirmSees, SweepSees, CreateSees, VerifySees, EndSees

SweepInv == IInv /\ SweepOK

LEMMA SweepStep ==
    ASSUME SweepInv, IInv', Next
    PROVE  SweepOK'
<1>1. ASSUME NEW p \in Procs, Step(p) \/ KeyStep(p), Observe({p}) PROVE SweepOK'
  <2>1. PICK r : proc' = [proc EXCEPT ![p] = r]
    BY <1>1, CmdStays DEF SweepInv
  <2>2. /\ \A q \in Procs : q # p => proc'[q] = proc[q]
        /\ \A q \in Procs : proc'[q].cmd = proc[q].cmd
    BY <1>1, <2>1, CmdStays DEF SweepInv, IInv, Typed
  <2> SUFFICES ASSUME NEW q \in Procs, proc'[q].cmd.kind = "dlpRestore"
               PROVE  DlpOK(proc'[q]) /\ (q \notin stale' => SweepHolds(svc', proc'[q]))
    BY DEF SweepOK, Kind
  <2>3. /\ Kind(q) = "dlpRestore" /\ proc'[q].i \in Nat
        /\ DlpOK(proc[q]) /\ (q \notin stale => SweepHolds(svc, proc[q]))
    BY <2>2 DEF Kind, SweepInv, SweepOK, IInv, Typed, ProcStates
  <2>4. DlpOK(proc'[q])
        /\ (q \notin stale /\ (q = p \/ svc' = svc) => SweepHolds(svc', proc'[q]))
    <3>1. CASE q = p
      <4>1. PICK t : proc' = [proc EXCEPT ![p] = t] /\ Sees(p, t)
        BY <1>1, <2>3, <3>1, StepSees DEF SweepInv, DlpSees
      <4>2. proc'[p] = t
        BY <4>1 DEF SweepInv, IInv, Typed
      <4> QED BY <2>3, <3>1, <4>1, <4>2 DEF Sees
    <3>2. CASE q # p
      BY <2>2, <2>3, <3>2
    <3> QED BY <3>1, <3>2
  <2>5. CASE Writing(proc'[q])
    <3>1. q \notin stale' => q \notin stale /\ (q = p \/ svc' = svc)
      BY <1>1, <2>5 DEF Observe
    <3> QED BY <2>4, <3>1
  <2>6. CASE ~Writing(proc'[q])
    BY <2>3, <2>4, <2>6, Unseen
  <2> QED BY <2>5, <2>6
<1>2. ASSUME NEW m \in wire, Arrive(m), Observe({}) PROVE SweepOK'
  <2>1. proc' = proc
    BY <1>2 DEF Arrive
  <2> SUFFICES ASSUME NEW q \in Procs, proc[q].cmd.kind = "dlpRestore"
               PROVE  DlpOK(proc[q]) /\ (q \notin stale' => SweepHolds(svc', proc[q]))
    BY <2>1 DEF SweepOK, Kind
  <2>2. /\ DlpOK(proc[q]) /\ (q \notin stale => SweepHolds(svc, proc[q]))
        /\ proc[q].i \in Nat
    BY DEF Kind, SweepInv, SweepOK, IInv, Typed, ProcStates
  <2>3. CASE Writing(proc[q])
    <3>1. q \notin stale' => q \notin stale /\ svc' = svc
      BY <1>2, <2>1, <2>3 DEF Observe
    <3> QED BY <2>2, <3>1
  <2>4. CASE ~Writing(proc[q])
    BY <2>2, <2>4, Unseen
  <2> QED BY <2>3, <2>4
<1> QED BY <1>1, <1>2 DEF Next

LEMMA SweepInductive == Spec => []SweepInv
<1>1. ASSUME SweepInv, UNCHANGED vars PROVE SweepOK'
  <2>1. proc' = proc /\ svc' = svc /\ stale' = stale
    BY <1>1 DEF vars
  <2> QED BY <1>1, <2>1 DEF SweepInv, SweepOK, Kind
<1>2. ASSUME SweepInv, IInv', [Next]_vars PROVE SweepInv'
  BY <1>1, <1>2, SweepStep DEF SweepInv
<1>3. Init => SweepInv
  <2> SUFFICES ASSUME Init PROVE SweepOK
    BY InitInv DEF SweepInv
  <2>1. \A p \in Procs : proc[p].pc = "start" /\ proc[p].known = {}
    BY DEF Init, NewProc
  <2> QED BY <2>1 DEF SweepOK, DlpOK, SweepHolds
<1> QED BY <1>2, <1>3, Inductive, PTL DEF Spec

\* RuntimeAdmin.NoSecondDlp: unless somebody else changed the service meanwhile,
\* a DLP restore makes no second resource of a name in use, and no copy of a
\* profile in use or of which there is a copy in use.
THEOREM NoSecond == Spec => NoSecondDlp
<1> DEFINE Unmade(p) ==
      Kind(p) = "dlpRestore" /\ Writing(proc[p]) /\ proc'[p] # proc[p] /\ p \notin stale
        => \A o \in svc'.dlp \ svc.dlp :
             Active(svc.dlp, o.name) = {} /\ Active(svc.dlp, DlpName(proc[p])) = {}
<1>1. ASSUME SweepInv, Next, NEW p \in Procs PROVE Unmade(p)
  <2> SUFFICES ASSUME Kind(p) = "dlpRestore", proc'[p] # proc[p], p \notin stale,
                      svc'.dlp # svc.dlp
               PROVE  \A o \in svc'.dlp \ svc.dlp :
                        Active(svc.dlp, o.name) = {} /\ Active(svc.dlp, DlpName(proc[p])) = {}
    OBVIOUS
  <2>1. IInv /\ DlpOK(proc[p]) /\ SweepHolds(svc, proc[p])
    BY <1>1 DEF SweepInv, SweepOK
  <2>2. Step(p) \/ KeyStep(p)
    <3>1. PICK q \in Procs : Step(q) \/ KeyStep(q)
      BY <1>1 DEF Next, Arrive
    <3>2. PICK r : proc' = [proc EXCEPT ![q] = r]
      BY <2>1, <3>1, CmdStays
    <3>3. p = q
      BY <2>1, <3>2 DEF IInv, Typed
    <3> QED BY <3>1, <3>3
  <2>3. CreateDlp(p)
    <3>1. proc[p].pc \in {"start", "ask", "planDlp", "recheckDlp", "createDlp", "copyDlp", "verifyDlp",
                         "exit", "ended"}
      BY <2>1, ProcIs DEF KindOK, Kind, ProcStates, PCs
    <3>2. ~KeyStep(p)
      BY <3>1 DEF KeyStep, CheckKeyFile, ReserveKey, WriteKey, SaveKey, WritesKey
    <3>3. \A r : ~Move(p, r)
      BY DEF Move, world
    <3>4. /\ ~Start(p) /\ ~Connect(p) /\ ~Confirm(p) /\ ~SweepDlp(p) /\ ~VerifyDlp(p)
          /\ ~Report(p, proc[p].result.says) /\ ~Signal(p)
      BY <3>3 DEF Start, Connect, Confirm, SweepDlp, VerifyDlp, Report, ReadFails, Signal, world
    <3> QED BY <2>2, <3>1, <3>2, <3>4, Guards DEF Step
  <2> DEFINE n == DlpName(proc[p])
             name == IF proc[p].pc = "copyDlp" THEN Suffixed[n] ELSE n
             body == DlpBody(proc[p], n)
             m == [by |-> p, effect |-> <<"makeDlp", name>>, refs |-> body.refs,
                   body |-> body.body]
  <2>4. svc' = After(svc, m)
    <3>1. Move(p, Interrupt(p)) \/ \E then : Send(p, m, proc[p].pc, then)
      BY <2>3 DEF CreateDlp
    <3> HIDE DEF m
    <3> QED BY <3>1, SendDoes DEF Move, world
  <2>5. Op(m) = "makeDlp" /\ Target(m) = name
    BY DEF Op, Target
  <2> HIDE DEF m
  <2>6. PICK o : o.name = name /\ svc'.dlp = svc.dlp \cup {o}
    BY <2>1, <2>4, <2>5, MadeIs
  <2>7. /\ proc[p].pc \in {"createDlp", "copyDlp"} /\ proc[p].i \in Left(proc[p])
        /\ proc[p].pc = "copyDlp" => Reconciles(proc[p]) /\ DlpKind[n] = "profile"
    BY <2>1, <2>3, Guards, ProcIs DEF Left, PlaceOK, DlpOK
  <2>8. Unused(svc, proc[p], n)
    BY <2>1, <2>7 DEF SweepHolds, DlpName
  <2>9. Active(svc.dlp, n) = {} /\ Active(svc.dlp, name) = {}
    BY <2>7, <2>8 DEF Unused
  <2> QED BY <2>6, <2>9
<1>2. SweepInv /\ [Next]_vars => [\A p \in Procs : Unmade(p)]_vars
  BY <1>1
<1> QED BY <1>2, SweepInductive, PTL DEF Spec, NoSecondDlp

-----------------------------------------------------------------------------
(* What a restore does, beside others *)

\* Every step reads, sends a write, or saves the value of a key.
Sends(p) == \E m, again, then : Send(p, m, again, then)
Reads(p) == svc' = svc /\ did' = did /\ doubt' = doubt
Saves(p) ==
    svc' = svc /\ doubt' = doubt /\ \E e : did' = [did EXCEPT ![p] = @ \cup {e}]

LEMMA MoveReads ==
    ASSUME NEW p, NEW r, Move(p, r)
    PROVE  Reads(p)
  BY DEF Move, world, Reads

LEMMA FailsReads ==
    ASSUME NEW p, ReadFails(p)
    PROVE  Reads(p)
  BY MoveReads DEF ReadFails

LEMMA StepWrites ==
    ASSUME NEW p, Step(p) \/ KeyStep(p)
    PROVE  Reads(p) \/ Sends(p) \/ Saves(p)
<1>1. CASE Start(p) \/ Connect(p) \/ Confirm(p)
  BY <1>1, MoveReads, FailsReads DEF Start, Connect, Confirm
<1>2. CASE FindTopic(p) \/ FindProfile(p)
  BY <1>2, MoveReads, FailsReads DEF FindTopic, FindProfile
<1>3. CASE WriteEdit(p)
  BY <1>3 DEF WriteEdit, Sends
<1>4. CASE DropTopic(p)
  BY <1>4 DEF DropTopic, Sends
<1>5. CASE List(p) \/ ListAgain(p)
  BY <1>5, MoveReads, FailsReads DEF List, ListAgain
<1>6. CASE DeleteOne(p)
  BY <1>6, MoveReads DEF DeleteOne, Sends
<1>7. CASE PlanProfiles(p) \/ PlanTopics(p) \/ Recheck(p) \/ Topic(p) \/ Profile(p) \/ VerifyProfile(p)
  BY <1>7, MoveReads, FailsReads DEF PlanProfiles, PlanTopics, Recheck, Topic, Profile, VerifyProfile
<1>8. CASE PostTopic(p) \/ WriteProfile(p)
  BY <1>8, MoveReads DEF PostTopic, WriteProfile, Sends
<1>9. CASE GuardDlp(p) \/ SweepDlp(p) \/ VerifyDlp(p)
  BY <1>9, MoveReads, FailsReads DEF GuardDlp, SweepDlp, VerifyDlp
<1>10. CASE EditDlp(p)
  BY <1>10, MoveReads DEF EditDlp, Sends
<1>11. CASE CreateDlp(p)
  BY <1>11, MoveReads DEF CreateDlp, Sends
<1>12. CASE Report(p, proc[p].result.says) \/ Signal(p)
  BY <1>12, MoveReads DEF Report, Signal, world, Reads
<1>13. CASE CheckKeyFile(p) \/ ReserveKey(p)
  BY <1>13, MoveReads, FailsReads DEF CheckKeyFile, ReserveKey
<1>14. CASE WriteKey(p)
  BY <1>14 DEF WriteKey, Sends
<1>15. CASE SaveKey(p)
  BY <1>15, MoveReads DEF SaveKey, Stored, Saves
<1> QED
  BY <1>1, <1>2, <1>3, <1>4, <1>5, <1>6, <1>7, <1>8, <1>9, <1>10, <1>11, <1>12, <1>13, <1>14, <1>15
     DEF Step, KeyStep

\* What a process did, or has in doubt, stays; only it has more, and it has
\* when the service has changed.
LEMMA DidGrows ==
    ASSUME IInv, NEW p \in Procs, Step(p) \/ KeyStep(p)
    PROVE  /\ did[p] \subseteq did'[p] /\ doubt[p] \subseteq doubt'[p]
           /\ \A o \in Procs : o # p => did'[o] = did[o] /\ doubt'[o] = doubt[o]
           /\ svc' = svc \/ did'[p] # {}
<1>1. did \in [Procs -> SUBSET Effects] /\ doubt \in [Procs -> SUBSET Effects]
  BY DEF IInv, Typed
<1>2. CASE Reads(p) \/ Saves(p)
  BY <1>1, <1>2 DEF Reads, Saves
<1>3. CASE Sends(p)
  BY <1>1, <1>3 DEF Sends, Send
<1> QED BY <1>2, <1>3, StepWrites

\* A process that has ended, or waits for the others, does nothing.
LEMMA EndedStays ==
    ASSUME IInv, NEW p \in Procs, proc[p].pc = "ended"
    PROVE  ~Step(p) /\ ~KeyStep(p)
<1>1. ~KeyStep(p)
  BY DEF KeyStep, CheckKeyFile, ReserveKey, WriteKey, SaveKey
<1>2. ~Signal(p)
  BY DEF Signal
<1> QED BY <1>1, <1>2, Guards DEF Step

LEMMA StartWaits ==
    ASSUME IInv, NEW p \in Procs, Restores(p), proc[p].pc = "start", Step(p) \/ KeyStep(p)
    PROVE  proc' = proc \/ ~Waiting(p)
<1>1. ~KeyStep(p) /\ ~Start(p)
  BY DEF KeyStep, CheckKeyFile, ReserveKey, WriteKey, SaveKey, WritesKey, Start, AsksFirst, Restores
<1>2. Connect(p) \/ Signal(p)
  BY <1>1, Guards DEF Step
<1> QED BY <1>2 DEF Connect, Signal

\* A restore that waits starts when all others have ended.
WaitOK ==
    \A p, q \in Procs :
        Restores(p) /\ proc[p].cmd.waits /\ proc[p].pc # "start" /\ q # p => proc[q].pc = "ended"

LEMMA WaitStep ==
    ASSUME IInv, WaitOK, Next
    PROVE  WaitOK'
<1>1. ASSUME NEW o \in Procs, Step(o) \/ KeyStep(o) PROVE WaitOK'
  <2>1. PICK r : proc' = [proc EXCEPT ![o] = r]
    BY <1>1, CmdStays
  <2>2. /\ \A q \in Procs : q # o => proc'[q] = proc[q]
        /\ \A q \in Procs : proc'[q].cmd = proc[q].cmd
    BY <1>1, <2>1, CmdStays DEF IInv, Typed
  <2> SUFFICES ASSUME NEW p \in Procs, NEW q \in Procs, Restores(p)', proc'[p].cmd.waits,
                      proc'[p].pc # "start", q # p
               PROVE  proc'[q].pc = "ended"
    BY DEF WaitOK
  <2>3. Restores(p) /\ proc[p].cmd.waits
    BY <2>2 DEF Restores, Kind
  <2>4. CASE proc[p].pc # "start"
    <3>1. proc[q].pc = "ended"
      BY <2>3, <2>4 DEF WaitOK
    <3>2. o # q
      BY <1>1, <3>1, EndedStays
    <3> QED BY <2>2, <3>1, <3>2
  <2>5. CASE proc[p].pc = "start"
    <3>1. o = p /\ proc' # proc
      BY <2>2, <2>5
    <3>2. ~Waiting(p)
      BY <1>1, <2>3, <2>5, <3>1, StartWaits
    <3>3. proc[q].pc = "ended"
      BY <2>3, <3>2 DEF Waiting
    <3> QED BY <2>2, <3>1, <3>3
  <2> QED BY <2>4, <2>5
<1>2. ASSUME NEW m \in wire, Arrive(m) PROVE WaitOK'
  BY <1>2 DEF Arrive, WaitOK, Restores, Kind
<1> QED BY <1>1, <1>2 DEF Next

-----------------------------------------------------------------------------
(* What a restore makes *)

Makes == {"makeTopic", "makeProfile", "makeDlp"}

\* What a create makes is there.
Present(s, e) ==
    /\ e[1] = "makeTopic" => Named(s.topics, e[2]) # {}
    /\ e[1] = "makeProfile" => Named(s.profiles, e[2]) # {}
    /\ e[1] = "makeDlp" => Active(s.dlp, e[2]) # {}

\* A write of a restore.
Restoring(m) ==
    \/ Op(m) \in Makes
    \/ Op(m) = "putProfile" /\ WriteOK(m)

LEMMA PresentKept ==
    ASSUME IInv, NEW m, Restoring(m), Takes(svc, m), svc' = After(svc, m)
    PROVE  /\ \A e : Present(svc, e) => Present(svc', e)
           /\ Present(svc', m.effect)
<1>1. CASE Op(m) = "makeTopic"
  <2> DEFINE t == [id |-> svc.next, name |-> Target(m), def |-> m.def]
  <2>1. svc'.topics = svc.topics \cup {t} /\ svc'.profiles = svc.profiles /\ svc'.dlp = svc.dlp
    BY <1>1, SvcIs DEF After, ServiceStates
  <2>2. t.name = Target(m)
    OBVIOUS
  <2> HIDE DEF t
  <2> QED BY <1>1, <2>1, <2>2 DEF Present, Named, Op, Target
<1>2. CASE Op(m) = "makeProfile"
  <2> DEFINE t == [id |-> svc.next, name |-> Target(m), rev |-> 1, policy |-> m.policy]
  <2>1. svc'.profiles = svc.profiles \cup {t} /\ svc'.topics = svc.topics /\ svc'.dlp = svc.dlp
    BY <1>2, SvcIs DEF After, ServiceStates
  <2>2. t.name = Target(m)
    OBVIOUS
  <2> HIDE DEF t
  <2> QED BY <1>2, <2>1, <2>2 DEF Present, Named, Op, Target
<1>3. CASE Op(m) = "makeDlp"
  <2> DEFINE o == [id |-> svc.next, name |-> Target(m), refs |-> m.refs, body |-> m.body,
                   predefined |-> FALSE, retired |-> FALSE]
  <2>1. svc'.dlp = svc.dlp \cup {o} /\ svc'.topics = svc.topics /\ svc'.profiles = svc.profiles
    BY <1>3, SvcIs DEF After, ServiceStates
  <2>2. o.name = Target(m) /\ ~o.retired
    OBVIOUS
  <2> HIDE DEF o
  <2> QED BY <1>3, <2>1, <2>2 DEF Present, Named, Active, Op, Target
<1>4. CASE Op(m) = "putProfile"
  <2> DEFINE t == Revised(svc, m.id, m.policy)
  <2>1. svc'.profiles = svc.profiles \cup {t} /\ svc'.topics = svc.topics /\ svc'.dlp = svc.dlp
    BY <1>4, SvcIs DEF After, ServiceStates
  <2> HIDE DEF t
  <2> QED BY <1>4, <2>1 DEF Present, Named, Op
<1> QED BY <1>1, <1>2, <1>3, <1>4 DEF Restoring, Makes

\* A restore that knows what is there creates only what is not.
Knows(p) == ReadHolds(svc, proc[p]) /\ (Kind(p) = "dlpRestore" => SweepHolds(svc, proc[p]))
Adds(p) ==
    \E m : /\ Restoring(m) /\ Takes(svc, m) /\ svc' = After(svc, m)
           /\ did' = [did EXCEPT ![p] = @ \cup {m.effect}]
           /\ Knows(p) /\ Op(m) \in Makes => ~Present(svc, m.effect)

LEMMA SendDid ==
    ASSUME NEW p, NEW m, NEW again, NEW then, Send(p, m, again, then)
    PROVE  \/ svc' = svc /\ did' = did
           \/ /\ Takes(svc, m) /\ svc' = After(svc, m)
              /\ did' = [did EXCEPT ![p] = @ \cup {m.effect}]
  BY DEF Send

LEMMA PostTopicAdds ==
    ASSUME IInv, NEW p \in Procs, PostTopic(p)
    PROVE  (svc' = svc /\ did' = did) \/ Adds(p)
<1> DEFINE n == TopicName(proc[p])
           m == [by |-> p, effect |-> <<"makeTopic", n>>, def |-> SourceTopic[n]]
<1>1. /\ proc[p].pc = "postTopic"
      /\ \/ svc' = svc /\ did' = did
         \/ /\ Takes(svc, m) /\ svc' = After(svc, m)
            /\ did' = [did EXCEPT ![p] = @ \cup {m.effect}]
  BY SendDid DEF PostTopic, Move, world
<1>2. Op(m) = "makeTopic" /\ m.effect[1] = "makeTopic" /\ m.effect[2] = n
  BY DEF Op
<1> HIDE DEF m
<1>3. Knows(p) => ~Present(svc, m.effect)
  BY <1>1, <1>2 DEF Knows, ReadHolds, Present
<1> QED BY <1>1, <1>2, <1>3 DEF Adds, Restoring, Makes

LEMMA WriteProfileAdds ==
    ASSUME IInv, NEW p \in Procs, WriteProfile(p)
    PROVE  (svc' = svc /\ did' = did) \/ Adds(p)
<1> DEFINE m == ProfileWrite(p)
           n == ProfileName(proc[p])
<1>1. /\ proc[p].pc = "writeProfile"
      /\ \/ svc' = svc /\ did' = did
         \/ /\ Takes(svc, m) /\ svc' = After(svc, m)
            /\ did' = [did EXCEPT ![p] = @ \cup {m.effect}]
  BY SendDid DEF WriteProfile, Move, world
<1>2. /\ WriteOK(m)
      /\ \/ m.effect = <<"makeProfile", n>>
         \/ m.effect = <<"putProfile", n>>
  BY <1>1, ProfileWriteIs
<1>3. m.effect = <<"makeProfile", n>> => Named(proc[p].read, n) = {}
  <2>1. CASE Action(proc[p], n) = "create"
    <3>1. proc[p].cmd.conflict \in {"error", "verify", "skip", "update"}
      BY <1>1, RestoreIs, ProcIs DEF KindOK, Kind, IsRestore
    <3> QED BY <2>1, <3>1 DEF Action
  <2>2. CASE Action(proc[p], n) # "create"
    <3>1. m.effect = <<"putProfile", n>>
      BY <2>2 DEF ProfileWrite
    <3> HIDE DEF m
    <3> QED BY <3>1
  <2> QED BY <2>1, <2>2
<1>4. Op(m) = m.effect[1]
  BY DEF Op
<1> HIDE DEF m, n
<1>5. ASSUME Knows(p), Op(m) \in Makes PROVE ~Present(svc, m.effect)
  <2>1. m.effect = <<"makeProfile", n>>
    BY <1>2, <1>4, <1>5 DEF Makes
  <2>2. Named(Latest(svc.profiles), n) = {}
    BY <1>1, <1>3, <1>5, <2>1 DEF Knows, ReadHolds, n
  <2>3. Named(svc.profiles, n) = {}
    <3>1. Named(svc.profiles, n) \subseteq Revisions /\ IsFiniteSet(Named(svc.profiles, n))
      BY SvcIs, FS_Subset DEF Named
    <3> QED BY <2>2, <3>1, HighestIs, LatestNamed
  <2> QED BY <2>1, <2>3 DEF Present
<1>6. Restoring(m)
  BY <1>2, <1>4 DEF Restoring, Makes
<1> QED BY <1>1, <1>5, <1>6 DEF Adds

LEMMA CreateDlpAdds ==
    ASSUME IInv, NEW p \in Procs, CreateDlp(p), DlpOK(proc[p])
    PROVE  (svc' = svc /\ did' = did) \/ Adds(p)
<1> DEFINE n == DlpName(proc[p])
           name == IF proc[p].pc = "copyDlp" THEN Suffixed[n] ELSE n
           body == DlpBody(proc[p], n)
           m == [by |-> p, effect |-> <<"makeDlp", name>>, refs |-> body.refs,
                 body |-> body.body]
<1>1. \/ svc' = svc /\ did' = did
      \/ /\ Takes(svc, m) /\ svc' = After(svc, m)
         /\ did' = [did EXCEPT ![p] = @ \cup {m.effect}]
  <2>1. Move(p, Interrupt(p)) \/ \E then : Send(p, m, proc[p].pc, then)
    BY DEF CreateDlp
  <2> HIDE DEF m
  <2> QED BY <2>1, SendDid DEF Move, world
<1>2. Op(m) = "makeDlp" /\ m.effect[1] = "makeDlp" /\ m.effect[2] = name
  BY DEF Op
<1> HIDE DEF m
<1>3. /\ proc[p].pc \in {"createDlp", "copyDlp"} /\ proc[p].i \in Left(proc[p])
      /\ proc[p].pc = "copyDlp" => Reconciles(proc[p]) /\ DlpKind[n] = "profile"
  BY Guards, ProcIs DEF Left, PlaceOK, DlpOK
<1>4. Kind(p) = "dlpRestore"
  BY <1>3, ProcIs DEF KindOK, Kind
<1>5. ASSUME Knows(p) PROVE ~Present(svc, m.effect)
  <2>1. Unused(svc, proc[p], n)
    BY <1>3, <1>4, <1>5 DEF Knows, SweepHolds, DlpName
  <2>2. Active(svc.dlp, name) = {}
    BY <1>3, <2>1 DEF Unused
  <2> QED BY <1>2, <2>2 DEF Present
<1> QED BY <1>1, <1>2, <1>5 DEF Adds, Restoring, Makes

LEMMA RestoreAdds ==
    ASSUME IInv, NEW p \in Procs, Restores(p), Kind(p) = "dlpRestore" => DlpOK(proc[p]),
           Step(p) \/ KeyStep(p)
    PROVE  (svc' = svc /\ did' = did) \/ Adds(p)
<1>1. proc[p].pc \notin {"findTopic", "findProfile", "write", "drop", "list", "relist", "delete",
                         "guardDlp", "editDlp", "reserve", "writeKey", "saveKey"}
  BY ProcIs DEF KindOK, Restores, Kind
<1>2. ~KeyStep(p)
  BY <1>1 DEF KeyStep, CheckKeyFile, ReserveKey, WriteKey, SaveKey, WritesKey, Restores
<1>3. \A r : Move(p, r) => svc' = svc /\ did' = did
  BY DEF Move, world
<1>4. ReadFails(p) => svc' = svc /\ did' = did
  BY <1>3 DEF ReadFails
<1>5. CASE Start(p) \/ Connect(p) \/ Confirm(p)
  BY <1>3, <1>4, <1>5 DEF Start, Connect, Confirm
<1>6. CASE PlanProfiles(p) \/ PlanTopics(p) \/ Recheck(p) \/ Topic(p) \/ Profile(p) \/ VerifyProfile(p)
  BY <1>3, <1>4, <1>6 DEF PlanProfiles, PlanTopics, Recheck, Topic, Profile, VerifyProfile
<1>7. CASE SweepDlp(p) \/ VerifyDlp(p)
  BY <1>3, <1>4, <1>7 DEF SweepDlp, VerifyDlp
<1>8. CASE Report(p, proc[p].result.says) \/ Signal(p)
  BY <1>3, <1>8 DEF Report, Signal, world
<1>9. CASE CreateDlp(p)
  <2>1. Kind(p) = "dlpRestore"
    BY <1>9, Guards, ProcIs DEF KindOK, Kind
  <2> QED BY <1>9, <2>1, CreateDlpAdds
<1> QED
  BY <1>1, <1>2, <1>5, <1>6, <1>7, <1>8, <1>9, PostTopicAdds, WriteProfileAdds, Guards DEF Step

-----------------------------------------------------------------------------
(* A restore that is run again *)

\* p waits for the restore q, nobody else changes anything, and no write is in
\* doubt.
Alone(p, q) ==
    /\ p # q /\ Restores(p) /\ Restores(q) /\ proc[p].cmd.waits
    /\ \A o \in Procs : doubt[o] = {}
    /\ \A o \in Procs \ {p, q} : did[o] = {}

\* Then what q made is there, and p has seen it, and makes none of it.
AloneOK ==
    \A p, q \in Procs :
        Alone(p, q) =>
          /\ p \notin stale
          /\ \A e \in did[q] : Present(svc, e)
          /\ \A e \in did[p] \cap did[q] : e[1] \notin Makes

ResumeInv == SweepInv /\ WindowOK /\ WaitOK /\ AloneOK

\* A process at its start has read nothing that could be out of date.
LEMMA StartReads ==
    ASSUME IInv, NEW p \in Procs, proc[p].pc = "start"
    PROVE  ~Writing(proc[p]) /\ did[p] = {}
<1>1. proc[p].i = 0
  BY ProcIs DEF PlaceOK
<1>2. did[p] = {}
  BY ProcIs DEF Ledger, Over, Busy
<1> QED BY <1>1, <1>2 DEF Writing

LEMMA AloneStep ==
    ASSUME ResumeInv, IInv', NEW o \in Procs, Step(o) \/ KeyStep(o), Observe({o})
    PROVE  AloneOK'
<1>1. PICK r : proc' = [proc EXCEPT ![o] = r]
  BY CmdStays DEF ResumeInv, SweepInv
<1>2. /\ \A s \in Procs : s # o => proc'[s] = proc[s]
      /\ \A s \in Procs : proc'[s].cmd = proc[s].cmd
  BY <1>1, CmdStays DEF ResumeInv, SweepInv, IInv, Typed
<1>3. /\ \A s \in Procs : did[s] \subseteq did'[s] /\ doubt[s] \subseteq doubt'[s]
      /\ \A s \in Procs : s # o => did'[s] = did[s] /\ doubt'[s] = doubt[s]
      /\ svc' = svc \/ did'[o] # {}
  BY DidGrows DEF ResumeInv, SweepInv
<1> SUFFICES ASSUME NEW p \in Procs, NEW q \in Procs, Alone(p, q)'
             PROVE  /\ p \notin stale'
                    /\ \A e \in did'[q] : Present(svc', e)
                    /\ \A e \in did'[p] \cap did'[q] : e[1] \notin Makes
  BY DEF AloneOK
<1>4. Alone(p, q)
  BY <1>2, <1>3 DEF Alone, Restores, Kind
<1>5. /\ p \notin stale /\ \A e \in did[q] : Present(svc, e)
      /\ \A e \in did[p] \cap did[q] : e[1] \notin Makes
  BY <1>4 DEF ResumeInv, AloneOK
<1>6. p \in stale' => Writing(proc'[p]) /\ p # o /\ svc' # svc
  BY <1>5 DEF Observe
<1>7. IInv /\ \A s \in Procs : Kind(s) = "dlpRestore" => DlpOK(proc[s])
  BY DEF ResumeInv, SweepInv, SweepOK
<1>8. did \in [Procs -> SUBSET Effects]
  BY <1>7 DEF IInv, Typed
<1>9. CASE o # p /\ o # q
  <2>1. svc' = svc
    BY <1>3, <1>9 DEF Alone
  <2> QED BY <1>3, <1>5, <1>6, <1>9, <2>1
<1>10. CASE o = q
  <2>1. proc[q].pc # "ended" /\ p # q
    BY <1>4, <1>7, <1>10, EndedStays DEF Alone
  <2>2. proc[p].pc = "start"
    BY <1>4, <2>1 DEF ResumeInv, WaitOK, Alone
  <2>3. ~Writing(proc'[p]) /\ did'[p] = {}
    BY <1>2, <1>3, <1>7, <1>10, <2>1, <2>2, StartReads
  <2>4. (svc' = svc /\ did' = did) \/ Adds(q)
    BY <1>4, <1>7, <1>10, RestoreAdds DEF Alone
  <2>5. CASE Adds(q)
    <3>1. PICK m : /\ Restoring(m) /\ Takes(svc, m) /\ svc' = After(svc, m)
                   /\ did' = [did EXCEPT ![q] = @ \cup {m.effect}]
      BY <2>5 DEF Adds
    <3>2. did'[q] = did[q] \cup {m.effect}
      BY <1>8, <3>1
    <3> QED BY <1>5, <1>6, <1>7, <2>3, <3>1, <3>2, PresentKept
  <2> QED BY <1>5, <1>6, <2>3, <2>4, <2>5
<1>11. CASE o = p
  <2>1. p # q /\ did'[q] = did[q]
    BY <1>3, <1>4, <1>11 DEF Alone
  <2>2. (svc' = svc /\ did' = did) \/ Adds(p)
    BY <1>4, <1>7, <1>11, RestoreAdds DEF Alone
  <2>3. CASE Adds(p)
    <3>1. PICK m : /\ Restoring(m) /\ Takes(svc, m) /\ svc' = After(svc, m)
                   /\ did' = [did EXCEPT ![p] = @ \cup {m.effect}]
                   /\ Knows(p) /\ Op(m) \in Makes => ~Present(svc, m.effect)
      BY <2>3 DEF Adds
    <3>2. did'[p] = did[p] \cup {m.effect}
      BY <1>8, <3>1
    <3>3. Knows(p)
      BY <1>5 DEF ResumeInv, SweepInv, SweepOK, WindowOK, Knows
    <3>4. m.effect \in did[q] => m.effect[1] \notin Makes
      BY <1>5, <3>1, <3>3 DEF Op
    <3> QED BY <1>5, <1>6, <1>7, <1>11, <2>1, <3>1, <3>2, <3>4, PresentKept
  <2> QED BY <1>5, <1>6, <1>11, <2>1, <2>2, <2>3
<1> QED BY <1>9, <1>10, <1>11

\* A late write is in doubt.
LEMMA AloneArrive ==
    ASSUME ResumeInv, NEW m \in wire, Arrive(m)
    PROVE  AloneOK'
<1>1. m.by \in Procs /\ m.effect \in doubt[m.by]
  BY DEF ResumeInv, SweepInv, IInv, WireOK, WriteOK
<1>2. doubt' = doubt
  BY DEF Arrive
<1> QED BY <1>1, <1>2 DEF AloneOK, Alone

LEMMA ResumeStart == Init => ResumeInv
<1> SUFFICES ASSUME Init PROVE ResumeInv
  OBVIOUS
<1>1. /\ \A p \in Procs : proc[p].pc = "start" /\ proc[p].known = {} /\ did[p] = {}
      /\ stale = {}
  BY DEF Init, NewProc
<1>2. IInv
  BY InitInv
<1>3. SweepOK
  BY <1>1 DEF SweepOK, DlpOK, SweepHolds
<1>4. WindowOK
  BY <1>1 DEF WindowOK, ReadHolds
<1>5. WaitOK
  BY <1>1 DEF WaitOK
<1>6. AloneOK
  BY <1>1 DEF AloneOK
<1> QED BY <1>2, <1>3, <1>4, <1>5, <1>6 DEF ResumeInv, SweepInv

LEMMA ResumeInductive == Spec => []ResumeInv
<1>1. ASSUME ResumeInv, IInv', UNCHANGED vars PROVE ResumeInv'
  <2>1. UNCHANGED <<svc, proc, stale, did, doubt>>
    BY <1>1 DEF vars
  <2>2. (SweepOK /\ WindowOK)'
    BY <1>1, <2>1 DEF ResumeInv, SweepInv, SweepOK, WindowOK, Kind
  <2>3. (WaitOK /\ AloneOK)'
    BY <1>1, <2>1 DEF ResumeInv, WaitOK, AloneOK, Alone, Restores, Kind
  <2> QED BY <1>1, <2>2, <2>3 DEF ResumeInv, SweepInv
<1>2. ASSUME ResumeInv, IInv', Next PROVE ResumeInv'
  <2>1. SweepOK' /\ WindowOK' /\ WaitOK'
    BY <1>2, SweepStep, WindowStep, WaitStep DEF ResumeInv, SweepInv, WindowInv
  <2>2. AloneOK'
    BY <1>2, AloneStep, AloneArrive DEF Next
  <2> QED BY <1>2, <2>1, <2>2 DEF ResumeInv, SweepInv
<1>3. ResumeInv /\ IInv' /\ [Next]_vars => ResumeInv'
  BY <1>1, <1>2
<1> QED BY <1>3, ResumeStart, Inductive, PTL DEF Spec

\* RuntimeAdmin.NothingTwice: a restore that is run again after one that was
\* interrupted makes no topic, profile or DLP resource that the first one made.
THEOREM MadeOnce == Spec => []NothingTwice
<1>1. ResumeInv => NothingTwice
  BY DEF ResumeInv, AloneOK, Alone, NothingTwice, Resumes, Restores, Kind, Makes
<1> QED BY <1>1, ResumeInductive, PTL

=============================================================================

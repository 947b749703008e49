-------------------------- MODULE TenantStoreProofs --------------------------
(***************************************************************************)
(* Proofs about TenantStore, for every set of names, TSG ids and values,   *)
(* any number of processes and any bound on the tenants: types, that no    *)
(* crash or failure breaks a tenant, that what a command reports is true,  *)
(* and that the store implements TenantRegistry, where commands act at     *)
(* once.                                                                   *)
(*                                                                         *)
(* None of it is inductive: in a transaction the files run ahead of the    *)
(* index.  The strengthening says what the holder of the lock has in hand  *)
(* (HolderOK): the store as it found it, the previous content of what it   *)
(* wrote, and a plan whose index and files agree once the index is         *)
(* replaced.  Everybody else holds nothing (LockOK), so a step of one      *)
(* process never has to be compared with the plan of another.  AInv adds   *)
(* what each kind of command will have done when it commits (Effects,      *)
(* Untouched), what it has made of the store past that point (Done), and   *)
(* what it leaves when it is cut short (Leftover).                         *)
(***************************************************************************)
EXTENDS TenantStore, FiniteSetTheorems, TLAPS

Held == {"locked", "write", "commit", "unlink", "undo", "release"}
Changing == {"write", "commit", "undo"}
Snapshots == [index : Indexes, file : Files]

LockOK == \A p \in Procs : proc[p].pc \in Held <=> holder = p

\* The tenants whose file an open transaction has written.
Busy ==
    IF holder # None /\ proc[holder].pc \in Changing THEN proc[holder].written ELSE {}

FilesOK ==
    \A n \in Registered(index) :
        /\ file[n] # None
        /\ n \notin cut \cup Busy => file[n].tsg = index.pin[n]

\* The process state r of the holder: what is left to write, and the index
\* that goes with it.
Left(r) == {n \in Names : r.todo[n] # None}
Target(r) == IF r.next = None THEN index ELSE r.next

Agrees(r) ==
    /\ \A n \in Left(r) : n \notin r.written /\ r.todo[n].tsg = Target(r).pin[n]
    /\ \A n \in r.written : file[n] # None /\ file[n].tsg = Target(r).pin[n]
    /\ \A n \in Registered(Target(r)) \ (Left(r) \cup r.written) :
         n \in Registered(index) /\ Target(r).pin[n] = index.pin[n]

PlanOK(r) ==
    /\ Sound(Target(r))
    /\ Agrees(r)
    /\ r.cmd.kind = "create" => Left(r) \cap Registered(index) = {}
    /\ r.pc = "write" => r.cmd.kind # "delete"
    /\ r.pc = "commit" => Left(r) = {} /\ r.next # None
    /\ r.cmd.kind = "delete" => Target(r).pin[r.cmd.name] = None

\* What an undo would restore, and what it need not.
JournalOK(r) ==
    /\ \A n \in r.written \cap Registered(index) : r.journal[n] = r.before.file[n]
    /\ r.cmd.kind = "create" => r.written \cap Registered(index) = {}
    /\ \A n \in Registered(index) :
         /\ r.before.file[n] # None
         /\ n \notin cut => r.before.file[n].tsg = index.pin[n]
         /\ n \notin r.written /\ (r.whole \/ r.cmd.kind = "create" \/ n \notin cut) =>
              file[n] = r.before.file[n]

\* What a command that failed has left of the store it found.
ReleaseOK(r) ==
    /\ r.report \in {"saved", "leftover", "unchanged", "unfinished"}
    /\ r.report \in {"unchanged", "unfinished"} =>
         /\ index = r.before.index
         /\ \A n \in Registered(index) :
              r.report = "unchanged" \/ n \notin cut => file[n] = r.before.file[n]
    /\ r.report = "unfinished" => ~r.whole

HolderOK(r) ==
    /\ r.before \in Snapshots
    /\ r.pc \in Changing \cup {"locked"} => r.before.index = index
    /\ r.pc = "locked" => r.before.file = file /\ r.written = {} /\ r.whole
    /\ r.pc \in {"write", "commit"} => r.whole /\ PlanOK(r)
    /\ r.pc \in Changing => JournalOK(r)
    /\ r.pc = "unlink" => /\ r.cmd.kind = "delete" /\ r.report = "saved"
                          /\ r.cmd.name \notin Registered(index)
    /\ r.pc = "release" => ReleaseOK(r)

CmdOK == \A p \in Procs : proc[p].pc \notin {"idle", "ended"} => proc[p].cmd \in Commands
HoldersOK == \A p \in Procs : proc[p].pc \in Held => HolderOK(proc[p])

\* A process that has not the lock has written nothing.
FreshOK == \A p \in Procs : proc[p].pc \in {"idle", "wait"} => proc[p].written = {} /\ proc[p].whole

\* The inductive invariant.
IInv ==
    /\ TypeOK
    /\ LockOK
    /\ Sound(index)
    /\ FilesOK
    /\ CmdOK
    /\ HoldersOK
    /\ FreshOK

-----------------------------------------------------------------------------
(* What a command plans *)

\* The fields of each kind of command.
LEMMA CommandFields ==
    ASSUME NEW cmd \in Commands
    PROVE  /\ cmd.kind \in {"create", "setVal", "setTsg", "unset", "switch", "delete", "import"}
           /\ cmd.kind # "import" => cmd.name \in Names
           /\ cmd.kind = "create" => cmd.config \in Configs
           /\ cmd.kind = "setVal" => cmd.val \in Vals
           /\ cmd.kind = "setTsg" => cmd.tsg \in Tsgs
           /\ cmd.kind = "import" => cmd.source \in Sources /\ cmd.select \in Names \cup {None}
BY DEF Commands, Named

\* Registered names and their pins.
LEMMA PinTyped ==
    ASSUME NEW ix \in Indexes, NEW n \in Names
    PROVE  /\ n \in Registered(ix) <=> ix.pin[n] # None
           /\ n \in Registered(ix) => ix.pin[n] \in Tsgs
           /\ Registered(ix) \subseteq Names /\ IsFiniteSet(Registered(ix))
           /\ ix.active \in Names \cup {None}
<1>1. Registered(ix) \subseteq Names /\ IsFiniteSet(Names)
  BY NamesAssumption DEF Registered
<1> QED
  BY <1>1, FS_Subset DEF Indexes, Registered

\* Names that differ only in case.
LEMMA AlikeFacts ==
    ASSUME NEW n \in Names, NEW m \in Names
    PROVE  /\ m \in Alike(n) <=> (m # n /\ Fold[m] = Fold[n])
           /\ Alike(n) \subseteq Names
BY DEF Alike

\* One more tenant, not like any other, keeps an index sound.
LEMMA SoundAdd ==
    ASSUME NEW ix \in Indexes, NEW new \in Indexes, NEW W \in SUBSET Names, Sound(ix),
           Registered(new) = Registered(ix) \cup W,
           \A n \in W : Alike(n) \cap (Registered(ix) \cup W) = {},
           Cardinality(Registered(ix) \cup W) <= MaxTenants,
           new.active \in {ix.active} \cup W
    PROVE  Sound(new)
<1>1. \A n \in Registered(new) : Alike(n) \cap Registered(new) = {}
  <2> SUFFICES ASSUME NEW n \in Registered(ix) \cup W, NEW m \in Registered(ix) \cup W, m \in Alike(n)
               PROVE  FALSE
    OBVIOUS
  <2>1. n \in Names /\ m \in Names
    BY DEF Registered
  <2>2. n \in Alike(m)
    BY <2>1, AlikeFacts
  <2> QED
    BY <2>2 DEF Sound
<1>2. new.active # None => new.active \in Registered(new)
  BY DEF Sound
<1> QED
  BY <1>1, <1>2 DEF Sound

\* An index with some of the tenants and the same selection, or none.
LEMMA SoundFewer ==
    ASSUME NEW ix \in Indexes, NEW new \in Indexes, Sound(ix),
           Registered(new) \subseteq Registered(ix),
           new.active # None => new.active \in Registered(new)
    PROVE  Sound(new)
<1>1. /\ IsFiniteSet(Registered(ix)) /\ Cardinality(Registered(ix)) \in Nat
      /\ Cardinality(Registered(new)) \in Nat
      /\ Cardinality(Registered(new)) <= Cardinality(Registered(ix))
  <2>1. IsFiniteSet(Registered(ix))
    BY FS_Subset, NamesAssumption DEF Registered
  <2> QED
    BY <2>1, FS_Subset, FS_CardinalityType
<1>2. MaxTenants \in Nat /\ Cardinality(Registered(ix)) <= MaxTenants
  BY NamesAssumption DEF Sound
<1> QED
  BY <1>1, <1>2 DEF Sound

\* The files and the index a command writes, and how they agree: `to` is the
\* index the store will have.
Fits(cmd, fs, ix, to) ==
    /\ fs \in Files
    /\ ix \in Indexes \cup {None} /\ to \in Indexes /\ to = (IF ix = None THEN index ELSE ix)
    /\ Sound(to)
    /\ \A n \in Names : fs[n] # None => fs[n].tsg = to.pin[n]
    /\ \A n \in Registered(to) : fs[n] = None => n \in Registered(index) /\ to.pin[n] = index.pin[n]
    /\ cmd.kind = "create" => \A n \in Names : fs[n] # None => n \notin Registered(index)
    /\ cmd.kind = "delete" => fs = NoFiles /\ to.pin[cmd.name] = None
    /\ fs = NoFiles => ix # None

\* A command that passed the checks under the lock has a plan that fits.
LEMMA PlanFits ==
    ASSUME index \in Indexes, file \in Files, Sound(index),
           NEW cmd \in Commands, Allowed(cmd), ~NothingToDo(cmd)
    PROVE  \E to \in Indexes : Fits(cmd, NewFiles(cmd), NewIndex(cmd), to)
<1> DEFINE fs == NewFiles(cmd)
           ix == NewIndex(cmd)
<1>0. /\ None \notin Names /\ None \notin Tsgs /\ None \notin Configs /\ None \notin Indexes
      /\ \A c \in Configs : c.tsg \in Tsgs /\ c.tsg # None
      /\ NoFiles \in Files /\ \A n \in Names : NoFiles[n] = None
  BY NamesAssumption, BoundsAssumption DEF Configs, NoFiles, Files
<1>00. /\ index.pin \in [Names -> Tsgs \cup {None}] /\ index.active \in Names \cup {None}
       /\ \A n \in Names : file[n] \in Configs \cup {None}
  BY DEF Indexes, Files
<1>1. CASE cmd.kind = "create"
  <2>1. /\ cmd.name \in Names /\ cmd.config \in Configs
        /\ cmd.name \notin Registered(index) /\ Alike(cmd.name) \cap Registered(index) = {}
        /\ Cardinality(Registered(index)) < MaxTenants
    BY <1>1, CommandFields DEF Allowed
  <2>2. fs = [NoFiles EXCEPT ![cmd.name] = cmd.config]
        /\ ix = [index EXCEPT !.pin[cmd.name] = cmd.config.tsg]
    BY <1>1 DEF NewFiles, NewIndex
  <2>3. fs \in Files /\ \A n \in Names : fs[n] = IF n = cmd.name THEN cmd.config ELSE None
    BY <1>0, <2>1, <2>2 DEF Files
  <2>4. /\ ix \in Indexes /\ ix.active = index.active
        /\ \A n \in Names : ix.pin[n] = IF n = cmd.name THEN cmd.config.tsg ELSE index.pin[n]
    BY <1>0, <1>00, <2>1, <2>2 DEF Indexes
  <2>5. Registered(ix) = Registered(index) \cup {cmd.name}
    BY <1>0, <2>1, <2>4 DEF Registered
  <2>6. Sound(ix)
    <3>1. Cardinality(Registered(index) \cup {cmd.name}) <= MaxTenants
      <4>1. /\ IsFiniteSet(Registered(index)) /\ Cardinality(Registered(index)) \in Nat
        BY <2>1, PinTyped, FS_CardinalityType
      <4>2. Cardinality(Registered(index) \cup {cmd.name}) = Cardinality(Registered(index)) + 1
        BY <2>1, <4>1, FS_AddElement
      <4> QED
        BY <2>1, <4>1, <4>2, NamesAssumption
    <3>2. \A n \in {cmd.name} : Alike(n) \cap (Registered(index) \cup {cmd.name}) = {}
      BY <2>1, AlikeFacts
    <3> HIDE DEF ix
    <3> QED
      BY <2>1, <2>4, <2>5, <3>1, <3>2, SoundAdd
  <2> HIDE DEF fs, ix
  <2>7. Fits(cmd, fs, ix, ix)
    <3>1. \A n \in Names : fs[n] # None => fs[n].tsg = ix.pin[n] /\ n \notin Registered(index)
      BY <2>1, <2>3, <2>4
    <3>2. \A n \in Registered(ix) : fs[n] = None => n \in Registered(index) /\ ix.pin[n] = index.pin[n]
      BY <1>0, <2>1, <2>3, <2>4, <2>5 DEF Registered
    <3>3. fs # NoFiles
      BY <1>0, <2>1, <2>3
    <3> QED
      BY <1>0, <1>1, <2>3, <2>4, <2>6, <3>1, <3>2, <3>3 DEF Fits
  <2> QED
    BY <2>4, <2>7 DEF fs, ix
<1>2. CASE cmd.kind \in {"setVal", "unset"}
  <2>1. /\ cmd.name \in Names /\ cmd.name \in Registered(index)
        /\ file[cmd.name] \in Configs /\ file[cmd.name].tsg = index.pin[cmd.name]
    BY <1>2, <1>00, CommandFields DEF Allowed, Pinned
  <2>2. ix = None
    BY <1>2 DEF NewIndex
  <2>3. PICK v \in Vals \cup {None} : fs = [NoFiles EXCEPT ![cmd.name] = [file[cmd.name] EXCEPT !.val = v]]
    BY <1>2, CommandFields DEF NewFiles
  <2>4. PICK c \in Configs : c = [file[cmd.name] EXCEPT !.val = v] /\ c.tsg = index.pin[cmd.name]
    <3>1. [file[cmd.name] EXCEPT !.val = v] \in Configs
      BY <2>1 DEF Configs
    <3>2. [file[cmd.name] EXCEPT !.val = v].tsg = index.pin[cmd.name]
      BY <2>1 DEF Configs
    <3> QED
      BY <3>1, <3>2
  <2>5. fs \in Files /\ \A n \in Names : fs[n] = IF n = cmd.name THEN c ELSE None
    BY <1>0, <2>1, <2>3, <2>4 DEF Files
  <2>6. fs # NoFiles
    BY <1>0, <2>1, <2>5
  <2> HIDE DEF fs, ix
  <2>7. Fits(cmd, fs, ix, index)
    BY <1>0, <1>2, <2>1, <2>2, <2>4, <2>5, <2>6 DEF Fits, Registered
  <2> QED
    BY <2>7 DEF fs, ix
<1>3. CASE cmd.kind = "setTsg"
  <2>1. /\ cmd.name \in Names /\ cmd.tsg \in Tsgs /\ cmd.name \in Registered(index)
        /\ file[cmd.name] \in Configs
    BY <1>3, <1>00, CommandFields DEF Allowed
  <2>2. /\ fs = [NoFiles EXCEPT ![cmd.name] = [file[cmd.name] EXCEPT !.tsg = cmd.tsg]]
        /\ ix = [index EXCEPT !.pin[cmd.name] = cmd.tsg]
    BY <1>3 DEF NewFiles, NewIndex
  <2>4. PICK c \in Configs : c = [file[cmd.name] EXCEPT !.tsg = cmd.tsg] /\ c.tsg = cmd.tsg
    <3>1. [file[cmd.name] EXCEPT !.tsg = cmd.tsg] \in Configs
      BY <2>1 DEF Configs
    <3>2. [file[cmd.name] EXCEPT !.tsg = cmd.tsg].tsg = cmd.tsg
      BY <2>1 DEF Configs
    <3> QED
      BY <3>1, <3>2
  <2>5. fs \in Files /\ \A n \in Names : fs[n] = IF n = cmd.name THEN c ELSE None
    BY <1>0, <2>1, <2>2, <2>4 DEF Files
  <2>6. /\ ix \in Indexes /\ ix.active = index.active
        /\ \A n \in Names : ix.pin[n] = IF n = cmd.name THEN cmd.tsg ELSE index.pin[n]
    BY <1>00, <2>1, <2>2 DEF Indexes
  <2>7. Registered(ix) = Registered(index)
    BY <1>0, <2>1, <2>6 DEF Registered
  <2> HIDE DEF fs, ix
  <2>8. Sound(ix)
    BY <2>6, <2>7, SoundFewer DEF Sound
  <2>9. Fits(cmd, fs, ix, ix)
    <3>1. \A n \in Names : fs[n] # None => fs[n].tsg = ix.pin[n]
      BY <2>4, <2>5, <2>6
    <3>2. \A n \in Registered(ix) : fs[n] = None => n \in Registered(index) /\ ix.pin[n] = index.pin[n]
      BY <1>0, <2>4, <2>5, <2>6, <2>7 DEF Registered
    <3>3. fs # NoFiles
      BY <1>0, <2>1, <2>4, <2>5
    <3> QED
      BY <1>0, <1>3, <2>5, <2>6, <2>8, <3>1, <3>2, <3>3 DEF Fits
  <2> QED
    BY <2>6, <2>9 DEF fs, ix
<1>4. CASE cmd.kind = "switch"
  <2>1. cmd.name \in Names /\ cmd.name \in Registered(index)
    BY <1>4, CommandFields DEF Allowed
  <2>2. fs = NoFiles /\ ix = [index EXCEPT !.active = cmd.name]
    BY <1>4 DEF NewFiles, NewIndex
  <2>3. ix \in Indexes /\ ix.pin = index.pin /\ ix.active = cmd.name
    BY <2>1, <2>2 DEF Indexes
  <2>4. Registered(ix) = Registered(index)
    BY <2>3 DEF Registered
  <2> HIDE DEF fs, ix
  <2>5. Sound(ix)
    BY <2>1, <2>3, <2>4, SoundFewer
  <2>6. Fits(cmd, fs, ix, ix)
    BY <1>0, <1>4, <2>2, <2>3, <2>4, <2>5 DEF Fits
  <2> QED
    BY <2>3, <2>6 DEF fs, ix
<1>5. CASE cmd.kind = "delete"
  <2>1. cmd.name \in Names /\ cmd.name \in Registered(index)
    BY <1>5, CommandFields DEF Allowed
  <2>2. /\ fs = NoFiles
        /\ ix = [index EXCEPT !.pin[cmd.name] = None,
                              !.active = IF @ = cmd.name THEN None ELSE @]
    BY <1>5 DEF NewFiles, NewIndex
  <2>3. /\ ix \in Indexes
        /\ ix.active = IF index.active = cmd.name THEN None ELSE index.active
        /\ \A n \in Names : ix.pin[n] = IF n = cmd.name THEN None ELSE index.pin[n]
    BY <1>00, <2>1, <2>2, ZenonT(60) DEF Indexes
  <2>4. Registered(ix) = Registered(index) \ {cmd.name}
    BY <1>0, <2>1, <2>3 DEF Registered
  <2> HIDE DEF fs, ix
  <2>5. Sound(ix)
    BY <2>1, <2>3, <2>4, SoundFewer DEF Sound
  <2>6. Fits(cmd, fs, ix, ix)
    BY <1>0, <1>5, <2>1, <2>2, <2>3, <2>4, <2>5 DEF Fits
  <2> QED
    BY <2>3, <2>6 DEF fs, ix
<1>6. CASE cmd.kind = "import"
  <2>1. /\ DOMAIN cmd.source \subseteq Names /\ \A n \in DOMAIN cmd.source : cmd.source[n] \in Configs
        /\ cmd.select \in Names \cup {None}
    BY <1>6, CommandFields, NamesAssumption
  <2> DEFINE W == Rows(cmd)
  <2>2. /\ W \subseteq DOMAIN cmd.source
        /\ \A n \in W : Alike(n) \cap Registered(index) = {}
    BY DEF Rows
  <2>3. \A n \in W, m \in W : m \notin Alike(n)
    <3> SUFFICES ASSUME NEW n \in W, NEW m \in W, m \in Alike(n) PROVE FALSE
      OBVIOUS
    <3>1. n \in Names /\ m \in Names /\ n \in Nat /\ m \in Nat
      BY <2>1, <2>2, NamesAssumption
    <3>2. n \in Alike(m)
      BY <3>1, AlikeFacts
    <3>3. n < m /\ m < n
      BY <3>2 DEF Rows
    <3> QED
      BY <3>1, <3>3
  <2>4. W # {} /\ (W \subseteq Registered(index) \/ Cardinality(Registered(index) \cup W) <= MaxTenants)
    BY <1>6 DEF NothingToDo, Allowed
  <2>5. /\ fs = [n \in Names |-> IF n \in W THEN cmd.source[n] ELSE None]
        /\ ix = [pin |-> [n \in Names |-> IF n \in W THEN cmd.source[n].tsg ELSE index.pin[n]],
                 active |-> IF index.active = None /\ cmd.select \in W
                            THEN cmd.select ELSE index.active]
    BY <1>6 DEF NewFiles, NewIndex
  <2> HIDE DEF W
  <2>6. /\ fs \in Files
        /\ \A n \in Names : fs[n] = IF n \in W THEN cmd.source[n] ELSE None
    BY <2>1, <2>2, <2>5 DEF Files
  <2>7. /\ ix \in Indexes
        /\ \A n \in Names : ix.pin[n] = IF n \in W THEN cmd.source[n].tsg ELSE index.pin[n]
        /\ ix.active \in {index.active} \cup W
    BY <1>0, <1>00, <2>1, <2>2, <2>5 DEF Indexes
  <2>8. Registered(ix) = Registered(index) \cup W
    BY <1>0, <2>1, <2>2, <2>7 DEF Registered
  <2> HIDE DEF fs, ix
  <2>9. Sound(ix)
    <3>1. Cardinality(Registered(index) \cup W) <= MaxTenants
      <4>1. W \subseteq Registered(index) => Registered(index) \cup W = Registered(index)
        OBVIOUS
      <4> QED
        BY <2>4, <4>1 DEF Sound
    <3>2. \A n \in W : Alike(n) \cap (Registered(index) \cup W) = {}
      BY <2>2, <2>3
    <3>3. W \in SUBSET Names
      BY <2>1, <2>2
    <3> QED
      BY <2>7, <2>8, <3>1, <3>2, <3>3, SoundAdd
  <2>10. fs # NoFiles
    BY <1>0, <2>1, <2>2, <2>4, <2>6
  <2>11. Fits(cmd, fs, ix, ix)
    <3>1. \A n \in Names : fs[n] # None => fs[n].tsg = ix.pin[n]
      BY <2>6, <2>7
    <3>2. \A n \in Registered(ix) : fs[n] = None => n \in Registered(index) /\ ix.pin[n] = index.pin[n]
      BY <1>0, <2>1, <2>2, <2>6, <2>7, <2>8 DEF Registered
    <3> QED
      BY <1>0, <1>6, <2>6, <2>7, <2>9, <2>10, <3>1, <3>2 DEF Fits
  <2> QED
    BY <2>7, <2>11 DEF fs, ix
<1> QED
  BY <1>1, <1>2, <1>3, <1>4, <1>5, <1>6, CommandFields

-----------------------------------------------------------------------------
(* Steps, put together from what they leave *)

\* What the holder has written and not undone, with r its state.
Touched(r) == IF r.pc \in Changing THEN r.written ELSE {}

FilesFit(touched) ==
    \A n \in Registered(index) :
        /\ file[n] # None
        /\ n \notin cut \cup touched => file[n].tsg = index.pin[n]

\* The holder's share of the invariant.
LEMMA HolderFacts ==
    ASSUME IInv, NEW p \in Procs, proc[p].pc \in Held
    PROVE  /\ holder = p /\ p # None
           /\ proc[p] \in ProcStates /\ proc[p].cmd \in Commands /\ HolderOK(proc[p])
           /\ FilesFit(Touched(proc[p]))
           /\ \A q \in Procs : q # p => proc[q].pc \notin Held
<1>1. holder = p /\ p # None /\ proc[p] \in ProcStates /\ proc[p].cmd \in Commands
  BY BoundsAssumption DEF IInv, LockOK, TypeOK, CmdOK, Held
<1>2. Busy = Touched(proc[p])
  BY <1>1 DEF Busy, Touched
<1> QED
  BY <1>1, <1>2 DEF IInv, LockOK, HoldersOK, FilesOK, FilesFit

\* A process that has not the lock does something that leaves the store alone.
LEMMA QuietStep ==
    ASSUME IInv, NEW p \in Procs, NEW r \in ProcStates, proc' = [proc EXCEPT ![p] = r],
           proc[p].pc \notin Held, r.pc \notin Held,
           UNCHANGED <<index, file, holder, last, cut>>,
           starts' \in 0 .. MaxStarts, faults' \in 0 .. MaxFaults,
           r.pc \notin {"idle", "ended"} => r.cmd \in Commands,
           r.pc \in {"idle", "wait"} => r.written = {} /\ r.whole
    PROVE  IInv'
<1>1. \A q \in Procs : proc'[q] = IF q = p THEN r ELSE proc[q]
  BY DEF IInv, TypeOK
<1>2. TypeOK'
  BY DEF IInv, TypeOK
<1>3. holder # p
  BY DEF IInv, LockOK
<1>4. LockOK' /\ CmdOK' /\ FreshOK'
  BY <1>1 DEF IInv, LockOK, CmdOK, FreshOK
<1>5. Sound(index)'
  BY DEF IInv, Sound, Registered
<1>6. Busy' = Busy
  BY <1>1, <1>3 DEF IInv, TypeOK, Busy
<1>7. FilesOK'
  BY <1>6 DEF IInv, FilesOK, Registered
<1>8. ASSUME NEW q \in Procs, proc'[q].pc \in Held PROVE HolderOK(proc[q])'
  <2>1. q # p /\ proc'[q] = proc[q] /\ HolderOK(proc[q])
    BY <1>1, <1>8 DEF IInv, HoldersOK
  <2> QED
    BY <2>1, SMTT(60) DEF HolderOK, PlanOK, Agrees, Target, Left, JournalOK, ReleaseOK, Registered, Sound
<1> QED
  BY <1>2, <1>4, <1>5, <1>7, <1>8 DEF IInv, HoldersOK

\* The process p that holds the lock, or gets it, goes on as r.
LEMMA HolderStep ==
    ASSUME IInv, NEW p \in Procs, NEW r \in ProcStates, proc' = [proc EXCEPT ![p] = r],
           \A q \in Procs : q # p => proc[q].pc \notin Held,
           holder' = p, r.pc \in Held, r.cmd \in Commands,
           index' \in Indexes, file' \in Files, last' \in Commands \cup {None}, cut' \subseteq Names,
           starts' \in 0 .. MaxStarts, faults' \in 0 .. MaxFaults,
           Sound(index)', FilesFit(Touched(r))', HolderOK(r)'
    PROVE  IInv'
<1>1. \A q \in Procs : proc'[q] = IF q = p THEN r ELSE proc[q]
  BY DEF IInv, TypeOK
<1>2. TypeOK'
  BY DEF IInv, TypeOK
<1>3. LockOK'
  BY <1>1 DEF LockOK
<1>4. CmdOK' /\ FreshOK'
  BY <1>1 DEF IInv, CmdOK, FreshOK, Held
<1>5. p # None /\ proc'[holder'] = r
  BY <1>1, BoundsAssumption
<1>6. Busy' = Touched(r)
  BY <1>5 DEF Busy, Touched
<1>7. FilesOK'
  BY <1>6 DEF FilesOK, FilesFit
<1>8. HoldersOK'
  <2> SUFFICES ASSUME NEW q \in Procs, proc'[q].pc \in Held PROVE HolderOK(proc[q])'
    BY DEF HoldersOK
  <2>1. proc'[q] = r
    BY <1>1
  <2>2. Target(proc[q])' = Target(r)' /\ Left(proc[q])' = Left(r)'
    BY <2>1 DEF Target, Left
  <2>3. Agrees(proc[q])' <=> Agrees(r)'
    BY <2>1, <2>2 DEF Agrees, Registered
  <2>4. PlanOK(proc[q])' <=> PlanOK(r)'
    <3>1. Sound(Target(proc[q]))' <=> Sound(Target(r))'
      BY <2>2 DEF Sound
    <3> QED
      BY <2>1, <2>2, <2>3, <3>1 DEF PlanOK
  <2>5. JournalOK(proc[q])' <=> JournalOK(r)'
    BY <2>1 DEF JournalOK
  <2>6. ReleaseOK(proc[q])' <=> ReleaseOK(r)'
    BY <2>1 DEF ReleaseOK
  <2> QED
    BY <2>1, <2>4, <2>5, <2>6 DEF HolderOK
<1> QED
  BY <1>2, <1>3, <1>4, <1>7, <1>8 DEF IInv

\* The process p that holds the lock ends.
LEMMA EndStep ==
    ASSUME IInv, NEW p \in Procs, NEW r \in ProcStates, proc' = [proc EXCEPT ![p] = r],
           proc[p].pc \in Held, r.pc = "ended", holder' = None,
           UNCHANGED <<index, file, last>>, cut' \subseteq Names, cut \subseteq cut',
           proc[p].pc \in Changing => proc[p].written \subseteq cut',
           starts' \in 0 .. MaxStarts, faults' \in 0 .. MaxFaults
    PROVE  IInv'
<1>1. \A q \in Procs : proc'[q] = IF q = p THEN r ELSE proc[q]
  BY DEF IInv, TypeOK
<1>2. TypeOK'
  BY DEF IInv, TypeOK
<1>3. \A q \in Procs : proc'[q].pc \notin Held
  BY <1>1, HolderFacts DEF Held
<1>4. LockOK' /\ HoldersOK'
  BY <1>3, BoundsAssumption DEF LockOK, HoldersOK
<1>5. CmdOK' /\ FreshOK'
  BY <1>1 DEF IInv, CmdOK, FreshOK
<1>6. Sound(index)'
  BY DEF IInv, Sound, Registered
<1>7. FilesOK'
  <2>1. FilesFit(Touched(proc[p]))
    BY HolderFacts
  <2>2. Busy' = {}
    BY DEF Busy
  <2> QED
    BY <2>1, <2>2 DEF FilesFit, FilesOK, Touched, Registered
<1> QED
  BY <1>2, <1>4, <1>5, <1>6, <1>7 DEF IInv

\* The states a process starts and ends in.
LEMMA ProcTyped ==
    /\ NewProc \in ProcStates
    /\ \A report \in Reports :
         \E r \in ProcStates : r = [NewProc EXCEPT !.pc = "ended", !.report = report] /\ r.pc = "ended"
<1>1. NoFiles \in Files
  BY DEF NoFiles, Files
<1>2. NewProc \in ProcStates
  BY <1>1 DEF NewProc, ProcStates, PCs, Reports
<1>3. ASSUME NEW report \in Reports
      PROVE  LET r == [NewProc EXCEPT !.pc = "ended", !.report = report]
             IN  r \in ProcStates /\ r.pc = "ended"
  BY <1>1 DEF NewProc, ProcStates, PCs
<1> QED
  BY <1>2, <1>3

-----------------------------------------------------------------------------
(* One lemma per action *)

\* A store earlier commands left, and no process yet.
LEMMA InitIInv == Init => IInv
<1> SUFFICES ASSUME Init PROVE IInv
  OBVIOUS
<1>1. /\ index \in Indexes /\ file \in Files /\ Sound(index)
      /\ \A n \in Registered(index) : file[n] # None /\ file[n].tsg = index.pin[n]
  BY StoresAssumption DEF Init
<1>2. /\ NewProc \in ProcStates /\ NewProc.pc = "idle" /\ NewProc.written = {} /\ NewProc.whole
  BY ProcTyped DEF NewProc
<1>3. \A p \in Procs : proc[p] = NewProc
  BY DEF Init
<1>4. TypeOK
  BY <1>1, <1>2, BoundsAssumption DEF Init, TypeOK
<1> QED
  BY <1>1, <1>2, <1>3, <1>4, BoundsAssumption
     DEF Init, IInv, LockOK, FilesOK, Busy, CmdOK, HoldersOK, FreshOK, Held

\* A command begins, or gives up the wait.
LEMMA StartStep ==
    ASSUME IInv, NEW p \in Procs, GiveUp(p) \/ \E cmd \in Commands : Start(p, cmd)
    PROVE  IInv'
<1>1. proc[p] \in ProcStates
  BY DEF IInv, TypeOK
<1>2. CASE GiveUp(p)
  <2>1. PICK r \in ProcStates : r = [NewProc EXCEPT !.pc = "ended", !.report = "unchanged"] /\ r.pc = "ended"
    BY ProcTyped DEF Reports
  <2>2. /\ proc[p].pc = "wait" /\ proc' = [proc EXCEPT ![p] = r] /\ holder # p /\ holder' = holder
        /\ UNCHANGED <<index, file, last, cut, starts, faults>>
    BY <1>2, <2>1 DEF GiveUp, Ended, Set, store, bounds, IInv, LockOK, Held
  <2> QED
    BY <2>1, <2>2, QuietStep DEF Held, IInv, TypeOK
<1>3. ASSUME NEW cmd \in Commands, Start(p, cmd) PROVE IInv'
  <2>1. [proc[p] EXCEPT !.pc = "wait", !.cmd = cmd] \in ProcStates
    BY <1>1 DEF ProcStates, PCs
  <2>2. PICK r \in ProcStates : r = [proc[p] EXCEPT !.pc = "wait", !.cmd = cmd]
    BY <2>1
  <2>3. r.pc = "wait" /\ r.cmd = cmd /\ r.written = proc[p].written /\ r.whole = proc[p].whole
    BY <1>1, <2>2 DEF ProcStates
  <2>4. /\ proc[p].pc = "idle" /\ proc' = [proc EXCEPT ![p] = r]
        /\ UNCHANGED <<index, file, holder, last, cut, faults>>
        /\ starts' = starts + 1 /\ starts < MaxStarts
    BY <1>3, <2>2 DEF Start, Set, store
  <2>5. r.written = {} /\ r.whole
    BY <2>3, <2>4 DEF IInv, FreshOK
  <2>6. starts' \in 0 .. MaxStarts /\ faults' \in 0 .. MaxFaults
    BY <2>4, BoundsAssumption DEF IInv, TypeOK
  <2> QED
    BY <2>3, <2>4, <2>5, <2>6, QuietStep DEF Held
<1> QED
  BY <1>2, <1>3

\* A reader.
LEMMA ReaderStep == ASSUME IInv, NEW p \in Procs, Reader(p) PROVE IInv'
<1>1. proc[p] \in ProcStates
  BY DEF IInv, TypeOK
<1>2. ASSUME NEW n \in Names, ReadIndex(p, n) PROVE IInv'
  <2> DEFINE cmd == [kind |-> "switch", name |-> n]
  <2>0. cmd \in Commands /\ index.pin[n] \in Tsgs \cup {None}
    BY DEF Commands, Named, IInv, TypeOK, Indexes
  <2> HIDE DEF cmd
  <2>1. [proc[p] EXCEPT !.pc = "read", !.cmd = cmd, !.seen = index.pin[n]] \in ProcStates
    BY <1>1, <2>0 DEF ProcStates, PCs
  <2>2. PICK r \in ProcStates : r = [proc[p] EXCEPT !.pc = "read", !.cmd = cmd, !.seen = index.pin[n]]
    BY <2>1
  <2>3. r.pc = "read" /\ r.cmd = cmd
    BY <1>1, <2>2 DEF ProcStates
  <2>4. /\ proc[p].pc = "idle" /\ proc' = [proc EXCEPT ![p] = r]
        /\ UNCHANGED <<index, file, holder, last, cut, faults>>
        /\ starts' = starts + 1 /\ starts < MaxStarts
    BY <1>2, <2>2 DEF ReadIndex, Set, store, cmd
  <2>5. starts' \in 0 .. MaxStarts /\ faults' \in 0 .. MaxFaults
    BY <2>4, BoundsAssumption DEF IInv, TypeOK
  <2> QED
    BY <2>0, <2>3, <2>4, <2>5, QuietStep DEF Held
<1>3. CASE ReadFile(p)
  <2>1. PICK report \in Reports : Ended(p, report)
    BY <1>3 DEF ReadFile, Reports
  <2>2. PICK r \in ProcStates : r = [NewProc EXCEPT !.pc = "ended", !.report = report] /\ r.pc = "ended"
    BY ProcTyped
  <2>3. /\ proc[p].pc = "read" /\ proc' = [proc EXCEPT ![p] = r] /\ holder # p /\ holder' = holder
        /\ UNCHANGED <<index, file, last, cut, starts, faults>>
    BY <1>3, <2>1, <2>2 DEF ReadFile, Ended, Set, store, bounds, IInv, LockOK, Held
  <2> QED
    BY <2>2, <2>3, QuietStep DEF Held, IInv, TypeOK
<1> QED
  BY <1>2, <1>3 DEF Reader

\* The lock is taken: the holder knows the store as it is.
LEMMA AcquireStep == ASSUME IInv, NEW p \in Procs, Acquire(p) PROVE IInv'
<1>1. proc[p] \in ProcStates /\ proc[p].pc = "wait" /\ holder = None
  BY DEF IInv, TypeOK, Acquire
<1> DEFINE b == [index |-> index, file |-> file]
<1>2. b \in Snapshots /\ b.index = index /\ b.file = file
  BY DEF IInv, TypeOK, Snapshots
<1> HIDE DEF b
<1>3. [proc[p] EXCEPT !.pc = "locked", !.before = b] \in ProcStates
  BY <1>1, <1>2 DEF ProcStates, PCs, Snapshots
<1>4. PICK r \in ProcStates : r = [proc[p] EXCEPT !.pc = "locked", !.before = b]
  BY <1>3
<1>5. /\ r.pc = "locked" /\ r.before = b /\ r.cmd = proc[p].cmd
      /\ r.written = proc[p].written /\ r.whole = proc[p].whole
  BY <1>1, <1>4 DEF ProcStates
<1>6. /\ proc' = [proc EXCEPT ![p] = r] /\ holder' = p
      /\ UNCHANGED <<index, file, last, cut, starts, faults>>
  BY <1>4 DEF Acquire, Set, store, bounds, b
<1>7. r.written = {} /\ r.whole /\ r.cmd \in Commands
  BY <1>1, <1>5 DEF IInv, FreshOK, CmdOK
<1>8. \A q \in Procs : proc[q].pc \notin Held
  BY <1>1, BoundsAssumption DEF IInv, LockOK
<1>9. FilesFit(Touched(r))'
  BY <1>1, <1>5, <1>6 DEF IInv, FilesOK, Busy, FilesFit, Touched, Changing, Registered
<1>10. Sound(index)'
  BY <1>6 DEF IInv, Sound, Registered
<1>11. HolderOK(r)'
  BY <1>2, <1>5, <1>6, <1>7 DEF HolderOK, Changing
<1> QED
  BY <1>5, <1>6, <1>7, <1>8, <1>9, <1>10, <1>11, HolderStep DEF Held, IInv, TypeOK

\* The holder reads and checks again, and decides what to write.
LEMMA PlanStep ==
    ASSUME IInv, NEW p \in Procs, NEW refuses \in BOOLEAN, Plan(p, refuses)
    PROVE  IInv'
<1> DEFINE cmd == proc[p].cmd
<1>1. proc[p].pc = "locked" /\ proc[p].pc \in Held
  BY DEF Plan, Held
<1>2. /\ holder = p /\ proc[p] \in ProcStates /\ cmd \in Commands
      /\ HolderOK(proc[p]) /\ FilesFit({})
      /\ \A q \in Procs : q # p => proc[q].pc \notin Held
  BY <1>1, HolderFacts DEF Touched, Changing
<1>3. /\ proc[p].before \in Snapshots /\ proc[p].before.index = index /\ proc[p].before.file = file
      /\ proc[p].written = {} /\ proc[p].whole
  BY <1>1, <1>2 DEF HolderOK
<1>4. UNCHANGED <<index, file, holder, last, cut, starts, faults>>
  BY DEF Plan, store, bounds
<1>5. Sound(index)' /\ Sound(index)
  BY <1>4 DEF IInv, Sound, Registered
<1>6. CASE refuses \/ ~Allowed(cmd) \/ NothingToDo(cmd)
  <2>1. [proc[p] EXCEPT !.pc = "release", !.report = "unchanged"] \in ProcStates
    BY <1>2 DEF ProcStates, PCs, Reports
  <2>2. PICK r \in ProcStates : r = [proc[p] EXCEPT !.pc = "release", !.report = "unchanged"]
    BY <2>1
  <2>3. /\ r.pc = "release" /\ r.report = "unchanged" /\ r.cmd = cmd
        /\ r.before = proc[p].before
    BY <1>2, <2>2 DEF ProcStates
  <2>4. proc' = [proc EXCEPT ![p] = r]
    BY <1>6, <2>2 DEF Plan, Set
  <2>5. HolderOK(r)'
    BY <1>3, <1>4, <2>3 DEF HolderOK, ReleaseOK, Changing
  <2>6. FilesFit(Touched(r))'
    BY <1>2, <1>4, <2>3 DEF FilesFit, Touched, Changing, Registered
  <2> QED
    BY <1>2, <1>4, <1>5, <2>3, <2>4, <2>5, <2>6, HolderStep DEF Held, IInv, TypeOK
<1>7. CASE ~(refuses \/ ~Allowed(cmd) \/ NothingToDo(cmd))
  <2> DEFINE fs == NewFiles(cmd)
             ix == NewIndex(cmd)
             w == IF fs = NoFiles THEN "commit" ELSE "write"
  <2>0. PICK to \in Indexes : Fits(cmd, fs, ix, to)
    BY <1>2, <1>5, <1>7, PlanFits DEF IInv, TypeOK
  <2>1. /\ Plan(p, refuses) => Set(p, [proc[p] EXCEPT !.pc = w, !.todo = fs, !.next = ix])
    BY <1>7 DEF Plan
  <2> HIDE DEF fs, ix, cmd
  <2>2. [proc[p] EXCEPT !.pc = w, !.todo = fs, !.next = ix] \in ProcStates
    BY <1>2, <2>0 DEF ProcStates, PCs, Fits
  <2>3. PICK r \in ProcStates : r = [proc[p] EXCEPT !.pc = w, !.todo = fs, !.next = ix]
    BY <2>2
  <2>4. /\ r.pc = w /\ r.todo = fs /\ r.next = ix /\ r.cmd = proc[p].cmd
        /\ r.before = proc[p].before /\ r.written = {} /\ r.whole
    BY <1>2, <1>3, <2>3 DEF ProcStates
  <2>5. proc' = [proc EXCEPT ![p] = r]
    BY <2>1, <2>3 DEF Set
  <2>6. Target(r)' = to /\ Target(r) = to /\ Left(r)' = Left(r) /\ Left(r) = {n \in Names : fs[n] # None}
    BY <1>4, <2>0, <2>4 DEF Target, Fits, Left
  <2>7. PlanOK(r)'
    <3>1. Sound(Target(r))'
      BY <2>0, <2>6 DEF Fits, Sound
    <3>2. Agrees(r)'
      <4>1. Registered(Target(r))' = Registered(to) /\ Registered(index)' = Registered(index)
        BY <1>4, <2>6 DEF Registered
      <4>2. \A n \in Registered(to) \ Left(r) : n \in Registered(index) /\ to.pin[n] = index.pin[n]
        BY <2>0, <2>6 DEF Fits, Registered
      <4>3. \A n \in Left(r) : fs[n].tsg = to.pin[n]
        BY <2>0, <2>6 DEF Fits
      <4> QED
        BY <1>4, <2>4, <2>6, <4>1, <4>2, <4>3 DEF Agrees
    <3>3. r.cmd.kind = "create" => Left(r) \cap Registered(index)' = {}
      <4>1. Registered(index)' = Registered(index)
        BY <1>4 DEF Registered
      <4> QED
        BY <2>0, <2>4, <2>6, <4>1 DEF Fits, cmd
    <3>4. /\ r.pc = "write" => r.cmd.kind # "delete"
          /\ r.cmd.kind = "delete" => to.pin[r.cmd.name] = None
      BY <2>0, <2>4 DEF Fits, cmd
    <3>5. r.pc = "commit" => Left(r) = {} /\ r.next # None
      BY <2>0, <2>4, <2>6 DEF Fits, NoFiles
    <3> QED
      BY <2>6, <3>1, <3>2, <3>3, <3>4, <3>5 DEF PlanOK
  <2>8. JournalOK(r)'
    BY <1>2, <1>3, <1>4, <2>4 DEF JournalOK, FilesFit, Registered
  <2>9. HolderOK(r)'
    BY <1>3, <1>4, <2>4, <2>7, <2>8 DEF HolderOK, Changing
  <2>10. FilesFit(Touched(r))'
    BY <1>2, <1>4, <2>4 DEF FilesFit, Touched, Changing, Registered
  <2> QED
    BY <1>2, <1>4, <1>5, <2>4, <2>5, <2>9, <2>10, HolderStep DEF Held, IInv, TypeOK, cmd
<1> QED
  BY <1>6, <1>7

\* A tenant file is written: the plan has one file less to go.
LEMMA WriteFileStep == ASSUME IInv, NEW p \in Procs, NEW n \in Names, WriteFile(p, n) PROVE IInv'
<1>1. proc[p].pc = "write" /\ proc[p].pc \in Held
  BY DEF WriteFile, Held
<1> DEFINE o == proc[p]
           left == ToWrite(p) \ {n}
           to == IF left # {} THEN "write" ELSE IF o.next # None THEN "commit" ELSE "release"
           says == IF left = {} /\ o.next = None THEN "saved" ELSE o.report
           new == [pc |-> to, report |-> says]
<1>2. /\ holder = p /\ o \in ProcStates /\ o.cmd \in Commands /\ HolderOK(o) /\ FilesFit(o.written)
      /\ \A q \in Procs : q # p => proc[q].pc \notin Held
  BY <1>1, HolderFacts DEF Touched, Changing
<1>3. o.before \in Snapshots /\ o.before.index = index /\ o.whole /\ PlanOK(o) /\ JournalOK(o)
  BY <1>1, <1>2 DEF HolderOK, Changing
<1>4. /\ n \in Left(o) /\ Left(o) = ToWrite(p) /\ o.todo[n] \in Configs /\ o.todo \in Files
      /\ file \in Files /\ index \in Indexes
      /\ file' = [file EXCEPT ![n] = o.todo[n]]
      /\ UNCHANGED <<index, holder, cut, starts, faults>>
  BY <1>2 DEF WriteFile, ToWrite, Left, ProcStates, Files, IInv, TypeOK, bounds
<1> DEFINE t == [o.todo EXCEPT ![n] = None]
           j == [o.journal EXCEPT ![n] = file[n]]
<1>5. t \in Files /\ \A m \in Names : t[m] = IF m = n THEN None ELSE o.todo[m]
  BY <1>4 DEF Files
<1>6. j \in Files /\ \A m \in Names : j[m] = IF m = n THEN file[m] ELSE o.journal[m]
  BY <1>2, <1>4 DEF Files, ProcStates
<1>7. \E r \in ProcStates :
        /\ proc' = [proc EXCEPT ![p] = r]
        /\ r.pc = to /\ r.report = says /\ r.todo = t /\ r.journal = j
        /\ r.written = o.written \cup {n}
        /\ r.cmd = o.cmd /\ r.next = o.next /\ r.before = o.before /\ r.whole = o.whole
        /\ last' \in {last, o.cmd}
  <2> DEFINE base == [o EXCEPT !.todo = t, !.written = o.written \cup {n}, !.journal = j]
             done == [base EXCEPT !.pc = to, !.report = says]
  <2>1. base \in ProcStates
    BY <1>2, <1>5, <1>6 DEF ProcStates
  <2>2. done \in ProcStates
    BY <1>2, <1>5, <1>6, ZenonT(60) DEF ProcStates, PCs, Reports
  <2>3. /\ done.pc = to /\ done.report = says /\ done.todo = t /\ done.journal = j
        /\ done.written = o.written \cup {n} /\ done.cmd = o.cmd /\ done.next = o.next
        /\ done.before = o.before /\ done.whole = o.whole
    BY <1>2 DEF ProcStates
  <2>4. base = [o EXCEPT !.todo[n] = None, !.written = @ \cup {n}, !.journal[n] = file[n]]
    BY <1>2 DEF ProcStates
  <2>5. /\ base.next = o.next /\ base.cmd = o.cmd
    BY <1>2 DEF ProcStates
  <2>6. /\ left # {} => Set(p, base) /\ last' = last
        /\ left = {} /\ o.next # None => Set(p, [base EXCEPT !.pc = "commit"]) /\ last' = last
        /\ left = {} /\ o.next = None =>
             Set(p, [base EXCEPT !.pc = "release", !.report = "saved"]) /\ last' = o.cmd
    BY <2>4, <2>5 DEF WriteFile
  <2>7. /\ left # {} => done = base
        /\ left = {} /\ o.next # None => done = [base EXCEPT !.pc = "commit"]
        /\ left = {} /\ o.next = None => done = [base EXCEPT !.pc = "release", !.report = "saved"]
    BY <1>1, <1>2 DEF ProcStates
  <2>8. proc' = [proc EXCEPT ![p] = done] /\ last' \in {last, o.cmd}
    BY <2>6, <2>7 DEF Set
  <2> QED
    BY <2>2, <2>3, <2>8
<1>8. PICK r \in ProcStates :
        /\ proc' = [proc EXCEPT ![p] = r]
        /\ r.pc = to /\ r.report = says /\ r.todo = t /\ r.journal = j
        /\ r.written = o.written \cup {n}
        /\ r.cmd = o.cmd /\ r.next = o.next /\ r.before = o.before /\ r.whole = o.whole
        /\ last' \in {last, o.cmd}
  BY <1>7
<1> HIDE DEF o, t, j
<1>9. file' \in Files /\ \A m \in Names : file'[m] = IF m = n THEN o.todo[n] ELSE file[m]
  BY <1>4 DEF Files
<1>10. /\ Left(r) = Left(o) \ {n} /\ Left(r)' = Left(r)
       /\ Target(r)' = Target(o) /\ Registered(index)' = Registered(index)
       /\ Registered(Target(r))' = Registered(Target(o))
  BY <1>4, <1>5, <1>8 DEF Left, Target, Registered
<1>11. o.todo[n] # None /\ o.todo[n].tsg = Target(o).pin[n] /\ n \notin o.written
  BY <1>3, <1>4 DEF PlanOK, Agrees, Left
<1>12. \A m \in r.written : file'[m] # None /\ file'[m].tsg = Target(o).pin[m]
  <2>1. r.written \subseteq Names
    BY DEF ProcStates
  <2> QED
    BY <1>3, <1>8, <1>9, <1>11, <2>1 DEF PlanOK, Agrees
<1>13. Agrees(r)'
  <2>1. \A m \in Left(r) : m \notin r.written /\ r.todo[m].tsg = Target(o).pin[m]
    BY <1>3, <1>5, <1>8, <1>10 DEF PlanOK, Agrees, Left
  <2>2. \A m \in Registered(Target(o)) \ (Left(r) \cup r.written) :
          m \in Registered(index) /\ Target(o).pin[m] = index.pin[m]
    BY <1>3, <1>8, <1>10 DEF PlanOK, Agrees
  <2> QED
    BY <1>4, <1>10, <1>12, <2>1, <2>2 DEF Agrees
<1>14. PlanOK(r)'
  <2>1. Sound(Target(r))'
    BY <1>3, <1>10 DEF PlanOK, Sound
  <2>2. r.pc = "commit" => Left(r) = {} /\ r.next # None
    BY <1>4, <1>8, <1>10
  <2>3. /\ r.cmd.kind = "create" => Left(r) \cap Registered(index) = {}
        /\ r.pc = "write" => r.cmd.kind # "delete"
        /\ r.cmd.kind = "delete" => Target(o).pin[r.cmd.name] = None
    BY <1>1, <1>3, <1>8, <1>10 DEF PlanOK, o
  <2> QED
    BY <1>10, <1>13, <2>1, <2>2, <2>3 DEF PlanOK
<1>15. JournalOK(r)'
  <2>1. \A m \in r.written \cap Registered(index) : r.journal[m] = r.before.file[m]
    BY <1>3, <1>6, <1>8, <1>11 DEF JournalOK, Registered
  <2>2. r.cmd.kind = "create" => r.written \cap Registered(index) = {}
    BY <1>3, <1>4, <1>8 DEF JournalOK, PlanOK
  <2>3. \A m \in Registered(index) :
          /\ r.before.file[m] # None
          /\ m \notin cut => r.before.file[m].tsg = index.pin[m]
          /\ m \notin r.written => file'[m] = r.before.file[m]
    BY <1>3, <1>8, <1>9 DEF JournalOK, Registered
  <2> QED
    BY <1>4, <1>8, <1>10, <2>1, <2>2, <2>3 DEF JournalOK
<1>16. ASSUME r.pc = "release" PROVE ReleaseOK(r)'
  <2>1. r.report = "saved"
    BY <1>8, <1>16
  <2> QED
    BY <2>1 DEF ReleaseOK
<1>17. HolderOK(r)'
  BY <1>3, <1>4, <1>8, <1>14, <1>15, <1>16 DEF HolderOK, Changing
<1>18. FilesFit(Touched(r))'
  <2>1. \A m \in Registered(index) : file'[m] # None
    BY <1>2, <1>9, <1>11 DEF FilesFit, Registered, o
  <2>2. \A m \in Registered(index) : m \notin cut \cup r.written => file'[m].tsg = index.pin[m]
    BY <1>2, <1>8, <1>9 DEF FilesFit, Registered, o
  <2>3. r.pc = "release" => \A m \in r.written : file'[m].tsg = index.pin[m]
    BY <1>8, <1>12 DEF Target
  <2>4. r.pc \notin Changing => r.pc = "release"
    BY <1>8 DEF Changing
  <2> QED
    BY <1>4, <1>10, <2>1, <2>2, <2>3, <2>4 DEF FilesFit, Touched
<1>19. Sound(index)'
  BY <1>4, <1>10 DEF IInv, Sound
<1> QED
  BY <1>2, <1>4, <1>8, <1>9, <1>17, <1>18, <1>19, HolderStep DEF Held, IInv, TypeOK, o

\* A write failed.
LEMMA FailStep ==
    ASSUME IInv, NEW p \in Procs, WriteFileFails(p) \/ WriteIndexFails(p) PROVE IInv'
<1>1. proc[p].pc \in {"write", "commit"} /\ proc[p].pc \in Held
  BY DEF WriteFileFails, WriteIndexFails, Held
<1> DEFINE o == proc[p]
<1>2. /\ holder = p /\ o \in ProcStates /\ o.cmd \in Commands /\ HolderOK(o) /\ FilesFit(o.written)
      /\ \A q \in Procs : q # p => proc[q].pc \notin Held
  BY <1>1, HolderFacts DEF Touched, Changing
<1>3. o.before \in Snapshots /\ o.before.index = index /\ o.whole /\ JournalOK(o)
  BY <1>1, <1>2 DEF HolderOK, Changing
<1> DEFINE to == IF o.written = {} THEN "release" ELSE "undo"
<1>4. /\ proc' = [proc EXCEPT ![p] = [o EXCEPT !.pc = to, !.report = "unchanged"]]
      /\ UNCHANGED <<index, file, holder, last, cut, starts>> /\ faults' = faults + 1
      /\ faults < MaxFaults
  BY DEF WriteFileFails, WriteIndexFails, Failed, Set, Fault, store
<1>5. [o EXCEPT !.pc = to, !.report = "unchanged"] \in ProcStates
  BY <1>2 DEF ProcStates, PCs, Reports
<1>6. PICK r \in ProcStates : r = [o EXCEPT !.pc = to, !.report = "unchanged"]
  BY <1>5
<1>7. /\ r.pc = to /\ r.report = "unchanged" /\ r.written = o.written /\ r.journal = o.journal
      /\ r.cmd = o.cmd /\ r.before = o.before /\ r.whole = o.whole
      /\ proc' = [proc EXCEPT ![p] = r]
  BY <1>2, <1>4, <1>6 DEF ProcStates
<1> HIDE DEF o
<1>8. JournalOK(r)' /\ JournalOK(r)
  <2>1. JournalOK(r)
    BY <1>3, <1>7 DEF JournalOK
  <2>2. JournalOK(r)'
    BY <1>4, <2>1 DEF JournalOK, Registered
  <2> QED
    BY <2>1, <2>2
<1>9. r.pc = "release" => ReleaseOK(r)'
  BY <1>3, <1>4, <1>7, <1>8 DEF ReleaseOK, JournalOK, Registered
<1>10. HolderOK(r)'
  BY <1>3, <1>4, <1>7, <1>8, <1>9 DEF HolderOK, Changing
<1>11. FilesFit(Touched(r))'
  BY <1>2, <1>4, <1>7 DEF FilesFit, Touched, Changing, Registered, o
<1>12. Sound(index)'
  BY <1>4 DEF IInv, Sound, Registered
<1>13. faults' \in 0 .. MaxFaults
  BY <1>4, BoundsAssumption DEF IInv, TypeOK
<1> QED
  BY <1>2, <1>4, <1>7, <1>10, <1>11, <1>12, <1>13, HolderStep DEF Held, IInv, TypeOK, o

\* The commit point: the index becomes what the files were written for.
LEMMA WriteIndexStep == ASSUME IInv, NEW p \in Procs, WriteIndex(p) PROVE IInv'
<1>1. proc[p].pc = "commit" /\ proc[p].pc \in Held
  BY DEF WriteIndex, Held
<1> DEFINE o == proc[p]
           to == IF o.cmd.kind = "delete" THEN "unlink" ELSE "release"
<1>2. /\ holder = p /\ o \in ProcStates /\ o.cmd \in Commands /\ HolderOK(o) /\ FilesFit(o.written)
      /\ \A q \in Procs : q # p => proc[q].pc \notin Held
  BY <1>1, HolderFacts DEF Touched, Changing
<1>3. o.before \in Snapshots /\ PlanOK(o)
  BY <1>1, <1>2 DEF HolderOK
<1>4. /\ o.next # None /\ o.next \in Indexes /\ Target(o) = o.next /\ Left(o) = {}
      /\ o.cmd.kind = "delete" => o.next.pin[o.cmd.name] = None
  BY <1>1, <1>2, <1>3 DEF PlanOK, Target, ProcStates
<1>5. /\ index' = o.next /\ last' = o.cmd /\ cut' = cut \ o.written
      /\ UNCHANGED <<file, holder, starts, faults>>
      /\ proc' = [proc EXCEPT ![p] = [o EXCEPT !.pc = to, !.report = "saved"]]
  BY DEF WriteIndex, Set, bounds
<1>6. [o EXCEPT !.pc = to, !.report = "saved"] \in ProcStates
  BY <1>2 DEF ProcStates, PCs, Reports
<1>7. PICK r \in ProcStates : r = [o EXCEPT !.pc = to, !.report = "saved"]
  BY <1>6
<1>8. /\ r.pc = to /\ r.report = "saved" /\ r.written = o.written
      /\ r.cmd = o.cmd /\ r.before = o.before
      /\ proc' = [proc EXCEPT ![p] = r]
  BY <1>2, <1>5, <1>7 DEF ProcStates
<1> HIDE DEF o
<1>9. \A m \in o.written : file[m] # None /\ file[m].tsg = o.next.pin[m]
  BY <1>3, <1>4 DEF PlanOK, Agrees
<1>10. \A m \in Registered(o.next) \ o.written : m \in Registered(index) /\ o.next.pin[m] = index.pin[m]
  BY <1>3, <1>4 DEF PlanOK, Agrees
<1>11. FilesFit(Touched(r))'
  <2>1. \A m \in Registered(o.next) : /\ file[m] # None
                                      /\ m \notin cut' => file[m].tsg = o.next.pin[m]
    BY <1>2, <1>5, <1>9, <1>10 DEF FilesFit, o
  <2>2. Touched(r) = {}
    BY <1>8 DEF Touched, Changing
  <2> QED
    BY <1>5, <2>1, <2>2 DEF FilesFit, Registered, Touched
<1>12. Sound(index)'
  BY <1>3, <1>4, <1>5 DEF PlanOK, Sound, Registered
<1>13. HolderOK(r)'
  <2>1. r.pc = "unlink" => r.cmd.kind = "delete" /\ r.cmd.name \notin Registered(index)'
    BY <1>4, <1>5, <1>8 DEF Registered
  <2>2. r.pc = "release" => ReleaseOK(r)'
    BY <1>8 DEF ReleaseOK
  <2> QED
    BY <1>3, <1>8, <2>1, <2>2 DEF HolderOK, Changing
<1>14. cut' \subseteq Names
  BY <1>5 DEF IInv, TypeOK
<1> QED
  BY <1>2, <1>4, <1>5, <1>8, <1>11, <1>12, <1>13, <1>14, HolderStep DEF Held, IInv, TypeOK, o

\* The file of a tenant that is no longer registered goes, or stays behind.
LEMMA UnlinkStep ==
    ASSUME IInv, NEW p \in Procs, NEW fails \in BOOLEAN, Unlink(p, fails) PROVE IInv'
<1>1. proc[p].pc = "unlink" /\ proc[p].pc \in Held
  BY DEF Unlink, Held
<1> DEFINE o == proc[p]
           says == IF fails THEN "leftover" ELSE o.report
<1>2. /\ holder = p /\ o \in ProcStates /\ o.cmd \in Commands /\ HolderOK(o) /\ FilesFit({})
      /\ \A q \in Procs : q # p => proc[q].pc \notin Held
  BY <1>1, HolderFacts DEF Touched, Changing
<1>3. /\ o.before \in Snapshots /\ o.cmd.kind = "delete" /\ o.report = "saved"
      /\ o.cmd.name \notin Registered(index) /\ o.cmd.name \in Names
  BY <1>1, <1>2, CommandFields DEF HolderOK
<1>4. /\ file' = IF fails THEN file ELSE [file EXCEPT ![o.cmd.name] = None]
      /\ UNCHANGED <<index, holder, last, cut, starts>>
      /\ faults' \in 0 .. MaxFaults
  BY BoundsAssumption DEF Unlink, Fault, IInv, TypeOK
<1>5. [o EXCEPT !.pc = "release", !.report = says] \in ProcStates
  BY <1>2 DEF ProcStates, PCs, Reports
<1>6. PICK r \in ProcStates : r = [o EXCEPT !.pc = "release", !.report = says]
  BY <1>5
<1>7. /\ r.pc = "release" /\ r.report = says /\ r.cmd = o.cmd /\ r.before = o.before
  BY <1>2, <1>6 DEF ProcStates
<1>8. proc' = [proc EXCEPT ![p] = r]
  <2>1. ~fails => [o EXCEPT !.pc = "release"] = [o EXCEPT !.pc = "release", !.report = says]
    BY <1>2 DEF ProcStates
  <2> QED
    BY <1>6, <2>1 DEF Unlink, Set
<1> HIDE DEF o
<1>9. /\ file' \in Files
      /\ \A m \in Names : file'[m] = IF m = o.cmd.name /\ ~fails THEN None ELSE file[m]
  BY <1>3, <1>4 DEF IInv, TypeOK, Files
<1>10. FilesFit(Touched(r))'
  BY <1>2, <1>3, <1>4, <1>7, <1>9 DEF FilesFit, Touched, Changing, Registered
<1>11. HolderOK(r)'
  <2>1. ReleaseOK(r)'
    BY <1>3, <1>7 DEF ReleaseOK
  <2> QED
    BY <1>3, <1>7, <2>1 DEF HolderOK, Changing
<1>12. Sound(index)'
  BY <1>4 DEF IInv, Sound, Registered
<1> QED
  BY <1>2, <1>4, <1>7, <1>8, <1>9, <1>10, <1>11, <1>12, HolderStep DEF Held, IInv, TypeOK, o

\* One file is restored, or cannot be.
LEMMA UndoStep ==
    ASSUME IInv, NEW p \in Procs, NEW n \in Names, NEW fails \in BOOLEAN, Undo(p, n, fails)
    PROVE  IInv'
<1>1. proc[p].pc = "undo" /\ proc[p].pc \in Held
  BY DEF Undo, Held
<1> DEFINE o == proc[p]
           left == o.written \ {n}
           whole == o.whole /\ ~fails
           to == IF left = {} THEN "release" ELSE "undo"
           says == IF whole \/ o.cmd.kind = "create" THEN "unchanged" ELSE "unfinished"
<1>2. /\ holder = p /\ o \in ProcStates /\ o.cmd \in Commands /\ HolderOK(o) /\ FilesFit(o.written)
      /\ \A q \in Procs : q # p => proc[q].pc \notin Held
  BY <1>1, HolderFacts DEF Touched, Changing
<1>3. o.before \in Snapshots /\ o.before.index = index /\ JournalOK(o)
  BY <1>1, <1>2 DEF HolderOK, Changing
<1>4. /\ n \in o.written
      /\ file' = IF fails THEN file ELSE [file EXCEPT ![n] = Previous(p, n)]
      /\ cut' = IF fails THEN cut \cup {n} ELSE cut
      /\ UNCHANGED <<index, holder, last, starts>>
      /\ faults' \in 0 .. MaxFaults
  BY BoundsAssumption DEF Undo, Fault, IInv, TypeOK
<1> DEFINE new == [o EXCEPT !.written = left, !.whole = whole, !.pc = to, !.report = says]
<1>5. /\ new \in ProcStates
      /\ new.pc = to /\ new.report = says /\ new.written = left /\ new.whole = whole
      /\ new.journal = o.journal /\ new.cmd = o.cmd /\ new.before = o.before
  <2>1. o \in ProcStates /\ left \in SUBSET Names
    BY <1>2 DEF ProcStates
  <2>2. whole \in BOOLEAN
    OBVIOUS
  <2>3. to \in PCs /\ says \in Reports
    BY DEF PCs, Reports
  <2> HIDE DEF o, left, whole, to, says
  <2> QED
    BY <2>1, <2>2, <2>3 DEF ProcStates
<1>6. proc' = [proc EXCEPT ![p] = new]
  BY DEF Undo, Set
<1> HIDE DEF new
<1>7. PICK r \in ProcStates : r = new
  BY <1>5
<1>8. /\ proc' = [proc EXCEPT ![p] = r]
      /\ r.pc = to /\ r.report = says /\ r.written = left /\ r.whole = whole
      /\ r.journal = o.journal /\ r.cmd = o.cmd /\ r.before = o.before
  BY <1>5, <1>6, <1>7
<1>9. Previous(p, n) = IF o.cmd.kind = "create" THEN None ELSE o.journal[n]
  BY DEF Previous
<1>10. Previous(p, n) \in Configs \cup {None}
  BY <1>2, <1>9 DEF ProcStates, Files
<1> HIDE DEF o
<1>11. /\ file' \in Files
       /\ \A m \in Names : file'[m] = IF m = n /\ ~fails THEN Previous(p, n) ELSE file[m]
  BY <1>4, <1>10 DEF IInv, TypeOK, Files
<1>12. n \in Registered(index) => /\ o.cmd.kind # "create"
                                  /\ Previous(p, n) = o.before.file[n] /\ o.before.file[n] # None
                                  /\ n \notin cut => o.before.file[n].tsg = index.pin[n]
  BY <1>3, <1>4, <1>9 DEF JournalOK
<1>13. \A m \in Registered(index) :
         m \notin left /\ (whole \/ o.cmd.kind = "create" \/ m \notin cut') =>
           file'[m] = o.before.file[m]
  BY <1>3, <1>4, <1>11, <1>12 DEF JournalOK, Registered
<1>14. Registered(index)' = Registered(index)
  BY <1>4 DEF Registered
<1>15. JournalOK(r)'
  <2>1. \A m \in left \cap Registered(index) : r.journal[m] = r.before.file[m]
    BY <1>3, <1>8 DEF JournalOK
  <2>2. r.cmd.kind = "create" => left \cap Registered(index) = {}
    BY <1>3, <1>8 DEF JournalOK
  <2>3. \A m \in Registered(index) : /\ r.before.file[m] # None
                                     /\ m \notin cut' => r.before.file[m].tsg = index.pin[m]
    BY <1>3, <1>4, <1>8 DEF JournalOK
  <2> QED
    BY <1>4, <1>8, <1>13, <1>14, <2>1, <2>2, <2>3, ZenonT(60) DEF JournalOK
<1>16. r.pc = "release" => ReleaseOK(r)'
  <2>1. r.pc = "release" => left = {}
    BY <1>8
  <2> QED
    BY <1>3, <1>4, <1>8, <1>13, <1>14, <2>1 DEF ReleaseOK
<1>17. HolderOK(r)'
  BY <1>3, <1>4, <1>8, <1>15, <1>16 DEF HolderOK, Changing
<1>18. FilesFit(Touched(r))'
  <2>1. Touched(r) = left
    BY <1>8 DEF Touched, Changing
  <2>2. \A m \in Registered(index) : file'[m] # None
    BY <1>2, <1>11, <1>12 DEF FilesFit, Registered, o
  <2>3. \A m \in Registered(index) : m \notin cut' \cup left => file'[m].tsg = index.pin[m]
    BY <1>2, <1>4, <1>11, <1>12 DEF FilesFit, Registered, o
  <2> QED
    BY <1>4, <1>14, <2>1, <2>2, <2>3 DEF FilesFit, Touched
<1>19. Sound(index)'
  BY <1>4 DEF IInv, Sound, Registered
<1>20. cut' \subseteq Names
  BY <1>4 DEF IInv, TypeOK
<1> QED
  BY <1>2, <1>4, <1>8, <1>11, <1>17, <1>18, <1>19, <1>20, HolderStep DEF Held, IInv, TypeOK, o

\* The lock is released with the end of the command.
LEMMA ReleaseStep == ASSUME IInv, NEW p \in Procs, Release(p) PROVE IInv'
<1>1. proc[p].pc = "release" /\ proc[p].pc \in Held
  BY DEF Release, Held
<1>2. holder = p /\ proc[p] \in ProcStates
  BY <1>1, HolderFacts
<1>3. PICK report \in Reports : Ended(p, report)
  BY <1>2 DEF Release, Printed, Reports, ProcStates
<1>4. PICK r \in ProcStates : r = [NewProc EXCEPT !.pc = "ended", !.report = report] /\ r.pc = "ended"
  BY ProcTyped
<1>5. /\ proc' = [proc EXCEPT ![p] = r] /\ holder' = None
      /\ UNCHANGED <<index, file, last, cut, starts, faults>>
  BY <1>2, <1>3, <1>4 DEF Release, Ended, Set, store, bounds
<1> QED
  BY <1>1, <1>4, <1>5, EndStep DEF Changing, IInv, TypeOK

\* A signal while the transaction runs.
LEMMA SignalStep == ASSUME IInv, NEW p \in Procs, Signal(p) PROVE IInv'
<1>1. proc[p].pc \in Held
  BY DEF Signal, Held
<1> DEFINE o == proc[p]
<1>2. /\ holder = p /\ o \in ProcStates /\ o.cmd \in Commands /\ HolderOK(o) /\ FilesFit(Touched(o))
      /\ \A q \in Procs : q # p => proc[q].pc \notin Held
  BY <1>1, HolderFacts
<1>3. /\ proc' = [proc EXCEPT ![p] = [o EXCEPT !.signal = TRUE]]
      /\ UNCHANGED <<index, file, holder, last, cut, starts>>
      /\ faults' \in 0 .. MaxFaults
  BY BoundsAssumption DEF Signal, Set, Fault, store, IInv, TypeOK
<1>4. [o EXCEPT !.signal = TRUE] \in ProcStates
  BY <1>2 DEF ProcStates
<1>5. PICK r \in ProcStates : r = [o EXCEPT !.signal = TRUE]
  BY <1>4
<1>6. /\ r.pc = o.pc /\ r.cmd = o.cmd /\ r.todo = o.todo /\ r.next = o.next
      /\ r.written = o.written /\ r.journal = o.journal /\ r.before = o.before
      /\ r.whole = o.whole /\ r.report = o.report
      /\ proc' = [proc EXCEPT ![p] = r]
  BY <1>2, <1>3, <1>5 DEF ProcStates
<1> HIDE DEF o
<1>7. HolderOK(r)
  <2>1. Target(r) = Target(o) /\ Left(r) = Left(o)
    BY <1>6 DEF Target, Left
  <2>2. PlanOK(o) => PlanOK(r)
    BY <1>6, <2>1 DEF PlanOK, Agrees
  <2>3. JournalOK(o) => JournalOK(r)
    BY <1>6 DEF JournalOK
  <2>4. ReleaseOK(o) => ReleaseOK(r)
    BY <1>6 DEF ReleaseOK
  <2> QED
    BY <1>2, <1>6, <2>2, <2>3, <2>4 DEF HolderOK
<1>8. HolderOK(r)'
  BY <1>3, <1>7 DEF HolderOK, PlanOK, Agrees, Target, Left, JournalOK, ReleaseOK, Registered, Sound
<1>9. FilesFit(Touched(r))'
  BY <1>2, <1>3, <1>6 DEF FilesFit, Touched, Registered
<1>10. Sound(index)'
  BY <1>3 DEF IInv, Sound, Registered
<1> QED
  BY <1>1, <1>2, <1>3, <1>6, <1>8, <1>9, <1>10, HolderStep DEF IInv, TypeOK, o

\* A process dies: what it had written stays, and is known to be half done.
LEMMA CrashStep == ASSUME IInv, NEW p \in Procs, Crash(p) PROVE IInv'
<1>1. proc[p] \in ProcStates /\ proc[p].pc \notin {"idle", "read", "ended"}
  BY DEF Crash, IInv, TypeOK
<1>2. PICK r \in ProcStates : r = [NewProc EXCEPT !.pc = "ended", !.report = "none"] /\ r.pc = "ended"
  BY ProcTyped DEF Reports
<1>3. /\ proc' = [proc EXCEPT ![p] = r]
      /\ holder' = (IF holder = p THEN None ELSE holder)
      /\ cut' = IF proc[p].pc \in Changing THEN cut \cup proc[p].written ELSE cut
      /\ UNCHANGED <<index, file, last, starts>>
      /\ faults' \in 0 .. MaxFaults
  BY <1>2, BoundsAssumption DEF Crash, Ended, Set, Fault, Changing, IInv, TypeOK
<1>4. CASE proc[p].pc \in Held
  <2>1. holder = p
    BY <1>4, HolderFacts
  <2>2. cut' \subseteq Names /\ cut \subseteq cut'
    BY <1>1, <1>3 DEF IInv, TypeOK, ProcStates
  <2> QED
    BY <1>2, <1>3, <1>4, <2>1, <2>2, EndStep DEF IInv, TypeOK
<1>5. CASE proc[p].pc \notin Held
  <2>1. holder # p /\ cut' = cut
    BY <1>3, <1>5 DEF IInv, LockOK, Held, Changing
  <2> QED
    BY <1>2, <1>3, <1>5, <2>1, QuietStep DEF Held, IInv, TypeOK
<1> QED
  BY <1>4, <1>5

-----------------------------------------------------------------------------
(* Theorems *)

\* IInv holds in every state of the store.
THEOREM Inductive == Spec => []IInv
<1>1. Init => IInv
  BY InitIInv
<1>2. IInv /\ [Next]_vars => IInv'
  <2> SUFFICES ASSUME IInv, [Next]_vars PROVE IInv'
    OBVIOUS
  <2>1. CASE UNCHANGED vars
    <3>1. UNCHANGED <<index, file, cut, holder, proc, last, starts, faults>>
      BY <2>1 DEF vars
    <3>2. TypeOK' /\ LockOK' /\ CmdOK' /\ FreshOK'
      BY <3>1 DEF IInv, TypeOK, LockOK, CmdOK, FreshOK
    <3>3. Sound(index)' /\ FilesOK'
      BY <3>1 DEF IInv, Sound, Registered, FilesOK, Busy
    <3>4. ASSUME NEW q \in Procs, proc'[q].pc \in Held PROVE HolderOK(proc[q])'
      <4>1. /\ proc'[q] = proc[q] /\ HolderOK(proc[q])
            /\ index' = index /\ file' = file /\ cut' = cut /\ last' = last
        BY <3>1, <3>4 DEF IInv, HoldersOK
      <4> QED
        BY <4>1, SMTT(60)
        DEF HolderOK, PlanOK, Agrees, Target, Left, JournalOK, ReleaseOK, Registered, Sound
    <3> QED
      BY <3>2, <3>3, <3>4 DEF IInv, HoldersOK
  <2>2. ASSUME NEW p \in Procs, Transaction(p) PROVE IInv'
    BY <2>2, AcquireStep, StartStep, PlanStep, WriteFileStep, FailStep, WriteIndexStep, UnlinkStep,
       UndoStep, ReleaseStep DEF Transaction
  <2> QED
    BY <2>1, <2>2, StartStep, ReaderStep, SignalStep, CrashStep DEF Next
<1> QED
  BY <1>1, <1>2, PTL DEF Spec

\* The variables keep their types, however commands interleave and fail.
THEOREM TypeCorrect == Spec => []TypeOK
<1>1. IInv => TypeOK
  BY DEF IInv
<1> QED
  BY <1>1, Inductive, PTL

\* No interleaving, failure or crash breaks a registered tenant: its file is
\* there, matches the pin outside a transaction unless a two-file change was
\* cut short, and the checks of names and their number were not out of date.
THEOREM Usable == Spec => []TenantsUsable
<1>1. IInv => TenantsUsable
  BY DEF IInv, TenantsUsable, FilesOK, Busy
<1> QED
  BY <1>1, Inductive, PTL

-----------------------------------------------------------------------------
(* Acting at once: what a transaction will make of the store *)

\* The tenants r changes, and the content of the file of such a tenant.
Changes(r) == Left(r) \cup r.written
Planned(r, n) == IF n \in Left(r) THEN r.todo[n] ELSE file[n]

\* The plan of each kind of command, in terms of the store r found: while it
\* has the lock, the checks it made stay true and its files are the planned
\* ones.
CreatePlan(r) ==
    LET n == r.cmd.name IN
    /\ n \notin Registered(index) /\ Alike(n) \cap Registered(index) = {}
    /\ Cardinality(Registered(index)) < MaxTenants
    /\ Changes(r) = {n} /\ Planned(r, n) = r.cmd.config
    /\ r.next = [index EXCEPT !.pin[n] = r.cmd.config.tsg]

ValPlan(r) ==
    LET n == r.cmd.name
        old == r.before.file[n] IN
    /\ n \in Registered(index) /\ old.tsg = index.pin[n]
    /\ Left(r) = {n} /\ r.written = {} /\ r.next = None
    /\ r.todo[n] = [old EXCEPT !.val = IF r.cmd.kind = "unset" THEN None ELSE r.cmd.val]

TsgPlan(r) ==
    LET n == r.cmd.name IN
    /\ n \in Registered(index)
    /\ Changes(r) = {n} /\ Planned(r, n) = [r.before.file[n] EXCEPT !.tsg = r.cmd.tsg]
    /\ r.next = [index EXCEPT !.pin[n] = r.cmd.tsg]

SwitchPlan(r) ==
    LET n == r.cmd.name IN
    /\ n \in Registered(index) /\ r.before.file[n].tsg = index.pin[n]
    /\ Changes(r) = {}
    /\ r.next = [index EXCEPT !.active = n]

DeletePlan(r) ==
    LET n == r.cmd.name IN
    /\ n \in Registered(index)
    /\ Changes(r) = {}
    /\ r.next = [index EXCEPT !.pin[n] = None, !.active = IF @ = n THEN None ELSE @]

ImportPlan(r) ==
    LET W == Changes(r)
        s == r.cmd.source IN
    /\ W # {} /\ W \subseteq DOMAIN s
    /\ \A n \in W : Alike(n) \cap (W \cup Registered(index)) = {}
    /\ r.cmd.replace \/ W \cap Registered(index) = {}
    /\ \A n \in DOMAIN s \ W : \/ n \in Registered(index) /\ ~r.cmd.replace
                              \/ Alike(n) \cap (W \cup Registered(index)) # {}
    /\ Cardinality(Registered(index) \cup W) <= MaxTenants \/ W \subseteq Registered(index)
    /\ \A n \in W : Planned(r, n) = s[n]
    /\ r.next = [pin |-> [n \in Names |-> IF n \in W THEN s[n].tsg ELSE index.pin[n]],
                 active |-> IF index.active = None /\ r.cmd.select \in W
                            THEN r.cmd.select ELSE index.active]

Effects(r) ==
    /\ r.cmd.kind = "create" => CreatePlan(r)
    /\ r.cmd.kind \in {"setVal", "unset"} => ValPlan(r)
    /\ r.cmd.kind = "setTsg" => TsgPlan(r)
    /\ r.cmd.kind = "switch" => SwitchPlan(r)
    /\ r.cmd.kind = "delete" => DeletePlan(r)
    /\ r.cmd.kind = "import" => ImportPlan(r)

\* A file written over by a two-file change: what the design lets a change
\* that is cut short leave.
Overwritten(n, old, new) ==
    \/ \E t \in Tsgs : new = [old EXCEPT !.tsg = t]
    \/ \E s \in Sources : n \in DOMAIN s /\ new = s[n]

Leftover(r) ==
    \A n \in r.written \cap Registered(index) : Overwritten(n, r.before.file[n], file[n])

\* The files it has not written are those it found.
Untouched(r) == \A n \in Names \ r.written : file[n] = r.before.file[n]

\* Past its commit point, it has made of the store what it was to make.
Done(r) ==
    /\ r.pc = "release" /\ r.report = "saved" => Makes(r.cmd, r.before, index, file)
    /\ r.pc = "unlink" => LeftBehind(r)
    /\ r.pc = "release" /\ r.report = "leftover" => LeftBehind(r)

\* The second inductive invariant, beside IInv.
AInv ==
    \A p \in Procs :
        /\ proc[p].pc \in {"write", "commit"} => Effects(proc[p]) /\ Untouched(proc[p])
        /\ proc[p].pc \in Changing => Leftover(proc[p])
        /\ Done(proc[p])

\* A set of names has a least one.
LEMMA LeastName ==
    ASSUME NEW S \in SUBSET Names, S # {}
    PROVE  \E x \in S : \A y \in S : ~(y < x)
<1> DEFINE Below(x) == {y \in S : y < x}
           T == {Below(x) : x \in S}
<1>0. S \subseteq Nat
  BY NamesAssumption
<1>1. IsWellFoundedOn(StrictSubsetOrdering(Names), SUBSET Names)
  BY NamesAssumption, FS_StrictSubsetOrderingWellFounded, FS_FiniteSubsetsOfFinite
<1>2. T # {} /\ T \subseteq SUBSET Names
  OBVIOUS
<1>3. PICK t \in T : \A u \in T : ~(<<u, t>> \in StrictSubsetOrdering(Names))
  <2> HIDE DEF T
  <2> QED
    BY <1>1, <1>2, WFMin
<1>4. PICK x \in S : t = Below(x)
  OBVIOUS
<1>5. ASSUME NEW y \in S, y < x PROVE FALSE
  <2>1. Below(y) \in T /\ Below(y) \in SUBSET Names /\ t \in SUBSET Names
    BY <1>4
  <2>2. \A u \in S : u < y => u < x
    BY <1>0, <1>5
  <2>3. Below(y) \subseteq t
    BY <1>4, <2>2
  <2>4. y \in t /\ y \notin Below(y)
    BY <1>0, <1>4, <1>5
  <2>5. <<Below(y), t>> \in StrictSubsetOrdering(Names)
    <3> HIDE DEF Below
    <3> QED
      BY <2>1, <2>3, <2>4 DEF StrictSubsetOrdering
  <2> QED
    BY <1>3, <2>1, <2>5
<1> QED
  BY <1>5

\* A row an import skips is of a tenant it may not replace, or differs only in
\* case from a tenant or a row that it writes.
LEMMA SkippedRow ==
    ASSUME NEW c \in Commands, c.kind = "import", NEW n \in DOMAIN c.source \ Rows(c)
    PROVE  \/ n \in Registered(index) /\ ~c.replace
           \/ Alike(n) \cap (Rows(c) \cup Registered(index)) # {}
<1> DEFINE eligible == {m \in DOMAIN c.source :
                           /\ Alike(m) \cap Registered(index) = {}
                           /\ m \in Registered(index) => c.replace}
           S == {m \in eligible : Fold[m] = Fold[n]}
<1>1. DOMAIN c.source \subseteq Names /\ eligible \subseteq Names /\ S \subseteq Names
  BY CommandFields, NamesAssumption
<1>2. CASE n \notin eligible
  BY <1>2
<1>3. CASE n \in eligible
  <2>1. n \in S /\ n \in Names
    BY <1>1, <1>3
  <2>2. PICK x \in S : \A y \in S : ~(y < x)
    BY <1>1, <2>1, LeastName
  <2>3. \A m \in Alike(x) \cap eligible : x < m
    <3> SUFFICES ASSUME NEW m \in Alike(x) \cap eligible PROVE x < m
      OBVIOUS
    <3>1. x \in Names /\ m \in Names /\ m # x /\ Fold[m] = Fold[x]
      BY <1>1 DEF Alike
    <3>2. m \in S
      BY <3>1
    <3> QED
      BY <2>2, <3>1, <3>2, NamesAssumption
  <2>4. x \in Rows(c)
    BY <2>3 DEF Rows
  <2>5. x \in Alike(n)
    BY <1>1, <2>1, <2>4, AlikeFacts
  <2> QED
    BY <2>4, <2>5
<1> QED
  BY <1>2, <1>3

\* A command that passed the checks under the lock has a plan of its kind.
LEMMA PlanEffects ==
    ASSUME index \in Indexes, file \in Files, NEW r \in ProcStates, r.cmd \in Commands,
           Allowed(r.cmd), ~NothingToDo(r.cmd), r.written = {}, r.before.file = file,
           r.todo = NewFiles(r.cmd), r.next = NewIndex(r.cmd)
    PROVE  Effects(r)
<1> DEFINE c == r.cmd
<1>0. /\ None \notin Names /\ None \notin Tsgs /\ None \notin Configs /\ r.todo \in Files
      /\ \A n \in Names : NoFiles[n] = None
      /\ \A n \in Names : file[n] \in Configs \cup {None} /\ r.todo[n] \in Configs \cup {None}
      /\ index.pin \in [Names -> Tsgs \cup {None}]
  BY NamesAssumption DEF NoFiles, Files, ProcStates, Indexes
<1>1. /\ Changes(r) = Left(r) /\ \A n \in Left(r) : Planned(r, n) = r.todo[n]
      /\ \A n \in Names : n \in Left(r) <=> r.todo[n] # None
      /\ Left(r) \subseteq Names
  BY DEF Changes, Planned, Left
<1>2. ASSUME c.kind = "create" PROVE CreatePlan(r)
  <2>1. /\ c.name \in Names /\ c.config \in Configs
        /\ c.name \notin Registered(index) /\ Alike(c.name) \cap Registered(index) = {}
        /\ Cardinality(Registered(index)) < MaxTenants
    BY <1>2, CommandFields DEF Allowed
  <2>2. r.todo = [NoFiles EXCEPT ![c.name] = c.config] /\ r.next = [index EXCEPT !.pin[c.name] = c.config.tsg]
    BY <1>2 DEF NewFiles, NewIndex
  <2>3. \A n \in Names : r.todo[n] = IF n = c.name THEN c.config ELSE None
    BY <1>0, <2>1, <2>2 DEF NoFiles
  <2>4. Left(r) = {c.name} /\ Planned(r, c.name) = c.config
    BY <1>0, <1>1, <2>1, <2>3
  <2> QED
    BY <1>1, <2>1, <2>2, <2>4 DEF CreatePlan
<1>3. ASSUME c.kind \in {"setVal", "unset"} PROVE ValPlan(r)
  <2>1. /\ c.name \in Names /\ c.name \in Registered(index)
        /\ file[c.name] \in Configs /\ file[c.name].tsg = index.pin[c.name]
    BY <1>0, <1>3, CommandFields DEF Allowed, Pinned
  <2> DEFINE val == IF c.kind = "unset" THEN None ELSE c.val
             new == [file[c.name] EXCEPT !.val = val]
  <2>2. r.todo = [NoFiles EXCEPT ![c.name] = new] /\ r.next = None
    BY <1>3 DEF NewFiles, NewIndex
  <2>3. val \in Vals \cup {None}
    BY <1>3, CommandFields
  <2> HIDE DEF val
  <2>4. new \in Configs
    BY <2>1, <2>3 DEF Configs
  <2> HIDE DEF new
  <2>5. \A n \in Names : r.todo[n] = IF n = c.name THEN new ELSE None
    BY <1>0, <2>1, <2>2 DEF NoFiles
  <2>6. Left(r) = {c.name}
    BY <1>0, <1>1, <2>1, <2>4, <2>5
  <2> QED
    BY <2>1, <2>2, <2>5, <2>6 DEF ValPlan, new, val
<1>4. ASSUME c.kind = "setTsg" PROVE TsgPlan(r)
  <2>1. /\ c.name \in Names /\ c.tsg \in Tsgs /\ c.name \in Registered(index)
        /\ file[c.name] \in Configs
    BY <1>0, <1>4, CommandFields DEF Allowed
  <2> DEFINE new == [file[c.name] EXCEPT !.tsg = c.tsg]
  <2>2. r.todo = [NoFiles EXCEPT ![c.name] = new] /\ r.next = [index EXCEPT !.pin[c.name] = c.tsg]
    BY <1>4 DEF NewFiles, NewIndex
  <2>4. new \in Configs
    BY <2>1 DEF Configs
  <2> HIDE DEF new
  <2>5. \A n \in Names : r.todo[n] = IF n = c.name THEN new ELSE None
    BY <1>0, <2>1, <2>2 DEF NoFiles
  <2>6. Left(r) = {c.name} /\ Planned(r, c.name) = new
    BY <1>0, <1>1, <2>1, <2>4, <2>5
  <2> QED
    BY <1>1, <2>1, <2>2, <2>6 DEF TsgPlan, new
<1>5. c.kind \in {"switch", "delete"} => Left(r) = {}
  BY <1>0, <1>1 DEF NewFiles
<1>6. ASSUME c.kind = "switch" PROVE SwitchPlan(r)
  BY <1>1, <1>5, <1>6 DEF SwitchPlan, Allowed, Pinned, NewIndex
<1>7. ASSUME c.kind = "delete" PROVE DeletePlan(r)
  BY <1>1, <1>5, <1>7 DEF DeletePlan, Allowed, NewIndex
<1>8. ASSUME c.kind = "import" PROVE ImportPlan(r)
  <2> DEFINE W == Rows(c)
  <2>1. /\ DOMAIN c.source \subseteq Names /\ \A n \in DOMAIN c.source : c.source[n] \in Configs
        /\ c.select \in Names \cup {None}
    BY <1>8, CommandFields, NamesAssumption
  <2>2. /\ W \subseteq DOMAIN c.source
        /\ \A n \in W : Alike(n) \cap Registered(index) = {}
        /\ \A n \in W : n \in Registered(index) => c.replace
    BY DEF Rows
  <2>3. \A n \in W, m \in W : m \notin Alike(n)
    <3> SUFFICES ASSUME NEW n \in W, NEW m \in W, m \in Alike(n) PROVE FALSE
      OBVIOUS
    <3>1. n \in Names /\ m \in Names /\ n \in Nat /\ m \in Nat
      BY <2>1, <2>2, NamesAssumption
    <3>2. n \in Alike(m)
      BY <3>1, AlikeFacts
    <3>3. n < m /\ m < n
      BY <3>2 DEF Rows
    <3> QED
      BY <3>1, <3>3
  <2>4. W # {} /\ (W \subseteq Registered(index) \/ Cardinality(Registered(index) \cup W) <= MaxTenants)
    BY <1>8 DEF NothingToDo, Allowed
  <2>5. \A n \in DOMAIN c.source \ W : \/ n \in Registered(index) /\ ~c.replace
                                      \/ Alike(n) \cap (W \cup Registered(index)) # {}
    BY <1>8, SkippedRow
  <2>6. /\ r.todo = [n \in Names |-> IF n \in W THEN c.source[n] ELSE None]
        /\ r.next = [pin |-> [n \in Names |-> IF n \in W THEN c.source[n].tsg ELSE index.pin[n]],
                     active |-> IF index.active = None /\ c.select \in W
                                THEN c.select ELSE index.active]
    BY <1>8 DEF NewFiles, NewIndex
  <2> HIDE DEF W
  <2>7. Left(r) = W /\ \A n \in W : Planned(r, n) = c.source[n]
    <3>1. \A n \in Names : r.todo[n] = IF n \in W THEN c.source[n] ELSE None
      BY <2>6
    <3>2. \A n \in W : n \in Names /\ c.source[n] # None
      BY <1>0, <2>1, <2>2
    <3>3. Left(r) = W
      BY <1>1, <3>1, <3>2
    <3> QED
      BY <1>1, <3>1, <3>2, <3>3
  <2>8. Changes(r) = W
    BY <1>1, <2>7
  <2> QED
    BY <2>2, <2>3, <2>4, <2>6, <2>7, <2>8, <2>5 DEF ImportPlan
<1> QED
  BY <1>2, <1>3, <1>4, <1>6, <1>7, <1>8 DEF Effects

\* A plan stays one while the store does.
LEMMA SameStore ==
    ASSUME UNCHANGED <<index, file>>, NEW r
    PROVE  /\ Effects(r) => Effects(r)'
           /\ Leftover(r) => Leftover(r)'
           /\ Untouched(r) => Untouched(r)'
           /\ Done(r) => Done(r)'
<1>1. /\ Registered(index)' = Registered(index) /\ Left(r)' = Left(r) /\ Changes(r)' = Changes(r)
      /\ \A n : Planned(r, n)' = Planned(r, n)
  BY DEF Registered, Left, Changes, Planned
<1>2. CreatePlan(r) => CreatePlan(r)'
  BY <1>1 DEF CreatePlan
<1>3. ValPlan(r) => ValPlan(r)'
  BY <1>1 DEF ValPlan
<1>4. TsgPlan(r) => TsgPlan(r)'
  BY <1>1 DEF TsgPlan
<1>5. SwitchPlan(r) => SwitchPlan(r)'
  BY <1>1 DEF SwitchPlan
<1>6. DeletePlan(r) => DeletePlan(r)'
  BY <1>1 DEF DeletePlan
<1>7. ImportPlan(r) => ImportPlan(r)'
  BY <1>1 DEF ImportPlan
<1> QED
  BY <1>1, <1>2, <1>3, <1>4, <1>5, <1>6, <1>7 DEF Effects, Leftover, Untouched, Done, LeftBehind

\* Only the plan and the files of the holder have to be looked at.
LEMMA AStep ==
    ASSUME IInv, AInv, NEW p \in Procs, NEW r, proc' = [proc EXCEPT ![p] = r],
           proc[p].pc \notin Held => UNCHANGED <<index, file>>,
           r.pc \in {"write", "commit"} => Effects(r)' /\ Untouched(r)',
           r.pc \in Changing => Leftover(r)',
           Done(r)'
    PROVE  AInv'
<1>1. \A q \in Procs : proc'[q] = IF q = p THEN r ELSE proc[q]
  BY DEF IInv, TypeOK
<1>2. ASSUME NEW q \in Procs, q # p, proc[q].pc \in Held
      PROVE  UNCHANGED <<index, file>> /\ proc'[q] = proc[q]
  <2>1. proc[p].pc \notin Held
    BY <1>2 DEF IInv, LockOK
  <2> QED
    BY <1>1, <1>2, <2>1
<1>3. ASSUME NEW q \in Procs, q # p, proc[q].pc \in Held
      PROVE  /\ proc[q].pc \in Changing => Leftover(proc[q])'
             /\ proc[q].pc \in {"write", "commit"} => Effects(proc[q])' /\ Untouched(proc[q])'
             /\ Done(proc[q])'
  <2> DEFINE o == proc[q]
  <2>0. /\ o.pc \in Changing => Leftover(o)
        /\ o.pc \in {"write", "commit"} => Effects(o) /\ Untouched(o)
        /\ Done(o)
    BY DEF AInv
  <2>1. PICK s : s = o
    OBVIOUS
  <2>2. s = o' /\ index' = index /\ file' = file
    BY <1>2, <1>3, <2>1
  <2>3. /\ Effects(s) => Effects(s)'
        /\ Leftover(s) => Leftover(s)'
        /\ Untouched(s) => Untouched(s)'
        /\ Done(s) => Done(s)'
    BY <2>2, SameStore
  <2> QED
    BY <2>0, <2>1, <2>2, <2>3, <1>2, <1>3
<1>4. ASSUME NEW q \in Procs, q # p, proc[q].pc \notin Held
      PROVE  proc'[q].pc \notin Changing /\ Done(proc[q])'
  BY <1>1, <1>4 DEF Done, Held, Changing
<1> QED
  BY <1>1, <1>2, <1>3, <1>4 DEF AInv, Changing, Held

\* What is planned, and which tenants it changes, does not depend on how much
\* of it is written already.
LEMMA SamePlan ==
    ASSUME NEW o \in ProcStates, NEW r \in ProcStates, Effects(o), UNCHANGED index,
           r.cmd = o.cmd, r.before = o.before, r.next = o.next,
           Changes(r) = Changes(o), \A n \in Changes(o) : Planned(r, n)' = Planned(o, n),
           r.cmd.kind \notin {"setVal", "unset"}
    PROVE  Effects(r)'
<1>1. Changes(r)' = Changes(r) /\ Registered(index)' = Registered(index)
  BY DEF Changes, Left, Registered
<1>2. \A n \in Changes(o) : Planned(r, n)' = Planned(o, n)
  OBVIOUS
<1>3. ASSUME r.cmd.kind = "create" PROVE CreatePlan(r)'
  <2>1. CreatePlan(o)
    BY <1>3 DEF Effects
  <2> QED
    BY <1>1, <1>2, <2>1 DEF CreatePlan
<1>4. ASSUME r.cmd.kind = "setTsg" PROVE TsgPlan(r)'
  <2>1. TsgPlan(o)
    BY <1>4 DEF Effects
  <2> QED
    BY <1>1, <1>2, <2>1 DEF TsgPlan
<1>5. ASSUME r.cmd.kind = "switch" PROVE SwitchPlan(r)'
  <2>1. SwitchPlan(o)
    BY <1>5 DEF Effects
  <2> QED
    BY <1>1, <1>2, <2>1 DEF SwitchPlan
<1>6. ASSUME r.cmd.kind = "delete" PROVE DeletePlan(r)'
  <2>1. DeletePlan(o)
    BY <1>6 DEF Effects
  <2> QED
    BY <1>1, <1>2, <2>1 DEF DeletePlan
<1>7. ASSUME r.cmd.kind = "import" PROVE ImportPlan(r)'
  <2>1. ImportPlan(o)
    BY <1>7 DEF Effects
  <2> QED
    BY <1>1, <1>2, <2>1 DEF ImportPlan
<1> QED
  BY <1>3, <1>4, <1>5, <1>6, <1>7 DEF Effects

\* A file a two-file change writes is one it may leave when it is cut short.
LEMMA PlannedLeft ==
    ASSUME NEW r \in ProcStates, r.cmd \in Commands, Effects(r), r.pc = "write",
           NEW n \in Left(r) \cap Registered(index), r.next # None
    PROVE  Overwritten(n, r.before.file[n], r.todo[n])
<1>1. n \in Changes(r) /\ Planned(r, n) = r.todo[n]
  BY DEF Changes, Planned
<1>2. CASE r.cmd.kind = "create"
  BY <1>1, <1>2 DEF Effects, CreatePlan
<1>3. CASE r.cmd.kind \in {"setVal", "unset"}
  BY <1>3 DEF Effects, ValPlan
<1>4. CASE r.cmd.kind = "setTsg"
  BY <1>1, <1>4, CommandFields DEF Effects, TsgPlan, Overwritten
<1>5. CASE r.cmd.kind \in {"switch", "delete"}
  BY <1>1, <1>5 DEF Effects, SwitchPlan, DeletePlan
<1>6. CASE r.cmd.kind = "import"
  <2>1. ImportPlan(r) /\ r.cmd.source \in Sources
    BY <1>6, CommandFields DEF Effects
  <2> QED
    BY <1>1, <2>1 DEF ImportPlan, Overwritten
<1> QED
  BY <1>2, <1>3, <1>4, <1>5, <1>6, CommandFields

\* What a write of a tenant file leaves of the process that makes it.
WritesFile(p, n, r) ==
    LET o == proc[p] IN
    /\ proc' = [proc EXCEPT ![p] = r]
    /\ r.todo = [o.todo EXCEPT ![n] = None] /\ r.written = o.written \cup {n}
    /\ r.cmd = o.cmd /\ r.next = o.next /\ r.before = o.before
    /\ Left(r) = Left(o) \ {n}
    /\ IF Left(r) # {} THEN r.pc = "write" /\ last' = last
       ELSE IF r.next # None THEN r.pc = "commit" /\ last' = last
       ELSE r.pc = "release" /\ r.report = "saved" /\ last' = r.cmd

\* A write of a tenant file, by the one process that may make it.
LEMMA WriteFileFacts ==
    ASSUME IInv, NEW p \in Procs, NEW n \in Names, WriteFile(p, n)
    PROVE  /\ proc[p].pc = "write" /\ holder = p /\ proc[p] \in ProcStates
           /\ proc[p].cmd \in Commands /\ HolderOK(proc[p])
           /\ n \in Left(proc[p]) /\ file' = [file EXCEPT ![n] = proc[p].todo[n]]
           /\ UNCHANGED <<index, holder>>
           /\ \E r \in ProcStates : WritesFile(p, n, r)
<1> DEFINE o == proc[p]
           left == ToWrite(p) \ {n}
           to == IF left # {} THEN "write" ELSE IF o.next # None THEN "commit" ELSE "release"
           says == IF left = {} /\ o.next = None THEN "saved" ELSE o.report
           t == [o.todo EXCEPT ![n] = None]
           j == [o.journal EXCEPT ![n] = file[n]]
<1>1. proc[p].pc = "write" /\ proc[p].pc \in Held
  BY DEF WriteFile, Held
<1>2. holder = p /\ o \in ProcStates /\ o.cmd \in Commands /\ HolderOK(o)
  BY <1>1, HolderFacts
<1>3. /\ n \in Left(o) /\ Left(o) = ToWrite(p)
      /\ file' = [file EXCEPT ![n] = proc[p].todo[n]]
      /\ UNCHANGED <<index, holder>>
      /\ t \in Files /\ j \in Files
  BY <1>2 DEF WriteFile, ToWrite, Left, ProcStates, Files, IInv, TypeOK
<1> DEFINE base == [o EXCEPT !.todo = t, !.written = o.written \cup {n}, !.journal = j]
           done == [base EXCEPT !.pc = to, !.report = says]
<1>4. done \in ProcStates
  BY <1>2, <1>3, ZenonT(60) DEF ProcStates, PCs, Reports
<1>5. /\ done.pc = to /\ done.todo = t /\ done.written = o.written \cup {n}
      /\ done.cmd = o.cmd /\ done.next = o.next /\ done.before = o.before
      /\ done.report = says
  BY <1>2 DEF ProcStates
<1>6. /\ base = [o EXCEPT !.todo[n] = None, !.written = @ \cup {n}, !.journal[n] = file[n]]
      /\ base.next = o.next /\ base.cmd = o.cmd
  BY <1>2 DEF ProcStates
<1>7. /\ left # {} => Set(p, base) /\ last' = last
      /\ left = {} /\ o.next # None => Set(p, [base EXCEPT !.pc = "commit"]) /\ last' = last
      /\ left = {} /\ o.next = None =>
           Set(p, [base EXCEPT !.pc = "release", !.report = "saved"]) /\ last' = o.cmd
  BY <1>6 DEF WriteFile
<1>8. /\ left # {} => done = base
      /\ left = {} /\ o.next # None => done = [base EXCEPT !.pc = "commit"]
      /\ left = {} /\ o.next = None => done = [base EXCEPT !.pc = "release", !.report = "saved"]
  BY <1>1, <1>2 DEF ProcStates
<1>9. proc' = [proc EXCEPT ![p] = done]
  BY <1>7, <1>8 DEF Set
<1>10. Left(done) = left
  <2>1. \A m \in Names : t[m] = IF m = n THEN None ELSE o.todo[m]
    BY <1>2 DEF ProcStates, Files
  <2> QED
    BY <1>5, <2>1 DEF Left, ToWrite
<1>11. WritesFile(p, n, done)
  <2> HIDE DEF done
  <2> QED
    BY <1>3, <1>5, <1>7, <1>9, <1>10 DEF WritesFile
<1> QED
  BY <1>1, <1>2, <1>3, <1>4, <1>11

\* Steps after which the process changes no file.
LEMMA OtherA ==
    ASSUME IInv, AInv, NEW p \in Procs,
           \/ \E cmd \in Commands : Start(p, cmd)
           \/ Acquire(p) \/ GiveUp(p) \/ Release(p) \/ Reader(p) \/ Crash(p)
    PROVE  AInv'
<1>1. proc[p] \in ProcStates
  BY DEF IInv, TypeOK
<1> DEFINE Moved(to) == /\ to \in {"wait", "locked", "read", "ended"}
                        /\ \E r : r.pc = to /\ proc' = [proc EXCEPT ![p] = r]
<1>2. \E to : Moved(to)
  <2>0. ASSUME NEW to \in {"wait", "locked", "read", "ended"}, NEW new, new.pc = to, Set(p, new)
        PROVE  Moved(to)
    BY <2>0 DEF Set
  <2> HIDE DEF Moved
  <2>1. ASSUME NEW cmd \in Commands, Start(p, cmd) PROVE Moved("wait")
    <3> DEFINE new == [proc[p] EXCEPT !.pc = "wait", !.cmd = cmd]
    <3>1. new.pc = "wait" /\ Set(p, new)
      BY <1>1, <2>1 DEF Start, ProcStates
    <3> HIDE DEF new
    <3> QED
      BY <2>0, <3>1
  <2>2. ASSUME Acquire(p) PROVE Moved("locked")
    <3> DEFINE new == [proc[p] EXCEPT !.pc = "locked", !.before = [index |-> index, file |-> file]]
    <3>1. new.pc = "locked" /\ Set(p, new)
      BY <1>1, <2>2 DEF Acquire, ProcStates
    <3> HIDE DEF new
    <3> QED
      BY <2>0, <3>1
  <2>3. ASSUME NEW report, Ended(p, report) PROVE Moved("ended")
    <3> DEFINE new == [NewProc EXCEPT !.pc = "ended", !.report = report]
    <3>1. new.pc = "ended" /\ Set(p, new)
      BY <2>3 DEF Ended, NewProc
    <3> HIDE DEF new
    <3> QED
      BY <2>0, <3>1
  <2>4. ASSUME GiveUp(p) \/ Release(p) \/ Crash(p) \/ ReadFile(p) PROVE Moved("ended")
    BY <2>3, <2>4 DEF GiveUp, Release, Crash, ReadFile
  <2>5. ASSUME NEW n \in Names, ReadIndex(p, n) PROVE Moved("read")
    <3> DEFINE new == [proc[p] EXCEPT !.pc = "read", !.cmd = [kind |-> "switch", name |-> n],
                                      !.seen = index.pin[n]]
    <3>1. new.pc = "read" /\ Set(p, new)
      BY <1>1, <2>5 DEF ReadIndex, ProcStates
    <3> HIDE DEF new
    <3> QED
      BY <2>0, <3>1
  <2> QED
    BY <2>1, <2>2, <2>4, <2>5 DEF Reader
<1>3. proc[p].pc \notin Held => UNCHANGED <<index, file>>
  BY DEF Start, Acquire, GiveUp, Release, Reader, ReadFile, ReadIndex, Crash, Held, store
<1>4. PICK r : proc' = [proc EXCEPT ![p] = r] /\ r.pc \in {"wait", "locked", "read", "ended"}
  BY <1>2
<1>5. Done(r)'
  BY <1>4 DEF Done
<1> QED
  BY <1>3, <1>4, <1>5, AStep DEF Changing

\* The plan is made.
LEMMA PlanA ==
    ASSUME IInv, AInv, NEW p \in Procs, NEW refuses \in BOOLEAN, Plan(p, refuses)
    PROVE  AInv'
<1> DEFINE o == proc[p]
           c == o.cmd
           w == IF NewFiles(c) = NoFiles THEN "commit" ELSE "write"
<1>1. proc[p].pc = "locked" /\ proc[p].pc \in Held
  BY DEF Plan, Held
<1>2. holder = p /\ o \in ProcStates /\ c \in Commands /\ HolderOK(o)
  BY <1>1, HolderFacts
<1>3. o.before.file = file /\ o.written = {} /\ UNCHANGED <<index, file>>
  BY <1>1, <1>2 DEF HolderOK, Plan, store
<1>4. CASE refuses \/ ~Allowed(c) \/ NothingToDo(c)
  <2>1. proc' = [proc EXCEPT ![p] = [o EXCEPT !.pc = "release", !.report = "unchanged"]]
    BY <1>4 DEF Plan, Set
  <2>2. /\ [o EXCEPT !.pc = "release", !.report = "unchanged"].pc = "release"
        /\ [o EXCEPT !.pc = "release", !.report = "unchanged"].report = "unchanged"
    BY <1>2 DEF ProcStates
  <2>3. PICK r : r = [o EXCEPT !.pc = "release", !.report = "unchanged"]
    OBVIOUS
  <2>4. Done(r)'
    BY <2>2, <2>3 DEF Done
  <2> QED
    BY <1>3, <2>1, <2>2, <2>3, <2>4, AStep DEF Changing
<1>5. CASE ~(refuses \/ ~Allowed(c) \/ NothingToDo(c))
  <2> DEFINE new == [o EXCEPT !.pc = w, !.todo = NewFiles(c), !.next = NewIndex(c)]
  <2>1. proc' = [proc EXCEPT ![p] = new]
    BY <1>5 DEF Plan, Set
  <2>0. \E to \in Indexes : Fits(c, NewFiles(c), NewIndex(c), to)
    BY <1>2, <1>5, PlanFits DEF IInv, TypeOK
  <2>2. new \in ProcStates
    BY <1>2, <2>0 DEF ProcStates, PCs, Fits
  <2>3. /\ new.pc = w /\ new.todo = NewFiles(c) /\ new.next = NewIndex(c) /\ new.cmd = c
        /\ new.written = {} /\ new.before.file = file
    BY <1>2, <1>3 DEF ProcStates
  <2> HIDE DEF new
  <2>4. PICK r \in ProcStates : r = new
    BY <2>2
  <2>5. Effects(r)
    BY <1>2, <1>5, <2>3, <2>4, PlanEffects DEF IInv, TypeOK
  <2>6. Effects(r)'
    BY <1>3, <2>5, SameStore
  <2>7. Leftover(r)'
    BY <2>3, <2>4 DEF Leftover
  <2>8. Untouched(r)' /\ Done(r)'
    BY <1>3, <2>3, <2>4 DEF Untouched, Done
  <2> QED
    BY <1>3, <2>1, <2>4, <2>6, <2>7, <2>8, AStep
<1> QED
  BY <1>4, <1>5

\* A file is written: a change of one file is through with it, any other goes
\* on with the same plan.
LEMMA WriteFileA == ASSUME IInv, AInv, NEW p \in Procs, NEW n \in Names, WriteFile(p, n) PROVE AInv'
<1> DEFINE o == proc[p]
<1>1. /\ o.pc = "write" /\ holder = p /\ o \in ProcStates /\ o.cmd \in Commands /\ HolderOK(o)
      /\ n \in Left(o) /\ file' = [file EXCEPT ![n] = o.todo[n]] /\ UNCHANGED index
  BY WriteFileFacts
<1>2. PICK r \in ProcStates : WritesFile(p, n, r)
  BY WriteFileFacts
<1>3. /\ Effects(o) /\ Untouched(o) /\ Leftover(o) /\ JournalOK(o) /\ PlanOK(o) /\ o.pc \in Held
      /\ o.before.index = index /\ o.before \in Snapshots
  BY <1>1 DEF AInv, HolderOK, Changing, Held
<1>4. /\ proc' = [proc EXCEPT ![p] = r]
      /\ r.cmd = o.cmd /\ r.next = o.next /\ r.before = o.before
      /\ r.written = o.written \cup {n} /\ Left(r) = Left(o) \ {n}
      /\ r.todo = [o.todo EXCEPT ![n] = None]
      /\ r.pc \in {"write", "commit", "release"}
      /\ r.pc \in Changing => Left(r) # {} \/ r.next # None
      /\ r.pc = "release" => r.next = None /\ r.report = "saved"
  BY <1>2 DEF WritesFile, Changing
<1> HIDE DEF o
<1>5. ASSUME o.cmd.kind \notin {"setVal", "unset"} PROVE o.next # None
  <2>1. None \notin Indexes /\ index \in Indexes
    BY BoundsAssumption DEF IInv, TypeOK
  <2>2. CASE o.cmd.kind = "create"
    <3>1. o.next = [index EXCEPT !.pin[o.cmd.name] = o.cmd.config.tsg]
      BY <1>3, <2>2 DEF Effects, CreatePlan
    <3>2. o.cmd.config.tsg \in Tsgs /\ o.cmd.name \in Names
      BY <1>1, <2>2, CommandFields DEF Configs
    <3> QED
      BY <2>1, <3>1, <3>2 DEF Indexes
  <2>3. CASE o.cmd.kind = "setTsg"
    <3>1. o.next = [index EXCEPT !.pin[o.cmd.name] = o.cmd.tsg]
      BY <1>3, <2>3 DEF Effects, TsgPlan
    <3>2. o.cmd.tsg \in Tsgs /\ o.cmd.name \in Names
      BY <1>1, <2>3, CommandFields
    <3> QED
      BY <2>1, <3>1, <3>2 DEF Indexes
  <2>4. CASE o.cmd.kind \in {"switch", "delete"}
    <3>1. Changes(o) = {}
      BY <1>3, <2>4 DEF Effects, SwitchPlan, DeletePlan
    <3> QED
      BY <1>1, <3>1 DEF Changes
  <2>5. CASE o.cmd.kind = "import"
    <3>1. ImportPlan(o) /\ o.cmd.source \in Sources /\ o.cmd.select \in Names \cup {None}
      BY <1>1, <1>3, <2>5, CommandFields DEF Effects
    <3>2. DOMAIN o.cmd.source \subseteq Names
          /\ \A m \in DOMAIN o.cmd.source : o.cmd.source[m].tsg \in Tsgs
      BY <3>1, NamesAssumption DEF Configs
    <3>3. o.next \in Indexes
      BY <2>1, <3>1, <3>2 DEF ImportPlan, Indexes
    <3> QED
      BY <2>1, <3>3
  <2> QED
    BY <1>1, <1>5, <2>2, <2>3, <2>4, <2>5, CommandFields
<1>6. ASSUME o.cmd.kind \in {"setVal", "unset"} PROVE ValPlan(o) /\ Left(r) = {} /\ r.next = None
  BY <1>1, <1>3, <1>4, <1>6 DEF Effects, ValPlan
<1>7. r.pc \in Changing => r.cmd.kind \notin {"setVal", "unset"} /\ o.next # None
  BY <1>4, <1>5, <1>6
<1>8. /\ \A m \in Names : file'[m] = IF m = n THEN o.todo[n] ELSE file[m]
      /\ \A m \in Names : r.todo[m] = IF m = n THEN None ELSE o.todo[m]
  BY <1>1, <1>4 DEF IInv, TypeOK, Files, ProcStates
<1>9. ASSUME r.pc \in {"write", "commit"} PROVE Effects(r)'
  <2>1. r.cmd.kind \notin {"setVal", "unset"}
    BY <1>9, <1>7 DEF Changing
  <2>2. Changes(r) = Changes(o)
    BY <1>1, <1>4 DEF Changes
  <2>3. \A m \in Changes(o) : Planned(r, m)' = Planned(o, m)
    <3>1. Changes(o) \subseteq Names
      BY <1>1 DEF Changes, Left, ProcStates
    <3>2. Left(r)' = Left(r)
      BY DEF Left
    <3> QED
      BY <1>1, <1>4, <1>8, <3>1, <3>2 DEF Planned
  <2> QED
    BY <1>1, <1>3, <1>4, <2>1, <2>2, <2>3, SamePlan
<1>10. ASSUME r.pc \in Changing PROVE Leftover(r)'
  <2>1. ASSUME NEW m \in r.written \cap Registered(index)
        PROVE  Overwritten(m, r.before.file[m], file'[m])
    <3>0. m \in Names
      BY DEF Registered
    <3>1. CASE m = n
      BY <1>1, <1>3, <1>4, <1>8, <1>10, <1>7, <2>1, <3>0, <3>1, PlannedLeft
    <3>2. CASE m # n
      BY <1>3, <1>4, <1>8, <2>1, <3>0, <3>2 DEF Leftover
    <3> QED
      BY <3>1, <3>2
  <2>2. Registered(index)' = Registered(index)
    BY <1>1 DEF Registered
  <2> QED
    BY <2>1, <2>2 DEF Leftover, Overwritten
<1>11. ASSUME r.pc \in {"write", "commit"} PROVE Untouched(r)'
  BY <1>3, <1>4, <1>8 DEF Untouched
<1>12. Done(r)'
  <2> SUFFICES ASSUME r.pc = "release" PROVE Makes(r.cmd, r.before, index, file)'
    BY <1>4 DEF Done
  <2>1. o.cmd.kind \in {"setVal", "unset"} /\ ValPlan(o) /\ r.cmd = o.cmd /\ r.before = o.before
    BY <1>4, <1>5, <1>6
  <2>2. n = o.cmd.name /\ o.written = {}
    BY <1>1, <2>1 DEF ValPlan
  <2>3. o.before.file \in Files /\ file \in Files /\ n \in Names
    BY <1>3, <2>1 DEF Snapshots, IInv, TypeOK
  <2>4. file = o.before.file
    BY <1>3, <2>2, <2>3 DEF Untouched, Files
  <2>5. file' = [o.before.file EXCEPT ![n] = o.todo[n]]
    BY <1>1, <2>4
  <2>6. o.todo[n] = [o.before.file[n] EXCEPT
                       !.val = IF o.cmd.kind = "unset" THEN None ELSE o.cmd.val]
    BY <2>1, <2>2 DEF ValPlan
  <2>7. Makes(o.cmd, o.before, index', file')
    <3>1. CASE o.cmd.kind = "setVal"
      <4>1. index' = o.before.index /\ file' = [o.before.file EXCEPT ![n].val = o.cmd.val]
        BY <1>1, <1>3, <2>5, <2>6, <3>1
      <4> QED
        BY <2>2, <3>1, <4>1 DEF Makes
    <3>2. CASE o.cmd.kind = "unset"
      <4>1. index' = o.before.index /\ file' = [o.before.file EXCEPT ![n].val = None]
        BY <1>1, <1>3, <2>5, <2>6, <3>2
      <4> QED
        BY <2>2, <3>2, <4>1 DEF Makes
    <3> QED
      BY <2>1, <3>1, <3>2
  <2> QED
    BY <2>1, <2>7
<1> QED
  BY <1>3, <1>4, <1>9, <1>10, <1>11, <1>12, AStep DEF o

\* A write failed: what was written is left as it is.
LEMMA FailA ==
    ASSUME IInv, AInv, NEW p \in Procs, WriteFileFails(p) \/ WriteIndexFails(p) PROVE AInv'
<1> DEFINE o == proc[p]
           to == IF o.written = {} THEN "release" ELSE "undo"
           new == [o EXCEPT !.pc = to, !.report = "unchanged"]
<1>1. /\ o \in ProcStates /\ o.pc \in {"write", "commit"}
      /\ UNCHANGED <<index, file>> /\ proc' = [proc EXCEPT ![p] = new]
  BY DEF WriteFileFails, WriteIndexFails, Failed, Set, store, IInv, TypeOK
<1>2. new.pc = to /\ new.report = "unchanged" /\ new.written = o.written /\ new.before = o.before
  BY <1>1 DEF ProcStates
<1>3. Leftover(o)
  BY <1>1 DEF AInv, Changing
<1> HIDE DEF new
<1>4. PICK r : r = new
  OBVIOUS
<1>5. Leftover(r)'
  BY <1>1, <1>2, <1>3, <1>4 DEF Leftover, Registered
<1>6. Done(r)'
  BY <1>2, <1>4 DEF Done
<1> QED
  BY <1>1, <1>2, <1>4, <1>5, <1>6, AStep

\* One file is restored, or cannot be.
LEMMA UndoA ==
    ASSUME IInv, AInv, NEW p \in Procs, NEW n \in Names, NEW fails \in BOOLEAN, Undo(p, n, fails)
    PROVE  AInv'
<1> DEFINE o == proc[p]
           left == o.written \ {n}
           whole == o.whole /\ ~fails
           to == IF left = {} THEN "release" ELSE "undo"
           says == IF whole \/ o.cmd.kind = "create" THEN "unchanged" ELSE "unfinished"
           new == [o EXCEPT !.written = left, !.whole = whole, !.pc = to, !.report = says]
<1>1. /\ o \in ProcStates /\ o.pc = "undo" /\ UNCHANGED index
      /\ proc' = [proc EXCEPT ![p] = new]
      /\ file' = file \/ file' = [file EXCEPT ![n] = Previous(p, n)]
  BY DEF Undo, Set, IInv, TypeOK
<1>2. new.pc = to /\ new.report = says /\ new.written = left /\ new.before = o.before
  BY <1>1 DEF ProcStates
<1>3. Leftover(o)
  BY <1>1 DEF AInv, Changing
<1>4. \A m \in Names \ {n} : file'[m] = file[m]
  BY <1>1 DEF IInv, TypeOK, Files
<1> HIDE DEF new
<1>5. PICK r : r = new
  OBVIOUS
<1>6. \A m \in left : m \in o.written /\ m # n
  OBVIOUS
<1>7. Leftover(r)'
  BY <1>1, <1>2, <1>3, <1>4, <1>5, <1>6 DEF Leftover, Registered
<1>8. o.pc \in Held /\ r.pc \notin {"write", "commit"}
  BY <1>1, <1>2, <1>5 DEF Held
<1>9. Done(r)'
  BY <1>2, <1>5 DEF Done
<1> QED
  BY <1>1, <1>5, <1>7, <1>8, <1>9, AStep

\* The commit point: the index of the plan takes its place beside the files,
\* all of which are written.
LEMMA WriteIndexA == ASSUME IInv, AInv, NEW p \in Procs, WriteIndex(p) PROVE AInv'
<1> DEFINE o == proc[p]
           to == IF o.cmd.kind = "delete" THEN "unlink" ELSE "release"
           new == [o EXCEPT !.pc = to, !.report = "saved"]
<1>1. o.pc = "commit" /\ o.pc \in Held
  BY DEF WriteIndex, Held
<1>2. o \in ProcStates /\ o.cmd \in Commands /\ HolderOK(o)
  BY <1>1, HolderFacts
<1>3. /\ o.before \in Snapshots /\ o.before.index = index /\ Left(o) = {} /\ o.next # None
      /\ Effects(o) /\ Untouched(o)
  BY <1>1, <1>2 DEF HolderOK, PlanOK, Changing, AInv
<1>4. /\ index' = o.next /\ file' = file /\ proc' = [proc EXCEPT ![p] = new]
      /\ index \in Indexes /\ file \in Files /\ o.before.file \in Files
  BY <1>3 DEF WriteIndex, Set, IInv, TypeOK, Snapshots
<1>5. new.pc = to /\ new.report = "saved" /\ new.cmd = o.cmd /\ new.before = o.before
  BY <1>2 DEF ProcStates
<1> HIDE DEF new, o
<1>6. PICK r : r = new
  OBVIOUS
<1>7. /\ Changes(o) = o.written /\ \A n \in o.written : Planned(o, n) = file[n]
      /\ \A n \in Names \ o.written : file[n] = o.before.file[n]
  BY <1>3 DEF Changes, Planned, Untouched
<1>8. o.written = {} => file = o.before.file
  BY <1>4, <1>7 DEF Files
<1>9. ASSUME NEW n \in Names, o.written = {n} PROVE file = [o.before.file EXCEPT ![n] = file[n]]
  BY <1>4, <1>7, <1>9 DEF Files
<1>10. CASE o.cmd.kind = "delete"
  <2>1. file = o.before.file /\ DeletePlan(o)
    BY <1>3, <1>7, <1>8, <1>10 DEF Effects, DeletePlan
  <2>2. Makes(o.cmd, o.before, index', [file EXCEPT ![o.cmd.name] = None])
    BY <1>3, <1>4, <1>10, <2>1 DEF Makes, DeletePlan
  <2>3. LeftBehind(r)'
    BY <1>4, <1>5, <1>6, <1>10, <2>1, <2>2 DEF LeftBehind
  <2>4. Done(r)' /\ r.pc = "unlink"
    BY <1>5, <1>6, <1>10, <2>3 DEF Done
  <2> QED
    BY <1>1, <1>4, <1>6, <2>4, AStep DEF Changing, o
<1>11. CASE o.cmd.kind # "delete"
  <2>1. ASSUME o.cmd.kind = "create" PROVE Makes(o.cmd, o.before, index', file')
    <3>1. CreatePlan(o) /\ o.written = {o.cmd.name} /\ o.cmd.name \in Names
      BY <1>2, <1>3, <1>7, <2>1, CommandFields DEF Effects, CreatePlan, o
    <3>2. file[o.cmd.name] = o.cmd.config
      BY <1>7, <3>1 DEF CreatePlan
    <3> QED
      BY <1>3, <1>4, <1>9, <2>1, <3>1, <3>2 DEF Makes, CreatePlan
  <2>2. o.cmd.kind \notin {"setVal", "unset"}
    BY <1>3 DEF Effects, ValPlan
  <2>3. ASSUME o.cmd.kind = "setTsg" PROVE Makes(o.cmd, o.before, index', file')
    <3>1. TsgPlan(o) /\ o.written = {o.cmd.name} /\ o.cmd.name \in Names
      BY <1>2, <1>3, <1>7, <2>3, CommandFields DEF Effects, TsgPlan, o
    <3>2. file[o.cmd.name] = [o.before.file[o.cmd.name] EXCEPT !.tsg = o.cmd.tsg]
      BY <1>7, <3>1 DEF TsgPlan
    <3>3. file = [o.before.file EXCEPT ![o.cmd.name].tsg = o.cmd.tsg]
      BY <1>9, <3>1, <3>2
    <3>4. index' = [o.before.index EXCEPT !.pin[o.cmd.name] = o.cmd.tsg]
      BY <1>3, <1>4, <3>1 DEF TsgPlan
    <3>5. Makes(o.cmd, o.before, index', file') <=>
            /\ index' = [o.before.index EXCEPT !.pin[o.cmd.name] = o.cmd.tsg]
            /\ file' = [o.before.file EXCEPT ![o.cmd.name].tsg = o.cmd.tsg]
      BY <2>3, Zenon DEF Makes
    <3> QED
      BY <1>4, <3>3, <3>4, <3>5
  <2>4. ASSUME o.cmd.kind = "switch" PROVE Makes(o.cmd, o.before, index', file')
    <3>1. SwitchPlan(o) /\ file = o.before.file
      BY <1>3, <1>7, <1>8, <2>4 DEF Effects, SwitchPlan
    <3> QED
      BY <1>3, <1>4, <2>4, <3>1 DEF Makes, SwitchPlan
  <2>5. ASSUME o.cmd.kind = "import" PROVE Makes(o.cmd, o.before, index', file')
    <3> DEFINE W == o.written
               s == o.cmd.source
    <3>1. ImportPlan(o) /\ W = Changes(o) /\ W \subseteq DOMAIN s
      BY <1>3, <1>7, <2>5 DEF Effects, ImportPlan
    <3>2. file = [m \in Names |-> IF m \in W THEN s[m] ELSE o.before.file[m]]
      BY <1>4, <1>7, <3>1 DEF ImportPlan, Files
    <3>3. /\ \A m \in DOMAIN s \ W : \/ m \in Registered(o.before.index) /\ ~o.cmd.replace
                                    \/ Alike(m) \cap (W \cup Registered(o.before.index)) # {}
          /\ o.cmd.replace \/ W \cap Registered(o.before.index) = {}
          /\ index'.pin = [m \in Names |-> IF m \in W THEN s[m].tsg ELSE o.before.index.pin[m]]
          /\ index'.active = IF o.before.index.active = None /\ o.cmd.select \in W
                             THEN o.cmd.select ELSE o.before.index.active
      BY <1>3, <1>4, <3>1 DEF ImportPlan
    <3>4. file' = file /\ W \in SUBSET DOMAIN s
      BY <1>4, <3>1
    <3> HIDE DEF W
    <3> QED
      BY <2>5, <3>2, <3>3, <3>4 DEF Makes
  <2>6. Makes(o.cmd, o.before, index', file')
    BY <1>2, <1>4, <1>11, <2>1, <2>2, <2>3, <2>4, <2>5, CommandFields DEF o
  <2>7. Done(r)' /\ r.pc = "release"
    BY <1>5, <1>6, <1>11, <2>6 DEF Done
  <2> QED
    BY <1>1, <1>4, <1>6, <2>7, AStep DEF Changing, o
<1> QED
  BY <1>10, <1>11

\* The file of a deleted tenant goes, or stays behind.
LEMMA UnlinkA ==
    ASSUME IInv, AInv, NEW p \in Procs, NEW fails \in BOOLEAN, Unlink(p, fails) PROVE AInv'
<1> DEFINE o == proc[p]
           says == IF fails THEN "leftover" ELSE "saved"
           new == [o EXCEPT !.pc = "release", !.report = says]
<1>1. o.pc = "unlink" /\ o.pc \in Held
  BY DEF Unlink, Held
<1>2. o \in ProcStates /\ o.report = "saved" /\ LeftBehind(o)
  BY <1>1, HolderFacts DEF HolderOK, AInv, Done
<1>3. /\ index' = index
      /\ file' = IF fails THEN file ELSE [file EXCEPT ![o.cmd.name] = None]
      /\ proc' = [proc EXCEPT ![p] = new]
  <2>1. ~fails => [o EXCEPT !.pc = "release"] = new
    BY <1>2 DEF ProcStates
  <2> QED
    BY <2>1 DEF Unlink, Set
<1>4. new.pc = "release" /\ new.report = says /\ new.cmd = o.cmd /\ new.before = o.before
  BY <1>2 DEF ProcStates
<1> HIDE DEF new, o
<1>5. PICK r : r = new
  OBVIOUS
<1>6. Done(r)'
  BY <1>2, <1>3, <1>4, <1>5 DEF Done, LeftBehind
<1> QED
  BY <1>1, <1>3, <1>4, <1>5, <1>6, AStep DEF Changing, o

\* A plan is in the fields a signal does not touch.
LEMMA SameFields ==
    ASSUME NEW o, NEW r, r.cmd = o.cmd, r.todo = o.todo, r.next = o.next,
           r.written = o.written, r.before = o.before, Effects(o)
    PROVE  Effects(r)
<1>1. Left(r) = Left(o) /\ Changes(r) = Changes(o) /\ \A n : Planned(r, n) = Planned(o, n)
  BY DEF Left, Changes, Planned
<1>2. /\ CreatePlan(o) => CreatePlan(r)
      /\ ValPlan(o) => ValPlan(r)
      /\ TsgPlan(o) => TsgPlan(r)
  BY <1>1 DEF CreatePlan, ValPlan, TsgPlan
<1>3. SwitchPlan(o) => SwitchPlan(r)
  BY <1>1 DEF SwitchPlan
<1>4. DeletePlan(o) => DeletePlan(r)
  BY <1>1 DEF DeletePlan
<1>5. ImportPlan(o) => ImportPlan(r)
  BY <1>1 DEF ImportPlan
<1> QED
  BY <1>2, <1>3, <1>4, <1>5 DEF Effects

\* A signal changes neither plan nor files.
LEMMA SignalA == ASSUME IInv, AInv, NEW p \in Procs, Signal(p) PROVE AInv'
<1> DEFINE o == proc[p]
           new == [o EXCEPT !.signal = TRUE]
<1>1. /\ o \in ProcStates /\ UNCHANGED <<index, file>>
      /\ proc' = [proc EXCEPT ![p] = new]
  BY DEF Signal, Set, store, IInv, TypeOK
<1>2. /\ new.pc = o.pc /\ new.written = o.written /\ new.before = o.before
      /\ new.cmd = o.cmd /\ new.todo = o.todo /\ new.next = o.next /\ new.report = o.report
  BY <1>1 DEF ProcStates
<1>3. /\ o.pc \in Changing => Leftover(o)
      /\ o.pc \in {"write", "commit"} => Effects(o) /\ Untouched(o)
      /\ Done(o)
  BY DEF AInv
<1> HIDE DEF new, o
<1>4. PICK r : r = new
  OBVIOUS
<1>5. r.pc \in Changing => Leftover(r)'
  BY <1>1, <1>2, <1>3, <1>4 DEF Leftover, Registered
<1>6. r.pc \in {"write", "commit"} => Effects(r)'
  <2>2. Effects(o) => Effects(r)
    BY <1>2, <1>4, SameFields
  <2>3. Effects(r) => Effects(r)'
    BY <1>1, SameStore
  <2> QED
    BY <1>2, <1>3, <1>4, <2>2, <2>3
<1>7. r.pc \in {"write", "commit"} => Untouched(r)'
  BY <1>1, <1>2, <1>3, <1>4 DEF Untouched
<1>8. Done(r)'
  BY <1>1, <1>2, <1>3, <1>4 DEF Done, LeftBehind
<1> QED
  BY <1>1, <1>4, <1>5, <1>6, <1>7, <1>8, AStep

\* The second invariant holds in every reachable state.
LEMMA AInductive == Spec => []AInv
<1>1. Init => AInv
  BY DEF Init, AInv, NewProc, Changing, Done
<1>2. IInv /\ AInv /\ [Next]_vars => AInv'
  <2> SUFFICES ASSUME IInv, AInv, [Next]_vars PROVE AInv'
    OBVIOUS
  <2>1. CASE UNCHANGED vars
    <3>1. UNCHANGED <<index, file, proc>>
      BY <2>1 DEF vars
    <3>2. ASSUME NEW p \in Procs
          PROVE  /\ proc'[p].pc \in {"write", "commit"} => Effects(proc[p])' /\ Untouched(proc[p])'
                 /\ proc'[p].pc \in Changing => Leftover(proc[p])'
                 /\ Done(proc[p])'
      <4>1. PICK s : s = proc[p]
        OBVIOUS
      <4>2. /\ Effects(s) => Effects(s)'
            /\ Leftover(s) => Leftover(s)'
            /\ Untouched(s) => Untouched(s)'
            /\ Done(s) => Done(s)'
        BY <3>1, SameStore
      <4> QED
        BY <3>1, <4>1, <4>2 DEF AInv
    <3> QED
      BY <3>2 DEF AInv
  <2>2. ASSUME NEW p \in Procs, Transaction(p) PROVE AInv'
    BY <2>2, OtherA, PlanA, WriteFileA, FailA, WriteIndexA, UnlinkA, UndoA DEF Transaction
  <2> QED
    BY <2>1, <2>2, OtherA, SignalA DEF Next
<1> QED
  BY <1>1, <1>2, Inductive, PTL DEF Spec

-----------------------------------------------------------------------------
(* What the user is told *)

\* What any command tells the user of the store is true when it is told, also
\* after a failed write, undo or removal and with a signal at any step: it has
\* made of the whole store what it was to make, or it has left it as it was,
\* but for what the message after a signal leaves out.
THEOREM Honest == Spec => ReportHonest
<1> DEFINE True(p, said) ==
             LET r == proc[p]
                 b == r.before
             IN  /\ said = "saved" => Makes(r.cmd, b, index, file) \/ (r.signal /\ LeftBehind(r))
                 /\ said = "leftover" => LeftBehind(r)
                 /\ said = "unchanged" =>
                      /\ index = b.index
                      /\ Changed(b) = {} \/ (r.signal /\ ~r.whole /\ Changed(b) \subseteq cut)
                 /\ said = "unfinished" =>
                      index = b.index /\ ~r.whole /\ Changed(b) \subseteq cut
<1>1. ASSUME IInv, AInv, NEW p \in Procs, NEW said \in Reports, [Next]_vars, Tells(p, said)
      PROVE  said \in {"none", Printed(p)}
  <2>1. /\ proc[p].pc = "release" /\ proc[p] \in ProcStates
        /\ proc'[p].pc = "ended" /\ proc'[p].report = said
    BY <1>1 DEF Tells, IInv, TypeOK
  <2>2. \A report : Ended(p, report) => proc'[p].report = report
    BY <1>1 DEF Ended, Set, NewProc, IInv, TypeOK
  <2>3. ASSUME NEW q \in Procs, q # p, NEW r, Set(q, r) PROVE FALSE
    BY <1>1, <2>1, <2>3 DEF Set, IInv, TypeOK
  <2>4. PICK q \in Procs : \/ \E cmd \in Commands : Start(q, cmd)
                           \/ Transaction(q) \/ Reader(q) \/ Signal(q) \/ Crash(q)
    BY <1>1, <2>1 DEF Next, vars
  <2>5. q = p
    <3>1. \E r : Set(q, r)
      BY <2>4 DEF Start, Transaction, Acquire, GiveUp, Plan, WriteFile, WriteFileFails, WriteIndex,
                  WriteIndexFails, Failed, Unlink, Undo, Release, Reader, ReadIndex, ReadFile,
                  Signal, Crash, Ended
    <3> QED
      BY <2>3, <3>1
  <2>6. Release(p) \/ Signal(p) \/ Crash(p)
    BY <2>1, <2>4, <2>5 DEF Start, Transaction, Acquire, GiveUp, Plan, WriteFile, WriteFileFails,
       WriteIndex, WriteIndexFails, Unlink, Undo, Reader, ReadIndex, ReadFile
  <2>7. ~Signal(p)
    BY <1>1, <2>1 DEF Signal, Set, IInv, TypeOK, ProcStates
  <2> QED
    BY <2>1, <2>2, <2>6, <2>7 DEF Release, Crash
<1>2. ASSUME IInv, AInv, NEW p \in Procs, proc[p].pc = "release" PROVE True(p, Printed(p))
  <2> DEFINE r == proc[p]
  <2>1. /\ ReleaseOK(r) /\ Done(r) /\ r \in ProcStates
    BY <1>2 DEF IInv, TypeOK, HoldersOK, HolderOK, Held, AInv
  <2>2. /\ r.report = "saved" => Makes(r.cmd, r.before, index, file)
        /\ r.report = "leftover" => LeftBehind(r)
    BY <1>2, <2>1 DEF Done
  <2>3. /\ r.report = "unchanged" => index = r.before.index /\ Changed(r.before) = {}
        /\ r.report = "unfinished" =>
             index = r.before.index /\ ~r.whole /\ Changed(r.before) \subseteq cut
    BY <2>1 DEF ReleaseOK, Changed
  <2>4. /\ r.report \in {"saved", "leftover", "unchanged", "unfinished"} /\ r.signal \in BOOLEAN
        /\ Printed(p) = IF ~r.signal THEN r.report
                        ELSE IF r.report \in {"saved", "leftover"} THEN "saved" ELSE "unchanged"
    BY <2>1 DEF ReleaseOK, ProcStates, Printed
  <2> HIDE DEF r
  <2> QED
    BY <2>2, <2>3, <2>4 DEF r
<1>3. ASSUME IInv, AInv, [Next]_vars
      PROVE  [\A p \in Procs, said \in Reports : Tells(p, said) => True(p, said)]_vars
  <2> SUFFICES ASSUME NEW p \in Procs, NEW said \in Reports, Tells(p, said) PROVE True(p, said)
    OBVIOUS
  <2>1. said = "none" \/ True(p, said)
    BY <1>1, <1>2, <1>3 DEF Tells
  <2> QED
    BY <2>1
<1>4. IInv /\ AInv /\ [Next]_vars =>
        [\A p \in Procs, said \in Reports : Tells(p, said) => True(p, said)]_vars
  BY <1>3
<1> QED
  BY <1>4, Inductive, AInductive, PTL DEF Spec, ReportHonest

-----------------------------------------------------------------------------
(* Acting at once: the steps of the registry *)

\* The file a tenant is seen to have: a transaction's changes are not seen
\* before its commit point.
Content(n) == IF n \in Busy THEN proc[holder].before.file[n] ELSE file[n]
Tenant(ix, n, config) == IF n \in Registered(ix) THEN [pin |-> ix.pin[n], config |-> config] ELSE None

Shown ==
    /\ \A n \in Names : Visible[n] = Tenant(index, n, Content(n))
    /\ \A n \in Registered(index) : Content(n) \in Configs

\* Only the holder writes, and what it has written over is in its journal.
LEMMA Shows == IInv => Shown
<1> SUFFICES ASSUME IInv PROVE Shown
  OBVIOUS
<1>1. \A n \in Names : Writing(n) = IF n \in Busy THEN {holder} ELSE {}
  <2>1. \A p \in Procs : proc[p].pc \in Changing => holder = p
    BY DEF IInv, LockOK, Held, Changing
  <2>2. holder \in Procs \cup {None} /\ None \notin Procs
    BY BoundsAssumption DEF IInv, TypeOK
  <2> QED
    BY <2>1, <2>2 DEF Writing, Busy, Changing
<1>2. ASSUME NEW n \in Registered(index) \cap Busy
      PROVE  /\ proc[holder].journal[n] = proc[holder].before.file[n]
             /\ proc[holder].before.file[n] \in Configs
  <2>1. /\ holder \in Procs /\ proc[holder].pc \in Changing /\ n \in proc[holder].written
        /\ n \in Names
    BY <1>2 DEF Busy, IInv, TypeOK, Registered
  <2>2. HolderOK(proc[holder]) /\ proc[holder] \in ProcStates
    BY <2>1 DEF IInv, TypeOK, HoldersOK, Held, Changing
  <2>3. JournalOK(proc[holder]) /\ proc[holder].before.file \in Files
    BY <2>1, <2>2 DEF HolderOK, Snapshots
  <2> QED
    BY <1>2, <2>1, <2>3 DEF JournalOK, Files
<1>3. \A n \in Registered(index) : Committed(n) = Content(n)
  <2> SUFFICES ASSUME NEW n \in Registered(index) PROVE Committed(n) = Content(n)
    OBVIOUS
  <2>1. n \in Names
    BY DEF Registered
  <2>2. CASE n \in Busy
    BY <1>1, <1>2, <2>1, <2>2 DEF Committed, Content
  <2>3. CASE n \notin Busy
    BY <1>1, <2>1, <2>3 DEF Committed, Content
  <2> QED
    BY <2>2, <2>3
<1>4. \A n \in Registered(index) : Content(n) \in Configs
  <2>1. \A n \in Registered(index) : n \in Names /\ file[n] # None /\ file[n] \in Configs \cup {None}
    BY DEF IInv, TypeOK, FilesOK, Files, Registered
  <2> QED
    BY <1>2, <2>1 DEF Content
<1>5. \A n \in Names : Visible[n] = Tenant(index, n, Content(n))
  BY <1>3 DEF Visible, Tenant, Registered
<1> QED
  BY <1>4, <1>5 DEF Shown

\* The same after a step.
LEMMA ShowsNext == IInv' => Shown'
BY Shows, PTL

\* The registry's view of the tenants.
LEMMA View ==
    IInv => /\ Visible \in [Names -> Registry!Tenants \cup {None}]
            /\ Registry!Registered = Registered(index)
<1> SUFFICES ASSUME IInv
             PROVE  /\ Visible \in [Names -> Registry!Tenants \cup {None}]
                    /\ Registry!Registered = Registered(index)
  OBVIOUS
<1>1. None \notin Registry!Tenants
  BY BoundsAssumption DEF Registry!Tenants, Registry!Configs, Configs
<1>2. \A n \in Registered(index) : index.pin[n] \in Tsgs /\ Content(n) \in Configs
  BY Shows, PinTyped DEF Shown, IInv, TypeOK, Registered
<1>3. \A n \in Names : Visible[n] = Tenant(index, n, Content(n))
  BY Shows DEF Shown
<1>4. \A n \in Registered(index) :
        /\ Visible[n] = [pin |-> index.pin[n], config |-> Content(n)]
        /\ [pin |-> index.pin[n], config |-> Content(n)] \in Registry!Tenants
  BY <1>2, <1>3 DEF Tenant, Registered, Registry!Tenants, Registry!Configs, Configs
<1>5. \A n \in Names : n \in Registered(index) \/ Visible[n] = None
  BY <1>3 DEF Tenant
<1>6. DOMAIN Visible = Names /\ Visible = [n \in Names |-> Visible[n]]
  BY DEF Visible
<1> HIDE DEF Visible
<1>7. Visible \in [Names -> Registry!Tenants \cup {None}]
  BY <1>4, <1>5, <1>6
<1>8. Registry!Registered = Registered(index)
  <2>1. Registered(index) \subseteq Names
    BY DEF Registered
  <2> QED
    BY <1>1, <1>4, <1>5, <2>1 DEF Registry!Registered
<1> QED
  BY <1>7, <1>8

\* The same after a step.
LEMMA ViewNext ==
    IInv' => (Visible \in [Names -> Registry!Tenants \cup {None}])'
BY View, PTL

\* The steps the registry does not see.
LEMMA Stutter ==
    ASSUME IInv, IInv', UNCHANGED <<index, last>>,
           \A n \in Registered(index) : Content(n)' = Content(n)
    PROVE  UNCHANGED <<Visible, index.active, last>>
<1>1. \A n \in Names : Visible'[n] = Tenant(index, n, Content(n))
  BY ShowsNext DEF Shown, Tenant, Registered
<1>2. \A n \in Names : Visible[n] = Tenant(index, n, Content(n))
  BY Shows DEF Shown
<1>3. Visible' = Visible
  <2>1. Visible = [n \in Names |-> Visible[n]] /\ Visible' = [n \in Names |-> Visible'[n]]
    BY DEF Visible
  <2> HIDE DEF Visible
  <2> QED
    BY <1>1, <1>2, <2>1
<1> QED
  BY <1>3

\* A change cut short.
LEMMA CutStep ==
    ASSUME IInv, IInv', UNCHANGED <<index, last>>,
           \A n \in Registered(index) :
               Content(n)' = Content(n) \/ Overwritten(n, Content(n), Content(n)')
    PROVE  Registry!Cut
<1>1. /\ \A n \in Names : Visible[n] = Tenant(index, n, Content(n))
      /\ \A n \in Registered(index) : Content(n) \in Configs
      /\ Registry!Registered = Registered(index)
  BY Shows, View DEF Shown
<1>2. \A n \in Names : Visible'[n] = Tenant(index, n, Content(n)')
  BY ShowsNext DEF Shown, Tenant, Registered
<1>3. ASSUME NEW n \in Names PROVE Visible'[n] = Visible[n] \/ Registry!CutShort(n)
  <2>1. CASE n \notin Registered(index)
    BY <1>1, <1>2, <2>1 DEF Tenant
  <2>2. CASE n \in Registered(index) /\ Content(n)' = Content(n)
    BY <1>1, <1>2, <2>2 DEF Tenant
  <2>3. CASE n \in Registered(index) /\ Overwritten(n, Content(n), Content(n)')
    <3>1. /\ Visible[n] = [pin |-> index.pin[n], config |-> Content(n)]
          /\ Visible'[n] = [pin |-> index.pin[n], config |-> Content(n)']
      BY <1>1, <1>2, <2>3 DEF Tenant
    <3>2. Visible'[n] # None
      <4>1. (Visible \in [Names -> Registry!Tenants \cup {None}])'
        BY ViewNext
      <4>2. (\A m \in Registered(index) : Content(m) \in Configs)'
        BY ShowsNext DEF Shown
      <4>3. Content(n)' \in Configs /\ index.pin[n] \in Tsgs
        BY <2>3, <4>2, PinTyped DEF Registered, IInv, TypeOK
      <4> QED
        BY <3>1, <4>3, BoundsAssumption
    <3>3. /\ Visible[n].pin = index.pin[n] /\ Visible'[n].pin = index.pin[n]
          /\ Visible[n].config = Content(n) /\ Visible'[n].config = Content(n)'
      BY <3>1
    <3> QED
      BY <1>1, <2>3, <3>2, <3>3 DEF Registry!CutShort, Overwritten
  <2> QED
    BY <1>2, <2>1, <2>2, <2>3
<1> QED
  BY <1>3, ViewNext DEF Registry!Cut

\* The files that are seen while p has the lock.
LEMMA HolderContent ==
    ASSUME IInv, NEW p \in Procs, holder = p
    PROVE  \A n : Content(n) = IF n \in Touched(proc[p]) THEN proc[p].before.file[n] ELSE file[n]
<1>1. p # None
  BY BoundsAssumption
<1>2. Busy = Touched(proc[p])
  BY <1>1 DEF Busy, Touched
<1> QED
  BY <1>2 DEF Content

\* The files that are seen after its step.
LEMMA NextContent ==
    ASSUME IInv, NEW p \in Procs, NEW r, proc' = [proc EXCEPT ![p] = r]
    PROVE  /\ holder' = p =>
                \A n : Content(n)' = IF n \in Touched(r) THEN r.before.file[n] ELSE file'[n]
           /\ holder' = None => \A n : Content(n)' = file'[n]
<1>1. p # None
  BY BoundsAssumption
<1>2. proc'[p] = r
  BY DEF IInv, TypeOK
<1>3. holder' = p => Busy' = Touched(r)
  BY <1>1, <1>2 DEF Busy, Touched
<1>4. holder' = None => Busy' = {}
  BY DEF Busy
<1> QED
  BY <1>2, <1>3, <1>4 DEF Content

\* Before its commit point a transaction shows the files it found.
LEMMA FoundContent ==
    ASSUME IInv, NEW p \in Procs, proc[p].pc \in {"write", "commit"}
    PROVE  /\ holder = p /\ proc[p] \in ProcStates /\ proc[p].cmd \in Commands /\ HolderOK(proc[p])
           /\ \A n \in Registered(index) : Content(n) = proc[p].before.file[n]
<1>1. proc[p].pc \in Held
  BY DEF Held
<1>2. holder = p /\ proc[p] \in ProcStates /\ proc[p].cmd \in Commands /\ HolderOK(proc[p])
  BY <1>1, HolderFacts
<1>3. JournalOK(proc[p]) /\ proc[p].whole
  BY <1>2 DEF HolderOK, Changing
<1>4. \A n \in Registered(index) : n \notin proc[p].written => file[n] = proc[p].before.file[n]
  BY <1>3 DEF JournalOK
<1>5. Touched(proc[p]) = proc[p].written
  BY DEF Touched, Changing
<1> QED
  BY <1>2, <1>4, <1>5, HolderContent

\* Steps of a process that has not the lock, and those of the holder that
\* touch no file a tenant has.
LEMMA UnseenSteps ==
    ASSUME IInv, IInv', NEW p \in Procs,
           \/ \E cmd \in Commands : Start(p, cmd)
           \/ Acquire(p) \/ GiveUp(p) \/ Release(p) \/ Reader(p)
           \/ Crash(p) /\ proc[p].pc \notin Changing
    PROVE  UNCHANGED <<Visible, index.active, last>>
<1>1. UNCHANGED <<index, file, last>>
  BY DEF Start, Acquire, GiveUp, Release, Reader, ReadFile, ReadIndex, Crash, store
<1>2. \A q \in Procs : q # p => proc'[q] = proc[q]
  BY DEF Start, Acquire, GiveUp, Release, Reader, ReadFile, ReadIndex, Crash, Set, Ended, IInv, TypeOK
<1>3. p # None /\ holder \in Procs \cup {None}
  BY BoundsAssumption DEF IInv, TypeOK
<1>4. \A n : Content(n)' = Content(n)
  <2>1. CASE proc[p].pc \in Held
    <3>1. holder = p /\ proc[p].pc \notin Changing
      BY <2>1 DEF IInv, LockOK, Start, Acquire, GiveUp, Release, Reader, ReadFile, ReadIndex, Crash,
                  Held, Changing
    <3>2. holder' = None
      BY <2>1, <3>1 DEF Start, Acquire, GiveUp, Release, Reader, ReadFile, ReadIndex, Crash, Ended, Held
    <3>3. Busy = {} /\ Busy' = {}
      BY <3>1, <3>2 DEF Busy
    <3> QED
      BY <1>1, <3>3 DEF Content
  <2>2. CASE Acquire(p)
    <3>1. holder = None /\ holder' = p /\ proc'[p].pc = "locked"
      BY <2>2 DEF Acquire, Set, IInv, TypeOK, ProcStates
    <3>2. Busy = {} /\ Busy' = {}
      BY <3>1 DEF Busy, Changing
    <3> QED
      BY <1>1, <3>2 DEF Content
  <2>3. CASE proc[p].pc \notin Held /\ ~Acquire(p)
    <3>1. holder # p /\ holder' = holder
      BY <2>3 DEF IInv, LockOK, Start, GiveUp, Release, Reader, ReadFile, ReadIndex, Crash, Ended
    <3>2. holder # None => proc'[holder] = proc[holder]
      BY <1>2, <1>3, <3>1
    <3>3. Busy' = Busy
      BY <3>1, <3>2 DEF Busy
    <3>4. \A n \in Busy : holder # None
      BY DEF Busy
    <3> QED
      BY <1>1, <3>1, <3>2, <3>3, <3>4 DEF Content
  <2> QED
    BY <2>1, <2>2, <2>3
<1> QED
  BY <1>1, <1>4, Stutter

\* Steps of the holder before its commit point, signals, and the removal of a
\* file nobody has.
LEMMA HiddenSteps ==
    ASSUME IInv, IInv', NEW p \in Procs,
           \/ \E refuses \in BOOLEAN : Plan(p, refuses)
           \/ WriteFileFails(p) \/ WriteIndexFails(p) \/ Signal(p)
           \/ \E fails \in BOOLEAN : Unlink(p, fails)
    PROVE  UNCHANGED <<Visible, index.active, last>>
<1> DEFINE o == proc[p]
<1>1. o.pc \in Held
  BY DEF Plan, WriteFileFails, WriteIndexFails, Signal, Unlink, Held
<1>2. holder = p /\ o \in ProcStates /\ o.cmd \in Commands /\ HolderOK(o)
  BY <1>1, HolderFacts
<1>3. UNCHANGED <<index, last, holder>>
  BY DEF Plan, WriteFileFails, WriteIndexFails, Signal, Unlink, store
<1>4. CASE \E refuses \in BOOLEAN : Plan(p, refuses)
  <2>1. file' = file /\ o.pc = "locked" /\ o.written = {}
    BY <1>2, <1>4 DEF Plan, store, HolderOK
  <2>2. PICK r : proc' = [proc EXCEPT ![p] = r] /\ r.written = {}
    <3> DEFINE no == [o EXCEPT !.pc = "release", !.report = "unchanged"]
               yes == [o EXCEPT !.pc = IF NewFiles(o.cmd) = NoFiles THEN "commit" ELSE "write",
                                !.todo = NewFiles(o.cmd), !.next = NewIndex(o.cmd)]
    <3>1. Set(p, no) \/ Set(p, yes)
      BY <1>4 DEF Plan
    <3>2. no.written = {} /\ yes.written = {}
      BY <1>2, <2>1 DEF ProcStates
    <3> HIDE DEF no, yes
    <3> QED
      BY <3>1, <3>2 DEF Set
  <2>3. Touched(o) = {} /\ Touched(r) = {}
    BY <2>1, <2>2 DEF Touched, Changing
  <2>4. \A n : Content(n)' = Content(n)
    BY <1>2, <1>3, <2>1, <2>2, <2>3, HolderContent, NextContent
  <2> QED
    BY <1>3, <2>4, Stutter
<1>5. CASE WriteFileFails(p) \/ WriteIndexFails(p) \/ Signal(p)
  <2>1. file' = file
    BY <1>5 DEF WriteFileFails, WriteIndexFails, Signal, store
  <2>2. PICK r : /\ proc' = [proc EXCEPT ![p] = r] /\ r.before = o.before
                 /\ Touched(r) = Touched(o)
    <3>1. CASE WriteFileFails(p) \/ WriteIndexFails(p)
      <4> DEFINE to == IF o.written = {} THEN "release" ELSE "undo"
                 new == [o EXCEPT !.pc = to, !.report = "unchanged"]
      <4>1. Set(p, new) /\ o.pc \in {"write", "commit"}
        BY <3>1 DEF WriteFileFails, WriteIndexFails, Failed
      <4>2. new.pc = to /\ new.written = o.written /\ new.before = o.before
        BY <1>2 DEF ProcStates
      <4> HIDE DEF new
      <4>3. Touched(new) = Touched(o)
        BY <4>1, <4>2 DEF Touched, Changing
      <4> QED
        BY <4>1, <4>2, <4>3 DEF Set
    <3>2. CASE Signal(p)
      <4> DEFINE new == [o EXCEPT !.signal = TRUE]
      <4>1. Set(p, new)
        BY <3>2 DEF Signal
      <4>2. new.pc = o.pc /\ new.written = o.written /\ new.before = o.before
        BY <1>2 DEF ProcStates
      <4> HIDE DEF new
      <4>3. Touched(new) = Touched(o)
        BY <4>2 DEF Touched
      <4> QED
        BY <4>1, <4>2, <4>3 DEF Set
    <3> QED
      BY <1>5, <3>1, <3>2
  <2>3. \A n : Content(n)' = Content(n)
    <3>1. \A n : Content(n) = IF n \in Touched(o) THEN o.before.file[n] ELSE file[n]
      BY <1>2, HolderContent
    <3>2. \A n : Content(n)' = IF n \in Touched(r) THEN r.before.file[n] ELSE file'[n]
      BY <1>2, <1>3, <2>2, NextContent
    <3> QED
      BY <2>1, <2>2, <3>1, <3>2
  <2> QED
    BY <1>3, <2>3, Stutter
<1>6. ASSUME NEW fails \in BOOLEAN, Unlink(p, fails)
      PROVE  UNCHANGED <<Visible, index.active, last>>
  <2>1. o.pc = "unlink" /\ o.cmd.name \notin Registered(index)
    BY <1>2, <1>6 DEF Unlink, HolderOK
  <2>2. \A n \in Registered(index) : file'[n] = file[n]
    BY <1>6, <2>1 DEF Unlink, IInv, TypeOK, Files, Registered
  <2>3. PICK r : proc' = [proc EXCEPT ![p] = r] /\ r.pc = "release"
    <3> DEFINE left == [o EXCEPT !.pc = "release", !.report = "leftover"]
               gone == [o EXCEPT !.pc = "release"]
    <3>1. left.pc = "release" /\ gone.pc = "release" /\ (Set(p, left) \/ Set(p, gone))
      BY <1>2, <1>6 DEF Unlink, ProcStates
    <3> HIDE DEF left, gone
    <3> QED
      BY <3>1 DEF Set
  <2>4. Touched(o) = {} /\ Touched(r) = {}
    BY <2>1, <2>3 DEF Touched, Changing
  <2>5. \A n \in Registered(index) : Content(n)' = Content(n)
    BY <1>2, <1>3, <2>2, <2>3, <2>4, HolderContent, NextContent
  <2> QED
    BY <1>3, <2>5, Stutter
<1> QED
  BY <1>4, <1>5, <1>6

\* An undo hides what it restores, and shows what it cannot restore.
LEMMA UndoSeen ==
    ASSUME IInv, IInv', AInv, NEW p \in Procs, NEW n \in Names, NEW fails \in BOOLEAN,
           Undo(p, n, fails)
    PROVE  Registry!Cut
<1> DEFINE o == proc[p]
           left == o.written \ {n}
           whole == o.whole /\ ~fails
           to == IF left = {} THEN "release" ELSE "undo"
           says == IF whole \/ o.cmd.kind = "create" THEN "unchanged" ELSE "unfinished"
           new == [o EXCEPT !.written = left, !.whole = whole, !.pc = to, !.report = says]
<1>1. o.pc = "undo" /\ o.pc \in Held /\ o.pc \in Changing /\ n \in o.written
  BY DEF Undo, Held, Changing
<1>2. holder = p /\ o \in ProcStates /\ o.cmd \in Commands /\ HolderOK(o)
  BY <1>1, HolderFacts
<1>3. JournalOK(o) /\ Leftover(o)
  BY <1>1, <1>2 DEF HolderOK, AInv
<1>4. /\ UNCHANGED <<index, last, holder>> /\ proc' = [proc EXCEPT ![p] = new]
      /\ file' = IF fails THEN file ELSE [file EXCEPT ![n] = Previous(p, n)]
  BY DEF Undo, Set
<1>5. new.pc = to /\ new.written = left /\ new.before = o.before
  BY <1>2 DEF ProcStates
<1> HIDE DEF new
<1>6. Touched(new) = left /\ Touched(o) = o.written
  BY <1>1, <1>5 DEF Touched, Changing
<1>7. PICK r : r = new
  OBVIOUS
<1>8. /\ \A m : Content(m) = IF m \in o.written THEN o.before.file[m] ELSE file[m]
      /\ \A m : Content(m)' = IF m \in left THEN o.before.file[m] ELSE file'[m]
  <2>1. \A m : Content(m) = IF m \in o.written THEN o.before.file[m] ELSE file[m]
    BY <1>2, <1>6, HolderContent
  <2>2. \A m : Content(m)' = IF m \in Touched(r) THEN r.before.file[m] ELSE file'[m]
    BY <1>2, <1>4, <1>7, NextContent
  <2> QED
    BY <1>5, <1>6, <1>7, <2>1, <2>2
<1>9. ASSUME NEW m \in Registered(index)
      PROVE  Content(m)' = Content(m) \/ Overwritten(m, Content(m), Content(m)')
  <2>1. CASE m # n
    <3>1. m \in left <=> m \in o.written
      BY <2>1
    <3>2. file'[m] = file[m]
      BY <1>4, <2>1, <1>9 DEF IInv, TypeOK, Files, Registered
    <3> QED
      BY <1>8, <3>1, <3>2
  <2>2. CASE m = n
    <3>1. Content(m) = o.before.file[n] /\ Content(m)' = file'[n]
      BY <1>1, <1>8, <2>2
    <3>2. CASE fails
      BY <1>1, <1>3, <1>4, <1>9, <2>2, <3>1, <3>2 DEF Leftover
    <3>3. CASE ~fails
      <4>1. Previous(p, n) = o.before.file[n]
        BY <1>1, <1>3, <1>9, <2>2 DEF Previous, JournalOK
      <4>2. file'[n] = Previous(p, n)
        BY <1>4, <3>3 DEF IInv, TypeOK, Files
      <4> QED
        BY <3>1, <4>1, <4>2
    <3> QED
      BY <3>2, <3>3
  <2> QED
    BY <2>1, <2>2
<1> QED
  BY <1>4, <1>9, CutStep

\* A crash in the middle of a change shows what it has written.
LEMMA CrashSeen ==
    ASSUME IInv, IInv', AInv, NEW p \in Procs, Crash(p), proc[p].pc \in Changing
    PROVE  Registry!Cut
<1> DEFINE o == proc[p]
           new == [NewProc EXCEPT !.pc = "ended", !.report = "none"]
<1>1. o.pc \in Held
  BY DEF Held, Changing
<1>2. holder = p /\ o \in ProcStates
  BY <1>1, HolderFacts
<1>3. Leftover(o)
  BY DEF AInv
<1>4. /\ UNCHANGED <<index, file, last>> /\ holder' = None
      /\ proc' = [proc EXCEPT ![p] = new]
  BY <1>2 DEF Crash, Ended, Set
<1> HIDE DEF new
<1>5. PICK r : r = new
  OBVIOUS
<1>6. Touched(o) = o.written
  BY DEF Touched
<1>7. /\ \A m : Content(m) = IF m \in o.written THEN o.before.file[m] ELSE file[m]
      /\ \A m : Content(m)' = file[m]
  <2>1. \A m : Content(m) = IF m \in o.written THEN o.before.file[m] ELSE file[m]
    BY <1>2, <1>6, HolderContent
  <2>2. \A m : Content(m)' = file'[m]
    BY <1>4, <1>5, NextContent
  <2> QED
    BY <1>4, <2>1, <2>2
<1>8. \A m \in Registered(index) :
        Content(m)' = Content(m) \/ Overwritten(m, Content(m), Content(m)')
  BY <1>3, <1>7 DEF Leftover
<1> QED
  BY <1>4, <1>8, CutStep

\* Both modules count sets alike.
LEMMA SameCount == \A S : Registry!Cardinality(S) = Cardinality(S)
BY DEF Registry!Cardinality, Cardinality

\* What the registry sees of a commit: the tenants of the new index, with
\* the planned files.
Committing(r) ==
    LET old == r.before.file IN
    /\ Effects(r) /\ r.cmd \in Commands
    /\ \A n \in Names : Visible[n] = Tenant(index, n, old[n])
    /\ \A n \in Names :
         Visible'[n] = Tenant(Target(r), n, IF n \in Changes(r) THEN Planned(r, n) ELSE old[n])
    /\ \A n \in Registered(index) : old[n] \in Configs
    /\ Visible = [n \in Names |-> Visible[n]] /\ Visible' = [n \in Names |-> Visible'[n]]
    /\ Registry!Registered = Registered(index)
    /\ index \in Indexes /\ index' = Target(r) /\ last' = r.cmd

\* A create adds a tenant like no other, with its file.
LEMMA TakeCreate ==
    ASSUME NEW r, Committing(r), r.cmd.kind = "create" PROVE Registry!Create(r.cmd)
<1> DEFINE c == r.cmd
           n == c.name
<1>1. CreatePlan(r) /\ n \in Names /\ c.config \in Configs /\ c.config.tsg \in Tsgs
  BY CommandFields DEF Committing, Effects, Configs
<1>2. /\ n \notin Registered(index) /\ Alike(n) \cap Registered(index) = {}
      /\ Cardinality(Registered(index)) < MaxTenants
      /\ Changes(r) = {n} /\ Planned(r, n) = c.config
      /\ r.next = [index EXCEPT !.pin[n] = c.config.tsg]
  BY <1>1 DEF CreatePlan
<1>3. Registry!Alike(n) = Alike(n)
  BY DEF Registry!Alike, Alike
<1>4. None \notin Indexes /\ None \notin Tsgs
  BY BoundsAssumption, NamesAssumption
<1>5. /\ r.next \in Indexes /\ r.next.active = index.active
      /\ \A m \in Names : r.next.pin[m] = IF m = n THEN c.config.tsg ELSE index.pin[m]
  BY <1>1, <1>2 DEF Committing, Indexes
<1>6. Target(r) = r.next
  BY <1>4, <1>5 DEF Target
<1>7. \A m \in Names : m \in Registered(Target(r)) <=> (m = n \/ m \in Registered(index))
  BY <1>1, <1>4, <1>5, <1>6 DEF Registered
<1>8. ASSUME NEW m \in Names
      PROVE  Visible'[m] = IF m = n THEN [pin |-> c.config.tsg, config |-> c.config] ELSE Visible[m]
  <2>1. CASE m = n
    BY <1>1, <1>2, <1>5, <1>6, <1>7, <2>1 DEF Committing, Tenant
  <2>2. CASE m # n
    BY <1>2, <1>5, <1>6, <1>7, <2>2 DEF Committing, Tenant
  <2> QED
    BY <2>1, <2>2
<1>9. Visible' = [Visible EXCEPT ![n] = Registry!Tenant(c.config)]
  BY <1>1, <1>8 DEF Committing, Registry!Tenant
<1>10. Registry!Registered = Registered(index) /\ index' = r.next /\ last' = c
  BY <1>6 DEF Committing
<1>11. Registry!Did(c, [Visible EXCEPT ![c.name] = Registry!Tenant(c.config)], index.active)
  BY <1>5, <1>9, <1>10 DEF Registry!Did
<1>12. /\ c.name \notin Registry!Registered
       /\ Registry!Alike(c.name) \cap Registry!Registered = {}
       /\ Cardinality(Registry!Registered) < MaxTenants
  BY <1>2, <1>3, <1>10
<1> QED
  BY <1>11, <1>12, SameCount DEF Registry!Create

\* A value is set in or taken out of one file, the index being left alone.
LEMMA TakeVal ==
    ASSUME NEW r, Committing(r), r.cmd.kind \in {"setVal", "unset"}
    PROVE  /\ r.cmd.kind = "setVal" => Registry!SetVal(r.cmd)
           /\ r.cmd.kind = "unset" => Registry!Unset(r.cmd)
<1> DEFINE c == r.cmd
           n == c.name
           old == r.before.file[n]
           val == IF c.kind = "unset" THEN None ELSE c.val
<1>1. ValPlan(r) /\ n \in Names
  BY CommandFields DEF Committing, Effects
<1>2. /\ n \in Registered(index) /\ old.tsg = index.pin[n] /\ old \in Configs
      /\ Changes(r) = {n} /\ Target(r) = index
      /\ Planned(r, n) = [old EXCEPT !.val = val]
  BY <1>1 DEF ValPlan, Changes, Target, Planned, Committing
<1> HIDE DEF val
<1>3. Visible[n] = [pin |-> index.pin[n], config |-> old]
  BY <1>1, <1>2 DEF Committing, Tenant
<1>4. Visible'[n] = [pin |-> index.pin[n], config |-> [old EXCEPT !.val = val]]
  BY <1>1, <1>2 DEF Committing, Tenant
<1>5. \A m \in Names : m # n => Visible'[m] = Visible[m]
  BY <1>2 DEF Committing
<1>6. [Visible[n] EXCEPT !.config.val = val] = Visible'[n]
  BY <1>3, <1>4
<1>7. Visible' = [Visible EXCEPT ![n].config.val = val]
  <2>1. [Visible EXCEPT ![n].config.val = val] = [Visible EXCEPT ![n] = [Visible[n] EXCEPT !.config.val = val]]
    OBVIOUS
  <2> QED
    BY <1>1, <1>5, <1>6, <2>1 DEF Committing
<1>8. Registry!Sound(n) /\ index' = index /\ last' = c
  BY <1>2, <1>3 DEF Committing, Registry!Sound
<1> QED
  BY <1>7, <1>8 DEF Registry!SetVal, Registry!Unset, Registry!Did, val

\* A TSG id is changed in the index and in the file.
LEMMA TakeTsg ==
    ASSUME NEW r, Committing(r), r.cmd.kind = "setTsg" PROVE Registry!SetTsg(r.cmd)
<1> DEFINE c == r.cmd
           n == c.name
           old == r.before.file[n]
<1>1. TsgPlan(r) /\ n \in Names /\ c.tsg \in Tsgs
  BY CommandFields DEF Committing, Effects
<1>2. /\ n \in Registered(index) /\ old \in Configs
      /\ Changes(r) = {n} /\ Planned(r, n) = [old EXCEPT !.tsg = c.tsg]
      /\ r.next = [index EXCEPT !.pin[n] = c.tsg]
  BY <1>1 DEF TsgPlan, Committing
<1>4. None \notin Indexes /\ None \notin Tsgs
  BY BoundsAssumption, NamesAssumption
<1>5. /\ r.next \in Indexes /\ r.next.active = index.active
      /\ \A m \in Names : r.next.pin[m] = IF m = n THEN c.tsg ELSE index.pin[m]
  BY <1>1, <1>2 DEF Committing, Indexes
<1>6. Target(r) = r.next
  BY <1>4, <1>5 DEF Target
<1>7. \A m \in Names : m \in Registered(Target(r)) <=> m \in Registered(index)
  BY <1>1, <1>2, <1>4, <1>5, <1>6 DEF Registered
<1>8. /\ Visible[n] = [pin |-> index.pin[n], config |-> old]
      /\ Visible'[n] = [pin |-> c.tsg, config |-> [old EXCEPT !.tsg = c.tsg]]
  BY <1>1, <1>2, <1>5, <1>6, <1>7 DEF Committing, Tenant
<1>9. \A m \in Names : m # n => Visible'[m] = Visible[m]
  BY <1>2, <1>5, <1>6, <1>7 DEF Committing, Tenant
<1>10. [[Visible[n] EXCEPT !.pin = c.tsg] EXCEPT !.config.tsg = c.tsg] = Visible'[n]
  <2>1. [Visible[n] EXCEPT !.pin = c.tsg] = [pin |-> c.tsg, config |-> old]
    BY <1>8
  <2>2. [[pin |-> c.tsg, config |-> old] EXCEPT !.config.tsg = c.tsg]
          = [pin |-> c.tsg, config |-> [old EXCEPT !.tsg = c.tsg]]
    OBVIOUS
  <2> QED
    BY <1>8, <2>1, <2>2
<1>11. Visible' = [Visible EXCEPT ![n].pin = c.tsg, ![n].config.tsg = c.tsg]
  <2>1. [Visible EXCEPT ![n].pin = c.tsg, ![n].config.tsg = c.tsg]
          = [Visible EXCEPT ![n] = [[Visible[n] EXCEPT !.pin = c.tsg] EXCEPT !.config.tsg = c.tsg]]
    BY <1>1 DEF Committing
  <2> QED
    BY <1>1, <1>9, <1>10, <2>1 DEF Committing
<1> QED
  BY <1>2, <1>5, <1>6, <1>11 DEF Committing, Registry!SetTsg, Registry!Did

\* A tenant is selected that has its file.
LEMMA TakeSwitch ==
    ASSUME NEW r, Committing(r), r.cmd.kind = "switch" PROVE Registry!Switch(r.cmd)
<1> DEFINE n == r.cmd.name
           old == r.before.file[n]
<1>1. SwitchPlan(r) /\ n \in Names
  BY CommandFields DEF Committing, Effects
<1>2. /\ n \in Registered(index) /\ old \in Configs /\ old.tsg = index.pin[n]
      /\ Changes(r) = {} /\ r.next = [index EXCEPT !.active = n]
  BY <1>1 DEF SwitchPlan, Committing
<1>3. r.next \in Indexes /\ r.next.pin = index.pin /\ r.next.active = n /\ None \notin Indexes
  BY <1>1, <1>2, BoundsAssumption DEF Committing, Indexes
<1>4. Target(r) = r.next /\ Registered(Target(r)) = Registered(index)
  BY <1>3 DEF Target, Registered
<1>5. \A m \in Names : Visible'[m] = Visible[m]
  BY <1>2, <1>3, <1>4 DEF Committing, Tenant
<1>6. Visible' = Visible
  BY <1>5 DEF Committing
<1>7. Visible[n] = [pin |-> index.pin[n], config |-> old]
  BY <1>1, <1>2 DEF Committing, Tenant
<1>8. Registry!Sound(n)
  BY <1>2, <1>7 DEF Committing, Registry!Sound
<1> QED
  BY <1>3, <1>4, <1>6, <1>8 DEF Committing, Registry!Switch, Registry!Did

\* A tenant goes, and the selection with it.
LEMMA TakeDelete ==
    ASSUME NEW r, Committing(r), r.cmd.kind = "delete" PROVE Registry!Delete(r.cmd)
<1> DEFINE n == r.cmd.name
<1>1. DeletePlan(r) /\ n \in Names
  BY CommandFields DEF Committing, Effects
<1>2. /\ n \in Registered(index) /\ Changes(r) = {}
      /\ r.next = [index EXCEPT !.pin[n] = None, !.active = IF @ = n THEN None ELSE @]
  BY <1>1 DEF DeletePlan
<1>3. /\ r.next \in Indexes /\ None \notin Indexes
      /\ r.next.active = IF index.active = n THEN None ELSE index.active
      /\ \A m \in Names : r.next.pin[m] = IF m = n THEN None ELSE index.pin[m]
  <2>1. /\ index \in Indexes /\ None \notin Indexes
        /\ index.pin \in [Names -> Tsgs \cup {None}] /\ index.active \in Names \cup {None}
    BY BoundsAssumption DEF Committing, Indexes
  <2> QED
    BY <1>1, <1>2, <2>1, ZenonT(60) DEF Indexes
<1>4. Target(r) = r.next
  BY <1>3 DEF Target
<1>5. \A m \in Names : m \in Registered(Target(r)) <=> (m # n /\ m \in Registered(index))
  BY <1>3, <1>4 DEF Registered
<1>6. \A m \in Names : Visible'[m] = IF m = n THEN None ELSE Visible[m]
  BY <1>2, <1>3, <1>4, <1>5 DEF Committing, Tenant
<1>7. Visible' = [Visible EXCEPT ![n] = None]
  BY <1>1, <1>6 DEF Committing
<1> QED
  BY <1>2, <1>3, <1>4, <1>7 DEF Committing, Registry!Delete, Registry!Did

\* An import adds or replaces the tenants whose files it wrote.
LEMMA TakeImport ==
    ASSUME NEW r, Committing(r), r.cmd.kind = "import" PROVE Registry!Import(r.cmd)
<1> DEFINE c == r.cmd
           s == c.source
           W == Changes(r)
<1>1. ImportPlan(r) /\ s \in Sources /\ c.select \in Names \cup {None}
  BY CommandFields DEF Committing, Effects
<1>2. DOMAIN s \subseteq Names /\ \A n \in DOMAIN s : s[n] \in Configs /\ s[n].tsg \in Tsgs
  BY <1>1, NamesAssumption DEF Configs
<1>3. /\ W # {} /\ W \subseteq DOMAIN s
      /\ \A n \in W : Alike(n) \cap (W \cup Registered(index)) = {}
      /\ c.replace \/ W \cap Registered(index) = {}
      /\ Cardinality(Registered(index) \cup W) <= MaxTenants \/ W \subseteq Registered(index)
      /\ \A n \in W : Planned(r, n) = s[n]
      /\ r.next = [pin |-> [n \in Names |-> IF n \in W THEN s[n].tsg ELSE index.pin[n]],
                   active |-> IF index.active = None /\ c.select \in W
                              THEN c.select ELSE index.active]
  BY <1>1 DEF ImportPlan
<1>4. \A n \in W : Registry!Alike(n) = Alike(n)
  BY DEF Registry!Alike, Alike
<1> HIDE DEF W
<1>5. /\ r.next.active = IF index.active = None /\ c.select \in W THEN c.select ELSE index.active
      /\ \A m \in Names : r.next.pin[m] = IF m \in W THEN s[m].tsg ELSE index.pin[m]
      /\ r.next \in Indexes /\ None \notin Indexes /\ None \notin Tsgs
  BY <1>1, <1>2, <1>3, BoundsAssumption, NamesAssumption DEF Committing, Indexes
<1>6. Target(r) = r.next
  BY <1>5 DEF Target
<1>7. \A m \in Names : m \in Registered(Target(r)) <=> (m \in W \/ m \in Registered(index))
  BY <1>2, <1>3, <1>5, <1>6 DEF Registered
<1>8. ASSUME NEW m \in Names
      PROVE  Visible'[m] = IF m \in W THEN [pin |-> s[m].tsg, config |-> s[m]] ELSE Visible[m]
  <2>1. CASE m \in W
    <3>1. Planned(r, m) = s[m] /\ m \in Registered(Target(r)) /\ Target(r).pin[m] = s[m].tsg
      BY <1>3, <1>5, <1>6, <1>7, <2>1
    <3> QED
      BY <2>1, <3>1 DEF Committing, Tenant, W
  <2>2. CASE m \notin W
    BY <1>5, <1>6, <1>7, <2>2 DEF Committing, Tenant, W
  <2> QED
    BY <2>1, <2>2
<1>9. Visible' = [m \in Names |-> IF m \in W THEN Registry!Tenant(s[m]) ELSE Visible[m]]
  BY <1>8 DEF Committing, Registry!Tenant
<1>10. Registry!Registered = Registered(index) /\ index' = r.next /\ last' = c
  BY <1>6 DEF Committing
<1>11. Registry!Did(c, [m \in Names |-> IF m \in W THEN Registry!Tenant(s[m]) ELSE Visible[m]],
           IF index.active = None /\ c.select \in W THEN c.select ELSE index.active)
  BY <1>5, <1>9, <1>10 DEF Registry!Did
<1>12. /\ W \in SUBSET DOMAIN s /\ W # {}
       /\ \A m \in W : Registry!Alike(m) \cap (W \cup Registry!Registered) = {}
       /\ c.replace \/ W \cap Registry!Registered = {}
       /\ Cardinality(Registry!Registered \cup W) <= MaxTenants \/ W \subseteq Registry!Registered
  BY <1>3, <1>4, <1>10
<1> QED
  BY <1>11, <1>12, SameCount DEF Registry!Import

\* A commit is the command, taken at once.
LEMMA Takes == ASSUME NEW r, Committing(r) PROVE Registry!Next
<1>1. Registry!Take(r.cmd)
  BY TakeCreate, TakeVal, TakeTsg, TakeSwitch, TakeDelete, TakeImport, CommandFields
     DEF Committing, Registry!Take
<1>2. r.cmd \in Registry!Commands
  BY DEF Committing, Registry!Commands, Commands, Registry!Named, Named, Registry!Configs, Configs
<1> QED
  BY <1>1, <1>2 DEF Registry!Next

\* A transaction passes its commit point: it shows what it planned, in the
\* place of what it found.
LEMMA CommitStep ==
    ASSUME IInv, IInv', AInv, NEW p \in Procs, proc[p].pc \in {"write", "commit"},
           index' = Target(proc[p]), last' = proc[p].cmd,
           \A n \in Registered(index)' :
               Content(n)' = IF n \in Changes(proc[p]) THEN Planned(proc[p], n)
                             ELSE proc[p].before.file[n]
    PROVE  Registry!Next
<1> DEFINE o == proc[p]
           old == o.before.file
<1>1. /\ o.cmd \in Commands /\ Effects(o)
      /\ \A n \in Registered(index) : Content(n) = old[n]
  BY FoundContent DEF AInv
<1>2. /\ \A n \in Names : Visible[n] = Tenant(index, n, old[n])
      /\ \A n \in Registered(index) : old[n] \in Configs
      /\ Registry!Registered = Registered(index)
  BY <1>1, Shows, View DEF Shown, Tenant
<1>3. \A n \in Names :
        Visible'[n] = Tenant(Target(o), n, IF n \in Changes(o) THEN Planned(o, n) ELSE old[n])
  <2>1. \A n \in Names :
          Visible'[n] = IF n \in Registered(index)'
                        THEN [pin |-> index'.pin[n], config |-> Content(n)'] ELSE None
    BY ShowsNext DEF Shown, Tenant
  <2>2. Registered(index)' = Registered(Target(o))
    BY DEF Registered
  <2> HIDE DEF o
  <2> QED
    BY <2>1, <2>2 DEF Tenant, o
<1>4. Visible = [n \in Names |-> Visible[n]] /\ Visible' = [n \in Names |-> Visible'[n]]
  BY DEF Visible
<1>5. index \in Indexes
  BY DEF IInv, TypeOK
<1>6. Committing(o)
  BY <1>1, <1>2, <1>3, <1>4, <1>5 DEF Committing
<1> QED
  BY <1>6, Takes

\* The index is replaced.
LEMMA WriteIndexSeen ==
    ASSUME IInv, IInv', AInv, NEW p \in Procs, WriteIndex(p) PROVE Registry!Next
<1> DEFINE o == proc[p]
           to == IF o.cmd.kind = "delete" THEN "unlink" ELSE "release"
           new == [o EXCEPT !.pc = to, !.report = "saved"]
<1>1. /\ o.pc = "commit" /\ o.pc \in {"write", "commit"}
      /\ index' = o.next /\ last' = o.cmd /\ UNCHANGED <<file, holder>>
      /\ proc' = [proc EXCEPT ![p] = new]
  BY DEF WriteIndex, Set
<1>2. holder = p /\ o \in ProcStates /\ HolderOK(o)
  BY <1>1, FoundContent
<1>3. PlanOK(o) /\ JournalOK(o) /\ o.whole
  BY <1>1, <1>2 DEF HolderOK, Changing
<1>4. Left(o) = {} /\ Target(o) = o.next /\ Agrees(o)
  BY <1>1, <1>3 DEF PlanOK, Target
<1>5. new.pc = to /\ to \notin Changing
  BY <1>2 DEF ProcStates, Changing
<1> HIDE DEF new
<1>6. \A n : Content(n)' = file[n]
  <2>1. PICK r : r = new
    OBVIOUS
  <2>2. Touched(r) = {}
    BY <1>5, <2>1 DEF Touched
  <2> QED
    BY <1>1, <1>2, <2>1, <2>2, NextContent
<1>7. ASSUME NEW n \in Registered(index)'
      PROVE  Content(n)' = IF n \in Changes(o) THEN Planned(o, n) ELSE o.before.file[n]
  <2>1. CASE n \in Changes(o)
    BY <1>4, <1>6, <2>1 DEF Planned
  <2>2. CASE n \notin Changes(o)
    <3>1. n \in Registered(Target(o)) /\ n \notin o.written
      BY <1>1, <1>4, <2>2 DEF Registered, Changes
    <3>2. n \in Registered(index)
      BY <1>4, <3>1 DEF Agrees
    <3> QED
      BY <1>3, <1>6, <2>2, <3>1, <3>2 DEF JournalOK
  <2> QED
    BY <2>1, <2>2
<1> QED
  BY <1>1, <1>4, <1>7, CommitStep

\* A tenant file is replaced: the commit point of a command that writes just
\* this one, and not seen of any other.
LEMMA WriteFileSeen ==
    ASSUME IInv, IInv', AInv, NEW p \in Procs, NEW n \in Names, WriteFile(p, n)
    PROVE  Registry!Next \/ UNCHANGED <<Visible, index.active, last>>
<1> DEFINE o == proc[p]
<1>1. /\ o.pc = "write" /\ holder = p /\ o \in ProcStates /\ HolderOK(o)
      /\ n \in Left(o) /\ file' = [file EXCEPT ![n] = o.todo[n]]
      /\ UNCHANGED <<index, holder>>
  BY WriteFileFacts
<1>2. PICK r \in ProcStates : WritesFile(p, n, r)
  BY WriteFileFacts
<1>3. /\ JournalOK(o) /\ o.whole
      /\ \A m \in Registered(index) : Content(m) = o.before.file[m]
  BY <1>1, FoundContent DEF HolderOK, Changing
<1>4. /\ proc' = [proc EXCEPT ![p] = r]
      /\ r.before = o.before /\ r.written = o.written \cup {n} /\ Left(r) = Left(o) \ {n}
  BY <1>2 DEF WritesFile
<1>5. \A m : Content(m)' = IF m \in Touched(r) THEN o.before.file[m] ELSE file'[m]
  BY <1>1, <1>4, NextContent
<1>6. \A m \in Names : file'[m] = IF m = n THEN o.todo[n] ELSE file[m]
  BY <1>1 DEF IInv, TypeOK, Files
<1>7. \A m \in Registered(index) : m \in Names /\ (m \notin o.written => file[m] = o.before.file[m])
  BY <1>3 DEF JournalOK, Registered
<1>8. CASE r.pc \in Changing
  <2>1. last' = last
    BY <1>2, <1>8 DEF WritesFile, Changing
  <2>2. Touched(r) = o.written \cup {n}
    BY <1>4, <1>8 DEF Touched
  <2>3. \A m \in Registered(index) : Content(m)' = Content(m)
    BY <1>3, <1>5, <1>6, <1>7, <2>2
  <2> QED
    BY <1>1, <2>1, <2>3, Stutter
<1>9. CASE r.pc \notin Changing
  <2>1. Left(o) = {n} /\ o.next = None /\ last' = o.cmd
    BY <1>1, <1>2, <1>9 DEF WritesFile, Changing
  <2>2. Touched(r) = {} /\ Target(o) = index
    BY <1>9, <2>1 DEF Touched, Target
  <2>3. ASSUME NEW m \in Registered(index)'
        PROVE  Content(m)' = IF m \in Changes(o) THEN Planned(o, m) ELSE o.before.file[m]
    <3>1. m \in Registered(index)
      BY <1>1 DEF Registered
    <3> HIDE DEF o
    <3>2. Content(m)' = IF m = n THEN o.todo[n] ELSE file[m]
      BY <1>5, <1>6, <1>7, <2>2, <3>1
    <3> QED
      BY <1>7, <2>1, <3>1, <3>2 DEF Changes, Planned
  <2>4. index' = Target(o) /\ o.pc \in {"write", "commit"}
    BY <1>1, <2>2
  <2> QED
    BY <2>1, <2>3, <2>4, CommitStep
<1> QED
  BY <1>8, <1>9

\* Every step of the store is one of the registry, or none.
LEMMA StoreStep ==
    IInv /\ IInv' /\ AInv /\ [Next]_vars => [Registry!Next]_<<Visible, index.active, last>>
<1> SUFFICES ASSUME IInv, IInv', AInv, [Next]_vars
             PROVE  Registry!Next \/ UNCHANGED <<Visible, index.active, last>>
  OBVIOUS
<1>1. CASE UNCHANGED vars
  BY <1>1 DEF vars, Visible, Committed, Writing
<1>2. ASSUME NEW p \in Procs,
             \/ \E cmd \in Commands : Start(p, cmd)
             \/ Transaction(p) \/ Reader(p) \/ Signal(p) \/ Crash(p)
      PROVE  Registry!Next \/ UNCHANGED <<Visible, index.active, last>>
  <2>1. CASE \/ \E cmd \in Commands : Start(p, cmd)
             \/ Acquire(p) \/ GiveUp(p) \/ Release(p) \/ Reader(p)
             \/ Crash(p) /\ proc[p].pc \notin Changing
    BY <2>1, UnseenSteps
  <2>2. CASE \/ \E refuses \in BOOLEAN : Plan(p, refuses)
             \/ WriteFileFails(p) \/ WriteIndexFails(p) \/ Signal(p)
             \/ \E fails \in BOOLEAN : Unlink(p, fails)
    BY <2>2, HiddenSteps
  <2>3. CASE \E n \in Names : WriteFile(p, n)
    BY <2>3, WriteFileSeen
  <2>4. CASE WriteIndex(p)
    BY <2>4, WriteIndexSeen
  <2>5. CASE \E n \in Names, fails \in BOOLEAN : Undo(p, n, fails)
    BY <2>5, UndoSeen DEF Registry!Next
  <2>6. CASE Crash(p) /\ proc[p].pc \in Changing
    BY <2>6, CrashSeen DEF Registry!Next
  <2> QED
    BY <1>2, <2>1, <2>2, <2>3, <2>4, <2>5, <2>6 DEF Transaction
<1> QED
  BY <1>1, <1>2 DEF Next

\* The store starts as a registry may.
LEMMA InitRegistry == Init => Registry!Init
<1> SUFFICES ASSUME Init PROVE Registry!Init
  OBVIOUS
<1>1. IInv
  BY InitIInv
<1>2. Visible \in [Names -> Registry!Tenants \cup {None}]
  BY <1>1, View
<1>3. index.active \in Names \cup {None} /\ last = None
  BY <1>1 DEF Init, IInv, TypeOK, Indexes
<1> QED
  BY <1>2, <1>3 DEF Registry!Init

\* TenantStore implements TenantRegistry (ActsAtOnce): every write command
\* takes effect at one instant, its commit point, on the tenants it then
\* finds, or not at all.
THEOREM Implements == Spec => ActsAtOnce
<1>1. IInv /\ IInv' /\ AInv /\ [Next]_vars => [Registry!Next]_<<Visible, index.active, last>>
  BY StoreStep
<1> QED
  BY <1>1, InitRegistry, Inductive, AInductive, PTL DEF Spec, ActsAtOnce, Registry!Spec

=============================================================================

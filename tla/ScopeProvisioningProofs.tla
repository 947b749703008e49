---------------------- MODULE ScopeProvisioningProofs ----------------------
(***************************************************************************)
(* Proofs about ScopeProvisioning, for any scopes, workspaces, processes   *)
(* and commands: a `workspaces create` never takes back a scope after its  *)
(* workspace was, or may still be, created (ScopeKept), and what a command *)
(* returns is true of its own writes (ResultTrue).                         *)
(*                                                                         *)
(* Both are about writes the service carries out after the command has     *)
(* ended.  The invariant keeps a ledger for each process: until a command  *)
(* exits no write of it is in doubt, and what it did so far is determined  *)
(* by where it is (SoFar); a write on the wire is one its command has in   *)
(* doubt (WireOK).  A late write therefore only moves an effect from       *)
(* `doubt` to `did`, and no property tells the two apart after the exit.   *)
(***************************************************************************)
EXTENDS ScopeProvisioning, TLAPS

\* A write is about things there are.
WriteOK(m) ==
    /\ m.by \in Procs /\ m.effect \in Effects
    /\ m.effect \in {"scope", "unscope", "bind"} => m.scope \in Scopes
    /\ m.effect = "bind" => m.bindings \subseteq Slugs
    /\ m.effect \in {"workspace", "update", "archive"} => m.ws \in Slugs

WireOK == \A m \in wire : WriteOK(m) /\ m.effect \in doubt[m.by]

\* Made and Before, of a state of a process.
MadeBy(r) == IF r.cmd.kind = "create" /\ ~r.cmd.existing THEN {"scope"} ELSE {}
DoneBy(r) == IF r.cmd.kind = "create" THEN MadeBy(r) \cup {"workspace"} ELSE {}

\* The commands that come to a point.
KindOK(r) ==
    /\ r.pc \in {"scope", "rollback"} => MadeBy(r) = {"scope"}
    /\ r.pc = "workspace" => r.cmd.kind = "create"
    /\ r.pc \in {"bindRead", "bindPut"} => r.cmd.kind \in {"create", "scopeBind"}
    /\ r.pc = "readBack" => r.cmd.kind \in {"create", "update"}
    /\ r.pc = "verify" => r.cmd.kind = "scopeBind"
    /\ r.pc = "show" => r.cmd.kind = "scopeDelete"
    /\ r.pc = "ask" => r.cmd.kind \in {"scopeDelete", "update", "archive"}
    /\ r.pc = "resolve" => r.cmd.kind \in {"scopeBind", "update", "archive"}
    /\ r.pc = "scopeCreate" => r.cmd.kind = "scopeCreate"
    /\ r.pc = "unscope" => r.cmd.kind = "scopeDelete"
    /\ r.pc \in {"update", "archive"} => r.cmd.kind = r.pc

\* What a command has done when it is at a point before its exit.
SoFar(r) ==
    CASE r.pc \in {"workspace", "rollback"} -> MadeBy(r)
      [] r.pc \in {"bindRead", "bindPut"} -> DoneBy(r)
      [] r.pc = "readBack" ->
            IF r.cmd.kind = "create" THEN DoneBy(r) \cup {"bind"} ELSE {"update"}
      [] r.pc = "verify" -> {"bind"}
      [] OTHER -> {}

Over == {"exit", "ended"}

\* The result of a command that did d and has q in doubt; the exception is
\* RollbackInDoubt.
TrueOf(r, d, q) ==
    \/ True(r.result.says, d, q)
    \/ /\ r.cmd.kind = "create"
       /\ r.result.says = Claim({"scope"}, {})
       /\ "unscope" \in d \cup q

Kept(r, d, q) ==
    r.cmd.kind = "create" /\ "unscope" \in d \cup q => "workspace" \notin d \cup q

Ledger(r, d, q) ==
    /\ d \subseteq Effects /\ q \subseteq Effects
    /\ r.pc \notin Over => q = {} /\ d = SoFar(r) /\ r.result = NoResult
    /\ r.pc \in Over => TrueOf(r, d, q) /\ Kept(r, d, q)

ProcOK(r, d, q) == r \in ProcStates /\ KindOK(r) /\ Ledger(r, d, q)

ProcsOK == \A p \in Procs : ProcOK(proc[p], did[p], doubt[p])

IInv == TypeOK /\ WireOK /\ ProcsOK

-----------------------------------------------------------------------------
(* Claims *)

\* A message is a claim about every effect.
LEMMA ClaimFacts ==
    ASSUME NEW yes, NEW maybe
    PROVE  /\ Claim(yes, maybe) \in Claims
           /\ \A e \in Effects :
                /\ e \in maybe => Claim(yes, maybe)[e] = "maybe"
                /\ e \notin maybe /\ e \in yes => Claim(yes, maybe)[e] = "yes"
                /\ e \notin maybe /\ e \notin yes => Claim(yes, maybe)[e] = "no"
  BY DEF Claim, Claims

\* It is true when the effects it claims were had, and those it does not
\* mention neither were had nor are in doubt.
LEMMA ClaimTrue ==
    ASSUME NEW yes, NEW maybe, NEW d, NEW q,
           yes \subseteq d \cup maybe, d \cup q \subseteq yes \cup maybe
    PROVE  True(Claim(yes, maybe), d, q)
  BY ClaimFacts DEF True

\* What is said of a failed write is true of the effects after it.
LEMMA ToldTrue ==
    ASSUME NEW a \in Answers, a # "ok", NEW done, NEW e, NEW d, NEW q,
           d = done \cup (IF a \in Carried THEN {e} ELSE {}),
           q = IF a \in InDoubt THEN {e} ELSE {}
    PROVE  Told(a, done, e) \in Claims /\ True(Told(a, done, e), d, q)
<1>1. CASE a \in InDoubt
  <2>1. Told(a, done, e) = Claim(done, {e})
    BY <1>1 DEF Told
  <2>2. d = done /\ q = {e}
    BY <1>1 DEF InDoubt, Carried
  <2> QED BY <2>1, <2>2, ClaimTrue, ClaimFacts
<1>2. CASE a = "unreadable"
  <2>1. Told(a, done, e) = Claim(done \cup {e}, {}) /\ d = done \cup {e} /\ q = {}
    BY <1>2 DEF Told, InDoubt, Carried
  <2> QED BY <2>1, ClaimTrue, ClaimFacts
<1>3. CASE a \notin InDoubt /\ a # "unreadable"
  <2>1. Told(a, done, e) = Claim(done, {}) /\ d = done /\ q = {}
    BY <1>3 DEF Told, Carried
  <2> QED BY <2>1, ClaimTrue, ClaimFacts
<1> QED BY <1>1, <1>2, <1>3

\* A result has a type.
LEMMA ResultType ==
    ASSUME NEW says \in Claims
    PROVE  /\ Ok(says) \in Results /\ Ok(says).says = says
           /\ \A a \in Answers : Failed(a, says) \in Results /\ Failed(a, says).says = says
           /\ NoResult \in Results
  BY ClaimFacts DEF Ok, Failed, Results, NoResult, NothingChanged

-----------------------------------------------------------------------------
(* The states of a process *)

\* The state at another point.
LEMMA AtIs ==
    ASSUME TypeOK, NEW p \in Procs, NEW pc \in PCs
    PROVE  /\ At(p, pc) \in ProcStates /\ At(p, pc).pc = pc /\ At(p, pc).cmd = proc[p].cmd
           /\ At(p, pc).result = proc[p].result /\ At(p, pc).seen = proc[p].seen
<1>1. proc[p] \in ProcStates
  BY DEF TypeOK
<1> QED BY <1>1 DEF At, ProcStates

\* The state of a command that exits.
LEMMA ExitIs ==
    ASSUME TypeOK, NEW p \in Procs, NEW result \in Results
    PROVE  /\ Exit(p, result) \in ProcStates /\ Exit(p, result).pc = "exit"
           /\ Exit(p, result).cmd = proc[p].cmd /\ Exit(p, result).result = result
<1>1. proc[p] \in ProcStates
  BY DEF TypeOK
<1> QED BY <1>1 DEF Exit, At, ProcStates, PCs

\* A command goes on to a point its kind comes to, with what it did so far.
LEMMA GoOn ==
    ASSUME TypeOK, NEW p \in Procs, NEW r \in ProcStates, r.cmd = proc[p].cmd,
           KindOK(r), r.pc \notin Over, r.result = NoResult,
           NEW d, d \subseteq Effects, d = SoFar(r)
    PROVE  ProcOK(r, d, {})
  BY DEF ProcOK, Ledger

\* A command exits with a true result.
LEMMA ExitOK ==
    ASSUME TypeOK, NEW p \in Procs, NEW result \in Results,
           NEW d, NEW q, d \subseteq Effects, q \subseteq Effects,
           \/ True(result.says, d, q)
           \/ /\ proc[p].cmd.kind = "create" /\ result.says = Claim({"scope"}, {})
              /\ "unscope" \in d \cup q,
           proc[p].cmd.kind = "create" /\ "unscope" \in d \cup q => "workspace" \notin d \cup q
    PROVE  ProcOK(Exit(p, result), d, q)
<1>1. /\ Exit(p, result) \in ProcStates /\ Exit(p, result).pc = "exit"
      /\ Exit(p, result).cmd = proc[p].cmd /\ Exit(p, result).result = result
  BY ExitIs
<1>2. KindOK(Exit(p, result))
  BY <1>1 DEF KindOK
<1>3. TrueOf(Exit(p, result), d, q) /\ Kept(Exit(p, result), d, q)
  BY <1>1 DEF TrueOf, Kept
<1> QED BY <1>1, <1>2, <1>3 DEF ProcOK, Ledger, Over

\* A command that exits after a failure before its first write.
LEMMA NothingDone ==
    ASSUME TypeOK, NEW p \in Procs, NEW a \in Answers
    PROVE  ProcOK(Exit(p, Failed(a, NothingChanged)), {}, {})
<1>1. NothingChanged \in Claims /\ True(NothingChanged, {}, {})
  BY ClaimFacts, ClaimTrue DEF NothingChanged
<1>2. Failed(a, NothingChanged) \in Results /\ Failed(a, NothingChanged).says = NothingChanged
  BY <1>1, ResultType
<1> QED BY <1>1, <1>2, ExitOK

-----------------------------------------------------------------------------
(* The service and the steps *)

\* A write leaves a service.
LEMMA AfterType ==
    ASSUME NEW s \in ServiceStates, NEW m, WriteOK(m), Takes(s, m)
    PROVE  After(s, m) \in ServiceStates
<1>1. /\ s \in [scopes : SUBSET Scopes, bound : [Scopes -> SUBSET Slugs],
                ws : [Slugs -> {"absent", "active", "archived"}]]
      /\ \A sc \in Scopes \ s.scopes : s.bound[sc] = {}
  BY DEF ServiceStates
<1>2. CASE m.effect = "scope"
  <2> DEFINE t == After(s, m)
  <2>1. t = [s EXCEPT !.scopes = @ \cup {m.scope}, !.bound[m.scope] = {}]
    BY <1>2 DEF After
  <2>2. /\ t.scopes = s.scopes \cup {m.scope} /\ t.ws = s.ws
        /\ t.bound = [s.bound EXCEPT ![m.scope] = {}] /\ m.scope \in Scopes
    BY <1>1, <1>2, <2>1 DEF WriteOK
  <2>3. t \in [scopes : SUBSET Scopes, bound : [Scopes -> SUBSET Slugs],
               ws : [Slugs -> {"absent", "active", "archived"}]]
    BY <1>1, <2>1, <2>2, ZenonT(60)
  <2>4. \A sc \in Scopes \ t.scopes : t.bound[sc] = {}
    BY <1>1, <2>2
  <2> HIDE DEF t
  <2> QED BY <2>3, <2>4 DEF ServiceStates, t
<1>3. CASE m.effect = "unscope"
  <2> DEFINE t == After(s, m)
  <2>1. t = [s EXCEPT !.scopes = @ \ {m.scope}, !.bound[m.scope] = {}]
    BY <1>3 DEF After
  <2>2. /\ t.scopes = s.scopes \ {m.scope} /\ t.ws = s.ws
        /\ t.bound = [s.bound EXCEPT ![m.scope] = {}] /\ m.scope \in Scopes
    BY <1>1, <1>3, <2>1 DEF WriteOK
  <2>3. t \in [scopes : SUBSET Scopes, bound : [Scopes -> SUBSET Slugs],
               ws : [Slugs -> {"absent", "active", "archived"}]]
    BY <1>1, <2>1, <2>2, ZenonT(60)
  <2>4. \A sc \in Scopes \ t.scopes : t.bound[sc] = {}
    BY <1>1, <2>2
  <2> HIDE DEF t
  <2> QED BY <2>3, <2>4 DEF ServiceStates, t
<1>4. CASE m.effect = "bind"
  <2>1. After(s, m) = [s EXCEPT !.bound[m.scope] = m.bindings] /\ m.scope \in s.scopes
    BY <1>4 DEF After, Takes
  <2> QED BY <1>1, <1>4, <2>1 DEF ServiceStates, WriteOK
<1>5. CASE m.effect \in {"workspace", "update", "archive"}
  <2>1. /\ m.effect = "workspace" => After(s, m) = [s EXCEPT !.ws[m.ws] = "active"]
        /\ m.effect = "update" => After(s, m) = s
        /\ m.effect = "archive" => After(s, m) = [s EXCEPT !.ws[m.ws] = "archived"]
    BY DEF After
  <2> QED BY <1>1, <1>5, <2>1 DEF ServiceStates, WriteOK
<1> QED BY <1>2, <1>3, <1>4, <1>5 DEF WriteOK, Effects

\* A step of one process that writes nothing.
LEMMA MoveStep ==
    ASSUME IInv, NEW p \in Procs, NEW r, Move(p, r), ProcOK(r, did[p], doubt[p])
    PROVE  IInv'
<1>1. proc' = [proc EXCEPT ![p] = r] /\ UNCHANGED <<svc, wire, did, doubt, signal>>
  BY DEF Move, Set, world
<1>2. r \in ProcStates
  BY DEF ProcOK
<1>3. TypeOK'
  BY <1>1, <1>2 DEF IInv, TypeOK
<1>4. WireOK'
  BY <1>1 DEF IInv, WireOK
<1>5. ProcsOK'
  BY <1>1 DEF IInv, TypeOK, ProcsOK
<1> QED BY <1>3, <1>4, <1>5 DEF IInv

\* What a process had and has in doubt after the answer a to a write of
\* effect e.
Had(p, a, e) == IF a \in Carried THEN did[p] \cup {e} ELSE did[p]
Open(p, a, e) == IF a \in InDoubt THEN doubt[p] \cup {e} ELSE doubt[p]

\* A step of one process that sends a write.
LEMMA SendStep ==
    ASSUME IInv, NEW p \in Procs, NEW m, WriteOK(m), m.by = p,
           NEW again, NEW then, Send(p, m, again, then),
           \A a \in Answers : ProcOK(then[a], Had(p, a, m.effect), Open(p, a, m.effect)),
           ProcOK([At(p, again) EXCEPT !.replayed = TRUE], did[p], doubt[p])
    PROVE  IInv'
<1>1. PICK a \in Possible(p \in signal) :
        /\ a \in Carried => Takes(svc, m)
        /\ svc' = IF a \in Carried THEN After(svc, m) ELSE svc
        /\ did' = IF a \in Carried THEN [did EXCEPT ![p] = @ \cup {m.effect}] ELSE did
        /\ wire' = IF a \in InDoubt THEN wire \cup {m} ELSE wire
        /\ doubt' = IF a \in InDoubt THEN [doubt EXCEPT ![p] = @ \cup {m.effect}] ELSE doubt
        /\ Set(p, IF Replays(a, proc[p].replayed)
                  THEN [At(p, again) EXCEPT !.replayed = TRUE]
                  ELSE then[a])
  BY DEF Send
<1>2. a \in Answers /\ signal' = signal
  BY <1>1 DEF Send, Possible, Interrupted, Answers
<1>3. /\ did' \in [Procs -> SUBSET Effects] /\ did'[p] = Had(p, a, m.effect)
      /\ \A o \in Procs : o # p => did'[o] = did[o]
      /\ doubt' \in [Procs -> SUBSET Effects] /\ doubt'[p] = Open(p, a, m.effect)
      /\ \A o \in Procs : o # p => doubt'[o] = doubt[o]
  BY <1>1 DEF IInv, TypeOK, WriteOK, Had, Open
<1> DEFINE r == IF Replays(a, proc[p].replayed)
                THEN [At(p, again) EXCEPT !.replayed = TRUE] ELSE then[a]
<1>4. /\ proc' = [proc EXCEPT ![p] = r]
      /\ ProcOK(r, did'[p], doubt'[p])
  <2>1. CASE Replays(a, proc[p].replayed)
    <3>1. did'[p] = did[p] /\ doubt'[p] = doubt[p]
      BY <1>3, <2>1 DEF Replays, Had, Open, Carried, InDoubt
    <3> QED BY <1>1, <2>1, <3>1 DEF Set
  <2>2. CASE ~Replays(a, proc[p].replayed)
    <3>1. r = then[a] /\ ProcOK(then[a], Had(p, a, m.effect), Open(p, a, m.effect))
      BY <1>2, <2>2
    <3> QED BY <1>1, <1>3, <3>1 DEF Set
  <2> QED BY <2>1, <2>2
<1> HIDE DEF r
<1>5. r \in ProcStates
  BY <1>4 DEF ProcOK
<1>6. svc' \in ServiceStates
  BY <1>1, AfterType DEF IInv, TypeOK
<1>7. WireOK'
  <2> SUFFICES ASSUME NEW n \in wire' PROVE WriteOK(n) /\ n.effect \in doubt'[n.by]
    BY DEF WireOK
  <2>1. CASE n \in wire
    BY <1>3, <2>1 DEF IInv, WireOK, WriteOK, Open
  <2>2. CASE n \notin wire
    BY <1>1, <1>3, <2>2 DEF Open
  <2> QED BY <2>1, <2>2
<1>8. TypeOK'
  <2>1. \A n \in wire' : n.by \in Procs /\ n.effect \in Effects
    BY <1>7 DEF WireOK, WriteOK
  <2> QED BY <1>2, <1>3, <1>4, <1>5, <1>6, <2>1 DEF IInv, TypeOK
<1>9. ProcsOK'
  <2> SUFFICES ASSUME NEW o \in Procs PROVE ProcOK(proc'[o], did'[o], doubt'[o])
    BY DEF ProcsOK
  <2>1. CASE o = p
    BY <1>4, <2>1 DEF IInv, TypeOK
  <2>2. CASE o # p
    <3>1. proc'[o] = proc[o]
      BY <1>4, <2>2 DEF IInv, TypeOK
    <3> QED BY <1>3, <2>2, <3>1 DEF IInv, ProcsOK
  <2> QED BY <2>1, <2>2
<1> QED BY <1>7, <1>8, <1>9 DEF IInv

\* A late write moves an effect its process has in doubt.
LEMMA ArriveStep ==
    ASSUME IInv, NEW m \in wire, Arrive(m)
    PROVE  IInv'
<1>1. WriteOK(m) /\ m.effect \in doubt[m.by] /\ m.by \in Procs /\ m.effect \in Effects
  BY DEF IInv, WireOK, WriteOK
<1>2. wire' = wire \ {m} /\ UNCHANGED <<signal, proc, doubt>>
  BY DEF Arrive
<1>3. /\ did' \in [Procs -> SUBSET Effects]
      /\ \A p \in Procs : did'[p] = did[p] \/ (p = m.by /\ did'[p] = did[p] \cup {m.effect})
  BY <1>1 DEF Arrive, IInv, TypeOK
<1>4. svc' \in ServiceStates
  BY <1>1, AfterType DEF Arrive, IInv, TypeOK
<1>5. TypeOK' /\ WireOK'
  BY <1>2, <1>3, <1>4 DEF IInv, TypeOK, WireOK
<1>6. ProcsOK'
  <2> SUFFICES ASSUME NEW p \in Procs PROVE ProcOK(proc[p], did'[p], doubt[p])
    BY <1>2 DEF ProcsOK
  <2>1. ProcOK(proc[p], did[p], doubt[p])
    BY DEF IInv, ProcsOK
  <2>2. CASE did'[p] = did[p]
    BY <2>1, <2>2
  <2>3. CASE p = m.by /\ did'[p] = did[p] \cup {m.effect}
    <3>1. m.effect \in doubt[p] /\ did'[p] \cup doubt[p] = did[p] \cup doubt[p]
      BY <1>1, <2>3
    <3>2. proc[p].pc \in Over
      BY <2>1, <3>1 DEF ProcOK, Ledger
    <3>3. TrueOf(proc[p], did'[p], doubt[p])
      <4>1. TrueOf(proc[p], did[p], doubt[p])
        BY <2>1, <3>2 DEF ProcOK, Ledger
      <4> QED BY <2>3, <3>1, <4>1 DEF TrueOf, True
    <3>4. Kept(proc[p], did'[p], doubt[p])
      BY <2>1, <3>1, <3>2 DEF ProcOK, Ledger, Kept
    <3>5. did'[p] \subseteq Effects
      BY <1>3
    <3> QED BY <2>1, <3>2, <3>3, <3>4, <3>5 DEF ProcOK, Ledger
  <2> QED BY <1>3, <2>2, <2>3
<1> QED BY <1>5, <1>6 DEF IInv

\* A signal changes nothing of a command's ledger.
LEMMA SignalStep ==
    ASSUME IInv, NEW p \in Procs, Signal(p)
    PROVE  IInv'
<1>1. signal' = signal \cup {p} /\ UNCHANGED <<svc, wire, did, doubt, proc>>
  BY DEF Signal, world
<1>2. TypeOK' /\ WireOK'
  BY <1>1 DEF IInv, TypeOK, WireOK
<1>3. ProcsOK'
  BY <1>1 DEF IInv, ProcsOK
<1> QED BY <1>2, <1>3 DEF IInv

\* Nor does a step of nobody.
LEMMA StutterStep ==
    ASSUME IInv, UNCHANGED vars
    PROVE  IInv'
<1>1. TypeOK' /\ WireOK'
  BY DEF vars, IInv, TypeOK, WireOK
<1>2. ProcsOK'
  BY DEF vars, IInv, ProcsOK
<1> QED BY <1>1, <1>2 DEF IInv

-----------------------------------------------------------------------------
(* The commands *)

\* The ledger of a command before its exit.
LEMMA Books ==
    ASSUME IInv, NEW p \in Procs, proc[p].pc \notin Over
    PROVE  /\ proc[p] \in ProcStates /\ KindOK(proc[p])
           /\ doubt[p] = {} /\ did[p] = SoFar(proc[p]) /\ did[p] \subseteq Effects
           /\ "unscope" \notin did[p]
           /\ proc[p].result = NoResult
<1>1. /\ proc[p] \in ProcStates /\ KindOK(proc[p])
      /\ doubt[p] = {} /\ did[p] = SoFar(proc[p]) /\ did[p] \subseteq Effects
      /\ proc[p].result = NoResult
  BY DEF IInv, ProcsOK, ProcOK, Ledger
<1>2. "unscope" \notin SoFar(proc[p])
  BY DEF SoFar, MadeBy, DoneBy
<1> QED BY <1>1, <1>2

\* What a command is about.
LEMMA CommandIs ==
    ASSUME TypeOK, NEW p \in Procs
    PROVE  /\ proc[p].cmd.kind \in {"create", "scopeCreate", "scopeBind", "scopeDelete",
                                    "update", "archive"}
           /\ proc[p].cmd.kind \in {"create", "scopeCreate", "scopeBind", "scopeDelete"}
                => proc[p].cmd.scope \in Scopes
           /\ proc[p].cmd.kind \in {"create", "scopeBind", "update", "archive"}
                => proc[p].cmd.ws \in Slugs
<1>1. proc[p].cmd \in Commands
  BY DEF TypeOK, ProcStates
<1> QED BY <1>1 DEF Commands

\* A replay is at the same point, with the same ledger.
LEMMA ReplayOK ==
    ASSUME IInv, NEW p \in Procs, NEW pc \in PCs, pc \notin Over, proc[p].pc \notin Over,
           KindOK(At(p, pc)), SoFar(At(p, pc)) = SoFar(proc[p])
    PROVE  ProcOK([At(p, pc) EXCEPT !.replayed = TRUE], did[p], doubt[p])
<1> DEFINE r == [At(p, pc) EXCEPT !.replayed = TRUE]
<1>1. At(p, pc) \in ProcStates /\ At(p, pc).pc = pc /\ At(p, pc).result = proc[p].result
  BY AtIs DEF IInv
<1>2. r \in ProcStates /\ r.pc = At(p, pc).pc /\ r.cmd = At(p, pc).cmd /\ r.result = At(p, pc).result
  BY <1>1 DEF ProcStates
<1> HIDE DEF r
<1>3. KindOK(r)
  BY <1>2 DEF KindOK, MadeBy
<1>4. SoFar(r) = SoFar(At(p, pc))
  BY <1>2 DEF SoFar, MadeBy, DoneBy
<1>5. ProcOK(r, did[p], doubt[p])
  BY <1>1, <1>2, <1>3, <1>4, Books DEF ProcOK, Ledger
<1> QED BY <1>5 DEF r

\* The exit after a write that failed.
LEMMA WriteFailed ==
    ASSUME IInv, NEW p \in Procs, proc[p].pc \notin Over, NEW e \in Effects,
           e = "unscope" => proc[p].cmd.kind # "create",
           NEW a \in Answers, a # "ok"
    PROVE  ProcOK(Exit(p, Failed(a, Told(a, did[p], e))), Had(p, a, e), Open(p, a, e))
<1>1. did[p] \subseteq Effects /\ doubt[p] = {} /\ "unscope" \notin did[p]
  BY Books
<1>2. /\ Had(p, a, e) = did[p] \cup (IF a \in Carried THEN {e} ELSE {})
      /\ Open(p, a, e) = IF a \in InDoubt THEN {e} ELSE {}
  BY <1>1 DEF Had, Open
<1>3. Told(a, did[p], e) \in Claims /\ True(Told(a, did[p], e), Had(p, a, e), Open(p, a, e))
  BY <1>2, ToldTrue
<1>4. /\ Failed(a, Told(a, did[p], e)) \in Results
      /\ Failed(a, Told(a, did[p], e)).says = Told(a, did[p], e)
  BY <1>3, ResultType
<1>5. /\ Had(p, a, e) \subseteq Effects /\ Open(p, a, e) \subseteq Effects
      /\ "unscope" \in Had(p, a, e) \cup Open(p, a, e) => e = "unscope"
  BY <1>1, <1>2
<1> QED BY <1>3, <1>4, <1>5, ExitOK DEF IInv

\* The read that fails before a command wrote anything.
LEMMA ReadFailed ==
    ASSUME IInv, NEW p \in Procs, proc[p].pc \notin Over, did[p] = {},
           NEW a \in Unread(p), Move(p, Unchanged(p, a))
    PROVE  IInv'
<1>1. a \in Answers
  BY DEF Unread, Interrupted, Answers
<1>2. ProcOK(Unchanged(p, a), did[p], doubt[p])
  BY <1>1, NothingDone, Books DEF Unchanged, IInv
<1> QED BY <1>2, MoveStep

\* connect.
LEMMA StartStep ==
    ASSUME IInv, NEW p \in Procs, Start(p)
    PROVE  IInv'
<1>1. /\ proc[p] \in ProcStates /\ proc[p].pc = "start" /\ did[p] = {} /\ doubt[p] = {}
      /\ proc[p].result = NoResult
  BY Books DEF Start, Over, SoFar
<1>2. CASE Move(p, At(p, First(p)))
  <2>1. /\ First(p) \in PCs \ Over
        /\ First(p) = "workspace" => Kind(p) = "create" /\ Made(p) = {}
        /\ First(p) = "scope" => Kind(p) = "create" /\ Made(p) # {}
        /\ First(p) = "scopeCreate" => Kind(p) = "scopeCreate"
        /\ First(p) = "resolve" => Kind(p) \in {"scopeBind", "update", "archive"}
        /\ First(p) \in {"unscope", "show"} => Kind(p) = "scopeDelete"
        /\ First(p) = "ask" => Kind(p) = "archive"
        /\ First(p) \in {"workspace", "scope", "scopeCreate", "resolve", "unscope", "show", "ask"}
    BY CommandIs DEF First, Kind, PCs, Over, IInv
  <2>2. /\ At(p, First(p)) \in ProcStates /\ At(p, First(p)).pc = First(p)
        /\ At(p, First(p)).cmd = proc[p].cmd /\ At(p, First(p)).result = NoResult
    BY <1>1, <2>1, AtIs DEF IInv
  <2>3. KindOK(At(p, First(p)))
    BY <2>1, <2>2 DEF KindOK, MadeBy, Made, Kind
  <2>4. SoFar(At(p, First(p))) = {}
    BY <2>1, <2>2 DEF SoFar, MadeBy, Made, Kind
  <2>5. ProcOK(At(p, First(p)), {}, {})
    BY <2>1, <2>2, <2>3, <2>4, GoOn DEF IInv
  <2> QED BY <1>1, <1>2, <2>5, MoveStep
<1>3. ASSUME NEW a \in Unread(p), Move(p, Unchanged(p, a)) PROVE IInv'
  BY <1>1, <1>3, ReadFailed DEF Over
<1> QED BY <1>2, <1>3 DEF Start

\* The creation of the scope.
LEMMA CreateScopeStep ==
    ASSUME IInv, NEW p \in Procs, CreateScope(p)
    PROVE  IInv'
<1>1. /\ proc[p] \in ProcStates /\ proc[p].pc = "scope" /\ proc[p].pc \notin Over
      /\ did[p] = {} /\ doubt[p] = {} /\ proc[p].result = NoResult
      /\ MadeBy(proc[p]) = {"scope"} /\ proc[p].cmd.kind = "create"
  BY Books DEF CreateScope, Over, SoFar, KindOK, MadeBy
<1> DEFINE m == Write(p, "scope")
           next == [At(p, "workspace") EXCEPT !.context = Claim({"scope"}, {})]
           then == [a \in Answers |-> IF a = "ok" THEN next
                                      ELSE Exit(p, Failed(a, Told(a, {}, "scope")))]
<1>2. Send(p, m, "scope", then)
  BY DEF CreateScope
<1>3. WriteOK(m) /\ m.by = p /\ m.effect = "scope"
  BY <1>1, CommandIs DEF WriteOK, Write, Effects, IInv
<1>4. ProcOK(next, {"scope"}, {})
  <2>1. /\ next \in ProcStates /\ next.pc = "workspace" /\ next.cmd = proc[p].cmd
        /\ next.result = NoResult
    BY <1>1, AtIs, ClaimFacts DEF ProcStates, PCs, IInv
  <2> HIDE DEF next
  <2>2. KindOK(next) /\ SoFar(next) = {"scope"}
    BY <1>1, <2>1 DEF KindOK, SoFar, MadeBy
  <2> QED BY <2>1, <2>2, GoOn DEF IInv, Over, Effects
<1>5. ASSUME NEW a \in Answers PROVE ProcOK(then[a], Had(p, a, "scope"), Open(p, a, "scope"))
  <2>1. CASE a = "ok"
    <3>1. Had(p, a, "scope") = {"scope"} /\ Open(p, a, "scope") = {} /\ then[a] = next
      BY <1>1, <2>1 DEF Had, Open, Carried, InDoubt
    <3> QED BY <1>4, <3>1
  <2>2. CASE a # "ok"
    <3>1. then[a] = Exit(p, Failed(a, Told(a, did[p], "scope")))
      BY <1>1, <2>2
    <3> QED BY <1>1, <2>2, <3>1, WriteFailed DEF Effects
  <2> QED BY <2>1, <2>2
<1>6. ProcOK([At(p, "scope") EXCEPT !.replayed = TRUE], did[p], doubt[p])
  <2>1. "scope" \in PCs /\ "scope" \notin Over
    BY DEF PCs, Over
  <2>2. At(p, "scope").pc = "scope" /\ At(p, "scope").cmd = proc[p].cmd
    BY <2>1, AtIs DEF IInv
  <2>3. KindOK(At(p, "scope")) /\ SoFar(At(p, "scope")) = SoFar(proc[p])
    BY <1>1, <2>2 DEF KindOK, SoFar, MadeBy
  <2> QED BY <1>1, <2>1, <2>3, ReplayOK
<1> HIDE DEF m, then
<1> QED BY <1>2, <1>3, <1>5, <1>6, SendStep

\* The creation of the workspace.
LEMMA CreateWorkspaceStep ==
    ASSUME IInv, NEW p \in Procs, CreateWorkspace(p)
    PROVE  IInv'
<1>1. /\ proc[p] \in ProcStates /\ proc[p].pc = "workspace" /\ proc[p].pc \notin Over
      /\ did[p] = Made(p) /\ doubt[p] = {} /\ proc[p].result = NoResult
      /\ Made(p) = MadeBy(proc[p]) /\ proc[p].cmd.kind = "create"
  BY Books DEF CreateWorkspace, Over, SoFar, KindOK, MadeBy, Made, Kind
<1> DEFINE m == WriteWs(p, "workspace")
           next == [At(p, "bindRead") EXCEPT
                      !.context = Claim(Made(p) \cup {"workspace"}, {"bind"})]
           then == [a \in Answers |->
                     IF a = "ok" THEN next
                     ELSE IF NotCreated(a) /\ Made(p) # {} THEN At(p, "rollback")
                     ELSE Exit(p, Failed(a, Told(a, Made(p), "workspace")))]
<1>2. Send(p, m, "workspace", then)
  BY DEF CreateWorkspace
<1>3. WriteOK(m) /\ m.by = p /\ m.effect = "workspace"
  BY <1>1, CommandIs DEF WriteOK, WriteWs, Effects, IInv
<1>4. ProcOK(next, Made(p) \cup {"workspace"}, {})
  <2>1. /\ next \in ProcStates /\ next.pc = "bindRead" /\ next.cmd = proc[p].cmd
        /\ next.result = NoResult
    BY <1>1, AtIs, ClaimFacts DEF ProcStates, PCs, IInv
  <2> HIDE DEF next
  <2>2. KindOK(next) /\ SoFar(next) = Made(p) \cup {"workspace"}
    BY <1>1, <2>1 DEF KindOK, SoFar, DoneBy, MadeBy
  <2>3. Made(p) \cup {"workspace"} \subseteq Effects
    BY DEF Made, Effects
  <2> QED BY <2>1, <2>2, <2>3, GoOn DEF IInv, Over
<1>5. ASSUME Made(p) # {} PROVE ProcOK(At(p, "rollback"), Made(p), {})
  <2>1. /\ At(p, "rollback") \in ProcStates /\ At(p, "rollback").pc = "rollback"
        /\ At(p, "rollback").cmd = proc[p].cmd /\ At(p, "rollback").result = NoResult
    BY <1>1, AtIs DEF PCs, IInv
  <2>2. KindOK(At(p, "rollback")) /\ SoFar(At(p, "rollback")) = Made(p)
    BY <1>1, <1>5, <2>1 DEF KindOK, SoFar, MadeBy
  <2>3. Made(p) \subseteq Effects
    BY DEF Made, Effects
  <2> QED BY <2>1, <2>2, <2>3, GoOn DEF IInv, Over
<1>6. ASSUME NEW a \in Answers
      PROVE  ProcOK(then[a], Had(p, a, "workspace"), Open(p, a, "workspace"))
  <2>1. CASE a = "ok"
    <3>1. /\ Had(p, a, "workspace") = Made(p) \cup {"workspace"} /\ Open(p, a, "workspace") = {}
          /\ then[a] = next
      BY <1>1, <2>1 DEF Had, Open, Carried, InDoubt
    <3> QED BY <1>4, <3>1
  <2>2. CASE a # "ok" /\ NotCreated(a) /\ Made(p) # {}
    <3>1. /\ Had(p, a, "workspace") = Made(p) /\ Open(p, a, "workspace") = {}
          /\ then[a] = At(p, "rollback")
      BY <1>1, <2>2 DEF Had, Open, Carried, InDoubt, NotCreated
    <3> QED BY <1>5, <2>2, <3>1
  <2>3. CASE a # "ok" /\ ~(NotCreated(a) /\ Made(p) # {})
    <3>1. then[a] = Exit(p, Failed(a, Told(a, did[p], "workspace")))
      BY <1>1, <2>3
    <3> QED BY <1>1, <2>3, <3>1, WriteFailed DEF Effects
  <2> QED BY <2>1, <2>2, <2>3
<1>7. ProcOK([At(p, "workspace") EXCEPT !.replayed = TRUE], did[p], doubt[p])
  <2>1. "workspace" \in PCs /\ "workspace" \notin Over
    BY DEF PCs, Over
  <2>2. At(p, "workspace").pc = "workspace" /\ At(p, "workspace").cmd = proc[p].cmd
    BY <2>1, AtIs DEF IInv
  <2>3. KindOK(At(p, "workspace")) /\ SoFar(At(p, "workspace")) = SoFar(proc[p])
    BY <1>1, <2>2 DEF KindOK, SoFar, MadeBy
  <2> QED BY <1>1, <2>1, <2>3, ReplayOK
<1> HIDE DEF m, then
<1> QED BY <1>2, <1>3, <1>6, <1>7, SendStep

\* Taking the scope back: the workspace was not created, and will not be.
LEMMA RollBackStep ==
    ASSUME IInv, NEW p \in Procs, RollBack(p)
    PROVE  IInv'
<1>1. /\ proc[p] \in ProcStates /\ proc[p].pc = "rollback" /\ proc[p].pc \notin Over
      /\ did[p] = {"scope"} /\ doubt[p] = {} /\ proc[p].result = NoResult
      /\ MadeBy(proc[p]) = {"scope"} /\ proc[p].cmd.kind = "create"
  BY Books DEF RollBack, Over, SoFar, KindOK, MadeBy
<1>2. CASE Move(p, Exit(p, Failed("unsent", Claim({"scope"}, {}))))
  <2>1. /\ Failed("unsent", Claim({"scope"}, {})) \in Results
        /\ Failed("unsent", Claim({"scope"}, {})).says = Claim({"scope"}, {})
    BY ClaimFacts, ResultType DEF Answers
  <2>2. True(Claim({"scope"}, {}), did[p], doubt[p])
    BY <1>1, ClaimTrue
  <2>3. ProcOK(Exit(p, Failed("unsent", Claim({"scope"}, {}))), did[p], doubt[p])
    BY <1>1, <2>1, <2>2, ExitOK DEF IInv, Effects
  <2> QED BY <1>2, <2>3, MoveStep
<1>3. CASE ~Move(p, Exit(p, Failed("unsent", Claim({"scope"}, {}))))
  <2> DEFINE m == Write(p, "unscope")
             says(a) == CASE a = "ok" -> Claim({"scope", "unscope"}, {})
                          [] a \in Interrupted -> Claim({"scope"}, {"unscope"})
                          [] OTHER -> Claim({"scope"}, {})
             then == [a \in Answers |-> Exit(p, Failed(a, says(a)))]
  <2>1. Send(p, m, "rollback", then)
    BY <1>3 DEF RollBack
  <2>2. WriteOK(m) /\ m.by = p /\ m.effect = "unscope"
    BY <1>1, CommandIs DEF WriteOK, Write, Effects, IInv
  <2>3. ASSUME NEW a \in Answers
        PROVE  ProcOK(then[a], Had(p, a, "unscope"), Open(p, a, "unscope"))
    <3> DEFINE d == Had(p, a, "unscope")
               q == Open(p, a, "unscope")
    <3>1. /\ d = {"scope"} \cup (IF a \in Carried THEN {"unscope"} ELSE {})
          /\ q = IF a \in InDoubt THEN {"unscope"} ELSE {}
      BY <1>1 DEF Had, Open
    <3>2. /\ a = "ok" => says(a) = Claim({"scope", "unscope"}, {})
          /\ a \in Interrupted => says(a) = Claim({"scope"}, {"unscope"})
          /\ a # "ok" /\ a \notin Interrupted => says(a) = Claim({"scope"}, {})
      BY DEF Interrupted
    <3>3. then[a] = Exit(p, Failed(a, says(a)))
      OBVIOUS
    <3> HIDE DEF d, q, says, then
    <3>4. d \subseteq Effects /\ q \subseteq Effects /\ "workspace" \notin d \cup q
      BY <3>1 DEF Effects
    <3>5. says(a) \in Claims
      BY <3>2, ClaimFacts
    <3>6. True(says(a), d, q) \/ (says(a) = Claim({"scope"}, {}) /\ "unscope" \in d \cup q)
      <4>1. CASE a = "ok"
        <5>1. says(a) = Claim({"scope", "unscope"}, {}) /\ d = {"scope", "unscope"} /\ q = {}
          BY <3>1, <3>2, <4>1 DEF Carried, InDoubt
        <5> QED BY <5>1, ClaimTrue
      <4>2. CASE a \in Interrupted
        <5>1. says(a) = Claim({"scope"}, {"unscope"}) /\ d = {"scope"} /\ q \subseteq {"unscope"}
          BY <3>1, <3>2, <4>2 DEF Carried, InDoubt, Interrupted
        <5> QED BY <5>1, ClaimTrue, ZenonT(60)
      <4>3. CASE a # "ok" /\ a \notin Interrupted
        <5>1. says(a) = Claim({"scope"}, {})
          BY <3>2, <4>3
        <5>2. CASE "unscope" \notin d \cup q
          <6>1. d = {"scope"} /\ q = {}
            BY <3>1, <5>2
          <6> QED BY <5>1, <6>1, ClaimTrue
        <5> QED BY <5>1, <5>2
      <4> QED BY <4>1, <4>2, <4>3
    <3>7. Failed(a, says(a)) \in Results /\ Failed(a, says(a)).says = says(a)
      BY <3>5, ResultType
    <3>8. ProcOK(Exit(p, Failed(a, says(a))), d, q)
      BY <1>1, <3>4, <3>6, <3>7, ExitOK DEF IInv
    <3> QED BY <3>8, <3>3 DEF d, q
  <2>4. ProcOK([At(p, "rollback") EXCEPT !.replayed = TRUE], did[p], doubt[p])
    <3>1. "rollback" \in PCs /\ "rollback" \notin Over
      BY DEF PCs, Over
    <3>2. At(p, "rollback").pc = "rollback" /\ At(p, "rollback").cmd = proc[p].cmd
      BY <3>1, AtIs DEF IInv
    <3>3. KindOK(At(p, "rollback")) /\ SoFar(At(p, "rollback")) = SoFar(proc[p])
      BY <1>1, <3>2 DEF KindOK, SoFar, MadeBy
    <3> QED BY <1>1, <3>1, <3>3, ReplayOK
  <2> HIDE DEF m, then
  <2> QED BY <2>1, <2>2, <2>3, <2>4, SendStep
<1> QED BY <1>2, <1>3

\* The exit of a binding that failed with the answer a, when it was sent or
\* when the read before it failed.
LEMMA UnboundOK ==
    ASSUME IInv, NEW p \in Procs, proc[p].pc \in {"bindRead", "bindPut"},
           NEW a \in Answers, a # "ok",
           NEW d, NEW q,
           \/ d = did[p] /\ q = {}
           \/ d = Had(p, a, "bind") /\ q = Open(p, a, "bind"),
           d = did[p] /\ q = {} => a # "unreadable"
    PROVE  ProcOK(Unbound(p, a), d, q)
<1>1. /\ proc[p] \in ProcStates /\ proc[p].pc \notin Over /\ doubt[p] = {}
      /\ did[p] = Before(p) /\ did[p] \subseteq Effects /\ "unscope" \notin did[p]
      /\ Kind(p) \in {"create", "scopeBind"}
  BY Books DEF Over, SoFar, KindOK, DoneBy, MadeBy, Before, Made, Kind
<1>2. /\ d \subseteq did[p] \cup {"bind"} /\ q \subseteq {"bind"} /\ did[p] \subseteq d
      /\ a \notin Carried => d = did[p]
      /\ a \notin InDoubt => q = {}
      /\ a \in Carried => d = did[p] \cup {"bind"}
  BY <1>1 DEF Had, Open, Carried
<1> DEFINE says == IF Kind(p) = "create" /\ a \in Interrupted
                   THEN Claim(Before(p), {"bind"}) ELSE Told(a, Before(p), "bind")
<1>3. /\ says = Told(a, Before(p), "bind") \/ says = Claim(Before(p), {"bind"})
      /\ a \in InDoubt => says = Claim(Before(p), {"bind"})
  BY DEF Told
<1>4. Unbound(p, a) = Exit(p, Failed(a, says))
  BY DEF Unbound
<1> HIDE DEF says
<1>5. says \in Claims /\ True(says, d, q)
  <2>1. CASE says = Claim(Before(p), {"bind"})
    <3>1. Before(p) \subseteq d \cup {"bind"} /\ d \cup q \subseteq Before(p) \cup {"bind"}
      BY <1>1, <1>2
    <3>2. True(Claim(Before(p), {"bind"}), d, q)
      BY <3>1, ClaimTrue
    <3> QED BY <2>1, <3>2, ClaimFacts
  <2>2. CASE says # Claim(Before(p), {"bind"})
    <3>1. says = Told(a, Before(p), "bind") /\ a \notin InDoubt /\ q = {}
      BY <1>2, <1>3, <2>2
    <3>2. d = Before(p) \cup (IF a \in Carried THEN {"bind"} ELSE {})
      BY <1>1, <1>2
    <3> QED BY <3>1, <3>2, ToldTrue
  <2> QED BY <2>1, <2>2
<1>6. Failed(a, says) \in Results /\ Failed(a, says).says = says
  BY <1>5, ResultType
<1>7. d \subseteq Effects /\ q \subseteq Effects /\ "unscope" \notin d \cup q
  BY <1>1, <1>2 DEF Effects
<1> QED BY <1>4, <1>5, <1>6, <1>7, ExitOK DEF IInv

\* The read of the scope a workspace is bound to.
LEMMA BindReadStep ==
    ASSUME IInv, NEW p \in Procs, BindRead(p)
    PROVE  IInv'
<1>1. /\ proc[p] \in ProcStates /\ proc[p].pc = "bindRead" /\ proc[p].pc \notin Over
      /\ did[p] = DoneBy(proc[p]) /\ did[p] \subseteq Effects /\ doubt[p] = {}
      /\ proc[p].result = NoResult /\ proc[p].cmd.kind \in {"create", "scopeBind"}
  BY Books DEF BindRead, Over, SoFar, KindOK
<1>2. ASSUME NEW a \in Unread(p), Move(p, Unbound(p, a)) PROVE IInv'
  <2>1. a \in Answers /\ a # "ok" /\ a # "unreadable"
    BY DEF Unread, Interrupted, Answers
  <2>2. ProcOK(Unbound(p, a), did[p], doubt[p])
    BY <1>1, <2>1, UnboundOK
  <2> QED BY <1>2, <2>2, MoveStep
<1>3. CASE /\ proc[p].cmd.scope \in svc.scopes
           /\ Move(p, [proc[p] EXCEPT !.pc = "bindPut", !.seen = svc.bound[proc[p].cmd.scope]])
  <2> DEFINE r == [proc[p] EXCEPT !.pc = "bindPut", !.seen = svc.bound[proc[p].cmd.scope]]
  <2>1. svc.bound[proc[p].cmd.scope] \in SUBSET Slugs
    BY <1>1, CommandIs DEF IInv, TypeOK, ServiceStates
  <2>2. /\ r \in ProcStates /\ r.pc = "bindPut" /\ r.cmd = proc[p].cmd /\ r.result = NoResult
    BY <1>1, <2>1 DEF ProcStates, PCs
  <2>3. Move(p, r)
    BY <1>3
  <2> HIDE DEF r
  <2>4. KindOK(r) /\ SoFar(r) = did[p]
    BY <1>1, <2>2 DEF KindOK, SoFar, DoneBy, MadeBy
  <2>5. ProcOK(r, did[p], doubt[p])
    BY <1>1, <2>2, <2>4, GoOn DEF IInv, Over
  <2> QED BY <2>3, <2>5, MoveStep
<1>4. CASE Move(p, [At(p, "bindRead") EXCEPT !.replayed = TRUE])
  <2>1. "bindRead" \in PCs /\ "bindRead" \notin Over
    BY DEF PCs, Over
  <2>2. At(p, "bindRead").pc = "bindRead" /\ At(p, "bindRead").cmd = proc[p].cmd
    BY <2>1, AtIs DEF IInv
  <2>3. KindOK(At(p, "bindRead")) /\ SoFar(At(p, "bindRead")) = SoFar(proc[p])
    BY <1>1, <2>2 DEF KindOK, SoFar, DoneBy, MadeBy
  <2> QED BY <1>1, <1>4, <2>1, <2>3, ReplayOK, MoveStep
<1> QED BY <1>2, <1>3, <1>4 DEF BindRead

\* The write of the scope.
LEMMA BindPutStep ==
    ASSUME IInv, NEW p \in Procs, BindPut(p)
    PROVE  IInv'
<1>1. /\ proc[p] \in ProcStates /\ proc[p].pc = "bindPut" /\ proc[p].pc \notin Over
      /\ did[p] = DoneBy(proc[p]) /\ did[p] \subseteq Effects /\ doubt[p] = {}
      /\ proc[p].result = NoResult /\ proc[p].cmd.kind \in {"create", "scopeBind"}
      /\ did[p] = Before(p)
  BY Books DEF BindPut, Over, SoFar, KindOK, DoneBy, MadeBy, Before, Made, Kind
<1> DEFINE m == [by |-> p, effect |-> "bind", scope |-> proc[p].cmd.scope,
                 bindings |-> proc[p].seen \cup {proc[p].cmd.ws}]
           back == [At(p, "readBack") EXCEPT !.context = Claim(Before(p) \cup {"bind"}, {})]
           look == [At(p, "verify") EXCEPT !.committed = TRUE]
           then == [a \in Answers |->
                     IF a # "ok" THEN Unbound(p, a)
                     ELSE IF Kind(p) = "create" THEN back ELSE look]
<1>2. Send(p, m, "bindRead", then)
  BY DEF BindPut
<1>3. WriteOK(m) /\ m.by = p /\ m.effect = "bind"
  <2>1. proc[p].seen \subseteq Slugs /\ proc[p].cmd.scope \in Scopes /\ proc[p].cmd.ws \in Slugs
    BY <1>1, CommandIs DEF ProcStates, IInv
  <2> QED BY <2>1 DEF WriteOK, Effects
<1>4. ASSUME NEW a \in Answers PROVE ProcOK(then[a], Had(p, a, "bind"), Open(p, a, "bind"))
  <2>1. CASE a = "ok"
    <3>1. Had(p, a, "bind") = did[p] \cup {"bind"} /\ Open(p, a, "bind") = {}
      BY <1>1, <2>1 DEF Had, Open, Carried, InDoubt
    <3>2. did[p] \cup {"bind"} \subseteq Effects
      BY <1>1 DEF Effects
    <3>3. CASE Kind(p) = "create"
      <4>1. then[a] = back
        BY <2>1, <3>3
      <4>2. /\ back \in ProcStates /\ back.pc = "readBack" /\ back.cmd = proc[p].cmd
            /\ back.result = NoResult
        BY <1>1, AtIs, ClaimFacts DEF ProcStates, PCs, IInv
      <4> HIDE DEF back, then
      <4>3. KindOK(back) /\ SoFar(back) = did[p] \cup {"bind"}
        BY <1>1, <3>3, <4>2 DEF KindOK, SoFar, DoneBy, MadeBy, Kind
      <4>4. ProcOK(back, did[p] \cup {"bind"}, {})
        BY <3>2, <4>2, <4>3, GoOn DEF IInv, Over
      <4> QED BY <3>1, <4>1, <4>4
    <3>4. CASE Kind(p) # "create"
      <4>1. then[a] = look
        BY <2>1, <3>4
      <4>2. /\ look \in ProcStates /\ look.pc = "verify" /\ look.cmd = proc[p].cmd
            /\ look.result = NoResult
        <5> DEFINE r == At(p, "verify")
        <5>1. r \in ProcStates /\ r.pc = "verify" /\ r.cmd = proc[p].cmd /\ r.result = NoResult
          BY <1>1, AtIs DEF PCs, IInv
        <5> HIDE DEF r
        <5>2. LET c == [r EXCEPT !.committed = TRUE]
              IN  c \in ProcStates /\ c.pc = "verify" /\ c.cmd = proc[p].cmd /\ c.result = NoResult
          BY <5>1 DEF ProcStates
        <5> QED BY <5>2 DEF r
      <4> HIDE DEF look, then
      <4>3. KindOK(look) /\ SoFar(look) = did[p] \cup {"bind"}
        BY <1>1, <3>4, <4>2 DEF KindOK, SoFar, DoneBy, MadeBy, Kind
      <4>4. ProcOK(look, did[p] \cup {"bind"}, {})
        BY <3>2, <4>2, <4>3, GoOn DEF IInv, Over
      <4> QED BY <3>1, <4>1, <4>4
    <3> QED BY <3>3, <3>4
  <2>2. CASE a # "ok"
    <3>1. then[a] = Unbound(p, a)
      BY <2>2
    <3>2. Had(p, a, "bind") = did[p] => a # "unreadable"
      BY <1>1 DEF Had, Carried, DoneBy, MadeBy
    <3> HIDE DEF then
    <3> QED BY <1>1, <2>2, <3>1, <3>2, UnboundOK
  <2> QED BY <2>1, <2>2
<1>5. ProcOK([At(p, "bindRead") EXCEPT !.replayed = TRUE], did[p], doubt[p])
  <2>1. "bindRead" \in PCs /\ "bindRead" \notin Over
    BY DEF PCs, Over
  <2>2. At(p, "bindRead").pc = "bindRead" /\ At(p, "bindRead").cmd = proc[p].cmd
    BY <2>1, AtIs DEF IInv
  <2>3. KindOK(At(p, "bindRead")) /\ SoFar(At(p, "bindRead")) = SoFar(proc[p])
    BY <1>1, <2>2 DEF KindOK, SoFar, DoneBy, MadeBy
  <2> QED BY <1>1, <2>1, <2>3, ReplayOK
<1> HIDE DEF m, then
<1> QED BY <1>2, <1>3, <1>4, <1>5, SendStep

\* All the effects of a command.
AllOf(p) ==
    CASE Kind(p) = "create" -> Before(p) \cup {"bind"}
      [] Kind(p) = "scopeCreate" -> {"scope"}
      [] Kind(p) = "scopeBind" -> {"bind"}
      [] Kind(p) = "scopeDelete" -> {"unscope"}
      [] OTHER -> {Kind(p)}

\* What a command that did all of its writes says is true.
LEMMA SavedTrue ==
    ASSUME IInv, NEW p \in Procs, NEW d, d \subseteq Effects, d = AllOf(p)
    PROVE  /\ Saved(p) \in Claims
           /\ ProcOK(Exit(p, Ok(Saved(p))), d, {})
           /\ \A a \in Answers : ProcOK(Exit(p, Failed(a, Saved(p))), d, {})
<1>1. Saved(p) = Claim(d, {})
  BY DEF Saved, AllOf
<1>2. Saved(p) \in Claims /\ True(Saved(p), d, {})
  BY <1>1, ClaimFacts, ClaimTrue
<1>3. proc[p].cmd.kind = "create" => "unscope" \notin d
  BY DEF AllOf, Before, Made, Kind
<1>4. Ok(Saved(p)) \in Results /\ Ok(Saved(p)).says = Saved(p)
  BY <1>2, ResultType
<1>5. \A a \in Answers : /\ Failed(a, Saved(p)) \in Results
                         /\ Failed(a, Saved(p)).says = Saved(p)
  BY <1>2, ResultType
<1>6. ProcOK(Exit(p, Ok(Saved(p))), d, {})
  BY <1>2, <1>3, <1>4, ExitOK DEF IInv
<1>7. \A a \in Answers : ProcOK(Exit(p, Failed(a, Saved(p))), d, {})
  BY <1>2, <1>3, <1>5, ExitOK DEF IInv
<1> QED BY <1>2, <1>6, <1>7

\* Only `committed` of a state differs: the ledger is the same.
LEMMA CommittedOK ==
    ASSUME NEW r, NEW d, NEW q, ProcOK(r, d, q)
    PROVE  ProcOK([r EXCEPT !.committed = TRUE], d, q)
<1> DEFINE c == [r EXCEPT !.committed = TRUE]
<1>1. r \in ProcStates /\ KindOK(r) /\ Ledger(r, d, q)
  BY DEF ProcOK
<1>2. c \in ProcStates /\ c.pc = r.pc /\ c.cmd = r.cmd /\ c.result = r.result
  BY <1>1 DEF ProcStates
<1> HIDE DEF c
<1>3. KindOK(c)
  BY <1>1, <1>2 DEF KindOK, MadeBy
<1>4. Ledger(c, d, q)
  BY <1>1, <1>2 DEF Ledger, SoFar, DoneBy, MadeBy, TrueOf, Kept
<1>5. ProcOK(c, d, q)
  BY <1>2, <1>3, <1>4 DEF ProcOK
<1> QED BY <1>5 DEF c

\* The read-back.
LEMMA ReadBackStep ==
    ASSUME IInv, NEW p \in Procs, ReadBack(p)
    PROVE  IInv'
<1>1. /\ proc[p].pc \in {"readBack", "verify"} /\ proc[p].pc \notin Over
      /\ did[p] = SoFar(proc[p]) /\ did[p] \subseteq Effects /\ doubt[p] = {}
      /\ KindOK(proc[p])
  BY Books DEF ReadBack, Over
<1>2. did[p] = AllOf(p)
  BY <1>1 DEF AllOf, KindOK, SoFar, DoneBy, MadeBy, Before, Made, Kind
<1>3. /\ ProcOK(Exit(p, Ok(Saved(p))), did[p], doubt[p])
      /\ \A a \in Answers : ProcOK(Exit(p, Failed(a, Saved(p))), did[p], doubt[p])
  BY <1>1, <1>2, SavedTrue
<1>4. CASE Move(p, [Exit(p, Ok(Saved(p))) EXCEPT !.committed = TRUE])
  BY <1>3, <1>4, CommittedOK, MoveStep
<1>5. ASSUME NEW a \in Unread(p), Move(p, Exit(p, Failed(a, Saved(p)))) PROVE IInv'
  <2>1. a \in Answers
    BY DEF Unread, Interrupted, Answers
  <2> QED BY <1>3, <1>5, <2>1, MoveStep
<1> QED BY <1>4, <1>5 DEF ReadBack

\* A read or a confirmation that lets a command go on.
LEMMA GoAt ==
    ASSUME IInv, NEW p \in Procs, NEW pc \in PCs, pc \notin Over, proc[p].pc \notin Over,
           did[p] = {}, KindOK(At(p, pc)), SoFar(At(p, pc)) = {}
    PROVE  ProcOK(At(p, pc), did[p], doubt[p])
<1>1. doubt[p] = {} /\ proc[p].result = NoResult
  BY Books
<1>2. /\ At(p, pc) \in ProcStates /\ At(p, pc).pc = pc /\ At(p, pc).cmd = proc[p].cmd
      /\ At(p, pc).result = NoResult
  BY <1>1, AtIs DEF IInv
<1> QED BY <1>1, <1>2, GoOn DEF IInv

\* Where a shown, resolved or confirmed command goes on is a point of its
\* kind, before its first write.
LEMMA SecondIs ==
    ASSUME IInv, NEW p \in Procs, proc[p].pc \in {"show", "resolve", "ask"},
           NEW pc, pc = Second(p) \/ (proc[p].pc = "show" /\ pc = "ask"),
           proc[p].pc = "show" => pc = "ask"
    PROVE  /\ pc \in PCs /\ pc \notin Over /\ proc[p].pc \notin Over /\ did[p] = {}
           /\ KindOK(At(p, pc)) /\ SoFar(At(p, pc)) = {}
<1>1. proc[p].pc \notin Over /\ KindOK(proc[p])
  BY Books DEF Over
<1>2. did[p] = {}
  BY <1>1, Books DEF SoFar
<1>3. /\ pc \in {"ask", "unscope", "update", "archive", "resolve", "bindRead"}
      /\ pc = "bindRead" => Kind(p) = "scopeBind"
      /\ pc = "ask" => Kind(p) \in {"scopeDelete", "update"}
      /\ pc = "unscope" => Kind(p) = "scopeDelete"
      /\ pc \in {"update", "archive"} => Kind(p) = pc
      /\ pc = "resolve" => Kind(p) = "archive"
  <2>1. CASE proc[p].pc = "show"
    BY <1>1, <2>1 DEF KindOK, Kind
  <2>2. CASE proc[p].pc \in {"resolve", "ask"}
    <3>1. pc = Second(p) /\ Kind(p) \in {"scopeBind", "scopeDelete", "update", "archive"}
      BY <1>1, <2>2 DEF KindOK, Kind
    <3>2. Kind(p) = "scopeBind" => pc = "bindRead"
      BY <3>1 DEF Second
    <3>3. Kind(p) = "scopeDelete" => pc = "unscope"
      BY <3>1 DEF Second
    <3>4. Kind(p) = "update" => pc \in {"ask", "update"}
      BY <3>1 DEF Second
    <3>5. Kind(p) = "archive" => pc \in {"resolve", "archive"}
      BY <3>1 DEF Second
    <3> QED BY <3>1, <3>2, <3>3, <3>4, <3>5
  <2> QED BY <2>1, <2>2
<1>4. pc \in PCs /\ pc \notin Over
  BY <1>3 DEF PCs, Over
<1>5. At(p, pc).pc = pc /\ At(p, pc).cmd = proc[p].cmd
  BY <1>4, AtIs DEF IInv
<1>6. KindOK(At(p, pc)) /\ SoFar(At(p, pc)) = {}
  BY <1>3, <1>5 DEF KindOK, SoFar, DoneBy, MadeBy, Kind
<1> QED BY <1>1, <1>2, <1>4, <1>6

\* The bindings shown and the workspace resolved.
LEMMA ResolveStep ==
    ASSUME IInv, NEW p \in Procs, Resolve(p)
    PROVE  IInv'
<1> DEFINE pc == IF proc[p].pc = "show" THEN "ask" ELSE Second(p)
<1>1. proc[p].pc \in {"show", "resolve", "ask"} /\ proc[p].pc \notin Over /\ did[p] = {}
  BY Books DEF Resolve, Over, SoFar
<1>2. CASE Move(p, At(p, pc))
  <2>1. (pc = Second(p) \/ (proc[p].pc = "show" /\ pc = "ask")) /\ (proc[p].pc = "show" => pc = "ask")
    OBVIOUS
  <2> HIDE DEF pc
  <2>2. /\ pc \in PCs /\ pc \notin Over /\ KindOK(At(p, pc)) /\ SoFar(At(p, pc)) = {}
    BY <1>1, <2>1, SecondIs
  <2> QED BY <1>1, <1>2, <2>2, GoAt, MoveStep
<1>3. ASSUME NEW a \in Unread(p), Move(p, Unchanged(p, a)) PROVE IInv'
  BY <1>1, <1>3, ReadFailed
<1> QED BY <1>2, <1>3 DEF Resolve

\* The confirmation.
LEMMA ConfirmStep ==
    ASSUME IInv, NEW p \in Procs, Confirm(p)
    PROVE  IInv'
<1>1. /\ proc[p].pc = "ask" /\ proc[p].pc \notin Over /\ did[p] = {} /\ doubt[p] = {}
  BY Books DEF Confirm, Over, SoFar
<1>2. CASE Move(p, At(p, Second(p)))
  <2> DEFINE pc == Second(p)
  <2>1. pc = Second(p) /\ proc[p].pc # "show"
    BY <1>1
  <2>2. Move(p, At(p, pc))
    BY <1>2
  <2> HIDE DEF pc
  <2>3. /\ pc \in PCs /\ pc \notin Over /\ KindOK(At(p, pc)) /\ SoFar(At(p, pc)) = {}
    BY <1>1, <2>1, SecondIs
  <2> QED BY <1>1, <2>2, <2>3, GoAt, MoveStep
<1>3. CASE Move(p, Exit(p, Ok(NothingChanged)))
  <2>1. NothingChanged \in Claims /\ True(NothingChanged, {}, {})
    BY ClaimFacts, ClaimTrue DEF NothingChanged
  <2>2. Ok(NothingChanged) \in Results /\ Ok(NothingChanged).says = NothingChanged
    BY <2>1, ResultType
  <2>3. ProcOK(Exit(p, Ok(NothingChanged)), {}, {})
    BY <2>1, <2>2, ExitOK DEF IInv
  <2> QED BY <1>1, <1>3, <2>3, MoveStep
<1>4. CASE Move(p, Unchanged(p, "unsent"))
  <2>1. ProcOK(Unchanged(p, "unsent"), {}, {})
    BY NothingDone DEF Unchanged, Answers, IInv
  <2> QED BY <1>1, <1>4, <2>1, MoveStep
<1> QED BY <1>2, <1>3, <1>4 DEF Confirm

\* A command of one write.
LEMMA OneWriteStep ==
    ASSUME IInv, NEW p \in Procs, OneWrite(p)
    PROVE  IInv'
<1> DEFINE pc == proc[p].pc
           m == CASE pc = "scopeCreate" -> Write(p, "scope")
                  [] pc = "unscope" -> Write(p, "unscope")
                  [] OTHER -> WriteWs(p, pc)
           look == [At(p, "readBack") EXCEPT !.committed = TRUE]
           then == [a \in Answers |->
                     IF a = "ok" /\ m.effect = "update" THEN look
                     ELSE IF a = "ok" THEN [Exit(p, Ok(Saved(p))) EXCEPT !.committed = TRUE]
                     ELSE Exit(p, Failed(a, Told(a, {}, m.effect)))]
           e == CASE pc = "scopeCreate" -> "scope" [] OTHER -> pc
<1>1. /\ pc \in {"scopeCreate", "unscope", "update", "archive"} /\ pc \notin Over
      /\ proc[p] \in ProcStates /\ did[p] = {} /\ doubt[p] = {} /\ proc[p].result = NoResult
      /\ KindOK(proc[p])
  BY Books DEF OneWrite, Over, SoFar
<1>2. Send(p, m, pc, then)
  BY DEF OneWrite
<1>3. /\ pc = "scopeCreate" => Kind(p) = "scopeCreate"
      /\ pc = "unscope" => Kind(p) = "scopeDelete"
      /\ pc \in {"update", "archive"} => Kind(p) = pc
  BY <1>1 DEF KindOK, Kind
<1>4. WriteOK(m) /\ m.by = p /\ m.effect = e /\ e \in Effects
  <2>1. CASE pc = "scopeCreate"
    BY <1>3, <2>1, CommandIs DEF WriteOK, Write, Effects, IInv, Kind
  <2>2. CASE pc = "unscope"
    BY <1>3, <2>2, CommandIs DEF WriteOK, Write, Effects, IInv, Kind
  <2>3. CASE pc \in {"update", "archive"}
    BY <1>3, <2>3, CommandIs DEF WriteOK, WriteWs, Effects, IInv, Kind
  <2> QED BY <1>1, <2>1, <2>2, <2>3
<1>5. e = "update" => ProcOK(look, {"update"}, {})
  <2> SUFFICES ASSUME e = "update" PROVE ProcOK(look, {"update"}, {})
    OBVIOUS
  <2>1. Kind(p) = "update"
    BY <1>1, <1>3
  <2>2. /\ look \in ProcStates /\ look.pc = "readBack" /\ look.cmd = proc[p].cmd
        /\ look.result = NoResult
    <3> DEFINE r == At(p, "readBack")
    <3>1. r \in ProcStates /\ r.pc = "readBack" /\ r.cmd = proc[p].cmd /\ r.result = NoResult
      BY <1>1, AtIs DEF PCs, IInv
    <3> HIDE DEF r
    <3>2. LET c == [r EXCEPT !.committed = TRUE]
          IN  c \in ProcStates /\ c.pc = "readBack" /\ c.cmd = proc[p].cmd /\ c.result = NoResult
      BY <3>1 DEF ProcStates
    <3> QED BY <3>2 DEF r
  <2> HIDE DEF look
  <2>3. KindOK(look) /\ SoFar(look) = {"update"}
    BY <2>1, <2>2 DEF KindOK, SoFar, MadeBy, Kind
  <2> QED BY <2>2, <2>3, GoOn DEF IInv, Over, Effects
<1>6. {e} = AllOf(p)
  BY <1>1, <1>3 DEF AllOf
<1>7. ASSUME NEW a \in Answers PROVE ProcOK(then[a], Had(p, a, e), Open(p, a, e))
  <2>1. CASE a = "ok"
    <3>1. Had(p, a, e) = {e} /\ Open(p, a, e) = {}
      BY <1>1, <2>1 DEF Had, Open, Carried, InDoubt
    <3>2. CASE e = "update"
      <4>1. then[a] = look
        BY <1>4, <2>1, <3>2
      <4> HIDE DEF then, look, e
      <4> QED BY <1>5, <3>1, <3>2, <4>1
    <3>3. CASE e # "update"
      <4>1. then[a] = [Exit(p, Ok(Saved(p))) EXCEPT !.committed = TRUE]
        BY <1>4, <2>1, <3>3
      <4> HIDE DEF then, e
      <4>2. ProcOK(Exit(p, Ok(Saved(p))), {e}, {})
        BY <1>4, <1>6, SavedTrue
      <4> QED BY <3>1, <4>1, <4>2, CommittedOK
    <3> QED BY <3>2, <3>3
  <2>2. CASE a # "ok"
    <3>1. then[a] = Exit(p, Failed(a, Told(a, did[p], e)))
      BY <1>1, <1>4, <2>2
    <3>2. e = "unscope" => proc[p].cmd.kind # "create"
      BY <1>1, <1>3 DEF Kind
    <3> HIDE DEF then, e
    <3> QED BY <1>1, <1>4, <2>2, <3>1, <3>2, WriteFailed
  <2> QED BY <2>1, <2>2
<1>8. ProcOK([At(p, pc) EXCEPT !.replayed = TRUE], did[p], doubt[p])
  <2>1. pc \in PCs /\ pc \notin Over
    BY <1>1 DEF PCs
  <2>2. At(p, pc).pc = pc /\ At(p, pc).cmd = proc[p].cmd
    BY <2>1, AtIs DEF IInv
  <2>3. KindOK(At(p, pc)) /\ SoFar(At(p, pc)) = SoFar(proc[p])
    BY <1>1, <2>2 DEF KindOK, SoFar, MadeBy
  <2> QED BY <1>1, <2>1, <2>3, ReplayOK
<1> HIDE DEF m, then, e
<1> QED BY <1>2, <1>4, <1>7, <1>8, SendStep

\* The end of the process.
LEMMA ReportStep ==
    ASSUME IInv, NEW p \in Procs, Report(p, Saved(p))
    PROVE  IInv'
<1> DEFINE print == Printed(proc[p].result, p \in signal, proc[p].committed, Saved(p),
                            proc[p].context)
           r == [At(p, "ended") EXCEPT !.report = print]
<1>1. /\ proc[p] \in ProcStates /\ proc[p].pc = "exit" /\ Ledger(proc[p], did[p], doubt[p])
  BY DEF Report, IInv, ProcsOK, ProcOK
<1>2. Saved(p) \in Claims
  BY ClaimFacts DEF Saved
<1>3. print \in Results
  BY <1>1, <1>2 DEF Printed, ProcStates, Results
<1>4. Move(p, r)
  BY DEF Report
<1> HIDE DEF print
<1>5. /\ r \in ProcStates /\ r.pc = "ended" /\ r.cmd = proc[p].cmd /\ r.result = proc[p].result
  BY <1>1, <1>3, AtIs DEF ProcStates, PCs, IInv
<1> HIDE DEF r
<1>6. KindOK(r)
  BY <1>5 DEF KindOK
<1>7. Ledger(r, did[p], doubt[p])
  BY <1>1, <1>5 DEF Ledger, Over, TrueOf, Kept
<1> QED BY <1>4, <1>5, <1>6, <1>7, MoveStep DEF ProcOK

-----------------------------------------------------------------------------
(* The invariant *)

\* Nothing is done, nothing in doubt.
LEMMA InitInv == Init => IInv
<1> SUFFICES ASSUME Init PROVE IInv
  OBVIOUS
<1>1. PICK plan \in Plans :
        proc = [p \in Procs |->
                  [cmd |-> plan[p], pc |-> "start", replayed |-> FALSE, seen |-> {},
                   context |-> NothingChanged, committed |-> FALSE,
                   result |-> NoResult, report |-> NoResult]]
  BY DEF Init
<1>2. /\ wire = {} /\ signal = {} /\ svc \in ServiceStates
      /\ did = [p \in Procs |-> {}] /\ doubt = [p \in Procs |-> {}]
  BY ProvisioningAssumption DEF Init
<1>3. ASSUME NEW p \in Procs
      PROVE  /\ proc[p] \in ProcStates /\ proc[p].pc = "start" /\ proc[p].result = NoResult
  <2>1. plan[p] \in Commands /\ NothingChanged \in Claims /\ NoResult \in Results
    BY ProvisioningAssumption, ClaimFacts, ResultType DEF NothingChanged
  <2> QED BY <1>1, <1>3, <2>1 DEF ProcStates, PCs
<1>4. proc \in [Procs -> ProcStates]
  BY <1>1, <1>3
<1>5. TypeOK /\ WireOK
  BY <1>2, <1>4 DEF TypeOK, WireOK
<1>6. ProcsOK
  <2> SUFFICES ASSUME NEW p \in Procs PROVE ProcOK(proc[p], {}, {})
    BY <1>2 DEF ProcsOK
  <2>1. KindOK(proc[p]) /\ SoFar(proc[p]) = {}
    BY <1>3 DEF KindOK, SoFar
  <2> QED BY <1>3, <2>1 DEF ProcOK, Ledger, Over
<1> QED BY <1>5, <1>6 DEF IInv

\* Every step keeps the books.
LEMMA StepInv == IInv /\ [Next]_vars => IInv'
<1> SUFFICES ASSUME IInv, [Next]_vars PROVE IInv'
  OBVIOUS
<1>1. ASSUME NEW p \in Procs,
             \/ Start(p) \/ CreateScope(p) \/ CreateWorkspace(p) \/ RollBack(p)
             \/ BindRead(p) \/ BindPut(p) \/ ReadBack(p)
      PROVE  IInv'
  BY <1>1, StartStep, CreateScopeStep, CreateWorkspaceStep, RollBackStep, BindReadStep,
     BindPutStep, ReadBackStep
<1>2. ASSUME NEW p \in Procs,
             \/ Resolve(p) \/ Confirm(p) \/ OneWrite(p)
             \/ Report(p, Saved(p)) \/ Signal(p)
      PROVE  IInv'
  BY <1>2, ResolveStep, ConfirmStep, OneWriteStep, ReportStep, SignalStep
<1>3. ASSUME NEW m \in wire, Arrive(m) PROVE IInv'
  BY <1>3, ArriveStep
<1>4. CASE UNCHANGED vars
  BY <1>4, StutterStep
<1> QED BY <1>1, <1>2, <1>3, <1>4 DEF Next

\* In every reachable state every command's books are right.
THEOREM Inductive == Spec => []IInv
  BY InitInv, StepInv, PTL DEF Spec

\* The state stays well-typed; a scope that is not there has no bindings.
THEOREM TypeCorrect == Spec => []TypeOK
<1>1. IInv => TypeOK
  BY DEF IInv
<1> QED BY <1>1, Inductive, PTL

\* A workspaces create that takes its scope back, or may have, created no
\* workspace with it and will not have created one when all its writes have
\* arrived (gateway_provision.rs rollback_scope).
THEOREM NeverUnderAWorkspace == Spec => []ScopeKept
<1>1. IInv => ScopeKept
  <2> SUFFICES ASSUME IInv, NEW p \in Procs, Kind(p) = "create",
                      "unscope" \in did[p] \cup doubt[p]
               PROVE  "workspace" \notin did[p] \cup doubt[p]
    BY DEF ScopeKept
  <2>1. proc[p].pc \in Over
    BY Books
  <2> QED BY <2>1 DEF IInv, ProcsOK, ProcOK, Ledger, Kept, Kind
<1> QED BY <1>1, Inductive, PTL

\* What a command returns is true of its own writes, those included that the
\* service carries out after it has ended; but for a deletion of the scope
\* that got no readable answer.
THEOREM Truthful == Spec => []ResultTrue
<1>1. IInv => ResultTrue
  <2> SUFFICES ASSUME IInv, NEW p \in Procs, proc[p].result.kind # "none", ~RollbackInDoubt(p)
               PROVE  True(proc[p].result.says, did[p], doubt[p])
    BY DEF ResultTrue
  <2>1. proc[p].pc \in Over
    BY Books DEF NoResult
  <2> QED BY <2>1 DEF IInv, ProcsOK, ProcOK, Ledger, TrueOf, RollbackInDoubt, Kind
<1> QED BY <1>1, Inductive, PTL

=============================================================================

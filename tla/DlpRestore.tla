----------------------------- MODULE DlpRestore -----------------------------
(***************************************************************************)
(* `runtime dlp restore` (commands/dlp_backup.rs, and the plan,            *)
(* dlp/plan.rs): sweep the three inventories, plan every dictionary,       *)
(* pattern and profile of the backup, ask, sweep again, then create what   *)
(* is missing in that order, read each back, and stop at the first         *)
(* failure.  It only ever creates.                                         *)
(*                                                                         *)
(* `read` is the inventory of the plan, `known` the sweep under way, then  *)
(* what the run created; `i` counts the kinds swept, then the items.  Left *)
(* out: a dry run (a declined one), --pattern-map, rows of the backup that *)
(* failed, other tenants and prefixes, versions, fields the service adds,  *)
(* the keyword reads (part of the sweep), and answers that contradict the  *)
(* request.                                                                *)
(***************************************************************************)
EXTENDS RuntimeService

\* destination_match: the records of that name still in use.
Active(records, n) == {o \in Named(records, n) : ~o.retired}

\* Dependencies that cannot be bound: predefined ones the destination lacks,
\* and those a backup cannot carry over.
Unresolved(c) ==
    {d \in Elements(c.cmd.deps) :
       \/ SourceDlp[d].from = "bound"
       \/ SourceDlp[d].from = "predefined" /\ \A o \in Active(c.read, d) : ~o.predefined}

\* Variant of RowName: the copy of an earlier run is not looked up.
RowNameOwn(c, n) == n

\* The name of a row: under reconcile, of the copy if only that exists.
RowName(c, n) ==
    IF /\ c.cmd.conflict = "reconcile" /\ DlpKind[n] = "profile"
       /\ Active(c.read, n) = {} /\ Active(c.read, Suffixed[n]) # {}
    THEN Suffixed[n] ELSE n

Existing(c, n) == Active(c.read, RowName(c, n))

\* What the restore c does with a resource of the backup.
DlpAction(c, n) ==
    IF DlpKind[n] # "profile" THEN IF Existing(c, n) = {} THEN "create" ELSE "reuse"
    ELSE IF SourceDlp[n].refs \cap Unresolved(c) # {} THEN "skip"
    ELSE IF Existing(c, n) = {} THEN "create"
    ELSE IF c.cmd.conflict = "skip" THEN "skip" ELSE "verify"

\* Every row with a dependency it can have, and those to create.
DlpRows(c) == (Elements(c.cmd.deps) \ Unresolved(c)) \cup Elements(c.cmd.profiles)
DlpCreates(c) == {n \in DlpRows(c) : DlpAction(c, n) = "create"}

\* Variant of DlpBody: the references of the source tenant.
DlpBodyUnmapped(c, n) == [refs |-> {}, body |-> SourceDlp[n].body]

\* profile_request: the references bound to what the destination has and what
\* the run created (plan_bindings).
DlpBody(c, n) ==
    [refs |-> {o.id : o \in {k \in c.read \cup c.known :
                               k.name \in SourceDlp[n].refs /\ ~k.retired}},
     body |-> SourceDlp[n].body]

Echoes(o, body) == o.refs = body.refs /\ o.body = body.body

\* plan: what refuses it.
DlpRefused(c) ==
    LET to(action) == {n \in DlpRows(c) : DlpAction(c, n) = action}
    IN  \/ \E n \in Elements(c.cmd.deps \o c.cmd.profiles) :
             SourceDlp[n].from # "bound" /\ Cardinality(Existing(c, n)) > 1
        \/ Unresolved(c) # {} /\ ~c.cmd.skip
        \/ c.cmd.conflict = "error" /\ \E n \in Elements(c.cmd.profiles) : Active(c.read, n) # {}
        \/ \E n \in to("reuse") :
             SourceDlp[n].from = "own" /\ \E o \in Existing(c, n) : o.body # SourceDlp[n].body
        \/ \E n \in to("verify") :
             \/ SourceDlp[n].refs \cap to("create") # {}
             \/ \E o \in Existing(c, n) : ~Echoes(o, DlpBody(c, n))

DlpPlanned(p, c) ==
    IF DlpRefused(c) THEN Refuse(p)
    ELSE [c EXCEPT !.pc = IF DlpCreates(c) # {} /\ ~c.cmd.force THEN "ask" ELSE "recheckDlp"]

-----------------------------------------------------------------------------
(* Execution *)

\* The rows to create, by their places in the backup.
DlpSequence(c) == c.cmd.deps \o c.cmd.profiles
DlpItems(c) == {i \in DOMAIN DlpSequence(c) : DlpSequence(c)[i] \in DlpCreates(c)}

\* On to the first item after place i, or to the end.
DlpItem(c, i) ==
    LET later == {j \in DlpItems(c) : j > i}
    IN  IF later = {}
        THEN [c EXCEPT !.id = 0, !.replayed = FALSE, !.pc = "exit", !.result = Ok(c.context)]
        ELSE [c EXCEPT !.i = First(later), !.id = 0, !.replayed = FALSE, !.pc = "createDlp"]

DlpName(c) == DlpSequence(c)[c.i]

\* Variant of Seen: the second look compares nothing.
SeenNothing(records, n) == {}

\* What an inventory shows of a resource: not the keywords of a dictionary.
Seen(records, n) ==
    {IF DlpKind[n] = "dictionary" THEN <<o.id, o.predefined>> ELSE <<o>> : o \in Active(records, n)}

\* recheck, after its last sweep.
Rechecked(p, c) ==
    IF \E n \in DlpRows(c) :
         LET name == RowName(c, n) IN Seen(c.known, name) # Seen(c.read, name)
    THEN Stop(p)
    ELSE DlpItem([c EXCEPT !.known = {}], 0)

\* inventories: one kind after the other.
SweepDlp(p) ==
    /\ proc[p].pc \in {"planDlp", "recheckDlp"}
    /\ \/ LET kind == DlpKinds[proc[p].i + 1]
              c == [proc[p] EXCEPT !.known = @ \cup {o \in svc.dlp : DlpKind[o.name] = kind},
                                   !.i = @ + 1]
          IN  /\ p \notin signal
              /\ Move(p, IF c.i < Len(DlpKinds) THEN c
                         ELSE IF c.pc = "planDlp"
                         THEN DlpPlanned(p, [c EXCEPT !.read = c.known, !.known = {}, !.i = 0])
                         ELSE Rechecked(p, c))
       \/ ReadFails(p)

\* A create; under reconcile, one more under the suffixed name when the name of
\* a profile is taken.
CreateDlp(p) ==
    /\ proc[p].pc \in {"createDlp", "copyDlp"}
    /\ LET c == proc[p]
           n == DlpName(c)
           name == IF c.pc = "copyDlp" THEN Suffixed[n] ELSE n
           body == DlpBody(c, n)
           m == [by |-> p, effect |-> <<"makeDlp", name>>, refs |-> body.refs, body |-> body.body]
       IN  \/ p \in signal /\ Move(p, Interrupt(p))
           \/ \E conflict \in {FALSE, Taken(svc, name)} :
                Send(p, m, c.pc,
                     [a \in Answers |->
                       IF a = "ok"
                       THEN Written([At(p, "verifyDlp") EXCEPT !.id = svc.next], m.effect)
                       ELSE IF /\ a = "rejected" /\ conflict /\ c.pc = "createDlp"
                               /\ DlpKind[n] = "profile" /\ c.cmd.conflict = "reconcile"
                       THEN At(p, "copyDlp")
                       ELSE WriteFailed(p, a, m.effect)])

\* The created resource read back.
VerifyDlp(p) ==
    /\ proc[p].pc = "verifyDlp"
    /\ LET c == proc[p]
           back == {o \in svc.dlp : /\ o.id = c.id /\ ~o.retired
                                    /\ Echoes(o, DlpBody(c, DlpName(c)))}
       IN  \/ /\ p \notin signal
              /\ Move(p, IF back = {} THEN Stop(p)
                         ELSE DlpItem([c EXCEPT !.known = @ \cup back], c.i))
           \/ ReadFails(p)

=============================================================================

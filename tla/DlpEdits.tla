------------------------------ MODULE DlpEdits ------------------------------
(***************************************************************************)
(* The commands that change one DLP resource: `runtime dlp patterns`,      *)
(* `profiles` and `dictionaries` create, replace, patch and delete         *)
(* (commands/dlp_write.rs, dlp_patterns.rs, dlp_profiles.rs,               *)
(* dlp_dictionaries.rs).  Left out: what a body lacks and is completed     *)
(* from other records, and records a parent tenant manages.                *)
(***************************************************************************)
EXTENDS RuntimeService

\* current: the record as it is now; a predefined one is never changed.  A
\* replace and a delete then ask.
GuardDlp(p) ==
    /\ proc[p].pc = "guardDlp"
    /\ \/ p \notin signal
          /\ Move(p, IF \A o \in svc.dlp : o.id = proc[p].cmd.id => o.predefined
                     THEN Stop(p)
                     ELSE At(p, IF Kind(p) = "dlpPatch" \/ proc[p].cmd.force
                                THEN "editDlp" ELSE "ask"))
       \/ ReadFails(p)

DlpEdit(p) ==
    LET cmd == proc[p].cmd
    IN  CASE Kind(p) = "dlpCreate" ->
                [by |-> p, effect |-> <<"makeDlp", cmd.n>>, refs |-> {}, body |-> cmd.body]
          [] Kind(p) = "dlpDelete" -> [by |-> p, effect |-> <<"dropDlp", cmd.id>>]
          [] OTHER -> [by |-> p, effect |-> <<"putDlp", cmd.id>>, body |-> cmd.body]

\* send: one attempt.
EditDlp(p) ==
    /\ proc[p].pc = "editDlp"
    /\ LET m == DlpEdit(p)
       IN  Send(p, m, "editDlp",
                [a \in Answers |->
                  IF a = "ok" THEN Done(p, Claim({m.effect}, {}))
                  ELSE Exit(p, Failed(a, Told(a, {}, m.effect)))])

=============================================================================

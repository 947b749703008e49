------------------------- MODULE ScopeProvisioning -------------------------
(***************************************************************************)
(* `gateway workspaces create|update|archive` and `gateway scopes          *)
(* create|bind|delete` (commands/gateway_provision.rs), several of them at *)
(* once against one service of IAM scopes and workspaces.  `workspaces     *)
(* create` is four requests: the scope, the workspace, the binding (a read *)
(* and a write of the whole scope) and a read-back; a workspace that was   *)
(* not created takes the scope with it again.                              *)
(*                                                                         *)
(* A scope has the set of workspaces bound to it.                          *)
(***************************************************************************)
EXTENDS FiniteSets

CONSTANTS
    Scopes,
    Slugs,      \* workspaces
    Procs,
    Services,   \* services at the start
    Plans       \* which command each process runs

Effects == {"scope", "workspace", "bind", "unscope", "update", "archive"}

Commands ==
    [kind : {"create"}, scope : Scopes, ws : Slugs, existing : BOOLEAN]
    \cup [kind : {"scopeCreate"}, scope : Scopes]
    \cup [kind : {"scopeBind"}, scope : Scopes, ws : Slugs]
    \cup [kind : {"scopeDelete"}, scope : Scopes, force : BOOLEAN]
    \cup [kind : {"update", "archive"}, ws : Slugs, force : BOOLEAN]

\* A scope that is not there has no bindings.
ServiceStates ==
    {s \in [scopes : SUBSET Scopes, bound : [Scopes -> SUBSET Slugs],
            ws : [Slugs -> {"absent", "active", "archived"}]] :
        \A sc \in Scopes \ s.scopes : s.bound[sc] = {}}

ASSUME ProvisioningAssumption ==
    /\ Services \subseteq ServiceStates
    /\ Plans \subseteq [Procs -> Commands]

VARIABLES svc, wire, signal, proc, did, doubt   \* see RemoteCommands

vars == <<svc, wire, signal, proc, did, doubt>>

-----------------------------------------------------------------------------
(* The service *)

Takes(s, m) ==
    CASE m.effect = "scope" -> m.scope \notin s.scopes
      [] m.effect \in {"bind", "unscope"} -> m.scope \in s.scopes
      [] m.effect = "workspace" -> s.ws[m.ws] = "absent"
      [] m.effect \in {"update", "archive"} -> s.ws[m.ws] = "active"

After(s, m) ==
    CASE m.effect = "scope" -> [s EXCEPT !.scopes = @ \cup {m.scope}, !.bound[m.scope] = {}]
      [] m.effect = "unscope" -> [s EXCEPT !.scopes = @ \ {m.scope}, !.bound[m.scope] = {}]
      [] m.effect = "bind" -> [s EXCEPT !.bound[m.scope] = m.bindings]
      [] m.effect = "workspace" -> [s EXCEPT !.ws[m.ws] = "active"]
      [] m.effect = "update" -> s
      [] m.effect = "archive" -> [s EXCEPT !.ws[m.ws] = "archived"]

INSTANCE RemoteCommands

PCs == {"start", "scope", "workspace", "rollback", "bindRead", "bindPut", "readBack",
        "verify", "show", "ask", "resolve", "scopeCreate", "unscope", "update",
        "archive", "exit", "ended"}

\* seen: the bindings read.
ProcStates ==
    [cmd : Commands, pc : PCs, replayed : BOOLEAN, seen : SUBSET Slugs,
     context : Claims, committed : BOOLEAN, result : Results, report : Results]

TypeOK ==
    /\ svc \in ServiceStates
    /\ \A m \in wire : m.by \in Procs /\ m.effect \in Effects
    /\ signal \subseteq Procs
    /\ proc \in [Procs -> ProcStates]
    /\ did \in [Procs -> SUBSET Effects]
    /\ doubt \in [Procs -> SUBSET Effects]

Init ==
    /\ svc \in Services
    /\ wire = {}
    /\ signal = {}
    /\ \E plan \in Plans :
         proc = [p \in Procs |->
                   [cmd |-> plan[p], pc |-> "start", replayed |-> FALSE, seen |-> {},
                    context |-> NothingChanged, committed |-> FALSE,
                    result |-> NoResult, report |-> NoResult]]
    /\ did = [p \in Procs |-> {}]
    /\ doubt = [p \in Procs |-> {}]

Kind(p) == proc[p].cmd.kind

-----------------------------------------------------------------------------
(* workspaces create *)

Write(p, effect) ==
    [by |-> p, effect |-> effect, scope |-> proc[p].cmd.scope]
WriteWs(p, effect) ==
    [by |-> p, effect |-> effect, ws |-> proc[p].cmd.ws]

\* Step 1 makes the scope, unless it exists.
Made(p) ==
    IF Kind(p) = "create" /\ ~proc[p].cmd.existing THEN {"scope"} ELSE {}

\* create_scope, one attempt.
CreateScope(p) ==
    /\ proc[p].pc = "scope"
    /\ Send(p, Write(p, "scope"), "scope",
            [a \in Answers |-> IF a = "ok"
                       THEN [At(p, "workspace") EXCEPT !.context = Claim({"scope"}, {})]
                       ELSE Exit(p, Failed(a, Told(a, {}, "scope")))])

\* Variant of NotCreated: any error counts (the TypeScript program).
NotCreatedOnError(a) == a # "ok"

\* The answers after which the workspace certainly does not exist.
NotCreated(a) == a \in {"rejected", "unauthorized", "local"}

\* create_workspace, one attempt.
CreateWorkspace(p) ==
    /\ proc[p].pc = "workspace"
    /\ Send(p, WriteWs(p, "workspace"), "workspace",
            [a \in Answers |->
              IF a = "ok"
              THEN [At(p, "bindRead") EXCEPT
                      !.context = Claim(Made(p) \cup {"workspace"}, {"bind"})]
              ELSE IF NotCreated(a) /\ Made(p) # {}
              THEN At(p, "rollback")
              ELSE Exit(p, Failed(a, Told(a, Made(p), "workspace")))])

\* rollback_scope: not started after a signal (which may still come between
\* the check and the request); whatever the deletion's failure, the scope is
\* reported as still present.
RollBack(p) ==
    /\ proc[p].pc = "rollback"
    /\ \/ /\ p \in signal
          /\ Move(p, Exit(p, Failed("unsent", Claim({"scope"}, {}))))
       \/ Send(p, Write(p, "unscope"), "rollback",
               [a \in Answers |-> Exit(p, Failed(a,
                 CASE a = "ok" -> Claim({"scope", "unscope"}, {})
                   [] a \in Interrupted -> Claim({"scope"}, {"unscope"})
                   [] OTHER -> Claim({"scope"}, {})))])

\* What is done before the binding: by workspaces create, everything else.
Before(p) == IF Kind(p) = "create" THEN Made(p) \cup {"workspace"} ELSE {}

\* A failed binding; an interrupted one of workspaces create is in doubt.
Unbound(p, a) ==
    Exit(p, Failed(a, IF Kind(p) = "create" /\ a \in Interrupted
                      THEN Claim(Before(p), {"bind"})
                      ELSE Told(a, Before(p), "bind")))

\* bind_workspace reads the scope; both requests are one attempt ...
BindRead(p) ==
    /\ proc[p].pc = "bindRead"
    /\ \/ /\ p \notin signal /\ proc[p].cmd.scope \in svc.scopes
          /\ Move(p, [proc[p] EXCEPT !.pc = "bindPut", !.seen = svc.bound[proc[p].cmd.scope]])
       \/ \E a \in Unread(p) : Move(p, Unbound(p, a))
       \/ /\ p \notin signal /\ Replays("unauthorized", proc[p].replayed)
          /\ Move(p, [At(p, "bindRead") EXCEPT !.replayed = TRUE])

\* ... and writes it back with the workspace; a replay reads it again.
BindPut(p) ==
    /\ proc[p].pc = "bindPut"
    /\ Send(p, [by |-> p, effect |-> "bind", scope |-> proc[p].cmd.scope,
                bindings |-> proc[p].seen \cup {proc[p].cmd.ws}], "bindRead",
            [a \in Answers |->
              IF a # "ok" THEN Unbound(p, a)
              ELSE IF Kind(p) = "create"
              THEN [At(p, "readBack") EXCEPT !.context = Claim(Before(p) \cup {"bind"}, {})]
              ELSE [At(p, "verify") EXCEPT !.committed = TRUE]])

\* Everything a command that got this far has done.
Saved(p) ==
    Claim(CASE Kind(p) = "create" -> Before(p) \cup {"bind"}
            [] Kind(p) = "scopeCreate" -> {"scope"}
            [] Kind(p) = "scopeBind" -> {"bind"}
            [] Kind(p) = "scopeDelete" -> {"unscope"}
            [] OTHER -> {Kind(p)}, {})

\* read_back_created, the same of a workspaces update, and that of a scopes
\* bind, which fails without the binding too.
ReadBack(p) ==
    /\ proc[p].pc \in {"readBack", "verify"}
    /\ \/ /\ p \notin signal
          /\ proc[p].pc = "verify" => proc[p].cmd.ws \in svc.bound[proc[p].cmd.scope]
          /\ Move(p, [Exit(p, Ok(Saved(p))) EXCEPT !.committed = TRUE])
       \/ \E a \in Unread(p) : Move(p, Exit(p, Failed(a, Saved(p))))

-----------------------------------------------------------------------------
(* The other commands *)

\* The first request of each command, or the question before it.
First(p) ==
    CASE Kind(p) = "create" -> IF Made(p) = {} THEN "workspace" ELSE "scope"
      [] Kind(p) = "scopeCreate" -> "scopeCreate"
      [] Kind(p) = "scopeBind" -> "resolve"
      [] Kind(p) = "scopeDelete" -> IF proc[p].cmd.force THEN "unscope" ELSE "show"
      [] Kind(p) = "update" -> "resolve"
      [] Kind(p) = "archive" -> IF proc[p].cmd.force THEN "resolve" ELSE "ask"

\* What a confirmed or resolved command goes on with.
Second(p) ==
    CASE Kind(p) = "scopeBind" -> "bindRead"
      [] Kind(p) = "scopeDelete" -> "unscope"
      [] Kind(p) = "update" ->
            IF proc[p].pc = "resolve" /\ ~proc[p].cmd.force THEN "ask" ELSE "update"
      [] Kind(p) = "archive" -> IF proc[p].pc = "ask" THEN "resolve" ELSE "archive"

Unchanged(p, a) == Exit(p, Failed(a, NothingChanged))

\* connect: the tenant and the token.
Start(p) ==
    /\ proc[p].pc = "start"
    /\ \/ p \notin signal /\ Move(p, At(p, First(p)))
       \/ \E a \in Unread(p) : Move(p, Unchanged(p, a))

\* The bindings `scopes delete` shows, and resolve_admin of a workspace.
Resolve(p) ==
    /\ proc[p].pc \in {"show", "resolve"}
    /\ \/ /\ p \notin signal
          /\ IF proc[p].pc = "show" THEN proc[p].cmd.scope \in svc.scopes
                                    ELSE svc.ws[proc[p].cmd.ws] = "active"
          /\ Move(p, At(p, IF proc[p].pc = "show" THEN "ask" ELSE Second(p)))
       \/ \E a \in Unread(p) : Move(p, Unchanged(p, a))

\* The confirmation: confirmed, declined, or ended by a signal.
Confirm(p) ==
    /\ proc[p].pc = "ask"
    /\ \/ p \notin signal /\ Move(p, At(p, Second(p)))
       \/ p \notin signal /\ Move(p, Exit(p, Ok(NothingChanged)))
       \/ p \in signal /\ Move(p, Unchanged(p, "unsent"))

\* A command of one write: scopes create and delete, workspaces update (which
\* reads the workspace back) and archive.
OneWrite(p) ==
    /\ proc[p].pc \in {"scopeCreate", "unscope", "update", "archive"}
    /\ LET m == CASE proc[p].pc = "scopeCreate" -> Write(p, "scope")
                  [] proc[p].pc = "unscope" -> Write(p, "unscope")
                  [] OTHER -> WriteWs(p, proc[p].pc)
       IN  Send(p, m, proc[p].pc,
                [a \in Answers |-> IF a = "ok" /\ m.effect = "update"
                           THEN [At(p, "readBack") EXCEPT !.committed = TRUE]
                           ELSE IF a = "ok"
                           THEN [Exit(p, Ok(Saved(p))) EXCEPT !.committed = TRUE]
                           ELSE Exit(p, Failed(a, Told(a, {}, m.effect)))])

Next ==
    \/ \E p \in Procs :
         \/ Start(p) \/ CreateScope(p) \/ CreateWorkspace(p) \/ RollBack(p)
         \/ BindRead(p) \/ BindPut(p) \/ ReadBack(p)
         \/ Resolve(p) \/ Confirm(p) \/ OneWrite(p)
         \/ Report(p, Saved(p)) \/ Signal(p)
    \/ \E m \in wire : Arrive(m)

Spec == Init /\ [][Next]_vars

-----------------------------------------------------------------------------
(* Properties *)

\* D229: "never delete a resource a created workspace may depend on".  A run
\* that takes its scope back created no workspace with it, and will not have
\* created one when all its writes have arrived.
ScopeKept ==
    \A p \in Procs :
        Kind(p) = "create" /\ "unscope" \in did[p] \cup doubt[p]
            => "workspace" \notin did[p] \cup doubt[p]

\* A deletion of the scope that got no readable answer, after which
\* workspaces create says that the scope is still present.
RollbackInDoubt(p) ==
    /\ Kind(p) = "create"
    /\ proc[p].result.says = Claim({"scope"}, {})
    /\ "unscope" \in did[p] \cup doubt[p]

\* What a command returns is true of its own writes, those included that the
\* service carries out after the command has ended.
ResultTrue ==
    \A p \in Procs :
        proc[p].result.kind # "none" /\ ~RollbackInDoubt(p)
            => True(proc[p].result.says, did[p], doubt[p])

\* DESIGN 19.6: an interrupted command says "nothing was changed" before its
\* first write is sent, and only then.
NothingChangedTrue ==
    \A p \in Procs :
        proc[p].report.kind = "interrupted" /\ proc[p].report.says = NothingChanged
            => did[p] \cup doubt[p] = {}

=============================================================================

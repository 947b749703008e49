------------------------ MODULE MCScopeProvisioning ------------------------
(* One scope, two workspaces, two commands at once. *)
EXTENDS ScopeProvisioning, TLC

CONSTANTS s, w1, w2, p1, p2

MCScopes == {s}
MCSlugs == {w1, w2}
MCProcs == {p1, p2}

\* Nothing; a scope and a workspace not bound to it; ... bound to it.
Service(scopes, bound, ws2) ==
    [scopes |-> scopes, bound |-> s :> bound, ws |-> w1 :> "absent" @@ w2 :> ws2]
MCServices ==
    {Service({}, {}, "absent"), Service({s}, {}, "active"), Service({s}, {w2}, "active")}

Create(w, existing) == [kind |-> "create", scope |-> s, ws |-> w, existing |-> existing]

\* What runs beside a workspaces create with a new or an existing scope.
Others ==
    {Create(w2, FALSE), Create(w2, TRUE), [kind |-> "scopeCreate", scope |-> s],
     [kind |-> "scopeBind", scope |-> s, ws |-> w2],
     [kind |-> "scopeDelete", scope |-> s, force |-> FALSE],
     [kind |-> "scopeDelete", scope |-> s, force |-> TRUE],
     [kind |-> "archive", ws |-> w2, force |-> TRUE],
     [kind |-> "archive", ws |-> w2, force |-> FALSE],
     [kind |-> "update", ws |-> w2, force |-> FALSE]}

MCPlans == {p1 :> Create(w1, e) @@ p2 :> o : e \in BOOLEAN, o \in Others}
=============================================================================

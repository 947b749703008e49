--------------------------- MODULE MCTenantStore ---------------------------
(* Three names, two of which differ only in case, room for two tenants. *)
EXTENDS TenantStore, TLC

CONSTANTS t1, t2, v, p1, p2

MCNames == {1, 2, 3}
MCFold == <<1, 1, 3>>
MCTsgs == {t1, t2}
MCVals == {v}
MCProcs == {p1, p2}

A == [tsg |-> t1, val |-> v]
B == [tsg |-> t2, val |-> None]

\* One import that adds and replaces, one with two alike names.
MCSources == {1 :> B @@ 3 :> A, 1 :> A @@ 2 :> B}

Store(pins, selected, files) ==
    [index |-> [pin |-> pins, active |-> selected], file |-> files]

\* Nothing; a tenant and the orphan file of another; two tenants.
MCStores ==
    {Store(<<None, None, None>>, None, <<None, None, None>>),
     Store(<<t1, None, None>>, None, <<A, None, B>>),
     Store(<<t1, None, t2>>, 1, <<A, None, B>>)}

Symmetry == Permutations(MCProcs)
=============================================================================

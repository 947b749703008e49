-------------------------- MODULE TenantCommands --------------------------
(***************************************************************************)
(* What a tenant is and what the `airs tenant` write commands ask for      *)
(* (commands/tenant_write.rs, commands/tenant_import.rs).  A tenant is     *)
(* registered in config.toml with its TSG id (the pin) and has a config    *)
(* file: its own TSG id and one other value.  Names are numbers in their   *)
(* byte order.                                                             *)
(***************************************************************************)
EXTENDS Naturals, FiniteSets

CONSTANTS
    Names,       \* tenant names
    Fold,        \* a name without its letter case
    Tsgs,        \* TSG ids
    Vals,        \* values of another key
    None,        \* no name, no value, no file
    MaxTenants,  \* MAX_TENANTS (1000)
    Sources      \* TypeScript registries `tenant import` may read

Configs == [tsg : Tsgs, val : Vals \cup {None}]

ASSUME NamesAssumption ==
    /\ Names \subseteq Nat
    /\ IsFiniteSet(Names)
    /\ DOMAIN Fold = Names
    /\ None \notin Names \cup Tsgs \cup Vals \cup Configs
    /\ MaxTenants \in Nat \ {0}
    /\ \A s \in Sources : DOMAIN s \subseteq Names /\ \A n \in DOMAIN s : s[n] \in Configs

\* Index::case_conflict: other names that differ from n only in letter case.
Alike(n) == {m \in Names \ {n} : Fold[m] = Fold[n]}

Named == [kind : {"unset", "switch", "delete"}, name : Names]
Commands ==
    [kind : {"create"}, name : Names, config : Configs]
    \cup [kind : {"setVal"}, name : Names, val : Vals]
    \cup [kind : {"setTsg"}, name : Names, tsg : Tsgs]
    \cup Named
    \cup [kind : {"import"}, source : Sources, select : Names \cup {None}, replace : BOOLEAN]

=============================================================================

-------------------------- MODULE TenantRegistry --------------------------
(***************************************************************************)
(* The tenant store as its users may think of it: every write command      *)
(* happens at one instant, on the state it then finds.  The exception the  *)
(* design admits: a two-file change that is cut short (a crash, or a       *)
(* restore that failed) may leave tenants with the config the command was  *)
(* writing but not its pin.                                                *)
(***************************************************************************)
EXTENDS TenantCommands

VARIABLES
    reg,     \* tenants: the registered TSG id and the config
    active,  \* the selected tenant
    last     \* the command that took effect last

Tenants == [pin : Tsgs, config : Configs]

Init ==
    /\ reg \in [Names -> Tenants \cup {None}]
    /\ active \in Names \cup {None}
    /\ last = None

Registered == {n \in Names : reg[n] # None}
Sound(n) == n \in Registered /\ reg[n].pin = reg[n].config.tsg
Tenant(config) == [pin |-> config.tsg, config |-> config]

Did(cmd, r, a) == reg' = r /\ active' = a /\ last' = cmd

Create(cmd) ==
    /\ cmd.name \notin Registered /\ Alike(cmd.name) \cap Registered = {}
    /\ Cardinality(Registered) < MaxTenants
    /\ Did(cmd, [reg EXCEPT ![cmd.name] = Tenant(cmd.config)], active)

SetVal(cmd) ==
    /\ Sound(cmd.name)
    /\ Did(cmd, [reg EXCEPT ![cmd.name].config.val = cmd.val], active)

SetTsg(cmd) ==
    /\ cmd.name \in Registered
    /\ Did(cmd, [reg EXCEPT ![cmd.name].pin = cmd.tsg, ![cmd.name].config.tsg = cmd.tsg], active)

Unset(cmd) ==
    /\ Sound(cmd.name)
    /\ Did(cmd, [reg EXCEPT ![cmd.name].config.val = None], active)

Switch(cmd) ==
    /\ Sound(cmd.name)
    /\ Did(cmd, reg, cmd.name)

Delete(cmd) ==
    /\ cmd.name \in Registered
    /\ Did(cmd, [reg EXCEPT ![cmd.name] = None], IF active = cmd.name THEN None ELSE active)

\* Some of the tenants of the registry that was read, never two that differ
\* only in case, and existing ones only with --replace.
Import(cmd) ==
    \E W \in SUBSET DOMAIN cmd.source :
        /\ W # {}
        /\ \A n \in W : Alike(n) \cap (W \cup Registered) = {}
        /\ cmd.replace \/ W \cap Registered = {}
        /\ Cardinality(Registered \cup W) <= MaxTenants \/ W \subseteq Registered
        /\ Did(cmd, [n \in Names |-> IF n \in W THEN Tenant(cmd.source[n]) ELSE reg[n]],
               IF active = None /\ cmd.select \in W THEN cmd.select ELSE active)

\* A two-file change cut short: the config of some tenants is the one it was
\* writing, their pin is not.
CutShort(n) ==
    /\ n \in Registered /\ reg'[n] # None /\ reg'[n].pin = reg[n].pin
    /\ \/ \E t \in Tsgs : reg'[n].config = [reg[n].config EXCEPT !.tsg = t]
       \/ \E s \in Sources : n \in DOMAIN s /\ reg'[n].config = s[n]

Cut ==
    /\ reg' \in [Names -> Tenants \cup {None}]
    /\ \A n \in Names : reg'[n] = reg[n] \/ CutShort(n)
    /\ UNCHANGED <<active, last>>

Take(cmd) ==
    \/ cmd.kind = "create" /\ Create(cmd)
    \/ cmd.kind = "setVal" /\ SetVal(cmd)
    \/ cmd.kind = "setTsg" /\ SetTsg(cmd)
    \/ cmd.kind = "unset" /\ Unset(cmd)
    \/ cmd.kind = "switch" /\ Switch(cmd)
    \/ cmd.kind = "delete" /\ Delete(cmd)
    \/ cmd.kind = "import" /\ Import(cmd)

Next ==
    \/ \E cmd \in Commands : Take(cmd)
    \/ Cut

Spec == Init /\ [][Next]_<<reg, active, last>>

=============================================================================

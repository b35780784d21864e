------------------------------ MODULE TenantRole ------------------------------
(***************************************************************************)
(* The Role "cluster-user" of each tenant namespace.  The NetboxTenant     *)
(* controller creates it and rewrites it on every poll; the ClusterClaim   *)
(* controller appends a claim's kubeconfig secret to the resourceNames of  *)
(* its secrets rule and removes it again.  Both read the Role from the     *)
(* informer cache and write it under the API server's optimistic lock.     *)
(*                                                                         *)
(* The list restricts the rule only while it names something: it is        *)
(* omitempty, and to RBAC a rule without resourceNames covers every secret *)
(* of the namespace.                                                       *)
(***************************************************************************)
EXTENDS Netbox

CONSTANT Lag    \* TRUE: reads come from an informer cache that may be stale

ASSUME LagAssumption == Lag \in BOOLEAN

VARIABLES
    role,       \* role[t]: does the Role exist, and whose secrets does it name
    roleSeen,   \* the informer's copy of it
    roleCur     \* is that copy at the Role's current resourceVersion?

roleVars == <<role, roleSeen, roleCur>>

\* names: whose kubeconfig secrets the resourceNames of the secrets rule list.
Role == [exists: BOOLEAN, names: SUBSET Claims]

\* RBAC lets the tenant's users read the kubeconfig secret of claim c.
MayGet(rule, c) == rule.exists /\ (rule.names = {} \/ c \in rule.names)

RoleTypeOK ==
    /\ role \in [Tenants -> Role]
    /\ roleSeen \in [Tenants -> Role]
    /\ roleCur \in [Tenants -> BOOLEAN]

RoleInit ==
    /\ role = [t \in Tenants |-> [exists |-> FALSE, names |-> {}]]
    /\ roleSeen = role
    /\ roleCur = [t \in Tenants |-> TRUE]

\* A write the API server accepts; without Lag the informer has it at once.
RoleStore(t, new) ==
    /\ role' = [role EXCEPT ![t] = new]
    /\ IF Lag THEN /\ roleCur' = [roleCur EXCEPT ![t] = FALSE]
                   /\ UNCHANGED roleSeen
              ELSE /\ roleSeen' = [roleSeen EXCEPT ![t] = new]
                   /\ UNCHANGED roleCur

\* The informer catches up with the Role of tenant t.
RoleSync(t) ==
    /\ ~roleCur[t]
    /\ roleSeen' = [roleSeen EXCEPT ![t] = role[t]]
    /\ roleCur' = [roleCur EXCEPT ![t] = TRUE]
    /\ UNCHANGED role

KeepsNames(t) ==                                \* mutant: names that are there are kept
    /\ roleCur[t] /\ ~role[t].exists
    /\ RoleStore(t, [exists |-> TRUE, names |-> {}])

(***************************************************************************)
(* One poll of the NetboxTenant controller for tenant t, as far as claims  *)
(* can see it: create the Role, or put its rules back to what the mutate   *)
(* function says, with an empty list of resourceNames, which opens all the *)
(* secrets of the namespace to the tenant.  From a stale copy the write is *)
(* refused or unnecessary, and the next poll tries again.                  *)
(***************************************************************************)
ReconcileTenantRole(t) ==
    /\ roleCur[t]
    /\ role[t] # [exists |-> TRUE, names |-> {}]
    /\ RoleStore(t, [exists |-> TRUE, names |-> {}])
=============================================================================

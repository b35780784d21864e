----------------------------- MODULE TenantSync -----------------------------
(***************************************************************************)
(* The NetboxTenant controller: every poll lists the tenants of Netbox     *)
(* once and then ensures, tenant by tenant, Namespace, ResourceQuota, Role *)
(* and RoleBinding, in this order.  The first error ends the tenant, not   *)
(* the poll.  It reads each kind from an informer of its own, so the four  *)
(* copies may be out of date independently.  A namespace deleted by an     *)
(* administrator stays, terminating, until its contents are gone; nothing  *)
(* can be created in it meanwhile.                                         *)
(*                                                                         *)
(* What the Role says about secrets is the subject of TenantRole.          *)
(***************************************************************************)
EXTENDS Naturals, Sequences

CONSTANTS
    Tenants, NoTenant,
    Stuck,          \* tenants whose namespace never gets empty once it is deleted
    MaxLimit,       \* bound: the custom field k8s_max_clusters
    MaxFaults,      \* bound: failed requests, lost answers, crashes
    MaxEdits        \* bound: namespaces deleted and limits changed

ASSUME TenantSyncAssumption ==
    /\ NoTenant \notin Tenants /\ Stuck \subseteq Tenants
    /\ MaxLimit \in Nat \ {0} /\ MaxFaults \in Nat /\ MaxEdits \in Nat

VARIABLES
    limit,      \* limit[t]: the custom field in Netbox
    object,     \* object[t]: the namespace of t and what is in it
    seen,       \* seen[t]: the informers' copies
    plan,       \* the listing: tenants still to be handled, with their limits
    current,    \* the tenant being handled
    step,       \* which of Steps to ensure next, as an index of Steps
    unchecked,  \* tenants whose quota was last found in a copy, but was gone
    faults, edits

vars == <<limit, object, seen, plan, current, step, unchecked, faults, edits>>

-------------------------------------------------------------------------------
\* 0 is an absent object; quota is its number of clusters, Role and RoleBinding have one
\* content each, 1.
Objects == [namespace: {"absent", "active", "terminating"},
            quota: 0..MaxLimit, role: 0..1, binding: 0..1]
Nothing == [namespace |-> "absent", quota |-> 0, role |-> 0, binding |-> 0]

Wanted(t, k) ==
    IF k = "quota" THEN IF plan[t] > 1 THEN plan[t] ELSE 1 ELSE 1

QuotaLast == <<"role", "binding", "quota">>     \* mutant: rights before their cap

Steps == <<"quota", "role", "binding">>

\* The type invariant.
TenantTypeOK ==
    /\ limit \in [Tenants -> 0..MaxLimit]
    /\ object \in [Tenants -> Objects] /\ seen \in [Tenants -> Objects]
    /\ DOMAIN plan \subseteq Tenants /\ \A t \in DOMAIN plan : plan[t] \in 0..MaxLimit
    /\ current \in DOMAIN plan \cup {NoTenant}
    /\ step \in 1..3
    /\ unchecked \subseteq Tenants /\ faults \in 0..MaxFaults /\ edits \in 0..MaxEdits

NoPlan == [t \in {} |-> 0]

Init ==
    /\ limit = [t \in Tenants |-> 0]
    /\ object = [t \in Tenants |-> Nothing] /\ seen = object
    /\ plan = NoPlan /\ current = NoTenant /\ step = 1
    /\ unchecked = {} /\ faults = 0 /\ edits = 0

Fault == faults < MaxFaults /\ faults' = faults + 1

-------------------------------------------------------------------------------
(* A poll *)

\* One request.  An error is retried, an error document is an empty listing: either way
\* nothing is done in this round.
ListTenants ==
    \/ plan' = limit /\ UNCHANGED faults
    \/ Fault /\ UNCHANGED plan

Poll ==
    /\ plan = NoPlan
    /\ ListTenants
    /\ UNCHANGED <<limit, object, seen, current, step, unchecked, edits>>

\* On to the next tenant.
Leave(t) ==
    /\ plan' = [u \in DOMAIN plan \ {t} |-> plan[u]]
    /\ current' = NoTenant /\ step' = 1

AbortPoll(t) ==                                 \* mutant: the error ends the loop
    /\ plan' = NoPlan
    /\ current' = NoTenant /\ step' = 1

\* reconcileTenant returns an error: the loop logs it and continues.
GiveUp(t) == Leave(t)

EnsureNamespace(t) ==
    /\ current = NoTenant /\ t \in DOMAIN plan
    /\ \/ /\ seen[t].namespace # "absent" \/ object[t].namespace = "absent"
          /\ object' = IF seen[t].namespace = "absent"
                       THEN [object EXCEPT ![t].namespace = "active"] ELSE object
          /\ current' = t /\ UNCHANGED <<plan, step, faults>>
       \/ /\ seen[t].namespace = "absent" /\ object[t].namespace # "absent"
          /\ GiveUp(t) /\ UNCHANGED <<object, faults>>
       \/ /\ seen[t].namespace = "absent"
          /\ Fault /\ GiveUp(t)
          /\ \/ UNCHANGED object
             \/ /\ object[t].namespace = "absent"
                /\ object' = [object EXCEPT ![t].namespace = "active"]
    /\ UNCHANGED <<limit, seen, unchecked, edits>>

Accepted(t, k) ==
    IF seen[t][k] = 0 THEN object[t][k] = 0 /\ object[t].namespace = "active"
                      ELSE object[t][k] = seen[t][k]

\* What a Create or Update of object k leaves in the API server.
Written(t, k) == [object EXCEPT ![t][k] = Wanted(t, k)]

ProceedPast(t) ==                               \* mutant: one object too many
    IF step > Len(Steps) THEN Leave(t)
    ELSE step' = step + 1 /\ UNCHANGED <<plan, current>>

Proceed(t) ==
    IF step = Len(Steps) THEN Leave(t)
    ELSE step' = step + 1 /\ UNCHANGED <<plan, current>>

EnsureIgnored(t) ==                             \* mutant: the quota's error is ignored
    LET k == Steps[step]
    IN  /\ current = t
        /\ object' = IF seen[t][k] # Wanted(t, k) /\ Accepted(t, k)
                     THEN Written(t, k) ELSE object
        /\ Proceed(t) /\ UNCHANGED <<unchecked, faults>>
        /\ UNCHANGED <<limit, seen, edits>>

(***************************************************************************)
(* CreateOrUpdate of the quota, the Role or the RoleBinding: nothing to do *)
(* if the copy is as wanted; a write that the API server accepts; or one   *)
(* it refuses, because the copy is out of date or the namespace is not     *)
(* there any more.  A request or its answer may be lost.                   *)
(***************************************************************************)
EnsureObject(t) ==
    LET k == Steps[step]
        fresh == seen[t][k] = Wanted(t, k)
    IN  /\ current = t
        /\ \/ /\ fresh /\ UNCHANGED <<object, faults>>
              /\ Proceed(t)
           \/ /\ ~fresh /\ Accepted(t, k)
              /\ object' = Written(t, k) /\ UNCHANGED faults
              /\ Proceed(t)
           \/ /\ ~fresh /\ ~Accepted(t, k)
              /\ GiveUp(t) /\ UNCHANGED <<object, faults>>
           \/ /\ ~fresh /\ Fault
              /\ UNCHANGED object \/ (Accepted(t, k) /\ object' = Written(t, k))
              /\ GiveUp(t)
        /\ unchecked' = {u \in Tenants : \/ u \in unchecked /\ object'[u].quota = 0
                                        \/ /\ u = t /\ k = "quota" /\ fresh
                                           /\ object[u].quota = 0}
        /\ UNCHANGED <<limit, seen, edits>>

-------------------------------------------------------------------------------
(* What the controller does not decide *)

\* An informer catches up.
Sync(t, k) ==
    /\ seen[t][k] # object[t][k]
    /\ seen' = [seen EXCEPT ![t][k] = object[t][k]]
    /\ UNCHANGED <<limit, object, plan, current, step, unchecked, faults, edits>>

\* The process restarts; its informers list anew.
Crash ==
    /\ Fault
    /\ seen' = object
    /\ plan' = NoPlan /\ current' = NoTenant /\ step' = 1
    /\ UNCHANGED <<limit, object, unchecked, edits>>

DeleteNamespace(t) ==
    /\ edits < MaxEdits /\ edits' = edits + 1
    /\ object[t].namespace = "active"
    /\ object' = [object EXCEPT ![t].namespace = "terminating"]
    /\ UNCHANGED <<limit, seen, plan, current, step, unchecked, faults>>

\* The namespace controller removes what is in a terminating namespace, kind by kind,
\* and then the namespace.
Purge(t) ==
    /\ object[t].namespace = "terminating" /\ t \notin Stuck
    /\ \/ \E k \in {"quota", "role", "binding"} :
             object[t][k] # 0 /\ object' = [object EXCEPT ![t][k] = 0]
       \/ /\ object[t] = [Nothing EXCEPT !.namespace = "terminating"]
          /\ object' = [object EXCEPT ![t] = Nothing]
    /\ UNCHANGED <<limit, seen, plan, current, step, unchecked, faults, edits>>

SetLimit(t) ==
    /\ edits < MaxEdits /\ edits' = edits + 1
    /\ \E n \in 0..MaxLimit : n # limit[t] /\ limit' = [limit EXCEPT ![t] = n]
    /\ UNCHANGED <<object, seen, plan, current, step, unchecked, faults>>

Next ==
    \/ Poll \/ Crash
    \/ \E t \in Tenants : \/ EnsureNamespace(t) \/ EnsureObject(t)
                          \/ DeleteNamespace(t) \/ Purge(t) \/ SetLimit(t)
                          \/ \E k \in DOMAIN Nothing : Sync(t, k)

Spec == Init /\ [][Next]_vars

(***************************************************************************)
(* RequeueAfter brings the next poll, a running one goes on, the watches   *)
(* deliver, and a namespace that can be emptied is.  No fairness for       *)
(* faults and edits.                                                       *)
(***************************************************************************)
Fairness ==
    /\ WF_vars(Poll)
    /\ WF_vars(\E t \in Tenants : EnsureNamespace(t) \/ EnsureObject(t))
    /\ \A t \in Tenants : /\ WF_vars(Purge(t))
                          /\ \A k \in DOMAIN Nothing : WF_vars(Sync(t, k))

FairSpec == Spec /\ Fairness

-------------------------------------------------------------------------------
(* Properties *)

\* A tenant's group is never able to create claims without the quota that caps them,
\* although the four objects are written one by one, from copies of different age, into
\* a namespace that may go and come back.  The one exception the code leaves is a quota
\* that was found in a copy from before the namespace went.
RightsCapped ==
    \A t \in Tenants :
        LET o == object[t]
        IN  (o.namespace = "active" /\ o.role = 1 /\ o.binding = 1 /\ o.quota = 0)
                => t \in unchecked

\* "ensures a matching Kubernetes namespace + ResourceQuota + RoleBinding exist for each
\* one" (netboxtenant_controller.go:22): edits are few, so in the end each tenant has its
\* four objects and the quota that Netbox says, at least 1, also after its namespace was
\* deleted, and whatever state another tenant's namespace is stuck in.
TenantsProvided ==
    \A t \in Tenants \ Stuck :
        []<>(object[t] = [namespace |-> "active", role |-> 1, binding |-> 1,
                          quota |-> IF limit[t] > 1 THEN limit[t] ELSE 1])
=============================================================================

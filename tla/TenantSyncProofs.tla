-------------------------- MODULE TenantSyncProofs --------------------------
(***************************************************************************)
(* Theorems about TenantSync, for every number of tenants, limits, faults  *)
(* and edits, and whatever namespaces get stuck while they terminate.      *)
(***************************************************************************)
EXTENDS TenantSync, TLAPS

Stored == {"quota", "role", "binding"}

LEMMA StepNames ==
    /\ Steps[1] = "quota" /\ Steps[2] = "role" /\ Steps[3] = "binding" /\ Len(Steps) = 3
    /\ \A n \in 1..3 : Steps[n] \in Stored
BY DEF Steps, Stored

LEMMA Kinds == DOMAIN Nothing = {"namespace", "quota", "role", "binding"} /\ Nothing \in Objects
BY TenantSyncAssumption DEF Nothing, Objects

\* What may become of the objects of a tenant, one field at a time.
LEMMA ObjectFields ==
    ASSUME NEW o \in Objects
    PROVE  /\ o.namespace \in {"absent", "active", "terminating"} /\ o.quota \in 0..MaxLimit
           /\ o.role \in 0..1 /\ o.binding \in 0..1
           /\ \A ns \in {"absent", "active", "terminating"} : [o EXCEPT !.namespace = ns] \in Objects
           /\ \A q \in 0..MaxLimit : [o EXCEPT !.quota = q] \in Objects
           /\ \A r \in 0..1 : [o EXCEPT !.role = r] \in Objects /\ [o EXCEPT !.binding = r] \in Objects
BY DEF Objects

-------------------------------------------------------------------------------
(* Types *)

PlanOK == /\ DOMAIN plan \subseteq Tenants /\ \A t \in DOMAIN plan : plan[t] \in 0..MaxLimit
          /\ current \in DOMAIN plan \cup {NoTenant} /\ step \in 1..3

LEMMA NoPlanOK == ASSUME plan' = NoPlan, current' = NoTenant, step' = 1 PROVE PlanOK'
BY DEF PlanOK, NoPlan

LEMMA LeaveOK == ASSUME PlanOK, NEW t, Leave(t) PROVE PlanOK'
BY DEF PlanOK, Leave

LEMMA ProceedOK == ASSUME PlanOK, NEW t, Proceed(t) PROVE PlanOK'
<1>1. CASE step = Len(Steps)
  BY <1>1, LeaveOK DEF Proceed
<1>2. CASE step # Len(Steps)
  BY <1>2, StepNames DEF Proceed, PlanOK
<1>3. QED
  BY <1>1, <1>2

LEMMA WantedType ==
    ASSUME PlanOK, NEW t \in DOMAIN plan
    PROVE  Wanted(t, "quota") \in 1..MaxLimit /\ Wanted(t, "role") = 1 /\ Wanted(t, "binding") = 1
BY TenantSyncAssumption DEF PlanOK, Wanted

\* An accepted write of object k, and what it leaves alone.
LEMMA WrittenType ==
    ASSUME PlanOK, object \in [Tenants -> Objects], NEW t \in DOMAIN plan,
           NEW k \in Stored, object' = Written(t, k)
    PROVE  /\ object' \in [Tenants -> Objects]
           /\ \A u \in Tenants : u # t => object'[u] = object[u]
           /\ object'[t].namespace = object[t].namespace
           /\ k = "quota" => /\ object'[t].quota # 0
                             /\ object'[t].role = object[t].role
                             /\ object'[t].binding = object[t].binding
           /\ k # "quota" => object'[t].quota = object[t].quota
<1>0. t \in Tenants /\ object[t] \in Objects
  BY DEF PlanOK
<1>1. CASE k = "quota"
  <2>1. object' = [object EXCEPT ![t].quota = Wanted(t, "quota")] /\ Wanted(t, "quota") \in 1..MaxLimit
    BY <1>1, WantedType DEF Written
  <2>2. object'[t] = [object[t] EXCEPT !.quota = Wanted(t, "quota")]
    BY <1>0, <2>1
  <2>3. object'[t] \in Objects
    BY <1>0, <2>1, <2>2 DEF Objects
  <2>4. object' \in [Tenants -> Objects] /\ \A u \in Tenants : u # t => object'[u] = object[u]
    BY <1>0, <2>1, <2>2, <2>3
  <2>5. /\ object'[t].namespace = object[t].namespace /\ object'[t].quota = Wanted(t, "quota")
        /\ object'[t].role = object[t].role /\ object'[t].binding = object[t].binding
    BY <1>0, <2>1, <2>2 DEF Objects
  <2>6. QED
    BY <1>1, <2>1, <2>4, <2>5
<1>2. CASE k = "role"
  <2>1. object' = [object EXCEPT ![t].role = 1]
    BY <1>2, WantedType DEF Written
  <2>2. object'[t] = [object[t] EXCEPT !.role = 1]
    BY <1>0, <2>1
  <2>3. object'[t] \in Objects
    BY <1>0, <2>2 DEF Objects
  <2>4. object' \in [Tenants -> Objects] /\ \A u \in Tenants : u # t => object'[u] = object[u]
    BY <1>0, <2>1, <2>2, <2>3
  <2>5. /\ object'[t].namespace = object[t].namespace /\ object'[t].role = 1
        /\ object'[t].quota = object[t].quota /\ object'[t].binding = object[t].binding
    BY <1>0, <2>1, <2>2 DEF Objects
  <2>6. QED
    BY <1>2, <2>1, <2>4, <2>5
<1>3. CASE k = "binding"
  <2>1. object' = [object EXCEPT ![t].binding = 1]
    BY <1>3, WantedType DEF Written
  <2>2. object'[t] = [object[t] EXCEPT !.binding = 1]
    BY <1>0, <2>1
  <2>3. object'[t] \in Objects
    BY <1>0, <2>2 DEF Objects
  <2>4. object' \in [Tenants -> Objects] /\ \A u \in Tenants : u # t => object'[u] = object[u]
    BY <1>0, <2>1, <2>2, <2>3
  <2>5. /\ object'[t].namespace = object[t].namespace /\ object'[t].binding = 1
        /\ object'[t].quota = object[t].quota /\ object'[t].role = object[t].role
    BY <1>0, <2>1, <2>2 DEF Objects
  <2>6. QED
    BY <1>3, <2>1, <2>4, <2>5
<1>4. QED
  BY <1>1, <1>2, <1>3 DEF Stored

\* The controller handles a tenant of its listing.
LEMMA EnsureCases ==
    ASSUME TenantTypeOK, NEW t \in Tenants, EnsureObject(t)
    PROVE  LET k == Steps[step]
           IN  /\ t \in DOMAIN plan /\ k \in Stored /\ current = t
               /\ Leave(t) \/ Proceed(t)
               /\ faults' = faults \/ Fault
               /\ \/ UNCHANGED object
                  \/ object' = Written(t, k) /\ Accepted(t, k) /\ seen[t][k] # Wanted(t, k)
               /\ Proceed(t) => \/ seen[t][k] = Wanted(t, k) /\ UNCHANGED object
                                \/ object' = Written(t, k)
                                \/ Leave(t)
               /\ unchecked' = {u \in Tenants : \/ u \in unchecked /\ object'[u].quota = 0
                                               \/ /\ u = t /\ k = "quota"
                                                  /\ seen[t][k] = Wanted(t, k)
                                                  /\ object[u].quota = 0}
               /\ UNCHANGED <<limit, seen, edits>>
<1>1. t \in DOMAIN plan /\ Steps[step] \in Stored
  BY TenantSyncAssumption, StepNames DEF TenantTypeOK, EnsureObject
<1>2. QED
  BY <1>1 DEF EnsureObject, GiveUp

LEMMA TenantTypeNext == TenantTypeOK /\ [Next]_vars => TenantTypeOK'
<1> SUFFICES ASSUME TenantTypeOK, [Next]_vars PROVE TenantTypeOK'
  OBVIOUS
<1> USE DEF TenantTypeOK
<1>0. PlanOK /\ MaxFaults \in Nat /\ MaxEdits \in Nat
  BY TenantSyncAssumption DEF PlanOK
<1>01. /\ Fault => faults' \in 0..MaxFaults
       /\ edits < MaxEdits /\ edits' = edits + 1 => edits' \in 0..MaxEdits
  BY <1>0 DEF Fault
<1>1. CASE Poll
  BY <1>01, <1>1 DEF Poll, ListTenants
<1>2. CASE Crash
  <2>1. PlanOK'
    BY <1>2, NoPlanOK DEF Crash
  <2>2. QED
    BY <1>01, <1>2, <2>1 DEF Crash, PlanOK
<1>3. ASSUME NEW t \in Tenants, EnsureNamespace(t) PROVE TenantTypeOK'
  <2>1. PlanOK'
    <3>1. CASE Leave(t)
      BY <1>0, <3>1, LeaveOK
    <3>2. CASE current' = t /\ t \in DOMAIN plan /\ UNCHANGED <<plan, step>>
      BY <1>0, <3>2 DEF PlanOK
    <3>3. QED
      BY <1>3, <3>1, <3>2 DEF EnsureNamespace, GiveUp
  <2>2. object' \in [Tenants -> Objects]
    <3>1. UNCHANGED object \/ object' = [object EXCEPT ![t].namespace = "active"]
      BY <1>3 DEF EnsureNamespace
    <3>2. [object[t] EXCEPT !.namespace = "active"] \in Objects
      BY ObjectFields
    <3>3. QED
      BY <3>1, <3>2
  <2>3. faults' = faults \/ Fault
    BY <1>3 DEF EnsureNamespace
  <2>4. QED
    BY <1>01, <1>3, <2>1, <2>2, <2>3 DEF EnsureNamespace, PlanOK
<1>4. ASSUME NEW t \in Tenants, EnsureObject(t) PROVE TenantTypeOK'
  <2>1. PlanOK'
    BY <1>0, <1>4, EnsureCases, LeaveOK, ProceedOK
  <2>2. object' \in [Tenants -> Objects]
    BY <1>0, <1>4, EnsureCases, WrittenType
  <2>3. unchecked' \subseteq Tenants /\ UNCHANGED <<limit, seen, edits>> /\ faults' \in 0..MaxFaults
    BY <1>01, <1>4, EnsureCases
  <2>4. QED
    BY <2>1, <2>2, <2>3 DEF PlanOK
<1>5. ASSUME NEW t \in Tenants, DeleteNamespace(t) PROVE TenantTypeOK'
  <2>1. [object[t] EXCEPT !.namespace = "terminating"] \in Objects
    BY ObjectFields
  <2>2. object' \in [Tenants -> Objects]
    BY <1>5, <2>1 DEF DeleteNamespace
  <2>3. QED
    BY <1>01, <1>5, <2>2 DEF DeleteNamespace
<1>6. ASSUME NEW t \in Tenants, Purge(t) PROVE TenantTypeOK'
  <2>1. /\ [object[t] EXCEPT !.quota = 0] \in Objects /\ [object[t] EXCEPT !.role = 0] \in Objects
        /\ [object[t] EXCEPT !.binding = 0] \in Objects
    BY TenantSyncAssumption DEF Objects
  <2>2. \/ object' = [object EXCEPT ![t] = [object[t] EXCEPT !.quota = 0]]
        \/ object' = [object EXCEPT ![t] = [object[t] EXCEPT !.role = 0]]
        \/ object' = [object EXCEPT ![t] = [object[t] EXCEPT !.binding = 0]]
        \/ object' = [object EXCEPT ![t] = Nothing]
    BY <1>6 DEF Purge
  <2>3. object' \in [Tenants -> Objects]
    BY <2>1, <2>2, Kinds
  <2>4. QED
    BY <1>6, <2>3 DEF Purge
<1>7. ASSUME NEW t \in Tenants, SetLimit(t) PROVE TenantTypeOK'
  BY <1>01, <1>7 DEF SetLimit
<1>8. ASSUME NEW t \in Tenants, NEW k \in DOMAIN Nothing, Sync(t, k) PROVE TenantTypeOK'
  <2>1. \/ seen' = [seen EXCEPT ![t] = [seen[t] EXCEPT !.namespace = object[t].namespace]]
        \/ seen' = [seen EXCEPT ![t] = [seen[t] EXCEPT !.quota = object[t].quota]]
        \/ seen' = [seen EXCEPT ![t] = [seen[t] EXCEPT !.role = object[t].role]]
        \/ seen' = [seen EXCEPT ![t] = [seen[t] EXCEPT !.binding = object[t].binding]]
    BY <1>8, Kinds DEF Sync
  <2>2. object[t] \in Objects /\ seen[t] \in Objects
    OBVIOUS
  <2>3. /\ [seen[t] EXCEPT !.namespace = object[t].namespace] \in Objects
        /\ [seen[t] EXCEPT !.quota = object[t].quota] \in Objects
        /\ [seen[t] EXCEPT !.role = object[t].role] \in Objects
        /\ [seen[t] EXCEPT !.binding = object[t].binding] \in Objects
    BY <2>2, ObjectFields
  <2>4. seen' \in [Tenants -> Objects]
    BY <2>1, <2>3
  <2>5. QED
    BY <1>8, <2>4 DEF Sync
<1>9. CASE UNCHANGED vars
  BY <1>9 DEF vars
<1>10. QED
  BY <1>1, <1>2, <1>3, <1>4, <1>5, <1>6, <1>7, <1>8, <1>9 DEF Next

LEMMA TenantTypeInit == Init => TenantTypeOK
<1> SUFFICES ASSUME Init PROVE TenantTypeOK
  OBVIOUS
<1>1. PlanOK
  BY DEF Init, PlanOK, NoPlan
<1>2. QED
  BY <1>1, Kinds, TenantSyncAssumption DEF Init, TenantTypeOK, PlanOK

\* Every variable holds what its declaration says.
THEOREM TenantTypeCorrect == Spec => []TenantTypeOK
BY TenantTypeInit, TenantTypeNext, PTL DEF Spec

-------------------------------------------------------------------------------
(* Rights are capped *)

\* An absent namespace is empty; in an active one the quota was there, or found in a copy,
\* before any right, and before the worker went on to the rights.
CapInv ==
    /\ current = NoTenant => step = 1
    /\ \A t \in Tenants :
          /\ object[t].namespace = "absent" => object[t] = Nothing
          /\ (object[t].namespace = "active" /\ object[t].quota = 0 /\ t \notin unchecked) =>
                /\ object[t].role = 0 /\ object[t].binding = 0
                /\ current = t => step = 1

LEMMA CapNext == TenantTypeOK /\ CapInv /\ [Next]_vars => CapInv'
<1> SUFFICES ASSUME TenantTypeOK, CapInv, [Next]_vars PROVE CapInv'
  OBVIOUS
<1>0. /\ PlanOK /\ object \in [Tenants -> Objects] /\ seen \in [Tenants -> Objects]
      /\ unchecked \subseteq Tenants
  BY DEF TenantTypeOK, PlanOK
<1>1. CASE UNCHANGED <<object, unchecked>> /\ UNCHANGED <<current, step>>
  BY <1>1 DEF CapInv
<1>2. CASE UNCHANGED <<object, unchecked>> /\ current' = NoTenant /\ step' = 1
  BY <1>2 DEF CapInv
<1>3. CASE Poll
  BY <1>1, <1>3 DEF Poll
<1>4. CASE Crash
  BY <1>2, <1>4 DEF Crash
<1>5. ASSUME NEW t \in Tenants, EnsureNamespace(t) PROVE CapInv'
  <2>1. /\ step' = 1 /\ UNCHANGED unchecked
    BY <1>5 DEF EnsureNamespace, GiveUp, Leave, CapInv
  <2>2. \/ UNCHANGED object
        \/ /\ object[t].namespace = "absent"
           /\ object' = [object EXCEPT ![t] = [Nothing EXCEPT !.namespace = "active"]]
    <3>1. \/ UNCHANGED object
          \/ /\ object[t].namespace = "absent"
             /\ object' = [object EXCEPT ![t] = [object[t] EXCEPT !.namespace = "active"]]
      BY <1>5 DEF EnsureNamespace
    <3>2. QED
      BY <3>1 DEF CapInv
  <2>3. CASE UNCHANGED object
    BY <2>1, <2>3 DEF CapInv
  <2>4. CASE object' = [object EXCEPT ![t] = [Nothing EXCEPT !.namespace = "active"]]
    <3>1. /\ object'[t].namespace = "active" /\ object'[t].role = 0 /\ object'[t].binding = 0
          /\ \A u \in Tenants : u # t => object'[u] = object[u]
      BY <1>0, <2>4 DEF Nothing
    <3>2. QED
      BY <2>1, <3>1 DEF CapInv
  <2>5. QED
    BY <2>2, <2>3, <2>4
<1>6. ASSUME NEW t \in Tenants, EnsureObject(t) PROVE CapInv'
  <2> DEFINE k == Steps[step]
  <2>1. /\ t \in DOMAIN plan /\ k \in Stored /\ current = t /\ step \in 1..3 /\ t # NoTenant
        /\ \/ current' = NoTenant /\ step' = 1
           \/ current' = t /\ step' = step + 1
    BY <1>0, <1>6, EnsureCases, TenantSyncAssumption DEF Leave, Proceed, PlanOK
  <2>2. \A u \in Tenants : u # t =>
           /\ object'[u] = object[u]
           /\ object[u].quota = 0 => (u \in unchecked' <=> u \in unchecked)
    BY <1>0, <1>6, EnsureCases, WrittenType
  <2>3. ASSUME NEW u \in Tenants, u # t
        PROVE  /\ object'[u].namespace = "absent" => object'[u] = Nothing
               /\ (object'[u].namespace = "active" /\ object'[u].quota = 0 /\ u \notin unchecked') =>
                     object'[u].role = 0 /\ object'[u].binding = 0 /\ current' # u
    BY <2>1, <2>2, <2>3, TenantSyncAssumption DEF CapInv
  <2>4. /\ object'[t].namespace = object[t].namespace
        /\ object[t].namespace = "absent" => UNCHANGED object
    <3>1. CASE UNCHANGED object
      BY <3>1
    <3>2. CASE object' = Written(t, k) /\ Accepted(t, k)
      <4>1. object[t].namespace # "absent"
        <5>1. object[t].namespace = "active" \/ (object[t][k] = seen[t][k] /\ seen[t][k] # 0)
          BY <3>2 DEF Accepted
        <5>2. Nothing[k] = 0 /\ Nothing.namespace = "absent"
          BY <2>1 DEF Nothing, Stored
        <5>3. QED
          BY <5>1, <5>2 DEF CapInv
      <4>2. QED
        BY <1>0, <2>1, <3>2, <4>1, WrittenType
    <3>3. QED
      BY <1>6, <3>1, <3>2, EnsureCases
  <2>5. ASSUME object'[t].namespace = "active", object'[t].quota = 0, t \notin unchecked'
        PROVE  /\ object'[t].role = 0 /\ object'[t].binding = 0
               /\ current' = t => step' = 1
    <3>1. /\ ~(k = "quota" /\ object' = Written(t, k)) /\ object[t].quota = 0
          /\ t \notin unchecked /\ ~(k = "quota" /\ seen[t][k] = Wanted(t, k))
      <4>1. object[t].quota = 0 /\ ~(k = "quota" /\ object' = Written(t, k))
        BY <1>0, <1>6, <2>1, <2>5, EnsureCases, WrittenType
      <4>2. QED
        BY <1>6, <2>5, <4>1, EnsureCases
    <3>2. /\ object[t].role = 0 /\ object[t].binding = 0 /\ step = 1
      BY <2>1, <2>4, <2>5, <3>1 DEF CapInv
    <3>3. k = "quota"
      BY <3>2, StepNames
    <3>4. UNCHANGED object /\ current' # t
      BY <1>6, <2>1, <3>1, <3>3, EnsureCases, TenantSyncAssumption DEF Leave
    <3>5. QED
      BY <3>2, <3>4
  <2>6. QED
    BY <2>1, <2>3, <2>4, <2>5 DEF CapInv
<1>7. ASSUME NEW t \in Tenants, DeleteNamespace(t) PROVE CapInv'
  <2>1. /\ object'[t].namespace = "terminating" /\ \A u \in Tenants : u # t => object'[u] = object[u]
        /\ UNCHANGED <<current, step, unchecked>>
    BY <1>0, <1>7 DEF DeleteNamespace, Objects
  <2>2. QED
    BY <2>1 DEF CapInv
<1>8. ASSUME NEW t \in Tenants, Purge(t) PROVE CapInv'
  <2>1. /\ object'[t].namespace = "terminating" \/ object'[t] = Nothing
        /\ \A u \in Tenants : u # t => object'[u] = object[u]
        /\ UNCHANGED <<current, step, unchecked>>
    BY <1>0, <1>8 DEF Purge, Objects
  <2>2. Nothing.namespace = "absent"
    BY DEF Nothing
  <2>3. QED
    BY <2>1, <2>2 DEF CapInv
<1>9. QED
  BY <1>1, <1>3, <1>4, <1>5, <1>6, <1>7, <1>8 DEF Next, SetLimit, Sync, vars

\* netboxtenant_controller.go ensures the quota before the Role and the RoleBinding: in no
\* order of polls, deletions, stale copies, errors and restarts does a tenant's group get its
\* rights in a namespace where the controller has not found or made a quota.
THEOREM RightsAreCapped == Spec => []RightsCapped
<1>1. Init => CapInv
  BY DEF Init, CapInv, Nothing
<1>2. CapInv => RightsCapped
  BY DEF CapInv, RightsCapped
<1>3. QED
  BY <1>1, <1>2, CapNext, TenantTypeInit, TenantTypeNext, PTL DEF Spec
=============================================================================

---------------------------- MODULE DeviceLedger ----------------------------
(***************************************************************************)
(* What a controller of claims promises about the devices of a site,       *)
(* whatever it does in between: a device without tenant is assigned to a   *)
(* tenant, recorded by one claim of that tenant, forgotten by it, and only *)
(* then, by an administrator, made available to others again.              *)
(***************************************************************************)
CONSTANTS Machines, Claims, Tenants, NoTenant, TenantOf

VARIABLES
    owned,      \* owned[c]: the devices claim c records
    tenant      \* tenant[m]: whom the inventory says device m belongs to

ledgerVars == <<owned, tenant>>

LedgerTypeOK ==
    /\ owned \in [Claims -> SUBSET Machines]
    /\ tenant \in [Machines -> Tenants \cup {NoTenant}]

Recorded == UNION {owned[c] : c \in Claims}

Init ==
    /\ owned = [c \in Claims |-> {}]
    /\ tenant = [m \in Machines |-> NoTenant]

\* The inventory assigns a device that had no tenant.
Assign(m, t) ==
    /\ tenant[m] = NoTenant
    /\ tenant' = [tenant EXCEPT ![m] = t]
    /\ UNCHANGED owned

\* Claim c records devices that are its tenant's and no claim's.
Record(c, S) ==
    /\ \A m \in S : tenant[m] = TenantOf[c]
    /\ S \cap Recorded = {}
    /\ owned' = [owned EXCEPT ![c] = @ \cup S]
    /\ UNCHANGED tenant

Forget(c, S) ==
    /\ owned' = [owned EXCEPT ![c] = @ \ S]
    /\ UNCHANGED tenant

\* Only a device that no claim records becomes available again.
Recycle(m) ==
    /\ m \notin Recorded
    /\ tenant' = [tenant EXCEPT ![m] = NoTenant]
    /\ UNCHANGED owned

Next ==
    \/ \E m \in Machines : Recycle(m) \/ \E t \in Tenants : Assign(m, t)
    \/ \E c \in Claims, S \in SUBSET Machines : Record(c, S) \/ Forget(c, S)

Spec == Init /\ [][Next]_ledgerVars

-------------------------------------------------------------------------------
\* What the ledger is for: a device is recorded by one claim at most, of the tenant the
\* inventory names for it.
OneOwner ==
    /\ \A c, d \in Claims : c # d => owned[c] \cap owned[d] = {}
    /\ \A c \in Claims : \A m \in owned[c] : tenant[m] = TenantOf[c]
=============================================================================

------------------------- MODULE DeviceLedgerProofs -------------------------
(***************************************************************************)
(* The ledger keeps its promise: OneOwner is an invariant, for any number  *)
(* of claims, devices and tenants.  A controller that implements the       *)
(* ledger (LedgerKept) inherits it.                                        *)
(***************************************************************************)
EXTENDS DeviceLedger, TLAPS

LedgerInv == LedgerTypeOK /\ OneOwner

\* Every step of the ledger keeps the invariant: devices are recorded while no claim
\* records them and their tenant is the claim's, and only unrecorded ones change hands.
LEMMA LedgerStep ==
    ASSUME NoTenant \notin Tenants, TenantOf \in [Claims -> Tenants],
           LedgerInv, [Next]_ledgerVars
    PROVE  LedgerInv'
<1> USE DEF LedgerInv, LedgerTypeOK, OneOwner
<1>1. ASSUME NEW m \in Machines, Recycle(m)
      PROVE  LedgerInv'
  BY <1>1 DEF Recycle, Recorded
<1>2. ASSUME NEW m \in Machines, NEW t \in Tenants, Assign(m, t)
      PROVE  LedgerInv'
  BY <1>2 DEF Assign
<1>3. ASSUME NEW c \in Claims, NEW S \in SUBSET Machines, Record(c, S)
      PROVE  LedgerInv'
  BY <1>3 DEF Record, Recorded
<1>4. ASSUME NEW c \in Claims, NEW S \in SUBSET Machines, Forget(c, S)
      PROVE  LedgerInv'
  BY <1>4 DEF Forget
<1>5. CASE UNCHANGED ledgerVars
  BY <1>5 DEF ledgerVars
<1> QED
  BY <1>1, <1>2, <1>3, <1>4, <1>5 DEF Next

\* What implementing the ledger is good for: a device is recorded by one claim at most,
\* and by a claim of the tenant that the inventory names for it.
THEOREM LedgerOneOwner ==
    ASSUME NoTenant \notin Tenants, TenantOf \in [Claims -> Tenants]
    PROVE  Spec => []OneOwner
<1>1. Init => LedgerInv
  BY DEF Init, LedgerInv, LedgerTypeOK, OneOwner
<1>2. LedgerInv /\ [Next]_ledgerVars => LedgerInv'
  BY LedgerStep
<1>3. LedgerInv => OneOwner
  BY DEF LedgerInv
<1> QED
  BY <1>1, <1>2, <1>3, PTL DEF Spec
=============================================================================

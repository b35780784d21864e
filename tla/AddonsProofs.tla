---------------------------- MODULE AddonsProofs ----------------------------
(***************************************************************************)
(* Theorems about Addons, for every set of components, every sequence of   *)
(* profiles, and every number of faults and of failing releases.           *)
(***************************************************************************)
EXTENDS Addons, TLAPS

HelmRelease == [version: Versions \cup {0}, ready: BOOLEAN]

LEMMA VersionsAre == /\ Versions = 1..Len(Profiles) /\ 1 \in Versions /\ 0 \notin Versions
                     /\ Len(Profiles) \in Nat
                     /\ \A v \in Versions : /\ DOMAIN Profiles[v] \subseteq Components
                                            /\ Required(v) \subseteq Components
                                            /\ Required(v) \subseteq DOMAIN Profiles[v]
                                            /\ \A c \in DOMAIN Profiles[v] : Profiles[v][c].order \in Nat
BY AddonsAssumption DEF Versions, Required

\* What a pass does to the releases.
LEMMA CreatedEffect ==
    ASSUME AddonsTypeOK, NEW c \in Components, Created(c)
    PROVE  /\ release' \in [Components -> HelmRelease]
           /\ \A d \in Components : d # c => release'[d] = release[d]
           /\ release'[c].ready = release[c].ready
           /\ \/ release[c] # Absent /\ release'[c] = release[c] /\ UNCHANGED installed
              \/ /\ release[c] = Absent /\ release'[c].version = version
                 /\ installed' = installed \cup {c}
<1>0. release \in [Components -> HelmRelease] /\ version \in Versions
  BY DEF AddonsTypeOK, HelmRelease
<1>1. CASE release[c] # Absent
  BY <1>0, <1>1 DEF Created
<1>2. CASE release[c] = Absent
  <2>1. /\ release' = [release EXCEPT ![c] = [release[c] EXCEPT !.version = version]]
        /\ installed' = installed \cup {c}
    BY <1>2 DEF Created
  <2>2. [release[c] EXCEPT !.version = version] \in HelmRelease
    BY <1>0 DEF HelmRelease
  <2>3. /\ release' \in [Components -> HelmRelease]
        /\ \A d \in Components : d # c => release'[d] = release[d]
    BY <1>0, <2>1, <2>2
  <2>4. release'[c].ready = release[c].ready /\ release'[c].version = version
    BY <1>0, <2>1 DEF HelmRelease
  <2>5. QED
    BY <1>2, <2>1, <2>3, <2>4
<1>3. QED
  BY <1>1, <1>2

\* What capi-addon-provider, and what goes wrong, does to them.
LEMMA DeployEffect ==
    ASSUME AddonsTypeOK, NEW c \in Components, Deploy(c) \/ Degrade(c)
    PROVE  /\ release' \in [Components -> HelmRelease] /\ release[c] # Absent
           /\ \A d \in Components : d # c => release'[d] = release[d]
           /\ \/ release'[c] = Absent
              \/ /\ release'[c].version = release[c].version
                 /\ release'[c].ready => Deploy(c)
<1>0. release \in [Components -> HelmRelease] /\ release[c] \in HelmRelease
  BY DEF AddonsTypeOK, HelmRelease
<1>1. release[c] # Absent
  BY DEF Deploy, Degrade, Absent
<1>2. \/ release' = [release EXCEPT ![c] = Absent]
      \/ release' = [release EXCEPT ![c] = [release[c] EXCEPT !.ready = FALSE]]
      \/ release' = [release EXCEPT ![c] = [release[c] EXCEPT !.ready = TRUE]] /\ Deploy(c)
  BY DEF Deploy, Degrade
<1>3. /\ Absent \in HelmRelease /\ [release[c] EXCEPT !.ready = FALSE] \in HelmRelease
      /\ [release[c] EXCEPT !.ready = TRUE] \in HelmRelease
  BY <1>0 DEF HelmRelease, Absent
<1>4. /\ release' \in [Components -> HelmRelease]
      /\ \A d \in Components : d # c => release'[d] = release[d]
  BY <1>0, <1>2, <1>3
<1>5. \/ release'[c] = Absent
      \/ /\ release'[c].version = release[c].version
         /\ release'[c].ready => Deploy(c)
  BY <1>0, <1>2 DEF HelmRelease
<1>6. QED
  BY <1>1, <1>4, <1>5

-------------------------------------------------------------------------------
(* Types *)

LEMMA AddonsTypeInit == Init => AddonsTypeOK
BY VersionsAre, AddonsAssumption DEF Init, AddonsTypeOK, Absent

LEMMA AddonsTypeNext == AddonsTypeOK /\ [Next]_vars => AddonsTypeOK'
<1> SUFFICES ASSUME AddonsTypeOK, [Next]_vars PROVE AddonsTypeOK'
  OBVIOUS
<1> USE DEF AddonsTypeOK
<1>0. /\ Fault => faults' \in 0..MaxFaults
      /\ edits < MaxEdits /\ edits' = edits + 1 => edits' \in 0..MaxEdits
      /\ UNCHANGED faults => faults' \in 0..MaxFaults
  BY AddonsAssumption DEF Fault
<1>1. CASE Begin
  BY <1>1, VersionsAre DEF Begin
<1>2. CASE Decide
  BY <1>0, <1>2 DEF Decide, Return
<1>3. CASE Crash
  BY <1>0, <1>3 DEF Crash, Return
<1>4. CASE EditProfile
  BY <1>4, VersionsAre DEF EditProfile, passVars
<1>5. CASE ProfileSync
  BY <1>5 DEF ProfileSync, passVars
<1>6. ASSUME NEW c \in Components, EnsureHelmRelease(c) PROVE AddonsTypeOK'
  <2>1. release' \in [Components -> HelmRelease] /\ installed' \subseteq Components
    <3>1. CASE UNCHANGED <<release, installed>>
      BY <3>1 DEF HelmRelease
    <3>2. CASE Created(c)
      BY <3>2, CreatedEffect
    <3>3. QED
      BY <1>6, <3>1, <3>2 DEF EnsureHelmRelease
  <2>2. /\ stage' \in {"idle", "create", "check"} /\ left' \subseteq Components
        /\ due' \in BOOLEAN /\ UNCHANGED <<version, allReady>> /\ faults' \in 0..MaxFaults
    <3>1. Required(version) \subseteq Components
      BY VersionsAre
    <3>2. CASE Return /\ Fault
      BY <1>0, <3>2 DEF Return
    <3>3. CASE /\ UNCHANGED <<due, version, allReady, faults>>
               /\ \/ stage' = "check" /\ left' = Required(version)
                  \/ left' = left \ {c} /\ UNCHANGED stage
      BY <1>0, <3>1, <3>3
    <3>4. QED
      BY <1>6, <3>2, <3>3 DEF EnsureHelmRelease
  <2>3. UNCHANGED <<profile, seen, phase, readySince, edits>>
    BY <1>6 DEF EnsureHelmRelease
  <2>4. QED
    BY <2>1, <2>2, <2>3 DEF HelmRelease
<1>7. ASSUME NEW c \in Components, CheckRequired(c) PROVE AddonsTypeOK'
  <2>1. release[c].ready \in BOOLEAN
    OBVIOUS
  <2>2. QED
    BY <1>0, <1>7, <2>1 DEF CheckRequired, Return, helmReleaseReady
<1>8. ASSUME NEW c \in Components, Deploy(c) \/ Degrade(c) PROVE AddonsTypeOK'
  <2>1. release' \in [Components -> HelmRelease]
    BY <1>8, DeployEffect
  <2>2. QED
    BY <1>0, <1>8, <2>1 DEF Deploy, Degrade, passVars, HelmRelease
<1>9. CASE UNCHANGED vars
  BY <1>9 DEF vars, passVars
<1>10. QED
  BY <1>1, <1>2, <1>3, <1>4, <1>5, <1>6, <1>7, <1>8, <1>9 DEF Next

\* Every variable holds what its declaration says.
THEOREM AddonsTypeCorrect == Spec => []AddonsTypeOK
BY AddonsTypeInit, AddonsTypeNext, PTL DEF Spec

-------------------------------------------------------------------------------
(* The order of installation *)

\* The part of the profile a pass has gone through was installed, then or before.
PassInv ==
    /\ stage = "create" =>
          /\ left \subseteq DOMAIN Profiles[version]
          /\ DOMAIN Profiles[version] \ left \subseteq installed
    /\ \A c \in Components : release[c] # Absent => c \in installed /\ release[c].version \in Versions

OrderInv == PassInv /\ InstallOrder

LEMMA OrderNext == AddonsTypeOK /\ OrderInv /\ [Next]_vars => OrderInv'
<1> SUFFICES ASSUME AddonsTypeOK, OrderInv, [Next]_vars PROVE OrderInv'
  OBVIOUS
<1>0. /\ release \in [Components -> HelmRelease] /\ version \in Versions /\ seen \in Versions
      /\ Len(Profiles) \in Nat
  BY VersionsAre DEF AddonsTypeOK, HelmRelease
\* Releases keep the version they were created from, and no component is forgotten.
<1>1. ASSUME installed \subseteq installed',
             \A c \in Components : release'[c] = Absent \/ (/\ release[c] # Absent
                                                            /\ release'[c].version = release[c].version)
      PROVE  /\ InstallOrder'
             /\ \A c \in Components : release'[c] # Absent =>
                   c \in installed' /\ release'[c].version \in Versions
  <2>1. ASSUME NEW c \in Components, release'[c] # Absent
        PROVE  /\ c \in installed' /\ release'[c].version \in Versions
               /\ LET p == Profiles[release'[c].version]
                  IN  \A d \in DOMAIN p : p[d].order < p[c].order => d \in installed'
    <3>1. release[c] # Absent /\ release'[c].version = release[c].version
      BY <1>1, <2>1
    <3>2. QED
      BY <1>1, <3>1 DEF OrderInv, PassInv, InstallOrder
  <2>2. QED
    BY <2>1 DEF InstallOrder, Absent
<1>2. ASSUME UNCHANGED <<installed, release, version>>,
             stage' = "create" => stage = "create" /\ left' = left
      PROVE  OrderInv'
  <2>1. PassInv'
    BY <1>2 DEF OrderInv, PassInv, Absent
  <2>2. InstallOrder'
    BY <1>1, <1>2
  <2>3. QED
    BY <2>1, <2>2 DEF OrderInv
<1>3. CASE Begin
  <2>1. stage' = "create" /\ version' \in Versions /\ left' = DOMAIN Profiles[version']
        /\ UNCHANGED <<release, installed>>
    BY <1>0, <1>3 DEF Begin
  <2>2. InstallOrder' /\ \A c \in Components : release'[c] # Absent =>
                            c \in installed' /\ release'[c].version \in Versions
    BY <1>1, <2>1
  <2>3. QED
    BY <2>1, <2>2 DEF OrderInv, PassInv, Absent
<1>4. CASE Decide \/ Crash
  BY <1>2, <1>4 DEF Decide, Crash, Return
<1>5. CASE EditProfile \/ ProfileSync
  BY <1>2, <1>5 DEF EditProfile, ProfileSync, passVars
<1>6. ASSUME NEW c \in Components, EnsureHelmRelease(c) PROVE OrderInv'
  <2>0. /\ stage = "create" /\ IsNext(c) /\ UNCHANGED version
        /\ left \subseteq DOMAIN Profiles[version] /\ DOMAIN Profiles[version] \ left \subseteq installed
        /\ \/ stage' \in {"idle", "check"}
           \/ stage' = "create" /\ left' = left \ {c} /\ Created(c)
        /\ Created(c) \/ UNCHANGED <<release, installed>>
    BY <1>6 DEF EnsureHelmRelease, Return, OrderInv, PassInv
  <2>1. CASE UNCHANGED <<release, installed>> /\ ~Created(c)
    BY <1>2, <2>0, <2>1
  <2>2. CASE Created(c) /\ release[c] # Absent
    <3>1. UNCHANGED <<release, installed>> /\ c \in installed
      BY <2>2 DEF Created, OrderInv, PassInv
    <3>2. InstallOrder' /\ \A d \in Components : release'[d] # Absent =>
                              d \in installed' /\ release'[d].version \in Versions
      BY <1>1, <3>1
    <3>3. QED
      BY <2>0, <3>1, <3>2 DEF OrderInv, PassInv, Absent
  <2>3. CASE Created(c) /\ release[c] = Absent
    <3>1. /\ release'[c].version = version /\ installed' = installed \cup {c}
          /\ \A d \in Components : d # c => release'[d] = release[d]
      BY <2>3, CreatedEffect
    <3>2. ASSUME NEW d \in DOMAIN Profiles[version],
                 Profiles[version][d].order < Profiles[version][c].order
          PROVE  d \in installed
      <4>1. Profiles[version][d].order \in Nat /\ Profiles[version][c].order \in Nat
        BY <1>0, <2>0, <3>2, VersionsAre DEF IsNext
      <4>2. d \notin left
        BY <2>0, <3>2, <4>1 DEF IsNext
      <4>3. QED
        BY <2>0, <3>2, <4>2
    <3>3. ASSUME NEW b \in Components, release'[b] # Absent
          PROVE  /\ b \in installed' /\ release'[b].version \in Versions
                 /\ LET p == Profiles[release'[b].version]
                    IN  \A d \in DOMAIN p : p[d].order < p[b].order => d \in installed'
      <4>1. CASE b = c
        BY <1>0, <3>1, <3>2, <4>1
      <4>2. CASE b # c
        <5>1. release'[b] = release[b]
          BY <3>1, <4>2
        <5>2. QED
          BY <3>1, <3>3, <5>1 DEF OrderInv, PassInv, InstallOrder
      <4>3. QED
        BY <4>1, <4>2
    <3>4. InstallOrder'
      BY <3>3 DEF InstallOrder, Absent
    <3>5. QED
      BY <2>0, <3>1, <3>3, <3>4 DEF OrderInv, PassInv, Absent
  <2>4. QED
    BY <2>0, <2>1, <2>2, <2>3
<1>7. ASSUME NEW c \in Components, CheckRequired(c) PROVE OrderInv'
  BY <1>2, <1>7 DEF CheckRequired, Return
<1>8. ASSUME NEW c \in Components, Deploy(c) \/ Degrade(c) PROVE OrderInv'
  <2>1. UNCHANGED <<installed, version, stage, left>>
    BY <1>8 DEF Deploy, Degrade, passVars
  <2>2. \A d \in Components : release'[d] = Absent \/ (/\ release[d] # Absent
                                                       /\ release'[d].version = release[d].version)
    BY <1>8, DeployEffect
  <2>3. InstallOrder' /\ \A d \in Components : release'[d] # Absent =>
                            d \in installed' /\ release'[d].version \in Versions
    BY <1>1, <2>1, <2>2
  <2>4. QED
    BY <2>1, <2>3 DEF OrderInv, PassInv, Absent
<1>9. CASE UNCHANGED vars
  BY <1>2, <1>9 DEF vars, passVars
<1>10. QED
  BY <1>3, <1>4, <1>5, <1>6, <1>7, <1>8, <1>9 DEF Next

\* clusterclaim_controller.go goes through the components of a profile in their order, so a
\* release is created only after each component before it in the same profile had one, in
\* whatever passes, from whatever versions, with whatever failures in between.
THEOREM InstalledInOrder == Spec => []InstallOrder
<1>1. Init => OrderInv
  BY DEF Init, OrderInv, PassInv, InstallOrder
<1>2. OrderInv => InstallOrder
  BY DEF OrderInv
<1>3. QED
  BY <1>1, <1>2, OrderNext, AddonsTypeInit, AddonsTypeNext, PTL DEF Spec

-------------------------------------------------------------------------------
(* What AddonsReady says *)

\* What is ready now was ready since the pass began, and what the pass has found ready too.
ReadyInv ==
    /\ \A c \in Components : release[c].ready => c \in readySince
    /\ stage = "check" => left \subseteq Required(version)
    /\ stage = "check" /\ allReady => Required(version) \ left \subseteq readySince
    /\ RequiredWereReady

LEMMA ReadyNext == AddonsTypeOK /\ ReadyInv /\ [Next]_vars => ReadyInv'
<1> SUFFICES ASSUME AddonsTypeOK, ReadyInv, [Next]_vars PROVE ReadyInv'
  OBVIOUS
<1>0. /\ release \in [Components -> HelmRelease] /\ version \in Versions
  BY DEF AddonsTypeOK, HelmRelease
<1>1. CASE Begin
  BY <1>1 DEF Begin, ReadyInv, RequiredWereReady
<1>2. CASE Decide
  BY <1>2 DEF Decide, Return, ReadyInv, RequiredWereReady
<1>3. CASE Crash
  BY <1>3 DEF Crash, Return, ReadyInv, RequiredWereReady
<1>4. CASE EditProfile \/ ProfileSync \/ UNCHANGED vars
  BY <1>4 DEF EditProfile, ProfileSync, passVars, vars, ReadyInv, RequiredWereReady
<1>5. ASSUME NEW c \in Components, EnsureHelmRelease(c) PROVE ReadyInv'
  <2>1. /\ UNCHANGED <<phase, readySince, version>>
        /\ \/ stage' \in {"idle", "create"}
           \/ stage' = "check" /\ left' = Required(version)
    BY <1>5 DEF EnsureHelmRelease, Return
  <2>2. \A d \in Components : release'[d].ready = release[d].ready
    BY <1>5, CreatedEffect DEF EnsureHelmRelease
  <2>3. QED
    BY <2>1, <2>2 DEF ReadyInv, RequiredWereReady, Required
<1>6. ASSUME NEW c \in Components, CheckRequired(c) PROVE ReadyInv'
  <2>1. UNCHANGED <<release, phase, readySince, version>> /\ stage = "check" /\ c \in left
    BY <1>6 DEF CheckRequired, Return, IsNext
  <2>2. CASE stage' = "idle"
    BY <2>1, <2>2 DEF ReadyInv, RequiredWereReady, Required
  <2>3. CASE /\ allReady' = (allReady /\ helmReleaseReady(c))
             /\ left' = left \ {c} /\ UNCHANGED stage
    <3>1. allReady' => allReady /\ c \in readySince
      BY <2>3 DEF ReadyInv, helmReleaseReady
    <3>2. QED
      BY <2>1, <2>3, <3>1 DEF ReadyInv, RequiredWereReady, Required
  <2>4. QED
    BY <1>6, <2>2, <2>3 DEF CheckRequired, Return
<1>7. ASSUME NEW c \in Components, Deploy(c) \/ Degrade(c) PROVE ReadyInv'
  <2>1. /\ UNCHANGED <<phase, version, stage, left, allReady>> /\ readySince \subseteq readySince'
        /\ Deploy(c) => c \in readySince'
    BY <1>7 DEF Deploy, Degrade, passVars
  <2>2. \A d \in Components : release'[d].ready => release[d].ready \/ (d = c /\ Deploy(c))
    <3>1. ASSUME NEW d \in Components, d # c PROVE release'[d] = release[d]
      BY <1>7, <3>1, DeployEffect
    <3>2. release'[c].ready => Deploy(c)
      BY <1>7, DeployEffect DEF Absent
    <3>3. QED
      BY <3>1, <3>2
  <2>3. QED
    BY <2>1, <2>2 DEF ReadyInv, RequiredWereReady, Required
<1>8. QED
  BY <1>1, <1>2, <1>3, <1>4, <1>5, <1>6, <1>7 DEF Next

\* Each component that the pass's profile requires was ready at some moment of the pass that
\* saved AddonsReady (stepWatchAddons asks for one after the other).
THEOREM RequiredComponentsWereReady == Spec => []RequiredWereReady
<1>1. Init => ReadyInv
  BY DEF Init, ReadyInv, RequiredWereReady, Absent
<1>2. ReadyInv => RequiredWereReady
  BY DEF ReadyInv
<1>3. QED
  BY <1>1, <1>2, ReadyNext, AddonsTypeInit, AddonsTypeNext, PTL DEF Spec
=============================================================================

--------------------------- MODULE SiteSyncProofs ---------------------------
(***************************************************************************)
(* A theorem about SiteSync, for every set of devices and sites and every  *)
(* number of faults and edits.                                             *)
(***************************************************************************)
EXTENDS SiteSync, TLAPS

IsEntry(l) == l \in [site: {l.site}, fresh: BOOLEAN, devices: {l.devices}]

LEMMA EntryMade ==
    ASSUME NEW s, NEW f \in BOOLEAN, NEW list, NEW l,
           l = [site |-> s, fresh |-> f, devices |-> list]
    PROVE  IsEntry(l) /\ l.site = s /\ l.fresh = f
BY DEF IsEntry

LEMMA EntrySpoiled ==
    ASSUME NEW l, IsEntry(l), NEW m, m = [l EXCEPT !.fresh = FALSE]
    PROVE  IsEntry(m) /\ ~m.fresh
<1> DEFINE S == {l.site}  D == {l.devices}
<1>1. l \in [site: S, fresh: BOOLEAN, devices: D]
  BY DEF IsEntry
<1> HIDE DEF S, D
<1>2. m = [site |-> l.site, fresh |-> FALSE, devices |-> l.devices]
  BY <1>1
<1>3. QED
  BY <1>2, EntryMade

\* The informer's copy is the SiteConfig if it says so, and a listing made from a copy that
\* is still current is for the site the SiteConfig names.
ListingInv ==
    /\ current \in BOOLEAN /\ (current => seen = site)
    /\ \A l, m \in listing : l = m
    /\ \A l \in listing : IsEntry(l) /\ (l.fresh => l.site = site)

LEMMA ListingKept ==
    ASSUME ListingInv, UNCHANGED site, current' \in BOOLEAN, current' => seen' = site,
           listing' = {} \/ UNCHANGED listing
    PROVE  ListingInv'
BY DEF ListingInv

LEMMA ListingNext == ListingInv /\ [Next]_vars => ListingInv'
<1> SUFFICES ASSUME ListingInv, [Next]_vars PROVE ListingInv'
  OBVIOUS
<1>0. current \in BOOLEAN /\ (current => seen = site)
  BY DEF ListingInv
<1>1. CASE Reconcile
  <2>1. UNCHANGED <<site, seen, current>>
    BY <1>1 DEF Reconcile
  <2>2. CASE \E list : Listed(seen, list)
    <3>1. PICK list : listing' = {[site |-> seen, fresh |-> current, devices |-> list]}
      BY <2>2 DEF Listed
    <3>2. PICK l : l = [site |-> seen, fresh |-> current, devices |-> list]
      OBVIOUS
    <3>3. IsEntry(l) /\ l.site = seen /\ l.fresh = current
      BY <1>0, <3>2, EntryMade
    <3>4. listing' = {l}
      BY <3>1, <3>2
    <3>5. QED
      BY <1>0, <2>1, <3>3, <3>4 DEF ListingInv
  <2>3. CASE UNCHANGED listing
    BY <1>0, <2>1, <2>3, ListingKept
  <2>4. QED
    BY <1>1, <2>2, <2>3 DEF Reconcile, Listing
<1>2. CASE UpdateStatus
  <2>1. UNCHANGED <<site, seen>> /\ listing' = {} /\ (UNCHANGED current \/ current' = FALSE)
    BY <1>2 DEF UpdateStatus, Stored
  <2>2. current' \in BOOLEAN /\ (current' => seen' = site)
    <3>1. CASE UNCHANGED current
      BY <1>0, <2>1, <3>1
    <3>2. CASE current' = FALSE
      BY <3>2
    <3>3. QED
      BY <2>1, <3>1, <3>2
  <2>3. QED
    BY <2>1, <2>2, ListingKept
<1>3. CASE CacheSync
  BY <1>3, ListingKept DEF CacheSync
<1>4. CASE Second \/ \E d \in Devices : ChangeDevice(d)
  BY <1>0, <1>4, ListingKept DEF Second, ChangeDevice
<1>5. CASE Crash
  BY <1>5, ListingKept DEF Crash
<1>6. CASE EditSpec
  <2>1. current' = FALSE /\ listing' = {[l EXCEPT !.fresh = FALSE] : l \in listing}
    BY <1>6 DEF EditSpec
  <2>2. ASSUME NEW l \in listing' PROVE IsEntry(l) /\ ~l.fresh
    <3>1. PICK m \in listing : l = [m EXCEPT !.fresh = FALSE]
      BY <2>1, <2>2
    <3>2. IsEntry(m)
      BY DEF ListingInv
    <3>3. QED
      BY <3>1, <3>2, EntrySpoiled
  <2>3. \A l, m \in listing' : l = m
    BY <2>1 DEF ListingInv
  <2>4. QED
    BY <2>1, <2>2, <2>3 DEF ListingInv
<1>7. CASE UNCHANGED vars
  BY <1>0, <1>7, ListingKept DEF vars
<1>8. QED
  BY <1>1, <1>2, <1>3, <1>4, <1>5, <1>6, <1>7 DEF Next

\* A status is written only for the site that the SiteConfig names at that moment: an edit
\* after the read of the cache or after the listing makes siteconfig_controller.go's update
\* a conflict.
THEOREM SitesStayApart == Spec => SitesUnmixed
<1>1. Init => ListingInv
  BY DEF Init, ListingInv
<1>2. ListingInv /\ [Next]_vars => [classes' # classes => \A l \in listing : l.site = site]_vars
  <2> SUFFICES ASSUME ListingInv, [Next]_vars, classes' # classes, NEW l \in listing
               PROVE  l.site = site
    OBVIOUS
  <2>1. UpdateStatus
    BY DEF Next, Reconcile, CacheSync, Second, Crash, EditSpec, ChangeDevice, vars
  <2>2. PICK m \in listing : m.fresh
    BY <2>1 DEF UpdateStatus
  <2>3. QED
    BY <2>2 DEF ListingInv
<1>3. QED
  BY <1>1, <1>2, ListingNext, PTL DEF Spec, SitesUnmixed
=============================================================================

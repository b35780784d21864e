-------------------------- MODULE ClusterHeldProofs --------------------------
(***************************************************************************)
(* ClusterClaim, continued: the properties that relate a claim to what is  *)
(* outside the API server.  RecordedIPsLive and PhaseBacked, for any       *)
(* number of workers; the finalizer (ReleasedInv, FinalizerReleases) and   *)
(* the refinement of DeviceLedger (LedgerKept), for one; and the potential *)
(* that bounds the addresses lost (IPLeakBounded).                         *)
(***************************************************************************)
EXTENDS ClusterClaimProofs

(* Addresses: what the copies of a claim say of Netbox *)

\* An address record exists or existed, and was made for claim c.
Made(c, address) ==
    /\ address.state # "unused"
    /\ address.state = "live" => address.dns[1] = c

\* The endpoints of a copy are in its list, and every address was made for its claim.
Addressed(c, rec, net) ==
    /\ rec.ips = {rec.cp, rec.wh} \ {NoIP}
    /\ \A i \in rec.ips : Made(c, net[i])

CopiesAddressed ==
    \A c \in Claims : \A rec \in {claim[c], cache[c], mem[c]} : Addressed(c, rec, ipam)

\* A claim keeps the endpoints that an earlier version of it had, and never lives again.
Older(rec, now) ==
    /\ rec.life # "live" => now.life # "live"
    /\ now.life # "gone" => rec.life # "gone"
    /\ now.life # "gone" => rec.cp \in {NoIP, now.cp} /\ rec.wh \in {NoIP, now.wh}

CacheOlder == \A c \in Claims : Older(cache[c], claim[c])

\* A current copy of a worker keeps the life and the endpoints of its claim.
Keeps(rec, now) ==
    rec.life = now.life /\ now.cp \in {NoIP, rec.cp} /\ now.wh \in {NoIP, rec.wh}

CopyKeeps == \A c \in Claims : memCur[c] => Keeps(mem[c], claim[c])

\* An address is allocated for an endpoint that misses, and what follows has both.
Fits(rec, place) ==
    /\ place = "allocate" => rec.cp = NoIP \/ rec.wh = NoIP
    /\ (\/ place = "list"
        \/ place \in {"stage", "shrink", "saveMachines"} /\ rec.phase = "Provisioning") =>
            rec.cp # NoIP /\ rec.wh # NoIP

EndpointPlace == \A c \in Claims : Fits(mem[c], pc[c])

\* What a living claim, or a current copy of one, lists has not been released.
Held(rec, net) == rec.life = "live" => \A i \in rec.ips : net[i].state = "live"

LiveHeld == \A c \in Claims : Held(claim[c], ipam) /\ (memCur[c] => Held(mem[c], ipam))

\* Why a finalizer never deletes an address of another claim, or of a living one.
AddressInv == CopiesAddressed /\ CacheOlder /\ CopyKeeps /\ EndpointPlace /\ LiveHeld

-------------------------------------------------------------------------------
(* Phases: what the copies of a claim say was done *)

Up == {"cpReady", "helm", "helmReady"}
Exposed == {"AddonsReady", "Ready"}

Built(rec, ended, cluster) ==
    /\ rec.phase \in {"ClusterReady"} \cup Exposed => ended = "complete" /\ cluster \in Up
    /\ rec.phase \in Exposed => cluster = "helmReady"
    /\ rec.life # "gone" => (rec.kube <=> rec.phase = "Ready")

CopiesBuilt ==
    \A c \in Claims : \A rec \in {claim[c], cache[c], mem[c]} : Built(rec, job[c], infra[c])

Endpoints(c) == claim[c].life = "gone" \/ (claim[c].cp # NoIP /\ claim[c].wh # NoIP)

JobEndpoints == \A c \in Claims : (job[c] # "none" \/ pc[c] = "job") => Endpoints(c)

\* A tenant's Role, and every copy of it, names only claims whose addons came up.
NamesExposed ==
    \A c \in Claims :
        (\/ cache[c].phase \in Exposed
         \/ c \in role[TenantOf[c]].names \cup roleSeen[TenantOf[c]].names) =>
            claim[c].phase \in Exposed

\* Why no phase is claimed before its work was done (PhaseBacked).
BuiltInv == CopiesBuilt /\ JobEndpoints /\ NamesExposed

-------------------------------------------------------------------------------
(* What one step can do to Netbox's addresses *)

Allocates == \E i \in IPs, c \in Claims, e \in {"api", "wh"} : AllocateIP(i, <<c, e>>)
Releases ==
    \E c \in Claims : /\ pc[c] = "idle" /\ cache[c].life = "deleting"
                      /\ \E S \in SUBSET cache[c].ips : ReleaseIP(S)

LEMMA AllocateEffect ==
    ASSUME TypeOK, NEW i \in IPs, NEW c \in Claims, NEW e, AllocateIP(i, <<c, e>>)
    PROVE  /\ ipam[i].state = "unused"
           /\ ipam'[i].state = "live" /\ ipam'[i].dns[1] = c
           /\ \A j \in IPs \ {i} : ipam'[j] = ipam[j]
BY DEF TypeOK, NetboxTypeOK, AllocateIP

LEMMA ReleaseEffect ==
    ASSUME TypeOK, NEW S, ReleaseIP(S)
    PROVE  \A j \in IPs : /\ j \notin S => ipam'[j] = ipam[j]
                          /\ j \in S /\ ipam[j].state = "live" => ipam'[j].state = "released"
                          /\ ipam[j].state # "live" => ipam'[j] = ipam[j]
BY DEF TypeOK, NetboxTypeOK, ReleaseIP

\* A record is never made over for another claim: IDs are not used again.
LEMMA MadeStays ==
    ASSUME TypeOK, ipam' = ipam \/ Allocates \/ Releases, NEW c, NEW j \in IPs,
           Made(c, ipam[j])
    PROVE  Made(c, ipam'[j])
<1>1. CASE Allocates
  BY <1>1, AllocateEffect DEF Allocates, Made
<1>2. CASE Releases
  BY <1>2, ReleaseEffect DEF Releases, Made
<1>3. QED
  BY <1>1, <1>2

LEMMA AddressedStays ==
    ASSUME TypeOK, ipam' = ipam \/ Allocates \/ Releases, NEW c, NEW rec \in Claim,
           Addressed(c, rec, ipam)
    PROVE  Addressed(c, rec, ipam')
<1>1. rec.ips \subseteq IPs
  BY DEF Claim
<1>2. QED
  BY <1>1, MadeStays DEF Addressed

\* The addresses change with AllocateAddress and ReleaseAll only.
LEMMA BeginAddresses ==
    ASSUME NEW c \in Claims, Begin(c)
    PROVE  ipam' = ipam \/ Releases
<1>1. CASE ReleaseAll(c)
  <2>1. \E I : ReleaseIP(cache[c].ips \ I)
    BY <1>1 DEF ReleaseAll, Release
  <2>2. QED
    BY <1>1, <2>1 DEF ReleaseAll, Dequeue, Releases
<1>2. QED
  BY <1>1 DEF Begin, ReconcileGone, AddFinalizer, IgnoreFailed, Validate, BeginProvision,
              WatchAddons, Grant, GraceDelete, Steady, ScaleUp, ScaleDown, netboxVars

LEMMA ContinueAddresses ==
    ASSUME NEW c \in Claims, Continue(c)
    PROVE  ipam' = ipam \/ Allocates
<1>1. CASE AllocateAddress(c)
  BY <1>1 DEF AllocateAddress, Allocates
<1>2. QED
  BY <1>1 DEF Continue, SaveAddress, ListMachines, StageMachine, SaveMachines, CreateJob,
              AwaitJob, FailOnJob, EnsureCluster, SaveReady, ReleaseMachine,
              RemoveFinalizer, netboxVars

LEMMA NextAddresses ==
    ASSUME TypeOK, CacheFaithful, [Next]_vars
    PROVE  ipam' = ipam \/ Allocates \/ Releases
<1>1. ASSUME NEW c \in Claims, User(c) PROVE ipam' = ipam
  BY <1>1, UserEffect DEF Edits
<1>2. Outside \/ Restart \/ UNCHANGED vars => ipam' = ipam
  BY OutsideEffect DEF Restart, vars, netboxVars
<1>3. QED
  BY <1>1, <1>2, BeginAddresses, ContinueAddresses DEF Next, Outside

-------------------------------------------------------------------------------
(* What one step can do to the claims and to the informer's copies of them *)

Writes(c, new) == claim' = [claim EXCEPT ![c] = new]

LEMMA WriteClaim ==
    ASSUME NEW c \in Claims, NEW new, NEW cur, NEW again,
           \/ Write(c, new, cur, again) \/ WriteFails(c, new, cur)
           \/ (cur /\ Store(c, new, again)) \/ Retry(c) \/ Return(c, again)
           \/ UNCHANGED objectVars
    PROVE  claim' = claim \/ (cur /\ Writes(c, new))
BY DEF Write, WriteFails, Store, Retry, Return, objectVars, Writes

\* The informer's copy is the one it was, or the claim as it is after the step.
CopiesFollow == \A d \in Claims : cache'[d] = cache[d] \/ cache'[d] = claim'[d]

LEMMA WriteCopies ==
    ASSUME TypeOK, NEW c \in Claims, NEW new, NEW cur, NEW again,
           \/ Write(c, new, cur, again) \/ WriteFails(c, new, cur)
           \/ Store(c, new, again) \/ Retry(c) \/ Return(c, again)
           \/ UNCHANGED objectVars
    PROVE  CopiesFollow
<1>1. UNCHANGED objectVars => CopiesFollow
  BY DEF objectVars, CopiesFollow
<1>2. ASSUME NEW more, Store(c, new, more) PROVE CopiesFollow
  BY <1>2 DEF Store, TypeOK, ObjectTypeOK, CopiesFollow
<1>3. QED
  BY <1>1, <1>2 DEF Write, WriteFails, Retry, Return

\* The writes of the handlers that are over in one action.
Rewritten(c, new) ==
    \/ claim[c].life = "live" /\ new = [claim[c] EXCEPT !.finalizer = TRUE]
    \/ /\ claim[c].phase = "Pending"
       /\ \E p \in {"Provisioning", "Failed"} : new = [claim[c] EXCEPT !.phase = p]
    \/ /\ claim[c].phase = "ClusterReady" /\ infra[c] = "helmReady" /\ infra'[c] = "helmReady"
       /\ new = [claim[c] EXCEPT !.phase = "AddonsReady"]
    \/ claim[c].life = "live" /\ new = [claim[c] EXCEPT !.life = "deleting"]
    \/ new = claim[c]

LEMMA CacheWrite ==
    ASSUME TypeOK, CacheFaithful, NEW c \in Claims, NEW new, NEW again,
           \/ Write(c, new, cacheCur[c], again) \/ (cacheCur[c] /\ Store(c, new, again))
           \/ Retry(c) \/ Return(c, again),
           cache[c] = claim[c] => Rewritten(c, new)
    PROVE  CopiesFollow /\ (claim' = claim \/ (Writes(c, new) /\ Rewritten(c, new)))
BY WriteClaim, WriteCopies DEF CacheFaithful

LEMMA BeginMoves ==
    ASSUME TypeOK, PhaseInv, NEW c \in Claims, Begin(c)
    PROVE  CopiesFollow /\ (claim' = claim \/ (\E new : Writes(c, new) /\ Rewritten(c, new)))
<1>0. CacheFaithful
  BY DEF PhaseInv
<1>1. CASE UNCHANGED objectVars
  BY <1>1, WriteCopies DEF objectVars
<1>2. CASE AddFinalizer(c)
  <2> DEFINE new == [cache[c] EXCEPT !.finalizer = TRUE]
  <2>1. cache[c] = claim[c] => Rewritten(c, new)
    BY <1>2 DEF AddFinalizer, Rewritten
  <2>2. QED
    BY <1>0, <1>2, <2>1, CacheWrite DEF AddFinalizer
<1>3. CASE Validate(c)
  <2>1. PICK p \in {"Provisioning", "Failed"}, again \in BOOLEAN :
          \/ Write(c, [cache[c] EXCEPT !.phase = p], cacheCur[c], again)
          \/ Retry(c)
          \/ cacheCur[c] /\ Store(c, [cache[c] EXCEPT !.phase = p], again)
    BY <1>3 DEF Validate
  <2>2. cache[c] = claim[c] => Rewritten(c, [cache[c] EXCEPT !.phase = p])
    BY <1>3 DEF Validate, Takes, Rewritten
  <2>3. QED
    BY <1>0, <2>1, <2>2, CacheWrite
<1>4. CASE WatchAddons(c)
  <2> DEFINE new == [cache[c] EXCEPT !.phase = "AddonsReady"]
  <2>1. CASE infra[c] = "helmReady" /\ infra' = infra
    <3>1. cache[c] = claim[c] => Rewritten(c, new)
      BY <1>4, <2>1 DEF WatchAddons, Takes, Rewritten
    <3>2. QED
      BY <1>0, <1>4, <3>1, CacheWrite DEF WatchAddons
  <2>2. QED
    BY <1>1, <1>4, <2>1 DEF WatchAddons, Return, Retry
<1>5. CASE GraceDelete(c)
  <2> DEFINE new == [claim[c] EXCEPT !.life = "deleting"]
  <2>1. ASSUME claim[c].life = "live", NEW again, Store(c, new, again)
        PROVE  CopiesFollow /\ \E old : Writes(c, old) /\ Rewritten(c, old)
    BY <2>1, WriteCopies DEF Store, Writes, Rewritten
  <2>2. QED
    BY <1>1, <1>5, <2>1 DEF GraceDelete, Return, Retry
<1>6. CASE ScaleUp(c) \/ ScaleDown(c)
  <2>1. cache[c] = claim[c] => Rewritten(c, cache[c])
    BY DEF Rewritten
  <2>2. QED
    BY <1>0, <1>1, <1>6, <2>1, CacheWrite DEF ScaleUp, ScaleDown
<1>7. QED
  BY <1>1, <1>2, <1>3, <1>4, <1>5, <1>6
     DEF Begin, ReconcileGone, IgnoreFailed, BeginProvision, Grant, Steady, ReleaseAll,
         Return, Retry

\* The writes of the handlers that work on a copy.
Committed(c, new) ==
    /\ memCur[c]
    /\ \/ pc[c] \in {"saveAddress", "saveMachines", "saveReady"} /\ new = mem[c]
       \/ pc[c] = "job" /\ new \in {mem[c], [mem[c] EXCEPT !.phase = "Failed"]}
       \/ /\ pc[c] = "job" /\ job[c] = "complete" /\ infra[c] \in Up
          /\ new = [mem[c] EXCEPT !.phase = "ClusterReady"]
       \/ pc[c] = "removeFinalizer" /\ new = Erased(mem[c])

LEMMA CommitWrite ==
    ASSUME TypeOK, NEW c \in Claims, NEW new, NEW again,
           \/ Write(c, new, memCur[c], again) \/ WriteFails(c, new, memCur[c])
           \/ (memCur[c] /\ Store(c, new, again)) \/ Retry(c) \/ Return(c, again),
           memCur[c] => Committed(c, new)
    PROVE  CopiesFollow /\ (claim' = claim \/ (Writes(c, new) /\ Committed(c, new)))
BY WriteClaim, WriteCopies

LEMMA ContinueMoves ==
    ASSUME TypeOK, NEW c \in Claims, Continue(c)
    PROVE  CopiesFollow /\ (claim' = claim \/ (\E new : Writes(c, new) /\ Committed(c, new)))
<1>1. CASE UNCHANGED objectVars
  BY <1>1, WriteCopies DEF objectVars
<1>2. CASE SaveAddress(c) \/ SaveMachines(c) \/ SaveReady(c)
  <2>1. memCur[c] => Committed(c, mem[c])
    BY <1>2 DEF SaveAddress, SaveMachines, SaveReady, Committed
  <2>2. QED
    BY <1>2, <2>1, CommitWrite DEF SaveAddress, SaveMachines, SaveReady
<1>3. CASE FailOnJob(c)
  <2> DEFINE new == [mem[c] EXCEPT !.phase = "Failed"]
  <2>1. memCur[c] => Committed(c, new)
    BY <1>3 DEF FailOnJob, Committed
  <2>2. QED
    BY <1>3, <2>1, CommitWrite DEF FailOnJob
<1>4. CASE EnsureCluster(c)
  <2> DEFINE new == IF infra[c] \in Up THEN [mem[c] EXCEPT !.phase = "ClusterReady"]
                                       ELSE mem[c]
  <2>1. memCur[c] => Committed(c, new)
    BY <1>4 DEF EnsureCluster, Committed
  <2>2. Write(c, new, memCur[c], TRUE) \/ Retry(c)
    BY <1>4 DEF EnsureCluster, Up
  <2>3. QED
    BY <2>1, <2>2, CommitWrite
<1>5. CASE RemoveFinalizer(c)
  <2>1. memCur[c] => Committed(c, Erased(mem[c]))
    BY <1>5 DEF RemoveFinalizer, Committed
  <2>2. QED
    BY <1>5, <2>1, CommitWrite DEF RemoveFinalizer
<1>6. QED
  BY <1>1, <1>2, <1>3, <1>4, <1>5
     DEF Continue, AllocateAddress, ListMachines, StageMachine, CreateJob, AwaitJob,
         ReleaseMachine, Retry, Return

\* A user's writes; every copy a worker has is stale from then on.
Edited(c, new) ==
    /\ claim[c].life # "gone"
    /\ \/ \E n \in 1..MaxWant : new = [claim[c] EXCEPT !.want = n]
       \/ new = [claim[c] EXCEPT !.deleteAt = ~@]
       \/ claim[c].life = "live" /\ new = [claim[c] EXCEPT !.life = "deleting"]
       \/ claim[c].life = "live" /\ ~claim[c].finalizer /\ new = Erased(claim[c])

LEMMA UserMoves ==
    ASSUME TypeOK, NEW c \in Claims, User(c)
    PROVE  /\ CopiesFollow /\ \E new : Writes(c, new) /\ Edited(c, new)
           /\ UNCHANGED <<netboxVars, roleVars, pc, mem, todo, job, infra, faults>>
           /\ memCur' = [memCur EXCEPT ![c] = FALSE] /\ edits' = edits + 1
<1>1. ASSUME NEW new, Edit(c, new), Edited(c, new)
      PROVE  /\ CopiesFollow /\ \E rec : Writes(c, rec) /\ Edited(c, rec)
             /\ UNCHANGED <<netboxVars, roleVars, pc, mem, todo, job, infra, faults>>
             /\ memCur' = [memCur EXCEPT ![c] = FALSE] /\ edits' = edits + 1
  BY <1>1, WriteCopies DEF Edit, Store, Writes
<1>2. CASE Scale(c)
  <2>1. PICK n \in 1..MaxWant : Edit(c, [claim[c] EXCEPT !.want = n])
    BY <1>2 DEF Scale
  <2>2. Edited(c, [claim[c] EXCEPT !.want = n])
    BY <1>2 DEF Scale, Edited
  <2>3. QED
    BY <1>1, <2>1, <2>2
<1>3. CASE Annotate(c)
  <2>1. Edited(c, [claim[c] EXCEPT !.deleteAt = ~@])
    BY <1>3 DEF Annotate, Edited
  <2>2. QED
    BY <1>1, <1>3, <2>1 DEF Annotate
<1>4. CASE Delete(c)
  <2>1. Edited(c, IF claim[c].finalizer THEN [claim[c] EXCEPT !.life = "deleting"]
                                        ELSE Erased(claim[c]))
    BY <1>4 DEF Delete, Edited
  <2>2. QED
    BY <1>1, <1>4, <2>1 DEF Delete
<1>5. QED
  BY <1>2, <1>3, <1>4 DEF User

LEMMA NextMoves ==
    ASSUME TypeOK, PhaseInv, [Next]_vars
    PROVE  /\ CopiesFollow
           /\ \/ claim' = claim
              \/ \E c \in Claims : \E new :
                   /\ Writes(c, new)
                   /\ Rewritten(c, new) \/ Committed(c, new) \/ Edited(c, new)
<1>1. CASE UNCHANGED vars
  BY <1>1 DEF vars, CopiesFollow
<1>2. CASE Restart
  BY <1>2 DEF Restart, CopiesFollow
<1>3. CASE Outside
  <2>1. claim' = claim
    BY <1>3, OutsideEffect DEF PhaseInv
  <2>2. ASSUME NEW c \in Claims, CacheSync(c) PROVE CopiesFollow
    BY <2>1, <2>2 DEF CacheSync, CopiesFollow, TypeOK, ObjectTypeOK
  <2>3. (~\E c \in Claims : CacheSync(c)) => UNCHANGED objectVars
    BY <1>3 DEF Outside, JobRuns, InfraRuns, TenantSync, RoleCacheSync, Recycle
  <2>4. QED
    BY <2>1, <2>2, <2>3 DEF objectVars, CopiesFollow
<1>4. QED
  BY <1>1, <1>2, <1>3, BeginMoves, ContinueMoves, UserMoves DEF Next, Outside

-------------------------------------------------------------------------------
(* AddressInv, the claims and the informer's copies *)

LEMMA MoveAddressed ==
    ASSUME TypeOK, CopiesAddressed, NEW c \in Claims, NEW new,
           Rewritten(c, new) \/ Committed(c, new) \/ Edited(c, new)
    PROVE  Addressed(c, new, ipam)
<1>0. claim[c] \in Claim /\ mem[c] \in Claim
  BY DEF TypeOK, ObjectTypeOK, WorkerTypeOK
<1>1. Addressed(c, claim[c], ipam) /\ Addressed(c, mem[c], ipam)
  BY DEF CopiesAddressed
<1>2. ASSUME NEW rec \in {claim[c], mem[c]},
             new.ips = rec.ips, new.cp = rec.cp, new.wh = rec.wh
      PROVE  Addressed(c, new, ipam)
  BY <1>1, <1>2 DEF Addressed
<1>3. ASSUME NEW rec \in Claim, new = Erased(rec)
      PROVE  Addressed(c, new, ipam)
  BY <1>3 DEF Erased, Claim, Addressed
<1>4. CASE Rewritten(c, new)
  BY <1>0, <1>2, <1>4 DEF Rewritten, Claim
<1>5. CASE Committed(c, new)
  BY <1>0, <1>2, <1>3, <1>5 DEF Committed, Claim
<1>6. CASE Edited(c, new)
  <2>1. CASE \E n \in 1..MaxWant : new = [claim[c] EXCEPT !.want = n]
    BY <1>0, <1>2, <2>1 DEF Claim
  <2>2. CASE new = [claim[c] EXCEPT !.deleteAt = ~@]
    BY <1>0, <1>2, <2>2 DEF Claim
  <2>3. CASE new = [claim[c] EXCEPT !.life = "deleting"]
    BY <1>0, <1>2, <2>3 DEF Claim
  <2>4. QED
    BY <1>0, <1>3, <1>6, <2>1, <2>2, <2>3 DEF Edited
<1>7. QED
  BY <1>4, <1>5, <1>6

\* What a move does to the life and the endpoints of the claim.
LEMMA MoveAges ==
    ASSUME TypeOK, CopyKeeps, NEW c \in Claims, NEW new,
           Rewritten(c, new) \/ Committed(c, new) \/ Edited(c, new)
    PROVE  Older(claim[c], new)
<1>0. claim[c] \in Claim /\ mem[c] \in Claim
  BY DEF TypeOK, ObjectTypeOK, WorkerTypeOK
<1>1. memCur[c] => Keeps(mem[c], claim[c])
  BY DEF CopyKeeps
<1>2. ASSUME new.cp = claim[c].cp, new.wh = claim[c].wh,
             new.life = claim[c].life \/ (claim[c].life = "live" /\ new.life = "deleting")
      PROVE  Older(claim[c], new)
  BY <1>2 DEF Older
<1>3. ASSUME memCur[c], new.cp = mem[c].cp, new.wh = mem[c].wh, new.life = mem[c].life
      PROVE  Older(claim[c], new)
  BY <1>1, <1>3 DEF Older, Keeps
<1>4. ASSUME NEW rec \in Claim, new = Erased(rec)
      PROVE  Older(claim[c], new)
  BY <1>4 DEF Erased, Claim, Older
<1>5. CASE Rewritten(c, new)
  BY <1>0, <1>2, <1>5 DEF Rewritten, Claim
<1>6. CASE Committed(c, new)
  BY <1>0, <1>3, <1>4, <1>6 DEF Committed, Claim
<1>7. CASE Edited(c, new)
  <2>1. CASE \E n \in 1..MaxWant : new = [claim[c] EXCEPT !.want = n]
    BY <1>0, <1>2, <2>1 DEF Claim
  <2>2. CASE new = [claim[c] EXCEPT !.deleteAt = ~@]
    BY <1>0, <1>2, <2>2 DEF Claim
  <2>3. CASE claim[c].life = "live" /\ new = [claim[c] EXCEPT !.life = "deleting"]
    BY <1>0, <1>2, <2>3 DEF Claim
  <2>4. QED
    BY <1>0, <1>4, <1>7, <2>1, <2>2, <2>3 DEF Edited
<1>8. QED
  BY <1>5, <1>6, <1>7

\* A claim only ages.
LEMMA ClaimsAge ==
    ASSUME TypeOK, PhaseInv, CopyKeeps, [Next]_vars, NEW c \in Claims
    PROVE  Older(claim[c], claim'[c])
<1>1. claim'[c] = claim[c] => Older(claim[c], claim'[c])
  BY DEF Older
<1>2. ASSUME NEW e \in Claims, NEW new, Writes(e, new),
             Rewritten(e, new) \/ Committed(e, new) \/ Edited(e, new)
      PROVE  Older(claim[c], claim'[c])
  <2>1. claim'[e] = new /\ \A d \in Claims \ {e} : claim'[d] = claim[d]
    BY <1>2 DEF Writes, TypeOK, ObjectTypeOK
  <2>2. Older(claim[e], new)
    BY <1>2, MoveAges
  <2>3. QED
    BY <1>1, <2>1, <2>2
<1>3. QED
  BY <1>1, <1>2, NextMoves

LEMMA OlderStill ==
    ASSUME NEW old, NEW rec, NEW now, Older(old, rec), Older(rec, now)
    PROVE  Older(old, now)
BY DEF Older

LEMMA CacheOlderNext ==
    ASSUME TypeOK, PhaseInv, CopyKeeps, CacheOlder, [Next]_vars
    PROVE  CacheOlder'
<1> SUFFICES ASSUME NEW c \in Claims PROVE Older(cache'[c], claim'[c])
  BY DEF CacheOlder
<1>1. CASE cache'[c] = cache[c]
  BY <1>1, ClaimsAge, OlderStill DEF CacheOlder
<1>2. CASE cache'[c] = claim'[c]
  BY <1>2 DEF Older
<1>3. QED
  BY <1>1, <1>2, NextMoves DEF CopiesFollow

\* Addressed, for the claims and the informer's copies, after any step.
LEMMA ObjectsAddressed ==
    ASSUME TypeOK, TypeOK', PhaseInv, CopiesAddressed, [Next]_vars, NEW c \in Claims
    PROVE  Addressed(c, claim'[c], ipam') /\ Addressed(c, cache'[c], ipam')
<1>0. /\ claim'[c] \in Claim /\ cache[c] \in Claim
      /\ ipam' = ipam \/ Allocates \/ Releases
  BY NextAddresses DEF TypeOK, ObjectTypeOK, PhaseInv
<1>1. Addressed(c, claim'[c], ipam)
  <2>1. CASE claim'[c] = claim[c]
    BY <2>1 DEF CopiesAddressed
  <2>2. ASSUME NEW e \in Claims, NEW new, Writes(e, new),
               Rewritten(e, new) \/ Committed(e, new) \/ Edited(e, new)
        PROVE  Addressed(c, claim'[c], ipam)
    <3>1. claim'[e] = new /\ \A d \in Claims \ {e} : claim'[d] = claim[d]
      BY <2>2 DEF Writes, TypeOK, ObjectTypeOK
    <3>2. Addressed(e, new, ipam)
      BY <2>2, MoveAddressed
    <3>3. QED
      BY <2>1, <3>1, <3>2
  <2>3. QED
    BY <2>1, <2>2, NextMoves
<1>2. Addressed(c, claim'[c], ipam')
  BY <1>0, <1>1, AddressedStays
<1>3. Addressed(c, cache[c], ipam')
  <2>1. Addressed(c, cache[c], ipam)
    BY DEF CopiesAddressed
  <2>2. QED
    BY <1>0, <2>1, AddressedStays
<1>4. QED
  BY <1>2, <1>3, NextMoves DEF CopiesFollow

\* A release takes only what was made for a claim that no longer lives.
LEMMA LivingKeep ==
    ASSUME TypeOK, CopiesAddressed, CacheOlder, ipam' = ipam \/ Allocates \/ Releases,
           NEW c \in Claims, claim[c].life = "live", NEW i \in IPs,
           Made(c, ipam[i]), ipam[i].state = "live"
    PROVE  ipam'[i].state = "live"
<1>1. CASE Allocates
  BY <1>1, AllocateEffect DEF Allocates
<1>2. CASE Releases
  <2>0. PICK e \in Claims :
          cache[e].life = "deleting" /\ \E S \in SUBSET cache[e].ips : ReleaseIP(S)
    BY <1>2 DEF Releases
  <2>1. PICK S \in SUBSET cache[e].ips : ReleaseIP(S)
    BY <2>0
  <2>2. e # c
    BY <2>0 DEF CacheOlder, Older
  <2>3. i \notin S
    BY <2>1, <2>2 DEF CopiesAddressed, Addressed, Made
  <2>4. QED
    BY <2>1, <2>3, ReleaseEffect
<1>3. QED
  BY <1>1, <1>2

LEMMA HeldStays ==
    ASSUME TypeOK, CopiesAddressed, CacheOlder, ipam' = ipam \/ Allocates \/ Releases,
           NEW c \in Claims, NEW rec \in Claim, Addressed(c, rec, ipam), Held(rec, ipam),
           rec.life = "live" => claim[c].life = "live"
    PROVE  Held(rec, ipam')
<1>1. rec.ips \subseteq IPs
  BY DEF Claim
<1>2. QED
  BY <1>1, LivingKeep DEF Addressed, Held

LEMMA MoveHeld ==
    ASSUME TypeOK, LiveHeld, CopyKeeps, NEW c \in Claims, NEW new,
           Rewritten(c, new) \/ Committed(c, new) \/ Edited(c, new)
    PROVE  Held(new, ipam)
<1>0. claim[c] \in Claim /\ mem[c] \in Claim
  BY DEF TypeOK, ObjectTypeOK, WorkerTypeOK
<1>1. Held(claim[c], ipam) /\ (memCur[c] => Held(mem[c], ipam))
  BY DEF LiveHeld
<1>2. ASSUME NEW rec, Held(rec, ipam), new.ips = rec.ips,
             new.life = rec.life \/ new.life = "deleting"
      PROVE  Held(new, ipam)
  BY <1>2 DEF Held
<1>3. ASSUME NEW rec \in Claim, new = Erased(rec)
      PROVE  Held(new, ipam)
  BY <1>3 DEF Erased, Claim, Held
<1>4. CASE Rewritten(c, new)
  BY <1>0, <1>1, <1>2, <1>4 DEF Rewritten, Claim
<1>5. CASE Committed(c, new)
  BY <1>0, <1>1, <1>2, <1>3, <1>5 DEF Committed, Claim
<1>6. CASE Edited(c, new)
  <2>1. CASE \E n \in 1..MaxWant : new = [claim[c] EXCEPT !.want = n]
    BY <1>0, <1>1, <1>2, <2>1 DEF Claim
  <2>2. CASE new = [claim[c] EXCEPT !.deleteAt = ~@]
    BY <1>0, <1>1, <1>2, <2>2 DEF Claim
  <2>3. CASE new = [claim[c] EXCEPT !.life = "deleting"]
    BY <1>0, <1>1, <1>2, <2>3 DEF Claim
  <2>4. QED
    BY <1>0, <1>3, <1>6, <2>1, <2>2, <2>3 DEF Edited
<1>7. QED
  BY <1>4, <1>5, <1>6

LEMMA ClaimsHeld ==
    ASSUME TypeOK, TypeOK', PhaseInv, AddressInv, [Next]_vars, NEW c \in Claims
    PROVE  Held(claim'[c], ipam')
<1>0. /\ claim'[c] \in Claim /\ (ipam' = ipam \/ Allocates \/ Releases)
      /\ CopiesAddressed /\ CacheOlder /\ CopyKeeps /\ LiveHeld
  BY NextAddresses DEF TypeOK, ObjectTypeOK, PhaseInv, AddressInv
<1>1. Addressed(c, claim'[c], ipam) /\ Held(claim'[c], ipam)
  <2>1. CASE claim'[c] = claim[c]
    BY <1>0, <2>1 DEF CopiesAddressed, LiveHeld
  <2>2. ASSUME NEW e \in Claims, NEW new, Writes(e, new),
               Rewritten(e, new) \/ Committed(e, new) \/ Edited(e, new)
        PROVE  Addressed(c, claim'[c], ipam) /\ Held(claim'[c], ipam)
    <3>1. claim'[e] = new /\ \A d \in Claims \ {e} : claim'[d] = claim[d]
      BY <2>2 DEF Writes, TypeOK, ObjectTypeOK
    <3>2. Addressed(e, new, ipam) /\ Held(new, ipam)
      BY <1>0, <2>2, MoveAddressed, MoveHeld
    <3>3. QED
      BY <2>1, <3>1, <3>2
  <2>3. QED
    BY <2>1, <2>2, NextMoves
<1>2. claim'[c].life = "live" => claim[c].life = "live"
  BY <1>0, ClaimsAge DEF Older
<1>3. QED
  BY <1>0, <1>1, <1>2, HeldStays

-------------------------------------------------------------------------------
(* AddressInv, the copies of the workers *)

\* All that AddressInv says of a worker's copy.
Sound(c, rec, now, place, current, net) ==
    /\ Addressed(c, rec, net) /\ Fits(rec, place)
    /\ current => Keeps(rec, now) /\ Held(rec, net)

AllSound == \A c \in Claims : Sound(c, mem[c], claim[c], pc[c], memCur[c], ipam)

LEMMA FreshSound ==
    ASSUME NEW c, NEW now, NEW net
    PROVE  Sound(c, Fresh(1), now, "idle", FALSE, net)
BY DEF Sound, Addressed, Fits, Fresh

LEMMA AddressSound == AddressInv => AllSound
BY DEF AddressInv, AllSound, Sound, CopiesAddressed, CopyKeeps, EndpointPlace, LiveHeld

\* A worker that does not move, whose claim is not written.
LEMMA BystanderSound ==
    ASSUME TypeOK, AddressInv, ipam' = ipam \/ Allocates \/ Releases, NEW c \in Claims,
           mem'[c] = mem[c], claim'[c] = claim[c], pc'[c] = pc[c], memCur'[c] = memCur[c]
    PROVE  Sound(c, mem'[c], claim'[c], pc'[c], memCur'[c], ipam')
<1>0. mem[c] \in Claim /\ Sound(c, mem[c], claim[c], pc[c], memCur[c], ipam)
  BY AddressSound DEF AllSound, TypeOK, WorkerTypeOK
<1>1. Addressed(c, mem[c], ipam')
  BY <1>0, AddressedStays DEF Sound
<1>2. memCur[c] => Held(mem[c], ipam')
  BY <1>0, HeldStays DEF Sound, Keeps, AddressInv
<1>3. QED
  BY <1>0, <1>1, <1>2 DEF Sound

LEMMA FinishSound ==
    ASSUME TypeOK, NEW c \in Claims, Finish(c)
    PROVE  Sound(c, mem'[c], claim'[c], pc'[c], memCur'[c], ipam')
<1>1. mem'[c] = Fresh(1) /\ pc'[c] = "idle" /\ memCur'[c] = FALSE
  BY DEF Finish, TypeOK, WorkerTypeOK
<1>2. QED
  BY <1>1, FreshSound

\* A worker that takes c and changes neither its life nor its endpoints.
LEMMA StartSound ==
    ASSUME TypeOK, TypeOK', PhaseInv, AddressInv, [Next]_vars, claim' = claim,
           NEW c \in Claims, NEW place, NEW copy \in Claim, NEW work,
           Start(c, place, copy, work), Fits(copy, place),
           copy.life = cache[c].life, copy.ips = cache[c].ips,
           copy.cp = cache[c].cp, copy.wh = cache[c].wh
    PROVE  Sound(c, mem'[c], claim'[c], pc'[c], memCur'[c], ipam')
<1>1. mem'[c] = copy /\ pc'[c] = place /\ memCur'[c] = cacheCur[c]
  BY DEF Start, TypeOK, WorkerTypeOK
<1>2. Addressed(c, copy, ipam')
  <2>1. Addressed(c, copy, ipam)
    BY DEF AddressInv, CopiesAddressed, Addressed
  <2>2. QED
    BY <2>1, NextAddresses, AddressedStays DEF PhaseInv
<1>3. cacheCur[c] => Keeps(copy, claim'[c]) /\ Held(copy, ipam')
  <2>1. cacheCur[c] => cache[c] = claim'[c]
    BY DEF PhaseInv, CacheFaithful
  <2>2. Held(claim'[c], ipam')
    BY ClaimsHeld
  <2>3. QED
    BY <2>1, <2>2 DEF Keeps, Held
<1>4. QED
  BY <1>1, <1>2, <1>3 DEF Sound

\* A worker that goes on with its copy, saved or not.
LEMMA AdvanceSound ==
    ASSUME TypeOK, TypeOK', PhaseInv, AddressInv, ipam' = ipam, NEW c \in Claims,
           memCur'[c] = memCur[c], Fits(mem'[c], pc'[c]),
           mem'[c].life = mem[c].life, mem'[c].ips = mem[c].ips,
           mem'[c].cp = mem[c].cp, mem'[c].wh = mem[c].wh,
           claim'[c] = claim[c] \/ claim'[c] = mem[c]
    PROVE  Sound(c, mem'[c], claim'[c], pc'[c], memCur'[c], ipam')
<1>1. Sound(c, mem[c], claim[c], pc[c], memCur[c], ipam)
  BY AddressSound DEF AllSound
<1>2. QED
  BY <1>1 DEF Sound, Addressed, Held, Keeps

\* A worker that is given an address adds it to its copy.
LEMMA AllocateSound ==
    ASSUME TypeOK, TypeOK', PhaseInv, AddressInv, NEW c \in Claims, NEW i \in IPs, NEW e,
           pc[c] = "allocate", pc'[c] = "saveAddress", memCur'[c] = memCur[c],
           claim'[c] = claim[c], mem'[c] = WithAddress(mem[c], i),
           ipam' = ipam \/ Allocates \/ Releases, AllocateIP(i, <<c, e>>)
    PROVE  Sound(c, mem'[c], claim'[c], pc'[c], memCur'[c], ipam')
<1>0. /\ mem[c] \in Claim /\ NoIP \notin IPs
      /\ Sound(c, mem[c], claim[c], pc[c], memCur[c], ipam)
  BY AddressSound, ClaimAssumption DEF AllSound, TypeOK, WorkerTypeOK
<1>1. /\ mem'[c].ips = mem[c].ips \cup {i} /\ mem'[c].life = mem[c].life
      /\ \/ /\ mem[c].cp = NoIP /\ mem'[c].cp = i /\ mem'[c].wh = mem[c].wh
         \/ /\ mem[c].cp # NoIP /\ mem'[c].cp = mem[c].cp /\ mem'[c].wh = i
  BY <1>0 DEF WithAddress, Claim
<1>2. mem[c].cp = NoIP \/ mem[c].wh = NoIP
  BY <1>0 DEF Sound, Fits
<1>3. Addressed(c, mem[c], ipam') /\ (memCur[c] => Held(mem[c], ipam'))
  BY <1>0, AddressedStays, HeldStays DEF Sound, Keeps, AddressInv
<1>4. Made(c, ipam'[i]) /\ ipam'[i].state = "live"
  BY AllocateEffect DEF Made
<1>5. Addressed(c, mem'[c], ipam')
  BY <1>0, <1>1, <1>2, <1>3, <1>4 DEF Addressed
<1>6. memCur[c] => Keeps(mem'[c], claim[c]) /\ Held(mem'[c], ipam')
  BY <1>0, <1>1, <1>2, <1>3, <1>4 DEF Sound, Keeps, Held
<1>7. Fits(mem'[c], pc'[c])
  BY DEF Fits
<1>8. QED
  BY <1>5, <1>6, <1>7 DEF Sound

\* A worker at rest has no current copy: its claim may be written by others.
LEMMA StaleSound ==
    ASSUME TypeOK, AddressInv, ipam' = ipam \/ Allocates \/ Releases, NEW c \in Claims,
           mem'[c] = mem[c], pc'[c] = pc[c], memCur'[c] = FALSE
    PROVE  Sound(c, mem'[c], claim'[c], pc'[c], memCur'[c], ipam')
<1>0. mem[c] \in Claim /\ Sound(c, mem[c], claim[c], pc[c], memCur[c], ipam)
  BY AddressSound DEF AllSound, TypeOK, WorkerTypeOK
<1>1. Addressed(c, mem[c], ipam')
  BY <1>0, AddressedStays DEF Sound
<1>2. QED
  BY <1>0, <1>1 DEF Sound

LEMMA BeginSound ==
    ASSUME TypeOK, TypeOK', PhaseInv, AddressInv, [Next]_vars, NEW c \in Claims, Begin(c)
    PROVE  Sound(c, mem'[c], claim'[c], pc'[c], memCur'[c], ipam')
<1>0. /\ cache[c] \in Claim /\ pc[c] = "idle"
      /\ (ipam' = ipam \/ Allocates \/ Releases)
  <2>1. pc[c] = "idle"
    BY DEF Begin, ReconcileGone, AddFinalizer, IgnoreFailed, Validate, BeginProvision,
           WatchAddons, Grant, GraceDelete, Steady, ScaleUp, ScaleDown, ReleaseAll,
           Takes, Dequeue
  <2>2. QED
    BY <2>1, NextAddresses DEF PhaseInv, TypeOK, ObjectTypeOK
<1>1. CASE UNCHANGED workerVars
  <2>1. mem'[c] = mem[c] /\ pc'[c] = pc[c] /\ memCur'[c] = FALSE
    BY <1>0, <1>1 DEF workerVars, PhaseInv, CopyHeld, TypeOK, WorkerTypeOK
  <2>2. QED
    BY <1>0, <2>1, StaleSound
<1>2. CASE BeginProvision(c)
  <2>1. Start(c, FirstCall(cache[c]), cache[c], {}) /\ claim' = claim
    BY <1>2 DEF BeginProvision, objectVars
  <2>2. Fits(cache[c], FirstCall(cache[c]))
    BY DEF Fits, FirstCall
  <2>3. QED
    BY <1>0, <2>1, <2>2, StartSound
<1>3. CASE Grant(c)
  <2> DEFINE ready == [cache[c] EXCEPT !.phase = "Ready", !.kube = TRUE]
  <2>1. /\ ready \in Claim /\ ready.life = cache[c].life /\ ready.ips = cache[c].ips
        /\ ready.cp = cache[c].cp /\ ready.wh = cache[c].wh /\ Fits(ready, "saveReady")
    BY <1>0 DEF Claim, Phase, Fits
  <2>2. ASSUME Start(c, "saveReady", ready, {}), claim' = claim
        PROVE  Sound(c, mem'[c], claim'[c], pc'[c], memCur'[c], ipam')
    BY <2>1, <2>2, StartSound
  <2>3. QED
    BY <1>1, <1>3, <2>2 DEF Grant, objectVars
<1>4. CASE ScaleUp(c)
  <2>1. Fits(cache[c], "stage")
    BY <1>4 DEF ScaleUp, Takes, Fits
  <2>2. ASSUME NEW T, Start(c, "stage", cache[c], T), claim' = claim
        PROVE  Sound(c, mem'[c], claim'[c], pc'[c], memCur'[c], ipam')
    BY <1>0, <2>1, <2>2, StartSound
  <2>3. QED
    BY <1>1, <1>4, <2>2 DEF ScaleUp, objectVars
<1>5. CASE ScaleDown(c)
  <2> DEFINE less(T) == [cache[c] EXCEPT !.machines = @ \ T]
  <2>1. ASSUME NEW T
        PROVE  /\ less(T) \in Claim /\ less(T).life = cache[c].life
               /\ less(T).ips = cache[c].ips /\ less(T).cp = cache[c].cp
               /\ less(T).wh = cache[c].wh /\ Fits(less(T), "shrink")
    BY <1>0, <1>5 DEF Claim, ScaleDown, Takes, Fits
  <2>2. ASSUME NEW T, Start(c, "shrink", less(T), T), claim' = claim
        PROVE  Sound(c, mem'[c], claim'[c], pc'[c], memCur'[c], ipam')
    BY <2>1, <2>2, StartSound
  <2>3. QED
    BY <1>1, <1>5, <2>2 DEF ScaleDown, objectVars
<1>6. CASE ReleaseAll(c)
  <2> DEFINE copy == [cache[c] EXCEPT !.finalizer = FALSE]
  <2>1. /\ copy \in Claim /\ copy.life = cache[c].life /\ copy.ips = cache[c].ips
        /\ copy.cp = cache[c].cp /\ copy.wh = cache[c].wh /\ Fits(copy, "removeFinalizer")
    BY <1>0 DEF Claim, Fits
  <2>2. Start(c, "removeFinalizer", copy, {}) /\ claim' = claim
    BY <1>6 DEF ReleaseAll, objectVars
  <2>3. QED
    BY <2>1, <2>2, StartSound
<1>7. QED
  BY <1>1, <1>2, <1>3, <1>4, <1>5, <1>6
     DEF Begin, ReconcileGone, AddFinalizer, IgnoreFailed, Validate, WatchAddons,
         GraceDelete, Steady

LEMMA ContinueSound ==
    ASSUME TypeOK, TypeOK', PhaseInv, AddressInv, NEW c \in Claims, Continue(c)
    PROVE  Sound(c, mem'[c], claim'[c], pc'[c], memCur'[c], ipam')
<1>0. mem[c] \in Claim /\ Sound(c, mem[c], claim[c], pc[c], memCur[c], ipam)
  BY AddressSound DEF AllSound, TypeOK, WorkerTypeOK
<1>1. CASE Finish(c)
  BY <1>1, FinishSound
<1>2. CASE AllocateAddress(c) /\ ~Finish(c)
  <2>1. PICK i \in IPs : /\ AllocateIP(i, <<c, IF mem[c].cp = NoIP THEN "api" ELSE "wh">>)
                         /\ mem' = [mem EXCEPT ![c] = WithAddress(mem[c], i)]
    BY <1>2 DEF AllocateAddress
  <2>2. /\ pc[c] = "allocate" /\ pc'[c] = "saveAddress" /\ memCur' = memCur /\ claim' = claim
        /\ mem'[c] = WithAddress(mem[c], i)
    BY <1>2, <2>1 DEF AllocateAddress, objectVars, TypeOK, WorkerTypeOK
  <2>3. Allocates
    BY <2>1 DEF Allocates
  <2>4. QED
    BY <2>1, <2>2, <2>3, AllocateSound
<1>3. CASE SaveAddress(c) /\ ~Finish(c)
  <2>1. /\ claim'[c] = mem[c] /\ pc'[c] = FirstCall(mem[c])
        /\ UNCHANGED <<ipam, mem, memCur>>
    BY <1>3 DEF SaveAddress, Store, netboxVars, TypeOK, ObjectTypeOK, WorkerTypeOK
  <2>2. Fits(mem[c], FirstCall(mem[c]))
    BY DEF Fits, FirstCall
  <2>3. QED
    BY <2>1, <2>2, AdvanceSound
<1>4. CASE ListMachines(c) /\ ~Finish(c)
  <2>1. /\ pc[c] = "list" /\ pc'[c] \in {"stage", "saveMachines"}
        /\ UNCHANGED <<ipam, mem, memCur, claim>>
    BY <1>4 DEF ListMachines, objectVars, netboxVars, TypeOK, WorkerTypeOK
  <2>2. Fits(mem'[c], pc'[c])
    BY <1>0, <2>1 DEF Sound, Fits
  <2>3. QED
    BY <2>1, <2>2, AdvanceSound
<1>5. CASE StageMachine(c) /\ ~Finish(c)
  <2>1. PICK m \in todo[c] :
          /\ pc[c] = "stage" /\ pc'[c] \in {"stage", "saveMachines"}
          /\ mem' = [mem EXCEPT ![c].machines = @ \cup {m}]
          /\ UNCHANGED <<ipam, memCur, claim>>
    BY <1>5 DEF StageMachine, objectVars, TypeOK, WorkerTypeOK
  <2>2. /\ mem'[c].life = mem[c].life /\ mem'[c].ips = mem[c].ips
        /\ mem'[c].cp = mem[c].cp /\ mem'[c].wh = mem[c].wh
        /\ mem'[c].phase = mem[c].phase
    BY <1>0, <2>1 DEF TypeOK, WorkerTypeOK, Claim
  <2>3. Fits(mem'[c], pc'[c])
    BY <1>0, <2>1, <2>2 DEF Sound, Fits
  <2>4. QED
    BY <2>1, <2>2, <2>3, AdvanceSound
<1>6. CASE SaveMachines(c) /\ ~Finish(c)
  <2>1. claim'[c] = mem[c] /\ pc'[c] = "job" /\ UNCHANGED <<ipam, mem, memCur>>
    BY <1>6 DEF SaveMachines, Store, netboxVars, TypeOK, ObjectTypeOK, WorkerTypeOK
  <2>2. Fits(mem'[c], pc'[c])
    BY <2>1 DEF Fits
  <2>3. QED
    BY <2>1, <2>2, AdvanceSound
<1>7. CASE ReleaseMachine(c) /\ ~Finish(c)
  <2>1. /\ pc[c] = "shrink" /\ pc'[c] \in {"shrink", "saveMachines"}
        /\ UNCHANGED <<ipam, mem, memCur, claim>>
    BY <1>7 DEF ReleaseMachine, objectVars, TypeOK, WorkerTypeOK
  <2>2. Fits(mem'[c], pc'[c])
    BY <1>0, <2>1 DEF Sound, Fits
  <2>3. QED
    BY <2>1, <2>2, AdvanceSound
<1>8. QED
  BY <1>1, <1>2, <1>3, <1>4, <1>5, <1>6, <1>7
     DEF Continue, CreateJob, AwaitJob, FailOnJob, EnsureCluster, SaveReady, RemoveFinalizer

\* A reconciliation of one claim leaves the workers and the objects of the others alone.
LEMMA OneActor ==
    ASSUME TypeOK, NEW c \in Claims, Begin(c) \/ Continue(c), NEW d \in Claims \ {c}
    PROVE  mem'[d] = mem[d] /\ pc'[d] = pc[d] /\ memCur'[d] = memCur[d]
<1> USE DEF TypeOK, WorkerTypeOK
<1>1. UNCHANGED workerVars \/ Finish(c) =>
        mem'[d] = mem[d] /\ pc'[d] = pc[d] /\ memCur'[d] = memCur[d]
  BY DEF workerVars, Finish
<1>2. ASSUME NEW place, NEW copy, NEW work, Start(c, place, copy, work)
      PROVE  mem'[d] = mem[d] /\ pc'[d] = pc[d] /\ memCur'[d] = memCur[d]
  BY <1>2 DEF Start
<1>3. CASE Begin(c)
  BY <1>1, <1>2, <1>3
     DEF Begin, ReconcileGone, AddFinalizer, IgnoreFailed, Validate, BeginProvision,
         WatchAddons, Grant, GraceDelete, Steady, ScaleUp, ScaleDown, ReleaseAll
<1>4. CASE Continue(c) /\ ~Finish(c)
  BY <1>4
     DEF Continue, AllocateAddress, SaveAddress, ListMachines, StageMachine, SaveMachines,
         CreateJob, AwaitJob, FailOnJob, EnsureCluster, SaveReady, ReleaseMachine,
         RemoveFinalizer
<1>5. QED
  BY <1>1, <1>3, <1>4

LEMMA AllSoundNext ==
    ASSUME TypeOK, TypeOK', PhaseInv, AddressInv, [Next]_vars, NEW d \in Claims
    PROVE  Sound(d, mem'[d], claim'[d], pc'[d], memCur'[d], ipam')
<1>0. ipam' = ipam \/ Allocates \/ Releases
  BY NextAddresses DEF PhaseInv
<1>1. ASSUME NEW c \in Claims, Begin(c) \/ Continue(c)
      PROVE  Sound(d, mem'[d], claim'[d], pc'[d], memCur'[d], ipam')
  <2>1. CASE d = c
    BY <1>1, <2>1, BeginSound, ContinueSound
  <2>2. CASE d # c
    <3>1. claim'[d] = claim[d]
      BY <1>1, <2>2, BeginMoves, ContinueMoves DEF Writes, TypeOK, ObjectTypeOK
    <3>2. QED
      BY <1>0, <1>1, <2>2, <3>1, OneActor, BystanderSound
  <2>3. QED
    BY <2>1, <2>2
<1>2. ASSUME NEW c \in Claims, User(c)
      PROVE  Sound(d, mem'[d], claim'[d], pc'[d], memCur'[d], ipam')
  <2>1. /\ mem' = mem /\ pc' = pc /\ memCur' = [memCur EXCEPT ![c] = FALSE]
        /\ \E new : claim' = [claim EXCEPT ![c] = new]
    BY <1>2, UserMoves DEF Writes
  <2>2. CASE d = c
    <3>1. memCur'[d] = FALSE
      BY <2>1, <2>2 DEF TypeOK, WorkerTypeOK
    <3>2. QED
      BY <1>0, <2>1, <3>1, StaleSound
  <2>3. CASE d # c
    BY <1>0, <2>1, <2>3, BystanderSound DEF TypeOK, ObjectTypeOK, WorkerTypeOK
  <2>4. QED
    BY <2>2, <2>3
<1>3. CASE Outside \/ UNCHANGED vars
  <2>1. claim' = claim /\ UNCHANGED workerVars
    BY <1>3, OutsideEffect DEF vars, workerVars, PhaseInv
  <2>2. QED
    BY <1>0, <2>1, BystanderSound DEF workerVars
<1>4. CASE Restart
  <2>1. mem'[d] = Fresh(1) /\ pc'[d] = "idle" /\ memCur'[d] = FALSE
    BY <1>4 DEF Restart
  <2>2. QED
    BY <2>1, FreshSound
<1>5. QED
  BY <1>1, <1>2, <1>3, <1>4 DEF Next, Outside

LEMMA AddressInvInit == Init => AddressInv
<1> SUFFICES ASSUME Init PROVE AddressInv
  OBVIOUS
<1>1. ASSUME NEW c \in Claims
      PROVE  /\ \A rec \in {claim[c], cache[c], mem[c]} :
                   rec.life = "live" /\ rec.cp = NoIP /\ rec.wh = NoIP /\ rec.ips = {}
             /\ memCur[c] = FALSE /\ pc[c] = "idle"
  BY DEF Init, Fresh
<1>2. CopiesAddressed
  BY <1>1 DEF CopiesAddressed, Addressed
<1>3. CacheOlder
  BY <1>1 DEF CacheOlder, Older
<1>4. CopyKeeps /\ EndpointPlace
  BY <1>1 DEF CopyKeeps, EndpointPlace, Fits
<1>5. LiveHeld
  BY <1>1 DEF LiveHeld, Held
<1>6. QED
  BY <1>2, <1>3, <1>4, <1>5 DEF AddressInv

LEMMA AddressInvNext ==
    TypeOK /\ TypeOK' /\ PhaseInv /\ AddressInv /\ [Next]_vars => AddressInv'
<1> SUFFICES ASSUME TypeOK, TypeOK', PhaseInv, AddressInv, [Next]_vars PROVE AddressInv'
  OBVIOUS
<1>1. \A d \in Claims : Sound(d, mem'[d], claim'[d], pc'[d], memCur'[d], ipam')
  BY AllSoundNext
<1>2. \A d \in Claims : Addressed(d, claim'[d], ipam') /\ Addressed(d, cache'[d], ipam')
  BY ObjectsAddressed DEF AddressInv
<1>3. \A d \in Claims : Held(claim'[d], ipam')
  BY ClaimsHeld
<1>4. CopiesAddressed'
  BY <1>1, <1>2 DEF CopiesAddressed, Sound
<1>5. CacheOlder'
  BY CacheOlderNext DEF AddressInv
<1>6. CopyKeeps' /\ EndpointPlace' /\ LiveHeld'
  BY <1>1, <1>3 DEF CopyKeeps, EndpointPlace, LiveHeld, Sound
<1>7. QED
  BY <1>4, <1>5, <1>6 DEF AddressInv

LEMMA AddressInvariant == Spec => []AddressInv
<1>1. QED
  BY TypeCorrect, PhaseInvariant, AddressInvInit, AddressInvNext, PTL DEF Spec

\* Every address of a living claim exists and carries its name, whatever the number of
\* workers, stale copies, crashes and lost requests: a finalizer works from a copy of its
\* own claim, whose deletion nothing takes back, and every address on it was made for it.
THEOREM ClaimsHoldTheirOwn == Spec => []RecordedIPsLive
<1>1. TypeOK /\ AddressInv => RecordedIPsLive
  <2> SUFFICES ASSUME TypeOK, AddressInv, NEW c \in Claims, claim[c].life = "live"
               PROVE  /\ \A i \in claim[c].ips : ipam[i].state = "live" /\ ipam[i].dns[1] = c
                      /\ claim[c].ips = {claim[c].cp, claim[c].wh} \ {NoIP}
    BY DEF RecordedIPsLive
  <2>1. Addressed(c, claim[c], ipam) /\ Held(claim[c], ipam)
    BY DEF AddressInv, CopiesAddressed, LiveHeld
  <2>2. QED
    BY <2>1 DEF Addressed, Held, Made
<1>2. QED
  BY <1>1, TypeCorrect, AddressInvariant, PTL

-------------------------------------------------------------------------------
(* BuiltInv: Jobs and clusters only move on *)

\* A completed Job stays so, and a cluster that is up stays up.
Progress ==
    \A d \in Claims :
        /\ job[d] = "complete" => job'[d] = "complete"
        /\ job[d] # "none" => job'[d] # "none"
        /\ (job[d] = "none" /\ job'[d] # "none") => pc[d] = "job"
        /\ infra[d] \in Up => infra'[d] \in Up
        /\ infra[d] = "helmReady" => infra'[d] = "helmReady"

LEMMA NextProgress == ASSUME TypeOK, [Next]_vars PROVE Progress
<1> USE DEF TypeOK, EnvironmentTypeOK
<1>1. job' = job /\ infra' = infra => Progress
  BY DEF Progress
<1>2. ASSUME NEW c \in Claims, Begin(c) PROVE Progress
  <2>1. CASE WatchAddons(c)
    BY <1>1, <2>1 DEF WatchAddons, Progress, Up
  <2>2. QED
    BY <1>1, <1>2, <2>1
       DEF Begin, ReconcileGone, AddFinalizer, IgnoreFailed, Validate, BeginProvision,
           Grant, GraceDelete, Steady, ScaleUp, ScaleDown, ReleaseAll
<1>3. ASSUME NEW c \in Claims, Continue(c) PROVE Progress
  <2>1. CASE CreateJob(c)
    <3>1. /\ pc[c] = "job" /\ job[c] = "none" /\ infra' = infra
          /\ job' \in {job, [job EXCEPT ![c] = "running"]}
      BY <2>1 DEF CreateJob
    <3>2. QED
      BY <1>1, <3>1 DEF Progress
  <2>2. CASE EnsureCluster(c)
    <3>1. job' = job /\ (infra' = infra \/ (/\ infra[c] \in {"none", "begun"}
                                           /\ \E s : infra' = [infra EXCEPT ![c] = s]))
      BY <2>2 DEF EnsureCluster
    <3>2. QED
      BY <1>1, <3>1 DEF Progress, Up
  <2>3. QED
    BY <1>1, <1>3, <2>1, <2>2
       DEF Continue, AllocateAddress, SaveAddress, ListMachines, StageMachine, SaveMachines,
           AwaitJob, FailOnJob, SaveReady, ReleaseMachine, RemoveFinalizer
<1>4. ASSUME NEW c \in Claims, JobRuns(c) PROVE Progress
  <2>1. PICK s : job' = [job EXCEPT ![c] = s]
    BY <1>4 DEF JobRuns
  <2>2. job[c] \in {"running", "retrying"} /\ infra' = infra
    BY <1>4 DEF JobRuns
  <2>3. s # "none"
    <3>1. job'[c] = s
      BY <2>1
    <3>2. s \in {"complete", "failed", "retrying", "completeAfterFailure"}
      BY <1>4, <2>2, <3>1, OutcomeAssumption DEF JobRuns
    <3>3. QED
      BY <3>2
  <2>4. QED
    BY <2>1, <2>2, <2>3 DEF Progress
<1>5. ASSUME NEW c \in Claims, InfraRuns(c) PROVE Progress
  <2>1. \/ infra[c] = "built" /\ infra' = [infra EXCEPT ![c] = "cpReady"]
        \/ infra[c] = "helm" /\ infra' = [infra EXCEPT ![c] = "helmReady"]
    BY <1>5 DEF InfraRuns
  <2>2. job' = job
    BY <1>5 DEF InfraRuns
  <2>3. QED
    BY <2>1, <2>2 DEF Progress, Up
<1>6. ASSUME NEW c \in Claims, User(c) \/ CacheSync(c) PROVE Progress
  BY <1>1, <1>6, UserMoves DEF CacheSync
<1>7. ASSUME NEW t \in Tenants, TenantSync(t) \/ RoleCacheSync(t) PROVE Progress
  BY <1>1, <1>7 DEF TenantSync, RoleCacheSync
<1>8. ASSUME NEW m \in Machines, Recycle(m) PROVE Progress
  BY <1>1, <1>8 DEF Recycle
<1>9. CASE Restart \/ UNCHANGED vars
  BY <1>1, <1>9 DEF Restart, vars
<1>10. QED
  BY <1>2, <1>3, <1>4, <1>5, <1>6, <1>7, <1>8, <1>9 DEF Next

LEMMA BuiltStays ==
    ASSUME Progress, NEW d \in Claims, NEW rec, Built(rec, job[d], infra[d])
    PROVE  Built(rec, job'[d], infra'[d])
BY DEF Progress, Built

LEMMA MoveBuilt ==
    ASSUME TypeOK, PhaseInv, CopiesBuilt, Progress, NEW c \in Claims, NEW new,
           Rewritten(c, new) \/ Committed(c, new) \/ Edited(c, new)
    PROVE  Built(new, job'[c], infra'[c])
<1>0. claim[c] \in Claim /\ mem[c] \in Claim
  BY DEF TypeOK, ObjectTypeOK, WorkerTypeOK
<1>1. Built(claim[c], job'[c], infra'[c]) /\ Built(mem[c], job'[c], infra'[c])
  BY BuiltStays DEF CopiesBuilt
<1>2. ASSUME NEW rec \in {claim[c], mem[c]},
             new.phase = rec.phase, new.kube = rec.kube,
             new.life = "gone" \/ rec.life # "gone" \/ new.life = rec.life
      PROVE  Built(new, job'[c], infra'[c])
  BY <1>1, <1>2 DEF Built
<1>3. ASSUME NEW rec \in {claim[c], mem[c]}, new = Erased(rec)
      PROVE  Built(new, job'[c], infra'[c])
  BY <1>0, <1>1, <1>3 DEF Built, Erased, Claim
<1>4. CASE Rewritten(c, new)
  <2>1. CASE new \in {claim[c], [claim[c] EXCEPT !.finalizer = TRUE]}
    BY <1>0, <1>2, <2>1 DEF Claim
  <2>2. CASE claim[c].life = "live" /\ new = [claim[c] EXCEPT !.life = "deleting"]
    BY <1>0, <1>2, <2>2 DEF Claim
  <2>3. ASSUME NEW p \in {"Provisioning", "Failed"}, claim[c].phase = "Pending",
               new = [claim[c] EXCEPT !.phase = p]
        PROVE  Built(new, job'[c], infra'[c])
    BY <1>0, <1>1, <2>3 DEF Built, Claim, Exposed
  <2>4. CASE /\ claim[c].phase = "ClusterReady" /\ infra'[c] = "helmReady"
             /\ new = [claim[c] EXCEPT !.phase = "AddonsReady"]
    BY <1>0, <1>1, <2>4 DEF Built, Claim, Exposed
  <2>5. QED
    BY <1>4, <2>1, <2>2, <2>3, <2>4 DEF Rewritten
<1>5. CASE Committed(c, new)
  <2>1. CASE new = mem[c]
    BY <1>2, <2>1
  <2>2. CASE pc[c] = "job" /\ new = [mem[c] EXCEPT !.phase = "Failed"]
    BY <1>0, <1>1, <2>2 DEF Built, Claim, Exposed, PhaseInv, PlacePhase
  <2>3. CASE /\ pc[c] = "job" /\ job[c] = "complete" /\ infra[c] \in Up
             /\ new = [mem[c] EXCEPT !.phase = "ClusterReady"]
    <3>1. job'[c] = "complete" /\ infra'[c] \in Up
      BY <2>3 DEF Progress
    <3>2. mem[c].phase = "Provisioning"
      BY <2>3 DEF PhaseInv, PlacePhase
    <3>3. QED
      BY <1>0, <1>1, <2>3, <3>1, <3>2 DEF Built, Claim, Exposed
  <2>4. QED
    BY <1>3, <1>5, <2>1, <2>2, <2>3 DEF Committed
<1>6. CASE Edited(c, new)
  <2>1. CASE \E n \in 1..MaxWant : new = [claim[c] EXCEPT !.want = n]
    BY <1>0, <1>2, <2>1 DEF Claim
  <2>2. CASE new = [claim[c] EXCEPT !.deleteAt = ~@]
    BY <1>0, <1>2, <2>2 DEF Claim
  <2>3. CASE claim[c].life = "live" /\ new = [claim[c] EXCEPT !.life = "deleting"]
    BY <1>0, <1>2, <2>3 DEF Claim
  <2>4. QED
    BY <1>3, <1>6, <2>1, <2>2, <2>3 DEF Edited
<1>7. QED
  BY <1>4, <1>5, <1>6

\* A worker's copy after a step: forgotten, taken from a copy with its phase, or Ready
\* after a grant.
Recalled(d) ==
    \/ mem'[d] = Fresh(1)
    \/ \E rec \in {mem[d], cache[d]} : /\ mem'[d].phase = rec.phase /\ mem'[d].kube = rec.kube
                                       /\ mem'[d].life = rec.life
    \/ cache[d].phase = "AddonsReady" /\ mem'[d].phase = "Ready" /\ mem'[d].kube = TRUE

LEMMA NextRecalled == ASSUME TypeOK, PhaseInv, [Next]_vars, NEW d \in Claims PROVE Recalled(d)
<1>1. mem'[d] = mem[d] => Recalled(d)
  BY DEF Recalled
<1>2. ASSUME NEW c \in Claims, Begin(c) PROVE Recalled(d)
  <2>0. cache[c] \in Claim
    BY DEF TypeOK, ObjectTypeOK
  <2>1. ASSUME NEW place, NEW copy, NEW work, Start(c, place, copy, work), d = c,
               \/ copy.phase = cache[c].phase /\ copy.kube = cache[c].kube
                  /\ copy.life = cache[c].life
               \/ /\ cache[c].phase = "AddonsReady" /\ copy.phase = "Ready"
                  /\ copy.kube = TRUE
        PROVE  Recalled(d)
    <3>1. mem'[d] = copy
      BY <2>1 DEF Start, TypeOK, WorkerTypeOK
    <3>2. QED
      BY <2>1, <3>1 DEF Recalled
  <2>2. CASE d # c
    BY <1>1, <1>2, <2>2, OneActor
  <2>3. CASE UNCHANGED workerVars
    BY <1>1, <2>3 DEF workerVars
  <2>4. CASE d = c /\ BeginProvision(c)
    BY <2>1, <2>4 DEF BeginProvision
  <2>5. CASE d = c /\ Grant(c)
    <3> DEFINE ready == [cache[c] EXCEPT !.phase = "Ready", !.kube = TRUE]
    <3>1. ready.phase = "Ready" /\ ready.kube = TRUE /\ cache[c].phase = "AddonsReady"
      BY <2>0, <2>5 DEF Claim, Grant, Takes
    <3>2. Start(c, "saveReady", ready, {}) => Recalled(d)
      BY <2>1, <2>5, <3>1
    <3>3. QED
      BY <2>3, <2>5, <3>2 DEF Grant
  <2>6. CASE d = c /\ ScaleUp(c)
    BY <2>1, <2>3, <2>6 DEF ScaleUp
  <2>7. CASE d = c /\ ScaleDown(c)
    <3> DEFINE less(T) == [cache[c] EXCEPT !.machines = @ \ T]
    <3>1. ASSUME NEW T, Start(c, "shrink", less(T), T) PROVE Recalled(d)
      <4>1. /\ less(T).phase = cache[c].phase /\ less(T).kube = cache[c].kube
            /\ less(T).life = cache[c].life
        BY <2>0 DEF Claim
      <4>2. QED
        BY <2>1, <2>7, <3>1, <4>1
    <3>2. QED
      BY <2>3, <2>7, <3>1 DEF ScaleDown
  <2>8. CASE d = c /\ ReleaseAll(c)
    <3> DEFINE copy == [cache[c] EXCEPT !.finalizer = FALSE]
    <3>1. /\ copy.phase = cache[c].phase /\ copy.kube = cache[c].kube
          /\ copy.life = cache[c].life
      BY <2>0 DEF Claim
    <3>2. Start(c, "removeFinalizer", copy, {})
      BY <2>8 DEF ReleaseAll
    <3>3. QED
      BY <2>1, <2>8, <3>1, <3>2
  <2>9. QED
    BY <1>2, <2>2, <2>3, <2>4, <2>5, <2>6, <2>7, <2>8
       DEF Begin, ReconcileGone, AddFinalizer, IgnoreFailed, Validate, WatchAddons,
           GraceDelete, Steady
<1>3. ASSUME NEW c \in Claims, Continue(c) PROVE Recalled(d)
  <2>0. mem[c] \in Claim
    BY DEF TypeOK, WorkerTypeOK
  <2>1. CASE d # c
    BY <1>1, <1>3, <2>1, OneActor
  <2>2. CASE d = c /\ Finish(c)
    BY <2>2 DEF Finish, Recalled, TypeOK, WorkerTypeOK
  <2>3. CASE d = c /\ AllocateAddress(c) /\ ~Finish(c)
    <3>1. PICK i \in IPs : mem' = [mem EXCEPT ![c] = WithAddress(mem[c], i)]
      BY <2>3 DEF AllocateAddress
    <3>2. mem'[c] = WithAddress(mem[c], i)
      BY <3>1 DEF TypeOK, WorkerTypeOK
    <3>3. QED
      BY <2>0, <2>3, <3>2 DEF WithAddress, Claim, Recalled
  <2>4. CASE d = c /\ StageMachine(c) /\ ~Finish(c)
    <3>1. PICK m : mem' = [mem EXCEPT ![c].machines = @ \cup {m}]
      BY <2>4 DEF StageMachine
    <3>2. mem'[c] = [mem[c] EXCEPT !.machines = @ \cup {m}]
      BY <3>1 DEF TypeOK, WorkerTypeOK
    <3>3. QED
      BY <2>0, <2>4, <3>2 DEF Claim, Recalled
  <2>5. QED
    BY <1>1, <1>3, <2>1, <2>2, <2>3, <2>4
       DEF Continue, SaveAddress, ListMachines, SaveMachines, CreateJob, AwaitJob,
           FailOnJob, EnsureCluster, SaveReady, ReleaseMachine, RemoveFinalizer
<1>4. ASSUME NEW c \in Claims, User(c) PROVE Recalled(d)
  BY <1>1, <1>4, UserMoves
<1>5. CASE Outside \/ UNCHANGED vars
  BY <1>1, <1>5, OutsideEffect DEF vars, workerVars, PhaseInv
<1>6. CASE Restart
  BY <1>6 DEF Restart, Recalled
<1>7. QED
  BY <1>2, <1>3, <1>4, <1>5, <1>6 DEF Next, Outside

LEMMA CopiesBuiltNext ==
    ASSUME TypeOK, PhaseInv, CopiesBuilt, [Next]_vars
    PROVE  CopiesBuilt'
<1> SUFFICES ASSUME NEW d \in Claims
             PROVE  /\ Built(claim'[d], job'[d], infra'[d])
                    /\ Built(cache'[d], job'[d], infra'[d])
                    /\ Built(mem'[d], job'[d], infra'[d])
  BY DEF CopiesBuilt
<1>0. Progress
  BY NextProgress
<1>1. ASSUME NEW rec \in {claim[d], cache[d], mem[d]} PROVE Built(rec, job'[d], infra'[d])
  BY <1>0, BuiltStays DEF CopiesBuilt
<1>2. Built(claim'[d], job'[d], infra'[d])
  <2>1. CASE claim'[d] = claim[d]
    BY <1>1, <2>1
  <2>2. ASSUME NEW e \in Claims, NEW new, Writes(e, new),
               Rewritten(e, new) \/ Committed(e, new) \/ Edited(e, new)
        PROVE  Built(claim'[d], job'[d], infra'[d])
    <3>1. claim'[e] = new /\ \A c \in Claims \ {e} : claim'[c] = claim[c]
      BY <2>2 DEF Writes, TypeOK, ObjectTypeOK
    <3>2. Built(new, job'[e], infra'[e])
      BY <1>0, <2>2, MoveBuilt
    <3>3. QED
      BY <2>1, <3>1, <3>2
  <2>3. QED
    BY <2>1, <2>2, NextMoves
<1>3. Built(cache'[d], job'[d], infra'[d])
  BY <1>1, <1>2, NextMoves DEF CopiesFollow
<1>4. Built(mem'[d], job'[d], infra'[d])
  <2>1. CASE mem'[d] = Fresh(1)
    BY <2>1 DEF Built, Fresh, Exposed
  <2>2. ASSUME NEW rec \in {mem[d], cache[d]},
               mem'[d].phase = rec.phase, mem'[d].kube = rec.kube, mem'[d].life = rec.life
        PROVE  Built(mem'[d], job'[d], infra'[d])
    BY <1>1, <2>2 DEF Built
  <2>3. CASE cache[d].phase = "AddonsReady" /\ mem'[d].phase = "Ready" /\ mem'[d].kube = TRUE
    BY <1>1, <2>3 DEF Built, Exposed
  <2>4. QED
    BY <2>1, <2>2, <2>3, NextRecalled DEF Recalled
<1>5. QED
  BY <1>2, <1>3, <1>4

\* A worker comes to the Job only when its claim has both endpoints, saved.
LEMMA JobReached ==
    ASSUME TypeOK, PhaseInv, AddressInv, [Next]_vars, NEW d \in Claims,
           pc'[d] = "job", pc[d] # "job"
    PROVE  /\ claim'[d].life = "gone" \/ (claim'[d].cp # NoIP /\ claim'[d].wh # NoIP)
<1>1. ASSUME NEW c \in Claims, Begin(c)
      PROVE  claim'[d].life = "gone" \/ (claim'[d].cp # NoIP /\ claim'[d].wh # NoIP)
  <2>1. c = d /\ ~UNCHANGED workerVars
    BY <1>1, OneActor DEF workerVars
  <2>2. ASSUME NEW place, NEW copy, NEW work, Start(c, place, copy, work)
        PROVE  place = "job"
    BY <2>1, <2>2 DEF Start, TypeOK, WorkerTypeOK
  <2>3. BeginProvision(c)
    BY <1>1, <2>1, <2>2
       DEF Begin, ReconcileGone, AddFinalizer, IgnoreFailed, Validate, WatchAddons, Grant,
           GraceDelete, Steady, ScaleUp, ScaleDown, ReleaseAll
  <2>4. FirstCall(cache[c]) = "job" /\ claim' = claim
    BY <2>2, <2>3 DEF BeginProvision, objectVars
  <2>5. cache[c].cp # NoIP /\ cache[c].wh # NoIP
    BY <2>4 DEF FirstCall
  <2>6. QED
    BY <2>1, <2>4, <2>5 DEF AddressInv, CacheOlder, Older
<1>2. ASSUME NEW c \in Claims, Continue(c)
      PROVE  claim'[d].life = "gone" \/ (claim'[d].cp # NoIP /\ claim'[d].wh # NoIP)
  <2>1. c = d
    BY <1>2, OneActor
  <2>2. ~Finish(c)
    BY <2>1 DEF Finish, TypeOK, WorkerTypeOK
  <2>3. CASE SaveAddress(c)
    <3>1. claim'[c] = mem[c] /\ FirstCall(mem[c]) = "job"
      BY <2>1, <2>2, <2>3 DEF SaveAddress, Store, TypeOK, ObjectTypeOK, WorkerTypeOK
    <3>2. QED
      BY <2>1, <3>1 DEF FirstCall
  <2>4. CASE SaveMachines(c)
    <3>1. claim'[c] = mem[c] /\ mem[c].phase = "Provisioning" /\ pc[c] = "saveMachines"
      BY <2>1, <2>2, <2>4 DEF SaveMachines, Store, TypeOK, ObjectTypeOK
    <3>2. QED
      BY <2>1, <3>1 DEF AddressInv, EndpointPlace, Fits
  <2>5. \/ AllocateAddress(c) \/ SaveAddress(c) \/ ListMachines(c) \/ StageMachine(c)
        \/ SaveMachines(c) \/ ReleaseMachine(c)
    BY <1>2, <2>2
       DEF Continue, CreateJob, AwaitJob, FailOnJob, EnsureCluster, SaveReady,
           RemoveFinalizer
  <2>6. ~(AllocateAddress(c) \/ ListMachines(c) \/ StageMachine(c) \/ ReleaseMachine(c))
    BY <2>1, <2>2
       DEF AllocateAddress, ListMachines, StageMachine, ReleaseMachine, TypeOK, WorkerTypeOK
  <2>7. QED
    BY <2>3, <2>4, <2>5, <2>6
<1>3. ASSUME NEW c \in Claims, User(c) PROVE FALSE
  BY <1>3, UserMoves
<1>4. ~Outside /\ ~Restart /\ ~UNCHANGED vars
  BY OutsideEffect DEF vars, workerVars, PhaseInv, Restart
<1>5. QED
  BY <1>1, <1>2, <1>3, <1>4 DEF Next, Outside

LEMMA JobEndpointsNext ==
    ASSUME TypeOK, PhaseInv, AddressInv, JobEndpoints, [Next]_vars
    PROVE  JobEndpoints'
<1> SUFFICES ASSUME NEW d \in Claims, job'[d] # "none" \/ pc'[d] = "job"
             PROVE  claim'[d].life = "gone" \/ (claim'[d].cp # NoIP /\ claim'[d].wh # NoIP)
  BY DEF JobEndpoints, Endpoints
<1>1. CASE job[d] # "none" \/ pc[d] = "job"
  <2>1. Endpoints(d)
    BY <1>1 DEF JobEndpoints
  <2>2. Older(claim[d], claim'[d])
    BY ClaimsAge DEF AddressInv
  <2>3. QED
    BY <2>1, <2>2 DEF Endpoints, Older
<1>2. CASE ~(job[d] # "none" \/ pc[d] = "job")
  <2>1. pc'[d] = "job"
    BY <1>2, NextProgress DEF Progress
  <2>2. QED
    BY <1>2, <2>1, JobReached
<1>3. QED
  BY <1>1, <1>2

\* Nobody but Grant adds a name to a Role, and the informer's copies follow.
LEMMA NextNames ==
    ASSUME TypeOK, [Next]_vars, NEW d \in Claims,
           d \in role'[TenantOf[d]].names \cup roleSeen'[TenantOf[d]].names
    PROVE  \/ d \in role[TenantOf[d]].names \cup roleSeen[TenantOf[d]].names
           \/ cache[d].phase = "AddonsReady"
<1>0. /\ TenantOf \in [Claims -> Tenants]
      /\ \A t \in Tenants : role[t] \in Role /\ roleSeen[t] \in Role
  BY ClaimAssumption DEF TypeOK, RoleTypeOK
<1>1. CASE UNCHANGED roleVars
  BY <1>1 DEF roleVars
<1>2. ASSUME NEW t \in Tenants, NEW new, RoleStore(t, new),
             TenantOf[d] = t /\ d \in new.names =>
                 \/ d \in role[TenantOf[d]].names \cup roleSeen[TenantOf[d]].names
                 \/ cache[d].phase = "AddonsReady"
      PROVE  \/ d \in role[TenantOf[d]].names \cup roleSeen[TenantOf[d]].names
             \/ cache[d].phase = "AddonsReady"
  BY <1>0, <1>2 DEF RoleStore, TypeOK, RoleTypeOK
<1>3. ASSUME NEW c \in Claims, Grant(c)
      PROVE  \/ d \in role[TenantOf[d]].names \cup roleSeen[TenantOf[d]].names
             \/ cache[d].phase = "AddonsReady"
  <2> DEFINE granted == [roleSeen[TenantOf[c]] EXCEPT !.names = @ \cup {c}]
  <2>1. UNCHANGED roleVars \/ RoleStore(TenantOf[c], granted)
    BY <1>3 DEF Grant
  <2>2. granted.names = roleSeen[TenantOf[c]].names \cup {c} /\ cache[c].phase = "AddonsReady"
    BY <1>0, <1>3 DEF Role, Grant, Takes
  <2>3. QED
    BY <1>0, <1>1, <1>2, <2>1, <2>2
<1>4. ASSUME NEW c \in Claims, ReleaseAll(c)
      PROVE  \/ d \in role[TenantOf[d]].names \cup roleSeen[TenantOf[d]].names
             \/ cache[d].phase = "AddonsReady"
  <2> DEFINE revoked == [role[TenantOf[c]] EXCEPT !.names = @ \ {c}]
  <2>1. UNCHANGED roleVars \/ RoleStore(TenantOf[c], revoked)
    BY <1>4 DEF ReleaseAll, Revoke
  <2>2. revoked.names \subseteq role[TenantOf[c]].names
    BY <1>0 DEF Role
  <2>3. QED
    BY <1>0, <1>1, <1>2, <2>1, <2>2
<1>5. ASSUME NEW c \in Claims, Begin(c), ~Grant(c), ~ReleaseAll(c)
      PROVE  UNCHANGED roleVars
  BY <1>5 DEF Begin, ReconcileGone, AddFinalizer, IgnoreFailed, Validate, BeginProvision,
              WatchAddons, GraceDelete, Steady, ScaleUp, ScaleDown
<1>6. ASSUME NEW c \in Claims, Continue(c)
      PROVE  UNCHANGED roleVars
  BY <1>6 DEF Continue, AllocateAddress, SaveAddress, ListMachines, StageMachine,
              SaveMachines, CreateJob, AwaitJob, FailOnJob, EnsureCluster, SaveReady,
              ReleaseMachine, RemoveFinalizer
<1>7. ASSUME NEW c \in Claims, User(c) \/ CacheSync(c) \/ JobRuns(c) \/ InfraRuns(c)
      PROVE  UNCHANGED roleVars
  BY <1>7, UserMoves DEF CacheSync, JobRuns, InfraRuns
<1>8. ASSUME NEW t \in Tenants, TenantSync(t)
      PROVE  \/ d \in role[TenantOf[d]].names \cup roleSeen[TenantOf[d]].names
             \/ cache[d].phase = "AddonsReady"
  <2>1. RoleStore(t, [exists |-> TRUE, names |-> {}])
    BY <1>8 DEF TenantSync, ReconcileTenantRole
  <2>2. QED
    BY <1>2, <2>1
<1>9. ASSUME NEW t \in Tenants, RoleCacheSync(t)
      PROVE  d \in role[TenantOf[d]].names \cup roleSeen[TenantOf[d]].names
  BY <1>0, <1>9 DEF RoleCacheSync, RoleSync, TypeOK, RoleTypeOK
<1>10. CASE Restart
  BY <1>10 DEF Restart
<1>11. ASSUME NEW m \in Machines, Recycle(m) PROVE UNCHANGED roleVars
  BY <1>11 DEF Recycle
<1>12. UNCHANGED vars => UNCHANGED roleVars
  BY DEF vars, roleVars
<1>13. QED
  BY <1>1, <1>3, <1>4, <1>5, <1>6, <1>7, <1>8, <1>9, <1>10, <1>11, <1>12 DEF Next

LEMMA NamesExposedNext ==
    ASSUME TypeOK, PhaseInv, NamesExposed, [Next]_vars
    PROVE  NamesExposed'
<1> SUFFICES ASSUME NEW d \in Claims,
                    \/ cache'[d].phase \in Exposed
                    \/ d \in role'[TenantOf[d]].names \cup roleSeen'[TenantOf[d]].names
             PROVE  claim'[d].phase \in Exposed
  BY DEF NamesExposed
<1>1. claim[d].phase \in Exposed => claim'[d].phase \in Exposed
  BY PhaseMovesNext DEF PhaseMoves, PhaseSteps, Exposed
<1>2. CASE cache'[d].phase \in Exposed
  <2>1. cache'[d] = cache[d] \/ cache'[d] = claim'[d]
    BY NextMoves DEF CopiesFollow
  <2>2. QED
    BY <1>1, <1>2, <2>1 DEF NamesExposed
<1>3. CASE d \in role'[TenantOf[d]].names \cup roleSeen'[TenantOf[d]].names
  BY <1>1, <1>3, NextNames DEF NamesExposed, Exposed
<1>4. QED
  BY <1>2, <1>3

LEMMA BuiltInvInit == Init => BuiltInv
<1> SUFFICES ASSUME Init PROVE BuiltInv
  OBVIOUS
<1>1. ASSUME NEW c \in Claims
      PROVE  /\ \A rec \in {claim[c], cache[c], mem[c]} :
                   rec.phase = "Pending" /\ rec.kube = FALSE
             /\ job[c] = "none" /\ pc[c] = "idle"
  BY DEF Init, Fresh
<1>2. \A c \in Claims : /\ role[TenantOf[c]].names = {}
                        /\ roleSeen[TenantOf[c]].names = {}
  BY ClaimAssumption DEF Init, RoleInit
<1>3. CopiesBuilt
  BY <1>1 DEF CopiesBuilt, Built, Exposed
<1>4. JobEndpoints
  BY <1>1 DEF JobEndpoints
<1>5. NamesExposed
  BY <1>1, <1>2 DEF NamesExposed, Exposed
<1>6. QED
  BY <1>3, <1>4, <1>5 DEF BuiltInv

LEMMA BuiltInvNext == TypeOK /\ PhaseInv /\ AddressInv /\ BuiltInv /\ [Next]_vars => BuiltInv'
BY CopiesBuiltNext, JobEndpointsNext, NamesExposedNext DEF BuiltInv

LEMMA BuiltInvariant == Spec => []BuiltInv
<1>1. QED
  BY TypeCorrect, PhaseInvariant, AddressInvariant, BuiltInvInit, BuiltInvNext, PTL DEF Spec

\* What a claim's phase says was done was done, and while the list of the tenant's Role
\* names any secret, the tenant can read the claim's only with the addons up (an empty
\* list admits every secret, and nothing is claimed of it), for any number of workers,
\* however stale the copies that got it there: no copy says more than an earlier version
\* of the claim did, and Jobs, clusters and addons, once up, stay up.
THEOREM PhasesAreBacked == Spec => []PhaseBacked
<1>1. BuiltInv => PhaseBacked
  <2> SUFFICES ASSUME BuiltInv, NEW c \in Claims, claim[c].life # "gone"
               PROVE  /\ job[c] # "none" => claim[c].cp # NoIP /\ claim[c].wh # NoIP
                      /\ claim[c].phase \in {"ClusterReady", "AddonsReady", "Ready"} =>
                            /\ job[c] = "complete"
                            /\ infra[c] \in {"cpReady", "helm", "helmReady"}
                      /\ claim[c].phase \in {"AddonsReady", "Ready"} => infra[c] = "helmReady"
                      /\ role[TenantOf[c]].names # {} /\ MayGet(role[TenantOf[c]], c) =>
                            claim[c].phase \in {"AddonsReady", "Ready"}
                      /\ claim[c].kube <=> claim[c].phase = "Ready"
    BY DEF PhaseBacked
  <2>1. Built(claim[c], job[c], infra[c])
    BY DEF BuiltInv, CopiesBuilt
  <2>2. job[c] # "none" => claim[c].cp # NoIP /\ claim[c].wh # NoIP
    BY DEF BuiltInv, JobEndpoints, Endpoints
  <2>3. role[TenantOf[c]].names # {} /\ MayGet(role[TenantOf[c]], c) =>
            claim[c].phase \in {"AddonsReady", "Ready"}
    BY DEF BuiltInv, NamesExposed, Exposed, MayGet
  <2>4. QED
    BY <2>1, <2>2, <2>3 DEF Built, Exposed, Up
<1>2. QED
  BY <1>1, BuiltInvariant, PTL

-------------------------------------------------------------------------------
(* The finalizer: with one worker and a Netbox that answers *)

Answering == MaxWorkers = 1 /\ "netbox" \notin FaultKinds

\* What claim c records is released.
GivenBack(rec, net, devices) ==
    /\ \A i \in rec.ips : net[i].state = "released"
    /\ \A m \in rec.machines : devices[m].status = "active"

\* Between the release and the removal of the finalizer nothing takes it back.
FinalInv ==
    Answering => \A c \in Claims :
        (pc[c] = "removeFinalizer" /\ memCur[c]) => GivenBack(claim[c], ipam, device)

LEMMA FinalBegin ==
    ASSUME Answering, TypeOK, PhaseInv, AddressInv, NEW e \in Claims, Begin(e),
           NEW c \in Claims, pc'[c] = "removeFinalizer", memCur'[c]
    PROVE  GivenBack(claim'[c], ipam', device')
<1>0. Dequeue(e)
  BY DEF Begin, ReconcileGone, AddFinalizer, IgnoreFailed, Validate, BeginProvision,
         WatchAddons, Grant, GraceDelete, Steady, ScaleUp, ScaleDown, ReleaseAll, Takes
<1>1. \A d \in Claims : pc[d] = "idle"
  BY <1>0, Alone DEF Answering
<1>2. c = e /\ ~UNCHANGED workerVars
  BY <1>1, OneActor DEF workerVars
<1>3. ASSUME NEW place, NEW copy, NEW work, Start(c, place, copy, work)
      PROVE  place = "removeFinalizer"
  BY <1>3 DEF Start, TypeOK, WorkerTypeOK
<1>4. ReleaseAll(c)
  <2>1. FirstCall(cache[c]) # "removeFinalizer"
    BY DEF FirstCall
  <2>2. ~BeginProvision(c)
    BY <1>3, <2>1 DEF BeginProvision
  <2>3. ~Grant(c)
    BY <1>2, <1>3 DEF Grant
  <2>4. ~ScaleUp(c)
    BY <1>2, <1>3 DEF ScaleUp
  <2>5. ~ScaleDown(c)
    BY <1>2, <1>3 DEF ScaleDown
  <2>6. QED
    BY <1>2, <2>2, <2>3, <2>4, <2>5
       DEF Begin, ReconcileGone, AddFinalizer, IgnoreFailed, Validate, WatchAddons,
           GraceDelete, Steady
<1>5. Release(c, {}, {}) /\ claim' = claim /\ cache[c] = claim[c]
  <2>1. Release(c, {}, {}) /\ claim' = claim
    BY <1>4 DEF ReleaseAll, Fault, Answering, objectVars
  <2>2. memCur'[c] = cacheCur[c]
    BY <1>4 DEF ReleaseAll, Start, TypeOK, WorkerTypeOK
  <2>3. QED
    BY <2>1, <2>2 DEF PhaseInv, CacheFaithful
<1>6. claim[c].ips \subseteq IPs /\ claim[c].machines \subseteq Machines
  <2>1. claim[c] \in Claim
    BY DEF TypeOK, ObjectTypeOK
  <2>2. QED
    BY <2>1 DEF Claim
<1>7. ASSUME NEW i \in claim[c].ips PROVE ipam'[i].state = "released"
  <2>1. ReleaseIP(claim[c].ips)
    BY <1>5 DEF Release
  <2>2. ipam[i].state \in {"live", "released"}
    <3>1. Made(c, ipam[i])
      BY DEF AddressInv, CopiesAddressed, Addressed
    <3>2. ipam[i] \in Address
      BY <1>6 DEF TypeOK, NetboxTypeOK
    <3>3. QED
      BY <3>1, <3>2 DEF Made, Address
  <2>3. QED
    BY <1>6, <2>1, <2>2, ReleaseEffect
<1>8. ASSUME NEW m \in claim[c].machines PROVE device'[m].status = "active"
  <2>1. SetDeviceStatus(claim[c].machines, "active", NoTenant)
    BY <1>5 DEF Release
  <2>2. \A n \in Machines \cap claim[c].machines : device'[n].status = "active"
    BY <2>1 DEF SetDeviceStatus, Patched
  <2>3. QED
    BY <1>6, <2>2
<1>9. QED
  BY <1>5, <1>7, <1>8 DEF GivenBack

\* No worker comes to the removal from another place of its reconciliation.
LEMMA FinalContinue ==
    ASSUME TypeOK, PhaseInv, OneBusy, NEW e \in Claims, Continue(e), NEW c \in Claims,
           pc'[c] = "removeFinalizer"
    PROVE  FALSE
<1>1. pc[e] # "idle"
  BY DEF Continue, AllocateAddress, SaveAddress, ListMachines, StageMachine, SaveMachines,
         CreateJob, AwaitJob, FailOnJob, EnsureCluster, SaveReady, ReleaseMachine,
         RemoveFinalizer
<1>2. CASE c # e
  <2>1. pc[c] = "removeFinalizer"
    BY <1>2, OneActor
  <2>2. QED
    BY <1>1, <1>2, <2>1 DEF OneBusy, Busy
<1>3. CASE c = e
  <2>1. ~Finish(e)
    BY <1>3 DEF Finish, TypeOK, WorkerTypeOK
  <2>2. FirstCall(mem[e]) # "removeFinalizer"
    BY DEF FirstCall
  <2>3. QED
    BY <1>3, <2>1, <2>2
       DEF Continue, AllocateAddress, SaveAddress, ListMachines, StageMachine, SaveMachines,
           CreateJob, AwaitJob, FailOnJob, EnsureCluster, SaveReady, ReleaseMachine,
           RemoveFinalizer, TypeOK, WorkerTypeOK
<1>4. QED
  BY <1>2, <1>3

LEMMA FinalInvNext ==
    TypeOK /\ PhaseInv /\ SerialInv /\ AddressInv /\ FinalInv /\ [Next]_vars => FinalInv'
<1> SUFFICES ASSUME Answering, TypeOK, PhaseInv, OneBusy, AddressInv, FinalInv, [Next]_vars,
                    NEW c \in Claims, pc'[c] = "removeFinalizer", memCur'[c]
             PROVE  GivenBack(claim'[c], ipam', device')
  BY DEF FinalInv, Answering, SerialInv
<1>0. claim[c] \in Claim
  BY DEF TypeOK, ObjectTypeOK
<1>1. ASSUME NEW e \in Claims, Begin(e) PROVE GivenBack(claim'[c], ipam', device')
  BY <1>1, FinalBegin
<1>2. ASSUME NEW e \in Claims, Continue(e) PROVE FALSE
  BY <1>2, FinalContinue
<1>3. ASSUME NEW e \in Claims, User(e) PROVE GivenBack(claim'[c], ipam', device')
  <2>1. /\ pc' = pc /\ memCur' = [memCur EXCEPT ![e] = FALSE] /\ UNCHANGED netboxVars
        /\ \E new : claim' = [claim EXCEPT ![e] = new]
    BY <1>3, UserMoves DEF Writes
  <2>2. e # c /\ memCur[c] /\ claim'[c] = claim[c]
    BY <2>1 DEF TypeOK, WorkerTypeOK, ObjectTypeOK
  <2>3. QED
    BY <2>1, <2>2 DEF FinalInv, netboxVars
<1>4. CASE Outside \/ UNCHANGED vars
  <2>1. claim' = claim /\ UNCHANGED workerVars /\ ipam' = ipam
    BY <1>4, OutsideEffect DEF vars, workerVars, PhaseInv
  <2>2. GivenBack(claim[c], ipam, device)
    BY <2>1 DEF FinalInv, workerVars
  <2>3. \A m \in Machines : device[m].status = "active" => device'[m].status = "active"
    <3>1. ASSUME NEW n \in Machines, Recycle(n)
          PROVE  \A m \in Machines : device'[m].status = device[m].status
      BY <3>1 DEF Recycle, ClearTenant, TypeOK, NetboxTypeOK, Device
    <3>2. QED
      BY <1>4, <3>1, OutsideEffect DEF vars, PhaseInv
  <2>4. claim[c].machines \subseteq Machines
    BY <1>0 DEF Claim
  <2>5. QED
    BY <2>1, <2>2, <2>3, <2>4 DEF GivenBack
<1>5. ~Restart
  BY DEF Restart
<1>6. QED
  BY <1>1, <1>2, <1>3, <1>4, <1>5 DEF Next, Outside

LEMMA FinalInvariant == Spec => []FinalInv
<1>1. Init => FinalInv
  BY DEF Init, FinalInv
<1>2. QED
  BY <1>1, TypeCorrect, PhaseInvariant, SerialInvariant, AddressInvariant, FinalInvNext,
     PTL DEF Spec

\* What a claim records is released when its finalizer is about to be removed, and every
\* recorded address was once made: ReleasedInv, for any number of claims.
THEOREM FinalizerWaits == Spec => []ReleasedInv
<1>1. TypeOK /\ AddressInv /\ FinalInv => ReleasedInv
  <2> SUFFICES ASSUME TypeOK, AddressInv, FinalInv, Answering PROVE ReleasedInv
    BY DEF ReleasedInv, Answering
  <2>1. \A c \in Claims : \A rec \in {claim[c], mem[c]} :
          \A i \in rec.ips : ipam[i].state # "unused"
    BY DEF AddressInv, CopiesAddressed, Addressed, Made
  <2>2. QED
    BY <2>1 DEF ReleasedInv, FinalInv, GivenBack
<1>2. QED
  BY <1>1, TypeCorrect, AddressInvariant, FinalInvariant, PTL

\* A claim goes from deletion only by the removal of its finalizer.
LEMMA GoesByRemoval ==
    ASSUME TypeOK, PhaseInv, AddressInv, [Next]_vars, NEW c \in Claims,
           claim[c].life = "deleting", claim'[c].life = "gone"
    PROVE  pc[c] = "removeFinalizer" /\ memCur[c]
<1>0. claim[c] \in Claim /\ mem[c] \in Claim
  BY DEF TypeOK, ObjectTypeOK, WorkerTypeOK
<1>1. PICK e \in Claims : \E new :
        /\ Writes(e, new)
        /\ Rewritten(e, new) \/ Committed(e, new) \/ Edited(e, new)
  BY NextMoves
<1>2. PICK new : /\ Writes(e, new)
                 /\ Rewritten(e, new) \/ Committed(e, new) \/ Edited(e, new)
  BY <1>1
<1>3. e = c /\ new.life = "gone"
  BY <1>2 DEF Writes, TypeOK, ObjectTypeOK
<1>4. ~Rewritten(c, new)
  BY <1>0, <1>3 DEF Rewritten, Claim
<1>5. ~Edited(c, new)
  <2>1. ~\E n \in 1..MaxWant : new = [claim[c] EXCEPT !.want = n]
    BY <1>0, <1>3 DEF Claim
  <2>2. new # [claim[c] EXCEPT !.deleteAt = ~@]
    BY <1>0, <1>3 DEF Claim
  <2>3. QED
    BY <2>1, <2>2 DEF Edited
<1>6. Committed(c, new)
  BY <1>2, <1>3, <1>4, <1>5
<1>7. mem[c].life = "deleting"
  BY <1>6 DEF Committed, AddressInv, CopyKeeps, Keeps
<1>8. QED
  BY <1>0, <1>3, <1>6, <1>7 DEF Committed, Claim

\* With one worker and a Netbox that answers, no claim goes before its addresses are
\* deleted and its devices active again, for any number of claims, whatever is edited,
\* lost or stale: the removal is refused unless the claim is still the one that was
\* released.
THEOREM FinalizersRelease == Spec => FinalizerReleases
<1>1. TypeOK /\ PhaseInv /\ AddressInv /\ FinalInv /\ [Next]_vars => GoesReleased
  <2> SUFFICES ASSUME TypeOK, PhaseInv, AddressInv, FinalInv, [Next]_vars, NEW c \in Claims,
                      claim[c].life = "deleting", claim'[c].life = "gone", Answering
               PROVE  /\ \A i \in claim[c].ips : ipam[i].state = "released"
                      /\ \A m \in claim[c].machines : device[m].status = "active"
    BY DEF GoesReleased, Answering
  <2>1. pc[c] = "removeFinalizer" /\ memCur[c]
    BY GoesByRemoval
  <2>2. QED
    BY <2>1 DEF FinalInv, GivenBack
<1>2. QED
  BY <1>1, TypeCorrect, PhaseInvariant, AddressInvariant, FinalInvariant, PTL
     DEF Spec, FinalizerReleases

-------------------------------------------------------------------------------
(* The refinement of DeviceLedger, with one worker *)

\* A current copy only adds to the devices of its claim, or only takes from them.
OneWay(rec, now, place) ==
    \/ now.machines \subseteq rec.machines /\ place # "shrink"
    \/ rec.machines \subseteq now.machines /\ place \in {"shrink", "saveMachines"}

CopyOneWay == \A c \in Claims : memCur[c] => OneWay(mem[c], claim[c], pc[c])

LEMMA OneWayStart ==
    ASSUME TypeOK, PhaseInv, NEW c \in Claims, NEW place, NEW copy, NEW work,
           Start(c, place, copy, work), claim' = claim,
           \/ copy.machines = cache[c].machines /\ place # "shrink"
           \/ copy.machines \subseteq cache[c].machines /\ place = "shrink"
    PROVE  memCur'[c] => OneWay(mem'[c], claim'[c], pc'[c])
<1>1. mem'[c] = copy /\ pc'[c] = place /\ memCur'[c] = cacheCur[c]
  BY DEF Start, TypeOK, WorkerTypeOK
<1>2. cacheCur[c] => cache[c] = claim[c]
  BY DEF PhaseInv, CacheFaithful
<1>3. QED
  BY <1>1, <1>2 DEF OneWay

LEMMA OneWayBegin ==
    ASSUME TypeOK, PhaseInv, NEW c \in Claims, Begin(c)
    PROVE  memCur'[c] => OneWay(mem'[c], claim'[c], pc'[c])
<1>0. cache[c] \in Claim
  BY DEF TypeOK, ObjectTypeOK
<1>1. CASE UNCHANGED workerVars
  <2>1. pc[c] = "idle"
    BY DEF Begin, ReconcileGone, AddFinalizer, IgnoreFailed, Validate, BeginProvision,
           WatchAddons, Grant, GraceDelete, Steady, ScaleUp, ScaleDown, ReleaseAll,
           Takes, Dequeue
  <2>2. QED
    BY <1>1, <2>1 DEF workerVars, PhaseInv, CopyHeld
<1>2. CASE BeginProvision(c)
  <2>1. FirstCall(cache[c]) # "shrink"
    BY DEF FirstCall
  <2>2. QED
    BY <1>2, <2>1, OneWayStart DEF BeginProvision, objectVars
<1>3. CASE Grant(c)
  <2> DEFINE ready == [cache[c] EXCEPT !.phase = "Ready", !.kube = TRUE]
  <2>1. ready.machines = cache[c].machines
    BY <1>0 DEF Claim
  <2>2. ASSUME Start(c, "saveReady", ready, {}), claim' = claim
        PROVE  memCur'[c] => OneWay(mem'[c], claim'[c], pc'[c])
    BY <2>1, <2>2, OneWayStart
  <2>3. QED
    BY <1>1, <1>3, <2>2 DEF Grant, objectVars
<1>4. CASE ScaleUp(c)
  <2>1. ASSUME NEW T, Start(c, "stage", cache[c], T), claim' = claim
        PROVE  memCur'[c] => OneWay(mem'[c], claim'[c], pc'[c])
    BY <2>1, OneWayStart
  <2>2. QED
    BY <1>1, <1>4, <2>1 DEF ScaleUp, objectVars
<1>5. CASE ScaleDown(c)
  <2> DEFINE less(T) == [cache[c] EXCEPT !.machines = @ \ T]
  <2>1. ASSUME NEW T, Start(c, "shrink", less(T), T), claim' = claim
        PROVE  memCur'[c] => OneWay(mem'[c], claim'[c], pc'[c])
    <3>1. less(T).machines \subseteq cache[c].machines
      BY <1>0 DEF Claim
    <3>2. QED
      BY <2>1, <3>1, OneWayStart
  <2>2. QED
    BY <1>1, <1>5, <2>1 DEF ScaleDown, objectVars
<1>6. CASE ReleaseAll(c)
  <2> DEFINE copy == [cache[c] EXCEPT !.finalizer = FALSE]
  <2>1. copy.machines = cache[c].machines
    BY <1>0 DEF Claim
  <2>2. Start(c, "removeFinalizer", copy, {}) /\ claim' = claim
    BY <1>6 DEF ReleaseAll, objectVars
  <2>3. QED
    BY <2>1, <2>2, OneWayStart
<1>7. QED
  BY <1>1, <1>2, <1>3, <1>4, <1>5, <1>6
     DEF Begin, ReconcileGone, AddFinalizer, IgnoreFailed, Validate, WatchAddons,
         GraceDelete, Steady

LEMMA OneWayContinue ==
    ASSUME TypeOK, CopyOneWay, NEW c \in Claims, Continue(c)
    PROVE  memCur'[c] => OneWay(mem'[c], claim'[c], pc'[c])
<1>0. mem[c] \in Claim /\ (memCur[c] => OneWay(mem[c], claim[c], pc[c]))
  BY DEF TypeOK, WorkerTypeOK, CopyOneWay
<1>1. CASE Finish(c)
  BY <1>1 DEF Finish, TypeOK, WorkerTypeOK
<1>2. CASE AllocateAddress(c) /\ ~Finish(c)
  <2>1. PICK i \in IPs : mem' = [mem EXCEPT ![c] = WithAddress(mem[c], i)]
    BY <1>2 DEF AllocateAddress
  <2>2. /\ mem'[c].machines = mem[c].machines /\ claim' = claim /\ memCur' = memCur
        /\ pc[c] = "allocate" /\ pc'[c] = "saveAddress"
    BY <1>0, <1>2, <2>1 DEF AllocateAddress, WithAddress, Claim, objectVars, TypeOK, WorkerTypeOK
  <2>3. QED
    BY <1>0, <2>2 DEF OneWay
<1>3. CASE (SaveAddress(c) \/ SaveMachines(c)) /\ ~Finish(c)
  <2>1. claim'[c] = mem[c] /\ mem' = mem /\ pc'[c] \in {FirstCall(mem[c]), "job"}
    BY <1>3 DEF SaveAddress, SaveMachines, Store, TypeOK, ObjectTypeOK, WorkerTypeOK
  <2>2. FirstCall(mem[c]) # "shrink"
    BY DEF FirstCall
  <2>3. QED
    BY <2>1, <2>2 DEF OneWay
<1>4. CASE ListMachines(c) /\ ~Finish(c)
  <2>1. /\ pc[c] = "list" /\ pc'[c] \in {"stage", "saveMachines"}
        /\ UNCHANGED <<mem, memCur, claim>>
    BY <1>4 DEF ListMachines, objectVars, TypeOK, WorkerTypeOK
  <2>2. QED
    BY <1>0, <2>1 DEF OneWay
<1>5. CASE StageMachine(c) /\ ~Finish(c)
  <2>1. PICK m \in todo[c] :
          /\ pc[c] = "stage" /\ pc'[c] \in {"stage", "saveMachines"}
          /\ mem' = [mem EXCEPT ![c].machines = @ \cup {m}]
          /\ UNCHANGED <<memCur, claim>>
    BY <1>5 DEF StageMachine, objectVars, TypeOK, WorkerTypeOK
  <2>2. mem'[c].machines = mem[c].machines \cup {m}
    BY <1>0, <2>1 DEF TypeOK, WorkerTypeOK, Claim
  <2>3. QED
    BY <1>0, <2>1, <2>2 DEF OneWay
<1>6. CASE ReleaseMachine(c) /\ ~Finish(c)
  <2>1. /\ pc[c] = "shrink" /\ pc'[c] \in {"shrink", "saveMachines"}
        /\ UNCHANGED <<mem, memCur, claim>>
    BY <1>6 DEF ReleaseMachine, objectVars, TypeOK, WorkerTypeOK
  <2>2. QED
    BY <1>0, <2>1 DEF OneWay
<1>7. QED
  BY <1>1, <1>2, <1>3, <1>4, <1>5, <1>6
     DEF Continue, CreateJob, AwaitJob, FailOnJob, EnsureCluster, SaveReady, RemoveFinalizer

LEMMA CopyOneWayNext == TypeOK /\ PhaseInv /\ CopyOneWay /\ [Next]_vars => CopyOneWay'
<1> SUFFICES ASSUME TypeOK, PhaseInv, CopyOneWay, [Next]_vars, NEW d \in Claims
             PROVE  memCur'[d] => OneWay(mem'[d], claim'[d], pc'[d])
  BY DEF CopyOneWay
<1>0. ASSUME mem'[d] = mem[d], claim'[d] = claim[d], pc'[d] = pc[d], memCur'[d] = memCur[d]
      PROVE  memCur'[d] => OneWay(mem'[d], claim'[d], pc'[d])
  BY <1>0 DEF CopyOneWay
<1>1. ASSUME NEW c \in Claims, Begin(c) \/ Continue(c)
      PROVE  memCur'[d] => OneWay(mem'[d], claim'[d], pc'[d])
  <2>1. CASE d = c
    BY <1>1, <2>1, OneWayBegin, OneWayContinue
  <2>2. CASE d # c
    <3>1. claim'[d] = claim[d]
      BY <1>1, <2>2, BeginMoves, ContinueMoves DEF Writes, TypeOK, ObjectTypeOK
    <3>2. QED
      BY <1>0, <1>1, <2>2, <3>1, OneActor
  <2>3. QED
    BY <2>1, <2>2
<1>2. ASSUME NEW c \in Claims, User(c)
      PROVE  memCur'[d] => OneWay(mem'[d], claim'[d], pc'[d])
  <2>1. /\ mem' = mem /\ pc' = pc /\ memCur' = [memCur EXCEPT ![c] = FALSE]
        /\ \E new : claim' = [claim EXCEPT ![c] = new]
    BY <1>2, UserMoves DEF Writes
  <2>2. CASE d = c
    BY <2>1, <2>2 DEF TypeOK, WorkerTypeOK
  <2>3. CASE d # c
    BY <1>0, <2>1, <2>3 DEF TypeOK, ObjectTypeOK, WorkerTypeOK
  <2>4. QED
    BY <2>2, <2>3
<1>3. CASE Outside \/ UNCHANGED vars
  BY <1>0, <1>3, OutsideEffect DEF vars, workerVars, PhaseInv
<1>4. CASE Restart
  BY <1>4 DEF Restart
<1>5. QED
  BY <1>1, <1>2, <1>3, <1>4 DEF Next, Outside

LEMMA CopyOneWayInvariant == Spec => []CopyOneWay
<1>1. Init => CopyOneWay
  BY DEF Init, CopyOneWay
<1>2. QED
  BY <1>1, TypeCorrect, PhaseInvariant, CopyOneWayNext, PTL DEF Spec

\* The refinement mapping of ClusterClaim.
Owned == [c \in Claims |-> claim[c].machines]
TenantIn == [m \in Machines |-> device[m].tenant]

LEMMA LedgerInit == Init => Ledger!Init
BY DEF Init, NetboxInit, Fresh, Ledger!Init

\* A claim records more of its tenant's unrecorded devices, or fewer.
LEMMA LedgerClaims ==
    ASSUME TypeOK, NEW c \in Claims, NEW new, Writes(c, new), TenantIn' = TenantIn,
           \/ new.machines \subseteq claim[c].machines
           \/ /\ claim[c].machines \subseteq new.machines /\ new.machines \subseteq Machines
              /\ \A m \in new.machines \ claim[c].machines :
                    /\ device[m].tenant = TenantOf[c]
                    /\ \A d \in Claims : m \notin claim[d].machines
    PROVE  Ledger!Next
<1>0. claim[c].machines \subseteq Machines
  BY DEF TypeOK, ObjectTypeOK, Claim
<1>1. Owned' = [Owned EXCEPT ![c] = new.machines]
  BY DEF Owned, Writes, TypeOK, ObjectTypeOK
<1>2. CASE new.machines \subseteq claim[c].machines
  <2>1. PICK S \in SUBSET Machines : S = claim[c].machines \ new.machines
    BY <1>0
  <2>2. Owned' = [Owned EXCEPT ![c] = @ \ S]
    BY <1>1, <1>2, <2>1 DEF Owned
  <2>3. Ledger!Forget(c, S)
    BY <2>2 DEF Ledger!Forget, Owned, TenantIn
  <2>4. QED
    BY <2>3 DEF Ledger!Next
<1>3. CASE /\ claim[c].machines \subseteq new.machines /\ new.machines \subseteq Machines
           /\ \A m \in new.machines \ claim[c].machines :
                 /\ device[m].tenant = TenantOf[c]
                 /\ \A d \in Claims : m \notin claim[d].machines
  <2>1. PICK S \in SUBSET Machines : S = new.machines \ claim[c].machines
    BY <1>3
  <2>2. Owned' = [Owned EXCEPT ![c] = @ \cup S]
    BY <1>1, <1>3, <2>1 DEF Owned
  <2>3. S \cap UNION {Owned[d] : d \in Claims} = {}
    BY <1>3, <2>1 DEF Owned
  <2>4. \A n \in S : TenantIn[n] = TenantOf[c]
    BY <1>3, <2>1 DEF TenantIn
  <2>5. Ledger!Record(c, S)
    BY <2>2, <2>3, <2>4 DEF Ledger!Record, Ledger!Recorded, Owned, TenantIn
  <2>6. QED
    BY <2>5 DEF Ledger!Next
<1>4. QED
  BY <1>2, <1>3

\* A write of a claim is a step of the ledger when no device changes hands.
LEMMA LedgerMoves ==
    ASSUME TypeOK, PhaseInv, SerialParts, CopyOneWay, TenantIn' = TenantIn,
           NEW c \in Claims, NEW new, Writes(c, new),
           Rewritten(c, new) \/ Committed(c, new) \/ Edited(c, new)
    PROVE  Ledger!Next
<1>0. claim[c] \in Claim /\ mem[c] \in Claim
  BY DEF TypeOK, ObjectTypeOK, WorkerTypeOK
<1>1. CASE Rewritten(c, new)
  <2>1. new.machines = claim[c].machines
    BY <1>0, <1>1 DEF Rewritten, Claim
  <2>2. QED
    BY <2>1, LedgerClaims
<1>2. CASE Edited(c, new)
  <2>1. CASE \E n \in 1..MaxWant : new = [claim[c] EXCEPT !.want = n]
    BY <1>0, <2>1, LedgerClaims DEF Claim
  <2>2. CASE new = [claim[c] EXCEPT !.deleteAt = ~@]
    BY <1>0, <2>2, LedgerClaims DEF Claim
  <2>3. CASE new = [claim[c] EXCEPT !.life = "deleting"]
    BY <1>0, <2>3, LedgerClaims DEF Claim
  <2>4. CASE new = Erased(claim[c])
    <3>1. new.machines = {}
      BY <1>0, <2>4 DEF Erased, Claim
    <3>2. QED
      BY <3>1, LedgerClaims
  <2>5. QED
    BY <1>2, <2>1, <2>2, <2>3, <2>4 DEF Edited
<1>3. CASE Committed(c, new)
  <2>1. memCur[c] /\ (new.machines = mem[c].machines \/ new.machines = {})
    BY <1>0, <1>3 DEF Committed, Erased, Claim
  <2>2. CASE new.machines = {}
    BY <2>2, LedgerClaims
  <2>3. CASE new.machines = mem[c].machines
    <3>1. ASSUME NEW m \in new.machines \ claim[c].machines
          PROVE  /\ device[m].tenant = TenantOf[c]
                 /\ \A d \in Claims : m \notin claim[d].machines
      <4>1. device[m] = [status |-> "staged", tenant |-> TenantOf[c]]
        BY <2>1, <2>3 DEF SerialParts, CopyStaged
      <4>2. \A d \in Claims \ {c} : m \notin claim[d].machines
        BY <2>1, <2>3 DEF SerialParts, CopyExclusive
      <4>3. device[m].tenant = TenantOf[c]
        BY <4>1
      <4>4. QED
        BY <4>2, <4>3
    <3>2. \/ new.machines \subseteq claim[c].machines
          \/ claim[c].machines \subseteq new.machines
      BY <2>1, <2>3 DEF CopyOneWay, OneWay
    <3>3. new.machines \subseteq Machines
      BY <1>0, <2>3 DEF Claim
    <3>4. QED
      BY <3>1, <3>2, <3>3, LedgerClaims
  <2>4. QED
    BY <2>1, <2>2, <2>3
<1>4. QED
  BY <1>1, <1>2, <1>3

\* Devices change hands when one is staged or recycled only.
LEMMA TenantsKept ==
    ASSUME TypeOK, PhaseInv, [Next]_vars
    PROVE  \/ TenantIn' = TenantIn
           \/ \E c \in Claims : StageMachine(c)
           \/ \E m \in Machines : Recycle(m)
<1>1. ASSUME device' = device \/ (\E S, status : SetDeviceStatus(S, status, NoTenant))
      PROVE  TenantIn' = TenantIn
  BY <1>1 DEF TenantIn, SetDeviceStatus, Patched
<1>2. ASSUME NEW c \in Claims, Begin(c)
      PROVE  device' = device \/ (\E S, status : SetDeviceStatus(S, status, NoTenant))
  BY <1>2 DEF Begin, ReconcileGone, AddFinalizer, IgnoreFailed, Validate, BeginProvision,
         WatchAddons, Grant, GraceDelete, Steady, ScaleUp, ScaleDown, ReleaseAll, Release,
         netboxVars
<1>3. ASSUME NEW c \in Claims, Continue(c), ~StageMachine(c)
      PROVE  device' = device \/ (\E S, status : SetDeviceStatus(S, status, NoTenant))
  BY <1>3 DEF Continue, AllocateAddress, SaveAddress, ListMachines, SaveMachines, CreateJob,
         AwaitJob, FailOnJob, EnsureCluster, SaveReady, ReleaseMachine, RemoveFinalizer,
         netboxVars
<1>4. ASSUME NEW c \in Claims, User(c) PROVE device' = device
  BY <1>4, UserMoves DEF netboxVars
<1>5. Outside => device' = device \/ \E m \in Machines : Recycle(m)
  BY OutsideEffect DEF PhaseInv
<1>6. Restart \/ UNCHANGED vars => device' = device
  BY DEF Restart, vars, netboxVars
<1>7. QED
  BY <1>1, <1>2, <1>3, <1>4, <1>5, <1>6 DEF Next, Outside

LEMMA LedgerStep ==
    ASSUME MaxWorkers = 1, TypeOK, PhaseInv, SerialInv, CopyOneWay, [Next]_vars
    PROVE  Ledger!Next \/ UNCHANGED Ledger!ledgerVars
<1>0. SerialParts
  BY DEF SerialInv, SerialParts
<1>1. ASSUME NEW c \in Claims, StageMachine(c)
      PROVE  Ledger!Next \/ UNCHANGED Ledger!ledgerVars
  <2>1. PICK m \in todo[c] :
          /\ pc[c] = "stage" /\ claim' = claim
          /\ device' = device \/ SetDeviceStatus({m}, "staged", TenantOf[c])
    BY <1>1 DEF StageMachine, Retry, objectVars
  <2>2. /\ m \in Machines /\ device[m].tenant = NoTenant
        /\ TenantOf[c] \in Tenants /\ TenantOf[c] # NoTenant
    <3>1. m \in Machines
      BY DEF TypeOK, WorkerTypeOK
    <3>2. device[m].tenant = NoTenant
      BY <1>0, <2>1 DEF SerialParts, StageFree
    <3>3. QED
      BY <3>1, <3>2, ClaimAssumption, NetboxAssumption
  <2>3. CASE device' = device
    BY <2>1, <2>3 DEF Ledger!ledgerVars
  <2>4. CASE SetDeviceStatus({m}, "staged", TenantOf[c])
    <3>1. TenantIn' = [TenantIn EXCEPT ![m] = TenantOf[c]]
      BY <2>2, <2>4 DEF SetDeviceStatus, Patched, TenantIn
    <3>2. Ledger!Assign(m, TenantOf[c])
      BY <2>1, <2>2, <3>1 DEF Ledger!Assign, TenantIn
    <3>3. QED
      BY <2>2, <3>2 DEF Ledger!Next
  <2>5. QED
    BY <2>1, <2>3, <2>4
<1>2. ASSUME NEW m \in Machines, Recycle(m)
      PROVE  Ledger!Next \/ UNCHANGED Ledger!ledgerVars
  <2>1. /\ \A c \in Claims : m \notin claim[c].machines
        /\ device' = [device EXCEPT ![m].tenant = NoTenant] /\ claim' = claim
    BY <1>2 DEF Recycle, ClearTenant, objectVars
  <2>2. TenantIn' = [TenantIn EXCEPT ![m] = NoTenant]
    BY <2>1 DEF TenantIn, TypeOK, NetboxTypeOK, Device
  <2>3. m \notin UNION {Owned[c] : c \in Claims}
    BY <2>1 DEF Owned
  <2>4. Ledger!Recycle(m)
    BY <2>1, <2>2, <2>3 DEF Ledger!Recycle, Ledger!Recorded, Owned, TenantIn
  <2>5. QED
    BY <2>4 DEF Ledger!Next
<1>3. CASE TenantIn' = TenantIn
  <2>1. CASE claim' = claim
    BY <1>3, <2>1 DEF Ledger!ledgerVars, TenantIn
  <2>2. ASSUME NEW c \in Claims, NEW new, Writes(c, new),
               Rewritten(c, new) \/ Committed(c, new) \/ Edited(c, new)
        PROVE  Ledger!Next
    BY <1>0, <1>3, <2>2, LedgerMoves
  <2>3. QED
    BY <2>1, <2>2, NextMoves
<1>4. QED
  BY <1>1, <1>2, <1>3, TenantsKept

\* With one worker the ClusterClaim controller implements the device ledger too: whatever
\* is stale, edited, lost or scaled, each step is a step of the ledger or none.
THEOREM ClustersKeepTheLedger == MaxWorkers = 1 => (Spec => LedgerKept)
<1> SUFFICES ASSUME MaxWorkers = 1 PROVE Spec => LedgerKept
  OBVIOUS
<1>1. Init => Ledger!Init
  BY LedgerInit
<1>2. TypeOK /\ PhaseInv /\ SerialInv /\ CopyOneWay /\ [Next]_vars
        => [Ledger!Next]_(Ledger!ledgerVars)
  BY LedgerStep
<1>3. Spec => Ledger!Spec
  BY <1>1, <1>2, TypeCorrect, PhaseInvariant, SerialInvariant, CopyOneWayInvariant, PTL
     DEF Spec, Ledger!Spec
<1>4. QED
  BY <1>3 DEF LedgerKept

-------------------------------------------------------------------------------
(* Addresses that nobody will release, when the informers are fresh *)

\* A copy lists one address more than its claim at most, and only until it is saved; a
\* claim that lists addresses, or is worked on, has its finalizer.
Listing(rec, now, place) ==
    /\ place = "idle" => rec.ips = {}
    /\ place # "idle" => now.finalizer
    /\ place \notin {"idle", "removeFinalizer"} => rec.finalizer
    /\ place \notin {"idle", "saveAddress"} => rec.ips \subseteq now.ips
    /\ place = "saveAddress" => \E i \in IPs : rec.ips \subseteq now.ips \cup {i}
    /\ ~now.finalizer => now.ips = {}
    /\ now.life = "deleting" => now.finalizer

\* What the claim will list when nothing more goes wrong.  A worker about to remove the
\* finalizer has released what it could; the rest will not be listed any more.
Spared(rec, now, place, current) ==
    IF place = "removeFinalizer" THEN {}
    ELSE now.ips \cup (IF current THEN rec.ips ELSE {})

Spares(c) == Spared(mem[c], claim[c], pc[c], memCur[c])

Lost == {i \in Live : \A c \in Claims : i \notin Spares(c)}

\* Workers that will allocate one more address, and fail to save it.
Doomed == {c \in Claims : pc[c] = "allocate" /\ ~memCur[c]}

Budget == MaxWorkers * faults + edits

FreshCaches == \A c \in Claims : cacheCur[c]
ListsKept == \A c \in Claims : Listing(mem[c], claim[c], pc[c])
WorkersBounded == Cardinality(Busy) <= MaxWorkers
Owed == Cardinality(Lost) + Cardinality(Doomed) <= Budget

\* Why each address lost costs a fault or an edit (IPLeakBounded).
LeakInv == ~Lag => FreshCaches /\ ListsKept /\ WorkersBounded /\ Owed

LEMMA StoreFresh ==
    ASSUME ~Lag, NEW c, NEW new, NEW cur, NEW again,
           \/ Write(c, new, cur, again) \/ WriteFails(c, new, cur) \/ Store(c, new, again)
           \/ Retry(c) \/ Return(c, again) \/ UNCHANGED objectVars
    PROVE  cacheCur' = cacheCur
BY DEF Write, WriteFails, Store, Retry, Return, objectVars

LEMMA FreshCachesNext == ASSUME ~Lag, TypeOK, FreshCaches, [Next]_vars PROVE FreshCaches'
<1>1. ASSUME NEW c \in Claims, Begin(c) PROVE cacheCur' = cacheCur
  BY <1>1, StoreFresh
     DEF Begin, ReconcileGone, AddFinalizer, IgnoreFailed, Validate, BeginProvision,
         WatchAddons, Grant, GraceDelete, Steady, ScaleUp, ScaleDown, ReleaseAll, objectVars
<1>2. ASSUME NEW c \in Claims, Continue(c) PROVE cacheCur' = cacheCur
  BY <1>2, StoreFresh
     DEF Continue, AllocateAddress, SaveAddress, ListMachines, StageMachine, SaveMachines,
         CreateJob, AwaitJob, FailOnJob, EnsureCluster, SaveReady, ReleaseMachine,
         RemoveFinalizer, objectVars
<1>3. ASSUME NEW c \in Claims, User(c) PROVE cacheCur' = cacheCur
  BY <1>3, StoreFresh DEF User, Scale, Annotate, Delete, Edit
<1>4. ASSUME NEW c \in Claims, CacheSync(c) PROVE FALSE
  BY <1>4 DEF CacheSync, FreshCaches
<1>5. QED
  BY <1>1, <1>2, <1>3, <1>4
     DEF Next, FreshCaches, JobRuns, InfraRuns, TenantSync, RoleCacheSync, Recycle, Restart,
         vars, objectVars

LEMMA FreshCopies == ASSUME FreshCaches, PhaseInv PROVE \A c \in Claims : cache[c] = claim[c]
BY DEF FreshCaches, PhaseInv, CacheFaithful

LEMMA OneFault ==
    ASSUME NEW c, NEW new, NEW cur, NEW again,
           \/ Write(c, new, cur, again) \/ WriteFails(c, new, cur)
           \/ (\E kind : Fault(kind, 1)) \/ UNCHANGED faults
    PROVE  faults' \in {faults, faults + 1}
BY DEF Write, WriteFails, Fault

\* Each address that the finalizer fails to delete is a fault.
LEMMA ReleaseFaults ==
    ASSUME TypeOK, NEW c \in Claims, ReleaseAll(c)
    PROVE  \E I \in SUBSET cache[c].ips :
              /\ ReleaseIP(cache[c].ips \ I)
              /\ IsFiniteSet(I) /\ faults' >= faults + Cardinality(I)
<1>0. /\ faults \in Nat
      /\ IsFiniteSet(cache[c].ips) /\ IsFiniteSet(cache[c].machines)
  <2>1. cache[c].ips \subseteq IPs /\ cache[c].machines \subseteq Machines
    BY DEF TypeOK, ObjectTypeOK, Claim
  <2>2. QED
    BY <2>1, ClaimAssumption, BoundAssumption, FS_Subset DEF TypeOK
<1>1. CASE ReleaseIP(cache[c].ips \ {}) /\ faults' \in {faults, faults + 1}
  <2>1. IsFiniteSet({}) /\ Cardinality({}) = 0
    BY FS_EmptySet
  <2>2. faults' >= faults + Cardinality({})
    BY <1>0, <1>1, <2>1
  <2>3. QED
    BY <1>1, <2>1, <2>2
<1>2. ASSUME NEW I \in SUBSET cache[c].ips, NEW M \in SUBSET cache[c].machines,
             Release(c, I, M), Fault("netbox", Cardinality(I) + Cardinality(M))
      PROVE  /\ ReleaseIP(cache[c].ips \ I)
             /\ IsFiniteSet(I) /\ faults' >= faults + Cardinality(I)
  <2>1. IsFiniteSet(I) /\ Cardinality(I) \in Nat /\ Cardinality(M) \in Nat
    BY <1>0, FS_Subset, FS_CardinalityType
  <2>2. QED
    BY <1>0, <1>2, <2>1 DEF Fault, Release
<1>3. QED
  BY <1>1, <1>2, OneFault DEF ReleaseAll, Release

\* Faults and edits are counted, and never taken back.
LEMMA CountersGrow ==
    ASSUME TypeOK, TypeOK', [Next]_vars
    PROVE  faults' >= faults /\ edits' >= edits
<1>0. faults \in Nat /\ edits \in Nat /\ faults' \in Nat
  BY BoundAssumption DEF TypeOK
<1>1. ASSUME NEW c \in Claims, Begin(c) PROVE faults' >= faults /\ edits' = edits
  <2>1. CASE ReleaseAll(c)
    <3>1. PICK I : IsFiniteSet(I) /\ faults' >= faults + Cardinality(I)
      BY <2>1, ReleaseFaults
    <3>2. Cardinality(I) \in Nat
      BY <3>1, FS_CardinalityType
    <3>3. QED
      BY <1>0, <2>1, <3>1, <3>2 DEF ReleaseAll
  <2>2. CASE ~ReleaseAll(c)
    <3>1. faults' \in {faults, faults + 1} /\ edits' = edits
      BY <1>1, <2>2, OneFault
         DEF Begin, ReconcileGone, AddFinalizer, IgnoreFailed, Validate, BeginProvision,
             WatchAddons, Grant, GraceDelete, Steady, ScaleUp, ScaleDown
    <3>2. QED
      BY <1>0, <3>1
  <2>3. QED
    BY <2>1, <2>2
<1>2. ASSUME NEW c \in Claims, Continue(c) PROVE faults' >= faults /\ edits' = edits
  <2>1. faults' \in {faults, faults + 1} /\ edits' = edits
    BY <1>2, OneFault
       DEF Continue, AllocateAddress, SaveAddress, ListMachines, StageMachine, SaveMachines,
           CreateJob, AwaitJob, FailOnJob, EnsureCluster, SaveReady, ReleaseMachine,
           RemoveFinalizer
  <2>2. QED
    BY <1>0, <2>1
<1>3. ASSUME NEW c \in Claims, User(c) PROVE faults' = faults /\ edits' = edits + 1
  BY <1>3, UserMoves
<1>4. CASE Restart
  BY <1>0, <1>4 DEF Restart, Fault
<1>5. CASE Outside \/ UNCHANGED vars
  BY <1>0, <1>5
     DEF Outside, CacheSync, JobRuns, InfraRuns, TenantSync, RoleCacheSync, Recycle, vars
<1>6. QED
  BY <1>0, <1>1, <1>2, <1>3, <1>4, <1>5 DEF Next, Outside

-------------------------------------------------------------------------------
(* The lists of the copies *)

\* A handler that writes what it read keeps the list and the finalizer of the claim.
Onward(now, new) ==
    /\ new.ips = now.ips
    /\ now.finalizer => new.finalizer
    /\ new.life = "deleting" => now.life = "deleting" \/ new.finalizer

LEMMA BeginOnward ==
    ASSUME TypeOK, PhaseInv, FreshCaches, NEW c \in Claims, Begin(c)
    PROVE  claim' = claim \/ \E new : Writes(c, new) /\ Onward(claim[c], new)
<1>0. cache[c] = claim[c] /\ claim[c] \in Claim
  BY FreshCopies DEF TypeOK, ObjectTypeOK
<1>1. CASE UNCHANGED objectVars
  BY <1>1 DEF objectVars
<1>2. CASE GraceDelete(c)
  <2> DEFINE new == [claim[c] EXCEPT !.life = "deleting"]
  <2>1. Onward(claim[c], new)
    BY <1>0, <1>2 DEF GraceDelete, Takes, Onward, Claim
  <2>2. ASSUME NEW again, Store(c, new, again) PROVE Writes(c, new)
    BY <2>2 DEF Store, Writes
  <2>3. QED
    BY <1>1, <1>2, <2>1, <2>2 DEF GraceDelete, Return, Retry
<1>3. ASSUME NEW new, NEW again, Onward(claim[c], new),
             \/ Write(c, new, cacheCur[c], again) \/ (cacheCur[c] /\ Store(c, new, again))
             \/ Retry(c) \/ Return(c, again)
      PROVE  claim' = claim \/ \E rec : Writes(c, rec) /\ Onward(claim[c], rec)
  BY <1>3, WriteClaim
<1>4. CASE AddFinalizer(c)
  <2>1. Onward(claim[c], [cache[c] EXCEPT !.finalizer = TRUE])
    BY <1>0 DEF Onward, Claim
  <2>2. QED
    BY <1>3, <1>4, <2>1 DEF AddFinalizer
<1>5. CASE Validate(c)
  <2>1. PICK p \in {"Provisioning", "Failed"}, again \in BOOLEAN :
          \/ Write(c, [cache[c] EXCEPT !.phase = p], cacheCur[c], again)
          \/ Retry(c)
          \/ cacheCur[c] /\ Store(c, [cache[c] EXCEPT !.phase = p], again)
    BY <1>5 DEF Validate
  <2>2. Onward(claim[c], [cache[c] EXCEPT !.phase = p])
    BY <1>0 DEF Onward, Claim
  <2>3. QED
    BY <1>3, <2>1, <2>2
<1>6. CASE WatchAddons(c)
  <2>1. Onward(claim[c], [cache[c] EXCEPT !.phase = "AddonsReady"])
    BY <1>0 DEF Onward, Claim
  <2>2. QED
    BY <1>3, <1>6, <2>1 DEF WatchAddons
<1>7. CASE ScaleUp(c) \/ ScaleDown(c)
  <2>1. Onward(claim[c], cache[c])
    BY <1>0 DEF Onward
  <2>2. QED
    BY <1>1, <1>3, <1>7, <2>1 DEF ScaleUp, ScaleDown
<1>8. QED
  BY <1>1, <1>2, <1>4, <1>5, <1>6, <1>7
     DEF Begin, ReconcileGone, IgnoreFailed, BeginProvision, Grant, Steady, ReleaseAll,
         Return, Retry

\* A worker that takes c copies its list.
Started(c) ==
    \E place \in Place \ {"idle", "saveAddress"} :
        /\ claim' = claim /\ pc'[c] = place /\ memCur'[c] = cacheCur[c]
        /\ mem'[c].ips = cache[c].ips /\ (cache[c].finalizer \/ cache[c].life = "deleting")
        /\ place = "removeFinalizer" \/ (mem'[c].finalizer /\ cache[c].finalizer)
        /\ place = "removeFinalizer" <=> ReleaseAll(c)

LEMMA BeginStarts ==
    ASSUME TypeOK, NEW c \in Claims, Begin(c), ~UNCHANGED workerVars
    PROVE  Started(c)
<1>0. cache[c] \in Claim
  BY DEF TypeOK, ObjectTypeOK
<1>1. ASSUME NEW place \in Place \ {"idle", "saveAddress", "removeFinalizer"}, NEW copy, NEW work,
             Start(c, place, copy, work), claim' = claim, copy.ips = cache[c].ips,
             copy.finalizer = cache[c].finalizer, cache[c].life = "live", cache[c].finalizer
      PROVE  Started(c)
  BY <1>1 DEF Start, Started, ReleaseAll, TypeOK, WorkerTypeOK
<1>2. CASE BeginProvision(c)
  <2>1. FirstCall(cache[c]) \in {"allocate", "list", "job"}
    BY DEF FirstCall
  <2>2. QED
    BY <1>1, <1>2, <2>1 DEF BeginProvision, Takes, objectVars, Place
<1>3. CASE Grant(c)
  <2> DEFINE ready == [cache[c] EXCEPT !.phase = "Ready", !.kube = TRUE]
  <2>1. ready.ips = cache[c].ips /\ ready.finalizer = cache[c].finalizer
    BY <1>0 DEF Claim
  <2>2. Start(c, "saveReady", ready, {}) /\ claim' = claim
    BY <1>3 DEF Grant, objectVars
  <2>3. QED
    BY <1>1, <1>3, <2>1, <2>2 DEF Grant, Takes, Place
<1>4. CASE ScaleUp(c)
  BY <1>1, <1>4 DEF ScaleUp, Takes, objectVars, Place
<1>5. CASE ScaleDown(c)
  <2> DEFINE less(T) == [cache[c] EXCEPT !.machines = @ \ T]
  <2>1. PICK T : Start(c, "shrink", less(T), T) /\ claim' = claim
    BY <1>5 DEF ScaleDown, objectVars
  <2>2. less(T).ips = cache[c].ips /\ less(T).finalizer = cache[c].finalizer
    BY <1>0 DEF Claim
  <2>3. QED
    BY <1>1, <1>5, <2>1, <2>2 DEF ScaleDown, Takes, Place
<1>6. CASE ReleaseAll(c)
  <2> DEFINE copy == [cache[c] EXCEPT !.finalizer = FALSE]
  <2>1. copy.ips = cache[c].ips
    BY <1>0 DEF Claim
  <2>2. Start(c, "removeFinalizer", copy, {}) /\ claim' = claim
    BY <1>6 DEF ReleaseAll, objectVars
  <2>3. cache[c].life = "deleting"
    BY <1>6 DEF ReleaseAll
  <2>4. QED
    BY <1>6, <2>1, <2>2, <2>3 DEF Start, Started, Place, TypeOK, WorkerTypeOK
<1>7. QED
  BY <1>2, <1>3, <1>4, <1>5, <1>6
     DEF Begin, ReconcileGone, AddFinalizer, IgnoreFailed, Validate, WatchAddons,
         GraceDelete, Steady

LEMMA ListingBegin ==
    ASSUME TypeOK, PhaseInv, FreshCaches, ListsKept, NEW c \in Claims, Begin(c)
    PROVE  Listing(mem'[c], claim'[c], pc'[c])
<1>0. /\ Listing(mem[c], claim[c], pc[c]) /\ cache[c] = claim[c] /\ pc[c] = "idle"
  <2>1. pc[c] = "idle"
    BY DEF Begin, ReconcileGone, AddFinalizer, IgnoreFailed, Validate, BeginProvision,
           WatchAddons, Grant, GraceDelete, Steady, ScaleUp, ScaleDown, ReleaseAll,
           Takes, Dequeue
  <2>2. QED
    BY <2>1, FreshCopies DEF ListsKept
<1>1. CASE UNCHANGED workerVars
  <2>1. claim'[c] = claim[c] \/ Onward(claim[c], claim'[c])
    BY BeginOnward DEF Writes, TypeOK, ObjectTypeOK
  <2>2. QED
    BY <1>0, <1>1, <2>1 DEF workerVars, Listing, Onward
<1>2. CASE ~UNCHANGED workerVars
  BY <1>0, <1>2, BeginStarts DEF Started, Listing
<1>3. QED
  BY <1>1, <1>2

\* What a worker writes has the finalizer, or lists nothing.
LEMMA ContinueOnward ==
    ASSUME TypeOK, ListsKept, AddressInv, NEW c \in Claims, Continue(c)
    PROVE  \/ claim'[c] = claim[c]
           \/ /\ pc[c] = "removeFinalizer" /\ memCur[c]
              /\ claim'[c].ips = {} /\ claim'[c].life = "gone"
           \/ /\ pc[c] \notin {"idle", "removeFinalizer"} /\ memCur[c]
              /\ claim'[c].ips = mem[c].ips /\ claim'[c].finalizer
              /\ claim[c].ips \subseteq claim'[c].ips
<1>0. /\ mem[c] \in Claim /\ Listing(mem[c], claim[c], pc[c])
      /\ memCur[c] => claim[c].ips \subseteq mem[c].ips
  <2>1. memCur[c] => claim[c].ips \subseteq mem[c].ips
    BY DEF AddressInv, CopyKeeps, CopiesAddressed, Addressed, Keeps
  <2>2. QED
    BY <2>1 DEF ListsKept, TypeOK, WorkerTypeOK
<1>1. claim'[c] = claim[c] \/ \E new : claim'[c] = new /\ Committed(c, new)
  BY ContinueMoves DEF Writes, TypeOK, ObjectTypeOK
<1>2. ASSUME NEW new, claim'[c] = new, Committed(c, new), pc[c] = "removeFinalizer"
      PROVE  memCur[c] /\ claim'[c].ips = {} /\ claim'[c].life = "gone"
  <2>1. memCur[c] /\ new = Erased(mem[c])
    BY <1>2 DEF Committed
  <2>2. Erased(mem[c]).ips = {} /\ Erased(mem[c]).life = "gone"
    BY <1>0 DEF Erased, Claim
  <2>3. QED
    BY <1>2, <2>1, <2>2
<1>3. ASSUME NEW new, claim'[c] = new, Committed(c, new), pc[c] # "removeFinalizer"
      PROVE  /\ pc[c] \notin {"idle", "removeFinalizer"} /\ memCur[c]
             /\ claim'[c].ips = mem[c].ips /\ claim'[c].finalizer = mem[c].finalizer
  BY <1>0, <1>3 DEF Committed, Claim
<1>4. QED
  BY <1>0, <1>1, <1>2, <1>3 DEF Listing

\* How a worker goes on that does not stop.
Advanced(c) ==
    \/ /\ pc[c] = "allocate" /\ pc'[c] = "saveAddress" /\ claim'[c] = claim[c]
       /\ mem'[c].finalizer = mem[c].finalizer
       /\ \E i \in IPs, e \in {"api", "wh"} :
             AllocateIP(i, <<c, e>>) /\ mem'[c].ips = mem[c].ips \cup {i}
    \/ /\ pc[c] = "saveAddress" /\ memCur[c] /\ pc'[c] \in {"allocate", "list", "job"}
       /\ mem'[c] = mem[c] /\ claim'[c] = mem[c] /\ ipam' = ipam
    \/ /\ pc[c] \in {"list", "stage", "shrink", "saveMachines"}
       /\ pc'[c] \in {"stage", "shrink", "saveMachines", "job"}
       /\ mem'[c].ips = mem[c].ips /\ mem'[c].finalizer = mem[c].finalizer
       /\ ipam' = ipam

LEMMA ContinueAdvances ==
    ASSUME TypeOK, NEW c \in Claims, Continue(c), ~Finish(c)
    PROVE  Advanced(c) /\ memCur' = memCur
<1>0. mem[c] \in Claim
  BY DEF TypeOK, WorkerTypeOK
<1>1. CASE AllocateAddress(c)
  <2>1. PICK i \in IPs :
          /\ AllocateIP(i, <<c, IF mem[c].cp = NoIP THEN "api" ELSE "wh">>)
          /\ mem' = [mem EXCEPT ![c] = WithAddress(mem[c], i)]
          /\ pc[c] = "allocate" /\ pc' = [pc EXCEPT ![c] = "saveAddress"]
          /\ UNCHANGED <<memCur, objectVars>>
    BY <1>1 DEF AllocateAddress
  <2>2. /\ mem'[c].ips = mem[c].ips \cup {i} /\ mem'[c].finalizer = mem[c].finalizer
        /\ claim' = claim /\ memCur' = memCur /\ pc'[c] = "saveAddress"
    BY <1>0, <2>1 DEF WithAddress, Claim, objectVars, TypeOK, WorkerTypeOK
  <2>3. \E e \in {"api", "wh"} : AllocateIP(i, <<c, e>>)
    BY <2>1
  <2>4. QED
    BY <2>1, <2>2, <2>3 DEF Advanced
<1>2. CASE SaveAddress(c)
  <2>1. FirstCall(mem[c]) \in {"allocate", "list", "job"}
    BY DEF FirstCall
  <2>2. /\ pc[c] = "saveAddress" /\ memCur[c] /\ claim' = [claim EXCEPT ![c] = mem[c]]
        /\ pc' = [pc EXCEPT ![c] = FirstCall(mem[c])]
        /\ UNCHANGED <<mem, memCur, ipam>>
    BY <1>2 DEF SaveAddress, Store, netboxVars
  <2>3. QED
    BY <2>1, <2>2 DEF Advanced, TypeOK, ObjectTypeOK, WorkerTypeOK
<1>3. CASE ListMachines(c) \/ ReleaseMachine(c) \/ SaveMachines(c)
  BY <1>3 DEF ListMachines, ReleaseMachine, SaveMachines, Advanced, netboxVars, TypeOK, WorkerTypeOK
<1>4. CASE StageMachine(c)
  <2>1. PICK m \in todo[c] :
          /\ pc[c] = "stage" /\ pc'[c] \in {"stage", "saveMachines"}
          /\ mem' = [mem EXCEPT ![c].machines = @ \cup {m}]
          /\ UNCHANGED <<memCur, ipam>>
    BY <1>4 DEF StageMachine, TypeOK, WorkerTypeOK
  <2>2. mem'[c].ips = mem[c].ips /\ mem'[c].finalizer = mem[c].finalizer
    BY <1>0, <2>1 DEF TypeOK, WorkerTypeOK, Claim
  <2>3. QED
    BY <2>1, <2>2 DEF Advanced
<1>5. QED
  BY <1>1, <1>2, <1>3, <1>4
     DEF Continue, CreateJob, AwaitJob, FailOnJob, EnsureCluster, SaveReady, RemoveFinalizer

LEMMA Busies ==
    ASSUME NEW c \in Claims, Continue(c)
    PROVE  pc[c] # "idle"
BY DEF Continue, AllocateAddress, SaveAddress, ListMachines, StageMachine, SaveMachines,
       CreateJob, AwaitJob, FailOnJob, EnsureCluster, SaveReady, ReleaseMachine,
       RemoveFinalizer

LEMMA ListingContinue ==
    ASSUME TypeOK, ListsKept, AddressInv, NEW c \in Claims, Continue(c)
    PROVE  Listing(mem'[c], claim'[c], pc'[c])
<1>0. Listing(mem[c], claim[c], pc[c]) /\ pc[c] # "idle"
  BY Busies DEF ListsKept
<1>1. CASE Finish(c)
  <2>1. mem'[c].ips = {} /\ pc'[c] = "idle"
    BY <1>1 DEF Finish, Fresh, TypeOK, WorkerTypeOK
  <2>2. QED
    BY <1>0, <2>1, ContinueOnward DEF Listing
<1>2. CASE ~Finish(c)
  BY <1>0, <1>2, ContinueAdvances, ContinueOnward DEF Advanced, Listing
<1>3. QED
  BY <1>1, <1>2

LEMMA UserOnward ==
    ASSUME TypeOK, NEW c \in Claims, User(c)
    PROVE  \/ Onward(claim[c], claim'[c])
           \/ ~claim[c].finalizer /\ claim'[c].ips = {} /\ claim'[c].life = "gone"
<1>0. claim[c] \in Claim /\ \A new : Writes(c, new) => claim'[c] = new
  BY DEF Writes, TypeOK, ObjectTypeOK
<1>1. ASSUME NEW n, Edit(c, [claim[c] EXCEPT !.want = n]) PROVE Onward(claim[c], claim'[c])
  <2>1. claim'[c] = [claim[c] EXCEPT !.want = n]
    BY <1>0, <1>1 DEF Edit, Store, Writes
  <2>2. QED
    BY <1>0, <2>1 DEF Onward, Claim
<1>2. CASE Annotate(c)
  <2>1. claim'[c] = [claim[c] EXCEPT !.deleteAt = ~@]
    BY <1>0, <1>2 DEF Annotate, Edit, Store, Writes
  <2>2. QED
    BY <1>0, <2>1 DEF Onward, Claim
<1>3. CASE Delete(c) /\ claim[c].finalizer
  <2>1. claim'[c] = [claim[c] EXCEPT !.life = "deleting"]
    BY <1>0, <1>3 DEF Delete, Edit, Store, Writes
  <2>2. QED
    BY <1>0, <1>3, <2>1 DEF Onward, Claim
<1>4. CASE Delete(c) /\ ~claim[c].finalizer
  <2>1. claim'[c] = Erased(claim[c])
    BY <1>0, <1>4 DEF Delete, Edit, Store, Writes
  <2>2. QED
    BY <1>0, <1>4, <2>1 DEF Erased, Claim
<1>5. QED
  BY <1>1, <1>2, <1>3, <1>4 DEF User, Scale

LEMMA ListsKeptNext ==
    ASSUME TypeOK, PhaseInv, AddressInv, FreshCaches, ListsKept, [Next]_vars
    PROVE  ListsKept'
<1> SUFFICES ASSUME NEW d \in Claims PROVE Listing(mem'[d], claim'[d], pc'[d])
  BY DEF ListsKept
<1>0. ASSUME mem'[d] = mem[d], claim'[d] = claim[d], pc'[d] = pc[d]
      PROVE  Listing(mem'[d], claim'[d], pc'[d])
  BY <1>0 DEF ListsKept
<1>1. ASSUME NEW c \in Claims, Begin(c) \/ Continue(c)
      PROVE  Listing(mem'[d], claim'[d], pc'[d])
  <2>1. CASE d = c
    BY <1>1, <2>1, ListingBegin, ListingContinue
  <2>2. CASE d # c
    <3>1. claim'[d] = claim[d]
      BY <1>1, <2>2, BeginMoves, ContinueMoves DEF Writes, TypeOK, ObjectTypeOK
    <3>2. QED
      BY <1>0, <1>1, <2>2, <3>1, OneActor
  <2>3. QED
    BY <2>1, <2>2
<1>2. ASSUME NEW c \in Claims, User(c)
      PROVE  Listing(mem'[d], claim'[d], pc'[d])
  <2>1. /\ mem' = mem /\ pc' = pc /\ \E new : claim' = [claim EXCEPT ![c] = new]
    BY <1>2, UserMoves DEF Writes
  <2>2. CASE d = c
    <3>1. Listing(mem[c], claim[c], pc[c])
      BY DEF ListsKept
    <3>2. QED
      BY <1>2, <2>1, <2>2, <3>1, UserOnward DEF Onward, Listing
  <2>3. CASE d # c
    BY <1>0, <2>1, <2>3 DEF TypeOK, ObjectTypeOK
  <2>4. QED
    BY <2>2, <2>3
<1>3. CASE Outside \/ UNCHANGED vars
  BY <1>0, <1>3, OutsideEffect DEF vars, workerVars, PhaseInv
<1>4. CASE Restart
  <2>1. /\ mem'[d].ips = {} /\ pc'[d] = "idle" /\ claim' = claim
        /\ Listing(mem[d], claim[d], pc[d])
    BY <1>4 DEF Restart, Fresh, ListsKept
  <2>2. QED
    BY <2>1 DEF Listing
<1>5. QED
  BY <1>1, <1>2, <1>3, <1>4 DEF Next, Outside

-------------------------------------------------------------------------------
(* Counting *)

\* A set that grows by X at most, and by nothing that was in it.
LEMMA Grown ==
    ASSUME NEW A, IsFiniteSet(A), NEW X, IsFiniteSet(X), NEW B, B \subseteq A \cup X
    PROVE  /\ IsFiniteSet(B)
           /\ Cardinality(A) \in Nat /\ Cardinality(X) \in Nat /\ Cardinality(B) \in Nat
           /\ Cardinality(B) <= Cardinality(A) + Cardinality(X)
<1>1. /\ IsFiniteSet(A \cup X)
      /\ Cardinality(A \cup X) = Cardinality(A) + Cardinality(X) - Cardinality(A \cap X)
  BY FS_Union
<1>2. B \in SUBSET (A \cup X) /\ A \cap X \in SUBSET X
  OBVIOUS
<1>3. IsFiniteSet(B) /\ IsFiniteSet(A \cap X)
  BY <1>1, <1>2, FS_Subset
<1>4. /\ Cardinality(A \cap X) \in Nat /\ Cardinality(A) \in Nat /\ Cardinality(X) \in Nat
      /\ Cardinality(B) \in Nat /\ Cardinality(A \cup X) \in Nat
  BY <1>1, <1>3, FS_CardinalityType
<1>5. Cardinality(B) <= Cardinality(A \cup X)
  BY <1>1, <1>2, FS_Subset
<1>6. QED
  BY <1>1, <1>3, <1>4, <1>5

LEMMA Counts ==
    /\ IsFiniteSet(Lost) /\ IsFiniteSet(Doomed) /\ IsFiniteSet(Busy)
    /\ Cardinality(Lost) \in Nat /\ Cardinality(Doomed) \in Nat /\ Cardinality(Busy) \in Nat
<1>1. Lost \in SUBSET IPs /\ Doomed \in SUBSET Claims /\ Busy \in SUBSET Claims
  BY DEF Lost, Live, Doomed, Busy
<1>2. QED
  BY <1>1, ClaimAssumption, FS_Subset, FS_CardinalityType

LEMMA WorkersBoundedNext ==
    ASSUME TypeOK, PhaseInv, WorkersBounded, [Next]_vars
    PROVE  WorkersBounded'
<1>0. /\ IsFiniteSet(Busy) /\ Cardinality(Busy) \in Nat /\ MaxWorkers \in Nat
      /\ Cardinality(Busy) <= MaxWorkers
  BY Counts, BoundAssumption DEF WorkersBounded
<1>1. ASSUME Busy' \subseteq Busy PROVE WorkersBounded'
  <2>1. Cardinality(Busy') \in Nat /\ Cardinality(Busy') <= Cardinality(Busy)
    BY <1>0, <1>1, FS_Subset, FS_CardinalityType
  <2>2. QED
    BY <1>0, <2>1 DEF WorkersBounded
<1>2. ASSUME NEW c \in Claims, Begin(c) PROVE WorkersBounded'
  <2>1. Cardinality(Busy) < MaxWorkers
    BY <1>2 DEF Begin, ReconcileGone, AddFinalizer, IgnoreFailed, Validate, BeginProvision,
           WatchAddons, Grant, GraceDelete, Steady, ScaleUp, ScaleDown, ReleaseAll,
           Takes, Dequeue
  <2>2. Busy' \subseteq Busy \cup {c}
    BY <1>2, OneActor DEF Busy
  <2>3. Cardinality(Busy') \in Nat /\ Cardinality(Busy') <= Cardinality(Busy) + 1
    BY <1>0, <2>2, Grown, FS_Singleton
  <2>4. QED
    BY <1>0, <2>1, <2>3 DEF WorkersBounded
<1>3. ASSUME NEW c \in Claims, Continue(c) PROVE Busy' \subseteq Busy
  BY <1>3, OneActor, Busies DEF Busy
<1>4. ASSUME NEW c \in Claims, User(c) PROVE Busy' \subseteq Busy
  BY <1>4, UserMoves DEF Busy
<1>5. CASE Outside \/ UNCHANGED vars
  <2>1. pc' = pc
    BY <1>5, OutsideEffect DEF vars, workerVars, PhaseInv
  <2>2. QED
    BY <1>1, <2>1 DEF Busy
<1>6. CASE Restart
  BY <1>1, <1>6 DEF Restart, Busy
<1>7. QED
  BY <1>1, <1>2, <1>3, <1>4, <1>5, <1>6 DEF Next, Outside

LEMMA Times ==
    ASSUME NEW w \in Nat \ {0}, NEW f \in Nat, NEW g \in Nat, NEW k \in Nat, g >= f + k
    PROVE  /\ w * f \in Nat /\ w * g \in Nat /\ w * k \in Nat
           /\ w * k >= k /\ w * g >= w * f + w * k
<1>1. w * k >= k
  <2>1. (w - 1) * k \in Nat /\ w * k = (w - 1) * k + k
    OBVIOUS
  <2>2. QED
    BY <2>1
<1>2. w * g >= w * f + w * k
  <2>1. PICK r \in Nat : g = f + k + r
    <3>1. g - (f + k) \in Nat /\ g = f + k + (g - (f + k))
      OBVIOUS
    <3>2. QED
      BY <3>1
  <2>2. w * g = w * f + w * k + w * r /\ w * r \in Nat
    BY <2>1
  <2>3. QED
    BY <2>2
<1>3. QED
  BY <1>1, <1>2

LEMMA Sums ==
    ASSUME NEW w \in Nat \ {0}, NEW f \in Nat, NEW g \in Nat, NEW e \in Nat, NEW h \in Nat,
           g >= f, h >= e
    PROVE  /\ w * f + e \in Nat /\ w * g + h \in Nat /\ w * g + h >= w * f + e
           /\ \A n \in Nat : g >= f + n => w * g + h >= (w * f + e) + n
           /\ g >= f + 1 => w * g + h >= (w * f + e) + w
           /\ h = e + 1 => w * g + h >= (w * f + e) + 1
<1>1. ASSUME NEW n \in Nat, g >= f + n
      PROVE  /\ w * f \in Nat /\ w * g \in Nat /\ w * n \in Nat
             /\ w * n >= n /\ w * g >= w * f + w * n
  BY <1>1, Times
<1>2. w * f \in Nat /\ w * g \in Nat /\ w * g >= w * f
  <2>1. g >= f + 0 /\ w * 0 = 0
    OBVIOUS
  <2>2. QED
    BY <1>1, <2>1
<1>3. ASSUME NEW n \in Nat, g >= f + n PROVE w * g + h >= (w * f + e) + n
  <2> DEFINE p == w * f   q == w * g   r == w * n
  <2>1. p \in Nat /\ q \in Nat /\ r \in Nat /\ r >= n /\ q >= p + r
    BY <1>1, <1>3
  <2> HIDE DEF p, q, r
  <2>2. q + h >= (p + e) + n
    BY <2>1
  <2>3. QED
    BY <2>2 DEF p, q
<1>4. g >= f + 1 => w * g + h >= (w * f + e) + w
  <2>1. w * 1 = w
    OBVIOUS
  <2> DEFINE p == w * f   q == w * g
  <2>2. p \in Nat /\ q \in Nat /\ (g >= f + 1 => q >= p + w)
    BY <1>1, <1>2, <2>1
  <2> HIDE DEF p, q
  <2>3. g >= f + 1 => q + h >= (p + e) + w
    BY <2>2
  <2>4. QED
    BY <2>3 DEF p, q
<1>5. /\ w * f + e \in Nat /\ w * g + h \in Nat /\ w * g + h >= w * f + e
      /\ h = e + 1 => w * g + h >= (w * f + e) + 1
  <2> DEFINE p == w * f   q == w * g
  <2>1. p \in Nat /\ q \in Nat /\ q >= p
    BY <1>2
  <2> HIDE DEF p, q
  <2>2. /\ p + e \in Nat /\ q + h \in Nat /\ q + h >= p + e
        /\ h = e + 1 => q + h >= (p + e) + 1
    BY <2>1
  <2>3. QED
    BY <2>2 DEF p, q
<1>6. QED
  BY <1>3, <1>4, <1>5

LEMMA BudgetGrows ==
    ASSUME TypeOK, TypeOK', [Next]_vars
    PROVE  /\ Budget \in Nat /\ Budget' \in Nat /\ Budget' >= Budget
           /\ \A n \in Nat : faults' >= faults + n => Budget' >= Budget + n
           /\ faults' >= faults + 1 => Budget' >= Budget + MaxWorkers
           /\ edits' = edits + 1 => Budget' >= Budget + 1
<1>1. /\ MaxWorkers \in Nat \ {0} /\ faults \in Nat /\ faults' \in Nat
      /\ edits \in Nat /\ edits' \in Nat /\ faults' >= faults /\ edits' >= edits
  BY CountersGrow, BoundAssumption DEF TypeOK
<1>2. QED
  BY <1>1, Sums DEF Budget

\* What is lost is paid for by the step ...
LEMMA OwedPaid ==
    ASSUME TypeOK, TypeOK', [Next]_vars, Owed, NEW X, IsFiniteSet(X),
           Lost' \subseteq Lost \cup X, Doomed' \subseteq Doomed,
           Budget' >= Budget + Cardinality(X)
    PROVE  Owed'
<1>1. /\ Cardinality(Lost) \in Nat /\ Cardinality(Lost') \in Nat /\ Cardinality(X) \in Nat
      /\ Cardinality(Lost') <= Cardinality(Lost) + Cardinality(X)
  BY Counts, Grown
<1>2. /\ Cardinality(Doomed) \in Nat /\ Cardinality(Doomed') \in Nat
      /\ Cardinality(Doomed') <= Cardinality(Doomed)
  BY Counts, FS_Subset, FS_CardinalityType
<1>3. QED
  BY <1>1, <1>2, BudgetGrows DEF Owed

\* ... or was owed before ...
LEMMA OwedDue ==
    ASSUME TypeOK, TypeOK', [Next]_vars, Owed, NEW i, NEW c \in Doomed,
           Lost' \subseteq Lost \cup {i}, Doomed' \subseteq Doomed \ {c}
    PROVE  Owed'
<1>1. /\ Cardinality(Lost) \in Nat /\ Cardinality(Lost') \in Nat
      /\ Cardinality(Lost') <= Cardinality(Lost) + 1
  BY Counts, Grown, FS_Singleton
<1>2. /\ IsFiniteSet(Doomed \ {c})
      /\ Cardinality(Doomed \ {c}) = Cardinality(Doomed) - 1
  BY Counts, FS_RemoveElement
<1>3. /\ Cardinality(Doomed) \in Nat /\ Cardinality(Doomed') \in Nat
      /\ Cardinality(Doomed') <= Cardinality(Doomed) - 1
  <2>1. Cardinality(Doomed') \in Nat /\ Cardinality(Doomed') <= Cardinality(Doomed \ {c})
    BY <1>2, FS_Subset, FS_CardinalityType
  <2>2. QED
    BY <1>2, <2>1, Counts
<1>4. QED
  BY <1>1, <1>3, BudgetGrows DEF Owed

\* ... or the step pays for what will be lost.
LEMMA OwedAhead ==
    ASSUME TypeOK, TypeOK', [Next]_vars, Owed, NEW c,
           Lost' \subseteq Lost, Doomed' \subseteq Doomed \cup {c}, Budget' >= Budget + 1
    PROVE  Owed'
<1>1. /\ Cardinality(Doomed) \in Nat /\ Cardinality(Doomed') \in Nat
      /\ Cardinality(Doomed') <= Cardinality(Doomed) + 1
  BY Counts, Grown, FS_Singleton
<1>2. /\ Cardinality(Lost) \in Nat /\ Cardinality(Lost') \in Nat
      /\ Cardinality(Lost') <= Cardinality(Lost)
  BY Counts, FS_Subset, FS_CardinalityType
<1>3. QED
  BY <1>1, <1>2, BudgetGrows DEF Owed

LEMMA OwedFree ==
    ASSUME TypeOK, TypeOK', [Next]_vars, Owed, Lost' \subseteq Lost, Doomed' \subseteq Doomed
    PROVE  Owed'
<1>1. IsFiniteSet({}) /\ Cardinality({}) = 0
  BY FS_EmptySet
<1>2. Budget' >= Budget + Cardinality({})
  BY <1>1, BudgetGrows
<1>3. QED
  BY <1>1, <1>2, OwedPaid

-------------------------------------------------------------------------------
(* What one step can lose *)

LEMMA LostBy ==
    ASSUME NEW c \in Claims, NEW X,
           \A d \in Claims \ {c} : Spares(d)' = Spares(d),
           \A i \in IPs \ X : ipam'[i].state = "live" =>
               \/ i \in Spares(c)'
               \/ ipam[i].state = "live" /\ i \notin Spares(c)
    PROVE  Lost' \subseteq Lost \cup X
BY DEF Lost, Live

LEMMA OthersSpared ==
    ASSUME TypeOK, PhaseInv, NEW c \in Claims, Begin(c) \/ Continue(c)
    PROVE  \A d \in Claims \ {c} : /\ Spares(d)' = Spares(d)
                                   /\ d \in Doomed' => d \in Doomed
<1> SUFFICES ASSUME NEW d \in Claims \ {c}
             PROVE  Spares(d)' = Spares(d) /\ (d \in Doomed' => d \in Doomed)
  OBVIOUS
<1>1. claim'[d] = claim[d]
  BY BeginMoves, ContinueMoves DEF Writes, TypeOK, ObjectTypeOK
<1>2. mem'[d] = mem[d] /\ pc'[d] = pc[d] /\ memCur'[d] = memCur[d]
  BY OneActor
<1>3. QED
  BY <1>1, <1>2 DEF Spares, Doomed

LEMMA OwedBegin ==
    ASSUME TypeOK, TypeOK', [Next]_vars, PhaseInv, FreshCaches, Owed,
           NEW c \in Claims, Begin(c)
    PROVE  Owed'
<1>0. /\ pc[c] = "idle" /\ ~memCur[c] /\ cacheCur[c] /\ cache[c] = claim[c]
      /\ Spares(c) = claim[c].ips
  <2>1. pc[c] = "idle"
    BY DEF Begin, ReconcileGone, AddFinalizer, IgnoreFailed, Validate, BeginProvision,
           WatchAddons, Grant, GraceDelete, Steady, ScaleUp, ScaleDown, ReleaseAll,
           Takes, Dequeue
  <2>2. QED
    BY <2>1, FreshCopies DEF FreshCaches, PhaseInv, CopyHeld, Spares, Spared
<1>1. Doomed' \subseteq Doomed
  <2>1. c \notin Doomed'
    <3>1. CASE UNCHANGED workerVars
      BY <1>0, <3>1 DEF workerVars, Doomed
    <3>2. CASE ~UNCHANGED workerVars
      BY <1>0, <3>2, BeginStarts DEF Started, Doomed
    <3>3. QED
      BY <3>1, <3>2
  <2>2. QED
    BY <2>1, OthersSpared DEF Doomed
<1>2. CASE ReleaseAll(c)
  <2>1. PICK I \in SUBSET cache[c].ips :
          /\ ReleaseIP(cache[c].ips \ I)
          /\ IsFiniteSet(I) /\ faults' >= faults + Cardinality(I)
    BY <1>2, ReleaseFaults
  <2>2. Cardinality(I) \in Nat
    BY <2>1, FS_CardinalityType
  <2>3. Budget' >= Budget + Cardinality(I)
    BY <2>1, <2>2, BudgetGrows
  <2>4. \A i \in IPs \ I : ipam'[i].state = "live" =>
          ipam[i].state = "live" /\ i \notin Spares(c)
    BY <1>0, <2>1, ReleaseEffect
  <2>5. Lost' \subseteq Lost \cup I
    BY <2>4, OthersSpared, LostBy
  <2>6. QED
    BY <1>1, <2>1, <2>3, <2>5, OwedPaid
<1>3. CASE ~ReleaseAll(c)
  <2>1. ipam' = ipam
    BY <1>3 DEF Begin, ReconcileGone, AddFinalizer, IgnoreFailed, Validate, BeginProvision,
                WatchAddons, Grant, GraceDelete, Steady, ScaleUp, ScaleDown, netboxVars
  <2>2. claim'[c].ips = claim[c].ips
    BY BeginOnward DEF Writes, Onward, TypeOK, ObjectTypeOK
  <2>3. pc'[c] # "removeFinalizer"
    <3>1. CASE UNCHANGED workerVars
      BY <1>0, <3>1 DEF workerVars
    <3>2. CASE ~UNCHANGED workerVars
      BY <1>3, <3>2, BeginStarts DEF Started
    <3>3. QED
      BY <3>1, <3>2
  <2>4. Spares(c) \subseteq Spares(c)'
    BY <1>0, <2>2, <2>3 DEF Spares, Spared
  <2>5. Lost' \subseteq Lost \cup {}
    BY <2>1, <2>4, OthersSpared, LostBy
  <2>6. QED
    BY <1>1, <2>5, OwedFree
<1>4. QED
  BY <1>2, <1>3

\* A worker that stops loses the address it did not save, and that is all.
LEMMA FinishLoses ==
    ASSUME TypeOK, PhaseInv, AddressInv, ListsKept, NEW c \in Claims, Continue(c), Finish(c),
           ipam' = ipam
    PROVE  /\ Doomed' \subseteq Doomed
           /\ (pc[c] # "saveAddress" \/ ~memCur[c]) => Lost' \subseteq Lost
           /\ \E i : Lost' \subseteq Lost \cup {i}
<1>0. /\ pc'[c] = "idle" /\ mem'[c].ips = {} /\ Listing(mem[c], claim[c], pc[c])
      /\ pc[c] # "idle"
  BY Busies DEF Finish, Fresh, ListsKept, TypeOK, WorkerTypeOK
<1>1. Doomed' \subseteq Doomed
  BY <1>0, OthersSpared DEF Doomed
<1>2. ASSUME NEW X, Spares(c) \subseteq Spares(c)' \cup X
      PROVE  Lost' \subseteq Lost \cup X
  BY <1>2, OthersSpared, LostBy
<1>3. CASE pc[c] = "removeFinalizer"
  <2>1. Spares(c) = {}
    BY <1>3 DEF Spares, Spared
  <2>2. Lost' \subseteq Lost \cup {}
    BY <1>2, <2>1
  <2>3. QED
    BY <1>1, <2>2
<1>4. CASE pc[c] # "removeFinalizer"
  <2>1. claim[c].ips \subseteq claim'[c].ips
    BY <1>4, ContinueOnward
  <2>2. Spares(c)' = claim'[c].ips
    BY <1>0 DEF Spares, Spared
  <2>3. CASE pc[c] # "saveAddress" \/ ~memCur[c]
    <3>1. Spares(c) \subseteq claim[c].ips
      BY <1>0, <1>4, <2>3 DEF Spares, Spared, Listing
    <3>2. Lost' \subseteq Lost \cup {}
      BY <1>2, <2>1, <2>2, <3>1
    <3>3. QED
      BY <1>1, <3>2
  <2>4. CASE pc[c] = "saveAddress" /\ memCur[c]
    <3>1. PICK i \in IPs : mem[c].ips \subseteq claim[c].ips \cup {i}
      BY <1>0, <2>4 DEF Listing
    <3>2. Spares(c) \subseteq Spares(c)' \cup {i}
      BY <2>1, <2>2, <3>1 DEF Spares, Spared
    <3>3. QED
      BY <1>1, <1>2, <2>4, <3>2
  <2>5. QED
    BY <2>3, <2>4
<1>5. QED
  BY <1>3, <1>4

LEMMA OwedContinue ==
    ASSUME TypeOK, TypeOK', [Next]_vars, PhaseInv, AddressInv, ListsKept, Owed,
           NEW c \in Claims, Continue(c)
    PROVE  Owed'
<1>0. /\ Listing(mem[c], claim[c], pc[c]) /\ pc[c] # "idle"
      /\ \A i : IsFiniteSet({i}) /\ Cardinality({i}) = 1
      /\ memCur[c] => claim[c].ips \subseteq mem[c].ips
  <2>1. memCur[c] => claim[c].ips \subseteq mem[c].ips
    BY DEF AddressInv, CopyKeeps, CopiesAddressed, Addressed, Keeps
  <2>2. QED
    BY <2>1, Busies, FS_Singleton DEF ListsKept
<1>1. faults' = faults + 1 => Budget' >= Budget + 1
  BY BudgetGrows, BoundAssumption DEF TypeOK
<1>2. CASE Finish(c) /\ ipam' = ipam
  <2>1. CASE pc[c] # "saveAddress" \/ ~memCur[c]
    BY <1>2, <2>1, FinishLoses, OwedFree
  <2>2. CASE pc[c] = "saveAddress" /\ memCur[c]
    <3>1. faults' = faults + 1
      <4>1. SaveAddress(c)
        BY <2>2 DEF Continue, AllocateAddress, ListMachines, StageMachine, SaveMachines,
                    CreateJob, AwaitJob, FailOnJob, EnsureCluster, SaveReady,
                    ReleaseMachine, RemoveFinalizer
      <4>2. pc'[c] = "idle" /\ FirstCall(mem[c]) # "idle"
        BY <1>2 DEF Finish, FirstCall, TypeOK, WorkerTypeOK
      <4>3. QED
        BY <2>2, <4>1, <4>2 DEF SaveAddress, WriteFails, Fault, TypeOK, WorkerTypeOK
    <3>2. PICK i : Lost' \subseteq Lost \cup {i}
      BY <1>2, FinishLoses
    <3>3. QED
      BY <1>0, <1>1, <1>2, <3>1, <3>2, FinishLoses, OwedPaid
  <2>3. QED
    BY <2>1, <2>2
<1>3. CASE Finish(c) /\ ipam' # ipam
  <2>1. AllocateAddress(c)
    BY <1>3 DEF Continue, SaveAddress, ListMachines, StageMachine, SaveMachines, CreateJob,
                AwaitJob, FailOnJob, EnsureCluster, SaveReady, ReleaseMachine,
                RemoveFinalizer, netboxVars
  <2>2. /\ pc[c] = "allocate" /\ pc'[c] = "idle" /\ claim'[c] = claim[c]
    BY <1>3, <2>1 DEF AllocateAddress, Finish, Retry, objectVars, TypeOK, WorkerTypeOK
  <2>3. PICK i \in IPs, e \in {"api", "wh"} : AllocateIP(i, <<c, e>>) /\ faults' = faults + 1
    BY <1>3, <2>1, <2>2 DEF AllocateAddress, Fault, TypeOK, WorkerTypeOK
  <2>4. Spares(c) \subseteq Spares(c)'
    BY <1>0, <2>2 DEF Spares, Spared, Listing
  <2>5. Lost' \subseteq Lost \cup {i}
    <3>1. \A j \in IPs \ {i} : ipam'[j] = ipam[j]
      BY <2>3, AllocateEffect
    <3>2. QED
      BY <2>4, <3>1, OthersSpared, LostBy
  <2>6. Doomed' \subseteq Doomed
    BY <2>2, OthersSpared DEF Doomed
  <2>7. QED
    BY <1>0, <1>1, <2>3, <2>5, <2>6, OwedPaid
<1>4. CASE ~Finish(c) /\ pc[c] = "allocate"
  <2>1. PICK i \in IPs, e \in {"api", "wh"} :
          /\ pc'[c] = "saveAddress" /\ claim'[c] = claim[c] /\ memCur' = memCur
          /\ AllocateIP(i, <<c, e>>) /\ mem'[c].ips = mem[c].ips \cup {i}
    BY <1>4, ContinueAdvances DEF Advanced
  <2>2. Doomed' \subseteq Doomed \ {c}
    BY <2>1, OthersSpared DEF Doomed
  <2>3. CASE memCur[c]
    <3>1. Spares(c) \cup {i} \subseteq Spares(c)'
      BY <1>4, <2>1, <2>3 DEF Spares, Spared
    <3>2. Lost' \subseteq Lost \cup {}
      BY <2>1, <3>1, AllocateEffect, OthersSpared, LostBy
    <3>3. QED
      BY <2>2, <3>2, OwedFree
  <2>4. CASE ~memCur[c]
    <3>1. Spares(c) \subseteq Spares(c)'
      BY <1>4, <2>1, <2>4 DEF Spares, Spared
    <3>2. Lost' \subseteq Lost \cup {i}
      <4>1. \A j \in IPs \ {i} : ipam'[j] = ipam[j]
        BY <2>1, AllocateEffect
      <4>2. QED
        BY <3>1, <4>1, OthersSpared, LostBy
    <3>3. c \in Doomed
      BY <1>4, <2>4 DEF Doomed
    <3>4. QED
      BY <2>2, <3>2, <3>3, OwedDue
  <2>5. QED
    BY <2>3, <2>4
<1>5. CASE ~Finish(c) /\ pc[c] = "saveAddress"
  <2>1. /\ memCur[c] /\ memCur' = memCur /\ pc'[c] # "removeFinalizer"
        /\ mem'[c] = mem[c] /\ claim'[c] = mem[c] /\ ipam' = ipam
    BY <1>5, ContinueAdvances DEF Advanced
  <2>2. Spares(c) \subseteq Spares(c)'
    BY <1>0, <1>5, <2>1 DEF Spares, Spared
  <2>3. Lost' \subseteq Lost \cup {}
    BY <2>1, <2>2, OthersSpared, LostBy
  <2>4. Doomed' \subseteq Doomed
    BY <2>1, OthersSpared DEF Doomed
  <2>5. QED
    BY <2>3, <2>4, OwedFree
<1>6. CASE ~Finish(c) /\ pc[c] \notin {"allocate", "saveAddress"}
  <2>1. /\ pc[c] # "removeFinalizer" /\ pc'[c] \notin {"allocate", "removeFinalizer"}
        /\ ipam' = ipam
    BY <1>6, ContinueAdvances DEF Advanced
  <2>2. Spares(c) \subseteq claim[c].ips /\ claim'[c].ips \subseteq Spares(c)'
    BY <1>0, <1>6, <2>1 DEF Spares, Spared, Listing
  <2>3. claim[c].ips \subseteq claim'[c].ips
    BY <2>1, ContinueOnward
  <2>4. Lost' \subseteq Lost \cup {}
    BY <2>1, <2>2, <2>3, OthersSpared, LostBy
  <2>5. Doomed' \subseteq Doomed
    BY <2>1, OthersSpared DEF Doomed
  <2>6. QED
    BY <2>4, <2>5, OwedFree
<1>7. QED
  BY <1>2, <1>3, <1>4, <1>5, <1>6

\* A user who edits a claim makes its worker's copy stale: the address it has not saved
\* is lost, or the one it is about to ask for will be.
LEMMA OwedUser ==
    ASSUME TypeOK, TypeOK', [Next]_vars, ListsKept, Owed, NEW c \in Claims, User(c)
    PROVE  Owed'
<1>0. /\ Listing(mem[c], claim[c], pc[c]) /\ Budget' >= Budget + 1
      /\ \A i : IsFiniteSet({i}) /\ Cardinality({i}) = 1
  BY UserMoves, BudgetGrows, FS_Singleton DEF ListsKept
<1>1. /\ mem' = mem /\ pc' = pc /\ memCur' = [memCur EXCEPT ![c] = FALSE] /\ ipam' = ipam
      /\ \E new : claim' = [claim EXCEPT ![c] = new]
  BY UserMoves DEF Writes, netboxVars
<1>2. \A d \in Claims \ {c} : Spares(d)' = Spares(d) /\ (d \in Doomed' <=> d \in Doomed)
  BY <1>1 DEF Spares, Doomed, TypeOK, ObjectTypeOK, WorkerTypeOK
<1>3. claim[c].ips \subseteq claim'[c].ips /\ memCur'[c] = FALSE
  <2>1. claim[c].ips \subseteq claim'[c].ips
    BY <1>0, UserOnward DEF Onward, Listing
  <2>2. QED
    BY <1>1, <2>1 DEF TypeOK, WorkerTypeOK
<1>4. CASE pc[c] = "saveAddress"
  <2>1. PICK i \in IPs : mem[c].ips \subseteq claim[c].ips \cup {i}
    BY <1>0, <1>4 DEF Listing
  <2>2. Spares(c) \subseteq Spares(c)' \cup {i}
    BY <1>1, <1>3, <1>4, <2>1 DEF Spares, Spared
  <2>3. Lost' \subseteq Lost \cup {i}
    BY <1>1, <1>2, <2>2, LostBy
  <2>4. Doomed' \subseteq Doomed
    BY <1>1, <1>2, <1>4 DEF Doomed
  <2>5. QED
    BY <1>0, <2>3, <2>4, OwedPaid
<1>5. CASE pc[c] # "saveAddress"
  <2>1. Spares(c) \subseteq Spares(c)'
    BY <1>0, <1>1, <1>3, <1>5 DEF Spares, Spared, Listing
  <2>2. Lost' \subseteq Lost \cup {}
    BY <1>1, <1>2, <2>1, LostBy
  <2>3. Doomed' \subseteq Doomed \cup {c}
    BY <1>2 DEF Doomed
  <2>4. QED
    BY <1>0, <2>2, <2>3, OwedAhead
<1>6. QED
  BY <1>4, <1>5

\* A crash loses at most the address that each worker has not saved.
LEMMA OwedRestart ==
    ASSUME TypeOK, TypeOK', [Next]_vars, ListsKept, WorkersBounded, Owed, Restart
    PROVE  Owed'
<1> DEFINE saving == {c \in Busy : pc[c] = "saveAddress"}
           extra == [c \in saving |->
                       CHOOSE i \in IPs : mem[c].ips \subseteq claim[c].ips \cup {i}]
           unsaved == {extra[c] : c \in saving}
<1>1. /\ IsFiniteSet(saving) /\ Cardinality(saving) \in Nat
      /\ Cardinality(saving) <= MaxWorkers
  <2>1. saving \in SUBSET Busy
    OBVIOUS
  <2>2. /\ IsFiniteSet(saving) /\ Cardinality(saving) <= Cardinality(Busy)
        /\ Cardinality(saving) \in Nat
    BY <2>1, Counts, FS_Subset, FS_CardinalityType
  <2>3. QED
    BY <2>2, Counts, BoundAssumption DEF WorkersBounded
<1>2. extra \in Surjection(saving, unsaved)
  BY DEF Surjection
<1>3. /\ IsFiniteSet(unsaved) /\ Cardinality(unsaved) \in Nat
      /\ Cardinality(unsaved) <= MaxWorkers
  <2> HIDE DEF saving, extra, unsaved
  <2>1. IsFiniteSet(unsaved) /\ Cardinality(unsaved) <= Cardinality(saving)
    BY <1>1, <1>2, FS_Surjection
  <2>2. QED
    BY <1>1, <2>1, FS_CardinalityType, BoundAssumption
<1>4. ASSUME NEW c \in Claims PROVE Spares(c) \subseteq Spares(c)' \cup unsaved
  <2>1. Spares(c)' = claim[c].ips /\ Listing(mem[c], claim[c], pc[c])
    BY DEF Restart, Spares, Spared, ListsKept
  <2>2. CASE pc[c] = "saveAddress"
    <3>1. \E i \in IPs : mem[c].ips \subseteq claim[c].ips \cup {i}
      BY <2>1, <2>2 DEF Listing
    <3>2. c \in saving
      BY <2>2 DEF Busy
    <3>3. mem[c].ips \subseteq claim[c].ips \cup {extra[c]}
      BY <3>1, <3>2
    <3>4. extra[c] \in unsaved
      BY <3>2
    <3>5. QED
      BY <2>1, <3>3, <3>4 DEF Spares, Spared
  <2>3. CASE pc[c] # "saveAddress"
    BY <2>1, <2>3 DEF Spares, Spared, Listing
  <2>4. QED
    BY <2>2, <2>3
<1>5. Lost' \subseteq Lost \cup unsaved
  <2> HIDE DEF unsaved
  <2>1. QED
    BY <1>4 DEF Lost, Live, Restart, netboxVars
<1>6. Doomed' \subseteq Doomed
  BY DEF Restart, Doomed
<1>7. Budget' >= Budget + Cardinality(unsaved)
  <2> HIDE DEF unsaved
  <2>1. faults \in Nat /\ faults' = faults + 1 /\ MaxWorkers \in Nat
    BY BoundAssumption DEF Restart, Fault, TypeOK
  <2>2. /\ Budget \in Nat /\ Budget' \in Nat /\ Budget' >= Budget + MaxWorkers
    BY <2>1, BudgetGrows
  <2>3. QED
    BY <1>3, <2>1, <2>2
<1>8. QED
  BY <1>3, <1>5, <1>6, <1>7, OwedPaid

LEMMA OwedNext ==
    ASSUME TypeOK, TypeOK', [Next]_vars, PhaseInv, AddressInv, FreshCaches, ListsKept,
           WorkersBounded, Owed
    PROVE  Owed'
<1>1. CASE Outside \/ UNCHANGED vars
  <2>1. claim' = claim /\ UNCHANGED workerVars /\ ipam' = ipam
    BY <1>1, OutsideEffect DEF vars, workerVars, PhaseInv
  <2>2. Lost' \subseteq Lost /\ Doomed' \subseteq Doomed
    BY <2>1 DEF workerVars, Lost, Live, Spares, Doomed
  <2>3. QED
    BY <2>2, OwedFree
<1>2. QED
  BY <1>1, OwedBegin, OwedContinue, OwedUser, OwedRestart DEF Next, Outside

LEMMA LeakInvInit == Init => LeakInv
<1> SUFFICES ASSUME Init PROVE LeakInv
  OBVIOUS
<1>1. ASSUME NEW c \in Claims
      PROVE  /\ mem[c].ips = {} /\ claim[c].ips = {} /\ pc[c] = "idle" /\ cacheCur[c]
             /\ claim[c].life = "live"
  BY DEF Init, Fresh
<1>2. FreshCaches /\ ListsKept
  BY <1>1 DEF FreshCaches, ListsKept, Listing
<1>3. Busy = {} /\ Lost = {} /\ Doomed = {}
  BY <1>1 DEF Busy, Lost, Live, Doomed, Init, NetboxInit
<1>4. Cardinality({}) = 0 /\ Budget = 0
  BY FS_EmptySet, BoundAssumption DEF Init, Budget
<1>5. QED
  BY <1>2, <1>3, <1>4, BoundAssumption DEF LeakInv, WorkersBounded, Owed

LEMMA LeakInvNext ==
    TypeOK /\ TypeOK' /\ PhaseInv /\ AddressInv /\ LeakInv /\ [Next]_vars => LeakInv'
BY FreshCachesNext, ListsKeptNext, WorkersBoundedNext, OwedNext DEF LeakInv

LEMMA LeakInvariant == Spec => []LeakInv
<1>1. QED
  BY TypeCorrect, PhaseInvariant, AddressInvariant, LeakInvInit, LeakInvNext, PTL DEF Spec

\* With fresh informers each address that no claim lists and no worker is about to save cost
\* a fault or a user's edit, for any number of claims, workers and addresses: the status is
\* saved after each allocation, so that no worker ever has more than one to lose.
THEOREM LeaksAreBounded == Spec => []IPLeakBounded
<1>1. TypeOK /\ LeakInv => IPLeakBounded
  <2> SUFFICES ASSUME TypeOK, LeakInv, ~Lag
               PROVE  Cardinality(Orphans) <= MaxWorkers * faults + edits
    BY DEF IPLeakBounded
  <2>1. Orphans \subseteq Lost
    BY DEF Orphans, Lost, Spares, Spared
  <2>2. Cardinality(Orphans) \in Nat /\ Cardinality(Orphans) <= Cardinality(Lost)
    BY <2>1, Counts, FS_Subset, FS_CardinalityType
  <2>3. Budget \in Int
    <3>1. faults \in Nat /\ edits \in Nat /\ MaxWorkers \in Nat
      BY BoundAssumption DEF TypeOK
    <3>2. QED
      BY <3>1 DEF Budget
  <2>4. Cardinality(Orphans) <= Budget
    BY <2>2, <2>3, Counts DEF LeakInv, Owed
  <2>5. QED
    BY <2>4 DEF Budget
<1>2. QED
  BY <1>1, TypeCorrect, LeakInvariant, PTL
=============================================================================

------------------------------ MODULE Startup ------------------------------
(***************************************************************************)
(* The start of an operator process (main.go) up to the moment its         *)
(* controllers run: read the ConfigMap and the Secret, make the            *)
(* cluster-wide Roles and their bindings what they should be               *)
(* (internal/rbac/setup.go), then wait for the lease.  A rolling update    *)
(* runs two processes at once.  Whatever goes wrong before the lease is    *)
(* held ends the process (os.Exit), and the pod starts it again.           *)
(*                                                                         *)
(* An edit of the ConfigMap or the Secret gives its value the next version *)
(* number; versions in Blank are edits that leave it empty or delete it.   *)
(***************************************************************************)
EXTENDS Naturals, Sequences

CONSTANTS
    Replicas,       \* the processes
    NoReplica,
    MaxVersion,     \* bound: versions of the URL and of the token
    Blank,          \* the versions that are empty
    MaxFaults       \* bound: crashes, failed requests and edits of RBAC objects

ASSUME StartupAssumption ==
    /\ NoReplica \notin Replicas
    /\ MaxVersion \in Nat \ {0} /\ MaxFaults \in Nat
    /\ Blank \subseteq 2..MaxVersion

VARIABLES
    stored,     \* the URL in the ConfigMap and the token in the Secret
    rbac,       \* the cluster-wide RBAC objects
    stage,      \* stage[r]: how far process r is
    step,       \* the RBAC object it is ensuring
    got,        \* what its Get of that object returned; "stale" once that is history
    boot,       \* the URL and the token it read at its start
    lease,      \* whom the Lease names
    faults

processVars == <<stage, step, got, boot>>

Version == 0..MaxVersion                        \* 0: not read
Config == [url: Version, token: Version]
Unread == [url |-> 0, token |-> 0]

SwappedObjects == <<"admins", "admin", "catalog-readers", "catalog-reader">>
                                                \* mutant: bindings before their roles

\* EnsureClusterRBAC: the two ClusterRoles, then their bindings.
Objects == <<"admin", "catalog-reader", "admins", "catalog-readers">>

StartTypeOK ==
    /\ stored \in Config /\ boot \in [Replicas -> Config]
    /\ rbac \in [{"admin", "catalog-reader", "admins", "catalog-readers"}
                    -> {"absent", "asWanted", "edited"}]
    /\ stage \in [Replicas -> {"down", "config", "secret", "rbac", "standby", "leading"}]
    /\ step \in [Replicas -> 1..4]
    /\ got \in [Replicas -> {"nothing", "absent", "asWanted", "edited", "stale"}]
    /\ lease \in Replicas \cup {NoReplica}
    /\ faults \in 0..MaxFaults

StartInit ==
    /\ stored = [url |-> 1, token |-> 1]
    /\ rbac = [o \in {"admin", "catalog-reader", "admins", "catalog-readers"} |-> "absent"]
    /\ stage = [r \in Replicas |-> "down"]
    /\ step = [r \in Replicas |-> 1]
    /\ got = [r \in Replicas |-> "nothing"]
    /\ boot = [r \in Replicas |-> Unread]
    /\ lease = NoReplica
    /\ faults = 0

Fault == faults < MaxFaults /\ faults' = faults + 1

-------------------------------------------------------------------------------
(* One process *)

\* The process ends; what it knew is lost, and the Lease still names it.
Exit(r) ==
    /\ stage' = [stage EXCEPT ![r] = "down"]
    /\ step' = [step EXCEPT ![r] = 1]
    /\ got' = [got EXCEPT ![r] = "nothing"]
    /\ boot' = [boot EXCEPT ![r] = Unread]

\* A crash, or a request that fails during the start.
Crash(r) ==
    /\ stage[r] # "down"
    /\ Fault /\ Exit(r)
    /\ UNCHANGED <<stored, rbac, lease>>

Boot(r) ==
    /\ stage[r] = "down"
    /\ stage' = [stage EXCEPT ![r] = "config"]
    /\ UNCHANGED <<stored, rbac, step, got, boot, lease, faults>>

\* The bootstrap client asks the API server itself, not a cache.
ReadConfigMap(r) ==
    /\ stage[r] = "config"
    /\ stage' = [stage EXCEPT ![r] = "secret"]
    /\ boot' = [boot EXCEPT ![r].url = stored.url]
    /\ UNCHANGED <<stored, rbac, step, got, lease, faults>>

\* With an empty URL or token the process ends.
ReadSecret(r) ==
    /\ stage[r] = "secret"
    /\ IF {boot[r].url, stored.token} \cap Blank # {} THEN Exit(r)
       ELSE /\ stage' = [stage EXCEPT ![r] = "rbac"]
            /\ boot' = [boot EXCEPT ![r].token = stored.token]
            /\ UNCHANGED <<step, got>>
    /\ UNCHANGED <<stored, rbac, lease, faults>>

\* CreateOrUpdate, first half: Get.
GetObject(r) ==
    /\ stage[r] = "rbac" /\ got[r] = "nothing"
    /\ got' = [got EXCEPT ![r] = rbac[Objects[step[r]]]]
    /\ UNCHANGED <<stored, rbac, stage, step, boot, lease, faults>>

\* Another process that read the object before this write holds an old resourceVersion.
Outdated(o) ==
    [r \in Replicas |->
        IF got[r] # "nothing" /\ Objects[step[r]] = o THEN "stale" ELSE got[r]]

NextObjectOrMore(r) ==                          \* mutant: one object too many
    IF step[r] > Len(Objects)
    THEN stage' = [stage EXCEPT ![r] = "standby"] /\ step' = [step EXCEPT ![r] = 1]
    ELSE step' = [step EXCEPT ![r] = @ + 1] /\ UNCHANGED stage

\* The step after the last object: the controllers are set up and the manager started.
NextObject(r) ==
    IF step[r] = Len(Objects)
    THEN stage' = [stage EXCEPT ![r] = "standby"] /\ step' = [step EXCEPT ![r] = 1]
    ELSE step' = [step EXCEPT ![r] = @ + 1] /\ UNCHANGED stage

CreateOnly(r) ==                                \* mutant: Create, without Get
    LET o == Objects[step[r]]
    IN  /\ stage[r] = "rbac" /\ got[r] # "nothing"
        /\ IF rbac[o] = "absent"
           THEN /\ rbac' = [rbac EXCEPT ![o] = "asWanted"]
                /\ got' = [Outdated(o) EXCEPT ![r] = "nothing"]
                /\ NextObject(r) /\ UNCHANGED boot
           ELSE Exit(r) /\ UNCHANGED rbac
        /\ UNCHANGED <<stored, lease, faults>>

\* Second half: Create what is absent, Update what differs; AlreadyExists and Conflict,
\* like any other error, end the process.
PutObject(r) ==
    LET o == Objects[step[r]]
    IN  /\ stage[r] = "rbac" /\ got[r] # "nothing"
        /\ \/ /\ got[r] \in {"absent", "edited"}
              /\ rbac' = [rbac EXCEPT ![o] = "asWanted"]
              /\ got' = [Outdated(o) EXCEPT ![r] = "nothing"]
              /\ NextObject(r) /\ UNCHANGED boot
           \/ /\ got[r] = "asWanted"
              /\ got' = [got EXCEPT ![r] = "nothing"]
              /\ NextObject(r) /\ UNCHANGED <<rbac, boot>>
           \/ got[r] = "stale" /\ Exit(r) /\ UNCHANGED rbac
        /\ UNCHANGED <<stored, lease, faults>>

-------------------------------------------------------------------------------
(* The lease, and what the operator does not decide *)

\* A process that restarts has a new identity: it waits for its old lease to expire.
Expire ==
    /\ lease # NoReplica /\ stage[lease] # "leading"
    /\ lease' = NoReplica
    /\ UNCHANGED <<stored, rbac, processVars, faults>>

EditObject(o) ==
    /\ Fault /\ rbac[o] # "absent"
    /\ rbac' = [rbac EXCEPT ![o] = "edited"]
    /\ got' = Outdated(o)
    /\ UNCHANGED <<stored, stage, step, boot, lease>>

\* An administrator edits the ConfigMap or the Secret.
Rotate ==
    /\ \E k \in {"url", "token"} : stored[k] < MaxVersion
                                   /\ stored' = [stored EXCEPT ![k] = @ + 1]
    /\ UNCHANGED <<rbac, processVars, lease, faults>>
=============================================================================

---------------------------- MODULE ConfigReload ----------------------------
(***************************************************************************)
(* Configuration at run time (internal/config): each process has informers *)
(* for the ConfigMap and the Secret, and the leader's config controller    *)
(* rebuilds the Netbox client in the NetboxHolder from both.  The two      *)
(* informers are independent and the controller reads them one after the   *)
(* other.  The machinecfg Jobs get the URL and the token of the process's  *)
(* start (main.go), not those of the holder.                               *)
(***************************************************************************)
EXTENDS Startup

VARIABLES
    seen,       \* seen[r]: the informers' copies of the two values
    event,      \* is the config controller's one request in its queue?
    reading,    \* the URLs its reconciliations under way have read: one at most
    client,     \* the URL and token of the client in the holder
    job         \* the last Job: did it get the values the client has, or others?

reloadVars == <<seen, event, reading, client>>
vars == <<stored, rbac, stage, step, got, boot, lease, faults, seen, event, reading,
          client, job>>

\* The type invariant: every variable holds what its declaration says.
ReloadTypeOK ==
    /\ StartTypeOK
    /\ seen \in [Replicas -> Config] /\ client \in [Replicas -> Config]
    /\ event \in [Replicas -> BOOLEAN] /\ reading \in [Replicas -> SUBSET Version]
    /\ job \in {"none", "asClient", "other"}

Init ==
    /\ StartInit
    /\ seen = [r \in Replicas |-> Unread]
    /\ event = [r \in Replicas |-> FALSE]
    /\ reading = [r \in Replicas |-> {}]
    /\ client = [r \in Replicas |-> Unread]
    /\ job = "none"

\* The NetboxHolder of process r, behind its lock.
Get(r) == client[r]
Set(r, c) == client' = [client EXCEPT ![r] = c]

\* What a step of the start that may end the process leaves behind.
Forget(r) ==
    /\ seen' = [seen EXCEPT ![r] = Unread]
    /\ event' = [event EXCEPT ![r] = FALSE]
    /\ reading' = [reading EXCEPT ![r] = {}]
    /\ Set(r, Unread)

StartStep(r) ==
    /\ Boot(r) \/ ReadConfigMap(r) \/ ReadSecret(r) \/ GetObject(r)
    /\ UNCHANGED <<reloadVars, job>>

\* The manager starts: the holder has the client of main.go.  What the informers will
\* have listed when the controllers start may be as old as this.
Put(r) ==
    /\ PutObject(r)
    /\ IF stage'[r] = "standby"
       THEN /\ Set(r, boot[r])
            /\ seen' = [seen EXCEPT ![r] = stored]
            /\ UNCHANGED <<event, reading>>
       ELSE UNCHANGED reloadVars
    /\ UNCHANGED job

Die(r) == Crash(r) /\ Forget(r) /\ UNCHANGED job

NotElected(r) ==                                \* mutant: no initial events
    /\ stage[r] = "standby" /\ lease = NoReplica
    /\ stage' = [stage EXCEPT ![r] = "leading"]
    /\ lease' = r
    /\ UNCHANGED <<stored, rbac, step, got, boot, faults, reloadVars, job>>

\* The controllers start; each informer delivers what it has as Create events.
Elect(r) ==
    /\ stage[r] = "standby" /\ lease = NoReplica
    /\ stage' = [stage EXCEPT ![r] = "leading"]
    /\ lease' = r
    /\ event' = [event EXCEPT ![r] = TRUE]
    /\ UNCHANGED <<stored, rbac, step, got, boot, faults, seen, reading, client, job>>

WatchURLOnly(r) ==                              \* mutant: the Secret is not watched
    /\ stage[r] \in {"standby", "leading"}
    /\ \E k \in {"url", "token"} :
          /\ seen[r][k] # stored[k]
          /\ seen' = [seen EXCEPT ![r][k] = stored[k]]
          /\ event' = [event EXCEPT ![r] = @ \/ (stage[r] = "leading" /\ k = "url")]
    /\ UNCHANGED <<stored, rbac, processVars, lease, faults, reading, client, job>>

(***************************************************************************)
(* An informer catches up.  Both watches enqueue the same request, so one  *)
(* reconciliation runs at a time.                                          *)
(***************************************************************************)
Watch(r) ==
    /\ stage[r] \in {"standby", "leading"}
    /\ \E k \in {"url", "token"} :
          /\ seen[r][k] # stored[k]
          /\ seen' = [seen EXCEPT ![r][k] = stored[k]]
          /\ event' = [event EXCEPT ![r] = @ \/ stage[r] = "leading"]
    /\ UNCHANGED <<stored, rbac, processVars, lease, faults, reading, client, job>>

ConcurrentReload(r) ==                          \* mutant: a second worker, own requests
    /\ stage[r] = "leading" /\ event[r]
    /\ event' = [event EXCEPT ![r] = FALSE]
    /\ reading' = [reading EXCEPT ![r] = @ \cup {seen[r].url}]
    /\ UNCHANGED <<stored, rbac, processVars, lease, faults, seen, client, job>>

\* Reconcile, first half: the ConfigMap.
BeginReload(r) ==
    /\ stage[r] = "leading" /\ event[r] /\ reading[r] = {}
    /\ event' = [event EXCEPT ![r] = FALSE]
    /\ reading' = [reading EXCEPT ![r] = {seen[r].url}]
    /\ UNCHANGED <<stored, rbac, processVars, lease, faults, seen, client, job>>

ReloadUnchecked(r) ==                           \* mutant: empty values are taken
    /\ \E u \in reading[r] :
          /\ Set(r, [url |-> u, token |-> seen[r].token])
          /\ reading' = [reading EXCEPT ![r] = @ \ {u}]
    /\ UNCHANGED <<stored, rbac, processVars, lease, faults, seen, event, job>>

\* Second half: the Secret; an empty or missing value keeps the previous client.
EndReload(r) ==
    /\ \E u \in reading[r] :
          /\ IF {u, seen[r].token} \cap Blank = {}
             THEN Set(r, [url |-> u, token |-> seen[r].token])
             ELSE UNCHANGED client
          /\ reading' = [reading EXCEPT ![r] = @ \ {u}]
    /\ UNCHANGED <<stored, rbac, processVars, lease, faults, seen, event, job>>

\* ClusterClaim and ServerClaim create their machinecfg Jobs with NetboxURL and
\* NetboxToken of the reconciler, set once by main.go.
CreateJob(r) ==
    /\ stage[r] = "leading"
    /\ job' = IF boot[r] = Get(r) THEN "asClient" ELSE "other"
    /\ UNCHANGED <<stored, rbac, processVars, lease, faults, reloadVars>>

Next ==
    \/ \E r \in Replicas :
          \/ StartStep(r) \/ Put(r) \/ Die(r) \/ Elect(r)
          \/ Watch(r) \/ BeginReload(r) \/ EndReload(r) \/ CreateJob(r)
    \/ Expire /\ UNCHANGED <<reloadVars, job>>
    \/ \E o \in DOMAIN rbac : EditObject(o) /\ UNCHANGED <<reloadVars, job>>
    \/ Rotate /\ UNCHANGED <<reloadVars, job>>

Spec == Init /\ [][Next]_vars

(***************************************************************************)
(* Kubernetes starts the pod again, a running process goes on, the lease   *)
(* of a dead process expires, and the watches deliver.  Nothing obliges a  *)
(* fault, an edit or a claim.                                              *)
(***************************************************************************)
Fairness ==
    /\ \A r \in Replicas : /\ WF_vars(StartStep(r)) /\ WF_vars(Put(r))
                           /\ WF_vars(Watch(r)) /\ WF_vars(BeginReload(r))
                           /\ WF_vars(EndReload(r))
    /\ WF_vars(\E r \in Replicas : Elect(r))
    /\ WF_vars(Expire /\ UNCHANGED <<reloadVars, job>>)

FairSpec == Spec /\ Fairness

-------------------------------------------------------------------------------
(* Properties *)

Leading == {r \in Replicas : stage[r] = "leading"}

\* Controllers run in one process at a time, and only once the RBAC objects exist; a
\* binding never exists before its role, whichever of two starting processes wrote it.
SetUpBeforeServing ==
    /\ \A r \in Leading : lease = r /\ \A o \in DOMAIN rbac : rbac[o] # "absent"
    /\ rbac["admins"] # "absent" => rbac["admin"] # "absent"
    /\ rbac["catalog-readers"] # "absent" => rbac["catalog-reader"] # "absent"

Usable(c) == {c.url, c.token} \cap (Blank \cup {0}) = {}

\* A client that is in use was never built from an empty URL or token, at the start or
\* by a reload, however the two values are edited.
ClientUsable ==
    \A r \in Replicas : stage[r] \in {"standby", "leading"} => Usable(client[r])

Newer(old, new) == old.url <= new.url /\ old.token <= new.token

\* As long as a process lives its client never goes back to an older URL or token:
\* not by a torn read, not by an event that arrives late.
ClientMonotone ==
    [][\A r \in Replicas : (client[r] # Unread /\ client'[r] # Unread) =>
          Newer(client[r], client'[r])]_vars

\* "Reconcilers call Get() on every reconcile pass so that hot-reloads take effect
\* without restarting" (holder.go:14): the edits are few, so in the end the two values
\* rest; if they are usable the leader's client has them, whatever was missed while it
\* was in standby and whichever watch was late.
ReloadTakesHold ==
    \A r \in Replicas :
        []<>(stage[r] = "leading" /\ Usable(stored) => client[r] = stored)

\* Two processes that race for the RBAC objects may end each other's start, but some
\* process leads in the end, as long as URL and token are not empty.
SomeoneLeads ==
    []<>(Leading # {} \/ {stored.url, stored.token} \cap Blank # {})

-------------------------------------------------------------------------------
\* README.md: "Both are watched at runtime; changes are applied without restarting the
\* Pod": a Job is given the values the client has.
JobsFollowClient == job # "other"
=============================================================================

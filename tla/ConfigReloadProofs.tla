------------------------- MODULE ConfigReloadProofs -------------------------
(***************************************************************************)
(* Theorems about ConfigReload, for every number of processes, versions    *)
(* and faults: the client in use is usable and never goes back, and the    *)
(* controllers run in one process, after the RBAC objects exist.           *)
(***************************************************************************)
EXTENDS ConfigReload, TLAPS

Running == {"standby", "leading"}
Object(r) == Objects[step[r]]

-------------------------------------------------------------------------------
(* The invariants *)

\* Before its manager runs a process has no client; boot grows field by field.
BootInv ==
    /\ stored.url > 0 /\ stored.token > 0 /\ Newer(Unread, stored)
    /\ \A r \in Replicas :
          /\ Newer(boot[r], stored)
          /\ stage[r] = "secret" => boot[r].url > 0
          /\ stage[r] \in Running \cup {"rbac"} => Usable(boot[r])
          /\ stage[r] \notin Running =>
                client[r] = Unread /\ seen[r] = Unread /\ reading[r] = {}

\* Along the way of a value through a process it only gets older: the API server, the
\* informer's copy, what a reconciliation under way has read, the client.
FlowInv ==
    \A r \in Replicas :
        /\ Newer(seen[r], stored)
        /\ Newer(client[r], seen[r])
        /\ \A u \in reading[r] : client[r].url <= u /\ u <= seen[r].url /\ u > 0
        /\ \A u, v \in reading[r] : u = v
        /\ stage[r] \in Running => seen[r].url > 0 /\ seen[r].token > 0

\* A process that is past an RBAC object has seen it, and no object goes away.
SetUpInv ==
    \A r \in Replicas :
        /\ stage[r] \in Running \cup {"rbac"} =>
              \A i \in 1..4 : (i < step[r] \/ stage[r] \in Running)
                                  => rbac[Objects[i]] # "absent"
        /\ got[r] # "nothing" => stage[r] = "rbac"
        /\ stage[r] # "rbac" => step[r] = 1
        /\ got[r] \in {"asWanted", "edited"} => rbac[Object(r)] # "absent"
        /\ stage[r] = "leading" => lease = r

ValueInv == BootInv /\ FlowInv /\ ClientUsable

RolesFirst ==
    /\ rbac["admins"] # "absent" => rbac["admin"] # "absent"
    /\ rbac["catalog-readers"] # "absent" => rbac["catalog-reader"] # "absent"

OrderInv == SetUpInv /\ RolesFirst

-------------------------------------------------------------------------------
(* Types *)

Names == {"admin", "catalog-reader", "admins", "catalog-readers"}

\* Step i of a start is about the i-th of four different objects.
LEMMA FourObjects ==
    /\ Len(Objects) = 4
    /\ \A i \in 1..4 : Objects[i] \in Names
    /\ \A i, j \in 1..4 : Objects[i] = Objects[j] => i = j
    /\ \A o \in Names : \E i \in 1..4 : Objects[i] = o
BY DEF Objects, Names

LEMMA ConfigFields ==
    ASSUME NEW c \in Config
    PROVE  /\ c.url \in Version /\ c.token \in Version
           /\ c = [url |-> c.url, token |-> c.token]
           /\ \A v \in Version : /\ [c EXCEPT !.url = v] \in Config
                                 /\ [c EXCEPT !.token = v] \in Config
BY DEF Config

LEMMA UnreadType == Unread \in Config
BY StartupAssumption DEF Unread, Config, Version

LEMMA OutdatedType ==
    ASSUME StartTypeOK, NEW o
    PROVE  Outdated(o) \in [Replicas -> {"nothing", "absent", "asWanted", "edited", "stale"}]
BY DEF StartTypeOK, Outdated

LEMMA ExitType ==
    ASSUME StartTypeOK, NEW r \in Replicas, Exit(r), UNCHANGED <<stored, lease>>,
           rbac' = rbac, faults' \in 0..MaxFaults
    PROVE  StartTypeOK'
BY UnreadType DEF StartTypeOK, Exit

LEMMA NextObjectType ==
    ASSUME StartTypeOK, NEW r \in Replicas, NextObject(r)
    PROVE  /\ stage' \in [Replicas -> {"down", "config", "secret", "rbac", "standby", "leading"}]
           /\ step' \in [Replicas -> 1..4]
<1>1. step[r] \in 1..4 /\ (step[r] # 4 => step[r] + 1 \in 1..4)
  BY DEF StartTypeOK
<1>2. QED
  BY <1>1, FourObjects DEF StartTypeOK, NextObject

LEMMA StartStepType ==
    ASSUME StartTypeOK, NEW r \in Replicas,
           Boot(r) \/ ReadConfigMap(r) \/ ReadSecret(r) \/ GetObject(r) \/ PutObject(r)
           \/ Crash(r)
    PROVE  StartTypeOK'
<1>1. CASE Boot(r)
  BY <1>1 DEF StartTypeOK, Boot
<1>2. CASE ReadConfigMap(r)
  <2>1. [boot[r] EXCEPT !.url = stored.url] \in Config
    BY ConfigFields DEF StartTypeOK
  <2>2. boot' \in [Replicas -> Config]
    BY <1>2, <2>1 DEF StartTypeOK, ReadConfigMap
  <2>3. QED
    BY <1>2, <2>2 DEF StartTypeOK, ReadConfigMap
<1>3. CASE ReadSecret(r)
  <2>1. CASE Exit(r)
    BY <1>3, <2>1, ExitType DEF ReadSecret, StartTypeOK
  <2>2. CASE ~Exit(r)
    <3>1. [boot[r] EXCEPT !.token = stored.token] \in Config
      BY ConfigFields DEF StartTypeOK
    <3>2. boot' \in [Replicas -> Config]
      BY <1>3, <2>2, <3>1 DEF StartTypeOK, ReadSecret
    <3>3. QED
      BY <1>3, <2>2, <3>2 DEF StartTypeOK, ReadSecret
  <2>3. QED
    BY <2>1, <2>2
<1>4. CASE GetObject(r)
  <2>1. rbac[Objects[step[r]]] \in {"absent", "asWanted", "edited"}
    BY FourObjects DEF StartTypeOK, Names
  <2>2. QED
    BY <1>4, <2>1 DEF StartTypeOK, GetObject
<1>5. CASE PutObject(r)
  <2> DEFINE o == Objects[step[r]]
  <2>1. o \in Names
    BY FourObjects DEF StartTypeOK
  <2>2. CASE /\ rbac' = [rbac EXCEPT ![o] = "asWanted"]
             /\ got' = [Outdated(o) EXCEPT ![r] = "nothing"]
             /\ NextObject(r) /\ UNCHANGED boot
    <3> HIDE DEF o
    <3>1. rbac' \in [Names -> {"absent", "asWanted", "edited"}]
      BY <2>1, <2>2 DEF StartTypeOK, Names
    <3>2. QED
      BY <1>5, <2>2, <3>1, OutdatedType, NextObjectType DEF StartTypeOK, PutObject, Names
  <2>3. CASE got' = [got EXCEPT ![r] = "nothing"] /\ NextObject(r) /\ UNCHANGED <<rbac, boot>>
    BY <1>5, <2>3, NextObjectType DEF StartTypeOK, PutObject
  <2>4. CASE Exit(r) /\ UNCHANGED rbac
    BY <1>5, <2>4, ExitType DEF StartTypeOK, PutObject
  <2>5. QED
    BY <1>5, <2>2, <2>3, <2>4 DEF PutObject
<1>6. CASE Crash(r)
  <2>1. faults' \in 0..MaxFaults
    BY <1>6, StartupAssumption DEF Crash, Fault, StartTypeOK
  <2>2. QED
    BY <1>6, <2>1, ExitType DEF Crash
<1>7. QED
  BY <1>1, <1>2, <1>3, <1>4, <1>5, <1>6

LEMMA SeenEvent ==
    ASSUME ReloadTypeOK, NEW r \in Replicas, Watch(r)
    PROVE  /\ seen' \in [Replicas -> Config] /\ event' \in [Replicas -> BOOLEAN]
           /\ \E k \in {"url", "token"} : seen' = [seen EXCEPT ![r][k] = stored[k]]
<1> USE DEF ReloadTypeOK, StartTypeOK
<1>1. PICK k \in {"url", "token"} :
          /\ seen' = [seen EXCEPT ![r][k] = stored[k]]
          /\ event' = [event EXCEPT ![r] = @ \/ stage[r] = "leading"]
  BY DEF Watch
<1>2. [seen[r] EXCEPT !.url = stored.url] \in Config /\ [seen[r] EXCEPT !.token = stored.token] \in Config
  BY ConfigFields
<1>3. seen' \in [Replicas -> Config]
  <2>1. CASE k = "url"
    BY <1>1, <1>2, <2>1
  <2>2. CASE k = "token"
    BY <1>1, <1>2, <2>2
  <2>3. QED
    BY <2>1, <2>2
<1>4. event' \in [Replicas -> BOOLEAN]
  BY <1>1
<1>5. QED
  BY <1>1, <1>3, <1>4

LEMMA InitType == Init => ReloadTypeOK
BY StartupAssumption, UnreadType DEF Init, StartInit, ReloadTypeOK, StartTypeOK, Config, Version

LEMMA RotateType == ASSUME StartTypeOK, Rotate PROVE StartTypeOK'
<1>1. PICK k \in {"url", "token"} : stored[k] < MaxVersion /\ stored' = [stored EXCEPT ![k] = @ + 1]
  BY DEF Rotate
<1>2. stored' \in Config
  <2>1. CASE k = "url"
    BY <1>1, <2>1, StartupAssumption DEF StartTypeOK, Config, Version
  <2>2. CASE k = "token"
    BY <1>1, <2>2, StartupAssumption DEF StartTypeOK, Config, Version
  <2>3. QED
    BY <2>1, <2>2
<1>3. QED
  BY <1>2 DEF Rotate, processVars, StartTypeOK

LEMMA EditObjectType ==
    ASSUME StartTypeOK, NEW o \in DOMAIN rbac, EditObject(o)
    PROVE  StartTypeOK'
<1>1. o \in Names /\ rbac' = [rbac EXCEPT ![o] = "edited"]
  BY DEF StartTypeOK, Names, EditObject
<1>2. rbac' \in [Names -> {"absent", "asWanted", "edited"}]
  BY <1>1 DEF StartTypeOK, Names
<1>3. faults' \in 0..MaxFaults
  BY StartupAssumption DEF EditObject, Fault, StartTypeOK
<1>4. QED
  BY <1>2, <1>3, OutdatedType DEF StartTypeOK, EditObject, Names

LEMMA NextType == ReloadTypeOK /\ [Next]_vars => ReloadTypeOK'
<1> SUFFICES ASSUME ReloadTypeOK, [Next]_vars PROVE ReloadTypeOK'
  OBVIOUS
<1>1. ASSUME NEW r \in Replicas, StartStep(r) PROVE ReloadTypeOK'
  BY <1>1, StartStepType DEF StartStep, reloadVars, ReloadTypeOK
<1>2. ASSUME NEW r \in Replicas, Put(r) PROVE ReloadTypeOK'
  <2>1. StartTypeOK'
    BY <1>2, StartStepType DEF Put, ReloadTypeOK
  <2>2. boot[r] \in Config /\ stored \in Config
    BY DEF ReloadTypeOK, StartTypeOK
  <2>3. QED
    BY <1>2, <2>1, <2>2 DEF Put, Set, reloadVars, ReloadTypeOK
<1>3. ASSUME NEW r \in Replicas, Die(r) PROVE ReloadTypeOK'
  BY <1>3, StartStepType, UnreadType DEF Die, Forget, Set, ReloadTypeOK
<1>4. ASSUME NEW r \in Replicas, Elect(r) PROVE ReloadTypeOK'
  BY <1>4 DEF Elect, ReloadTypeOK, StartTypeOK
<1>5. ASSUME NEW r \in Replicas, Watch(r) PROVE ReloadTypeOK'
  BY <1>5, SeenEvent DEF Watch, processVars, ReloadTypeOK, StartTypeOK
<1>6. ASSUME NEW r \in Replicas, BeginReload(r) PROVE ReloadTypeOK'
  <2>1. {seen[r].url} \in SUBSET Version
    BY ConfigFields DEF ReloadTypeOK
  <2>2. QED
    BY <1>6, <2>1 DEF BeginReload, processVars, ReloadTypeOK, StartTypeOK
<1>7. ASSUME NEW r \in Replicas, EndReload(r) PROVE ReloadTypeOK'
  <2>1. PICK u \in reading[r] :
            /\ client' = [client EXCEPT ![r] = [url |-> u, token |-> seen[r].token]]
               \/ UNCHANGED client
            /\ reading' = [reading EXCEPT ![r] = @ \ {u}]
    BY <1>7 DEF EndReload, Set
  <2>2. [url |-> u, token |-> seen[r].token] \in Config
    BY ConfigFields DEF ReloadTypeOK, Config
  <2>3. QED
    BY <1>7, <2>1, <2>2 DEF EndReload, processVars, ReloadTypeOK, StartTypeOK
<1>8. ASSUME NEW r \in Replicas, CreateJob(r) PROVE ReloadTypeOK'
  BY <1>8 DEF CreateJob, processVars, reloadVars, ReloadTypeOK, StartTypeOK
<1>9. CASE Expire /\ UNCHANGED <<reloadVars, job>>
  BY <1>9 DEF Expire, processVars, reloadVars, ReloadTypeOK, StartTypeOK
<1>10. ASSUME NEW o \in DOMAIN rbac, EditObject(o) /\ UNCHANGED <<reloadVars, job>>
       PROVE  ReloadTypeOK'
  BY <1>10, EditObjectType DEF reloadVars, ReloadTypeOK
<1>11. CASE Rotate /\ UNCHANGED <<reloadVars, job>>
  BY <1>11, RotateType DEF reloadVars, ReloadTypeOK
<1>12. CASE UNCHANGED vars
  BY <1>12 DEF vars, ReloadTypeOK, StartTypeOK
<1>13. QED
  BY <1>1, <1>2, <1>3, <1>4, <1>5, <1>6, <1>7, <1>8, <1>9, <1>10, <1>11, <1>12 DEF Next

\* Every variable of ConfigReload and Startup keeps its type.
THEOREM ReloadTypeCorrect == Spec => []ReloadTypeOK
BY InitType, NextType, PTL DEF Spec

-------------------------------------------------------------------------------
(* The way of a value from the API server to the client *)

LEMMA Numbers ==
    ASSUME ReloadTypeOK
    PROVE  /\ stored.url \in Nat /\ stored.token \in Nat
           /\ \A r \in Replicas : /\ boot[r].url \in Nat /\ boot[r].token \in Nat
                                  /\ seen[r].url \in Nat /\ seen[r].token \in Nat
                                  /\ client[r].url \in Nat /\ client[r].token \in Nat
                                  /\ reading[r] \subseteq Nat
BY StartupAssumption DEF ReloadTypeOK, StartTypeOK, Config, Version

LEMMA ValueInit == Init => ValueInv
BY DEF Init, StartInit, ValueInv, BootInv, FlowInv, ClientUsable, Newer, Unread, Running

\* A process that ends forgets all it has.
LEMMA ExitValue ==
    ASSUME ReloadTypeOK, ValueInv, NEW r \in Replicas, Exit(r), Forget(r), UNCHANGED stored
    PROVE  ValueInv'
<1> USE Numbers DEF ReloadTypeOK, StartTypeOK, Exit, Forget, Set, Unread, Newer, Running
<1>1. BootInv'
  BY DEF ValueInv, BootInv
<1>2. FlowInv'
  BY DEF ValueInv, FlowInv, BootInv
<1>3. ClientUsable'
  BY DEF ValueInv, ClientUsable
<1>4. QED
  BY <1>1, <1>2, <1>3 DEF ValueInv

\* A process that is starting, and stays so or ends, has no client to spoil.
LEMMA StartStepValue ==
    ASSUME ReloadTypeOK, ValueInv, NEW r \in Replicas, StartStep(r)
    PROVE  ValueInv'
<1> USE Numbers DEF ReloadTypeOK, StartTypeOK, Unread, Newer, Running, reloadVars
<1>1. CASE Boot(r) \/ GetObject(r)
  BY <1>1 DEF StartStep, Boot, GetObject, ValueInv, BootInv, FlowInv, ClientUsable
<1>2. CASE ReadConfigMap(r)
  BY <1>2 DEF StartStep, ReadConfigMap, ValueInv, BootInv, FlowInv, ClientUsable
<1>3. CASE ReadSecret(r)
  <2>1. CASE Exit(r)
    BY <1>3, <2>1 DEF StartStep, ReadSecret, Exit, ValueInv, BootInv, FlowInv, ClientUsable
  <2>2. CASE ~Exit(r)
    <3>1. /\ {boot[r].url, stored.token} \cap Blank = {}
          /\ stage[r] = "secret" /\ stage' = [stage EXCEPT ![r] = "rbac"]
          /\ boot' = [boot EXCEPT ![r].token = stored.token]
          /\ UNCHANGED <<stored, reloadVars>>
      BY <1>3, <2>2 DEF StartStep, ReadSecret
    <3>2. /\ boot'[r].url = boot[r].url /\ boot'[r].token = stored.token
          /\ \A q \in Replicas \ {r} : boot'[q] = boot[q]
      BY <3>1 DEF Config
    <3>3. Usable(boot'[r]) /\ Newer(boot'[r], stored)
      BY <3>1, <3>2 DEF Usable, ValueInv, BootInv
    <3>4. BootInv'
      BY <3>1, <3>2, <3>3 DEF ValueInv, BootInv
    <3>5. FlowInv' /\ ClientUsable'
      BY <3>1 DEF ValueInv, FlowInv, ClientUsable
    <3>6. QED
      BY <3>4, <3>5 DEF ValueInv
  <2>3. QED
    BY <2>1, <2>2
<1>4. QED
  BY <1>1, <1>2, <1>3 DEF StartStep

\* A step of one process about its informers and its client, which does not end it.
LEMMA RunningValue ==
    ASSUME ReloadTypeOK, ValueInv, NEW r \in Replicas,
           UNCHANGED <<stored, boot>>, \A q \in Replicas \ {r} : stage'[q] = stage[q],
           stage[r] \in Running \cup {"rbac"}, stage'[r] \in Running,
           \A q \in Replicas \ {r} : seen'[q] = seen[q] /\ client'[q] = client[q]
                                     /\ reading'[q] = reading[q],
           Newer(seen'[r], stored), Newer(client'[r], seen'[r]), Usable(client'[r]),
           \A u \in reading'[r] : client'[r].url <= u /\ u <= seen'[r].url /\ u > 0,
           \A u, v \in reading'[r] : u = v,
           seen'[r].url > 0 /\ seen'[r].token > 0
    PROVE  ValueInv'
<1> USE DEF Running
<1>1. BootInv'
  BY DEF ValueInv, BootInv
<1>2. FlowInv'
  BY DEF ValueInv, FlowInv
<1>3. ClientUsable'
  BY DEF ValueInv, ClientUsable
<1>4. QED
  BY <1>1, <1>2, <1>3 DEF ValueInv

LEMMA PutValue ==
    ASSUME ReloadTypeOK, ValueInv, NEW r \in Replicas, Put(r)
    PROVE  ValueInv'
<1> USE DEF ReloadTypeOK, StartTypeOK
<1>1. /\ stage[r] = "rbac" /\ UNCHANGED stored
      /\ \/ Exit(r)
         \/ UNCHANGED boot /\ (stage' = [stage EXCEPT ![r] = "standby"] \/ UNCHANGED stage)
  BY DEF Put, PutObject, NextObject
<1>2. CASE Exit(r)
  <2>1. stage'[r] = "down" /\ UNCHANGED reloadVars
    BY <1>2 DEF Put, Exit
  <2>2. QED
    BY <1>1, <1>2, <2>1, Numbers
       DEF Exit, reloadVars, ValueInv, BootInv, FlowInv, ClientUsable, Newer, Unread, Running
<1>3. CASE UNCHANGED <<boot, stage>>
  <2>1. UNCHANGED reloadVars
    BY <1>1, <1>3 DEF Put
  <2>2. QED
    BY <1>1, <1>3, <2>1 DEF reloadVars, ValueInv, BootInv, FlowInv, ClientUsable
<1>4. CASE UNCHANGED boot /\ stage' = [stage EXCEPT ![r] = "standby"]
  <2>1. /\ client' = [client EXCEPT ![r] = boot[r]] /\ seen' = [seen EXCEPT ![r] = stored]
        /\ UNCHANGED reading
    BY <1>4 DEF Put, Set
  <2>2. Newer(boot[r], stored) /\ Usable(boot[r]) /\ reading[r] = {} /\ Newer(stored, stored)
    BY <1>1, Numbers DEF ValueInv, BootInv, Newer, Running
  <2>3. stored.url > 0 /\ stored.token > 0
    BY DEF ValueInv, BootInv
  <2>4. QED
    BY <1>1, <1>4, <2>1, <2>2, <2>3, RunningValue DEF Running
<1>5. QED
  BY <1>1, <1>2, <1>3, <1>4

LEMMA WatchValue ==
    ASSUME ReloadTypeOK, ValueInv, NEW r \in Replicas, Watch(r)
    PROVE  ValueInv'
<1> USE DEF ReloadTypeOK, StartTypeOK
<1>1. PICK k \in {"url", "token"} : seen' = [seen EXCEPT ![r][k] = stored[k]]
  BY DEF Watch
<1>2. /\ UNCHANGED <<stored, boot, stage, reading, client>> /\ stage[r] \in Running
  BY DEF Watch, processVars, Running
<1>3. /\ Newer(seen[r], stored) /\ Newer(client[r], seen[r])
      /\ \A u \in reading[r] : client[r].url <= u /\ u <= seen[r].url /\ u > 0
      /\ \A u, v \in reading[r] : u = v
      /\ seen[r].url > 0 /\ seen[r].token > 0 /\ Usable(client[r])
  BY <1>2 DEF ValueInv, FlowInv, ClientUsable, Running
<1>4. stored.url > 0 /\ stored.token > 0
  BY DEF ValueInv, BootInv
<1>5. /\ seen'[r] = IF k = "url" THEN [seen[r] EXCEPT !.url = stored.url]
                                 ELSE [seen[r] EXCEPT !.token = stored.token]
      /\ \A q \in Replicas \ {r} : seen'[q] = seen[q]
  BY <1>1
<1>6. \/ seen'[r].url = stored.url /\ seen'[r].token = seen[r].token
      \/ seen'[r].url = seen[r].url /\ seen'[r].token = stored.token
  BY <1>5 DEF Config
<1>7. /\ Newer(seen'[r], stored) /\ Newer(client[r], seen'[r])
      /\ \A u \in reading[r] : u <= seen'[r].url
      /\ seen'[r].url > 0 /\ seen'[r].token > 0
  BY <1>3, <1>4, <1>6, Numbers DEF Newer
<1>8. QED
  BY <1>2, <1>3, <1>5, <1>7, RunningValue

LEMMA ReloadValue ==
    ASSUME ReloadTypeOK, ValueInv, NEW r \in Replicas, BeginReload(r) \/ EndReload(r)
    PROVE  /\ ValueInv'
           /\ Newer(client[r], client'[r])
<1> USE DEF ReloadTypeOK, StartTypeOK
<1>1. UNCHANGED <<stored, boot, stage, seen>>
  BY DEF BeginReload, EndReload, processVars
<1>2. stage[r] \in Running
  <2>1. CASE BeginReload(r)
    BY <2>1 DEF BeginReload, Running
  <2>2. CASE EndReload(r)
    BY <2>2 DEF EndReload, ValueInv, BootInv
  <2>3. QED
    BY <2>1, <2>2
<1>3. /\ Newer(seen[r], stored) /\ Newer(client[r], seen[r])
      /\ \A u \in reading[r] : client[r].url <= u /\ u <= seen[r].url /\ u > 0
      /\ \A u, v \in reading[r] : u = v
      /\ seen[r].url > 0 /\ seen[r].token > 0 /\ Usable(client[r])
  BY <1>2 DEF ValueInv, FlowInv, ClientUsable, Running
<1>4. CASE BeginReload(r)
  <2>1. /\ reading' = [reading EXCEPT ![r] = {seen[r].url}] /\ UNCHANGED client
    BY <1>4 DEF BeginReload
  <2>2. client[r].url <= seen[r].url /\ Newer(client[r], client[r])
    BY <1>3, Numbers DEF Newer
  <2>3. \A u \in reading'[r] : u = seen[r].url
    BY <2>1
  <2>4. seen[r].url <= seen[r].url
    BY Numbers
  <2>5. QED
    BY <1>1, <1>2, <1>3, <2>1, <2>2, <2>3, <2>4, RunningValue
<1>5. CASE EndReload(r)
  <2>1. PICK u \in reading[r] :
            /\ \/ /\ client' = [client EXCEPT ![r] = [url |-> u, token |-> seen[r].token]]
                  /\ {u, seen[r].token} \cap Blank = {}
               \/ UNCHANGED client
            /\ reading' = [reading EXCEPT ![r] = @ \ {u}]
    BY <1>5 DEF EndReload, Set
  <2>2. reading'[r] = {} /\ \A q \in Replicas \ {r} : reading'[q] = reading[q]
    BY <1>3, <2>1
  <2>3. CASE UNCHANGED client
    BY <1>1, <1>2, <1>3, <2>2, <2>3, RunningValue, Numbers DEF Newer
  <2>4. CASE /\ client' = [client EXCEPT ![r] = [url |-> u, token |-> seen[r].token]]
             /\ {u, seen[r].token} \cap Blank = {}
    <3>1. client'[r].url = u /\ client'[r].token = seen[r].token
      BY <2>4
    <3>2. u \in Nat /\ client[r].url <= u /\ u <= seen[r].url /\ u > 0
      BY <1>3, Numbers
    <3>3. Newer(client'[r], seen[r]) /\ Newer(client[r], client'[r])
      BY <1>3, <3>1, <3>2, Numbers DEF Newer
    <3>4. Usable(client'[r])
      BY <1>3, <2>4, <3>1, <3>2, Numbers DEF Usable
    <3>5. QED
      BY <1>1, <1>2, <1>3, <2>2, <2>4, <3>3, <3>4, RunningValue
  <2>5. QED
    BY <2>1, <2>3, <2>4
<1>6. QED
  BY <1>4, <1>5

LEMMA RotateValue ==
    ASSUME ReloadTypeOK, ValueInv, Rotate /\ UNCHANGED <<reloadVars, job>>
    PROVE  ValueInv'
<1> USE DEF ReloadTypeOK, StartTypeOK
<1>1. PICK k \in {"url", "token"} : stored' = [stored EXCEPT ![k] = @ + 1]
  BY DEF Rotate
<1>2. Newer(stored, stored') /\ stored'.url \in Nat /\ stored'.token \in Nat
  BY <1>1, Numbers DEF Newer, Config
<1>3. UNCHANGED <<stage, boot, seen, reading, client>>
  BY DEF Rotate, processVars, reloadVars
<1>4. \A c \in Config : Newer(c, stored) => Newer(c, stored')
  BY <1>2, Numbers, StartupAssumption DEF Newer, Config, Version
<1>5. stored'.url > 0 /\ stored'.token > 0 /\ Newer(Unread, stored')
  BY <1>2, Numbers DEF ValueInv, BootInv, Newer, Unread
<1>6. QED
  BY <1>3, <1>4, <1>5 DEF ValueInv, BootInv, FlowInv, ClientUsable

LEMMA ValueNext == ReloadTypeOK /\ ValueInv /\ [Next]_vars => ValueInv'
<1> SUFFICES ASSUME ReloadTypeOK, ValueInv, [Next]_vars PROVE ValueInv'
  OBVIOUS
<1>1. ASSUME NEW r \in Replicas, Die(r) PROVE ValueInv'
  BY <1>1, ExitValue DEF Die, Crash
<1>2. ASSUME NEW r \in Replicas, Elect(r) PROVE ValueInv'
  BY <1>2 DEF Elect, ReloadTypeOK, StartTypeOK, ValueInv, BootInv, FlowInv, ClientUsable, Running
<1>3. CASE \/ \E r \in Replicas : CreateJob(r)
           \/ Expire /\ UNCHANGED <<reloadVars, job>>
           \/ \E o \in DOMAIN rbac : EditObject(o) /\ UNCHANGED <<reloadVars, job>>
           \/ UNCHANGED vars
  BY <1>3 DEF CreateJob, Expire, EditObject, processVars, reloadVars, vars,
              ValueInv, BootInv, FlowInv, ClientUsable
<1>4. QED
  BY <1>1, <1>2, <1>3, StartStepValue, PutValue, WatchValue, ReloadValue, RotateValue DEF Next

LEMMA ValueInvariant == Spec => []ValueInv
BY ReloadTypeCorrect, ValueInit, ValueNext, PTL DEF Spec

\* No client is ever built from an empty URL or token, at the start or by a reload: what
\* ReadSecret checked is what Put installs, and EndReload checks both values it read.
THEOREM ClientAlwaysUsable == Spec => []ClientUsable
<1>1. ValueInv => ClientUsable
  BY DEF ValueInv
<1>2. QED
  BY <1>1, ValueInvariant, PTL

\* The client of a living process never goes back to an older URL or token: a reload under
\* way is the only one, and what it has read is no older than the client (FlowInv).
THEOREM ClientNeverGoesBack == Spec => ClientMonotone
<1> DEFINE Forward == \A r \in Replicas :
        (client[r] # Unread /\ client'[r] # Unread) => Newer(client[r], client'[r])
<1>1. ReloadTypeOK /\ ValueInv /\ [Next]_vars => Forward
  <2> SUFFICES ASSUME ReloadTypeOK, ValueInv, [Next]_vars PROVE Forward
    OBVIOUS
  <2> USE DEF ReloadTypeOK
  <2>1. \A r \in Replicas : Newer(client[r], client[r])
    BY Numbers DEF Newer
  <2>2. ASSUME NEW r \in Replicas, Put(r) PROVE Forward
    <3>1. client[r] = Unread
      BY <2>2 DEF Put, PutObject, ValueInv, BootInv, Running
    <3>2. \A q \in Replicas \ {r} : client'[q] = client[q]
      BY <2>2 DEF Put, Set, reloadVars
    <3>3. QED
      BY <2>1, <3>1, <3>2
  <2>3. ASSUME NEW r \in Replicas, Die(r) PROVE Forward
    BY <2>1, <2>3 DEF Die, Forget, Set
  <2>4. ASSUME NEW r \in Replicas, BeginReload(r) \/ EndReload(r) PROVE Forward
    <3>1. Newer(client[r], client'[r])
      BY <2>4, ReloadValue
    <3>2. \A q \in Replicas \ {r} : client'[q] = client[q]
      BY <2>4 DEF BeginReload, EndReload, Set
    <3>3. QED
      BY <2>1, <3>1, <3>2
  <2>5. CASE UNCHANGED client
    BY <2>1, <2>5
  <2>6. QED
    BY <2>2, <2>3, <2>4, <2>5
       DEF Next, StartStep, Elect, Watch, CreateJob, reloadVars, vars
<1>2. QED
  BY <1>1, ReloadTypeCorrect, ValueInvariant, PTL DEF Spec, ClientMonotone

-------------------------------------------------------------------------------
(* The start: RBAC objects in their order, then the lease *)

LEMMA OrderInit == Init => OrderInv
BY DEF Init, StartInit, OrderInv, SetUpInv, RolesFirst, Running

\* What a read that is still fresh after a write to o says, it said before, of another object.
LEMMA OutdatedEffect ==
    ASSUME NEW o, NEW r \in Replicas
    PROVE  /\ Outdated(o)[r] # "nothing" => got[r] # "nothing"
           /\ Outdated(o)[r] \in {"absent", "asWanted", "edited"} => Outdated(o)[r] = got[r]
BY DEF Outdated

\* No step removes an RBAC object, and a process other than r notices at most that what
\* it read is out of date.
OthersKeep(r) ==
    /\ \A o \in Names : rbac[o] # "absent" => rbac'[o] # "absent"
    /\ \A q \in Replicas \ {r} :
          /\ stage'[q] = stage[q] /\ step'[q] = step[q]
          /\ got'[q] # "nothing" => got[q] # "nothing"
          /\ got'[q] \in {"asWanted", "edited"} => got'[q] = got[q]
          /\ stage[q] = "leading" => lease' = lease

\* SetUpInv for process r alone.
SetUpOf(r) ==
    /\ stage[r] \in Running \cup {"rbac"} =>
          \A i \in 1..4 : (i < step[r] \/ stage[r] \in Running) => rbac[Objects[i]] # "absent"
    /\ got[r] # "nothing" => stage[r] = "rbac"
    /\ stage[r] # "rbac" => step[r] = 1
    /\ got[r] \in {"asWanted", "edited"} => rbac[Object(r)] # "absent"
    /\ stage[r] = "leading" => lease = r

LEMMA OthersSetUp ==
    ASSUME ReloadTypeOK, SetUpInv, NEW r \in Replicas, OthersKeep(r), SetUpOf(r)'
    PROVE  SetUpInv'
<1>1. ASSUME NEW q \in Replicas \ {r} PROVE SetUpOf(q)'
  BY FourObjects DEF ReloadTypeOK, StartTypeOK, SetUpInv, SetUpOf, OthersKeep, Object
<1>2. \A q \in Replicas : SetUpOf(q)'
  BY <1>1
<1>3. QED
  BY <1>2 DEF SetUpInv, SetUpOf

LEMMA ExitOrder ==
    ASSUME ReloadTypeOK, OrderInv, NEW r \in Replicas, Exit(r), UNCHANGED <<rbac, lease>>
    PROVE  OrderInv'
<1>1. OthersKeep(r)
  BY DEF ReloadTypeOK, StartTypeOK, Exit, OthersKeep
<1>2. SetUpOf(r)'
  BY DEF ReloadTypeOK, StartTypeOK, Exit, SetUpOf, Running
<1>3. QED
  BY <1>1, <1>2, OthersSetUp DEF OrderInv, RolesFirst

LEMMA StartStepOrder ==
    ASSUME ReloadTypeOK, OrderInv, NEW r \in Replicas,
           Boot(r) \/ ReadConfigMap(r) \/ ReadSecret(r) \/ GetObject(r)
    PROVE  OrderInv'
<1> USE DEF ReloadTypeOK, StartTypeOK
<1>0. SetUpOf(r) /\ step[r] \in 1..4
  BY DEF OrderInv, SetUpInv, SetUpOf
<1>1. CASE Exit(r)
  BY <1>1, ExitOrder DEF Exit, Boot, ReadConfigMap, ReadSecret, GetObject
<1>2. CASE ~Exit(r)
  <2>1. /\ UNCHANGED <<rbac, lease, step>> /\ stage[r] \notin Running
        /\ \A q \in Replicas \ {r} : stage'[q] = stage[q] /\ got'[q] = got[q]
    BY <1>2 DEF Boot, ReadConfigMap, ReadSecret, GetObject, Running
  <2>2. OthersKeep(r)
    BY <2>1 DEF OthersKeep
  <2>3. SetUpOf(r)'
    <3>1. CASE GetObject(r)
      BY <1>0, <3>1, FourObjects DEF GetObject, SetUpOf, Object, Running
    <3>2. CASE Boot(r) \/ ReadConfigMap(r) \/ ReadSecret(r)
      BY <1>0, <1>2, <3>2 DEF Boot, ReadConfigMap, ReadSecret, SetUpOf, Object, Running
    <3>3. QED
      BY <3>1, <3>2
  <2>4. QED
    BY <2>1, <2>2, <2>3, OthersSetUp DEF OrderInv, RolesFirst
<1>3. QED
  BY <1>1, <1>2

\* An object is there once its step is over: it was written, or was read and is still there.
\* Objects names the roles first, so the role of a binding is there before it.
LEMMA PutOrder ==
    ASSUME ReloadTypeOK, OrderInv, NEW r \in Replicas, PutObject(r)
    PROVE  OrderInv'
<1> USE DEF ReloadTypeOK, StartTypeOK
<1> DEFINE o == Objects[step[r]]
<1>0. /\ SetUpOf(r) /\ step[r] \in 1..4 /\ o \in Names
      /\ stage[r] = "rbac" /\ got[r] # "nothing" /\ UNCHANGED lease
  BY FourObjects DEF PutObject, OrderInv, SetUpInv, SetUpOf
<1>1. CASE Exit(r) /\ UNCHANGED rbac
  BY <1>0, <1>1, ExitOrder
<1>2. CASE \/ rbac' = [rbac EXCEPT ![o] = "asWanted"] /\ got' = [Outdated(o) EXCEPT ![r] = "nothing"]
           \/ got[r] = "asWanted" /\ UNCHANGED rbac /\ got' = [got EXCEPT ![r] = "nothing"]
      /\ NextObject(r)
  <2> HIDE DEF o
  <2>1. /\ got'[r] = "nothing" /\ rbac'[o] # "absent"
        /\ \A p \in Names \ {o} : rbac'[p] = rbac[p]
    <3>1. CASE rbac' = [rbac EXCEPT ![o] = "asWanted"] /\ got' = [Outdated(o) EXCEPT ![r] = "nothing"]
      BY <1>0, <3>1, OutdatedType DEF Names
    <3>2. CASE got[r] = "asWanted" /\ UNCHANGED rbac /\ got' = [got EXCEPT ![r] = "nothing"]
      BY <1>0, <3>2 DEF SetUpOf, Object, o
    <3>3. QED
      BY <1>2, <3>1, <3>2
  <2>2. \A q \in Replicas \ {r} :
            /\ got'[q] # "nothing" => got[q] # "nothing"
            /\ got'[q] \in {"asWanted", "edited"} => got'[q] = got[q]
    BY <1>2, OutdatedType, OutdatedEffect
  <2>3. \/ step[r] = 4 /\ stage' = [stage EXCEPT ![r] = "standby"] /\ step' = [step EXCEPT ![r] = 1]
        \/ step[r] # 4 /\ step' = [step EXCEPT ![r] = step[r] + 1] /\ UNCHANGED stage
    BY <1>2, FourObjects DEF NextObject
  <2>4. OthersKeep(r)
    BY <1>0, <2>1, <2>2, <2>3 DEF OthersKeep
  <2>5. \A i \in 1..4 : i <= step[r] => rbac'[Objects[i]] # "absent"
    BY <1>0, <2>1, FourObjects DEF SetUpOf, o
  <2>6. SetUpOf(r)'
    BY <1>0, <2>1, <2>3, <2>5 DEF SetUpOf, Running
  <2>7. RolesFirst'
    <3>1. /\ o = "admins" => rbac["admin"] # "absent"
          /\ o = "catalog-readers" => rbac["catalog-reader"] # "absent"
      BY <1>0 DEF SetUpOf, Objects, o
    <3>2. QED
      BY <2>1, <3>1 DEF OrderInv, RolesFirst, Names
  <2>8. QED
    BY <2>4, <2>6, <2>7, OthersSetUp DEF OrderInv
<1>3. QED
  BY <1>0, <1>1, <1>2 DEF PutObject

LEMMA EditOrder ==
    ASSUME ReloadTypeOK, OrderInv, NEW o \in DOMAIN rbac, EditObject(o)
    PROVE  OrderInv'
<1> USE DEF ReloadTypeOK, StartTypeOK
<1>1. /\ o \in Names /\ rbac[o] # "absent" /\ rbac' = [rbac EXCEPT ![o] = "edited"]
      /\ got' = Outdated(o) /\ UNCHANGED <<stage, step, lease>>
  BY DEF EditObject, Names
<1>2. \A p \in Names : rbac'[p] # "absent" <=> rbac[p] # "absent"
  BY <1>1 DEF Names
<1>3. \A r \in Replicas : OthersKeep(r)
  BY <1>1, <1>2, OutdatedEffect DEF OthersKeep
<1>4. ASSUME NEW r \in Replicas PROVE SetUpOf(r)'
  BY <1>1, <1>2, OutdatedEffect, FourObjects DEF OrderInv, SetUpInv, SetUpOf, Object
<1>5. QED
  BY <1>2, <1>4 DEF OrderInv, SetUpInv, SetUpOf, RolesFirst, Names

LEMMA OrderNext == ReloadTypeOK /\ OrderInv /\ [Next]_vars => OrderInv'
<1> SUFFICES ASSUME ReloadTypeOK, OrderInv, [Next]_vars PROVE OrderInv'
  OBVIOUS
<1>1. ASSUME NEW r \in Replicas, StartStep(r) PROVE OrderInv'
  BY <1>1, StartStepOrder DEF StartStep
<1>2. ASSUME NEW r \in Replicas, Put(r) PROVE OrderInv'
  BY <1>2, PutOrder DEF Put
<1>3. ASSUME NEW r \in Replicas, Die(r) PROVE OrderInv'
  BY <1>3, ExitOrder DEF Die, Crash
<1>4. ASSUME NEW r \in Replicas, Elect(r) PROVE OrderInv'
  \* Nobody leads while the lease is free.
  <2>1. OthersKeep(r)
    BY <1>4, StartupAssumption DEF Elect, ReloadTypeOK, StartTypeOK, OthersKeep, OrderInv, SetUpInv
  <2>2. SetUpOf(r)'
    BY <1>4 DEF Elect, ReloadTypeOK, StartTypeOK, OrderInv, SetUpInv, SetUpOf, Running, Object
  <2>3. QED
    BY <1>4, <2>1, <2>2, OthersSetUp DEF OrderInv, RolesFirst, Elect
<1>5. CASE Expire
  BY <1>5 DEF Expire, processVars, OrderInv, SetUpInv, RolesFirst, Object
<1>6. CASE \/ \E r \in Replicas : Watch(r) \/ BeginReload(r) \/ EndReload(r) \/ CreateJob(r)
           \/ Rotate \/ UNCHANGED vars
  BY <1>6 DEF Watch, BeginReload, EndReload, CreateJob, Rotate, processVars, vars,
              OrderInv, SetUpInv, RolesFirst, Object
<1>7. QED
  BY <1>1, <1>2, <1>3, <1>4, <1>5, <1>6, EditOrder DEF Next

\* Controllers run in one process at a time, which holds the lease, and after all the RBAC
\* objects exist: a starting process is past an object only if it wrote or saw it.
THEOREM SetUpFirst == Spec => []SetUpBeforeServing
<1>1. ReloadTypeOK /\ OrderInv => SetUpBeforeServing
  <2> SUFFICES ASSUME ReloadTypeOK, OrderInv PROVE SetUpBeforeServing
    OBVIOUS
  <2>1. DOMAIN rbac = Names
    BY DEF ReloadTypeOK, StartTypeOK, Names
  <2>2. ASSUME NEW r \in Leading PROVE lease = r /\ \A o \in Names : rbac[o] # "absent"
    BY FourObjects DEF Leading, OrderInv, SetUpInv, Running
  <2>3. QED
    BY <2>1, <2>2 DEF SetUpBeforeServing, OrderInv, RolesFirst
<1>2. QED
  BY <1>1, OrderInit, OrderNext, ReloadTypeCorrect, PTL DEF Spec
=============================================================================

\* Two processes start, race and take over from each other while URL and token are edited.
SPECIFICATION FairSpec
CONSTANTS
    Replicas = {r1, r2}
    NoReplica = NoReplica
    MaxVersion = 3
    Blank = {2}
    MaxFaults = 1
CHECK_DEADLOCK FALSE
INVARIANTS ReloadTypeOK SetUpBeforeServing ClientUsable
PROPERTIES ClientMonotone ReloadTakesHold SomeoneLeads

\* One process, one edit: a machinecfg Job gets the token of the start, not of the client.
SPECIFICATION Spec
CONSTANTS
    Replicas = {r1}
    NoReplica = NoReplica
    MaxVersion = 2
    Blank = {}
    MaxFaults = 0
CHECK_DEADLOCK FALSE
INVARIANT JobsFollowClient

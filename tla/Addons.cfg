\* Three components, one edit of the profile, two faults, one release that fails or goes.
SPECIFICATION FairSpec
CONSTANTS
    Components = {"cilium", "ingress", "rook"}
    Profiles <- MCProfiles
    MaxFaults = 2
    MaxEdits = 2
CHECK_DEADLOCK FALSE
INVARIANTS AddonsTypeOK RequiredWereReady InstallOrder
PROPERTY AddonsComplete

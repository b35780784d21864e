\* One SiteConfig that may be pointed to the other of two sites, five devices.
SPECIFICATION FairSpec
CONSTANTS
    Devices = {1, 2, 3, 4, 5}
    Sites = {"a", "b"}
    SiteOf <- MCSiteOf
    ModelOf <- MCModelOf
    TagsOf <- MCTagsOf
    MaxFaults = 2
    MaxEdits = 2
PROPERTIES SyncExact SitesUnmixed StatusFollows

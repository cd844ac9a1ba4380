\* Process discovery beside the controller; its publications may fail.  The
\* legacy API is used on the daemon's own route.
SPECIFICATION FairSpec
CONSTANTS
    Clients = {c1}
    Ids <- MCIds
    Ports = {1, 2}
    HostOf <- MCHostOf
    LeaseIds <- MCLeaseA
    LegacyIds <- MCSystem
    SystemIds <- MCSystem
    SystemHosts <- MCSystemHosts
    SystemLeases <- NoIds
    Scans <- MCScans
    MaxTTL = 2
    LateRenewals = FALSE
    MayCrash = FALSE
    None = None
INVARIANTS
    ReadyIsPublished
PROPERTIES
    AppliedIsServed
    HostConflictEnds

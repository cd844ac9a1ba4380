\* Renewals arrive in time and discovery is off: the documented environment.
SPECIFICATION FairSpec
CONSTANTS
    Clients = {c1, c2}
    Ids <- MCIds
    Ports = {1, 2}
    HostOf <- MCHostOf
    LeaseIds <- MCLeaseA
    LegacyIds <- MCLegacy
    SystemIds <- MCSystem
    SystemHosts <- MCSystemHosts
    SystemLeases <- MCSystem
    Scans <- NoScans
    MaxTTL = 1
    LateRenewals = FALSE
    MayCrash = TRUE
    None = None
INVARIANTS
    NoOrphanRoute
    LiveClaimServed
PROPERTIES
    ImplementsRegistry
    HostIsReleased

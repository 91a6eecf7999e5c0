SPECIFICATION FairSpec
CONSTANTS
    Roots = {r1, r2}
    Leaves = {k1, k2, k3}
    Names = {n1}
    ServerValidity = 2
    RenewBefore = 1
    MaxBadReads = 1
    MaxFaults = 1
    Enrollments = {e1, e2}
    HubURL <- MCHubURL
    None = None
    Torn = Torn
INVARIANTS
    TypeOK
    
    ServedCertificate
    IdentityComplete
PROPERTY HubComesUp

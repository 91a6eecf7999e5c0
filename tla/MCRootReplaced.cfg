SPECIFICATION Spec
CONSTANTS
    Roots = {r1, r2}
    Leaves = {k1, k2, k3}
    Names = {n1}
    ServerValidity = 2
    RenewBefore = 1
    MaxBadReads = 2
    MaxFaults = 2
    Enrollments = {e1}
    HubURL <- MCHubURL
    None = None
    Torn = Torn
INVARIANT RootNotReplaced

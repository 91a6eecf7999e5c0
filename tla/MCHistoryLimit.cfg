SPECIFICATION Spec
CONSTANTS
    a1 = a1
    a2 = a2
    x = x
    Macs = {m1}
    Agents = {a1, a2}
    IPs = {x}
    None = None
    DefaultLimit = 1
    MaxLimit = 2
    RecentCap = 2
    Reqs = {q1, q2}
    AgentOrder <- MCOrder
    Subnet <- MCSubnet
    MaxWork = 4
    MaxMisses = 0
    MaxUpsets = 0
SYMMETRY Symmetry
CHECK_DEADLOCK FALSE
PROPERTY HistoryPerAgent

SPECIFICATION PathSpec
CONSTANTS
    Agents = {a1}
    Cmds = {c1, c2}
    Polls = {p1}
    Chans = {h1, h2}
    InboxDepth = 1
    PollHold = 1
    ConnectionTTL = 1
    NoAgent = NoAgent
    NoChan = NoChan
PROPERTY NothingReachesDisabled

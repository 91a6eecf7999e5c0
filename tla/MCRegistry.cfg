SPECIFICATION Spec
CONSTANTS
    Agents = {a1, a2}
    Cmds = {c1}
    Polls = {p1, p2}
    Chans = {h1, h2, h3, h4}
    InboxDepth = 1
    PollHold = 1
    ConnectionTTL = 2
    NoAgent = NoAgent
    NoChan = NoChan
SYMMETRY Symmetry
INVARIANTS
    TypeOK
    HandedToTarget
    HandedOnce
    AnswerFromTarget
    HeldPollIsAlive

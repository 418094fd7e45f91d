\* Two connections under fairness; every operation of a stream suspends.
SPECIFICATION NodeFairSpec
CONSTANTS
    zero = zero
    Connections = {c1, c2}
    Listener = Listener
    InlineIO = FALSE
    PeerSends = {"exact", "short", "malformed", "error"}
    Keys = {zero}
    Timestamps = {1}
    MaxMessages = 0
    LastSync <- NeverSynced
    PubkeyOf <- ZeroKey
PROPERTIES
    ClosesInTime
    ShutdownEndsSync
\* The process may die, and a node that was shut down stops.
CHECK_DEADLOCK FALSE

\* One connection, a store that grows under its passes, and a shutdown.
SPECIFICATION NodeFairSpec
CONSTANTS
    zero = zero
    Connections = {c1}
    Listener = Listener
    InlineIO = FALSE
    PeerSends = {"exact", "short", "malformed", "error"}
    Keys = {zero}
    Timestamps = {1}
    MaxMessages = 3
    LastSync <- NeverSynced
    PubkeyOf <- ZeroKey
PROPERTIES
    UsesSyncer
    ShutdownEndsSync
\* The process may die, and a node that was shut down stops.
CHECK_DEADLOCK FALSE

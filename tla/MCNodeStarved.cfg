\* A message that was begun on a link that stays up.
SPECIFICATION NodeFairSpec
CONSTANTS
    zero = zero
    Connections = {c1}
    Listener = Listener
    InlineIO = FALSE
    PeerSends = {"exact", "short", "malformed", "error"}
    Keys = {zero}
    Timestamps = {1}
    MaxMessages = 1
    LastSync <- NeverSynced
    PubkeyOf <- ZeroKey
PROPERTY
    MessageIsCompleted
\* The process may die, and a node that was shut down stops.
CHECK_DEADLOCK FALSE

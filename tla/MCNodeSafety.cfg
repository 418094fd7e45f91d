\* Two connections and one message; a stream may complete without suspending.
SPECIFICATION NodeSpec
CONSTANTS
    zero = zero
    Connections = {c1, c2}
    Listener = Listener
    InlineIO = TRUE
    PeerSends = {"exact", "short", "malformed", "error"}
    Keys = {zero}
    Timestamps = {1}
    MaxMessages = 1
    LastSync <- NeverSynced
    PubkeyOf <- ZeroKey
INVARIANTS
    NodeTypeOK
    KeepAlive
    NegotiatedFirst
    OneLateAccept
    OneSpinner
PROPERTIES
    FollowsProtocol
    StarvedForGood
\* The process may die, and a node that was shut down stops.
CHECK_DEADLOCK FALSE

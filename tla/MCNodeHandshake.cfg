\* A peer that runs the same code: its handshake is shorter than the buffer.
SPECIFICATION NodeFairSpec
CONSTANTS
    zero = zero
    Connections = {c1}
    Listener = Listener
    InlineIO = FALSE
    PeerSends = {"short"}
    Keys = {zero}
    Timestamps = {1}
    MaxMessages = 0
    LastSync <- NeverSynced
    PubkeyOf <- ZeroKey
PROPERTY
    HandshakeSucceeds
\* The process may die, and a node that was shut down stops.
CHECK_DEADLOCK FALSE

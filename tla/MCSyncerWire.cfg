\* What the stream receives when writes fail.
SPECIFICATION Spec
CONSTANTS
    c2 = c2
    k1 = k1
    k2 = k2
    Connections = {c2}
    Keys = {k1, k2}
    Timestamps = {1, 2}
    MaxMessages = 3
    LastSync <- OneLastSync
    PubkeyOf <- OnePubkey
INVARIANT
    WireFraming
\* The process may die.
CHECK_DEADLOCK FALSE

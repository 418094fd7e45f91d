\* Passes over a vector long enough to be reallocated with more to scan.  They
\* share nothing but the vector: the connections that are left out act through
\* add_message, and the theorems are about any number of them.
SPECIFICATION FairSpec
CONSTANTS
    c2 = c2
    k1 = k1
    k2 = k2
    Connections = {c2}
    Keys = {k1, k2}
    Timestamps = {1, 2}
    MaxMessages = 3
    LastSync <- OneLastSync
    PubkeyOf <- OnePubkey
INVARIANTS
    TypeOK
    FramedPass
    ExactPass
    InOrder
PROPERTIES
    PassEnds
\* The process may die.
CHECK_DEADLOCK FALSE

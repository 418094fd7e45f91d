\* Three items in five bits, two chains, two key pairs; texts of up to five
\* tokens, raw addresses of up to seven bytes, and the varints of up to two
\* numbers read in up to three calls.  Numbers have five bits in groups of two,
\* so that as in the code the last of the groups has room for one bit, and 6 is
\* the varint 6 1 as 150 is 150 1.
SPECIFICATION MCSpec
CONSTANTS
    Items = {a, b, c}
    HashRange = 16
    HalfRange = 4
    Size = 5
    MaxK = 3
    Chains = {d, e}
    Heads = {h1, h2}
    Tails = {t1, t2}
    MaxZeros = 1
    MaxKeys = 4
    Pairs = {p, q}
    Slots = {s1, s2, s3}
    NoObject = NoObject
    Zeros = Zeros
    MaxMade = 2
    Base = 4
    Limit = 32
    Groups = 3
    WordSizes = {1, 2}
    Max32 = 7
    MaxCalls = 3
    Bytes = {1, 4, 6}
    Btle = 6
    Versions = {v}
    kSize = 1
    MaxTokens = 5
    MaxBytes = 7
    MaxWords = 2
INVARIANTS
    LibraryTypeOK
    EstimateDefined
    ChainsAgree
    KeysFresh
    OneHolder
    MultiaddrTypeOK
    NothingInvented
    RoundTrip
    RawIsRead
    VarintsReadBack
PROPERTIES
    ImplementsMembership
\* A process that overran a chain key has stopped, a parser that has returned
\* stops.
CHECK_DEADLOCK FALSE

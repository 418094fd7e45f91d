\* Texts of up to five tokens, raw addresses of up to seven bytes, and the
\* varints of up to two numbers read in up to three calls.  Numbers have five
\* bits in groups of two, so that as in the code the last of the groups has room
\* for one bit, and 6 is the varint 6 1 as 150 is 150 1.
SPECIFICATION Spec
CONSTANTS
    Base = 4
    Limit = 32
    Groups = 3
    WordSizes = {1, 2}
    Max32 = 7
    MaxCalls = 3
    Bytes = {1, 4, 6}
    Btle = 6
    Versions = {v}
    kSize = 1
    MaxTokens = 5
    MaxBytes = 7
    MaxWords = 2
INVARIANT
    NoProtocolAfterVersion
\* A parser that has returned stops.
CHECK_DEADLOCK FALSE

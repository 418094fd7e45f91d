\* Two devices in range, a radio that may be switched at any time, and four
\* characteristics: bttest's, one to read, one to write and one to indicate.
SPECIFICATION BttestFairSpec
CONSTANTS
    Peripherals = {p1, p2}
    PowerEvent = PowerEvent
    MaxEvents = 3
    Orders <- SomeOrders
INVARIANTS
    CentralTypeOK
    BttestTypeOK
    NoTornCall
    ParentKnown
    NoneDropped
    HarmlessUnlessOpened
PROPERTIES
    HeardIsReported
\* The process may die, and bttest comes to its end.
CHECK_DEADLOCK FALSE

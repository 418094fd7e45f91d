\* bttest's own characteristic and one device in range.
SPECIFICATION BttestSpec
CONSTANTS
    Peripherals = {p1}
    PowerEvent = PowerEvent
    MaxEvents = 1
    Orders <- JustBttest
INVARIANT
    ServedWhenFound
\* The process may die, and bttest comes to its end.
CHECK_DEADLOCK FALSE

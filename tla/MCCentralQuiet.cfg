\* Discoveries that are still queued when the adapter goes.
SPECIFICATION Spec
CONSTANTS
    Peripherals = {p1, p2}
    PowerEvent = PowerEvent
    MaxEvents = 3
INVARIANT
    QuietWhenGone
\* The process may die, and bttest goes on to other things.
CHECK_DEADLOCK FALSE

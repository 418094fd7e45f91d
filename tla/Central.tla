------------------------------ MODULE Central -------------------------------
(***************************************************************************)
(* The central role over CoreBluetooth: CentralAdapter (cbtle.h),          *)
(* CentralManager (bt.h) and its delegate CentralManagerBase (bt.mm), as   *)
(* bttest uses them (src/src/test.cpp:8-20).                               *)
(*                                                                         *)
(* Two threads meet in the CentralManager.  The application's thread runs  *)
(* Main: it creates the adapter, registers a callback, scans for a while,  *)
(* stops, and leaves the block the adapter lives in.  The delegate's       *)
(* serial dispatch queue handles, one after the other, the events that     *)
(* CoreBluetooth put on it, and calls the callback.  Nothing but the order *)
(* of Main keeps the two apart, and nothing empties the queue when the     *)
(* scan stops or the adapter goes.                                         *)
(***************************************************************************)
EXTENDS Naturals, Sequences

CONSTANTS
    Peripherals,    \* the devices in range
    PowerEvent,     \* the event of a change of the radio's power state
    MaxEvents       \* BOUND: events waiting on the dispatch queue

ASSUME PowerEventAssumption == PowerEvent \notin Peripherals
ASSUME MaxEventsAssumption == MaxEvents \in Nat

VARIABLES
    at,         \* how many operations of Main the application has begun
    powered,    \* the radio is on
    scanning,   \* CoreBluetooth is scanning for the manager
    events,     \* the dispatch queue
    handler,    \* where the queue's thread is in on_discovered
    inHand,     \* the event it handles
    parent,     \* CentralManagerBase.parent
    callback,   \* CentralManager.on_discovered_
    heard,      \* GHOST: peripherals that CoreBluetooth announced
    reported,   \* the peripherals the callback was called with
    misused,    \* the kinds of undefined behaviour met
    dead        \* the process died of one

vars == <<at, powered, scanning, events, handler, inHand, parent, callback,
          heard, reported, misused, dead>>

application == <<at, parent, callback>>
radio == <<powered, scanning, heard>>
delivery == <<events, handler, inHand, reported>>

Event == Peripherals \cup {PowerEvent}

-----------------------------------------------------------------------------
(***************************************************************************)
(* The application                                                         *)
(***************************************************************************)

\* MUTANT: the callback is registered once the scan has begun.
ScanFirst == <<"create", "setParent", "scan", "assign", "assigned", "stop",
               "destroy">>

\* What the application does, in order.  The constructor installs the delegate
\* ("create") before it tells it of its parent; the callback is assigned, which
\* takes several writes ("assign", "assigned"); "destroy" is the end of the
\* block.
Main == <<"create", "setParent", "assign", "assigned", "scan", "stop",
          "destroy">>

Begins(op) ==
    /\ ~dead
    /\ at < Len(Main)
    /\ Main[at + 1] = op
    /\ at' = at + 1

\* The CBCentralManager gets its delegate and its queue.
Create ==
    /\ Begins("create")
    /\ UNCHANGED <<parent, callback, radio, delivery, misused, dead>>

\* MUTANT: the delegate is never told of its parent, like the one of
\* PeripheralManager.
SetParentNever ==
    /\ Begins("setParent")
    /\ UNCHANGED <<parent, callback, radio, delivery, misused, dead>>

SetParent ==
    /\ Begins("setParent")
    /\ parent' = "manager"
    /\ UNCHANGED <<callback, radio, delivery, misused, dead>>

\* set_discovered_callback moves into the std::function without any lock.
Assign ==
    /\ Begins("assign")
    /\ callback' = "torn"
    /\ UNCHANGED <<parent, radio, delivery, misused, dead>>

Assigned ==
    /\ Begins("assigned")
    /\ callback' = "set"
    /\ UNCHANGED <<parent, radio, delivery, misused, dead>>

\* The state of the radio is not looked at; a scan that CoreBluetooth is asked
\* for while it is off has no effect, then or later.
StartScanning ==
    /\ Begins("scan")
    /\ scanning' = powered
    /\ UNCHANGED <<parent, callback, powered, heard, delivery, misused, dead>>

\* Events on the queue stay there.
StopScanning ==
    /\ Begins("stop")
    /\ scanning' = FALSE
    /\ UNCHANGED <<parent, callback, powered, heard, delivery, misused, dead>>

\* The CentralManager and its callback go; the delegate, which nobody
\* releases, keeps the pointer.
Destroy ==
    /\ Begins("destroy")
    /\ callback' = "freed"
    /\ UNCHANGED <<parent, radio, delivery, misused, dead>>

-----------------------------------------------------------------------------
(***************************************************************************)
(* The dispatch queue of the delegate                                      *)
(***************************************************************************)

\* Undefined behaviour kills the process or goes unnoticed.
Misuse(kind) ==
    /\ misused' = misused \cup {kind}
    /\ dead' \in BOOLEAN

Defined == UNCHANGED <<misused, dead>>

\* centralManagerDidUpdateState does nothing.
HandlePower ==
    /\ ~dead
    /\ handler = "idle"
    /\ events # <<>>
    /\ Head(events) = PowerEvent
    /\ events' = Tail(events)
    /\ UNCHANGED <<handler, inHand, reported, application, radio>>
    /\ Defined

\* didDiscoverPeripheral wraps the peripheral and calls parent->on_discovered.
HandleDiscovery ==
    /\ ~dead
    /\ handler = "idle"
    /\ events # <<>>
    /\ Head(events) # PowerEvent
    /\ events' = Tail(events)
    /\ handler' = IF parent = "null" THEN "idle" ELSE "test"
    /\ inHand' = Head(events)
    /\ IF parent = "null" THEN Misuse("null") ELSE Defined
    /\ UNCHANGED <<reported, application, radio>>

\* Where the test of on_discovered_ leads.
Tested(cb) ==
    CASE cb = "empty" -> {"idle"}
      [] cb = "set" -> {"call"}
      [] OTHER -> {"idle", "call"}

\* MUTANT: the test is the wrong way round.
TestInverted ==
    /\ ~dead
    /\ handler = "test"
    /\ handler' = IF callback = "set" THEN "idle" ELSE "call"
    /\ UNCHANGED <<events, inHand, reported, application, radio>>
    /\ Defined

\* if (on_discovered_)
Test ==
    /\ ~dead
    /\ handler = "test"
    /\ handler' \in Tested(callback)
    /\ IF callback \in {"empty", "set"} THEN Defined ELSE Misuse(callback)
    /\ UNCHANGED <<events, inHand, reported, application, radio>>

\* MUTANT: the handler does not come back to the queue.
CallAndStay ==
    /\ ~dead
    /\ handler = "call"
    /\ handler' = "called"
    /\ reported' = reported \cup {inHand}
    /\ IF callback = "set" THEN Defined ELSE Misuse(callback)
    /\ UNCHANGED <<events, inHand, application, radio>>

\* on_discovered_(peripheral, data)
Call ==
    /\ ~dead
    /\ handler = "call"
    /\ handler' = "idle"
    /\ reported' = reported \cup {inHand}
    /\ IF callback = "set" THEN Defined ELSE Misuse(callback)
    /\ UNCHANGED <<events, inHand, application, radio>>

-----------------------------------------------------------------------------
(***************************************************************************)
(* CoreBluetooth                                                           *)
(***************************************************************************)

\* A scan finds p.
Hear(p) ==
    /\ ~dead
    /\ scanning
    /\ Len(events) < MaxEvents
    /\ events' = Append(events, p)
    /\ heard' = heard \cup {p}
    /\ UNCHANGED <<powered, scanning, handler, inHand, reported, application>>
    /\ Defined

\* The radio is switched; a scan does not survive that.  The delegate hears of
\* it once there is one.
Switch ==
    /\ ~dead
    /\ Len(events) < MaxEvents
    /\ powered' = ~powered
    /\ scanning' = FALSE
    /\ events' = IF at = 0 THEN events ELSE Append(events, PowerEvent)
    /\ UNCHANGED <<heard, handler, inHand, reported, application>>
    /\ Defined

Init ==
    /\ at = 0
    /\ powered \in BOOLEAN
    /\ scanning = FALSE
    /\ events = <<>>
    /\ handler = "idle"
    /\ inHand = PowerEvent
    /\ parent = "null"
    /\ callback = "empty"
    /\ heard = {}
    /\ reported = {}
    /\ misused = {}
    /\ dead = FALSE

Application ==
    \/ Create
    \/ SetParent
    \/ Assign
    \/ Assigned
    \/ StartScanning
    \/ StopScanning
    \/ Destroy

Handler == HandlePower \/ HandleDiscovery \/ Test \/ Call

CoreBluetooth == Switch \/ \E p \in Peripherals : Hear(p)

Next == Application \/ Handler \/ CoreBluetooth

Spec == Init /\ [][Next]_vars

\* The dispatch queue's thread runs as long as there is something to handle.
FairSpec == Spec /\ WF_vars(Handler)

-----------------------------------------------------------------------------
(***************************************************************************)
(* Properties                                                              *)
(***************************************************************************)

CentralTypeOK ==
    /\ at \in 0..Len(Main)
    /\ powered \in BOOLEAN
    /\ scanning \in BOOLEAN
    /\ events \in Seq(Event)
    /\ handler \in {"idle", "test", "call"}
    /\ inHand \in Event
    /\ parent \in {"null", "manager"}
    /\ callback \in {"empty", "torn", "set", "freed"}
    /\ heard \subseteq Peripherals
    /\ reported \subseteq Peripherals
    /\ misused \subseteq {"null", "torn", "freed"}
    /\ dead \in BOOLEAN

\* The dispatch queue never reads the callback while the application assigns
\* it.  on_discovered_ has no lock: it is the order of bttest, which registers
\* the callback before it scans, that keeps the threads apart.
NoTornCall == "torn" \notin misused

\* No discovery comes to a delegate that does not know its parent, though the
\* constructor installs the delegate first.
ParentKnown == "null" \notin misused

\* While the adapter lives, no discovery is lost between CoreBluetooth and the
\* application: a peripheral that was announced waits on the queue, is in the
\* handler's hands or was reported.
NoneDropped ==
    dead
    \/ callback = "freed"
    \/ \A p \in heard : \/ p \in reported
                        \/ \E i \in 1..Len(events) : events[i] = p
                        \/ handler # "idle" /\ inHand = p

\* Every announced peripheral is reported, if the adapter stays.
HeardIsReported ==
    \A p \in Peripherals :
        p \in heard ~> p \in reported \/ callback = "freed" \/ dead

\* bttest stops the scan and then drops the adapter (src/src/test.cpp:19-20):
\* no discovery would come to the adapter after that.  One that was queued
\* before stop_scanning does.
QuietWhenGone == "freed" \notin misused
=============================================================================

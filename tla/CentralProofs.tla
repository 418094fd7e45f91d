--------------------------- MODULE CentralProofs ----------------------------
(***************************************************************************)
(* Why the two threads of Central do not meet: an inductive invariant that *)
(* reads the order of Main off the counter "at".                           *)
(***************************************************************************)
EXTENDS Central, TLAPS

\* A peripheral that CoreBluetooth announced and the dispatch queue holds.
Queued(p) == \E i \in 1..Len(events) : events[i] = p

\* What the state owes to the operations begun so far: the parent is known from
\* the second on, the callback is whole from the fourth on, and nothing was
\* announced before the fifth, the scan.
Ordered ==
    /\ parent = IF at >= 2 THEN "manager" ELSE "null"
    /\ at < 3 => callback = "empty"
    /\ at = 3 => callback = "torn"
    /\ at \in 4..6 => callback = "set"
    /\ at > 6 => callback = "freed"
    /\ scanning => at >= 5
    /\ handler # "idle" => at >= 5
    /\ at < 5 => \A i \in 1..Len(events) : events[i] = PowerEvent

OnlyFreed == misused \subseteq {"freed"}

\* The handler holds a peripheral.
HandsFull == handler # "idle" => inHand \in Peripherals

CentralInv ==
    /\ CentralTypeOK
    /\ Ordered
    /\ OnlyFreed
    /\ HandsFull
    /\ NoneDropped

\* The operations of Main, by their places.
LEMMA MainOrder ==
    /\ Len(Main) = 7
    /\ Main[1] = "create" /\ Main[2] = "setParent" /\ Main[3] = "assign"
    /\ Main[4] = "assigned" /\ Main[5] = "scan" /\ Main[6] = "stop"
    /\ Main[7] = "destroy"
  BY DEF Main

\* An operation begins at its place in Main.
LEMMA Begun ==
    ASSUME CentralTypeOK
    PROVE  /\ Begins("create") => at = 0 /\ at' = 1
           /\ Begins("setParent") => at = 1 /\ at' = 2
           /\ Begins("assign") => at = 2 /\ at' = 3
           /\ Begins("assigned") => at = 3 /\ at' = 4
           /\ Begins("scan") => at = 4 /\ at' = 5
           /\ Begins("stop") => at = 5 /\ at' = 6
           /\ Begins("destroy") => at = 6 /\ at' = 7
  BY MainOrder DEF Begins, CentralTypeOK

\* The invariant holds before the adapter exists.
LEMMA CentralInvInit == Init => CentralInv
<1> SUFFICES ASSUME Init PROVE CentralInv
  OBVIOUS
<1>1. events \in Seq(Event) /\ Len(events) = 0
  BY DEF Init
<1>2. scanning \in BOOLEAN /\ dead \in BOOLEAN /\ powered \in BOOLEAN
  BY Zenon DEF Init
<1>3. CentralTypeOK
  BY <1>1, <1>2, MainOrder DEF Init, CentralTypeOK, Event
<1> QED
  BY <1>1, <1>3 DEF Init, CentralInv, Ordered, OnlyFreed, HandsFull, NoneDropped

\* The application's steps: each changes what its place in Main allows.
LEMMA ApplicationInv == CentralInv /\ Application => CentralInv'
<1> SUFFICES ASSUME CentralInv, Application PROVE CentralInv'
  OBVIOUS
<1> USE MainOrder, Begun
<1>1. CASE Create
  BY <1>1 DEF Create, CentralInv, CentralTypeOK, Ordered, OnlyFreed, HandsFull,
     NoneDropped, radio, delivery
<1>2. CASE SetParent
  BY <1>2 DEF SetParent, CentralInv, CentralTypeOK, Ordered, OnlyFreed, HandsFull,
     NoneDropped, radio, delivery
<1>3. CASE Assign
  BY <1>3 DEF Assign, CentralInv, CentralTypeOK, Ordered, OnlyFreed, HandsFull,
     NoneDropped, radio, delivery
<1>4. CASE Assigned
  BY <1>4 DEF Assigned, CentralInv, CentralTypeOK, Ordered, OnlyFreed, HandsFull,
     NoneDropped, radio, delivery
<1>5. CASE StartScanning
  BY <1>5 DEF StartScanning, CentralInv, CentralTypeOK, Ordered, OnlyFreed,
     HandsFull, NoneDropped, delivery
<1>6. CASE StopScanning
  <2>1. scanning' \in BOOLEAN
    BY <1>6, Zenon DEF StopScanning
  <2> QED
    BY <1>6, <2>1 DEF StopScanning, CentralInv, CentralTypeOK, Ordered, OnlyFreed,
       HandsFull, NoneDropped, delivery
<1>7. CASE Destroy
  BY <1>7 DEF Destroy, CentralInv, CentralTypeOK, Ordered, OnlyFreed, HandsFull,
     NoneDropped, radio, delivery
<1> QED
  BY <1>1, <1>2, <1>3, <1>4, <1>5, <1>6, <1>7 DEF Application

\* The head of the queue leaves it; everything else stays.
LEMMA Dequeue ==
    ASSUME events \in Seq(Event), events # <<>>, events' = Tail(events)
    PROVE  /\ events' \in Seq(Event)
           /\ Head(events) \in Event
           /\ \A i \in 1..Len(events) :
                 events[i] = Head(events)
                 \/ \E j \in 1..Len(events') : events'[j] = events[i]
           /\ \A j \in 1..Len(events') :
                 \E i \in 1..Len(events) : events'[j] = events[i]
<1>1. Head(events) = events[1] /\ Len(events) \in Nat \ {0}
  OBVIOUS
<1>2. Len(events') = Len(events) - 1
  OBVIOUS
<1>3. \A j \in 1..Len(events') : events'[j] = events[j + 1]
  OBVIOUS
<1>4. ASSUME NEW i \in 1..Len(events), i # 1
      PROVE  i - 1 \in 1..Len(events') /\ events'[i - 1] = events[i]
  BY <1>1, <1>2, <1>3, <1>4
<1> QED
  BY <1>1, <1>2, <1>3, <1>4

\* The dispatch queue's steps: they find the callback whole or freed, because a
\* discovery is at hand only once the scan has begun.
LEMMA HandlerInv == CentralInv /\ Handler => CentralInv'
<1> SUFFICES ASSUME CentralInv, Handler PROVE CentralInv'
  OBVIOUS
<1> USE MainOrder DEF CentralInv, CentralTypeOK
<1>1. CASE HandlePower
  <2>1. /\ events' \in Seq(Event)
        /\ \A i \in 1..Len(events) :
              events[i] = PowerEvent
              \/ \E j \in 1..Len(events') : events'[j] = events[i]
        /\ \A j \in 1..Len(events') :
              \E i \in 1..Len(events) : events'[j] = events[i]
    BY <1>1, Dequeue DEF HandlePower
  <2>2. Ordered'
    BY <1>1, <2>1 DEF HandlePower, Ordered, application, radio
  <2>3. NoneDropped'
    BY <1>1, <2>1, PowerEventAssumption DEF HandlePower, NoneDropped, application, radio, Defined
  <2> QED
    BY <1>1, <2>1, <2>2, <2>3
    DEF HandlePower, OnlyFreed, HandsFull, application, radio, Defined
<1>2. CASE HandleDiscovery
  <2>1. /\ events' \in Seq(Event)
        /\ Head(events) \in Peripherals
        /\ \A i \in 1..Len(events) :
              events[i] = Head(events)
              \/ \E j \in 1..Len(events') : events'[j] = events[i]
        /\ \A j \in 1..Len(events') :
              \E i \in 1..Len(events) : events'[j] = events[i]
    BY <1>2, Dequeue DEF HandleDiscovery, Event
  <2>2. at >= 5
    BY <1>2, <2>1 DEF HandleDiscovery, Ordered
  <2>3. parent = "manager" /\ UNCHANGED <<misused, dead>> /\ handler' = "test"
    BY <1>2, <2>2 DEF HandleDiscovery, Ordered, Defined
  <2>4. Ordered'
    BY <1>2, <2>1, <2>2, <2>3 DEF HandleDiscovery, Ordered, application, radio
  <2>5. NoneDropped'
    BY <1>2, <2>1, <2>3 DEF HandleDiscovery, NoneDropped, application, radio
  <2> QED
    BY <1>2, <2>1, <2>3, <2>4, <2>5
    DEF HandleDiscovery, OnlyFreed, HandsFull, application, radio, Event
<1>3. CASE Test
  <2>1. callback \in {"set", "freed"}
    BY <1>3 DEF Test, Ordered
  <2>2. OnlyFreed' /\ misused' \subseteq {"null", "torn", "freed"} /\ dead' \in BOOLEAN
    BY <1>3, <2>1 DEF Test, OnlyFreed, Misuse, Defined
  <2>3. handler' \in {"idle", "call"} /\ (callback = "set" => handler' = "call")
    BY <1>3, <2>1 DEF Test, Tested
  <2>4. Ordered'
    BY <1>3, <2>3 DEF Test, Ordered, application, radio
  <2>5. NoneDropped'
    BY <1>3, <2>1, <2>3 DEF Test, NoneDropped, application, radio, Defined
  <2> QED
    BY <1>3, <2>2, <2>3, <2>4, <2>5 DEF Test, HandsFull, application, radio
<1>4. CASE Call
  <2>1. callback \in {"set", "freed"}
    BY <1>4 DEF Call, Ordered
  <2>2. OnlyFreed' /\ misused' \subseteq {"null", "torn", "freed"} /\ dead' \in BOOLEAN
    BY <1>4, <2>1 DEF Call, OnlyFreed, Misuse, Defined
  <2>3. Ordered'
    BY <1>4 DEF Call, Ordered, application, radio
  <2>4. NoneDropped'
    BY <1>4 DEF Call, NoneDropped, application, radio, Defined
  <2>5. reported' \subseteq Peripherals
    BY <1>4 DEF Call, HandsFull
  <2> QED
    BY <1>4, <2>2, <2>3, <2>4, <2>5 DEF Call, HandsFull, application, radio
<1> QED
  BY <1>1, <1>2, <1>3, <1>4 DEF Handler

\* An event is added; everything that was on the queue stays.
LEMMA Enqueue ==
    ASSUME events \in Seq(Event), NEW e \in Event, events' = Append(events, e)
    PROVE  /\ events' \in Seq(Event)
           /\ Len(events') = Len(events) + 1
           /\ events'[Len(events')] = e
           /\ \A i \in 1..Len(events) : events'[i] = events[i]
  OBVIOUS

\* CoreBluetooth's steps: it announces peripherals only while it scans.
LEMMA CoreBluetoothInv == CentralInv /\ CoreBluetooth => CentralInv'
<1> SUFFICES ASSUME CentralInv, CoreBluetooth PROVE CentralInv'
  OBVIOUS
<1> USE MainOrder DEF CentralInv, CentralTypeOK
<1>1. ASSUME NEW p \in Peripherals, Hear(p) PROVE CentralInv'
  <2>1. /\ events' \in Seq(Event)
        /\ Len(events') = Len(events) + 1
        /\ events'[Len(events')] = p
        /\ \A i \in 1..Len(events) : events'[i] = events[i]
    BY <1>1, Enqueue DEF Hear, Event
  <2>2. at >= 5 /\ UNCHANGED at
    BY <1>1 DEF Hear, Ordered, application
  <2>3. Ordered'
    BY <1>1, <2>2 DEF Hear, Ordered, application
  <2>4. NoneDropped'
    <3>1. ASSUME callback # "freed", ~dead, NEW q \in heard'
          PROVE \/ q \in reported
                \/ \E i \in 1..Len(events') : events'[i] = q
                \/ handler # "idle" /\ inHand = q
      <4>1. CASE q = p
        BY <2>1, <4>1
      <4>2. CASE q # p
        BY <1>1, <2>1, <3>1, <4>2 DEF Hear, NoneDropped
      <4> QED
        BY <4>1, <4>2
    <3> QED
      BY <1>1, <3>1 DEF Hear, NoneDropped, application, Defined
  <2> QED
    BY <1>1, <2>1, <2>3, <2>4 DEF Hear, OnlyFreed, HandsFull, application, Defined
<1>2. CASE Switch
  <2>1. /\ events' \in Seq(Event)
        /\ \A i \in 1..Len(events) : i \in 1..Len(events') /\ events'[i] = events[i]
        /\ \A i \in 1..Len(events') :
              events'[i] = PowerEvent \/ i \in 1..Len(events)
    <3>1. CASE at = 0
      BY <1>2, <3>1 DEF Switch
    <3>2. CASE at # 0
      BY <1>2, <3>2, Enqueue DEF Switch, Event
    <3> QED
      BY <3>1, <3>2
  <2>2. Ordered'
    BY <1>2, <2>1 DEF Switch, Ordered, application
  <2>3. NoneDropped'
    BY <1>2, <2>1 DEF Switch, NoneDropped, application, Defined
  <2> QED
    BY <1>2, <2>1, <2>2, <2>3 DEF Switch, OnlyFreed, HandsFull, application, Defined
<1> QED
  BY <1>1, <1>2 DEF CoreBluetooth

\* The order of Main, the types and the conservation of discoveries are
\* inductive together.
THEOREM CentralInvariant == Spec => []CentralInv
<1>1. CentralInv /\ [Next]_vars => CentralInv'
  <2>1. CentralInv /\ UNCHANGED vars => CentralInv'
    BY DEF vars, CentralInv, CentralTypeOK, Ordered, OnlyFreed, HandsFull, NoneDropped
  <2> QED
    BY <2>1, ApplicationInv, HandlerInv, CoreBluetoothInv DEF Next
<1> QED
  BY <1>1, CentralInvInit, PTL DEF Spec

\* The variables of Central keep their types.
THEOREM CentralTypeCorrect == Spec => []CentralTypeOK
  BY CentralInvariant, PTL DEF CentralInv

\* The dispatch queue never reads the callback while bttest assigns it.
THEOREM NeverTorn == Spec => []NoTornCall
<1>1. CentralInv => NoTornCall
  BY DEF CentralInv, OnlyFreed, NoTornCall
<1> QED
  BY <1>1, CentralInvariant, PTL

\* No discovery comes to a delegate that does not know its parent.
THEOREM ParentIsKnown == Spec => []ParentKnown
<1>1. CentralInv => ParentKnown
  BY DEF CentralInv, OnlyFreed, ParentKnown
<1> QED
  BY <1>1, CentralInvariant, PTL

\* While the adapter lives no announced peripheral is lost on its way to the
\* application.
THEOREM NothingDropped == Spec => []NoneDropped
  BY CentralInvariant, PTL DEF CentralInv
=============================================================================

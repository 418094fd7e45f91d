---------------------------- MODULE BttestProofs ----------------------------
(***************************************************************************)
(* Why the peripheral's delegate, which has no parent, does no harm to an  *)
(* application that opens nothing: what is served is what was ordered, as  *)
(* the cast of its properties leaves it, and it is asked for no more than  *)
(* that allows.  The central role's theorems hold in bttest, whose steps   *)
(* are its steps or leave it alone.                                        *)
(***************************************************************************)
EXTENDS Bttest, CentralProofs

-----------------------------------------------------------------------------
(***************************************************************************)
(* The central role                                                        *)
(***************************************************************************)

LEMMA CentralStep == [BttestNext]_allVars => [Next]_vars
<1> SUFFICES ASSUME [BttestNext]_allVars
             PROVE  [Next]_vars
  OBVIOUS
<1>1. CASE SecondBlock
  BY <1>1 DEF SecondBlock, CreateManager, Build, AddService, StartAdvertising,
              StopAdvertising, DestroyManager, BeginsSecond
<1>2. CASE HandleRequest \/ Connect \/ \E a \in Access : Request(a)
  BY <1>2 DEF HandleRequest, Connect, Request
<1>3. CASE Publish \/ RefuseService
  BY <1>3 DEF Publish, RefuseService
<1>4. CASE FirstBlock \/ CentralHandler
  BY <1>4 DEF FirstBlock, CentralHandler, Next
<1>5. CASE HearSome \/ SwitchRadio
  BY <1>5 DEF HearSome, SwitchRadio, Next, CoreBluetooth
<1>6. CASE UNCHANGED allVars
  BY <1>6 DEF allVars
<1> QED
  BY <1>1, <1>2, <1>3, <1>4, <1>5, <1>6 DEF BttestNext

LEMMA BttestIsCentral == BttestSpec => Spec
<1>1. BttestInit => Init
  BY DEF BttestInit
<1> QED
  BY <1>1, CentralStep, PTL DEF BttestSpec, Spec

\* What was proved of the central role holds in bttest.
COROLLARY BttestCentral == BttestSpec => [](NoTornCall /\ ParentKnown /\ NoneDropped)
  BY BttestIsCentral, NeverTorn, ParentIsKnown, NothingDropped, PTL

-----------------------------------------------------------------------------
(***************************************************************************)
(* The peripheral role                                                     *)
(***************************************************************************)

\* What is served is what was ordered, and it is asked for only what it allows.
AsOrdered ==
    /\ service \subseteq {Built(order)}
    /\ adding \subseteq {Built(order)}
    /\ published \subseteq {Built(order)}
    /\ requests # <<>> => Opens(order)
    /\ parentless => Opens(order)

BttestInv ==
    /\ BttestTypeOK
    /\ powered \in BOOLEAN
    /\ AsOrdered

LEMMA SecondHasSix == Len(Second) = 6
  BY DEF Second

\* A property that lets a remote device subscribe is the cast of one that is
\* among those of Opens.
LEMMA CastOpens ==
    ASSUME NEW q \in Subscribable, NEW p \in Properties, CBBit[q] = Bit[p]
    PROVE  p \in {"write", "notify", "extendedProperties",
                  "notifyEncryptionRequired"}
<1>1. /\ CBBit["notify"] = 4 /\ CBBit["indicate"] = 5
      /\ CBBit["notifyEncryptionRequired"] = 8
      /\ CBBit["indicateEncryptionRequired"] = 9
  BY DEF CBBit
<1>2. Bit[p] \in {4, 5, 8, 9}
  BY <1>1 DEF Subscribable
<1>3. /\ Bit["broadcast"] = 0 /\ Bit["read"] = 2 /\ Bit["writeWithoutResponse"] = 3
      /\ Bit["authenticatedSignedWrites"] = 7 /\ Bit["indicate"] = 6
      /\ Bit["indicateEncryptionRequired"] = 10 /\ Bit["writeSigned"] = 11
      /\ Bit["writeSignedWithoutResponse"] = 12 /\ Bit["writeAuxiliaries"] = 13
  BY DEF Bit
<1>4. p \in {"broadcast", "read", "writeWithoutResponse", "write", "notify",
             "indicate", "authenticatedSignedWrites", "extendedProperties",
             "notifyEncryptionRequired", "indicateEncryptionRequired",
             "writeSigned", "writeSignedWithoutResponse", "writeAuxiliaries"}
  BY DEF Properties, Bit
<1> QED
  BY <1>2, <1>3, <1>4

\* A characteristic that allows anything was ordered open: the permissions of a
\* builder are none unless they are set, and its properties are cast.
LEMMA AllowedIsOpen ==
    ASSUME NEW o \in Order, NEW a \in Access, a \in Allowed(Built(o))
    PROVE  Opens(o)
<1>1. CASE a \in Built(o).permissions
  BY <1>1 DEF Built, Opens, NoPermission, Order
<1>2. CASE Built(o).properties \cap Subscribable # {}
  <2>1. PICK q \in Subscribable : q \in Cast(o.properties)
    BY <1>2 DEF Built
  <2>2. PICK p \in o.properties : CBBit[q] = Bit[p]
    BY <2>1 DEF Cast
  <2>3. p \in Properties
    BY <2>2 DEF Order
  <2> QED
    BY <2>2, <2>3, CastOpens DEF Opens
<1> QED
  BY <1>1, <1>2 DEF Allowed

LEMMA BuiltTyped ==
    ASSUME NEW o \in Orders
    PROVE  Built(o) \in Characteristic
<1>1. Cast(o.properties) \in SUBSET CBProperties
  BY DEF Cast
<1> QED
  BY <1>1, OrdersAssumption DEF Built, Order, Characteristic, NoPermission

LEMMA BttestInvInit == BttestInit => BttestInv
<1> SUFFICES ASSUME BttestInit
             PROVE  BttestInv
  OBVIOUS
<1>1. BttestTypeOK
  <2>1. step \in 0..Len(Second)
    BY SecondHasSix DEF BttestInit
  <2>2. requests \in Seq(Access)
    BY DEF BttestInit
  <2> QED
    BY <2>1, <2>2 DEF BttestInit, BttestTypeOK
<1>2. powered \in BOOLEAN
  BY DEF BttestInit, Init
<1>3. AsOrdered
  BY DEF BttestInit, AsOrdered
<1> QED
  BY <1>1, <1>2, <1>3 DEF BttestInv

\* The operations of the second block.
LEMMA SecondBlockInv == BttestInv /\ SecondBlock => BttestInv'
<1> SUFFICES ASSUME BttestInv, SecondBlock
             PROVE  BttestInv'
  OBVIOUS
<1>1. BttestTypeOK /\ powered \in BOOLEAN /\ AsOrdered
  BY DEF BttestInv
<1>2. /\ step' \in 0..Len(Second)
      /\ UNCHANGED <<powered, order, requests, parentless, killed>>
  <2>1. PICK op : BeginsSecond(op)
    BY DEF SecondBlock, CreateManager, Build, AddService, StartAdvertising,
           StopAdvertising, DestroyManager
  <2>2. /\ step < 6 /\ step' = step + 1
        /\ UNCHANGED <<powered, order, requests, parentless, killed>>
    BY <2>1, SecondHasSix DEF BeginsSecond, vars
  <2>3. step \in 0..6
    BY <1>1, SecondHasSix DEF BttestTypeOK
  <2> QED
    BY <2>2, <2>3, SecondHasSix
<1>3. Built(order) \in Characteristic
  BY <1>1, BuiltTyped DEF BttestTypeOK
<1>4. CASE CreateManager \/ DestroyManager
  <2>1. UNCHANGED <<service, adding, published, advertising, connected>>
    BY <1>4 DEF CreateManager, DestroyManager, serving
  <2> QED
    BY <1>1, <1>2, <2>1 DEF BttestInv, BttestTypeOK, AsOrdered
<1>5. CASE Build
  <2>1. /\ service' = service \cup {Built(order)}
        /\ UNCHANGED <<adding, published, advertising, connected>>
    BY <1>5 DEF Build, serving
  <2> QED
    BY <1>1, <1>2, <1>3, <2>1 DEF BttestInv, BttestTypeOK, AsOrdered
<1>6. CASE AddService
  <2>1. /\ adding' \subseteq service
        /\ UNCHANGED <<service, published, advertising, connected>>
    BY <1>6 DEF AddService
  <2> QED
    BY <1>1, <1>2, <2>1 DEF BttestInv, BttestTypeOK, AsOrdered
<1>7. CASE StartAdvertising \/ StopAdvertising
  <2>1. /\ advertising' \in BOOLEAN
        /\ UNCHANGED <<service, adding, published, connected>>
    BY <1>1, <1>7 DEF StartAdvertising, StopAdvertising
  <2> QED
    BY <1>1, <1>2, <2>1 DEF BttestInv, BttestTypeOK, AsOrdered
<1> QED
  BY <1>4, <1>5, <1>6, <1>7 DEF SecondBlock

\* The steps of the delegate, of CoreBluetooth and of the central role.
LEMMA OtherInv ==
    ASSUME BttestInv, [BttestNext]_allVars, ~SecondBlock
    PROVE  BttestInv'
<1>1. BttestTypeOK /\ powered \in BOOLEAN /\ AsOrdered
  BY DEF BttestInv
<1>2. ASSUME UNCHANGED peripheralVars, UNCHANGED powered
      PROVE  BttestInv'
  BY <1>1, <1>2 DEF peripheralVars, serving, BttestInv, BttestTypeOK, AsOrdered
<1>3. CASE FirstBlock \/ CentralHandler \/ HearSome \/ UNCHANGED allVars
  <2>1. UNCHANGED peripheralVars
    BY <1>3 DEF FirstBlock, CentralHandler, HearSome, allVars
  <2>2. Application => UNCHANGED powered
    BY DEF Application, Create, SetParent, Assign, Assigned, StartScanning,
                StopScanning, Destroy, radio
  <2>3. Handler => UNCHANGED powered
    BY DEF Handler, HandlePower, HandleDiscovery, Test, Call, radio
  <2>4. (\E p \in Peripherals : Hear(p)) => UNCHANGED powered
    BY DEF Hear
  <2>5. UNCHANGED allVars => UNCHANGED powered
    BY DEF allVars, vars
  <2>6. UNCHANGED powered
    BY <1>3, <2>2, <2>3, <2>4, <2>5 DEF FirstBlock, CentralHandler, HearSome
  <2> QED
    BY <1>2, <2>1, <2>6
<1>4. CASE HandleRequest
  <2>1. /\ requests # <<>> /\ requests' = Tail(requests)
        /\ killed' \in BOOLEAN /\ parentless' = TRUE
        /\ UNCHANGED <<step, order, service, adding, published, advertising,
                       connected, powered>>
    BY <1>4 DEF HandleRequest, serving, vars
  <2>2. Opens(order)
    BY <1>1, <2>1 DEF AsOrdered
  <2>3. requests' \in Seq(Access)
    BY <1>1, <2>1 DEF BttestTypeOK
  <2> QED
    BY <1>1, <2>1, <2>2, <2>3 DEF BttestInv, BttestTypeOK, AsOrdered
<1>5. CASE Connect
  BY <1>1, <1>5 DEF Connect, vars, BttestInv, BttestTypeOK, AsOrdered
<1>6. CASE Publish \/ RefuseService
  <2>1. /\ adding' = {} /\ published' \subseteq published \cup adding
        /\ UNCHANGED <<step, order, service, advertising, connected, requests,
                       parentless, killed, powered>>
    BY <1>6 DEF Publish, RefuseService, vars
  <2> QED
    BY <1>1, <2>1 DEF BttestInv, BttestTypeOK, AsOrdered
<1>7. ASSUME NEW a \in Access, Request(a)
      PROVE  BttestInv'
  <2>1. /\ requests' = Append(requests, a)
        /\ UNCHANGED <<step, order, service, adding, published, advertising,
                       connected, parentless, killed, powered>>
    BY <1>7 DEF Request, serving, vars
  <2>2. a \in Allowed(Built(order))
    BY <1>1, <1>7 DEF Request, AsOrdered
  <2>3. Opens(order)
    BY <1>1, <2>2, AllowedIsOpen, OrdersAssumption DEF BttestTypeOK
  <2>4. requests' \in Seq(Access)
    BY <1>1, <2>1 DEF BttestTypeOK
  <2> QED
    BY <1>1, <2>1, <2>3, <2>4 DEF BttestInv, BttestTypeOK, AsOrdered
<1>8. CASE SwitchRadio
  <2>1. /\ advertising' = FALSE /\ connected' = FALSE
        /\ adding' \subseteq adding /\ published' \subseteq published
        /\ UNCHANGED <<step, order, service, requests, parentless, killed>>
        /\ powered' = ~powered
    BY <1>8 DEF SwitchRadio, Switch
  <2>2. BttestTypeOK'
    BY <1>1, <2>1 DEF BttestTypeOK
  <2>3. AsOrdered'
    BY <1>1, <2>1 DEF AsOrdered
  <2> QED
    BY <1>1, <2>1, <2>2, <2>3 DEF BttestInv
<1> QED
  BY <1>3, <1>4, <1>5, <1>6, <1>7, <1>8 DEF BttestNext

\* What is served, what is asked for and what was ordered are inductive together.
THEOREM BttestInvariant == BttestSpec => []BttestInv
<1>1. BttestInv /\ [BttestNext]_allVars => BttestInv'
  BY SecondBlockInv, OtherInv
<1> QED
  BY <1>1, BttestInvInit, PTL DEF BttestSpec

\* The variables of the peripheral role keep their types.
THEOREM BttestTypeCorrect == BttestSpec => []BttestTypeOK
  BY BttestInvariant, PTL DEF BttestInv

\* The delegate without a parent does no harm to an application that opens no
\* characteristic to remote devices, by a permission or by a property that the
\* cast makes one to subscribe to.
THEOREM Harmless == BttestSpec => []HarmlessUnlessOpened
<1>1. BttestInv => HarmlessUnlessOpened
  BY DEF BttestInv, AsOrdered, HarmlessUnlessOpened
<1> QED
  BY <1>1, BttestInvariant, PTL
=============================================================================

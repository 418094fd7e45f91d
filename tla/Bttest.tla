------------------------------- MODULE Bttest -------------------------------
(***************************************************************************)
(* bttest (src/src/test.cpp): the central role of module Central, and when *)
(* that adapter is gone the peripheral role, PeripheralAdapter (cbtle.h),  *)
(* PeripheralManager (bt.h) and its delegate PeripheralManagerDelegate     *)
(* (bt.mm), with the builders of a service (btle.h, types.mm).  The two    *)
(* share the process, the radio and nothing else.                          *)
(*                                                                         *)
(* The peripheral's delegate is never told of its parent.  It handles, on  *)
(* a queue of its own, what remote devices ask of the published service,   *)
(* and would pass each request on through the null pointer.  Its manager   *)
(* is never released, so it goes on when the adapter is gone.  The         *)
(* handlers with empty bodies have no step: what CoreBluetooth says of the *)
(* radio and of a service that was to be added goes unheard.               *)
(***************************************************************************)
EXTENDS Central

\* The bits of CharacteristicProperties, which leaves out the second one.
Bit ==
    [broadcast |-> 0, read |-> 2, writeWithoutResponse |-> 3, write |-> 4,
     notify |-> 5, indicate |-> 6, authenticatedSignedWrites |-> 7,
     extendedProperties |-> 8, notifyEncryptionRequired |-> 9,
     indicateEncryptionRequired |-> 10, writeSigned |-> 11,
     writeSignedWithoutResponse |-> 12, writeAuxiliaries |-> 13]

\* The bits of CBCharacteristicProperties, which has no such gap.
CBBit ==
    [broadcast |-> 0, read |-> 1, writeWithoutResponse |-> 2, write |-> 3,
     notify |-> 4, indicate |-> 5, authenticatedSignedWrites |-> 6,
     extendedProperties |-> 7, notifyEncryptionRequired |-> 8,
     indicateEncryptionRequired |-> 9]

Properties == DOMAIN Bit
CBProperties == DOMAIN CBBit
Permissions == {"read", "write"}

\* What is asked of a CharacteristicBuilder.
Order == [properties : SUBSET Properties,
          setsPermissions : BOOLEAN,
          permissions : SUBSET Permissions]

CONSTANT
    Orders      \* what an application like bttest may ask for

ASSUME OrdersAssumption == Orders \subseteq Order

\* What CoreBluetooth is given.
Characteristic == [properties : SUBSET CBProperties,
                   permissions : SUBSET Permissions]

VARIABLES
    step,           \* how many operations of the second block have begun
    order,          \* the application's characteristic, as it orders it
    service,        \* the characteristics of the ManagedService
    adding,         \* what CoreBluetooth was asked to serve, until it answers
    published,      \* the characteristics that CoreBluetooth serves
    advertising,    \* CBPeripheralManager.isAdvertising
    connected,      \* a remote device found the advertisement
    requests,       \* the queue of the peripheral's delegate
    parentless,     \* a request was passed on through the null pointer
    killed          \* the process died of that

serving == <<adding, published, advertising, connected>>

peripheralVars == <<step, order, service, serving, requests, parentless, killed>>

allVars == <<vars, peripheralVars>>

Access == {"read", "write", "subscribe"}

-----------------------------------------------------------------------------
(***************************************************************************)
(* The application's second block                                          *)
(***************************************************************************)

\* What bttest does with its peripheral, in order.
Second == <<"create", "build", "add", "advertise", "stop", "destroy">>

\* The second block begins when the first one has ended.
BeginsSecond(op) ==
    /\ ~dead
    /\ ~killed
    /\ at = Len(Main)
    /\ step < Len(Second)
    /\ Second[step + 1] = op
    /\ step' = step + 1
    /\ UNCHANGED <<vars, order, requests, parentless, killed>>

\* The delegate and its CBPeripheralManager come into being; nothing sets the
\* delegate's parent, then or later.
CreateManager ==
    /\ BeginsSecond("create")
    /\ UNCHANGED <<service, serving>>

\* MUTANT: a builder grants everything unless it is told otherwise.
EveryPermission == Permissions

\* CharacteristicBuilder's permissions_{}, value-initialised.
NoPermission == {}

\* A set of CharacteristicProperties cast to CBCharacteristicProperties: its
\* bits are kept, and mean something else.
Cast(properties) == {q \in CBProperties : \E p \in properties : CBBit[q] = Bit[p]}

\* MUTANT: the properties are given for the permissions.
BuiltSwapped(o) == [properties |-> Cast(o.properties), permissions |-> o.properties]

\* The characteristic that CharacteristicBuilder builds.
Built(o) ==
    [properties |-> Cast(o.properties),
     permissions |-> IF o.setsPermissions THEN o.permissions ELSE NoPermission]

\* ServiceBuilder's service gets its characteristic.
Build ==
    /\ BeginsSecond("build")
    /\ service' = service \cup {Built(order)}
    /\ UNCHANGED serving

\* CoreBluetooth is asked to add the service, and will answer.  It takes none
\* while the radio is off.
AddService ==
    /\ BeginsSecond("add")
    /\ adding' = IF powered THEN service ELSE {}
    /\ UNCHANGED <<service, published, advertising, connected>>

\* Nor does it advertise then, or before it has said that the radio is on.
\* Nobody waits for that, or for the service to be there.
StartAdvertising ==
    /\ BeginsSecond("advertise")
    /\ advertising' \in {FALSE, powered}
    /\ UNCHANGED <<service, adding, published, connected>>

StopAdvertising ==
    /\ BeginsSecond("stop")
    /\ advertising' = FALSE
    /\ UNCHANGED <<service, adding, published, connected>>

\* The PeripheralManager goes; what it allocated stays and is served on.
DestroyManager ==
    /\ BeginsSecond("destroy")
    /\ UNCHANGED <<service, serving>>

SecondBlock ==
    \/ CreateManager
    \/ Build
    \/ AddService
    \/ StartAdvertising
    \/ StopAdvertising
    \/ DestroyManager

-----------------------------------------------------------------------------
(***************************************************************************)
(* The peripheral's delegate                                               *)
(***************************************************************************)

\* didReceiveReadRequest, didReceiveWriteRequests, didSubscribeToCharacteristic
\* call parent->on_..., whose test of a callback reads through a null "this":
\* that kills the process or goes unnoticed.
HandleRequest ==
    /\ ~dead
    /\ ~killed
    /\ requests # <<>>
    /\ requests' = Tail(requests)
    /\ parentless' = TRUE
    /\ killed' \in BOOLEAN
    /\ UNCHANGED <<vars, step, order, service, serving>>

-----------------------------------------------------------------------------
(***************************************************************************)
(* CoreBluetooth and the devices in range                                  *)
(***************************************************************************)

\* What is served from now on; the delegate is told, to no effect.
Publish ==
    /\ ~dead
    /\ ~killed
    /\ adding # {}
    /\ published' = published \cup adding
    /\ adding' = {}
    /\ UNCHANGED <<vars, step, order, service, advertising, connected, requests,
                   parentless, killed>>

\* The service is refused, its UUID being reserved, say, or the radio's state not
\* yet being known: didAddService does not look at the error that it is given.
RefuseService ==
    /\ ~dead
    /\ ~killed
    /\ adding # {}
    /\ adding' = {}
    /\ UNCHANGED <<vars, step, order, service, published, advertising, connected,
                   requests, parentless, killed>>

Connect ==
    /\ ~dead
    /\ ~killed
    /\ advertising
    /\ connected' = TRUE
    /\ UNCHANGED <<vars, step, order, service, adding, published, advertising,
                   requests, parentless, killed>>

\* The properties that let a remote device subscribe.
Subscribable == {"notify", "indicate", "notifyEncryptionRequired",
                 "indicateEncryptionRequired"}

\* What CoreBluetooth lets a remote device do with a characteristic.
Allowed(chr) ==
    {a \in Access :
        \/ a \in chr.permissions
        \/ a = "subscribe" /\ chr.properties \cap Subscribable # {}}

\* A connected device may ask, also when the advertising has stopped: the
\* request goes to the delegate's own queue.
Request(a) ==
    /\ ~dead
    /\ ~killed
    /\ connected
    /\ \E chr \in published : a \in Allowed(chr)
    /\ Len(requests) < MaxEvents
    /\ requests' = Append(requests, a)
    /\ UNCHANGED <<vars, step, order, service, serving, parentless, killed>>

\* The radio is switched: connections and advertising end, and services may
\* have to be added anew.
SwitchRadio ==
    /\ ~killed
    /\ Switch
    /\ advertising' = FALSE
    /\ connected' = FALSE
    /\ adding' \in {adding, {}}
    /\ published' \in {published, {}}
    /\ UNCHANGED <<step, order, service, requests, parentless, killed>>

\* A discovery, while there is a scan.
HearSome ==
    /\ ~killed
    /\ \E p \in Peripherals : Hear(p)
    /\ UNCHANGED peripheralVars

FirstBlock ==
    /\ ~killed
    /\ Application
    /\ UNCHANGED peripheralVars

\* The central's queue, which runs on through the second block.
CentralHandler ==
    /\ ~killed
    /\ Handler
    /\ UNCHANGED peripheralVars

BttestInit ==
    /\ Init
    /\ step = 0
    /\ order \in Orders
    /\ service = {}
    /\ adding = {}
    /\ published = {}
    /\ advertising = FALSE
    /\ connected = FALSE
    /\ requests = <<>>
    /\ parentless = FALSE
    /\ killed = FALSE

BttestNext ==
    \/ FirstBlock
    \/ CentralHandler
    \/ SecondBlock
    \/ HandleRequest
    \/ HearSome
    \/ Publish
    \/ RefuseService
    \/ Connect
    \/ \E a \in Access : Request(a)
    \/ SwitchRadio

BttestSpec == BttestInit /\ [][BttestNext]_allVars

\* The thread of the central's queue runs as long as there is something to
\* handle.
BttestFairSpec == BttestSpec /\ WF_allVars(CentralHandler)

-----------------------------------------------------------------------------
(***************************************************************************)
(* Properties                                                              *)
(***************************************************************************)

BttestTypeOK ==
    /\ step \in 0..Len(Second)
    /\ order \in Orders
    /\ service \subseteq Characteristic
    /\ adding \subseteq Characteristic
    /\ published \subseteq Characteristic
    /\ advertising \in BOOLEAN
    /\ connected \in BOOLEAN
    /\ requests \in Seq(Access)
    /\ parentless \in BOOLEAN
    /\ killed \in BOOLEAN

\* An order that opens a characteristic to remote devices: by a permission, or
\* by a property that the cast makes one of Subscribable.  A characteristic to
\* write is opened, one to indicate is not.
Opens(o) ==
    \/ o.setsPermissions /\ o.permissions # {}
    \/ o.properties \cap {"write", "notify", "extendedProperties",
                          "notifyEncryptionRequired"} # {}

\* The delegate without a parent stays harmless for an application that opens
\* nothing: bttest, whose characteristic has the property "read" and no
\* permission.
HarmlessUnlessOpened == parentless => Opens(order)

\* test.cpp:38-41: the service is added, and when that call has returned it is
\* advertised, for five seconds.  Whoever finds the advertisement would find the
\* service.  It may not be there yet, or never.
ServedWhenFound == connected => published # {}
=============================================================================

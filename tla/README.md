# Verification of hrafn

hrafn is an unfinished messenger over a mesh of Bluetooth LE links: C++23
coroutines on asio for the core, Objective-C++ over CoreBluetooth for the radio,
libsodium for keys. There is one executable in the build, `bttest`; the core in
`src/src/hrafn.cpp` is written and not yet wired to a `main`. This directory
holds TLA+ models of the parts that have behaviour, the TLC configurations that
check them and TLAPS proofs about them. File paths below are those of the
repository with `src/` before them; `hrafn.cpp` alone means `src/src/hrafn.cpp`.

## 1. The system

| part | code | state | operations | interacts with |
|---|---|---|---|---|
| Syncer | `hrafn.cpp:168-208` | `messages_`, and per running pass the loop's two iterators and `sync_one`'s copy | `add_message`, `sync`, `sync_one` | writes to the connection's stream |
| Connections | `hrafn.cpp:54-166, 232-283` | `Connection` (a local of `start_connection`), `Context.running`, `stream->valid()` | `start_connection`, `negotiate`, `handle_messages`, `periodic_sync` | Stream, Syncer, io_context |
| Multiplexer | `hrafn.cpp:285-317` | the stream received last | `run` | channel of new streams, spawns connections |
| Stream | `src/net/net.h` | external | `read`, `write`, `valid` | |
| Central role | `bt.mm:133-248`, `bt.h:189-225`, `cbtle.h:5-33` | the delegate's `parent`, the queue, `on_discovered_` | construct, `on_discovery`, scan, stop, destroy | CoreBluetooth calls the delegate on a queue of its own |
| Peripheral role | `bt.mm:255-439`, `bt.h:227-382`, `cbtle.h:35-70` | the delegate's `parent` (never set), six callbacks, the service | build, `add_service`, advertise, stop, requests | as above |
| GATT wrappers | `types.mm`, `helpers.h`, `bt.mm:8-105` | handles only | forwarding | CoreBluetooth |
| BLE abstraction | `src/btle/btle.h`, `types.h` | two adapters, builders | `StreamMultiplexer::run`, `build` | both roles |
| Multiaddr | `src/utils/multiaddr.{h,cpp}` | a tokenizer's position | `parse`, `parse_raw`, `to_string` | UUID, varint, version |
| UUID, varint, version | `src/utils/` | none | parse, print, encode, decode | |
| Bloom filter | `src/utils/bloom_filter.h` | bits, `k_` (never set) | `put`, `might_contain`, `estimated_n` | |
| Keys | `src/crypto/crypto.{h,cpp}` | key bytes, wiped on move and destruction | generate, parse, move, destroy; sign, verify, seal, open, convert | libsodium |
| KDF chain | `src/crypto/kdf_chain.*` | chain key | `next_key` | libsodium |
| CRC-64 | `src/crypto/crc64.*` | none | table and loop | |

The last four rows have no caller in `src/` yet, but for types and `PeerId::from_pubkey`.

What is hard in it:

* **Suspension.** Between two `co_await`s anything may happen: messages are
  added to the vector a pass walks with bare iterators, the link goes, the node is
  told to stop, another connection runs. (Syncer, Connections.)
* **One thread and a spin.** `start_connection` ends in an empty loop,
  `while (running && valid) {}`, on the io_context's only thread. It keeps the
  `Connection` alive for the two detached coroutines that hold references to it,
  and it keeps them from running. (Connections.)
* **Ignored results.** The result and length of reads and the results of writes
  are dropped. (Syncer, Connections.)
* **Threads without a lock.** The dispatch queue of a delegate calls what the
  application assigns and destroys; no delegate is ever released, so both go on
  when their adapters are gone, and the peripheral's does not know its parent.
  Whether the radio is on, and what came of adding a service, is never asked.
  (Central and peripheral role.)
* **Two enumerations that nearly agree.** The properties of a characteristic are
  numbered one bit above CoreBluetooth's and cast. (Peripheral role.)
* **Two grammars and a printer.** What is printed must be what is parsed, and
  the tokenizer's end condition is off by one. (Multiaddr.)
* **What nobody initialised.** `k_` of a Bloom filter is set by no constructor;
  what a seed leaves behind the 32 bytes that are replaced stays in a chain key;
  the move constructor of a private key copies onto itself. (Bloom filter, KDF
  chain, Keys.)

Per part, what makes it correct: a *Syncer pass* offers exactly what its contact
is owed, in order, framed, and ends; a *connection* is used only after its
handshake, its coroutines never outlive it while the link is up, and it stops when
told to; the *multiplexer* accepts nothing after shutdown but what was under way; the
*central role* reports what was announced and is quiet when it is gone; the
*peripheral role* is found with its service (`bttest_served` shows that it need not be), and is not reached by requests it cannot
answer; a
*Multiaddr* says what the text says and survives printing; a *tokenizer* reads back
what was written; a *filter* never denies what was put in; two *chains* agree
exactly if HMAC cannot tell their seeds apart, and repeat nothing; a *private key* is in one place.
`PROJECT.json`
lists every component with its status and every hazard with its line and the
properties that watch it.

## 2. Modules

| module | models | kind |
|---|---|---|
| `Syncer` | the message store and its passes | component |
| `ConnectionProtocol` | the life of connections without executor and store | abstract specification |
| `Node` | multiplexer, connections and executor; EXTENDS `Syncer`, whose actions are steps of its sync coroutines; implements `ConnectionProtocol` | composition |
| `Central` | bttest's central half against the dispatch queue | component |
| `Bttest` | the peripheral role, after and beside the central one; EXTENDS `Central`, whose actions are steps of it | composition |
| `Varint` | `encode_varuint` and `decode_varuint` | pure algorithm |
| `RawTokenizer` | the raw tokenizer and its calls; EXTENDS `Varint` | component |
| `Multiaddr` | the two parsers and the printer; EXTENDS `RawTokenizer`, which its raw parser calls | pure algorithm |
| `Membership` | a set that is asked about its members | abstract specification |
| `BloomFilter` | `StaticBloomFilter`; implements `Membership` | component |
| `KDFChain` | the chain keys of several ends of a conversation | component |
| `Keys` | private keys in their places | component |
| `Library` | a program that uses one of the last three | composition |
| `MCSyncer`, `MCNode`, `MCBttest` | contacts and characteristics for TLC | model checking |
| `MCLibrary` | `Library` and `Multiaddr` side by side, for one run | model checking |
| `SyncerProofs`, `NodeProofs`, `CentralProofs`, `BttestProofs`, `MultiaddrProofs` | theorems and proofs of the module of that name, the last one also of those it extends | proofs |
| `ProtocolProofs` | `Node` implements `ConnectionProtocol` | proofs |
| `LibraryProofs` | theorems about `BloomFilter`, `KDFChain`, `Keys` and `Library` | proofs |
| `Induction` | lemmas about induction, recursion and flattening that name no program; used by the proofs of `Library` and `Multiaddr` | proofs |

In `multiaddr_version` `Multiaddr` and in `central_quiet` `Central` are given their constants in the `.cfg` alone. A
definition under a comment that begins with `MUTANT` is a plausible mistake in
the definition that follows; no specification uses it. It stands there to be put
in place of that definition, to see the property that watches it fail.

### Syncer

A step is one run of the coroutine `sync` between two `co_await`s, so a state is one in
which every active pass is suspended in a write (`stage`: in the header's, in the
bytes'). `at` and `end` are the range-for's iterators as positions: `end` is
evaluated once (`Begin`). `AddMessage` is `push_back`: whether it reallocates is
chosen freely, and if it does every suspended pass becomes `stale`. What a stale
pass does is undefined in C++, and the model allows each outcome of an ordinary
build: what it reads through an old iterator is the old message or garbage (0),
taken for wanted or not, or the process dies (`ScanCrashes`). `copy` is the `Message`
parameter of `sync_one`, a copy, which is why the bytes still match the header.
`pass` records the writes of the current pass with their results; both results
are dropped by the code (`HeaderWritten`, `BytesWritten`). A message is its
timestamp and recipients, all that `sync` looks at. `last_sync` and the contact's
key never change in the code and are constants.

### Node

The executor is three variables: `stack`, the coroutines on the thread's call
stack, of which the last runs; `queue`, the ready ones; and `pending`, those in
an operation. Each coroutine has a pc whose values name its suspension points
and spawns. `Spawn` puts a new coroutine on top of its creator or at the queue's
end, since the versions of asio differ in that; `Await` suspends, or goes on at
once if `InlineIO` lets a stream complete an operation on the spot. A read leaves
one of `PeerSends`: a message that fills the zeroed buffer of 1024 bytes, a
shorter one, other bytes, or an error, and since the whole buffer is given to the
parser only the first parses (`Parses`). The spin has no step: it changes
nothing, and it keeps the stack occupied until `Leave`. `Dangle` is the use of a
destroyed `Connection` by the reader, or by the sync coroutine in a pass or in a loop
condition that has found the node running; it either ends the process or goes
unnoticed, and then `valid()` may say anything (`Sees`). That such uses happen after
a shutdown or the loss of a link is how the code is; no line of it says otherwise, so
there is no property that they do not, only ones that say when they cannot (`KeepAlive`)
and what else kills the process (`FollowsProtocol`).
`periodic_sync` constructs its timer and never awaits it, so pass follows pass.
`late` is a ghost for `OneLateAccept`.

What no code under `src/` does yet is the environment, free to do it at any time
or never: `Arrive` (a stream is sent to the channel, which has no buffer),
`Post` (somebody calls `add_message`), `Shutdown` (somebody clears `running`). `Post`
is on the io_context's thread, because `add_message` takes no lock. The
initial state is the one after the multiplexer was spawned. Assumed: a stream that
became invalid does not become valid again.

### ConnectionProtocol

What the runtime amounts to for one who knows nothing of coroutines: a
connection is accepted, shakes hands, is refused or opened, starts a reader, then
a sync coroutine and holds the thread until it is closed; the two have reasons
to finish; the process dies only of what uses a closed connection or walks the store. The
mapping is by the pc of `start_connection`:

| `startPc` | `phase` |
|---|---|
| none | none |
| write, read, parse | handshake |
| spawnReader, spawnSync | open |
| spin | holding |
| done | closed |

`users` are the reader and the sync coroutine that have not returned (or not been
resumed for the first time), `on` is `running`, `up` is `valid`, and `alive` says that the
process has not died. What the mapping must bear out is `Owners = {}` in `Open`: nothing in
the code excludes a second connection, only that a spinning coroutine keeps
the thread. The protocol's two promises are stated as leads-to formulas: its own
fairness, mapped, would contain ENABLED of actions under a substitution that TLC
does not evaluate.

### Central

The application's thread runs the list `Main`, bttest's first block, with the two
halves of the constructor and of the callback's assignment as steps of their own.
The handler's thread takes events from the delegate's serial queue and runs
`on_discovered` in two steps, the test of the callback and its call. The radio
may be off at the beginning and may be switched at any time; a scan asked for while it
is off has no effect. Undefined behaviour met is recorded in `misused` and kills
the process or goes unnoticed. The data of an advertisement is always empty in the code
(its loop body does nothing), so an event is the peripheral's identity.

### Bttest

When the first block has ended the application runs the list `Second`: create the
adapter, build a service with one characteristic, add it, advertise, stop, leave.
`order` is what the application asks of `CharacteristicBuilder`. Its properties are
the bits of `bt.h:12-26`, which leave out the second; CoreBluetooth's have no such gap,
and the constructor casts (`Cast`): "read" is served as write without response, "write" as notify, "notify" as
indicate, "indicate" as authenticated signed writes. So a device may subscribe to what
was to be written. bttest asks for "read" and sets no permissions, which comes
out as nothing that a remote device may do.

`AddService` asks CoreBluetooth, which publishes the service later (`Publish`) or refuses
it (`RefuseService`); `didAddService` drops the error. While the radio is off, adding and
advertising have no effect and the code does not notice, and the same may befall
it with the radio on, before CoreBluetooth has said so. Devices connect to what is advertised and may then
ask for what the published characteristics allow, also after the advertising has
stopped. A request goes to the peripheral delegate's own queue; the handler
passes it on through a parent pointer that nothing ever sets (`HandleRequest`),
which kills the process or goes unnoticed. What the application could do with the
six callbacks of `PeripheralManager` is therefore out of reach and has no
variables. The queue, handler and radio of `Central` run on: a discovery left over
from the first block may still be handled in the second. Switching the radio
ends advertising and connections, and CoreBluetooth may forget the services.

### Varint, RawTokenizer

A number is split into groups of bits, the lowest first. The width is a constant:
64 bits in groups of seven need ten groups of which the last has room for one
bit, and the runs use five bits in groups of two, which need three of which the
last has room for one bit. A shift beyond the width (an eleventh group in C++,
a fourth here) is undefined, and the decoder may return any value.

A tokenizer is its bytes and its position. `read<T>`, `read_bytes`,
`read_uleb128` and `varuint32` are operations of their own, in any order and number
up to `MaxCalls`; an answer is a set, empty for `nullopt`. `varuint32` has gone past
its varint when it finds it too large, and `read<T>` refuses the last T of the input
(`Fits`). `words` says of which numbers the
input is the encoding, if it was made so.

### Multiaddr

A text is the tokens `StrSplit` makes of it; a token is its kind, its value and
whether it is spelled as `to_string` spells that value. A raw address is bytes.
One step is one iteration of a parser's loop. An accepted address is printed and
the result parsed (`Reparse`). `"/btle"` makes `parse` throw; a varint cut off by
the end of the input ends `parse_raw` with what it has so far. Protocol codes above
255 name no protocol and are not told apart. The code of btle is a varint of
two bytes (150, 1 in the code, and 6, 1 with the runs' width). A third form of
input is not parsed but handed to a tokenizer that is used by itself (`UseTokenizer`).

### BloomFilter

The hash of every item and the value of `k_` are whatever they are when the object is built,
and stay so. The walk of `put` and `might_contain` is arithmetic of `size_t` with its
width as a constant (`HashRange`); the lower "half" of the hash is the whole of it, as its mask is
all ones, and the first round does not move. `estimated_n` may divide by zero or
take a logarithm of it, and is a number otherwise. The size is a constant: the
floating-point arithmetic of `calculate_bloom_filter_config` is left out. As it is
written the template cannot be instantiated (`decltype(item)` is a reference,
for which `std::hash` has no specialisation); the model is of what the code
says when that is mended.

### KDFChain

HMAC is a constructor: its two halves tell what it was keyed with. That is the chain key as HMAC
takes it, filled up with zeros to a block of 128 bytes, or hashed if it is longer (`Salt`): two
chain keys that differ in zeros at their ends are one key if both fit in a block. A chain key
is its first 32 bytes (`head`), what a longer seed leaves behind them and
`next_key` never replaces (`tail`), and how many zeros are at its end (`zeros`); `size` tells
whether there is room for 32 bytes and whether it fits in a block. A shorter one than
32 bytes is overrun by the copy: the process dies (`Overrun`) or goes on (`NextKey`).

### Keys

A private key is the pair it belongs to. Objects appear in places by generation, by parsing and
by moves, and go by destruction. The move constructor copies `bytes_` onto itself and then wipes the other
object, so that both are zeros (`MovedBytes`); `from_base64` moves, so that what it returns is
zeros, too. What is done with a key (signing, verifying, sealing, opening) changes no state and
is left out.

### Library

Nothing is shared by the last three modules and none has a caller. `Library` lets
a program use one of them at a time, chosen at the beginning, so that one run
checks all three without multiplying their states. `MCLibrary` adds programs that use
`Multiaddr` to that run.

## 3. Runs

| run | cfg | shows |
|---|---|---|
| `syncer` | `MCSyncer` | one contact, two keys, two timestamps, vectors of up to three, full and direct passes, reallocation under a pass: framed, exact until disturbed, in order throughout, and it ends |
| `syncer_wire` | `MCSyncerWire` | *violated*: bytes reach the stream without their header when the header's write fails |
| `node_safety` | `MCNodeSafety` | two connections and one message, inline completion allowed: no coroutine outlives its connection on a live link, handshake first, one spinner, under which everything else stands still, one late accept; every step is one of `ConnectionProtocol` |
| `node_live` | `MCNodeLive` | two connections under fairness, the promises of `ConnectionProtocol`: a connection that holds the thread lets go of it when its link is lost or the node is stopped, and shutdown ends every sync coroutine for good |
| `node_store` | `MCNodeStore` | one connection, three messages, under fairness, with passes that may kill the process: every step is one of `Syncer`, and shutdown ends a pass over a growing store |
| `node_starved` | `MCNodeStarved` | *violated*: on a link that stays up a message that was begun is never completed, since the spin keeps the thread |
| `node_handshake` | `MCNodeHandshake` | *violated*: between two nodes that run this code the handshake fails, being shorter than the buffer that is parsed |
| `bttest` | `MCBttest` | two devices, three queued events, four characteristics: the callback is never read while assigned, the parent is known, nothing announced is dropped, and all of it is reported, in both blocks; the peripheral role is harmless unless its order opens a characteristic, by a permission or through the cast |
| `bttest_served` | `MCBttestServed` | *violated*: bttest is found and connected to without its service, for whose addition nobody waits |
| `central_quiet` | `MCCentralQuiet` | *violated*: a discovery queued before `stop_scanning` reaches the adapter after the end of its block |
| `multiaddr_version` | `MCMultiaddrVersion` | *violated*: `"/1.2.3/btle"` is accepted although the test says a version before a protocol is not |
| `library` | `MCLibrary` | every hash of three items in a filter of five bits, with `k_` up to 3: nothing put in is denied (every step is one of `Membership`), and the estimate is a number while bits must be left; two chains of every kind of seed: they agree exactly if their seeds are alike, and no key is given out twice or is a later chain key; two key pairs in three places: a key is in at most as many objects as it was made; texts of up to five tokens, raw addresses of up to seven bytes: nothing is invented, every accepted address survives printing, what was read of raw bytes is codes and addresses and nothing else; numbers written as varints are read back by any mixture of the two varint calls |

`PROJECT.json` quotes, for each violated property, the line of the repository
that says otherwise.

**Bounds.** `MaxMessages` = 3 lets a pass be reallocated between two wanted
messages with one more to go. `syncer` has one connection: passes share nothing but the
vector, and what another connection does to it is `add_message`; two are checked
in `node_safety`, and the theorems of `Syncer` are about any number. Two connections are what one-at-a-time claims need
(`OneSpinner`, `OneLateAccept`); a third is like the second, and the proofs do
not depend on the number. `MaxEvents` = 3 holds an event of each device and one of
the radio at once. The four `Orders` are bttest's, one with a permission, one that the cast
opens ("write") and one that it closes ("indicate"); the theorem is about every order. `MaxTokens` = 5 is an empty token, a protocol, its address, a
version and one more; `MaxBytes` = 7 is two raw protocols (three bytes each with
`kSize` = 1 in place of 16) and a byte more, and no branch looks at more than one
address. The bytes 1, 4 and 6 contain the two of the code of btle and one
that continues a varint of zero bits. Two numbers of five bits take up to six bytes,
enough for one of each length beside another, and three calls read past both.
Sixteen hash values in halves of four give a stride of any residue, five bits of
filter are no divisor of sixteen, so that the two reductions differ, and three rounds are one more than
the two that coincide. Four keys of a chain let one end be several ahead, and
one zero at the end of a seed is as good as many. Three
places let a key be moved on while one is made anew. No symmetry is used.

**Deadlock** is not checked: each model may stop for good reason (the process
died, the node was shut down, the parser returned), and the liveness properties
are what rules out stopping too early.

**Fairness.** `Node`: weak fairness of the thread (`Thread`), which the operating
system does schedule, and of each operation of a stream (`Complete`): a
Bluetooth read or write ends, if only with an error when the link goes. Nothing is
assumed of the environment: no stream need arrive, no link break, nobody need shut the
node down. `InlineIO` is FALSE in the runs under fairness, since a stream that
always completes on the spot lets one coroutine keep the thread for ever. `Syncer`:
weak fairness of the completion of writes. `Central` and `Bttest`: weak fairness of the central
dispatch queue's thread. `Multiaddr` and `Library` have only safety properties.

## 4. Proofs

The theorems hold for every value of the constants that satisfies the named
assumptions of the modules (types of the bounds, the two contact functions total, the
listener and the power event distinct from connections and devices). The number of
connections, messages, keys and devices is arbitrary.

* `SyncerProofs`. `TypeCorrect`; `Framed` from `FramedInv`, which adds to framing
  that the last write of a pass suspended in its bytes is the header of `copy` (`Paired`);
  `Exact` from `ExactInv`, which adds where an undisturbed pass stands (`Located`)
  and that its headers are what is owed up to there (`ExactFor`). The step that
  carries it is `ScanFinds`: the first wanted position after `at` adds just one
  message to what is owed. `OffersInOrder` from `OrderInv`: what was sent lies
  at or before `at`, strictly before it while a header is under way (`Behind`), and
  `at` only moves forward (`ScanForward`), also over freed storage. `PassesShrink`: what
  bounds the writes a pass has left is two for each position from `at` to `end`, raised by
  nothing and lowered by each write. It is the safety half of `PassEnds`; the other half is that a
  write completes.
* `NodeProofs`. `NodeUsesSyncer`: each step of a node is a step of `Syncer` or
  leaves its variables alone, so `Spec` of `Syncer` is implemented; with it
  `NodeFramed` and `NodePassesShrink` carry over what was proved of passes. `NodeTypeCorrect`
  from `NodeInv`, which adds how the multiplexer boots (`Boot`: a received stream
  is a connection that was not started). The bookkeeping the rest needs is `PlaceInv`: an unfinished
  coroutine is in exactly one place of the executor (`InOnePlace`), and
  what is not spawned yet has no later pc (`Fresh`, `SpawnedOnce`); each move of the
  executor (suspend, return, spawn, dispatch, complete) has a lemma of its own.
  `KeptAlive` and `HandshakeFirst` from `LifeInv`: the pc of `start_connection`
  tells whether the `Connection` exists, and it is destroyed only when the node was
  stopped or the link lost (`Lifetime`). `SpinsAlone` from `SpinInv`: a spinner is
  the running coroutine, or the one just below the sync coroutine it has spawned
  (`SpinOnTop`), so there cannot be two. `StarvedUntilLost`, from the same invariant: when
  that sync coroutine is not on top, no coroutine but the spinner can take a step, and the
  spinner takes none while its link is up and the node runs. It says of every behaviour and any number of connections what
  `node_starved` shows in one. `ShortHandshakesFail` does so for `node_handshake`: under
  its hypothesis, that no peer sends a handshake that fills the buffer, no
  connection is ever established and nothing exchanged. `NoMoreWrites` is the safety half of
  `ShutdownEndsSync`: a stopped node stays stopped, begins no pass, and those under way have only fewer
  writes left.
  `LateOnce` from `LateInv`: after shutdown only a multiplexer that is already in
  its receive can spawn, and then its loop condition is false.
* `ProtocolProofs`. `NodeFollowsProtocol`: every step of a node is a step of
  `ConnectionProtocol` or changes nothing it sees. Most steps map by the pc they move, the
  ends of the detached coroutines and the uses of a destroyed `Connection` by `Lifetime`. The
  step that takes an invariant of its own is `Open`, which nothing in the code guards: until it
  spins, a `start_connection` that is past its handshake is on top of the stack or right below the
  reader it has spawned (`OpenOnTop`); with `SpinOnTop` no other one can be in
  its handshake's last step (`OwnersNone`).
* `CentralProofs`. One invariant, `CentralInv`: types; the application's
  position in `Main` determines `parent` and `callback`, and there is nothing
  on the queue but power events before the scan (`Ordered`); only a freed callback is
  ever misused (`OnlyFreed`); the handler holds a device when it is in
  `on_discovered` (`HandsFull`); nothing is dropped. `CentralTypeCorrect`,
  `NeverTorn`, `ParentIsKnown` and `NothingDropped` follow.
* `BttestProofs`. Each step of bttest is a step of `Central` or leaves it alone (the lemma
  `BttestIsCentral`), so the theorems above hold in it (`BttestCentral`).
  `BttestTypeCorrect` and `Harmless` from `BttestInv`: whatever is built, added or published came from
  the order, and a request in the queue was allowed by something published; what the
  cast makes of a property that is not one of the four of `Opens` is nothing to subscribe to.
* `LibraryProofs`, the filter. `NoFalseNegatives`: `BloomFilter` implements `Membership`. The
  invariant (`FilterInv`) says that the bits of every member are set, by the very
  walk that a question takes; it needs that `hash` and `k` stay what they were
  when the object was built. Neither the hash, nor the size, nor `k_` matters.
  `EstimateIsDefined`: one `put` sets at most `k_ - 1` bits (one if `k_` is 1), because its first two
  rounds coincide (`ProbesAreFew`), so there are never more bits set than `FewSet` says, and as
  few puts as the property speaks of leave some.
* `LibraryProofs`, keys and chains. `OneHolderAlways`: only generation adds a
  holder. `ChainsAgreeAlways` and `KeysFreshAlways` from `ChainInv`: the
  chain key and the sources of an end's message keys are derived from its seed one after the
  other (`Derived`), and keys are the same only at the same place of chains whose seeds are alike
  (`SameKeys`). That they are alike is that their salts are the same (`AlikeSalts`), and a step
  changes nothing of a salt but its head (`Salts`). What carries it is `NextIsNew`: if the key about to be returned were that of
  another end, the keys before it would have been the same one step earlier, down to the
  seeds. It needs neither a depth nor an induction over data, only the one over steps.
  `LibraryUsesParts` carries all of it over to programs (`LibraryKeepsPromises`,
  `LibraryTypeCorrect`).
* `MultiaddrProofs`, varints. `DecodeEncode`: for every width of numbers and of groups,
  what `encode_varuint` writes is decoded to the same number from the same bytes, whatever follows.
  Encoding is a recursive function of the number, decoding a fold over bytes; what they have in
  common is `IsVarint` (every byte but the last continues, no more bytes than the number needs,
  and their `Value` is the number), which holds of every encoding, as there is no least
  number of whose encoding it does not, and gives the decoder's answer. `EncodingsDiffer` follows: no encoding begins another one.
* `MultiaddrProofs`, the tokenizer. `WrittenVarintsAreRead` from `VarintsInv`: as long as only
  varints were asked for, the position is the end of the encodings of as many words as were
  answered, so that `DecodeEncode` tells the next answer (`NextWord`). The property is part of
  its own invariant.
* `MultiaddrProofs`, the parsers. `MultiaddrTypeCorrect` from `TypeInv`: no form of input is
  read beyond its end. `ParsersAdvance`: an iteration that does not return has read on, so both
  parsers end. `RawAddressIsRead` from `RawInv`, which has the positions between which each protocol lies: a
  step adds one (`OneMoreProtocol`), whose code is the whole of the varint that was read
  (`CodeIsWhole`). `AddressSurvivesRoundTrip` from `PrintedInv`: what
  is parsed after printing is the text of the address (`IsText`, `ToTextIsText`), the parser
  stands before its empty token or after as many pairs of tokens as it has parsed protocols, and these are the first
  ones of the address. `TextSaysTheAddress` from `SaidInv`: what was read so far, in canonical
  spelling and without empty tokens, is what the printer would make of what was parsed so far
  (`TextGrows`, `PrintsGrow`).
* `Induction`. The prover cannot instantiate the library's induction theorems, which take an
  operator. Here induction is about sets (`NatSetInduction`: a set of naturals with zero and
  with the successor of each element has them all) and recursion about functions
  (`NatRecursion`), both from the well-foundedness of the naturals. With them
  `FlattenSeqDef` finds the values of the community modules' `FlattenSeq`. Families of
  values are functions under a name (`IsIteration`, `IsFlattening`), whose definition a proof opens
  only where it needs it.

Each invariant and action property of a passing run, and each refinement, is stated by a theorem. Only
model-checked are the liveness properties (`PassEnds`, `ClosesInTime`,
`ShutdownEndsSync`, `HeardIsReported`), since the prover has no rule for fairness here; the
safety half of the first is `PassesShrink`, that of the third `NoMoreWrites`.

## 5. What is not modelled

* `StreamMultiplexer`: it registers a discovery callback and advertises, but
  nothing scans, no service is added and the paths of data are commented out:
  no event can reach it. `Bttest` models the two adapters it would use.
* The GATT wrappers, error macros, generated messages, `types.h`: no
  state or decisions of their own. The delegate in `bt.mm:8-105` that would fill
  services and characteristics is never attached to a peripheral.
* CRC-64: a table of constants and one loop, for which a test vector says more.
* `calculate_bloom_filter_config`: floating-point arithmetic.
* `PeerId`, `Packet::from_proto` and the text forms of public keys: formatting and
  copies of fields.
* `cbtle.cpp` (stale, in no build file), the BlueZ header (empty),
  `BluetoothDiscovery`, `bluetooth_service` and `main` (empty or commented out).
* `connect`, `cancel_connect` and `retreive_peripheral` of the central role: they
  forward to CoreBluetooth and its answers come to handlers that do nothing.
* The words of an advertisement, and the handlers of the peripheral's delegate whose
  bodies are empty; `didReceiveConnection` and `didLoseConnection` are no methods of
  its protocol and are never called.
* Memory ordering of `Context.running`: it is one relaxed flag that is only ever
  cleared, read by one thread.
* Signing, verifying, sealing, opening and the conversion of keys: calls of libsodium that
  change no state and that nothing in `src/` makes.
* Contents of messages, bytes of keys, characters of a UUID.

## 6. Plan

Done: `Syncer`, `ConnectionProtocol`, `Node`, `Central`, `Bttest`, `Multiaddr` with
its tokenizer, and the modules of `Library`, with the proofs of section 4. What has
behaviour in this code is modelled, and each safety property of the passing runs is
proved, with the safety halves of two of the four liveness properties. To come are those of the
other two: that nothing but the return of a spinner is left to do on its thread when its
link is lost, and that the central role's queue gets shorter when nothing is announced.

A module that joins shares a run with others where its constants allow it, as
those of `Library` do.

-------------------------------- MODULE Node --------------------------------
(***************************************************************************)
(* The runtime of a hrafn node (src/src/hrafn.cpp): one io_context run by  *)
(* one thread, and on it the coroutines of                                 *)
(*                                                                         *)
(*   ConnectionMultiplexer::run   accepts streams and starts connections,  *)
(*   start_connection(c)          negotiates, spawns the next two, then    *)
(*                                spins until the link is lost,            *)
(*   handle_messages(c)           reads headers and bytes, the "reader",   *)
(*   periodic_sync(c)             runs passes of the Syncer over c.        *)
(*                                                                         *)
(* A coroutine runs until it awaits something that is not ready; nothing   *)
(* preempts it.  The Connection is a local variable of start_connection:   *)
(* the reader and the sync coroutine, which are detached, hold a reference *)
(* to it.                                                                  *)
(***************************************************************************)
EXTENDS Syncer

CONSTANTS
    Listener,   \* pairs with "mux" in the identity of the multiplexer
    InlineIO,   \* may a stream complete an operation without suspending
    PeerSends   \* what a read may find, see ReadOutcome

ASSUME ListenerAssumption == Listener \notin Connections
ASSUME InlineIOAssumption == InlineIO \in BOOLEAN

Mux == <<"mux", Listener>>
Start(c) == <<"start", c>>
Reader(c) == <<"reader", c>>
Sync(c) == <<"sync", c>>

Coroutines ==
    {Mux} \cup ({"start", "reader", "sync"} \X Connections)

VARIABLES
    running,    \* Context.running
    valid,      \* stream->valid() of the stream of c
    stack,      \* the coroutines on the thread's call stack, the last one runs
    queue,      \* the io_context's queue of ready coroutines, first in first out
    pending,    \* the coroutines suspended in an operation under way
    muxPc,
    startPc,
    readerPc,
    syncPc,
    incoming,   \* the stream the multiplexer received last
    life,       \* the Connection object of c
    dangled,    \* the process died of a reference to a destroyed Connection
    late        \* GHOST: connections spawned after running was cleared

outside == <<running, valid>>
executor == <<stack, queue, pending>>
muxVars == <<muxPc, incoming, late>>
connVars == <<startPc, readerPc, syncPc, life>>
runtimeVars == <<outside, executor, muxVars, connVars, dangled>>
vars == <<runtimeVars, syncerVars>>

MuxPc == {"check", "receive", "done"}
StartPc == {"none", "write", "read", "parse", "spawnReader", "spawnSync",
            "spin", "done"}
ReaderPc == {"none", "check", "header", "bytes", "done"}
SyncPc == {"none", "check", "pass", "done"}
Life == {"none", "live", "destroyed"}

NodeTypeOK ==
    /\ running \in BOOLEAN
    /\ valid \in [Connections -> BOOLEAN]
    /\ stack \in Seq(Coroutines)
    /\ queue \in Seq(Coroutines)
    /\ pending \subseteq Coroutines
    /\ muxPc \in MuxPc
    /\ startPc \in [Connections -> StartPc]
    /\ readerPc \in [Connections -> ReaderPc]
    /\ syncPc \in [Connections -> SyncPc]
    /\ incoming \in Connections \cup {Listener}
    /\ life \in [Connections -> Life]
    /\ dangled \in BOOLEAN
    /\ late \subseteq Connections
    /\ TypeOK

\* The multiplexer has been spawned on the io_context and has not run yet.
NodeInit ==
    /\ running = TRUE
    /\ valid = [c \in Connections |-> TRUE]
    /\ stack = <<>>
    /\ queue = <<Mux>>
    /\ pending = {}
    /\ muxPc = "check"
    /\ startPc = [c \in Connections |-> "none"]
    /\ readerPc = [c \in Connections |-> "none"]
    /\ syncPc = [c \in Connections |-> "none"]
    /\ incoming = Listener
    /\ life = [c \in Connections |-> "none"]
    /\ dangled = FALSE
    /\ late = {}
    /\ Init

-----------------------------------------------------------------------------
(***************************************************************************)
(* Reads                                                                   *)
(***************************************************************************)

\* What a read leaves in the zeroed buffer of 1024 bytes: a message that fills
\* it, a shorter one with zeros after it, other bytes, or nothing at all.  The
\* error and the length of a read are not looked at.
ReadOutcome == {"exact", "short", "malformed", "error"}

ASSUME PeerSendsAssumption == PeerSends \subseteq ReadOutcome

-----------------------------------------------------------------------------
(***************************************************************************)
(* The executor (asio)                                                     *)
(***************************************************************************)

Alive == ~crashed /\ ~dangled

Runs(k) ==
    /\ Alive
    /\ stack # <<>>
    /\ stack[Len(stack)] = k

Continue == UNCHANGED executor

Pop == stack' = SubSeq(stack, 1, Len(stack) - 1)

\* co_return of the running coroutine.
Return ==
    /\ Pop
    /\ UNCHANGED <<queue, pending>>

Suspend(k) ==
    /\ Pop
    /\ pending' = pending \cup {k}
    /\ UNCHANGED queue

\* co_await of an operation of a stream.
Await(k) ==
    \/ Suspend(k)
    \/ InlineIO /\ Continue

\* co_spawn from the io_context's own thread: depending on the version of asio
\* the new coroutine runs at once, on top of its creator, or is queued.
Spawn(k) ==
    \/ /\ stack' = Append(stack, k)
       /\ UNCHANGED <<queue, pending>>
    \/ /\ queue' = Append(queue, k)
       /\ UNCHANGED <<stack, pending>>

\* The thread, back in io_context::run, resumes the next ready coroutine.
Dispatch ==
    /\ Alive
    /\ stack = <<>>
    /\ queue # <<>>
    /\ stack' = <<Head(queue)>>
    /\ queue' = Tail(queue)
    /\ UNCHANGED <<outside, pending, muxVars, connVars, dangled, syncerVars>>

\* The operation k awaits completes: k becomes ready.
Complete(k) ==
    /\ Alive
    /\ k \in pending
    /\ pending' = pending \ {k}
    /\ queue' = Append(queue, k)
    /\ UNCHANGED <<outside, stack, muxVars, connVars, dangled, syncerVars>>

-----------------------------------------------------------------------------
(***************************************************************************)
(* ConnectionMultiplexer::run                                              *)
(***************************************************************************)

\* MUTANT: the multiplexer accepts for ever.
AcceptAlways == TRUE

\* The multiplexer's loop condition.
Accepting == running

MuxCheck ==
    /\ Runs(Mux)
    /\ muxPc = "check"
    /\ IF Accepting
       THEN muxPc' = "receive" /\ Suspend(Mux)
       ELSE muxPc' = "done" /\ Return
    /\ UNCHANGED <<outside, incoming, late, connVars, dangled, syncerVars>>

\* MUTANT: the stream is not taken out of the channel.
ArriveUntaken(c) ==
    /\ Alive
    /\ Mux \in pending
    /\ startPc[c] = "none"
    /\ pending' = pending \ {Mux}
    /\ queue' = Append(queue, Mux)
    /\ UNCHANGED <<outside, stack, muxVars, connVars, dangled, syncerVars>>

\* A stream is sent through the channel, which has no buffer: the receiver has
\* to be waiting.
Arrive(c) ==
    /\ Alive
    /\ Mux \in pending
    /\ startPc[c] = "none"
    /\ incoming' = c
    /\ pending' = pending \ {Mux}
    /\ queue' = Append(queue, Mux)
    /\ UNCHANGED <<outside, stack, muxPc, late, connVars, dangled, syncerVars>>

\* The received stream gets its connection; running is not looked at again.
MuxSpawn ==
    /\ Runs(Mux)
    /\ muxPc = "receive"
    /\ muxPc' = "check"
    /\ startPc' = [startPc EXCEPT ![incoming] = "write"]
    /\ Spawn(Start(incoming))
    /\ late' = IF running THEN late ELSE late \cup {incoming}
    /\ UNCHANGED <<outside, incoming, readerPc, syncPc,
                   life, dangled, syncerVars>>

-----------------------------------------------------------------------------
(***************************************************************************)
(* start_connection and Connection::negotiate                              *)
(***************************************************************************)

\* MUTANT: negotiate does not wait for the peer's handshake.
NegotiateBlindly(c) ==
    /\ Runs(Start(c))
    /\ startPc[c] = "write"
    /\ startPc' = [startPc EXCEPT ![c] = "spawnReader"]
    /\ Await(Start(c))
    /\ UNCHANGED <<outside, muxVars, readerPc, syncPc,
                   life, dangled, syncerVars>>

\* negotiate writes its handshake; the result of the write is dropped.
NegotiateWrite(c) ==
    /\ Runs(Start(c))
    /\ startPc[c] = "write"
    /\ startPc' = [startPc EXCEPT ![c] = "read"]
    /\ Await(Start(c))
    /\ UNCHANGED <<outside, muxVars, readerPc, syncPc,
                   life, dangled, syncerVars>>

NegotiateRead(c) ==
    /\ Runs(Start(c))
    /\ startPc[c] = "read"
    /\ startPc' = [startPc EXCEPT ![c] = "parse"]
    /\ Await(Start(c))
    /\ UNCHANGED <<outside, muxVars, readerPc, syncPc,
                   life, dangled, syncerVars>>

\* ParseFromArray is given the whole buffer, and a zero tag is no end of a
\* message: only one that fills the buffer parses.
Parses(outcome) == outcome = "exact"

\* The handshake parses, or start_connection returns before there is a
\* Connection.
NegotiateParse(c) ==
    /\ Runs(Start(c))
    /\ startPc[c] = "parse"
    /\ \E outcome \in PeerSends :
          IF Parses(outcome)
          THEN /\ startPc' = [startPc EXCEPT ![c] = "spawnReader"]
               /\ life' = [life EXCEPT ![c] = "live"]
               /\ Continue
          ELSE /\ startPc' = [startPc EXCEPT ![c] = "done"]
               /\ Return
               /\ UNCHANGED life
    /\ UNCHANGED <<outside, muxVars, readerPc, syncPc, dangled, syncerVars>>

SpawnReader(c) ==
    /\ Runs(Start(c))
    /\ startPc[c] = "spawnReader"
    /\ startPc' = [startPc EXCEPT ![c] = "spawnSync"]
    /\ readerPc' = [readerPc EXCEPT ![c] = "check"]
    /\ Spawn(Reader(c))
    /\ UNCHANGED <<outside, muxVars, syncPc, life, dangled, syncerVars>>

\* MUTANT: the spin waits on the executor instead of holding the thread.
SpawnSyncAndYield(c) ==
    /\ Runs(Start(c))
    /\ startPc[c] = "spawnSync"
    /\ startPc' = [startPc EXCEPT ![c] = "spin"]
    /\ syncPc' = [syncPc EXCEPT ![c] = "check"]
    /\ Pop
    /\ queue' = queue \o <<Sync(c), Start(c)>>
    /\ UNCHANGED <<outside, pending, muxVars, readerPc, life, dangled, syncerVars>>

SpawnSync(c) ==
    /\ Runs(Start(c))
    /\ startPc[c] = "spawnSync"
    /\ startPc' = [startPc EXCEPT ![c] = "spin"]
    /\ syncPc' = [syncPc EXCEPT ![c] = "check"]
    /\ Spawn(Sync(c))
    /\ UNCHANGED <<outside, muxVars, readerPc, life, dangled, syncerVars>>

\* MUTANT: there is no spin.
SpinNever(c) == FALSE

\* MUTANT: the spin does not look at the link.
SpinWhileRunning(c) == running

\* The condition of the empty loop that ends start_connection.
SpinHolds(c) == running /\ valid[c]

\* while (running && valid) {} keeps the thread and changes nothing; there is
\* no step for it.  When it ends, the Connection goes out of scope.
Leave(c) ==
    /\ Runs(Start(c))
    /\ startPc[c] = "spin"
    /\ ~SpinHolds(c)
    /\ startPc' = [startPc EXCEPT ![c] = "done"]
    /\ life' = [life EXCEPT ![c] = "destroyed"]
    /\ Return
    /\ UNCHANGED <<outside, muxVars, readerPc, syncPc, dangled, syncerVars>>

-----------------------------------------------------------------------------
(***************************************************************************)
(* handle_messages and periodic_sync                                       *)
(***************************************************************************)

\* What connection.stream->valid() returns; anything once the Connection is
\* gone.
Sees(c) == IF life[c] = "destroyed" THEN BOOLEAN ELSE {valid[c]}

\* The loop condition; then the read of a header.
ReaderCheck(c) ==
    /\ Runs(Reader(c))
    /\ readerPc[c] = "check"
    /\ \E seen \in Sees(c) :
          IF seen
          THEN readerPc' = [readerPc EXCEPT ![c] = "header"] /\ Await(Reader(c))
          ELSE readerPc' = [readerPc EXCEPT ![c] = "done"] /\ Return
    /\ UNCHANGED <<outside, muxVars, startPc, syncPc, life, dangled, syncerVars>>

\* A header that does not parse is skipped, otherwise its bytes are read.
ReaderHeader(c) ==
    /\ Runs(Reader(c))
    /\ readerPc[c] = "header"
    /\ \E outcome \in PeerSends :
          IF Parses(outcome)
          THEN readerPc' = [readerPc EXCEPT ![c] = "bytes"] /\ Await(Reader(c))
          ELSE readerPc' = [readerPc EXCEPT ![c] = "check"] /\ Continue
    /\ UNCHANGED <<outside, muxVars, startPc, syncPc, life, dangled, syncerVars>>

ReaderBytes(c) ==
    /\ Runs(Reader(c))
    /\ readerPc[c] = "bytes"
    /\ readerPc' = [readerPc EXCEPT ![c] = "check"]
    /\ Continue
    /\ UNCHANGED <<outside, muxVars, startPc, syncPc, life, dangled, syncerVars>>

\* After the Syncer's step, the sync coroutine is in a write, or its pass is
\* over and it goes on to the loop condition: the steady_timer of the loop is
\* constructed and never awaited.
AfterWrite(c) ==
    IF stage'[c] = "idle"
    THEN syncPc' = [syncPc EXCEPT ![c] = "check"] /\ Continue
    ELSE syncPc' = [syncPc EXCEPT ![c] = "pass"] /\ Await(Sync(c))

\* MUTANT: the sync coroutine does not look at running.
SyncWhileValid(c, seen) == seen

\* The loop condition of periodic_sync.
SyncGoesOn(c, seen) == running /\ seen

\* The loop condition; then the mutex, which no other coroutine locks, and the
\* call of sync.
SyncCheck(c) ==
    /\ Runs(Sync(c))
    /\ syncPc[c] = "check"
    /\ \E seen \in Sees(c) :
          IF SyncGoesOn(c, seen)
          THEN /\ Begin(c, "full")
               /\ AfterWrite(c)
          ELSE /\ syncPc' = [syncPc EXCEPT ![c] = "done"]
               /\ Return
               /\ UNCHANGED syncerVars
    /\ UNCHANGED <<outside, muxVars, startPc, readerPc, life, dangled>>

\* MUTANT: the first write that fails ends the pass.
SyncWrittenOrGivesUp(c) ==
    /\ Runs(Sync(c))
    /\ syncPc[c] = "pass"
    /\ \/ WriteCompletes(c)
       \/ Stop(c) /\ UNCHANGED <<messages, mode, end, stale, pass, crashed>>
    /\ AfterWrite(c)
    /\ UNCHANGED <<outside, muxVars, startPc, readerPc, life, dangled>>

SyncWritten(c) ==
    /\ Runs(Sync(c))
    /\ syncPc[c] = "pass"
    /\ WriteCompletes(c)
    /\ AfterWrite(c)
    /\ UNCHANGED <<outside, muxVars, startPc, readerPc, life, dangled>>

SyncCrashes(c) ==
    /\ Runs(Sync(c))
    /\ syncPc[c] = "pass"
    /\ ScanCrashes(c)
    /\ UNCHANGED runtimeVars

\* A detached coroutine runs on with a reference to a destroyed Connection:
\* that kills the process, or goes unnoticed (the steps above).  Before a pass
\* the sync coroutine looks at running first, and then at the Connection.
Dangle(c) ==
    /\ \/ Runs(Reader(c))
       \/ Runs(Sync(c)) /\ (syncPc[c] = "pass" \/ running)
    /\ life[c] = "destroyed"
    /\ dangled' = TRUE
    /\ UNCHANGED <<outside, executor, muxVars, connVars, syncerVars>>

-----------------------------------------------------------------------------
(***************************************************************************)
(* The environment                                                         *)
(***************************************************************************)

\* The radio loses the peer.  ASSUMED: a stream that became invalid stays so.
LoseLink(c) ==
    /\ Alive
    /\ valid[c]
    /\ valid' = [valid EXCEPT ![c] = FALSE]
    /\ UNCHANGED <<running, executor, muxVars, connVars, dangled, syncerVars>>

\* Somebody clears Context.running, from any thread (no code under src/ does).
Shutdown ==
    /\ Alive
    /\ running
    /\ running' = FALSE
    /\ UNCHANGED <<valid, executor, muxVars, connVars, dangled, syncerVars>>

\* Somebody calls add_message, which takes no lock, on the io_context's thread.
Post(m) ==
    /\ ~dangled
    /\ stack = <<>>
    /\ AddMessage(m)
    /\ UNCHANGED runtimeVars

-----------------------------------------------------------------------------

StartStep(c) ==
    \/ NegotiateWrite(c)
    \/ NegotiateRead(c)
    \/ NegotiateParse(c)
    \/ SpawnReader(c)
    \/ SpawnSync(c)
    \/ Leave(c)

ReaderStep(c) == ReaderCheck(c) \/ ReaderHeader(c) \/ ReaderBytes(c)

SyncStep(c) == SyncCheck(c) \/ SyncWritten(c) \/ SyncCrashes(c)

\* The thread that runs the io_context.
Thread ==
    \/ Dispatch
    \/ MuxCheck
    \/ MuxSpawn
    \/ \E c \in Connections :
          StartStep(c) \/ ReaderStep(c) \/ SyncStep(c) \/ Dangle(c)

Environment ==
    \/ Shutdown
    \/ \E c \in Connections : Arrive(c) \/ LoseLink(c)
    \/ \E m \in Message : Post(m)

NodeNext ==
    \/ Thread
    \/ \E k \in Coroutines \ {Mux} : Complete(k)
    \/ Environment

NodeSpec == NodeInit /\ [][NodeNext]_vars

\* The thread is never descheduled for ever, and every operation of a stream
\* completes, if only with an error.  The environment owes nothing.
NodeFairSpec ==
    /\ NodeSpec
    /\ WF_vars(Thread)
    /\ \A k \in Coroutines \ {Mux} : WF_vars(Complete(k))

-----------------------------------------------------------------------------
(***************************************************************************)
(* Properties                                                              *)
(***************************************************************************)

\* As long as the node runs and the link of c is up, a reader or sync coroutine
\* that has not returned refers to a Connection that exists.  It is the spin of
\* start_connection that ensures it.
KeepAlive ==
    \A c \in Connections :
        /\ readerPc[c] \notin {"none", "done"} \/ syncPc[c] \notin {"none", "done"}
        /\ running
        /\ valid[c]
        => life[c] = "live"

\* Nothing is read from a stream as a message and nothing of the store is
\* written to it before its handshake was read and parsed.
NegotiatedFirst ==
    \A c \in Connections :
        \/ readerPc[c] # "none"
        \/ syncPc[c] # "none"
        \/ pass[c] # <<>>
        \/ stage[c] # "idle"
        => life[c] # "none"

\* However many streams arrive after running was cleared, at most one of them
\* gets a connection: the one whose receive was already under way.
OneLateAccept == \A c, d \in late : c = d

\* The thread belongs to at most one connection: no second start_connection
\* gets past its handshake while a first one spins.
OneSpinner ==
    \A c, d \in Connections :
        startPc[c] = "spin" /\ startPc[d] = "spin" => c = d

Elems(s) == {s[i] : i \in 1..Len(s)}

\* The spin of c holds the thread: the sync coroutine that was spawned before it
\* does not run on top of it.
Starves(c) == startPc[c] = "spin" /\ Sync(c) \notin Elems(stack)

\* While one connection spins, its own two coroutines and all the rest of the
\* node stand still until its link is lost or the node is stopped: whatever
\* completes and arrives meanwhile, no coroutine is resumed, nothing is written
\* and nothing is added to the store.
StarvedForGood ==
    [][\A c \in Connections :
          Starves(c) /\ SpinHolds(c)' =>
              /\ Starves(c)'
              /\ UNCHANGED <<stack, muxPc, connVars, dangled, syncerVars>>]_vars

\* Every step of the node is a step of the Syncer or none of its business: what
\* Syncer promises of a pass (FramedPass, ExactPass, InOrder) holds in the node.
UsesSyncer == Spec

\* The phase of a connection, from the coroutine that starts it.
Phase(pc) ==
    CASE pc = "none" -> "none"
      [] pc \in {"write", "read", "parse"} -> "handshake"
      [] pc \in {"spawnReader", "spawnSync"} -> "open"
      [] pc = "spin" -> "holding"
      [] pc = "done" -> "closed"

UsersOf(c) ==
    {u \in {"reader", "sync"} :
        \/ u = "reader" /\ readerPc[c] \notin {"none", "done"}
        \/ u = "sync" /\ syncPc[c] \notin {"none", "done"}}

Protocol == INSTANCE ConnectionProtocol WITH
    phase <- [c \in Connections |-> Phase(startPc[c])],
    users <- [c \in Connections |-> UsersOf(c)],
    on <- running,
    up <- valid,
    alive <- Alive

\* The runtime implements the protocol of its connections, however its
\* coroutines are interleaved, spawned and resumed: a connection goes through
\* its life in order, has the thread to itself from its handshake to its end,
\* and its coroutines end for a reason.
FollowsProtocol == Protocol!ProtocolSpec

\* A spinning start_connection returns when the link is lost or the node is
\* shut down.
ClosesInTime == Protocol!Closes

\* Once running is cleared, every sync coroutine comes to its end and none is
\* started, also one that is suspended in a write or accepted late.
ShutdownEndsSync == Protocol!Quiesces

\* hrafn.cpp:106-112: a connection is a handshake, then a stream of messages.
\* On a link that stays up between two nodes, a connection that was started
\* would get past its handshake.  A node's handshake is shorter than the 1024
\* bytes that the other one parses ("short"), so it never does.
HandshakeSucceeds ==
    \A c \in Connections :
        startPc[c] = "write" ~> \/ life[c] = "live"
                                \/ ~valid[c]
                                \/ ~running
                                \/ ~Alive

\* hrafn.cpp:106-112: after the handshake comes the "stream of messages", a
\* header "then bytes".  On a link that stays up, a message that was begun
\* would come to its bytes.  The spin of start_connection keeps the thread, so
\* the sync coroutine is never resumed.
MessageIsCompleted ==
    \A c \in Connections :
        stage[c] = "header" ~> \/ stage[c] # "header"
                               \/ ~valid[c]
                               \/ ~running
                               \/ ~Alive
=============================================================================

--------------------------- MODULE ProtocolProofs ---------------------------
(***************************************************************************)
(* A node implements the protocol of its connections, for any number of    *)
(* them.  What has to be shown is that a connection has the thread to      *)
(* itself from its handshake to its end, although nothing in the code asks *)
(* for that: until it spins its coroutine is on the call stack, under its  *)
(* reader at most, and then the spin keeps it there.                       *)
(***************************************************************************)
EXTENDS NodeProofs

-----------------------------------------------------------------------------
(***************************************************************************)
(* The thread from the handshake to the spin                               *)
(***************************************************************************)

Opened == {"spawnReader", "spawnSync"}

\* A start_connection that is past its handshake is the running coroutine, or
\* the reader it has just spawned runs on top of it.
OpenOnTop(c) ==
    startPc[c] \in Opened =>
        LET n == Len(stack)
        IN  /\ n > 0
            /\ \/ stack[n] = Start(c)
               \/ n > 1 /\ stack[n] = Reader(c) /\ stack[n - 1] = Start(c)

HoldInv == SpinInv /\ \A c \in Connections : OpenOnTop(c)

LEMMA OpenAlone ==
    ASSUME HoldInv, NEW c \in Connections, startPc[c] \in Opened,
           NEW k, Runs(k)
    PROVE  k \in {Start(c), Reader(c)}
  BY DEF HoldInv, OpenOnTop, Runs

LEMMA ReaderIds ==
    \A c, d \in Connections : Reader(c) = Reader(d) => c = d
  BY DEF Reader

LEMMA HoldStep == HoldInv /\ [NodeNext]_vars => HoldInv'
<1> SUFFICES ASSUME HoldInv, [NodeNext]_vars, NEW d \in Connections,
                    startPc'[d] \in Opened
             PROVE  OpenOnTop(d)'
  BY SpinStep DEF HoldInv, OpenOnTop
<1>0. ControlTyped /\ ExecutorTyped /\ PlaceInv /\ OpenOnTop(d)
  BY DEF HoldInv, SpinInv, PlaceInv, NodeInv
<1>1. ASSUME UNCHANGED <<stack, startPc>>
      PROVE  OpenOnTop(d)'
  BY <1>0, <1>1 DEF OpenOnTop
<1>2. CASE Dispatch
  BY <1>0, <1>2 DEF Dispatch, connVars, OpenOnTop
<1>3. CASE MuxCheck \/ MuxSpawn
  <2>1. Runs(Mux)
    BY <1>3 DEF MuxCheck, MuxSpawn
  <2>2. startPc[d] \notin Opened
    BY <2>1, OpenAlone, CoroutineIdsDiffer
  <2>3. startPc'[d] \notin Opened
    BY <1>0, <1>3, <2>2 DEF MuxCheck, MuxSpawn, connVars, ControlTyped, Opened
  <2> QED
    BY <2>3
<1>4. ASSUME NEW c \in Connections, StartStep(c)
      PROVE  OpenOnTop(d)'
  <2>1. /\ Runs(Start(c))
        /\ stack # <<>>
        /\ stack[Len(stack)] = Start(c)
        /\ Len(stack) \in Nat
        /\ Len(stack) > 0
    BY <1>0, <1>4
       DEF StartStep, NegotiateWrite, NegotiateRead, NegotiateParse,
           SpawnReader, SpawnSync, Leave, Runs, ExecutorTyped
  <2>2. d = c
    <3>1. CASE startPc[d] \in Opened
      BY <2>1, <3>1, OpenAlone, CoroutineIdsDiffer
    <3>2. CASE startPc[d] \notin Opened
      BY <1>0, <1>4, <3>2
         DEF StartStep, NegotiateWrite, NegotiateRead, NegotiateParse,
             SpawnReader, SpawnSync, Leave, ControlTyped, Opened
    <3> QED
      BY <3>1, <3>2
  <2>3. NegotiateParse(c) \/ SpawnReader(c)
    BY <1>0, <1>4, <2>2
       DEF StartStep, NegotiateWrite, NegotiateRead, SpawnSync, Leave,
           ControlTyped, Opened
  <2>4. stack' = stack \/ stack' = Append(stack, Reader(c))
    BY <1>0, <2>2, <2>3
       DEF NegotiateParse, SpawnReader, Continue, executor, Spawn, ControlTyped,
           Opened
  <2>5. CASE stack' = stack
    BY <2>1, <2>2, <2>5 DEF OpenOnTop
  <2>6. CASE stack' = Append(stack, Reader(c))
    <3>1. /\ Len(stack') = Len(stack) + 1
          /\ stack'[Len(stack) + 1] = Reader(c)
          /\ stack'[Len(stack)] = Start(c)
      BY <1>0, <2>1, <2>6 DEF ExecutorTyped
    <3> QED
      BY <2>1, <2>2, <3>1 DEF OpenOnTop
  <2> QED
    BY <2>4, <2>5, <2>6
<1>5. ASSUME NEW c \in Connections, ReaderStep(c)
      PROVE  OpenOnTop(d)'
  <2>1. Runs(Reader(c)) /\ startPc' = startPc
    BY <1>5 DEF ReaderStep, ReaderCheck, ReaderHeader, ReaderBytes
  <2>2. d = c
    BY <2>1, OpenAlone, CoroutineIdsDiffer, ReaderIds
  <2>3. /\ Len(stack) \in Nat
        /\ Len(stack) > 1
        /\ stack[Len(stack)] = Reader(c)
        /\ stack[Len(stack) - 1] = Start(c)
    BY <1>0, <2>1, <2>2, CoroutineIdsDiffer DEF OpenOnTop, Runs, ExecutorTyped
  <2>4. \/ stack' = stack
        \/ stack' = SubSeq(stack, 1, Len(stack) - 1)
    BY <1>5 DEF ReaderStep, ReaderCheck, ReaderHeader, ReaderBytes, Await,
                Suspend, Return, Pop, Continue, executor
  <2>5. CASE stack' = SubSeq(stack, 1, Len(stack) - 1)
    <3>1. Len(stack') = Len(stack) - 1 /\ stack'[Len(stack) - 1] = Start(c)
      BY <1>0, <2>3, <2>5 DEF ExecutorTyped
    <3> QED
      BY <2>2, <2>3, <3>1 DEF OpenOnTop
  <2> QED
    BY <1>1, <2>1, <2>4, <2>5
<1>6. ASSUME NEW c \in Connections, SyncStep(c)
      PROVE  OpenOnTop(d)'
  <2>1. Runs(Sync(c)) /\ startPc' = startPc
    BY <1>6 DEF SyncStep, SyncCheck, SyncWritten, SyncCrashes, runtimeVars, connVars
  <2> QED
    BY <2>1, OpenAlone, CoroutineIdsDiffer
<1>7. ASSUME NEW c \in Connections, Arrive(c) \/ LoseLink(c) \/ Dangle(c)
      PROVE  OpenOnTop(d)'
  BY <1>1, <1>7 DEF Arrive, LoseLink, Dangle, connVars, executor
<1>8. CASE Shutdown \/ (\E m \in Message : Post(m)) \/ UNCHANGED vars
           \/ \E k \in Coroutines : Complete(k)
  BY <1>1, <1>8 DEF Shutdown, Post, Complete, vars, runtimeVars, connVars, executor
<1> QED
  BY <1>2, <1>3, <1>4, <1>5, <1>6, <1>7, <1>8 DEF NodeNext, Thread, Environment

-----------------------------------------------------------------------------
(***************************************************************************)
(* What the protocol sees of the node                                      *)
(***************************************************************************)

PhaseOf == [c \in Connections |-> Phase(startPc[c])]

AllUsers == [c \in Connections |-> UsersOf(c)]

\* The pc of one start_connection moves.
LEMMA PhaseMoves ==
    ASSUME ControlTyped, NEW c \in Connections, NEW pc,
           startPc' = [startPc EXCEPT ![c] = pc]
    PROVE  PhaseOf' = [PhaseOf EXCEPT ![c] = Phase(pc)]
<1>1. \A d \in Connections : startPc'[d] = IF d = c THEN pc ELSE startPc[d]
  BY DEF ControlTyped
<1>2. \A d \in Connections :
         Phase(startPc'[d]) = IF d = c THEN Phase(pc) ELSE Phase(startPc[d])
  BY <1>1
<1> QED
  BY <1>2 DEF PhaseOf

\* The detached coroutines of one connection move.
LEMMA UsersMove ==
    ASSUME NEW c \in Connections,
           \A d \in Connections \ {c} :
              readerPc'[d] = readerPc[d] /\ syncPc'[d] = syncPc[d]
    PROVE  AllUsers' = [AllUsers EXCEPT ![c] = UsersOf(c)']
<1>1. \A d \in Connections \ {c} : UsersOf(d)' = UsersOf(d)
  BY DEF UsersOf
<1> QED
  BY <1>1 DEF AllUsers

LEMMA UsersStay ==
    ASSUME NEW c \in Connections,
           \A d \in Connections \ {c} :
              readerPc'[d] = readerPc[d] /\ syncPc'[d] = syncPc[d],
           UsersOf(c)' = UsersOf(c)
    PROVE  AllUsers' = AllUsers
<1>1. \A d \in Connections : UsersOf(d)' = UsersOf(d)
  BY DEF UsersOf
<1> QED
  BY <1>1 DEF AllUsers

LEMMA ConnVarsStay ==
    ASSUME UNCHANGED <<startPc, readerPc, syncPc>>
    PROVE  PhaseOf' = PhaseOf /\ AllUsers' = AllUsers
  BY DEF PhaseOf, AllUsers, UsersOf

\* Nothing but undefined behaviour ends the process.
LEMMA AliveStays ==
    ASSUME UNCHANGED <<crashed, dangled>>
    PROVE  Alive' = Alive
  BY DEF Alive

LEMMA RunsAlive ==
    ASSUME NEW k, Runs(k)
    PROVE  Alive
  BY DEF Runs

\* No write and no pass of the Syncer ends the process, but a scan of freed
\* storage.
LEMMA SyncerSurvives ==
    ASSUME NEW c \in Connections,
           Begin(c, "full") \/ WriteCompletes(c) \/ UNCHANGED syncerVars
    PROVE  crashed' = crashed
  BY DEF Begin, WriteCompletes, HeaderWritten, BytesWritten, syncerVars

-----------------------------------------------------------------------------
(***************************************************************************)
(* Every step is a step of the protocol                                    *)
(***************************************************************************)

ImplInv == HoldInv /\ LifeInv

\* MuxSpawn: a stream that was received is one that was not started.
LEMMA AcceptMaps == ImplInv /\ MuxSpawn => \E c \in Connections : Protocol!Accept(c)
<1> SUFFICES ASSUME ImplInv, MuxSpawn
             PROVE  Protocol!Accept(incoming) /\ incoming \in Connections
  OBVIOUS
<1>0. PlaceInv /\ NodeInv /\ ControlTyped
  BY DEF ImplInv, LifeInv, PlaceInv, NodeInv
<1>1. /\ Runs(Mux)
      /\ muxPc = "receive"
      /\ startPc' = [startPc EXCEPT ![incoming] = "write"]
      /\ UNCHANGED <<running, valid, readerPc, syncPc, dangled, crashed>>
  BY DEF MuxSpawn, outside, syncerVars
<1>2. Mux \notin pending
  BY <1>0, <1>1, RunningIsPlaced, CoroutineIds DEF PlaceInv, NodeInv
<1>3. startPc[incoming] = "none"
  BY <1>0, <1>1, <1>2 DEF PlaceInv, Fresh
<1>4. incoming \in Connections
  BY <1>0, <1>1, <1>2 DEF NodeInv, Boot, ControlTyped, Runs
<1>5. PhaseOf' = [PhaseOf EXCEPT ![incoming] = "handshake"]
  BY <1>0, <1>1, <1>4, PhaseMoves DEF Phase
<1>6. AllUsers' = AllUsers
  BY <1>1 DEF AllUsers, UsersOf
<1>7. Alive /\ Alive' = Alive
  BY <1>1, RunsAlive, AliveStays
<1> QED
  BY <1>1, <1>3, <1>4, <1>5, <1>6, <1>7
     DEF Protocol!Accept, Protocol!Moves, PhaseOf, AllUsers, Phase

\* A start_connection that gets past its handshake has no competitor: one that
\* was there before would be on top of the stack instead.
LEMMA OwnersNone ==
    ASSUME ImplInv, NEW c \in Connections, Runs(Start(c)), startPc[c] = "parse"
    PROVE  \A d \in Connections : startPc[d] \notin Opened \cup {"spin"}
  BY OpenAlone, SpinAlone, CoroutineIdsDiffer DEF ImplInv, HoldInv, Opened

\* The steps of start_connection.
LEMMA StartMaps ==
    ASSUME ImplInv, NEW c \in Connections, StartStep(c)
    PROVE  [Protocol!ProtocolNext]_Protocol!protocolVars
<1>0. PlaceInv /\ ControlTyped /\ SpawnedOnce(c) /\ Lifetime(c)
  BY DEF ImplInv, LifeInv, PlaceInv, NodeInv
<1>1. /\ Runs(Start(c))
      /\ UNCHANGED <<running, valid, dangled, crashed>>
  BY DEF StartStep, NegotiateWrite, NegotiateRead, NegotiateParse, SpawnReader,
         SpawnSync, Leave, outside, syncerVars
<1>2. Alive /\ Alive' = Alive
  BY <1>1, RunsAlive, AliveStays
<1>3. CASE NegotiateWrite(c) \/ NegotiateRead(c)
  <2>1. PICK pc \in {"read", "parse"} : startPc' = [startPc EXCEPT ![c] = pc]
    BY <1>3 DEF NegotiateWrite, NegotiateRead
  <2>2. PhaseOf[c] = "handshake" /\ Phase(pc) = "handshake"
    BY <1>3, <2>1 DEF NegotiateWrite, NegotiateRead, PhaseOf, Phase
  <2>3. PhaseOf' = [PhaseOf EXCEPT ![c] = "handshake"]
    BY <1>0, <2>1, <2>2, PhaseMoves
  <2>4. PhaseOf' = PhaseOf
    BY <2>2, <2>3 DEF PhaseOf
  <2>5. AllUsers' = AllUsers
    BY <1>3 DEF NegotiateWrite, NegotiateRead, AllUsers, UsersOf
  <2> QED
    BY <1>1, <1>2, <2>4, <2>5 DEF Protocol!protocolVars, PhaseOf, AllUsers
<1>4. CASE NegotiateParse(c)
  <2>1. /\ startPc[c] = "parse"
        /\ \/ startPc' = [startPc EXCEPT ![c] = "spawnReader"]
           \/ startPc' = [startPc EXCEPT ![c] = "done"]
    BY <1>4 DEF NegotiateParse
  <2>2. AllUsers' = AllUsers
    BY <1>4 DEF NegotiateParse, AllUsers, UsersOf
  <2>3. CASE startPc' = [startPc EXCEPT ![c] = "done"]
    <3>1. PhaseOf' = [PhaseOf EXCEPT ![c] = "closed"]
      BY <1>0, <2>3, PhaseMoves DEF Phase
    <3>2. Protocol!Refuse(c)
      BY <1>1, <1>2, <2>1, <2>2, <3>1
         DEF Protocol!Refuse, Protocol!Moves, PhaseOf, AllUsers, Phase
    <3> QED
      BY <3>2 DEF Protocol!ProtocolNext
  <2>4. CASE startPc' = [startPc EXCEPT ![c] = "spawnReader"]
    <3>1. PhaseOf' = [PhaseOf EXCEPT ![c] = "open"]
      BY <1>0, <2>4, PhaseMoves DEF Phase
    <3>2. \A d \in Connections : PhaseOf[d] \notin {"open", "holding"}
      BY <1>0, <1>1, <2>1, OwnersNone
         DEF PhaseOf, Phase, Opened, ControlTyped, StartPc
    <3>3. Protocol!Owners = {}
      BY <3>2 DEF Protocol!Owners, PhaseOf
    <3>4. Protocol!Open(c)
      BY <1>1, <1>2, <2>1, <2>2, <3>1, <3>3
         DEF Protocol!Open, Protocol!Moves, PhaseOf, AllUsers, Phase
    <3> QED
      BY <3>4 DEF Protocol!ProtocolNext
  <2> QED
    BY <2>1, <2>3, <2>4
<1>5. CASE SpawnReader(c)
  <2>1. /\ startPc[c] = "spawnReader"
        /\ startPc' = [startPc EXCEPT ![c] = "spawnSync"]
        /\ readerPc' = [readerPc EXCEPT ![c] = "check"]
        /\ syncPc' = syncPc
    BY <1>5 DEF SpawnReader
  <2>2. UsersOf(c) = {} /\ UsersOf(c)' = {"reader"}
    BY <1>0, <2>1 DEF UsersOf, SpawnedOnce, ControlTyped
  <2>3. AllUsers' = [AllUsers EXCEPT ![c] = {"reader"}]
    BY <1>0, <2>1, <2>2, UsersMove DEF ControlTyped
  <2>4. PhaseOf' = [PhaseOf EXCEPT ![c] = "open"]
    BY <1>0, <2>1, PhaseMoves DEF Phase
  <2>5. Protocol!StartReader(c)
    BY <1>1, <1>2, <2>1, <2>2, <2>3, <2>4
       DEF Protocol!StartReader, Protocol!Moves, PhaseOf, AllUsers, Phase
  <2> QED
    BY <2>5 DEF Protocol!ProtocolNext
<1>6. CASE SpawnSync(c)
  <2>1. /\ startPc[c] = "spawnSync"
        /\ startPc' = [startPc EXCEPT ![c] = "spin"]
        /\ syncPc' = [syncPc EXCEPT ![c] = "check"]
        /\ readerPc' = readerPc
    BY <1>6 DEF SpawnSync
  <2>2. UsersOf(c)' = UsersOf(c) \cup {"sync"}
    BY <1>0, <2>1 DEF UsersOf, ControlTyped
  <2>3. AllUsers' = [AllUsers EXCEPT ![c] = UsersOf(c) \cup {"sync"}]
    BY <1>0, <2>1, <2>2, UsersMove DEF ControlTyped
  <2>4. PhaseOf' = [PhaseOf EXCEPT ![c] = "holding"]
    BY <1>0, <2>1, PhaseMoves DEF Phase
  <2>5. Protocol!Hold(c)
    BY <1>1, <1>2, <2>1, <2>3, <2>4
       DEF Protocol!Hold, Protocol!Moves, PhaseOf, AllUsers, Phase
  <2> QED
    BY <2>5 DEF Protocol!ProtocolNext
<1>7. CASE Leave(c)
  <2>1. /\ startPc[c] = "spin"
        /\ ~(running /\ valid[c])
        /\ startPc' = [startPc EXCEPT ![c] = "done"]
        /\ UNCHANGED <<readerPc, syncPc>>
    BY <1>7 DEF Leave, SpinHolds
  <2>2. AllUsers' = AllUsers
    BY <2>1 DEF AllUsers, UsersOf
  <2>3. PhaseOf' = [PhaseOf EXCEPT ![c] = "closed"]
    BY <1>0, <2>1, PhaseMoves DEF Phase
  <2>4. Protocol!Close(c)
    BY <1>1, <1>2, <2>1, <2>2, <2>3
       DEF Protocol!Close, Protocol!Moves, Protocol!Over, PhaseOf, AllUsers, Phase
  <2> QED
    BY <2>4 DEF Protocol!ProtocolNext
<1> QED
  BY <1>3, <1>4, <1>5, <1>6, <1>7 DEF StartStep

\* A loop of a detached coroutine ends because the link is lost, or because the
\* Connection that it asks is gone and answers anything.
LEMMA SeesWhy ==
    ASSUME ImplInv, NEW c \in Connections,
           FALSE \in Sees(c), readerPc[c] # "none" \/ syncPc[c] # "none"
    PROVE  ~valid[c] \/ PhaseOf[c] = "closed"
<1>1. Lifetime(c) /\ startPc[c] \in StartPc /\ valid[c] \in BOOLEAN
  BY DEF ImplInv, LifeInv, PlaceInv, NodeInv, ControlTyped
<1>2. CASE life[c] = "destroyed"
  <2>1. startPc[c] = "done"
    BY <1>1, <1>2 DEF Lifetime, StartPc
  <2> QED
    BY <2>1 DEF PhaseOf, Phase
<1>3. CASE life[c] # "destroyed"
  BY <1>1, <1>3 DEF Sees
<1> QED
  BY <1>2, <1>3

\* The steps of handle_messages.
LEMMA ReaderMaps ==
    ASSUME ImplInv, NEW c \in Connections, ReaderStep(c)
    PROVE  [Protocol!ProtocolNext]_Protocol!protocolVars
<1>0. ControlTyped
  BY DEF ImplInv, LifeInv, PlaceInv, NodeInv
<1>1. /\ Runs(Reader(c))
      /\ UNCHANGED <<running, valid, startPc, syncPc, dangled, crashed>>
      /\ readerPc[c] \in {"check", "header", "bytes"}
      /\ \/ \E pc \in {"check", "header", "bytes"} :
               readerPc' = [readerPc EXCEPT ![c] = pc]
         \/ /\ readerPc' = [readerPc EXCEPT ![c] = "done"]
            /\ FALSE \in Sees(c)
  <2>1. UNCHANGED <<running, valid, startPc, syncPc, dangled, crashed>>
    BY DEF ReaderStep, ReaderCheck, ReaderHeader, ReaderBytes, outside, syncerVars
  <2>2. CASE ReaderCheck(c)
    <3>1. PICK seen \in Sees(c) :
             IF seen
             THEN readerPc' = [readerPc EXCEPT ![c] = "header"]
             ELSE readerPc' = [readerPc EXCEPT ![c] = "done"]
      BY <2>2 DEF ReaderCheck
    <3>2. seen \in BOOLEAN
      BY <1>0 DEF Sees, ControlTyped
    <3> QED
      BY <2>1, <2>2, <3>1, <3>2 DEF ReaderCheck
  <2>3. CASE ReaderHeader(c) \/ ReaderBytes(c)
    BY <2>1, <2>3 DEF ReaderHeader, ReaderBytes
  <2> QED
    BY <2>2, <2>3 DEF ReaderStep
<1>2. Alive /\ Alive' = Alive
  BY <1>1, RunsAlive, AliveStays
<1>3. PhaseOf' = PhaseOf
  BY <1>1 DEF PhaseOf
<1>4. \A d \in Connections \ {c} : readerPc'[d] = readerPc[d] /\ syncPc'[d] = syncPc[d]
  BY <1>0, <1>1 DEF ControlTyped
<1>5. ASSUME NEW pc \in {"check", "header", "bytes"},
             readerPc' = [readerPc EXCEPT ![c] = pc]
      PROVE  UNCHANGED Protocol!protocolVars
  <2>1. UsersOf(c)' = UsersOf(c)
    BY <1>0, <1>1, <1>5 DEF UsersOf, ControlTyped
  <2>2. AllUsers' = AllUsers
    BY <1>4, <2>1, UsersStay
  <2> QED
    BY <1>1, <1>2, <1>3, <2>2 DEF Protocol!protocolVars, PhaseOf, AllUsers
<1>6. CASE readerPc' = [readerPc EXCEPT ![c] = "done"] /\ FALSE \in Sees(c)
  <2>1. "reader" \in UsersOf(c) /\ UsersOf(c)' = UsersOf(c) \ {"reader"}
    BY <1>0, <1>1, <1>6 DEF UsersOf, ControlTyped
  <2>2. AllUsers' = [AllUsers EXCEPT ![c] = UsersOf(c) \ {"reader"}]
    BY <1>4, <2>1, UsersMove
  <2>3. ~valid[c] \/ PhaseOf[c] = "closed"
    BY <1>1, <1>6, SeesWhy
  <2>4. Protocol!Finish(c, "reader")
    BY <1>1, <1>2, <1>3, <2>1, <2>2, <2>3
       DEF Protocol!Finish, PhaseOf, AllUsers
  <2> QED
    BY <2>4 DEF Protocol!ProtocolNext, Protocol!User
<1> QED
  BY <1>1, <1>5, <1>6

\* A use of freed memory ends the process.
LEMMA DieMaps ==
    ASSUME NEW c \in Connections, Alive, ~Alive',
           UNCHANGED <<running, valid, startPc, readerPc, syncPc>>,
           \/ syncPc[c] \notin {"none", "done"}
           \/ readerPc[c] \notin {"none", "done"} /\ PhaseOf[c] = "closed"
    PROVE  Protocol!Die(c)
<1>1. Alive' = FALSE
  OBVIOUS
<1>2. \/ "sync" \in UsersOf(c)
      \/ UsersOf(c) # {} /\ PhaseOf[c] = "closed"
  BY DEF UsersOf
<1> QED
  BY <1>1, <1>2, ConnVarsStay DEF Protocol!Die, PhaseOf, AllUsers

\* The steps of periodic_sync.
LEMMA SyncMaps ==
    ASSUME ImplInv, NEW c \in Connections, SyncStep(c)
    PROVE  [Protocol!ProtocolNext]_Protocol!protocolVars
<1>0. ControlTyped
  BY DEF ImplInv, LifeInv, PlaceInv, NodeInv
<1>1. CASE SyncCrashes(c)
  <2>1. /\ Alive /\ ~Alive'
        /\ syncPc[c] = "pass"
        /\ UNCHANGED <<running, valid, startPc, readerPc, syncPc>>
    BY <1>1, RunsAlive
       DEF SyncCrashes, ScanCrashes, runtimeVars, outside, connVars, Alive
  <2> QED
    BY <2>1, DieMaps DEF Protocol!ProtocolNext
<1>2. CASE SyncCheck(c) \/ SyncWritten(c)
  <2>1. /\ Runs(Sync(c))
        /\ UNCHANGED <<running, valid, startPc, readerPc, dangled, crashed>>
    BY <1>2, SyncerSurvives DEF SyncCheck, SyncWritten, outside
  <2>2. /\ syncPc[c] \in {"check", "pass"}
        /\ \/ \E pc \in {"check", "pass"} : syncPc' = [syncPc EXCEPT ![c] = pc]
           \/ /\ syncPc' = [syncPc EXCEPT ![c] = "done"]
              /\ ~running \/ FALSE \in Sees(c)
    <3>1. CASE SyncCheck(c)
      <4>1. PICK seen \in Sees(c) :
               IF SyncGoesOn(c, seen)
               THEN AfterWrite(c)
               ELSE syncPc' = [syncPc EXCEPT ![c] = "done"]
        BY <3>1 DEF SyncCheck
      <4>2. seen \in BOOLEAN /\ running \in BOOLEAN
        BY <1>0 DEF Sees, ControlTyped
      <4> QED
        BY <3>1, <4>1, <4>2 DEF SyncCheck, AfterWrite, SyncGoesOn
    <3>2. CASE SyncWritten(c)
      BY <3>2 DEF SyncWritten, AfterWrite
    <3> QED
      BY <1>2, <3>1, <3>2
  <2>3. Alive /\ Alive' = Alive
    BY <2>1, RunsAlive, AliveStays
  <2>4. PhaseOf' = PhaseOf
    BY <2>1 DEF PhaseOf
  <2>5. \A d \in Connections \ {c} :
           readerPc'[d] = readerPc[d] /\ syncPc'[d] = syncPc[d]
    BY <1>0, <2>1, <2>2 DEF ControlTyped
  <2>6. ASSUME NEW pc \in {"check", "pass"}, syncPc' = [syncPc EXCEPT ![c] = pc]
        PROVE  UNCHANGED Protocol!protocolVars
    <3>1. UsersOf(c)' = UsersOf(c)
      BY <1>0, <2>1, <2>2, <2>6 DEF UsersOf, ControlTyped
    <3>2. AllUsers' = AllUsers
      BY <2>5, <3>1, UsersStay
    <3> QED
      BY <2>1, <2>3, <2>4, <3>2 DEF Protocol!protocolVars, PhaseOf, AllUsers
  <2>7. CASE /\ syncPc' = [syncPc EXCEPT ![c] = "done"]
             /\ ~running \/ FALSE \in Sees(c)
    <3>1. "sync" \in UsersOf(c) /\ UsersOf(c)' = UsersOf(c) \ {"sync"}
      BY <1>0, <2>1, <2>2, <2>7 DEF UsersOf, ControlTyped
    <3>2. AllUsers' = [AllUsers EXCEPT ![c] = UsersOf(c) \ {"sync"}]
      BY <2>5, <3>1, UsersMove
    <3>3. ~running \/ ~valid[c] \/ PhaseOf[c] = "closed"
      BY <2>2, <2>7, SeesWhy
    <3>4. Protocol!Finish(c, "sync")
      BY <2>1, <2>3, <2>4, <3>1, <3>2, <3>3
         DEF Protocol!Finish, PhaseOf, AllUsers
    <3> QED
      BY <3>4 DEF Protocol!ProtocolNext, Protocol!User
  <2> QED
    BY <2>2, <2>6, <2>7
<1> QED
  BY <1>1, <1>2 DEF SyncStep

\* A coroutine that uses a destroyed Connection is one of a closed connection.
LEMMA DangleMaps ==
    ASSUME ImplInv, NEW c \in Connections, Dangle(c)
    PROVE  Protocol!Die(c)
<1>0. PlaceInv /\ NodeInv /\ Lifetime(c) /\ startPc[c] \in StartPc
  BY DEF ImplInv, LifeInv, PlaceInv, NodeInv, ControlTyped
<1>1. PICK k \in {Reader(c), Sync(c)} : Runs(k)
  BY DEF Dangle
<1>2. k \in Unfinished
  BY <1>0, <1>1, RunningIsPlaced, CoroutineIds DEF PlaceInv, NodeInv
<1>3. readerPc[c] \notin {"none", "done"} \/ syncPc[c] \notin {"none", "done"}
  BY <1>1, <1>2, UnfinishedIs
<1>4. /\ life[c] = "destroyed"
      /\ dangled' = TRUE
      /\ UNCHANGED <<running, valid, startPc, readerPc, syncPc>>
  BY DEF Dangle, outside, connVars
<1>5. PhaseOf[c] = "closed"
  <2>1. startPc[c] = "done"
    BY <1>0, <1>4 DEF Lifetime, StartPc
  <2> QED
    BY <2>1 DEF PhaseOf, Phase
<1>6. Alive /\ ~Alive'
  BY <1>1, <1>4, RunsAlive DEF Alive
<1> QED
  BY <1>3, <1>4, <1>5, <1>6, DieMaps

LEMMA NodeStepMaps ==
    ImplInv /\ [NodeNext]_vars => [Protocol!ProtocolNext]_Protocol!protocolVars
<1> SUFFICES ASSUME ImplInv, [NodeNext]_vars
             PROVE  [Protocol!ProtocolNext]_Protocol!protocolVars
  OBVIOUS
<1>1. CASE MuxSpawn
  BY <1>1, AcceptMaps DEF Protocol!ProtocolNext
<1>2. ASSUME NEW c \in Connections,
             StartStep(c) \/ ReaderStep(c) \/ SyncStep(c)
      PROVE  [Protocol!ProtocolNext]_Protocol!protocolVars
  BY <1>2, StartMaps, ReaderMaps, SyncMaps
<1>3. ASSUME NEW c \in Connections, Dangle(c)
      PROVE  Protocol!ProtocolNext
  BY <1>3, DangleMaps DEF Protocol!ProtocolNext
<1>4. ASSUME NEW c \in Connections, LoseLink(c)
      PROVE  Protocol!LoseTheLink(c)
  <2>1. /\ Alive
        /\ valid[c]
        /\ valid' = [valid EXCEPT ![c] = FALSE]
        /\ UNCHANGED <<running, startPc, readerPc, syncPc, dangled, crashed>>
    BY <1>4 DEF LoseLink, connVars, syncerVars
  <2> QED
    BY <2>1, ConnVarsStay, AliveStays
       DEF Protocol!LoseTheLink, PhaseOf, AllUsers
<1>5. CASE Shutdown
  <2>1. /\ Alive
        /\ running
        /\ running' = FALSE
        /\ UNCHANGED <<valid, startPc, readerPc, syncPc, dangled, crashed>>
    BY <1>5 DEF Shutdown, connVars, syncerVars
  <2>2. Protocol!TurnOff
    BY <2>1, ConnVarsStay, AliveStays DEF Protocol!TurnOff, PhaseOf, AllUsers
  <2> QED
    BY <2>2 DEF Protocol!ProtocolNext
<1>6. CASE \/ Dispatch \/ MuxCheck \/ UNCHANGED vars
           \/ \E c \in Connections : Arrive(c)
           \/ \E k \in Coroutines : Complete(k)
           \/ \E m \in Message : Post(m)
  <2>1. UNCHANGED <<running, valid, startPc, readerPc, syncPc, dangled, crashed>>
    BY <1>6 DEF Dispatch, MuxCheck, Arrive, Complete, Post, AddMessage, vars,
                runtimeVars, outside, connVars, syncerVars
  <2> QED
    BY <2>1, ConnVarsStay, AliveStays DEF Protocol!protocolVars, PhaseOf, AllUsers
<1> QED
  BY <1>1, <1>2, <1>3, <1>4, <1>5, <1>6
     DEF NodeNext, Thread, Environment, Protocol!ProtocolNext

\* The runtime implements the protocol of its connections: each goes through its
\* life in order, has the thread to itself from its handshake to its end, and
\* its coroutines end for a reason (hrafn.cpp:232-311).
THEOREM NodeFollowsProtocol == NodeSpec => FollowsProtocol
<1>1. NodeInit => ImplInv
  BY PlaceInit, LifeInit
     DEF NodeInit, ImplInv, HoldInv, SpinInv, SpinOnTop, OpenOnTop, Opened
<1>2. NodeInit => Protocol!ProtocolInit
  <2> SUFFICES ASSUME NodeInit
               PROVE  Protocol!ProtocolInit
    OBVIOUS
  <2>1. PhaseOf = [c \in Connections |-> "none"]
    BY DEF NodeInit, PhaseOf, Phase
  <2>2. AllUsers = [c \in Connections |-> {}]
    BY DEF NodeInit, AllUsers, UsersOf
  <2>3. Alive /\ running = TRUE /\ valid = [c \in Connections |-> TRUE]
    BY DEF NodeInit, Init, Alive
  <2> QED
    BY <2>1, <2>2, <2>3 DEF Protocol!ProtocolInit, PhaseOf, AllUsers
<1>3. ImplInv /\ [NodeNext]_vars => ImplInv'
  BY HoldStep, LifeStep DEF ImplInv
<1> QED
  BY <1>1, <1>2, <1>3, NodeStepMaps, PTL
     DEF NodeSpec, FollowsProtocol, Protocol!ProtocolSpec
=============================================================================

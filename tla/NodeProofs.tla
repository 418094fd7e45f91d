----------------------------- MODULE NodeProofs -----------------------------
(***************************************************************************)
(* What holds of a node with any number of connections.  First, a node is  *)
(* a Syncer as far as the Syncer's variables go, so everything proved of   *)
(* the Syncer carries over.  Then type correctness, which needs to know    *)
(* how the multiplexer boots, and the properties of connections and of the *)
(* thread, each from an inductive invariant of its own.                    *)
(***************************************************************************)
EXTENDS Node, SyncerProofs, SequenceTheorems

-----------------------------------------------------------------------------
(***************************************************************************)
(* The node uses the Syncer                                                *)
(***************************************************************************)

LEMMA SyncerStep == [NodeNext]_vars => [Next]_syncerVars
<1> SUFFICES ASSUME [NodeNext]_vars
             PROVE  [Next]_syncerVars
  OBVIOUS
<1>1. ASSUME NEW c \in Connections, SyncCheck(c)
      PROVE  [Next]_syncerVars
  BY <1>1 DEF SyncCheck, Next, SyncMode
<1>2. ASSUME NEW c \in Connections, SyncWritten(c) \/ SyncCrashes(c)
      PROVE  [Next]_syncerVars
  BY <1>2 DEF SyncWritten, SyncCrashes, Next
<1>3. ASSUME NEW c \in Connections,
             StartStep(c) \/ ReaderStep(c) \/ Dangle(c) \/ Arrive(c) \/ LoseLink(c)
      PROVE  UNCHANGED syncerVars
  BY <1>3 DEF StartStep, NegotiateWrite, NegotiateRead, NegotiateParse,
              SpawnReader, SpawnSync, Leave, ReaderStep, ReaderCheck,
              ReaderHeader, ReaderBytes, Dangle, Arrive, LoseLink
<1>4. ASSUME NEW m \in Message, Post(m)
      PROVE  [Next]_syncerVars
  BY <1>4 DEF Post, Next
<1>5. CASE Dispatch \/ MuxCheck \/ MuxSpawn \/ Shutdown
  BY <1>5 DEF Dispatch, MuxCheck, MuxSpawn, Shutdown
<1>6. ASSUME NEW k \in Coroutines, Complete(k)
      PROVE  UNCHANGED syncerVars
  BY <1>6 DEF Complete
<1>7. CASE UNCHANGED vars
  BY <1>7 DEF vars
<1> QED
  BY <1>1, <1>2, <1>3, <1>4, <1>5, <1>6, <1>7
     DEF NodeNext, Thread, Environment, SyncStep

\* A node drives the Syncer only through its operations (hrafn.cpp:247-258).
THEOREM NodeUsesSyncer == NodeSpec => UsesSyncer
<1>1. NodeInit => Init
  BY DEF NodeInit
<1> QED
  BY <1>1, SyncerStep, PTL DEF NodeSpec, UsesSyncer, Spec

\* So the passes of a node are framed, exact and in order.
COROLLARY NodeFramed == NodeSpec => [](FramedPass /\ ExactPass /\ InOrder)
  BY NodeUsesSyncer, Framed, Exact, OffersInOrder, PTL DEF UsesSyncer

\* Also on a node every pass is finite, whatever the other coroutines do while it
\* is suspended (hrafn.cpp:174-203).
COROLLARY NodePassesShrink == NodeSpec => [][\A c \in Connections : Shrinks(c)]_syncerVars
  BY NodeUsesSyncer, PassesShrink, PTL DEF UsesSyncer

-----------------------------------------------------------------------------
(***************************************************************************)
(* Type correctness                                                        *)
(***************************************************************************)

ExecutorTyped ==
    /\ stack \in Seq(Coroutines)
    /\ queue \in Seq(Coroutines)
    /\ pending \subseteq Coroutines

LEMMA CoroutineIds ==
    /\ Mux \in Coroutines
    /\ \A c \in Connections :
          Start(c) \in Coroutines /\ Reader(c) \in Coroutines /\ Sync(c) \in Coroutines
  BY DEF Mux, Start, Reader, Sync, Coroutines

\* The identities of coroutines do not collide.
LEMMA CoroutineIdsDiffer ==
    \A c, d \in Connections :
        /\ Start(c) # Mux /\ Reader(c) # Mux /\ Sync(c) # Mux
        /\ Start(c) # Reader(d) /\ Start(c) # Sync(d) /\ Reader(c) # Sync(d)
        /\ Start(c) = Start(d) => c = d
        /\ Sync(c) = Sync(d) => c = d
  BY DEF Mux, Start, Reader, Sync

\* What a running coroutine may do to the executor keeps it typed.
LEMMA ExecutorStep ==
    ASSUME ExecutorTyped, stack # <<>>, NEW k \in Coroutines,
           Suspend(k) \/ Await(k) \/ Return \/ Continue \/ Spawn(k)
    PROVE  ExecutorTyped'
<1>1. SubSeq(stack, 1, Len(stack) - 1) \in Seq(Coroutines)
  BY DEF ExecutorTyped
<1>2. CASE Suspend(k) \/ Return
  <2>1. /\ stack' = SubSeq(stack, 1, Len(stack) - 1)
        /\ queue' = queue
        /\ pending' = pending \/ pending' = pending \cup {k}
    BY <1>2 DEF Suspend, Return, Pop
  <2> QED
    BY <1>1, <2>1 DEF ExecutorTyped
<1>3. CASE Continue
  BY <1>3 DEF ExecutorTyped, Continue, executor
<1>4. CASE Spawn(k)
  <2>1. \A s \in Seq(Coroutines) : Append(s, k) \in Seq(Coroutines)
    OBVIOUS
  <2> QED
    BY <1>4, <2>1 DEF ExecutorTyped, Spawn
<1> QED
  BY <1>2, <1>3, <1>4 DEF Await

\* Before the first stream arrives the multiplexer is the only coroutine, so
\* once it is resumed from its receive there is a stream.
Boot ==
    incoming = Listener =>
        \/ muxPc = "check" /\ stack = <<>> /\ queue = <<Mux>> /\ pending = {}
        \/ muxPc = "check" /\ stack = <<Mux>> /\ queue = <<>> /\ pending = {}
        \/ muxPc = "receive" /\ stack = <<>> /\ queue = <<>> /\ pending = {Mux}
        \/ muxPc = "done" /\ stack = <<>> /\ queue = <<>> /\ pending = {}

ControlTyped ==
    /\ muxPc \in MuxPc
    /\ startPc \in [Connections -> StartPc]
    /\ readerPc \in [Connections -> ReaderPc]
    /\ syncPc \in [Connections -> SyncPc]
    /\ incoming \in Connections \cup {Listener}
    /\ life \in [Connections -> Life]
    /\ running \in BOOLEAN
    /\ valid \in [Connections -> BOOLEAN]
    /\ dangled \in BOOLEAN
    /\ late \subseteq Connections

NodeInv == TypeOK /\ ExecutorTyped /\ ControlTyped /\ Boot

\* A node that runs a coroutine other than the multiplexer has booted.
LEMMA Booted ==
    ASSUME NodeInv, NEW k \in Coroutines \ {Mux}, Runs(k)
    PROVE  incoming # Listener
  BY DEF NodeInv, Boot, Runs

LEMMA NodeTypeStep == NodeInv /\ [NodeNext]_vars => NodeInv'
<1> SUFFICES ASSUME NodeInv, [NodeNext]_vars
             PROVE  NodeInv'
  OBVIOUS
<1> USE DEF NodeInv
<1>0. TypeOK'
  BY SyncerStep, TypeStep
<1>1. CASE Dispatch
  <2>1. queue # <<>> /\ stack = <<>> /\ stack' = <<Head(queue)>> /\ queue' = Tail(queue)
    BY <1>1 DEF Dispatch
  <2>2. Head(queue) \in Coroutines /\ Tail(queue) \in Seq(Coroutines)
    BY <2>1 DEF ExecutorTyped
  <2>3. ExecutorTyped'
    BY <1>1, <2>1, <2>2 DEF Dispatch, ExecutorTyped
  <2>4. ControlTyped'
    BY <1>1 DEF Dispatch, ControlTyped, outside, muxVars, connVars
  <2>5. Boot'
    BY <1>1, <2>1 DEF Dispatch, Boot, muxVars
  <2> QED
    BY <1>0, <2>3, <2>4, <2>5
<1>2. CASE MuxCheck
  <2>1. stack # <<>> /\ (Suspend(Mux) \/ Return)
    BY <1>2 DEF MuxCheck, Runs
  <2>2. ExecutorTyped'
    BY <2>1, CoroutineIds, ExecutorStep
  <2>3. ControlTyped'
    BY <1>2 DEF MuxCheck, ControlTyped, outside, connVars, MuxPc
  <2>4. Boot'
    <3> SUFFICES ASSUME incoming' = Listener
                 PROVE  \/ muxPc' = "receive" /\ stack' = <<>> /\ queue' = <<>> /\ pending' = {Mux}
                        \/ muxPc' = "done" /\ stack' = <<>> /\ queue' = <<>> /\ pending' = {}
      BY DEF Boot
    <3>1. stack = <<Mux>> /\ queue = <<>> /\ pending = {}
      BY <1>2, <2>1 DEF MuxCheck, Boot
    <3>2. SubSeq(stack, 1, Len(stack) - 1) = <<>>
      BY <3>1
    <3> QED
      BY <1>2, <3>1, <3>2 DEF MuxCheck, Suspend, Return, Pop
  <2> QED
    BY <1>0, <2>2, <2>3, <2>4
<1>3. CASE MuxSpawn
  <2>1. stack # <<>> /\ incoming # Listener
    BY <1>3 DEF MuxSpawn, Runs, Boot
  <2>2. incoming \in Connections
    BY <2>1 DEF ControlTyped
  <2>3. ExecutorTyped'
    BY <1>3, <2>1, <2>2, CoroutineIds, ExecutorStep DEF MuxSpawn
  <2>4. ControlTyped'
    BY <1>3, <2>2 DEF MuxSpawn, ControlTyped, outside, MuxPc, StartPc
  <2>5. Boot'
    BY <1>3, <2>1 DEF MuxSpawn, Boot
  <2> QED
    BY <1>0, <2>3, <2>4, <2>5
<1>4. ASSUME NEW c \in Connections, StartStep(c)
      PROVE  NodeInv'
  <2>1. Runs(Start(c)) /\ stack # <<>> /\ incoming' = incoming
    BY <1>4 DEF StartStep, NegotiateWrite, NegotiateRead, NegotiateParse,
                SpawnReader, SpawnSync, Leave, Runs, muxVars
  <2>2. Boot'
    BY <2>1, CoroutineIds, CoroutineIdsDiffer, Booted DEF Boot
  <2>3. \/ Await(Start(c)) \/ Continue \/ Return
        \/ Spawn(Reader(c)) \/ Spawn(Sync(c))
    BY <1>4 DEF StartStep, NegotiateWrite, NegotiateRead, NegotiateParse,
                SpawnReader, SpawnSync, Leave
  <2>4. ExecutorTyped'
    BY <2>1, <2>3, CoroutineIds, ExecutorStep
  <2>5. ControlTyped'
    BY <1>4 DEF StartStep, NegotiateWrite, NegotiateRead, NegotiateParse,
                SpawnReader, SpawnSync, Leave, ControlTyped, outside, muxVars,
                StartPc, ReaderPc, SyncPc, Life
  <2> QED
    BY <1>0, <2>2, <2>4, <2>5
<1>5. ASSUME NEW c \in Connections, ReaderStep(c)
      PROVE  NodeInv'
  <2>1. Runs(Reader(c)) /\ stack # <<>> /\ incoming' = incoming
    BY <1>5 DEF ReaderStep, ReaderCheck, ReaderHeader, ReaderBytes, Runs, muxVars
  <2>2. Boot'
    BY <2>1, CoroutineIds, CoroutineIdsDiffer, Booted DEF Boot
  <2>3. Await(Reader(c)) \/ Continue \/ Return
    BY <1>5 DEF ReaderStep, ReaderCheck, ReaderHeader, ReaderBytes
  <2>4. ExecutorTyped'
    BY <2>1, <2>3, CoroutineIds, ExecutorStep
  <2>5. ControlTyped'
    BY <1>5 DEF ReaderStep, ReaderCheck, ReaderHeader, ReaderBytes,
                ControlTyped, outside, muxVars, ReaderPc
  <2> QED
    BY <1>0, <2>2, <2>4, <2>5
<1>6. ASSUME NEW c \in Connections, SyncStep(c)
      PROVE  NodeInv'
  <2>1. Runs(Sync(c)) /\ stack # <<>> /\ incoming' = incoming
    BY <1>6 DEF SyncStep, SyncCheck, SyncWritten, SyncCrashes, Runs,
                runtimeVars, muxVars
  <2>2. Boot'
    BY <2>1, CoroutineIds, CoroutineIdsDiffer, Booted DEF Boot
  <2>3. Await(Sync(c)) \/ Continue \/ Return
    BY <1>6 DEF SyncStep, SyncCheck, SyncWritten, SyncCrashes, AfterWrite,
                Continue, runtimeVars
  <2>4. ExecutorTyped'
    BY <2>1, <2>3, CoroutineIds, ExecutorStep
  <2>5. ControlTyped'
    BY <1>6 DEF SyncStep, SyncCheck, SyncWritten, SyncCrashes, AfterWrite,
                ControlTyped, outside, muxVars, runtimeVars, connVars, SyncPc
  <2> QED
    BY <1>0, <2>2, <2>4, <2>5
<1>7. ASSUME NEW c \in Connections, Dangle(c) \/ LoseLink(c)
      PROVE  NodeInv'
  BY <1>0, <1>7 DEF Dangle, LoseLink, ExecutorTyped, ControlTyped, Boot,
                    outside, executor, muxVars, connVars
<1>8. ASSUME NEW c \in Connections, Arrive(c)
      PROVE  NodeInv'
  <2>1. incoming' \in Connections /\ incoming' # Listener
    BY <1>8, ListenerAssumption DEF Arrive
  <2>2. ExecutorTyped'
    BY <1>8, CoroutineIds DEF Arrive, ExecutorTyped
  <2>3. ControlTyped'
    BY <1>8, <2>1 DEF Arrive, ControlTyped, outside, connVars
  <2> QED
    BY <1>0, <2>1, <2>2, <2>3 DEF Boot
<1>9. ASSUME NEW k \in Coroutines \ {Mux}, Complete(k)
      PROVE  NodeInv'
  <2>1. incoming # Listener
    BY <1>9 DEF Complete, Boot
  <2>2. ExecutorTyped'
    BY <1>9 DEF Complete, ExecutorTyped
  <2>3. ControlTyped' /\ Boot'
    BY <1>9, <2>1 DEF Complete, ControlTyped, Boot, outside, muxVars, connVars
  <2> QED
    BY <1>0, <2>2, <2>3
<1>10. CASE Shutdown \/ (\E m \in Message : Post(m)) \/ UNCHANGED vars
  BY <1>0, <1>10 DEF Shutdown, Post, vars, runtimeVars, outside, executor,
                     muxVars, connVars, ExecutorTyped, ControlTyped, Boot
<1> QED
  BY <1>1, <1>2, <1>3, <1>4, <1>5, <1>6, <1>7, <1>8, <1>9, <1>10
     DEF NodeNext, Thread, Environment

LEMMA NodeInitInv == NodeInit => NodeInv
<1> SUFFICES ASSUME NodeInit
             PROVE  NodeInv
  OBVIOUS
<1>1. TypeOK
  BY InitTyped DEF NodeInit
<1>2. ExecutorTyped
  BY CoroutineIds DEF NodeInit, ExecutorTyped
<1>3. ControlTyped
  BY DEF NodeInit, ControlTyped, MuxPc, StartPc, ReaderPc, SyncPc, Life
<1> QED
  BY <1>1, <1>2, <1>3 DEF NodeInit, NodeInv, Boot

\* The variables of a node keep their types (hrafn.cpp:232-317).
THEOREM NodeTypeCorrect == NodeSpec => []NodeTypeOK
<1>1. NodeInv => NodeTypeOK
  BY DEF NodeInv, ExecutorTyped, ControlTyped, NodeTypeOK
<1> QED
  BY <1>1, NodeInitInv, NodeTypeStep, PTL DEF NodeSpec

-----------------------------------------------------------------------------
(***************************************************************************)
(* Where the executor keeps the coroutines: bookkeeping that the proofs    *)
(* below, and those of ProtocolProofs, rest on                             *)
(***************************************************************************)

\* The coroutines that were spawned and have not returned.
Unfinished ==
    {k \in Coroutines :
        \/ k = Mux /\ muxPc # "done"
        \/ \E c \in Connections :
              \/ k = Start(c) /\ startPc[c] \notin {"none", "done"}
              \/ k = Reader(c) /\ readerPc[c] \notin {"none", "done"}
              \/ k = Sync(c) /\ syncPc[c] \notin {"none", "done"}}

Distinct(s) == \A i, j \in 1..Len(s) : s[i] = s[j] => i = j

\* A coroutine that has not returned is known to the executor exactly once: on
\* the thread's stack, in the ready queue or in a pending operation, so it is
\* neither lost nor resumed twice; one that has returned is known nowhere.
InOnePlace ==
    /\ Distinct(stack)
    /\ Distinct(queue)
    /\ Elems(stack) \cap Elems(queue) = {}
    /\ Elems(stack) \cap pending = {}
    /\ Elems(queue) \cap pending = {}
    /\ Elems(stack) \cup Elems(queue) \cup pending = Unfinished

LEMMA AppendElems ==
    ASSUME NEW S, NEW s \in Seq(S), NEW k \in S
    PROVE  /\ Elems(Append(s, k)) = Elems(s) \cup {k}
           /\ Distinct(s) /\ k \notin Elems(s) => Distinct(Append(s, k))
<1>1. /\ Len(s) \in Nat
      /\ Len(Append(s, k)) = Len(s) + 1
      /\ Append(s, k)[Len(s) + 1] = k
      /\ \A i \in 1..Len(s) : Append(s, k)[i] = s[i]
  OBVIOUS
<1>2. 1..Len(s) + 1 = 1..Len(s) \cup {Len(s) + 1}
  BY <1>1
<1> QED
  BY <1>1, <1>2 DEF Elems, Distinct

LEMMA PopElems ==
    ASSUME NEW S, NEW s \in Seq(S), s # <<>>, Distinct(s)
    PROVE  /\ Elems(SubSeq(s, 1, Len(s) - 1)) = Elems(s) \ {s[Len(s)]}
           /\ Distinct(SubSeq(s, 1, Len(s) - 1))
<1> DEFINE t == SubSeq(s, 1, Len(s) - 1)
<1>0. Len(s) \in Nat \ {0}
  OBVIOUS
<1>1. /\ Len(t) = IF 1 <= Len(s) - 1 THEN Len(s) - 1 - 1 + 1 ELSE 0
      /\ \A i \in 1..Len(s) - 1 - 1 + 1 : t[i] = s[1 + i - 1]
  <2>1. Len(s) - 1 \in Int /\ \A i \in 1..Len(s) - 1 : s[i] \in S
    BY <1>0
  <2> QED
    BY <2>1, SubSeqProperties
<1> HIDE DEF t
<1>2. Len(t) = Len(s) - 1
  <2>1. ASSUME NEW n \in Nat \ {0}
        PROVE  (IF 1 <= n - 1 THEN n - 1 - 1 + 1 ELSE 0) = n - 1
    OBVIOUS
  <2> QED
    BY <1>0, <1>1, <2>1
<1>3. ASSUME NEW i \in 1..Len(t)
      PROVE  t[i] = s[i]
  <2>1. i \in Int /\ i \in 1..Len(s) - 1 - 1 + 1 /\ 1 + i - 1 = i
    BY <1>0, <1>2
  <2> QED
    BY <1>1, <2>1
<1>4. 1..Len(s) = 1..Len(t) \cup {Len(s)} /\ Len(s) \notin 1..Len(t)
  BY <1>0, <1>2
<1>5. Distinct(t)
  BY <1>3, <1>4 DEF Distinct
<1>6. Elems(t) = Elems(s) \ {s[Len(s)]}
  BY <1>3, <1>4 DEF Elems, Distinct
<1> QED
  BY <1>5, <1>6 DEF t

LEMMA TailElems ==
    ASSUME NEW S, NEW s \in Seq(S), s # <<>>, Distinct(s)
    PROVE  /\ Elems(Tail(s)) = Elems(s) \ {Head(s)}
           /\ Head(s) \in Elems(s)
           /\ Distinct(Tail(s))
<1> DEFINE t == Tail(s)
<1>1. /\ Len(s) \in Nat \ {0}
      /\ Len(t) = Len(s) - 1
      /\ \A i \in 1..Len(t) : t[i] = s[i + 1]
      /\ Head(s) = s[1]
  OBVIOUS
<1> HIDE DEF t
<1>2. Distinct(t)
  BY <1>1 DEF Distinct
<1>3. Elems(t) \subseteq Elems(s) \ {s[1]}
  BY <1>1 DEF Elems, Distinct
<1>4. ASSUME NEW x \in Elems(s), x # s[1]
      PROVE  x \in Elems(t)
  <2>1. PICK i \in 1..Len(s) : x = s[i]
    BY DEF Elems
  <2>2. i - 1 \in 1..Len(t) /\ t[i - 1] = x
    BY <1>1, <1>4, <2>1
  <2> QED
    BY <2>2 DEF Elems
<1>5. s[1] \in Elems(s)
  BY <1>1 DEF Elems
<1> QED
  BY <1>1, <1>2, <1>3, <1>4, <1>5 DEF t

\* A running coroutine is on the stack, so it is unfinished and nowhere else.
LEMMA RunningIsPlaced ==
    ASSUME ExecutorTyped, InOnePlace, NEW k, Runs(k)
    PROVE  /\ stack # <<>>
           /\ stack[Len(stack)] = k
           /\ k \in Elems(stack)
           /\ k \in Unfinished
           /\ k \notin Elems(queue)
           /\ k \notin pending
  BY DEF ExecutorTyped, InOnePlace, Runs, Elems

LEMMA PlaceSuspend ==
    ASSUME ExecutorTyped, InOnePlace, NEW k \in Coroutines, Runs(k),
           Suspend(k), Unfinished' = Unfinished
    PROVE  InOnePlace'
<1>1. Elems(stack') = Elems(stack) \ {k} /\ Distinct(stack')
  BY RunningIsPlaced, PopElems DEF ExecutorTyped, InOnePlace, Suspend, Pop
<1> QED
  BY <1>1, RunningIsPlaced DEF InOnePlace, Suspend

LEMMA PlaceReturn ==
    ASSUME ExecutorTyped, InOnePlace, NEW k \in Coroutines, Runs(k),
           Return, Unfinished' = Unfinished \ {k}
    PROVE  InOnePlace'
<1>1. Elems(stack') = Elems(stack) \ {k} /\ Distinct(stack')
  BY RunningIsPlaced, PopElems DEF ExecutorTyped, InOnePlace, Return, Pop
<1> QED
  BY <1>1, RunningIsPlaced DEF InOnePlace, Return

LEMMA PlaceContinue ==
    ASSUME InOnePlace, Continue, Unfinished' = Unfinished
    PROVE  InOnePlace'
  BY DEF InOnePlace, Continue, executor

LEMMA PlaceAwait ==
    ASSUME ExecutorTyped, InOnePlace, NEW k \in Coroutines, Runs(k),
           Await(k), Unfinished' = Unfinished
    PROVE  InOnePlace'
  BY PlaceSuspend, PlaceContinue DEF Await

LEMMA PlaceSpawn ==
    ASSUME ExecutorTyped, InOnePlace, NEW k \in Coroutines \ Unfinished,
           Spawn(k), Unfinished' = Unfinished \cup {k}
    PROVE  InOnePlace'
<1>1. k \notin Elems(stack) /\ k \notin Elems(queue) /\ k \notin pending
  BY DEF InOnePlace
<1>2. CASE stack' = Append(stack, k) /\ UNCHANGED <<queue, pending>>
  <2>1. Elems(stack') = Elems(stack) \cup {k} /\ Distinct(stack')
    BY <1>1, <1>2, AppendElems DEF ExecutorTyped, InOnePlace
  <2> QED
    BY <1>1, <1>2, <2>1 DEF InOnePlace
<1>3. CASE queue' = Append(queue, k) /\ UNCHANGED <<stack, pending>>
  <2>1. Elems(queue') = Elems(queue) \cup {k} /\ Distinct(queue')
    BY <1>1, <1>3, AppendElems DEF ExecutorTyped, InOnePlace
  <2> QED
    BY <1>1, <1>3, <2>1 DEF InOnePlace
<1> QED
  BY <1>2, <1>3 DEF Spawn

LEMMA PlaceReady ==
    ASSUME ExecutorTyped, InOnePlace, NEW k \in pending,
           pending' = pending \ {k}, queue' = Append(queue, k), stack' = stack,
           Unfinished' = Unfinished
    PROVE  InOnePlace'
<1>1. k \in Coroutines /\ k \notin Elems(queue) /\ k \notin Elems(stack)
  BY DEF ExecutorTyped, InOnePlace
<1>2. Elems(queue') = Elems(queue) \cup {k} /\ Distinct(queue')
  BY <1>1, AppendElems DEF ExecutorTyped, InOnePlace
<1> QED
  BY <1>1, <1>2 DEF InOnePlace

LEMMA PlaceDispatch ==
    ASSUME ExecutorTyped, InOnePlace, Dispatch, Unfinished' = Unfinished
    PROVE  InOnePlace'
<1>1. /\ Elems(queue') = Elems(queue) \ {Head(queue)}
      /\ Head(queue) \in Elems(queue)
      /\ Distinct(queue')
  BY TailElems DEF ExecutorTyped, InOnePlace, Dispatch
<1>2. Elems(stack) = {} /\ Elems(stack') = {Head(queue)} /\ Distinct(stack')
  BY DEF Dispatch, Elems, Distinct
<1> QED
  BY <1>1, <1>2 DEF InOnePlace, Dispatch

\* A stream the multiplexer has received and not yet spawned is a new one.
Fresh == muxPc = "receive" /\ Mux \notin pending => startPc[incoming] = "none"

\* The detached coroutines of c are spawned once, by start_connection.
SpawnedOnce(c) ==
    /\ startPc[c] \in {"none", "write", "read", "parse", "spawnReader"} =>
          readerPc[c] = "none"
    /\ startPc[c] \in {"none", "write", "read", "parse", "spawnReader", "spawnSync"} =>
          syncPc[c] = "none"

PlaceInv ==
    /\ NodeInv
    /\ InOnePlace
    /\ Fresh
    /\ \A c \in Connections : SpawnedOnce(c)

\* Which coroutines are unfinished, kind by kind.
LEMMA UnfinishedIs ==
    /\ Unfinished \subseteq Coroutines
    /\ Mux \in Unfinished <=> muxPc # "done"
    /\ \A c \in Connections :
          /\ Start(c) \in Unfinished <=> startPc[c] \notin {"none", "done"}
          /\ Reader(c) \in Unfinished <=> readerPc[c] \notin {"none", "done"}
          /\ Sync(c) \in Unfinished <=> syncPc[c] \notin {"none", "done"}
  BY CoroutineIds DEF Unfinished, Mux, Start, Reader, Sync

\* Every coroutine is of one of the four kinds.
LEMMA Kinds ==
    ASSUME NEW k \in Coroutines
    PROVE  k = Mux \/ \E c \in Connections : k = Start(c) \/ k = Reader(c) \/ k = Sync(c)
  BY DEF Coroutines, Mux, Start, Reader, Sync

LEMMA UnfinishedSame ==
    ASSUME muxPc' # "done" <=> muxPc # "done",
           \A c \in Connections :
              /\ startPc'[c] \notin {"none", "done"} <=> startPc[c] \notin {"none", "done"}
              /\ readerPc'[c] \notin {"none", "done"} <=> readerPc[c] \notin {"none", "done"}
              /\ syncPc'[c] \notin {"none", "done"} <=> syncPc[c] \notin {"none", "done"}
    PROVE  Unfinished' = Unfinished
  BY DEF Unfinished

\* The variables Fresh and SpawnedOnce are about.
LEMMA PlaceFrame ==
    ASSUME Fresh, \A c \in Connections : SpawnedOnce(c),
           muxPc' = muxPc, incoming' = incoming,
           Mux \in pending => Mux \in pending',
           startPc' = startPc, readerPc' = readerPc, syncPc' = syncPc
    PROVE  Fresh' /\ \A c \in Connections : SpawnedOnce(c)'
  BY DEF Fresh, SpawnedOnce

\* One coroutine returns.
LEMMA StartReturns ==
    ASSUME ControlTyped, NEW c \in Connections,
           startPc' = [startPc EXCEPT ![c] = startPc'[c]],
           startPc'[c] \in {"none", "done"},
           UNCHANGED <<muxPc, readerPc, syncPc>>
    PROVE  Unfinished' = Unfinished \ {Start(c)}
<1>1. \A d \in Connections \ {c} : startPc'[d] = startPc[d]
  BY DEF ControlTyped
<1> QED
  BY <1>1, CoroutineIdsDiffer DEF Unfinished, Start

LEMMA ReaderReturns ==
    ASSUME ControlTyped, NEW c \in Connections,
           readerPc' = [readerPc EXCEPT ![c] = "done"],
           UNCHANGED <<muxPc, startPc, syncPc>>
    PROVE  Unfinished' = Unfinished \ {Reader(c)}
<1>1. readerPc'[c] = "done" /\ \A d \in Connections \ {c} : readerPc'[d] = readerPc[d]
  BY DEF ControlTyped
<1> QED
  BY <1>1, CoroutineIdsDiffer DEF Unfinished, Reader

LEMMA SyncReturns ==
    ASSUME ControlTyped, NEW c \in Connections,
           syncPc' = [syncPc EXCEPT ![c] = "done"],
           UNCHANGED <<muxPc, startPc, readerPc>>
    PROVE  Unfinished' = Unfinished \ {Sync(c)}
<1>1. syncPc'[c] = "done" /\ \A d \in Connections \ {c} : syncPc'[d] = syncPc[d]
  BY DEF ControlTyped
<1> QED
  BY <1>1, CoroutineIdsDiffer DEF Unfinished, Sync

\* One coroutine is spawned.
LEMMA StartSpawned ==
    ASSUME ControlTyped, NEW c \in Connections, startPc[c] = "none",
           startPc' = [startPc EXCEPT ![c] = "write"],
           muxPc # "done", muxPc' # "done", UNCHANGED <<readerPc, syncPc>>
    PROVE  Unfinished' = Unfinished \cup {Start(c)}
<1>1. startPc'[c] = "write" /\ \A d \in Connections \ {c} : startPc'[d] = startPc[d]
  BY DEF ControlTyped
<1>2. Start(c) \in Coroutines
  BY CoroutineIds
<1> QED
  BY <1>1, <1>2, CoroutineIdsDiffer DEF Unfinished, Start

LEMMA ReaderSpawned ==
    ASSUME ControlTyped, NEW c \in Connections,
           readerPc' = [readerPc EXCEPT ![c] = "check"],
           startPc' = [startPc EXCEPT ![c] = startPc'[c]],
           startPc[c] \notin {"none", "done"}, startPc'[c] \notin {"none", "done"},
           UNCHANGED <<muxPc, syncPc>>
    PROVE  Unfinished' = Unfinished \cup {Reader(c)}
<1>1. /\ readerPc'[c] = "check"
      /\ \A d \in Connections \ {c} : readerPc'[d] = readerPc[d] /\ startPc'[d] = startPc[d]
  BY DEF ControlTyped
<1>2. Reader(c) \in Coroutines
  BY CoroutineIds
<1> QED
  BY <1>1, <1>2, CoroutineIdsDiffer DEF Unfinished, Reader

LEMMA SyncSpawned ==
    ASSUME ControlTyped, NEW c \in Connections,
           syncPc' = [syncPc EXCEPT ![c] = "check"],
           startPc' = [startPc EXCEPT ![c] = startPc'[c]],
           startPc[c] \notin {"none", "done"}, startPc'[c] \notin {"none", "done"},
           UNCHANGED <<muxPc, readerPc>>
    PROVE  Unfinished' = Unfinished \cup {Sync(c)}
<1>1. /\ syncPc'[c] = "check"
      /\ \A d \in Connections \ {c} : syncPc'[d] = syncPc[d] /\ startPc'[d] = startPc[d]
  BY DEF ControlTyped
<1>2. Sync(c) \in Coroutines
  BY CoroutineIds
<1> QED
  BY <1>1, <1>2, CoroutineIdsDiffer DEF Unfinished, Sync

\* A step of one coroutine of a connection: it awaits, goes on or returns.
LEMMA StartPlaced ==
    ASSUME PlaceInv, NEW c \in Connections, StartStep(c)
    PROVE  InOnePlace' /\ Fresh' /\ \A d \in Connections : SpawnedOnce(d)'
<1> USE DEF PlaceInv, NodeInv
<1> DEFINE k == Start(c)
<1>1. /\ Runs(k)
      /\ k \in Coroutines
      /\ startPc[c] \notin {"none", "done"}
      /\ startPc' = [startPc EXCEPT ![c] = startPc'[c]]
      /\ startPc'[c] # "none"
      /\ UNCHANGED <<muxPc, incoming, late>>
  BY CoroutineIds
     DEF StartStep, NegotiateWrite, NegotiateRead, NegotiateParse, SpawnReader,
         SpawnSync, Leave, ControlTyped, muxVars
<1>2. /\ stack # <<>>
      /\ k \notin pending
      /\ k # Mux
  BY <1>1, RunningIsPlaced, CoroutineIdsDiffer
<1>3. Mux \in pending => Mux \in pending'
  BY <1>2 DEF StartStep, NegotiateWrite, NegotiateRead, NegotiateParse,
              SpawnReader, SpawnSync, Leave, Await, Suspend, Continue, Return,
              Spawn, executor
<1>4. Fresh'
  <2>1. incoming \in Connections
    BY <1>1, <1>2, Booted DEF ControlTyped
  <2> QED
    BY <1>1, <1>3, <2>1 DEF Fresh, ControlTyped
<1>5. CASE NegotiateWrite(c) \/ NegotiateRead(c)
  <2>1. /\ Await(k)
        /\ startPc'[c] \in {"read", "parse"}
        /\ startPc[c] \in {"write", "read"}
        /\ UNCHANGED <<readerPc, syncPc>>
    BY <1>5 DEF NegotiateWrite, NegotiateRead, ControlTyped
  <2>2. Unfinished' = Unfinished
    BY <1>1, <2>1, UnfinishedSame DEF ControlTyped
  <2>3. InOnePlace'
    BY <1>1, <2>1, <2>2, PlaceAwait
  <2>4. \A d \in Connections : SpawnedOnce(d)'
    BY <1>1, <2>1 DEF SpawnedOnce, ControlTyped
  <2> QED
    BY <1>4, <2>3, <2>4
<1>6. CASE NegotiateParse(c)
  <2>1. /\ startPc[c] = "parse"
        /\ UNCHANGED <<readerPc, syncPc>>
        /\ \/ Continue /\ startPc'[c] = "spawnReader"
           \/ Return /\ startPc'[c] = "done"
    BY <1>6 DEF NegotiateParse, ControlTyped
  <2>2. ASSUME Continue, startPc'[c] = "spawnReader"
        PROVE  InOnePlace'
    <3>1. Unfinished' = Unfinished
      BY <1>1, <2>1, <2>2, UnfinishedSame DEF ControlTyped
    <3> QED
      BY <2>2, <3>1, PlaceContinue
  <2>3. ASSUME Return, startPc'[c] = "done"
        PROVE  InOnePlace'
    <3>1. Unfinished' = Unfinished \ {k}
      BY <1>1, <2>1, <2>3, StartReturns
    <3> QED
      BY <1>1, <2>3, <3>1, PlaceReturn
  <2>4. \A d \in Connections : SpawnedOnce(d)'
    BY <1>1, <2>1 DEF SpawnedOnce, ControlTyped
  <2> QED
    BY <1>4, <2>1, <2>2, <2>3, <2>4
<1>7. CASE SpawnReader(c)
  <2>1. /\ startPc[c] = "spawnReader"
        /\ startPc'[c] = "spawnSync"
        /\ readerPc' = [readerPc EXCEPT ![c] = "check"]
        /\ Spawn(Reader(c))
        /\ UNCHANGED syncPc
    BY <1>7 DEF SpawnReader, ControlTyped
  <2>2. readerPc[c] = "none" /\ Reader(c) \in Coroutines \ Unfinished
    BY <2>1, UnfinishedIs, CoroutineIds DEF SpawnedOnce
  <2>3. Unfinished' = Unfinished \cup {Reader(c)}
    BY <1>1, <2>1, <2>2, ReaderSpawned
  <2>4. InOnePlace'
    BY <2>1, <2>2, <2>3, PlaceSpawn
  <2>5. \A d \in Connections : SpawnedOnce(d)'
    BY <1>1, <2>1 DEF SpawnedOnce, ControlTyped
  <2> QED
    BY <1>4, <2>4, <2>5
<1>8. CASE SpawnSync(c)
  <2>1. /\ startPc[c] = "spawnSync"
        /\ startPc'[c] = "spin"
        /\ syncPc' = [syncPc EXCEPT ![c] = "check"]
        /\ Spawn(Sync(c))
        /\ UNCHANGED readerPc
    BY <1>8 DEF SpawnSync, ControlTyped
  <2>2. syncPc[c] = "none" /\ Sync(c) \in Coroutines \ Unfinished
    BY <2>1, UnfinishedIs, CoroutineIds DEF SpawnedOnce
  <2>3. Unfinished' = Unfinished \cup {Sync(c)}
    BY <1>1, <2>1, <2>2, SyncSpawned
  <2>4. InOnePlace'
    BY <2>1, <2>2, <2>3, PlaceSpawn
  <2>5. \A d \in Connections : SpawnedOnce(d)'
    BY <1>1, <2>1 DEF SpawnedOnce, ControlTyped
  <2> QED
    BY <1>4, <2>4, <2>5
<1>9. CASE Leave(c)
  <2>1. /\ startPc[c] = "spin"
        /\ startPc'[c] = "done"
        /\ Return
        /\ UNCHANGED <<readerPc, syncPc>>
    BY <1>9 DEF Leave, ControlTyped
  <2>2. Unfinished' = Unfinished \ {k}
    BY <1>1, <2>1, StartReturns
  <2>3. InOnePlace'
    BY <1>1, <2>1, <2>2, PlaceReturn
  <2>4. \A d \in Connections : SpawnedOnce(d)'
    BY <1>1, <2>1 DEF SpawnedOnce, ControlTyped
  <2> QED
    BY <1>4, <2>3, <2>4
<1> QED
  BY <1>5, <1>6, <1>7, <1>8, <1>9 DEF StartStep

LEMMA ReaderPlaced ==
    ASSUME PlaceInv, NEW c \in Connections, ReaderStep(c)
    PROVE  InOnePlace' /\ Fresh' /\ \A d \in Connections : SpawnedOnce(d)'
<1> USE DEF PlaceInv, NodeInv
<1> DEFINE k == Reader(c)
<1>1. /\ Runs(k)
      /\ k \in Coroutines
      /\ readerPc[c] \notin {"none", "done"}
      /\ UNCHANGED <<muxPc, incoming, startPc, syncPc>>
  BY CoroutineIds DEF ReaderStep, ReaderCheck, ReaderHeader, ReaderBytes, muxVars
<1>2. /\ \/ Await(k) /\ readerPc' \in {[readerPc EXCEPT ![c] = "header"],
                                       [readerPc EXCEPT ![c] = "bytes"]}
         \/ Continue /\ readerPc' = [readerPc EXCEPT ![c] = "check"]
         \/ Return /\ readerPc' = [readerPc EXCEPT ![c] = "done"]
  BY <1>1 DEF ReaderStep, ReaderCheck, ReaderHeader, ReaderBytes
<1>3. ASSUME Await(k) \/ Continue,
             readerPc' \in {[readerPc EXCEPT ![c] = "header"],
                           [readerPc EXCEPT ![c] = "bytes"],
                           [readerPc EXCEPT ![c] = "check"]}
      PROVE  InOnePlace'
  <2>1. Unfinished' = Unfinished
    BY <1>1, <1>3, UnfinishedSame DEF ControlTyped
  <2> QED
    BY <1>1, <1>3, <2>1, PlaceAwait, PlaceContinue
<1>4. ASSUME Return, readerPc' = [readerPc EXCEPT ![c] = "done"]
      PROVE  InOnePlace'
  <2>1. Unfinished' = Unfinished \ {k}
    BY <1>1, <1>4, ReaderReturns
  <2> QED
    BY <1>1, <1>4, <2>1, PlaceReturn
<1>5. k # Mux /\ pending \subseteq pending'
  BY <1>2, CoroutineIdsDiffer DEF Await, Suspend, Continue, Return, executor
<1>7. Fresh'
  BY <1>1, <1>5 DEF Fresh
<1>8. \A d \in Connections : SpawnedOnce(d)'
  BY <1>1, <1>2 DEF SpawnedOnce, ControlTyped
<1> QED
  BY <1>2, <1>3, <1>4, <1>7, <1>8

LEMMA SyncPlaced ==
    ASSUME PlaceInv, NEW c \in Connections, SyncStep(c)
    PROVE  InOnePlace' /\ Fresh' /\ \A d \in Connections : SpawnedOnce(d)'
<1> USE DEF PlaceInv, NodeInv
<1> DEFINE k == Sync(c)
<1>1. /\ Runs(k)
      /\ k \in Coroutines
      /\ syncPc[c] \notin {"none", "done"}
      /\ UNCHANGED <<muxPc, incoming, startPc, readerPc>>
  BY CoroutineIds
     DEF SyncStep, SyncCheck, SyncWritten, SyncCrashes, muxVars, connVars, runtimeVars
<1>2. \/ Await(k) /\ syncPc' = [syncPc EXCEPT ![c] = "pass"]
      \/ Continue /\ syncPc' = [syncPc EXCEPT ![c] = "check"]
      \/ Continue /\ syncPc' = syncPc
      \/ Return /\ syncPc' = [syncPc EXCEPT ![c] = "done"]
  BY <1>1 DEF SyncStep, SyncCheck, SyncWritten, SyncCrashes, AfterWrite,
              Continue, runtimeVars, connVars
<1>3. ASSUME Await(k) \/ Continue,
             syncPc' \in {[syncPc EXCEPT ![c] = "pass"],
                         [syncPc EXCEPT ![c] = "check"],
                         syncPc}
      PROVE  InOnePlace'
  <2>1. Unfinished' = Unfinished
    BY <1>1, <1>3, UnfinishedSame DEF ControlTyped
  <2> QED
    BY <1>1, <1>3, <2>1, PlaceAwait, PlaceContinue
<1>4. ASSUME Return, syncPc' = [syncPc EXCEPT ![c] = "done"]
      PROVE  InOnePlace'
  <2>1. Unfinished' = Unfinished \ {k}
    BY <1>1, <1>4, SyncReturns
  <2> QED
    BY <1>1, <1>4, <2>1, PlaceReturn
<1>5. pending \subseteq pending'
  BY <1>2 DEF Await, Suspend, Continue, Return, executor
<1>6. Fresh'
  BY <1>1, <1>5 DEF Fresh
<1>7. \A d \in Connections : SpawnedOnce(d)'
  BY <1>1, <1>2 DEF SpawnedOnce, ControlTyped
<1> QED
  BY <1>2, <1>3, <1>4, <1>6, <1>7

LEMMA MuxPlaced ==
    ASSUME PlaceInv, MuxCheck \/ MuxSpawn
    PROVE  InOnePlace' /\ Fresh' /\ \A d \in Connections : SpawnedOnce(d)'
<1> USE DEF PlaceInv, NodeInv
<1>1. Runs(Mux) /\ Mux \in Coroutines /\ Mux \notin pending
  BY CoroutineIds, RunningIsPlaced DEF MuxCheck, MuxSpawn
<1>2. CASE MuxCheck
  <2>1. /\ muxPc = "check"
        /\ UNCHANGED <<startPc, readerPc, syncPc>>
        /\ \/ muxPc' = "receive" /\ Suspend(Mux)
           \/ muxPc' = "done" /\ Return
    BY <1>2 DEF MuxCheck, connVars
  <2>2. ASSUME muxPc' = "receive", Suspend(Mux)
        PROVE  InOnePlace' /\ Fresh'
    <3>1. Unfinished' = Unfinished
      BY <2>1, <2>2, UnfinishedSame
    <3> QED
      BY <1>1, <2>2, <3>1, PlaceSuspend DEF Fresh, Suspend
  <2>3. ASSUME muxPc' = "done", Return
        PROVE  InOnePlace' /\ Fresh'
    <3>1. Unfinished' = Unfinished \ {Mux}
      BY <2>1, <2>3, CoroutineIdsDiffer DEF Unfinished
    <3> QED
      BY <1>1, <2>3, <3>1, PlaceReturn DEF Fresh
  <2> QED
    BY <2>1, <2>2, <2>3 DEF SpawnedOnce
<1>3. CASE MuxSpawn
  <2>1. /\ muxPc = "receive"
        /\ muxPc' = "check"
        /\ startPc' = [startPc EXCEPT ![incoming] = "write"]
        /\ Spawn(Start(incoming))
        /\ UNCHANGED <<readerPc, syncPc>>
    BY <1>3 DEF MuxSpawn
  <2>2. stack # <<>> /\ incoming # Listener
    BY <1>1, <2>1 DEF Boot, Runs
  <2>3. incoming \in Connections
    BY <2>2 DEF ControlTyped
  <2>4. startPc[incoming] = "none"
    BY <1>1, <2>1 DEF Fresh
  <2>5. Start(incoming) \in Coroutines \ Unfinished
    BY <2>3, <2>4, UnfinishedIs, CoroutineIds
  <2>6. Unfinished' = Unfinished \cup {Start(incoming)}
    BY <2>1, <2>3, <2>4, StartSpawned
  <2>7. InOnePlace'
    BY <2>1, <2>5, <2>6, PlaceSpawn
  <2>8. \A d \in Connections : SpawnedOnce(d)'
    BY <2>1, <2>3, <2>4 DEF SpawnedOnce, ControlTyped
  <2> QED
    BY <2>1, <2>7, <2>8 DEF Fresh
<1> QED
  BY <1>2, <1>3

LEMMA PlaceStep == PlaceInv /\ [NodeNext]_vars => PlaceInv'
<1> SUFFICES ASSUME PlaceInv, [NodeNext]_vars
             PROVE  InOnePlace' /\ Fresh' /\ \A c \in Connections : SpawnedOnce(c)'
  BY NodeTypeStep DEF PlaceInv
<1> USE DEF PlaceInv, NodeInv
<1>1. CASE Dispatch
  <2>1. /\ UNCHANGED <<muxPc, incoming, startPc, readerPc, syncPc, pending>>
        /\ Unfinished' = Unfinished
    BY <1>1, UnfinishedSame DEF Dispatch, muxVars, connVars
  <2> QED
    BY <1>1, <2>1, PlaceDispatch, PlaceFrame
<1>2. CASE MuxCheck \/ MuxSpawn
  BY <1>2, MuxPlaced
<1>3. ASSUME NEW c \in Connections, StartStep(c) \/ ReaderStep(c) \/ SyncStep(c)
      PROVE  InOnePlace' /\ Fresh' /\ \A d \in Connections : SpawnedOnce(d)'
  BY <1>3, StartPlaced, ReaderPlaced, SyncPlaced
<1>4. ASSUME NEW c \in Connections, Arrive(c)
      PROVE  InOnePlace' /\ Fresh' /\ \A d \in Connections : SpawnedOnce(d)'
  <2>1. /\ Mux \in pending
        /\ startPc[c] = "none"
        /\ incoming' = c
        /\ UNCHANGED <<stack, muxPc, startPc, readerPc, syncPc>>
        /\ pending' = pending \ {Mux}
        /\ queue' = Append(queue, Mux)
    BY <1>4 DEF Arrive, connVars
  <2>2. Unfinished' = Unfinished
    BY <2>1, UnfinishedSame
  <2>3. InOnePlace'
    BY <2>1, <2>2, PlaceReady
  <2> QED
    BY <2>1, <2>3 DEF Fresh, SpawnedOnce
<1>5. ASSUME NEW k \in Coroutines \ {Mux}, Complete(k)
      PROVE  InOnePlace' /\ Fresh' /\ \A d \in Connections : SpawnedOnce(d)'
  <2>1. /\ k \in pending
        /\ pending' = pending \ {k}
        /\ queue' = Append(queue, k)
        /\ UNCHANGED <<stack, muxPc, incoming, startPc, readerPc, syncPc>>
    BY <1>5 DEF Complete, muxVars, connVars
  <2>2. Unfinished' = Unfinished
    BY <2>1, UnfinishedSame
  <2>3. InOnePlace'
    BY <2>1, <2>2, PlaceReady
  <2> QED
    BY <1>5, <2>1, <2>3, PlaceFrame
<1>6. ASSUME UNCHANGED <<executor, muxVars, connVars>>
      PROVE  InOnePlace' /\ Fresh' /\ \A c \in Connections : SpawnedOnce(c)'
  <2>1. Unfinished' = Unfinished
    BY <1>6, UnfinishedSame DEF muxVars, connVars
  <2> QED
    BY <1>6, <2>1, PlaceFrame DEF InOnePlace, executor, muxVars, connVars
<1>7. CASE (\E c \in Connections : Dangle(c) \/ LoseLink(c)) \/ Shutdown
            \/ (\E m \in Message : Post(m)) \/ UNCHANGED vars
  BY <1>6, <1>7 DEF Dangle, LoseLink, Shutdown, Post, vars, runtimeVars
<1> QED
  BY <1>1, <1>2, <1>3, <1>4, <1>5, <1>7 DEF NodeNext, Thread, Environment

LEMMA PlaceInit == NodeInit => PlaceInv
<1> SUFFICES ASSUME NodeInit
             PROVE  PlaceInv
  OBVIOUS
<1>1. /\ stack = <<>>
      /\ queue = <<Mux>>
      /\ pending = {}
      /\ muxPc = "check"
      /\ \A c \in Connections :
            startPc[c] = "none" /\ readerPc[c] = "none" /\ syncPc[c] = "none"
  BY DEF NodeInit
<1>2. Elems(stack) = {} /\ Elems(queue) = {Mux} /\ Distinct(stack) /\ Distinct(queue)
  BY <1>1 DEF Elems, Distinct
<1>3. Unfinished = {Mux}
  BY <1>1, CoroutineIds DEF Unfinished
<1>4. InOnePlace
  BY <1>1, <1>2, <1>3 DEF InOnePlace
<1> QED
  BY <1>1, <1>4, NodeInitInv DEF PlaceInv, Fresh, SpawnedOnce

-----------------------------------------------------------------------------
(***************************************************************************)
(* The lifetime of a Connection                                            *)
(***************************************************************************)

\* The Connection of c exists between the handshake and the end of the spin, the
\* detached coroutines are spawned in between, and the spin ends only when the
\* node was stopped or the link lost, neither of which is ever undone.
Lifetime(c) ==
    /\ startPc[c] \in {"none", "write", "read", "parse"} => life[c] = "none"
    /\ startPc[c] \in {"spawnReader", "spawnSync", "spin"} => life[c] = "live"
    /\ readerPc[c] # "none" \/ syncPc[c] # "none" => life[c] # "none"
    /\ life[c] = "destroyed" => ~(running /\ valid[c])
    /\ pass[c] # <<>> \/ stage[c] # "idle" => syncPc[c] # "none"

LifeInv == PlaceInv /\ \A c \in Connections : Lifetime(c)

\* The variables Lifetime(c) is about.
LEMMA LifetimeFrame ==
    ASSUME NEW c \in Connections, Lifetime(c),
           running' = running, valid'[c] = valid[c],
           startPc'[c] = startPc[c], readerPc'[c] = readerPc[c],
           syncPc'[c] = syncPc[c], life'[c] = life[c],
           pass'[c] = pass[c], stage'[c] = stage[c]
    PROVE  Lifetime(c)'
  BY DEF Lifetime

\* A Syncer step for c leaves the other connections' passes alone.
LEMMA OtherPasses ==
    ASSUME TypeOK, NEW c \in Connections,
           \/ Begin(c, "full")
           \/ WriteCompletes(c)
           \/ ScanCrashes(c)
           \/ UNCHANGED syncerVars
    PROVE  \A d \in Connections \ {c} : pass'[d] = pass[d] /\ stage'[d] = stage[d]
<1>1. CASE UNCHANGED syncerVars \/ ScanCrashes(c)
  BY <1>1 DEF syncerVars, ScanCrashes
<1>2. CASE Begin(c, "full")
  BY <1>2 DEF Begin, Scan, Stop, EnterSyncOne, TypeOK
<1>3. ASSUME NEW ok \in BOOLEAN, HeaderWritten(c, ok) \/ BytesWritten(c, ok)
      PROVE  \A d \in Connections \ {c} : pass'[d] = pass[d] /\ stage'[d] = stage[d]
  BY <1>3 DEF HeaderWritten, BytesWritten, ScanOn, Scan, ScanStale, Stop,
              EnterSyncOne, TypeOK
<1> QED
  BY <1>1, <1>2, <1>3 DEF WriteCompletes

LEMMA LifeStep == LifeInv /\ [NodeNext]_vars => LifeInv'
<1> SUFFICES ASSUME LifeInv, [NodeNext]_vars, NEW d \in Connections
             PROVE  Lifetime(d)'
  BY PlaceStep DEF LifeInv
<1>0. /\ TypeOK
      /\ ControlTyped
      /\ Lifetime(d)
      /\ PlaceInv
  BY DEF LifeInv, PlaceInv, NodeInv
<1>1. CASE Dispatch \/ MuxCheck \/ \E k \in Coroutines : Complete(k)
  BY <1>0, <1>1, LifetimeFrame
     DEF Dispatch, MuxCheck, Complete, outside, connVars, syncerVars
<1>2. CASE MuxSpawn
  <2>1. /\ UNCHANGED <<outside, readerPc, syncPc, life, syncerVars>>
        /\ startPc' = [startPc EXCEPT ![incoming] = "write"]
        /\ muxPc = "receive"
        /\ Runs(Mux)
    BY <1>2 DEF MuxSpawn
  <2>2. startPc[incoming] = "none"
    BY <1>0, <2>1, RunningIsPlaced DEF PlaceInv, NodeInv, Fresh
  <2>3. CASE incoming = d
    BY <1>0, <2>1, <2>2, <2>3 DEF Lifetime, ControlTyped, outside, syncerVars
  <2>4. CASE incoming # d
    BY <1>0, <2>1, <2>4, LifetimeFrame DEF ControlTyped, outside, syncerVars
  <2> QED
    BY <2>3, <2>4
<1>3. ASSUME NEW c \in Connections, NegotiateWrite(c) \/ NegotiateRead(c)
      PROVE  Lifetime(d)'
  BY <1>0, <1>3 DEF NegotiateWrite, NegotiateRead, Lifetime, ControlTyped,
                    outside, syncerVars
<1>4. ASSUME NEW c \in Connections, NegotiateParse(c)
      PROVE  Lifetime(d)'
  BY <1>0, <1>4 DEF NegotiateParse, Lifetime, ControlTyped, outside, syncerVars
<1>5. ASSUME NEW c \in Connections, SpawnReader(c) \/ SpawnSync(c)
      PROVE  Lifetime(d)'
  BY <1>0, <1>5 DEF SpawnReader, SpawnSync, Lifetime, ControlTyped, outside,
                    syncerVars
<1>6. ASSUME NEW c \in Connections, Leave(c)
      PROVE  Lifetime(d)'
  BY <1>0, <1>6 DEF Leave, SpinHolds, Lifetime, ControlTyped, outside, syncerVars
<1>7. ASSUME NEW c \in Connections, ReaderStep(c)
      PROVE  Lifetime(d)'
  BY <1>0, <1>7 DEF ReaderStep, ReaderCheck, ReaderHeader, ReaderBytes, Lifetime,
                    ControlTyped, outside, syncerVars
<1>8. ASSUME NEW c \in Connections, SyncStep(c)
      PROVE  Lifetime(d)'
  <2>1. /\ UNCHANGED <<outside, startPc, readerPc, life>>
        /\ syncPc[c] # "none"
        /\ \/ syncPc' = syncPc
           \/ \E x \in {"check", "pass", "done"} : syncPc' = [syncPc EXCEPT ![c] = x]
    BY <1>8 DEF SyncStep, SyncCheck, SyncWritten, SyncCrashes, AfterWrite,
                runtimeVars, connVars
  <2>2. \A e \in Connections \ {c} : pass'[e] = pass[e] /\ stage'[e] = stage[e]
    BY <1>0, <1>8, OtherPasses DEF SyncStep, SyncCheck, SyncWritten, SyncCrashes
  <2>3. CASE d = c
    <3>1. syncPc'[c] # "none"
      BY <1>0, <2>1 DEF ControlTyped
    <3> QED
      BY <1>0, <2>1, <2>3, <3>1 DEF Lifetime, outside
  <2>4. CASE d # c
    BY <1>0, <2>1, <2>2, <2>4, LifetimeFrame DEF ControlTyped, outside
  <2> QED
    BY <2>3, <2>4
<1>9. ASSUME NEW c \in Connections, Arrive(c) \/ LoseLink(c) \/ Dangle(c)
      PROVE  Lifetime(d)'
  BY <1>0, <1>9 DEF Arrive, LoseLink, Dangle, Lifetime, ControlTyped, outside,
                    connVars, syncerVars
<1>10. CASE Shutdown
  BY <1>0, <1>10 DEF Shutdown, Lifetime, connVars, syncerVars
<1>11. CASE (\E m \in Message : Post(m)) \/ UNCHANGED vars
  BY <1>0, <1>11, LifetimeFrame
     DEF Post, AddMessage, vars, runtimeVars, outside, connVars, syncerVars
<1> QED
  BY <1>1, <1>2, <1>3, <1>4, <1>5, <1>6, <1>7, <1>8, <1>9, <1>10, <1>11
     DEF NodeNext, Thread, Environment, StartStep

LEMMA LifeInit == NodeInit => LifeInv
  BY PlaceInit DEF NodeInit, Init, LifeInv, Lifetime

\* While the node runs and the link is up, a detached coroutine that has not
\* returned refers to a Connection that exists (hrafn.cpp:260-283): the spin is
\* what keeps it alive.
THEOREM KeptAlive == NodeSpec => []KeepAlive
<1>1. LifeInv => KeepAlive
  <2> SUFFICES ASSUME LifeInv, NEW c \in Connections,
                      readerPc[c] # "none" \/ syncPc[c] # "none", running, valid[c]
               PROVE  life[c] = "live"
    BY DEF KeepAlive
  <2>1. life[c] \in Life /\ Lifetime(c)
    BY DEF LifeInv, PlaceInv, NodeInv, ControlTyped
  <2> QED
    BY <2>1 DEF Lifetime, Life
<1> QED
  BY <1>1, LifeInit, LifeStep, PTL DEF NodeSpec

\* No message is read or written before the handshake has been read and parsed
\* (hrafn.cpp:140-154, 265-278).
THEOREM HandshakeFirst == NodeSpec => []NegotiatedFirst
<1>1. LifeInv => NegotiatedFirst
  BY DEF LifeInv, Lifetime, NegotiatedFirst
<1> QED
  BY <1>1, LifeInit, LifeStep, PTL DEF NodeSpec

\* No handshake was parsed.
Unmet(c) ==
    /\ startPc[c] \notin {"spawnReader", "spawnSync", "spin"}
    /\ life[c] = "none"

UnmetInv == LifeInv /\ \A c \in Connections : Unmet(c)

LEMMA UnmetStep ==
    ASSUME "exact" \notin PeerSends
    PROVE  UnmetInv /\ [NodeNext]_vars => UnmetInv'
<1> SUFFICES ASSUME UnmetInv, [NodeNext]_vars, NEW d \in Connections
             PROVE  Unmet(d)'
  BY LifeStep DEF UnmetInv
<1>0. ControlTyped /\ \A c \in Connections : Unmet(c) /\ Lifetime(c)
  BY DEF UnmetInv, LifeInv, PlaceInv, NodeInv
<1>1. ASSUME UNCHANGED <<startPc, life>>
      PROVE  Unmet(d)'
  BY <1>0, <1>1 DEF Unmet
<1>2. CASE MuxSpawn
  BY <1>0, <1>2 DEF MuxSpawn, Unmet, ControlTyped
<1>3. ASSUME NEW c \in Connections, NegotiateWrite(c) \/ NegotiateRead(c)
      PROVE  Unmet(d)'
  BY <1>0, <1>3 DEF NegotiateWrite, NegotiateRead, Unmet, ControlTyped
<1>4. ASSUME NEW c \in Connections, NegotiateParse(c)
      PROVE  Unmet(d)'
  <2>1. startPc' = [startPc EXCEPT ![c] = "done"] /\ life' = life
    BY <1>4 DEF NegotiateParse, Parses
  <2> QED
    BY <1>0, <2>1 DEF Unmet, ControlTyped
<1>5. ASSUME NEW c \in Connections, SpawnReader(c) \/ SpawnSync(c) \/ Leave(c)
      PROVE  FALSE
  BY <1>0, <1>5 DEF SpawnReader, SpawnSync, Leave, Unmet
<1>6. CASE Dispatch \/ MuxCheck \/ Shutdown
           \/ (\E k \in Coroutines : Complete(k)) \/ (\E m \in Message : Post(m))
  BY <1>1, <1>6 DEF Dispatch, MuxCheck, Shutdown, Complete, Post, runtimeVars, connVars
<1>7. ASSUME NEW c \in Connections,
             \/ ReaderStep(c) \/ SyncStep(c) \/ Dangle(c)
             \/ Arrive(c) \/ LoseLink(c)
      PROVE  Unmet(d)'
  BY <1>1, <1>7 DEF ReaderStep, ReaderCheck, ReaderHeader, ReaderBytes,
                    SyncStep, SyncCheck, SyncWritten, SyncCrashes, Dangle,
                    Arrive, LoseLink, runtimeVars, connVars
<1>8. CASE UNCHANGED vars
  BY <1>1, <1>8 DEF vars, runtimeVars, connVars
<1> QED
  BY <1>2, <1>3, <1>4, <1>5, <1>6, <1>7, <1>8
     DEF NodeNext, Thread, Environment, StartStep

\* Nothing is read as a message or written from the store on any connection.
NothingExchanged ==
    \A c \in Connections :
        /\ life[c] = "none"
        /\ readerPc[c] = "none" /\ syncPc[c] = "none"
        /\ pass[c] = <<>> /\ stage[c] = "idle"

\* If no peer sends a handshake that fills the buffer of 1024 bytes, as no node
\* that runs this code does, then no connection ever gets past its handshake and
\* no message is exchanged: the whole zeroed buffer is parsed, whatever the
\* length that was read (hrafn.cpp:54-66, 140-154).
THEOREM ShortHandshakesFail ==
    ASSUME "exact" \notin PeerSends
    PROVE  NodeSpec => []NothingExchanged
<1>1. NodeInit => UnmetInv
  BY LifeInit DEF NodeInit, UnmetInv, Unmet
<1>2. UnmetInv /\ [NodeNext]_vars => UnmetInv'
  BY UnmetStep
<1>3. UnmetInv => NothingExchanged
  BY DEF UnmetInv, LifeInv, Lifetime, Unmet, NothingExchanged
<1> QED
  BY <1>1, <1>2, <1>3, PTL DEF NodeSpec

\* What a step of a stopped node makes of the writes that are left of a pass.
LEMMA StoppedStep ==
    ASSUME WithinInv, [NodeNext]_vars, ~running, NEW d \in Connections
    PROVE  WritesLeft(d)' <= WritesLeft(d)
<1>0. TypeOK /\ end[d] \in Nat /\ at[d] \in Nat /\ stage[d] \in Stage
  BY DEF WithinInv, TypeOK
<1>1. CASE stage[d] # "idle"
  <2>1. Shrinks(d)
    BY SyncerStep, WithinStep
  <2>2. WritesLeft(d)' \in Nat /\ WritesLeft(d) \in Nat
    BY <1>1, <2>1 DEF Shrinks
  <2>3. CASE UNCHANGED <<stage[d], at[d], end[d], pass[d]>>
    <3>1. WritesLeft(d)' = WritesLeft(d)
      BY <2>3 DEF WritesLeft
    <3> QED
      BY <2>2, <3>1
  <2> QED
    BY <1>1, <2>1, <2>2, <2>3 DEF Shrinks
<1>2. CASE stage[d] = "idle"
  <2>1. ASSUME stage'[d] = stage[d]
        PROVE  WritesLeft(d)' <= WritesLeft(d)
    BY <1>2, <2>1 DEF WritesLeft
  <2>2. ASSUME NEW c \in Connections, SyncCheck(c)
        PROVE  stage' = stage
    BY <2>2 DEF SyncCheck, SyncGoesOn, syncerVars
  <2>3. ASSUME NEW c \in Connections, SyncWritten(c) \/ SyncCrashes(c)
        PROVE  stage'[d] = stage[d]
    <3>1. stage[c] # "idle" /\ (WriteCompletes(c) \/ ScanCrashes(c))
      BY <2>3 DEF SyncWritten, SyncCrashes, WriteCompletes, HeaderWritten,
                  BytesWritten, ScanCrashes
    <3> QED
      BY <1>0, <1>2, <3>1, OtherPasses
  <2>4. ASSUME NEW m \in Message, Post(m)
        PROVE  stage' = stage
    BY <2>4 DEF Post, AddMessage
  <2>5. ASSUME UNCHANGED syncerVars
        PROVE  stage' = stage
    BY <2>5 DEF syncerVars
  <2>6. ASSUME NEW c \in Connections,
               StartStep(c) \/ ReaderStep(c) \/ Dangle(c) \/ Arrive(c) \/ LoseLink(c)
        PROVE  UNCHANGED syncerVars
    BY <2>6 DEF StartStep, NegotiateWrite, NegotiateRead, NegotiateParse,
                SpawnReader, SpawnSync, Leave, ReaderStep, ReaderCheck,
                ReaderHeader, ReaderBytes, Dangle, Arrive, LoseLink
  <2>7. ASSUME \/ Dispatch \/ MuxCheck \/ MuxSpawn \/ Shutdown \/ UNCHANGED vars
               \/ \E k \in Coroutines : Complete(k)
        PROVE  UNCHANGED syncerVars
    BY <2>7 DEF Dispatch, MuxCheck, MuxSpawn, Shutdown, Complete, vars
  <2>8. stage'[d] = stage[d]
    BY <2>2, <2>3, <2>4, <2>5, <2>6, <2>7
       DEF NodeNext, Thread, Environment, SyncStep
  <2> QED
    BY <2>1, <2>8
<1> QED
  BY <1>1, <1>2

\* A stopped node stays stopped, and adds nothing to what it is still going to
\* write: no pass begins, and those under way only get shorter
\* (periodic_sync, hrafn.cpp:247-258).
THEOREM NoMoreWrites ==
    NodeSpec =>
        [][~running => /\ ~running'
                       /\ \A c \in Connections : WritesLeft(c)' <= WritesLeft(c)]_vars
<1>1. [NodeNext]_vars => [~running => ~running']_vars
  BY DEF NodeNext, Thread, Environment, Dispatch, MuxCheck, MuxSpawn, Shutdown,
         StartStep, NegotiateWrite, NegotiateRead, NegotiateParse, SpawnReader,
         SpawnSync, Leave, ReaderStep, ReaderCheck, ReaderHeader, ReaderBytes,
         SyncStep, SyncCheck, SyncWritten, SyncCrashes, Dangle, Complete, Arrive,
         LoseLink, Post, runtimeVars, outside
<1>2. WithinInv /\ [NodeNext]_vars =>
        [~running => /\ ~running'
                     /\ \A c \in Connections : WritesLeft(c)' <= WritesLeft(c)]_vars
  BY <1>1, StoppedStep
<1>3. NodeSpec => []WithinInv
  BY NodeUsesSyncer, WithinAlways, PTL DEF UsesSyncer
<1> QED
  BY <1>2, <1>3, PTL DEF NodeSpec

-----------------------------------------------------------------------------
(***************************************************************************)
(* The thread and the multiplexer                                          *)
(***************************************************************************)

\* A spinning start_connection is the running coroutine, or the sync coroutine
\* it has just spawned runs on top of it.
SpinOnTop(c) ==
    startPc[c] = "spin" =>
        LET n == Len(stack)
        IN  /\ n > 0
            /\ \/ stack[n] = Start(c)
               \/ n > 1 /\ stack[n] = Sync(c) /\ stack[n - 1] = Start(c)

SpinInv == PlaceInv /\ \A c \in Connections : SpinOnTop(c)

LEMMA SpinAlone ==
    ASSUME SpinInv, NEW c \in Connections, startPc[c] = "spin",
           NEW k, Runs(k)
    PROVE  k \in {Start(c), Sync(c)}
  BY DEF SpinInv, SpinOnTop, Runs

\* No other coroutine runs while c spins, so none can start to spin.
LEMMA SpinnersEqual ==
    ASSUME SpinInv, NEW c \in Connections, NEW d \in Connections,
           startPc[c] = "spin", startPc[d] = "spin"
    PROVE  c = d
<1>1. /\ Len(stack) > 0
      /\ stack[Len(stack)] \in {Start(c), Sync(c)}
      /\ stack[Len(stack)] \in {Start(d), Sync(d)}
  BY DEF SpinInv, SpinOnTop
<1> QED
  BY <1>1, CoroutineIdsDiffer

LEMMA SpinStep == SpinInv /\ [NodeNext]_vars => SpinInv'
<1> SUFFICES ASSUME SpinInv, [NodeNext]_vars, NEW d \in Connections,
                    startPc'[d] = "spin"
             PROVE  SpinOnTop(d)'
  BY PlaceStep DEF SpinInv, SpinOnTop
<1>0. ControlTyped /\ ExecutorTyped /\ PlaceInv /\ SpinOnTop(d)
  BY DEF SpinInv, PlaceInv, NodeInv
<1>1. ASSUME UNCHANGED <<stack, startPc>>
      PROVE  SpinOnTop(d)'
  BY <1>0, <1>1 DEF SpinOnTop
<1>2. CASE Dispatch
  BY <1>0, <1>2 DEF Dispatch, connVars, SpinOnTop
<1>3. CASE MuxCheck \/ MuxSpawn
  <2>1. Runs(Mux)
    BY <1>3 DEF MuxCheck, MuxSpawn
  <2>2. startPc[d] # "spin"
    BY <2>1, SpinAlone, CoroutineIdsDiffer
  <2>3. startPc'[d] # "spin"
    BY <1>0, <1>3, <2>2 DEF MuxCheck, MuxSpawn, connVars, ControlTyped
  <2> QED
    BY <2>3
<1>4. ASSUME NEW c \in Connections, StartStep(c)
      PROVE  SpinOnTop(d)'
  <2>1. Runs(Start(c)) /\ stack # <<>>
    BY <1>4 DEF StartStep, NegotiateWrite, NegotiateRead, NegotiateParse,
                SpawnReader, SpawnSync, Leave, Runs
  <2>2. CASE startPc[d] = "spin"
    <3>1. d = c
      BY <2>1, <2>2, SpinAlone, CoroutineIdsDiffer
    <3>2. Leave(c)
      BY <1>4, <2>2, <3>1
         DEF StartStep, NegotiateWrite, NegotiateRead, NegotiateParse,
             SpawnReader, SpawnSync
    <3> QED
      BY <1>0, <3>1, <3>2 DEF Leave, ControlTyped
  <2>3. CASE startPc[d] # "spin"
    <3>1. d = c /\ SpawnSync(c)
      BY <1>0, <1>4, <2>3
         DEF StartStep, NegotiateWrite, NegotiateRead, NegotiateParse,
             SpawnReader, SpawnSync, Leave, ControlTyped
    <3>2. Spawn(Sync(c)) /\ stack[Len(stack)] = Start(c)
      BY <2>1, <3>1 DEF SpawnSync, Runs
    <3>3. Len(stack) \in Nat /\ Len(stack) > 0
      BY <1>0, <2>1 DEF ExecutorTyped
    <3>4. CASE stack' = stack
      BY <3>1, <3>2, <3>3, <3>4 DEF SpinOnTop
    <3>5. CASE stack' = Append(stack, Sync(c))
      <4>1. /\ Len(stack') = Len(stack) + 1
            /\ stack'[Len(stack) + 1] = Sync(c)
            /\ stack'[Len(stack)] = stack[Len(stack)]
        BY <1>0, <3>3, <3>5 DEF ExecutorTyped
      <4> QED
        BY <3>1, <3>2, <3>3, <4>1 DEF SpinOnTop
    <3> QED
      BY <3>2, <3>4, <3>5 DEF Spawn
  <2> QED
    BY <2>2, <2>3
<1>5. ASSUME NEW c \in Connections, ReaderStep(c)
      PROVE  SpinOnTop(d)'
  <2>1. Runs(Reader(c)) /\ startPc' = startPc
    BY <1>5 DEF ReaderStep, ReaderCheck, ReaderHeader, ReaderBytes
  <2> QED
    BY <2>1, SpinAlone, CoroutineIdsDiffer
<1>6. ASSUME NEW c \in Connections, SyncStep(c)
      PROVE  SpinOnTop(d)'
  <2>1. Runs(Sync(c)) /\ startPc' = startPc
    BY <1>6 DEF SyncStep, SyncCheck, SyncWritten, SyncCrashes, runtimeVars, connVars
  <2>2. d = c
    BY <2>1, SpinAlone, CoroutineIdsDiffer
  <2>3. /\ Len(stack) \in Nat
        /\ Len(stack) > 1
        /\ stack[Len(stack)] = Sync(c)
        /\ stack[Len(stack) - 1] = Start(c)
    BY <1>0, <2>1, <2>2, CoroutineIdsDiffer DEF SpinOnTop, Runs, ExecutorTyped
  <2>4. \/ stack' = stack
        \/ stack' = SubSeq(stack, 1, Len(stack) - 1)
    BY <1>6 DEF SyncStep, SyncCheck, SyncWritten, SyncCrashes, AfterWrite, Await,
                Suspend, Return, Pop, Continue, executor, runtimeVars
  <2>5. CASE stack' = SubSeq(stack, 1, Len(stack) - 1)
    <3>1. Len(stack') = Len(stack) - 1 /\ stack'[Len(stack) - 1] = Start(c)
      BY <1>0, <2>3, <2>5 DEF ExecutorTyped
    <3> QED
      BY <2>2, <2>3, <3>1 DEF SpinOnTop
  <2> QED
    BY <1>1, <2>1, <2>4, <2>5
<1>7. ASSUME NEW c \in Connections, Arrive(c) \/ LoseLink(c) \/ Dangle(c)
      PROVE  SpinOnTop(d)'
  BY <1>1, <1>7 DEF Arrive, LoseLink, Dangle, connVars, executor
<1>8. CASE Shutdown \/ (\E m \in Message : Post(m)) \/ UNCHANGED vars
           \/ \E k \in Coroutines : Complete(k)
  BY <1>1, <1>8 DEF Shutdown, Post, Complete, vars, runtimeVars, connVars, executor
<1> QED
  BY <1>2, <1>3, <1>4, <1>5, <1>6, <1>7, <1>8 DEF NodeNext, Thread, Environment

\* At most one connection holds the thread in the loop of hrafn.cpp:280-282, and
\* while it does no other connection is established.
THEOREM SpinsAlone == NodeSpec => []OneSpinner
<1>1. NodeInit => SpinInv
  BY PlaceInit DEF NodeInit, SpinInv, SpinOnTop
<1>2. SpinInv => OneSpinner
  BY SpinnersEqual DEF OneSpinner
<1> QED
  BY <1>1, <1>2, SpinStep, PTL DEF NodeSpec

\* A spinner without its sync coroutine on top of it is the running coroutine.
LEMMA StarverRuns ==
    ASSUME SpinInv, NEW c \in Connections, Starves(c)
    PROVE  /\ stack # <<>>
           /\ \A k : Runs(k) => k = Start(c)
<1>1. Len(stack) \in Nat
  BY DEF SpinInv, PlaceInv, NodeInv, ExecutorTyped
<1>2. Len(stack) > 0 /\ stack[Len(stack)] \in {Start(c), Sync(c)}
  BY DEF SpinInv, SpinOnTop, Starves
<1>3. stack[Len(stack)] \in Elems(stack)
  <2>1. Len(stack) \in 1..Len(stack)
    BY <1>1, <1>2
  <2> QED
    BY <2>1 DEF Elems
<1>4. stack[Len(stack)] = Start(c)
  BY <1>2, <1>3 DEF Starves
<1> QED
  BY <1>1, <1>2, <1>4 DEF Runs, SpinInv, PlaceInv, NodeInv, ExecutorTyped

\* While a connection spins on a link that is up, the thread does nothing else
\* (hrafn.cpp:280-282): no message that was begun is completed, by whatever
\* completes, arrives or is lost elsewhere.
THEOREM StarvedUntilLost == NodeSpec => StarvedForGood
<1>1. SpinInv /\ [NodeNext]_vars =>
        [\A c \in Connections :
            Starves(c) /\ SpinHolds(c)' =>
                /\ Starves(c)'
                /\ UNCHANGED <<stack, muxPc, connVars, dangled, syncerVars>>]_vars
  <2> DEFINE Still == UNCHANGED <<stack, muxPc, connVars, dangled, syncerVars>>
  <2> SUFFICES ASSUME SpinInv, NodeNext, NEW c \in Connections,
                      Starves(c), SpinHolds(c)'
               PROVE  Starves(c)' /\ Still
    OBVIOUS
  <2>1. stack # <<>> /\ \A k : Runs(k) => k = Start(c)
    BY StarverRuns
  <2>2. Still => Starves(c)'
    BY DEF Starves, connVars, Elems
  <2>3. ~(Dispatch \/ MuxCheck \/ MuxSpawn \/ \E m \in Message : Post(m))
    BY <2>1, CoroutineIdsDiffer DEF Dispatch, MuxCheck, MuxSpawn, Post
  <2>4. ASSUME NEW d \in Connections,
               ReaderStep(d) \/ SyncStep(d) \/ Dangle(d)
        PROVE  FALSE
    <3>1. Runs(Reader(d)) \/ Runs(Sync(d))
      BY <2>4 DEF ReaderStep, ReaderCheck, ReaderHeader, ReaderBytes,
                  SyncStep, SyncCheck, SyncWritten, SyncCrashes, Dangle
    <3> QED
      BY <2>1, <3>1, CoroutineIdsDiffer
  <2>5. ASSUME NEW d \in Connections, StartStep(d)
        PROVE  FALSE
    <3>1. Runs(Start(d))
      BY <2>5 DEF StartStep, NegotiateWrite, NegotiateRead, NegotiateParse,
                  SpawnReader, SpawnSync, Leave
    <3>2. d = c
      BY <2>1, <3>1, CoroutineIdsDiffer
    <3>3. Leave(c)
      BY <2>5, <3>2
         DEF StartStep, NegotiateWrite, NegotiateRead, NegotiateParse,
             SpawnReader, SpawnSync, Starves
    <3>4. ~SpinHolds(c) /\ UNCHANGED outside
      BY <3>3 DEF Leave
    <3> QED
      BY <3>4 DEF SpinHolds, outside
  <2>6. ASSUME NEW k, Complete(k)
        PROVE  Still
    BY <2>6 DEF Complete, muxVars
  <2>7. ASSUME NEW d \in Connections, Arrive(d) \/ LoseLink(d)
        PROVE  Still
    BY <2>7 DEF Arrive, LoseLink, muxVars, executor
  <2>8. ASSUME Shutdown
        PROVE  Still
    BY <2>8 DEF Shutdown, muxVars, executor
  <2>9. Still
    BY <2>3, <2>4, <2>5, <2>6, <2>7, <2>8 DEF NodeNext, Thread, Environment
  <2> QED
    BY <2>2, <2>9
<1>2. NodeInit => SpinInv
  BY PlaceInit DEF NodeInit, SpinInv, SpinOnTop
<1> QED
  BY <1>1, <1>2, SpinStep, PTL DEF NodeSpec, StarvedForGood

\* A connection was accepted late only by the receive that was under way when
\* running was cleared.
LateInv ==
    /\ running \in BOOLEAN
    /\ late # {} => ~running /\ muxPc # "receive"
    /\ OneLateAccept

\* At most one stream gets a connection after running was cleared
\* (hrafn.cpp:297-307).
THEOREM LateOnce == NodeSpec => []OneLateAccept
<1>1. NodeInit => LateInv
  BY DEF NodeInit, LateInv, OneLateAccept
<1>2. LateInv /\ [NodeNext]_vars => LateInv'
  <2> SUFFICES ASSUME LateInv, [NodeNext]_vars
               PROVE  LateInv'
    OBVIOUS
  <2>1. ASSUME UNCHANGED muxVars, running' = running \/ running' = FALSE
        PROVE  LateInv'
    <3>1. late' = late /\ muxPc' = muxPc
      BY <2>1 DEF muxVars
    <3>2. running' \in BOOLEAN /\ (running' => running)
      <4>1. running \in BOOLEAN
        BY DEF LateInv
      <4>2. CASE running' = running
        BY <4>1, <4>2
      <4>3. CASE running' = FALSE
        BY <4>3
      <4> QED
        BY <2>1, <4>2, <4>3
    <3>3. late # {} => ~running'
      BY <3>2 DEF LateInv
    <3> QED
      BY <3>1, <3>2, <3>3 DEF LateInv, OneLateAccept
  <2>2. CASE MuxCheck
    <3>1. /\ late' = late
          /\ running' = running
          /\ \/ running /\ muxPc' = "receive"
             \/ muxPc' = "done"
      BY <2>2 DEF MuxCheck, Accepting, outside
    <3> QED
      BY <3>1 DEF LateInv, OneLateAccept
  <2>3. CASE MuxSpawn
    <3>1. /\ muxPc = "receive"
          /\ muxPc' = "check"
          /\ running' = running
          /\ late' = IF running THEN late ELSE late \cup {incoming}
      BY <2>3 DEF MuxSpawn, outside
    <3>2. late = {}
      BY <3>1 DEF LateInv
    <3> QED
      BY <3>1, <3>2 DEF LateInv, OneLateAccept
  <2>4. ASSUME NEW c \in Connections, Arrive(c)
        PROVE  LateInv'
    BY <2>4 DEF Arrive, LateInv, OneLateAccept, outside
  <2>5. ASSUME NEW c \in Connections,
               StartStep(c) \/ ReaderStep(c) \/ SyncStep(c) \/ Dangle(c) \/ LoseLink(c)
        PROVE  LateInv'
    BY <2>1, <2>5
       DEF StartStep, NegotiateWrite, NegotiateRead, NegotiateParse, SpawnReader,
           SpawnSync, Leave, ReaderStep, ReaderCheck, ReaderHeader, ReaderBytes,
           SyncStep, SyncCheck, SyncWritten, SyncCrashes, Dangle, LoseLink,
           outside, runtimeVars
  <2>6. CASE Dispatch \/ Shutdown \/ (\E k \in Coroutines : Complete(k))
             \/ (\E m \in Message : Post(m)) \/ UNCHANGED vars
    BY <2>1, <2>6 DEF Dispatch, Shutdown, Complete, Post, vars, runtimeVars, outside
  <2> QED
    BY <2>2, <2>3, <2>4, <2>5, <2>6 DEF NodeNext, Thread, Environment
<1>3. LateInv => OneLateAccept
  BY DEF LateInv
<1> QED
  BY <1>1, <1>2, <1>3, PTL DEF NodeSpec
=============================================================================

------------------------------- MODULE Syncer -------------------------------
(***************************************************************************)
(* class Syncer (src/src/hrafn.cpp:168-208): one vector of messages shared *)
(* by every connection, and a coroutine, sync, that walks the vector and   *)
(* writes each wanted message to one connection as a header and then its   *)
(* bytes.  The walk holds two iterators of the vector across every         *)
(* co_await, and nothing stops add_message from growing the vector while   *)
(* a walk is suspended.                                                    *)
(*                                                                         *)
(* One step of a pass is one run of the coroutine between two co_awaits,   *)
(* so every state of this module is one in which each active pass is       *)
(* suspended in a write.  Message contents are a timestamp and a set of    *)
(* recipients, which is all that sync looks at; a message is identified    *)
(* with its position in the vector, and 0 stands for whatever is read      *)
(* through an iterator that push_back has invalidated.                     *)
(***************************************************************************)
EXTENDS Naturals, Sequences

CONSTANTS
    Connections,    \* the Connection objects given to sync
    Keys,           \* public keys
    Timestamps,     \* values of MessageHeader.timestamp
    MaxMessages,    \* BOUND: length to which add_message grows the vector
    LastSync,       \* connection.contact.last_sync, which no code assigns
    PubkeyOf        \* connection.contact.pubkey

ASSUME MaxMessagesAssumption == MaxMessages \in Nat
ASSUME TimestampsAssumption == Timestamps \subseteq Nat
ASSUME LastSyncAssumption == LastSync \in [Connections -> Nat]
ASSUME PubkeyOfAssumption == PubkeyOf \in [Connections -> Keys]

Message == [timestamp : Timestamps, recipients : SUBSET Keys]

SyncMode == {"full", "direct"}

VARIABLES
    messages,   \* messages_
    stage,      \* where the pass over c is suspended: "idle" if there is none
    mode,       \* the pass's SyncMode
    at,         \* index of the iterator of the range-for
    end,        \* its end iterator, evaluated once when the pass begins
    stale,      \* push_back reallocated the vector under the pass
    copy,       \* sync_one's own Message, taken by value
    pass,       \* the completed writes of the pass, in order, with their result
    crashed     \* the process died in undefined behaviour

syncerVars == <<messages, stage, mode, at, end, stale, copy, pass, crashed>>

Stage == {"idle", "header", "bytes"}

Write == [kind : {"header", "bytes"}, of : Nat, ok : BOOLEAN]

TypeOK ==
    /\ messages \in Seq(Message)
    /\ stage \in [Connections -> Stage]
    /\ mode \in [Connections -> SyncMode]
    /\ at \in [Connections -> Nat]
    /\ end \in [Connections -> Nat]
    /\ stale \in [Connections -> BOOLEAN]
    /\ copy \in [Connections -> Nat]
    /\ pass \in [Connections -> Seq(Write)]
    /\ crashed \in BOOLEAN

Init ==
    /\ messages = <<>>
    /\ stage = [c \in Connections |-> "idle"]
    /\ mode = [c \in Connections |-> "full"]
    /\ at = [c \in Connections |-> 0]
    /\ end = [c \in Connections |-> 0]
    /\ stale = [c \in Connections |-> FALSE]
    /\ copy = [c \in Connections |-> 0]
    /\ pass = [c \in Connections |-> <<>>]
    /\ crashed = FALSE

-----------------------------------------------------------------------------
(***************************************************************************)
(* The scan                                                                *)
(***************************************************************************)

\* MUTANT: a message as old as the last sync counts as synced.
WantedIfNewer(c, md, m) ==
    /\ m.timestamp > LastSync[c]
    /\ md = "full" \/ PubkeyOf[c] \in m.recipients

\* The two conditions under which the loop body writes a message: it is not
\* older than the contact's last sync and, in Direct mode, the contact is one
\* of its recipients.
Wanted(c, md, m) ==
    /\ m.timestamp >= LastSync[c]
    /\ md = "full" \/ PubkeyOf[c] \in m.recipients

Wants(c, md, from, to) ==
    {i \in from..to : Wanted(c, md, messages[i])}

\* Where the range-for stops next, from position "from": at the first wanted
\* message, or nowhere.
FirstWanted(c, md, from, to, i) ==
    /\ i \in Wants(c, md, from, to)
    /\ \A j \in Wants(c, md, from, to) : i <= j

\* sync_one is entered with its own copy of a message and suspends in the
\* write of the header.
EnterSyncOne(c, i, of) ==
    /\ stage' = [stage EXCEPT ![c] = "header"]
    /\ at' = [at EXCEPT ![c] = i]
    /\ copy' = [copy EXCEPT ![c] = of]

Stop(c) ==
    /\ stage' = [stage EXCEPT ![c] = "idle"]
    /\ UNCHANGED <<at, copy>>

\* The loop runs on from position "from" with iterators that are good.
Scan(c, md, from, to) ==
    \/ /\ Wants(c, md, from, to) = {}
       /\ Stop(c)
    \/ \E i \in from..to :
          /\ FirstWanted(c, md, from, to, i)
          /\ EnterSyncOne(c, i, i)

\* MUTANT: the loop starts over in the new storage.
ScanAgain(c) ==
    \E i \in 1..end[c] : EnterSyncOne(c, i, i)

\* The loop runs on with iterators into freed storage.  Pointer arithmetic
\* still ends it at the old end; what it reads there is the old message or
\* garbage, and it may take it for wanted or not.
ScanStale(c) ==
    \/ Stop(c)
    \/ \E i \in at[c] + 1..end[c], garbage \in BOOLEAN :
          EnterSyncOne(c, i, IF garbage THEN 0 ELSE i)

-----------------------------------------------------------------------------
(***************************************************************************)
(* The operations                                                          *)
(***************************************************************************)

\* push_back either has room or reallocates, and then every iterator of the
\* vector is invalid, those held by suspended passes among them.
AddMessage(m) ==
    /\ ~crashed
    /\ Len(messages) < MaxMessages
    /\ messages' = Append(messages, m)
    /\ \E reallocates \in BOOLEAN :
          stale' = [c \in Connections |->
                       stale[c] \/ (reallocates /\ stage[c] # "idle")]
    /\ UNCHANGED <<stage, mode, at, end, copy, pass, crashed>>

\* MUTANT: the end is the last index, not the length.
LastIndex == Len(messages) - 1

\* The end iterator.
EndIterator == Len(messages)

\* A call of sync, up to its first write (or to its end if nothing is wanted).
\* The caller holds connection.mutex, so there is one pass per connection.
Begin(c, md) ==
    /\ ~crashed
    /\ stage[c] = "idle"
    /\ mode' = [mode EXCEPT ![c] = md]
    /\ end' = [end EXCEPT ![c] = EndIterator]
    /\ stale' = [stale EXCEPT ![c] = FALSE]
    /\ pass' = [pass EXCEPT ![c] = <<>>]
    /\ Scan(c, md, 1, EndIterator)
    /\ UNCHANGED <<messages, crashed>>

\* MUTANT: sync_one takes the message by reference.
BytesByReference(c) == IF stale[c] THEN 0 ELSE at[c]

\* The second write of sync_one sends the message sync_one holds.
BytesOf(c) == copy[c]

\* The header's write completes.  Its result is dropped and sync_one goes on
\* to write the bytes.
HeaderWritten(c, ok) ==
    /\ ~crashed
    /\ stage[c] = "header"
    /\ stage' = [stage EXCEPT ![c] = "bytes"]
    /\ pass' = [pass EXCEPT ![c] =
                   Append(@, [kind |-> "header", of |-> copy[c], ok |-> ok])]
    /\ UNCHANGED <<messages, mode, at, end, stale, copy, crashed>>

\* The loop goes on whatever became of the writes.
ScanOn(c) ==
    IF stale[c] THEN ScanStale(c)
                ELSE Scan(c, mode[c], at[c] + 1, end[c])

\* MUTANT: a message whose bytes were not written is sent again, from its header.
BytesRetried(c, ok) ==
    /\ ~crashed
    /\ stage[c] = "bytes"
    /\ IF ok
       THEN /\ pass' = [pass EXCEPT ![c] =
                           Append(@, [kind |-> "bytes", of |-> BytesOf(c), ok |-> ok])]
            /\ ScanOn(c)
       ELSE /\ pass' = [pass EXCEPT ![c] = SubSeq(@, 1, Len(@) - 1)]
            /\ EnterSyncOne(c, at[c], copy[c])
    /\ UNCHANGED <<messages, mode, end, stale, crashed>>

\* The bytes' write completes.  Its result is dropped, sync_one returns, and
\* the loop runs on to its next write or to its end.
BytesWritten(c, ok) ==
    /\ ~crashed
    /\ stage[c] = "bytes"
    /\ pass' = [pass EXCEPT ![c] =
                   Append(@, [kind |-> "bytes", of |-> BytesOf(c), ok |-> ok])]
    /\ ScanOn(c)
    /\ UNCHANGED <<messages, mode, end, stale, crashed>>

\* Reading a message through an invalidated iterator kills the process.
ScanCrashes(c) ==
    /\ ~crashed
    /\ stage[c] = "bytes"
    /\ stale[c]
    /\ at[c] < end[c]
    /\ crashed' = TRUE
    /\ UNCHANGED <<messages, stage, mode, at, end, stale, copy, pass>>

WriteCompletes(c) ==
    \E ok \in BOOLEAN : HeaderWritten(c, ok) \/ BytesWritten(c, ok)

Next ==
    \/ \E m \in Message : AddMessage(m)
    \/ \E c \in Connections :
          \/ \E md \in SyncMode : Begin(c, md)
          \/ WriteCompletes(c)
          \/ ScanCrashes(c)

Spec == Init /\ [][Next]_syncerVars

\* Every write that was issued completes, with success or with an error.
FairSpec == Spec /\ \A c \in Connections : WF_syncerVars(WriteCompletes(c))

-----------------------------------------------------------------------------
(***************************************************************************)
(* Properties                                                              *)
(***************************************************************************)

\* Headers and bytes alternate in a sequence of writes, and the bytes are those
\* of the message whose header went before them.
WellFramed(s) ==
    \A i \in 1..Len(s) :
        /\ s[i].kind = "header" /\ i > 1 => s[i - 1].kind = "bytes"
        /\ s[i].kind = "bytes" => /\ i > 1
                                  /\ s[i - 1].kind = "header"
                                  /\ s[i - 1].of = s[i].of

\* A pass writes header, bytes, header, bytes, ..., each pair of one message,
\* also when add_message reallocated the vector between the two writes
\* (sync_one holds the message by value).
FramedPass == \A c \in Connections : WellFramed(pass[c])

\* The messages whose headers are in a sequence of writes.
Headers(s) == {s[i].of : i \in {j \in 1..Len(s) : s[j].kind = "header"}}

\* The last position the pass over c has dealt with, whether or not it was
\* wanted: all of them once the loop has ended.
Passed(c) ==
    CASE stage[c] = "idle" -> end[c]
      [] stage[c] = "header" -> at[c] - 1
      [] stage[c] = "bytes" -> at[c]

\* What c is owed of the first n messages: those no older than its last sync
\* and, in Direct mode, addressed to it.
Owed(c, n) ==
    {i \in 1..n : /\ messages[i].timestamp >= LastSync[c]
                  /\ mode[c] = "direct" => PubkeyOf[c] \in messages[i].recipients}

\* While no reallocation disturbed it, a pass has offered exactly the wanted
\* messages among those it went past: none is skipped, in Direct mode none goes
\* to a contact that is not its recipient, and none is a message added after
\* the pass began.
ExactPass ==
    \A c \in Connections :
        ~stale[c] => Headers(pass[c]) = Owed(c, Passed(c))

\* A pass offers messages in the order in which they were added, each once:
\* also over freed storage the iterator only moves forward.
InOrder ==
    \A c \in Connections :
        \A i, j \in 1..Len(pass[c]) :
            /\ i < j
            /\ pass[c][i].kind = "header"
            /\ pass[c][j].kind = "header"
            /\ pass[c][i].of # 0
            /\ pass[c][j].of # 0
            => pass[c][i].of < pass[c][j].of

\* Once a pass has begun it ends, however many of its writes fail and however
\* many messages are added meanwhile: a failed write is not retried and the end
\* of the loop is the one of its beginning.
PassEnds ==
    \A c \in Connections : stage[c] # "idle" ~> (stage[c] = "idle" \/ crashed)

\* hrafn.cpp:106-112 describes the stream of messages as headers "then bytes".
\* For what reaches the stream, that is for the writes that succeeded, bytes
\* would always come right after their header.  The code drops the result of
\* the header's write and sends the bytes regardless.
WireFraming ==
    \A c \in Connections :
        \A i \in 1..Len(pass[c]) :
            pass[c][i].kind = "bytes" /\ pass[c][i].ok =>
                /\ i > 1
                /\ pass[c][i - 1].ok
=============================================================================

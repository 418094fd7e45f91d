------------------------- MODULE ConnectionProtocol -------------------------
(***************************************************************************)
(* What the runtime of src/src/hrafn.cpp promises of its connections,      *)
(* without the executor, the coroutines' stack and the store: in which     *)
(* order a connection goes through its life, who uses it meanwhile, and    *)
(* that one connection at a time has the thread.  Node implements it.      *)
(***************************************************************************)
CONSTANT Connections

VARIABLES
    phase,  \* how far the connection of c has come
    users,  \* the coroutines that hold a reference to it
    on,     \* the node runs
    up,     \* the link of c
    alive   \* the process

protocolVars == <<phase, users, on, up, alive>>

User == {"reader", "sync"}

ProtocolTypeOK ==
    /\ phase \in [Connections -> {"none", "handshake", "open", "holding", "closed"}]
    /\ users \in [Connections -> SUBSET User]
    /\ on \in BOOLEAN
    /\ up \in [Connections -> BOOLEAN]
    /\ alive \in BOOLEAN

ProtocolInit ==
    /\ phase = [c \in Connections |-> "none"]
    /\ users = [c \in Connections |-> {}]
    /\ on = TRUE
    /\ up = [c \in Connections |-> TRUE]
    /\ alive = TRUE

-----------------------------------------------------------------------------

Moves(c, from, to) ==
    /\ alive
    /\ phase[c] = from
    /\ phase' = [phase EXCEPT ![c] = to]
    /\ UNCHANGED <<on, up, alive>>

Accept(c) == Moves(c, "none", "handshake") /\ UNCHANGED users

Refuse(c) == Moves(c, "handshake", "closed") /\ UNCHANGED users

\* The connections that have the thread to themselves.
Owners == {c \in Connections : phase[c] \in {"open", "holding"}}

Open(c) ==
    /\ Owners = {}
    /\ Moves(c, "handshake", "open")
    /\ UNCHANGED users

StartReader(c) ==
    /\ users[c] = {}
    /\ Moves(c, "open", "open")
    /\ users' = [users EXCEPT ![c] = {"reader"}]

\* The sync coroutine starts, and the connection waits for its end.
Hold(c) ==
    /\ Moves(c, "open", "holding")
    /\ users' = [users EXCEPT ![c] = @ \cup {"sync"}]

Over(c) == ~on \/ ~up[c]

Close(c) ==
    /\ Over(c)
    /\ Moves(c, "holding", "closed")
    /\ UNCHANGED users

\* The reader does not look at "on".  Neither can tell what a closed connection
\* tells it.
Finish(c, u) ==
    /\ alive
    /\ u \in users[c]
    /\ ~up[c] \/ phase[c] = "closed" \/ (u = "sync" /\ ~on)
    /\ users' = [users EXCEPT ![c] = @ \ {u}]
    /\ UNCHANGED <<phase, on, up, alive>>

LoseTheLink(c) ==
    /\ alive
    /\ up[c]
    /\ up' = [up EXCEPT ![c] = FALSE]
    /\ UNCHANGED <<phase, users, on, alive>>

TurnOff ==
    /\ alive /\ on
    /\ on' = FALSE
    /\ UNCHANGED <<phase, users, up, alive>>

\* Only a coroutine that uses a closed connection, or one that walks the store
\* for a connection, brings the process down.
Die(c) ==
    /\ alive
    /\ "sync" \in users[c] \/ (users[c] # {} /\ phase[c] = "closed")
    /\ alive' = FALSE
    /\ UNCHANGED <<phase, users, on, up>>

ProtocolNext ==
    \/ TurnOff
    \/ \E c \in Connections :
          \/ Accept(c)
          \/ Refuse(c)
          \/ Open(c)
          \/ StartReader(c)
          \/ Hold(c)
          \/ Close(c)
          \/ LoseTheLink(c)
          \/ Die(c)
          \/ \E u \in User : Finish(c, u)

ProtocolSpec == ProtocolInit /\ [][ProtocolNext]_protocolVars

-----------------------------------------------------------------------------

\* A connection that holds the thread lets go of it when its link is lost or
\* the node is turned off.
Closes ==
    \A c \in Connections :
        phase[c] = "holding" /\ Over(c) ~> phase[c] = "closed" \/ ~alive

\* A node that is turned off gets rid of its sync coroutines.
Quiesces ==
    ~on ~> [](~alive \/ \A c \in Connections : "sync" \notin users[c])
=============================================================================

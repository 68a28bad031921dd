--------------------------- MODULE SignalingRelay ---------------------------
(***************************************************************************)
(* The relay server of the example signaling_server.rs and the websocket   *)
(* clients that meet there (WsSignalingClient, signaling.rs).  The server  *)
(* accepts two clients, one after the other, and starts a task for each    *)
(* that reads from it and writes to the other.  When one of the two tasks  *)
(* ends the server turns to the next pair and leaves the other task alone. *)
(* A websocket is split: the server closes it only when both tasks that    *)
(* hold a half of it have ended.  A client connects once; one that comes   *)
(* again is another client.                                                *)
(***************************************************************************)
EXTENDS Naturals, Sequences, Functions

CONSTANTS
  Clients,
  NoClient,
  MaxMessages  \* bound: messages a client sends

ASSUME ClientsAssumption == NoClient \notin Clients /\ MaxMessages \in Nat

VARIABLES
  server,   \* "first", "second" (the client it awaits), "relaying" or "down"
  pair,     \* the clients of the session the server waits for
  backlog,  \* connections to be accepted
  client,   \* where a client is
  partner,  \* who a client was paired with
  tasks,    \* the clients whose relay task runs
  over,     \* the clients whose websocket the server knows to be closed
  sentBy,   \* number of messages a client has sent
  up, down, \* messages on their way to and from the server
  got       \* the messages a client has received

relayVars == <<server, pair, backlog, client, partner, tasks, over, sentBy, up, down, got>>

RelayInit ==
  /\ server = "first" /\ pair = {} /\ backlog = <<>>
  /\ client = [c \in Clients |-> "away"]
  /\ partner = [c \in Clients |-> NoClient]
  /\ tasks = {} /\ over = {}
  /\ sentBy = [c \in Clients |-> 0]
  /\ up = [c \in Clients |-> <<>>]
  /\ down = [c \in Clients |-> <<>>]
  /\ got = [c \in Clients |-> <<>>]

Turns(c, state) == client' = [client EXCEPT ![c] = state]
messages == <<sentBy, up, down, got>>

\* Both halves of the client's websocket have been dropped.
ServerClosed(c) ==
  server = "down" \/ (partner[c] # NoClient /\ {c, partner[c]} \cap tasks = {})

-----------------------------------------------------------------------------
\* WsSignalingClient::connect up to the handshake.
Connect(c) ==
  /\ client[c] = "away" /\ server # "down"
  /\ Turns(c, "connecting")
  /\ backlog' = Append(backlog, c)
  /\ UNCHANGED <<server, pair, partner, tasks, over, messages>>

\* A client goes, while it waits to be accepted or later, or its connection
\* breaks.
Leave(c) ==
  /\ client[c] \in {"connecting", "open"}
  /\ Turns(c, "left")
  /\ UNCHANGED <<server, pair, backlog, partner, tasks, over, messages>>

Handshake(c) ==
  /\ backlog # <<>> /\ Head(backlog) = c /\ client[c] = "connecting"
  /\ backlog' = Tail(backlog)
  /\ Turns(c, "open")
  /\ UNCHANGED <<over, messages>>

\* accept_async of the first peer, and of the second: the relay tasks start.
AcceptFirst(c) ==
  /\ server = "first" /\ Handshake(c)
  /\ server' = "second" /\ pair' = {c}
  /\ UNCHANGED <<partner, tasks>>

AcceptSecond(c) ==
  /\ server = "second" /\ Handshake(c)
  /\ server' = "relaying" /\ pair' = pair \cup {c}
  /\ partner' = [d \in Clients |->
                   IF d = c THEN CHOOSE f \in pair : TRUE
                   ELSE IF d \in pair THEN c ELSE partner[d]]
  /\ tasks' = tasks \cup pair'

\* The client has gone before the handshake was done: expect panics in main,
\* and every task ends with it.
HandshakeFails ==
  /\ server \in {"first", "second"}
  /\ backlog # <<>> /\ client[Head(backlog)] = "left"
  /\ server' = "down" /\ tasks' = {}
  /\ UNCHANGED <<pair, backlog, client, partner, over, messages>>

-----------------------------------------------------------------------------
\* WsSignalingClient::send
Send(c) ==
  /\ client[c] = "open" /\ ~ServerClosed(c) /\ sentBy[c] < MaxMessages
  /\ sentBy' = [sentBy EXCEPT ![c] = @ + 1]
  /\ up' = [up EXCEPT ![c] = Append(@, sentBy[c] + 1)]
  /\ UNCHANGED <<server, pair, backlog, client, partner, tasks, over, down, got>>

\* The relay task of c has a message, and writes it to the partner.
Reads(c) == c \in tasks /\ up[c] # <<>> /\ up' = [up EXCEPT ![c] = Tail(@)]

\* Deviation: the next message is written before the last.
RelayAhead(c) ==
  /\ Reads(c) /\ partner[c] \notin over /\ client[partner[c]] = "open"
  /\ down' = [down EXCEPT ![partner[c]] = <<Head(up[c])>> \o @]
  /\ UNCHANGED <<server, pair, backlog, client, partner, tasks, over, sentBy, got>>
Relay(c) ==
  /\ Reads(c) /\ partner[c] \notin over /\ client[partner[c]] = "open"
  /\ down' = [down EXCEPT ![partner[c]] = Append(@, Head(up[c]))]
  /\ UNCHANGED <<server, pair, backlog, client, partner, tasks, over, sentBy, got>>

\* Written to a connection whose end has not been noticed yet.
RelayLost(c) ==
  /\ Reads(c) /\ partner[c] \notin over /\ client[partner[c]] = "left"
  /\ UNCHANGED <<server, pair, backlog, client, partner, tasks, over, sentBy, down, got>>

\* Deviation: a write that fails is passed over.
RelayFailsOn(c) ==
  /\ Reads(c) /\ client[partner[c]] = "left"
  /\ over' = over \cup {partner[c]}
  /\ UNCHANGED <<server, pair, backlog, client, partner, tasks, sentBy, down, got>>
\* The write fails, always so once the end of the connection is known: the task
\* breaks off.
RelayFails(c) ==
  /\ Reads(c) /\ client[partner[c]] = "left"
  /\ over' = over \cup {partner[c]}
  /\ tasks' = tasks \ {c}
  /\ UNCHANGED <<server, pair, backlog, client, partner, sentBy, down, got>>

\* The client has gone: its stream ends, or breaks with messages unread.
ReadEnds(c) ==
  /\ c \in tasks /\ client[c] = "left"
  /\ over' = over \cup {c}
  /\ tasks' = tasks \ {c}
  /\ UNCHANGED <<server, pair, backlog, client, partner, messages>>

\* Deviation: the server waits for both tasks.
SessionEndsByBoth ==
  /\ server = "relaying" /\ pair \cap tasks = {}
  /\ server' = "first" /\ pair' = {}
  /\ UNCHANGED <<backlog, client, partner, tasks, over, messages>>
\* select! returns with the first task that has ended; the other is detached.
SessionEnds ==
  /\ server = "relaying" /\ ~(pair \subseteq tasks)
  /\ server' = "first" /\ pair' = {}
  /\ UNCHANGED <<backlog, client, partner, tasks, over, messages>>

\* WsSignalingClient::recv
Receive(c) ==
  /\ client[c] = "open" /\ down[c] # <<>>
  /\ got' = [got EXCEPT ![c] = Append(@, Head(down[c]))]
  /\ down' = [down EXCEPT ![c] = Tail(@)]
  /\ UNCHANGED <<server, pair, backlog, client, partner, tasks, over, sentBy, up>>

\* recv fails: the event loop of the client ends, its connection is dropped.
Hear(c) ==
  /\ client[c] = "open" /\ ServerClosed(c)
  /\ Turns(c, "left")
  /\ UNCHANGED <<server, pair, backlog, partner, tasks, over, messages>>

RelayQuiet == (\A c \in Clients : client[c] # "away" \/ server = "down") /\ UNCHANGED relayVars

RelayNext ==
  \/ \E c \in Clients :
       \/ Connect(c) \/ Leave(c) \/ AcceptFirst(c) \/ AcceptSecond(c)
       \/ Send(c) \/ Relay(c) \/ RelayLost(c) \/ RelayFails(c) \/ ReadEnds(c)
       \/ Receive(c) \/ Hear(c)
  \/ HandshakeFails \/ SessionEnds
  \/ RelayQuiet

\* The tasks of the server run when they can, a client receives what is there.
\* Nothing is assumed of who connects, sends or leaves.
RelayFairness ==
  /\ WF_relayVars(SessionEnds)
  /\ \A c \in Clients :
       /\ WF_relayVars(ReadEnds(c))
       /\ WF_relayVars(Relay(c) \/ RelayLost(c) \/ RelayFails(c))
       /\ WF_relayVars(Hear(c))

-----------------------------------------------------------------------------
\* The way of c's messages is whole: nobody on it has gone.
Whole(c) ==
  /\ server # "down" /\ client[c] # "left"
  /\ partner[c] # NoClient => client[partner[c]] # "left" /\ c \in tasks

Pipe(c) ==
  INSTANCE FramePipe WITH
    produced <- sentBy[c],
    transit <- Range(up[c]) \cup (IF partner[c] = NoClient THEN {} ELSE Range(down[partner[c]])),
    delivered <- IF partner[c] = NoClient THEN <<>> ELSE got[partner[c]],
    discarded <- {},
    intact <- Whole(c)

\* "Relays every text/binary message from one peer to the other"
\* (signaling_server.rs:3-4): what a client sends reaches the one it was paired
\* with, whole and in order, also what was sent before the other came, and
\* messages are missing only when one of the two, or the server, has gone.
RelaysEveryMessage ==
  /\ \A c \in Clients : Pipe(c)!Init
  /\ [][\A c \in Clients : Pipe(c)!Next \/ UNCHANGED Pipe(c)!pipe]_relayVars

\* A session one of whose clients has left ends, and the server serves the next
\* pair (signaling_server.rs:56-61), though the other client stays.
ServesAgain ==
  (server = "relaying" /\ \E c \in pair : client[c] = "left") ~> server # "relaying"

\* A client that sends to a partner whose task has ended loses its connection,
\* and so its event loop ends (signaling_server.rs:39-41): it does not go on
\* sending to nobody.  One that only listens is never told.
SenderHears ==
  \A c \in Clients :
    (client[c] = "open" /\ partner[c] \in over /\ up[c] # <<>>) ~> client[c] # "open"
=============================================================================

------------------------------ MODULE MqttLink ------------------------------
(***************************************************************************)
(* MqttTransport and MqttEventLoop (aiko-mqtt, client.rs) around           *)
(* rumqttc::EventLoop.  Application tasks put requests into a bounded      *)
(* channel; the loop polls rumqttc, which connects, sends the requests and *)
(* hands over what arrives, sets the connected flag and broadcasts what    *)
(* was published.  The shutdown signal is the other arm of the select!:    *)
(* when it wins, the poll under way is dropped.                            *)
(***************************************************************************)
EXTENDS Topics, FiniteSets

CONSTANTS
  Callers,       \* application tasks that call the transport
  Namespace,     \* config.namespace
  Requests,      \* what they ask for
  Publications,  \* what other clients of the broker publish
  Cap,           \* capacity of the request channel
  InboxCap,      \* capacity of the broadcast channel
  MaxCalls,      \* bound: calls
  MaxMessages,   \* bound: publications routed to this client
  MaxLinks,      \* bound: connections
  MaxSignals     \* bound: values sent to the shutdown channel

ASSUME CapAssumption == Cap \in Nat \ {0} /\ InboxCap \in Nat \ {0}
ASSUME BoundsAssumption ==
  MaxCalls \in Nat /\ MaxMessages \in Nat /\ MaxLinks \in Nat /\ MaxSignals \in Nat
ASSUME RequestsAssumption == \A r \in Requests :
  r.op \in {"subscribe", "unsubscribe", "publish", "disconnect"}
\* Discovery has no identifier.
ASSUME MessagesAssumption ==
  \A m \in Publications \cup {r.message : r \in {q \in Requests : q.op = "publish"}} :
    /\ m \in [ns : Seq(STRING), kind : TopicKind \ {"Unknown"}, id : Seq(STRING)]
    /\ m.kind = "Discovery" => m.id = <<>>

VARIABLES
  loop,       \* where the event loop is
  event,      \* what poll returned, while it is handled
  link,       \* rumqttc: the network connection
  connected,  \* the flag that is_connected reads
  call,       \* the request a caller waits to hand over, NoRequest if none
  requests,   \* the request channel
  pending,    \* rumqttc: requests kept from an earlier connection
  session,    \* the broker: filters this client is subscribed to
  wire,       \* what the broker has sent on the connection
  inbox,      \* what a receiver of the broadcast has not read yet
  shutdown,   \* the state of the shutdown channel
  disconnects,\* whether a disconnect request has gone out
  count       \* numbers of calls, messages, links and signals, for the bounds

vars == <<loop, event, link, connected, call, requests, pending, session, wire,
          inbox, shutdown, disconnects, count>>

NoRequest == [op |-> "none"]
Topic(m) == Build(m.ns, m.kind, m.id)

\* loop is "polling" when select! begins, "waiting" when nothing was ready and
\* the task is parked with the poll alive, "handling", "pausing" in the sleep
\* after an error, or "ended".  event is a ConnAck, a Publish, a Disconnect,
\* another one, an error, or none.

Init ==
  /\ loop = "polling" /\ event = [kind |-> "none"]
  /\ link = "down" /\ connected = FALSE
  /\ call = [c \in Callers |-> NoRequest]
  /\ requests = <<>> /\ pending = <<>>
  /\ session = {} /\ wire = <<>> /\ inbox = <<>>
  /\ shutdown = "quiet" /\ disconnects = FALSE
  /\ count = [calls |-> 0, messages |-> 0, links |-> 0, signals |-> 0]

Counts(what, max) == count[what] < max /\ count' = [count EXCEPT ![what] = @ + 1]

-----------------------------------------------------------------------------
\* Deviation: the loop stops, and keeps the receiving end of the channel.
AcceptsWhileRoom == Len(requests) < Cap
\* A call can go on: there is room, or the loop and with it the receiving end
\* are gone and the call is an error.
Accepts == loop = "ended" \/ Len(requests) < Cap

HandOver(r) ==
  /\ Accepts
  /\ requests' = IF loop = "ended" THEN requests ELSE Append(requests, r)

\* subscribe, unsubscribe, publish_raw, disconnect: the call returns when the
\* request is in the channel, and otherwise waits.
Call(c, r) ==
  /\ call[c] = NoRequest /\ Counts("calls", MaxCalls)
  /\ \/ HandOver(r) /\ UNCHANGED call
     \/ ~Accepts /\ call' = [call EXCEPT ![c] = r] /\ UNCHANGED requests
  /\ UNCHANGED <<loop, event, link, connected, pending, session, wire, inbox,
                 shutdown, disconnects>>

CallReturns(c) ==
  /\ call[c] # NoRequest /\ HandOver(call[c])
  /\ call' = [call EXCEPT ![c] = NoRequest]
  /\ UNCHANGED <<loop, event, link, connected, pending, session, wire, inbox,
                 shutdown, disconnects, count>>

-----------------------------------------------------------------------------
\* rumqttc::EventLoop::poll.
Polling == loop \in {"polling", "waiting"}
Returns(e) == Polling /\ loop' = "handling" /\ event' = e

\* Connecting takes several wake-ups, so only a parked poll gets there.  A
\* clean session begins without subscriptions; what was kept from an earlier
\* connection is dropped when the broker knows of no session.
Connects ==
  /\ loop = "waiting" /\ link = "down" /\ Counts("links", MaxLinks)
  /\ Returns([kind |-> "connack"])
  /\ link' = "up"
  /\ session' \in {session, {}}
  /\ pending' \in {pending, <<>>}
  /\ UNCHANGED <<connected, call, requests, wire, inbox, shutdown, disconnects>>

ConnectFails ==
  /\ loop = "waiting" /\ link = "down"
  /\ Returns([kind |-> "error"])
  /\ UNCHANGED <<link, connected, call, requests, pending, session, wire, inbox,
                 shutdown, disconnects, count>>

\* The broker applies a request; it closes the connection on a disconnect.
Serve(r) ==
  /\ session' = CASE r.op = "subscribe" -> session \cup {r.filter}
                  [] r.op = "unsubscribe" -> session \ {r.filter}
                  [] OTHER -> session
  /\ wire' = IF r.op = "publish" /\ \E f \in session : Matches(f, Topic(r.message))
             THEN Append(wire, r.message) ELSE wire
  /\ link' = IF r.op = "disconnect" THEN "closing" ELSE link
  /\ disconnects' = (disconnects \/ r.op = "disconnect")

\* The requests that were kept go first.
SendsRequest ==
  /\ link = "up" /\ Returns([kind |-> "other"])
  /\ \/ /\ pending # <<>> /\ Serve(Head(pending))
        /\ pending' = Tail(pending) /\ UNCHANGED requests
     \/ /\ pending = <<>> /\ requests # <<>> /\ Serve(Head(requests))
        /\ requests' = Tail(requests) /\ UNCHANGED pending
  /\ UNCHANGED <<connected, call, inbox, shutdown, count>>

Receives ==
  /\ link # "down" /\ wire # <<>>
  /\ Returns([kind |-> "publish", message |-> Head(wire)])
  /\ wire' = Tail(wire)
  /\ UNCHANGED <<link, connected, call, requests, pending, session, inbox,
                 shutdown, disconnects, count>>

\* A Disconnect packet of the broker.
IsDismissed ==
  /\ link = "up" /\ Returns([kind |-> "disconnect"])
  /\ link' = "closing"
  /\ UNCHANGED <<connected, call, requests, pending, session, wire, inbox,
                 shutdown, disconnects, count>>

\* The connection ends: what is still in the channel is kept aside.
Breaks ==
  /\ link # "down" /\ Returns([kind |-> "error"])
  /\ link' = "down" /\ wire' = <<>>
  /\ pending' = pending \o requests /\ requests' = <<>>
  /\ UNCHANGED <<connected, call, session, inbox, shutdown, disconnects, count>>

Closes == link = "closing" /\ Breaks

\* Another client of the broker publishes something this one is subscribed to.
Publish(m) ==
  /\ link = "up" /\ \E f \in session : Matches(f, Topic(m))
  /\ Counts("messages", MaxMessages)
  /\ wire' = Append(wire, m)
  /\ UNCHANGED <<loop, event, link, connected, call, requests, pending, session,
                 inbox, shutdown, disconnects>>

-----------------------------------------------------------------------------
\* The arms of the match on what poll returned.
Handles(kinds, next) ==
  /\ loop = "handling" /\ event.kind \in kinds
  /\ loop' = next /\ event' = [kind |-> "none"]
  /\ UNCHANGED <<link, call, requests, pending, session, wire, shutdown,
                 disconnects, count>>

\* A receiver that is a whole channel behind loses the oldest message.
HandlePublish ==
  /\ Handles({"publish"}, "polling")
  /\ inbox' = Append(IF Len(inbox) = InboxCap THEN Tail(inbox) ELSE inbox, event.message)
  /\ UNCHANGED connected

HandleConnAck == Handles({"connack"}, "polling") /\ connected' = TRUE /\ UNCHANGED inbox
HandleDisconnect == Handles({"disconnect"}, "polling") /\ connected' = FALSE /\ UNCHANGED inbox
HandleOther == Handles({"other"}, "polling") /\ UNCHANGED <<connected, inbox>>
\* Deviation: the flag stays when the connection is lost.
HandleErrorKeepsFlag == Handles({"error"}, "pausing") /\ UNCHANGED <<connected, inbox>>
HandleError == Handles({"error"}, "pausing") /\ connected' = FALSE /\ UNCHANGED inbox

HandleEvent == HandlePublish \/ HandleConnAck \/ HandleDisconnect \/ HandleOther \/ HandleError

Goto(next) ==
  /\ loop' = next
  /\ UNCHANGED <<event, link, connected, call, requests, pending, session, wire,
                 inbox, disconnects, count>>

\* Deviation: the pause lasts until the flag is set.
PauseEndsConnected ==
  loop = "pausing" /\ connected /\ Goto("polling") /\ UNCHANGED shutdown
PauseEnds == loop = "pausing" /\ Goto("polling") /\ UNCHANGED shutdown

\* Nothing is ready and the task is parked.  A channel whose sender is gone
\* is always ready.
Park == loop = "polling" /\ shutdown = "quiet" /\ Goto("waiting") /\ UNCHANGED shutdown

\* Deviation: the loop goes on polling after the signal.
ShutdownIgnored ==
  /\ Polling /\ shutdown # "quiet" /\ Goto("polling")
  /\ shutdown' = IF shutdown = "dropped" THEN "dropped" ELSE "quiet"
\* shutdown.changed() has won: the poll is dropped, and only the value true
\* ends the loop.
ShutdownChanged ==
  /\ Polling /\ shutdown # "quiet"
  /\ Goto(IF shutdown = "true" THEN "ended" ELSE "polling")
  /\ shutdown' = IF shutdown = "dropped" THEN "dropped" ELSE "quiet"

\* The owner of the sender sends a value or, at last, drops the sender.  A
\* value that has not been seen is replaced, a true by a false as well.  It is
\* also seen after the drop: a true that is the last value stays.
Signal(s) ==
  /\ shutdown # "dropped" /\ ~(shutdown = "true" /\ s = "dropped")
  /\ Counts("signals", MaxSignals)
  /\ shutdown' = s
  /\ UNCHANGED <<loop, event, link, connected, call, requests, pending, session,
                 wire, inbox, disconnects>>

\* A receiver of the broadcast takes its next message.
Read ==
  /\ inbox # <<>> /\ inbox' = Tail(inbox)
  /\ UNCHANGED <<loop, event, link, connected, call, requests, pending, session,
                 wire, shutdown, disconnects, count>>

\* The loop has ended or is asleep, and the application does nothing.
Quiet == loop \in {"ended", "waiting", "pausing"} /\ UNCHANGED vars

Next ==
  \/ \E c \in Callers : CallReturns(c) \/ \E r \in Requests : Call(c, r)
  \/ Connects \/ ConnectFails \/ SendsRequest \/ Receives \/ IsDismissed \/ Breaks
  \/ \E m \in Publications : Publish(m)
  \/ HandleEvent \/ PauseEnds \/ Park \/ ShutdownChanged
  \/ \E s \in {"true", "false", "dropped"} : Signal(s)
  \/ Read \/ Quiet

Spec == Init /\ [][Next]_vars

\* The runtime runs a task that is ready, a sleep ends, select! picks each of
\* its ready arms again and again, a waiting sender is woken when it can go on,
\* the broker closes a connection it was told to, and it can be reached again
\* and again.
FairSpec ==
  /\ Spec
  /\ WF_vars(HandleEvent) /\ WF_vars(PauseEnds) /\ WF_vars(Park)
  /\ SF_vars(ShutdownChanged) /\ SF_vars(Connects) /\ SF_vars(SendsRequest) /\ SF_vars(Closes)
  /\ \A c \in Callers : SF_vars(CallReturns(c))

-----------------------------------------------------------------------------
\* "Check if connected" (client.rs:201): whenever the loop polls, the flag is
\* set if the connection is up, and clear if there is none.
FlagFollows == Polling => (link = "up" => connected) /\ (connected => link # "down")

\* What the topic of a message that reached the application is parsed into is
\* what its publisher built it from, if that is in this namespace and its
\* identifier is one level, and has the kind of the wildcard subscription that
\* brought it (topics.rs:111-152).
ParsedAsBuilt == \A i \in DOMAIN inbox :
  LET m == inbox[i]
      parsed == Parse(Namespace, Topic(m))
  IN /\ m.ns = Namespace /\ Len(m.id) = 1
          => parsed = [kind |-> m.kind, id |-> m.id[1]]
     /\ \A k \in WildcardKinds : Matches(AllOf(Namespace, k), Topic(m)) => parsed.kind = k

\* A request to shut down ends the loop, also one that comes in the middle of
\* connecting, handling or pausing, unless a false takes its place before the
\* loop has seen it (client.rs:283-287).
ShutdownEnds == shutdown = "true" ~> (loop = "ended" \/ shutdown = "false")

\* While the broker can be reached and the sender of the shutdown signal is
\* kept, a loop that has lost its connection gets another one
\* (client.rs:246, "reconnect attempt").
Reconnects == (link = "down" /\ count.links < MaxLinks)
  ~> (link = "up" \/ loop = "ended" \/ shutdown # "quiet")

\* Under the same conditions every call returns (client.rs:144-210).
CallsReturn == \A c \in Callers :
  call[c] # NoRequest ~> (call[c] = NoRequest \/ shutdown = "dropped" \/ count.links = MaxLinks)

\* "Disconnect from the broker" (client.rs:206): once a disconnect has gone
\* out the loop does not connect again.
StaysDisconnected == [][disconnects /\ link = "down" => link' = "down"]_vars
=============================================================================

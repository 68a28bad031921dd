-------------------------- MODULE WebRtcEventLoop --------------------------
(***************************************************************************)
(* WebRtcEventLoop::run_with_shutdown (aiko-webrtc, transport.rs) with the *)
(* ReconnectState it keeps (reconnect.rs), beside the callback that writes *)
(* the peer's state and broadcasts it.  The loop learns of a state change  *)
(* through a bounded broadcast channel, so what it handles may be older    *)
(* than the state the peer is in.  While it sleeps out a backoff delay it  *)
(* serves nothing.  What the descriptions and candidates do to the peer is *)
(* left to the peer: here a signaling step succeeds or fails.              *)
(***************************************************************************)
EXTENDS Naturals, Sequences

CONSTANTS
  Offerer,       \* role = PeerRole::Offerer
  Backoff,       \* strategy ExponentialBackoff, else None
  MaxAttempts,   \* max_attempts, 0 = unlimited
  LongestDelay,  \* bound of a Duration
  InitialDelay,  \* initial_delay
  MaxDelay,      \* max_delay, as from_secs_f64 gives it back
  Scaled,        \* what as_secs_f64, multiplier and from_secs_f64 make of each delay
  EventCap,      \* capacity of the broadcast channel (256 in the code)
  MaxChanges     \* bound: events that come from the peer

ASSUME RoleAssumption == Offerer \in BOOLEAN /\ Backoff \in BOOLEAN
ASSUME AttemptsAssumption == MaxAttempts \in Nat
\* No order of the two delays is enforced, nor any property of the multiplier;
\* one that is negative makes from_secs_f64 panic and is left out.
ASSUME DelayAssumption ==
  /\ LongestDelay \in Nat
  /\ InitialDelay \in 0..LongestDelay /\ MaxDelay \in 0..LongestDelay
  /\ Scaled \in [0..LongestDelay -> Nat]
ASSUME EventCapAssumption == EventCap \in Nat \ {0}
ASSUME MaxChangesAssumption == MaxChanges \in Nat

VARIABLES
  task,       \* where the event loop is
  peer,       \* the state the connection is in (ManagedPeer.state)
  queue,      \* peer_events: broadcast events the loop has not received
  lagged,     \* the channel has dropped events the loop has not received
  attempt,    \* ReconnectState.attempt
  delay,      \* ReconnectState.current_delay
  deadline,   \* disconnect_deadline is set
  shutdown,   \* the value in the watch channel
  watch,      \* "seen", "changed" or "dropped": what changed() would say
  signaling,  \* the signaling channel is "open" or "closed"
  changes,    \* number of peer events so far, for the bound
  handled,    \* the last Connected, Disconnected or Failed the loop handled
  log,        \* announcements since then or a Connected: k for
              \* Reconnecting { attempt: k }, 0 for ReconnectFailed
  missed      \* history: the channel has dropped the last Connected unread

vars == <<task, peer, queue, lagged, attempt, delay, deadline, shutdown, watch,
          signaling, changes, handled, log, missed>>

PeerStates == {"New", "Connecting", "Connected", "Disconnected", "Failed", "Closed"}
Events == PeerStates \cup {"Reconnecting", "ReconnectFailed", "Other"}

\* "closing": the loop is left and peer.close() awaited.  "ended" and
\* "failed": the task has returned Ok or Err.
Tasks == {"starting", "selecting", "backoff", "closing", "ended", "failed"}
Returned == task \in {"ended", "failed"}

Init ==
  /\ task = "starting"
  /\ peer = "New"
  /\ queue = <<>> /\ lagged = FALSE
  /\ attempt = 0 /\ delay = (IF Backoff THEN InitialDelay ELSE 0)
  /\ deadline = FALSE
  /\ shutdown = FALSE /\ watch = "seen"
  /\ signaling = "open"
  /\ changes = 0
  /\ handled = "none" /\ log = <<>> /\ missed = FALSE

\* A full broadcast channel forgets its oldest event.
Push(q, e) == Append(IF Len(q) < EventCap THEN q ELSE Tail(q), e)
Unread(q) == \E i \in DOMAIN q : q[i] = "Connected"

\* e is sent to the receiver that has the events q; l, it has lost some.
Send(q, l, e) ==
  /\ queue' = Push(q, e)
  /\ lagged' = (l \/ Len(q) = EventCap)
  /\ missed' = (~Unread(Push(q, e)) /\ (missed \/ Unread(q)))

\* The loop is subscribed once it has sent the first offer.
Subscribed == task \in {"selecting", "backoff", "closing"}
Broadcast(e) ==
  IF Subscribed THEN Send(queue, lagged, e) ELSE UNCHANGED <<queue, lagged, missed>>

-----------------------------------------------------------------------------
\* send_offer()? of the offerer; an answerer starts at once.
Start ==
  /\ task = "starting"
  /\ task' \in {"selecting"} \cup (IF Offerer THEN {"failed"} ELSE {})
  /\ UNCHANGED <<peer, queue, lagged, attempt, delay, deadline, shutdown, watch,
                 signaling, changes, handled, log, missed>>

\* Deviation: one attempt too many.
ShouldRetryLate == Backoff /\ (MaxAttempts = 0 \/ attempt <= MaxAttempts)
ShouldRetry == Backoff /\ (MaxAttempts = 0 \/ attempt < MaxAttempts)

\* attempt_reconnect up to the sleep in wait_and_advance; q and l are what is
\* left of the events once the one that led here is taken.
AttemptReconnect(q, l) ==
  /\ deadline' = FALSE
  /\ \/ /\ ShouldRetry
        /\ attempt' = attempt + 1
        /\ task' = "backoff"
        /\ queue' = q /\ lagged' = l
        /\ UNCHANGED <<log, missed>>
     \/ /\ ~ShouldRetry
        /\ Send(q, l, "ReconnectFailed")
        /\ log' = Append(log, 0)
        /\ UNCHANGED <<task, attempt>>
  /\ UNCHANGED <<peer, delay, shutdown, watch, signaling, changes>>

Capped(d) == IF d < MaxDelay THEN d ELSE MaxDelay
NextDelay == Capped(Scaled[delay])

\* The sleep is over: the delay for the next attempt is set, the attempt
\* announced and an offer sent.  A failed offer is only logged.
BackoffEnds ==
  /\ task = "backoff"
  /\ task' = "selecting"
  /\ delay' = NextDelay
  /\ Broadcast("Reconnecting")
  /\ log' = Append(log, attempt)
  /\ UNCHANGED <<peer, attempt, deadline, shutdown, watch, signaling, changes, handled>>

-----------------------------------------------------------------------------
\* peer_events.recv()
Event(S) == task = "selecting" /\ ~lagged /\ queue # <<>> /\ Head(queue) \in S

\* Err(Lagged): the loop looks at nothing and goes on with what is left.
EventsLost ==
  /\ task = "selecting" /\ lagged
  /\ lagged' = FALSE
  /\ UNCHANGED <<task, peer, queue, attempt, delay, deadline, shutdown, watch,
                 signaling, changes, handled, log, missed>>

\* reset() starts the counter and the delay over, and the grace period is off.
Recover ==
  /\ Event({"Connected"})
  /\ queue' = Tail(queue)
  /\ attempt' = 0
  /\ handled' = "Connected" /\ log' = <<>>
  /\ UNCHANGED <<task, peer, lagged, shutdown, watch, signaling, changes, missed>>
ResetDelay == delay' = (IF Backoff THEN InitialDelay ELSE delay)

\* Deviations: the grace period survives a recovery; the delay is not reset.
HandleConnectedKeepsGrace == Recover /\ ResetDelay /\ UNCHANGED deadline
HandleConnectedKeepsDelay == Recover /\ deadline' = FALSE /\ UNCHANGED delay
HandleConnected == Recover /\ ResetDelay /\ deadline' = FALSE

HandleDisconnected ==
  /\ Event({"Disconnected"})
  /\ queue' = Tail(queue)
  /\ deadline' = TRUE
  /\ handled' = "Disconnected"
  /\ UNCHANGED <<task, peer, lagged, attempt, delay, shutdown, watch, signaling,
                 changes, log, missed>>

HandleFailed ==
  /\ Event({"Failed"})
  /\ handled' = "Failed"
  /\ AttemptReconnect(Tail(queue), FALSE)

\* Every other event, Connecting and Closed among them, leaves all as it is.
HandleOther ==
  /\ Event(Events \ {"Connected", "Disconnected", "Failed"})
  /\ queue' = Tail(queue)
  /\ UNCHANGED <<task, peer, lagged, attempt, delay, deadline, shutdown, watch,
                 signaling, changes, handled, log, missed>>

HandleEvent ==
  EventsLost \/ HandleConnected \/ HandleDisconnected \/ HandleFailed \/ HandleOther

\* The five seconds are over, whatever events wait in the queue.
GraceExpires ==
  /\ task = "selecting" /\ deadline
  /\ AttemptReconnect(queue, lagged)
  /\ UNCHANGED handled

-----------------------------------------------------------------------------
Leave(t) ==
  /\ task' = t
  /\ UNCHANGED <<peer, queue, lagged, attempt, delay, deadline, shutdown, watch,
                 signaling, changes, handled, log, missed>>

\* A candidate is sent, an offer, an answer or a candidate handled ...
Signal == task = "selecting" /\ UNCHANGED vars
\* ... or one of these fails: the error returns and peer.close() is skipped.
SignalFails == task = "selecting" /\ Leave("failed")
\* Deviation: a closed channel is polled again.
SignalClosedIgnored == task = "selecting" /\ signaling = "closed" /\ UNCHANGED vars
SignalClosed == task = "selecting" /\ signaling = "closed" /\ Leave("closing")

\* Deviation: the flag is never looked at.
ShutdownIgnored ==
  /\ task = "selecting" /\ watch = "changed"
  /\ watch' = "seen"
  /\ UNCHANGED <<task, peer, queue, lagged, attempt, delay, deadline, shutdown,
                 signaling, changes, handled, log, missed>>
\* shutdown.changed(); once the sender is dropped it is ready every time.
ShutdownChanged ==
  /\ task = "selecting" /\ watch # "seen"
  /\ watch' = IF watch = "changed" THEN "seen" ELSE watch
  /\ task' = IF shutdown THEN "closing" ELSE task
  /\ UNCHANGED <<peer, queue, lagged, attempt, delay, deadline, shutdown,
                 signaling, changes, handled, log, missed>>

ClosePeer ==
  /\ task = "closing"
  /\ task' \in {"ended", "failed"}
  /\ peer' = "Closed"
  /\ UNCHANGED <<queue, lagged, attempt, delay, deadline, shutdown, watch,
                 signaling, changes, handled, log, missed>>

-----------------------------------------------------------------------------
\* The connection's states, as the webrtc crate reports them.
Follows(s) ==
  CASE s = "New" -> {"Connecting", "Closed"}
    [] s = "Connecting" -> {"Connected", "Failed", "Closed"}
    [] s = "Connected" -> {"Disconnected", "Failed", "Closed"}
    [] s = "Disconnected" -> {"Connected", "Failed", "Closed"}
    [] s = "Failed" -> {"Connecting", "Closed"}
    [] s = "Closed" -> {}

\* on_peer_connection_state_change: the state is written, then broadcast.
\* Nobody but the loop gives the peer a remote description, so before that it
\* can only be closed.
PeerChanges(s) ==
  /\ changes < MaxChanges
  /\ s \in Follows(peer)
  /\ task = "starting" => s = "Closed"
  /\ peer' = s
  /\ Broadcast(s)
  /\ changes' = changes + 1
  /\ UNCHANGED <<task, attempt, delay, deadline, shutdown, watch, signaling, handled, log>>

\* on_data_channel, on_track
OtherEvent ==
  /\ changes < MaxChanges
  /\ peer = "Connected"
  /\ Broadcast("Other")
  /\ changes' = changes + 1
  /\ UNCHANGED <<task, peer, attempt, delay, deadline, shutdown, watch, signaling,
                 handled, log>>

\* The application sends a shutdown value or drops the sender.
RequestShutdown(v) ==
  /\ watch # "dropped" /\ shutdown # v
  /\ shutdown' = v /\ watch' = "changed"
  /\ UNCHANGED <<task, peer, queue, lagged, attempt, delay, deadline, signaling,
                 changes, handled, log, missed>>
DropShutdown ==
  /\ watch # "dropped"
  /\ watch' = "dropped"
  /\ UNCHANGED <<task, peer, queue, lagged, attempt, delay, deadline, shutdown,
                 signaling, changes, handled, log, missed>>

CloseSignaling ==
  /\ signaling = "open"
  /\ signaling' = "closed"
  /\ UNCHANGED <<task, peer, queue, lagged, attempt, delay, deadline, shutdown, watch,
                 changes, handled, log, missed>>

Over == Returned /\ UNCHANGED vars

Next ==
  \/ Start \/ HandleEvent \/ GraceExpires \/ BackoffEnds
  \/ Signal \/ SignalFails \/ SignalClosed \/ ShutdownChanged \/ ClosePeer
  \/ (\E s \in PeerStates : PeerChanges(s)) \/ OtherEvent
  \/ (\E v \in BOOLEAN : RequestShutdown(v)) \/ DropShutdown \/ CloseSignaling
  \/ Over

Spec == Init /\ [][Next]_vars

\* The task runs when it is ready and sleeps end.  select! picks at random
\* among the ready arms, so an arm that is ready again and again is taken.
\* Nothing is assumed of the peer, the signaling service or the application.
Fairness ==
  /\ WF_vars(Start) /\ WF_vars(BackoffEnds) /\ WF_vars(ClosePeer)
  /\ SF_vars(HandleEvent) /\ SF_vars(GraceExpires)
  /\ SF_vars(SignalClosed) /\ SF_vars(ShutdownChanged)

FairSpec == Spec /\ Fairness

-----------------------------------------------------------------------------
\* Every variable keeps its type and the event queue its capacity.
TypeOK ==
  /\ task \in Tasks
  /\ peer \in PeerStates
  /\ queue \in Seq(Events) /\ Len(queue) <= EventCap
  /\ lagged \in BOOLEAN
  /\ attempt \in Nat /\ delay \in 0..LongestDelay
  /\ deadline \in BOOLEAN
  /\ shutdown \in BOOLEAN /\ watch \in {"seen", "changed", "dropped"}
  /\ signaling \in {"open", "closed"}
  /\ changes \in 0..MaxChanges
  /\ handled \in {"none", "Connected", "Disconnected", "Failed"}
  /\ log \in Seq(Nat)
  /\ missed \in BOOLEAN

Allowed(k) == Backoff /\ (MaxAttempts = 0 \/ k <= MaxAttempts)

\* What the application hears between two recoveries: Reconnecting 1, 2, 3 ...
\* without a gap or a repetition, ReconnectFailed exactly where the next
\* attempt would exceed max_attempts, and never Reconnecting after that
\* (attempt_reconnect, transport.rs:457-485).
AnnouncedInOrder ==
  \A i \in DOMAIN log : log[i] = IF Allowed(i) THEN i ELSE 0

\* The delay before attempt k + 1: the first is the initial one, not capped; each
\* of the others is the one before it, scaled and at most the maximum.
DelayBefore[k \in Nat] ==
  IF k = 0 THEN InitialDelay ELSE Capped(Scaled[DelayBefore[k - 1]])

\* Delay and attempt counter stay in step through attempts, give-ups and
\* resets (reconnect.rs:82-120), for any delays and multiplier: during a backoff
\* delay is that of the attempt under way, otherwise that of the next one.
DelayFollowsAttempt ==
  Backoff => delay = DelayBefore[IF task = "backoff" THEN attempt - 1 ELSE attempt]

\* An attempt starts only on a failure that no recovery handled since has
\* undone: after a Connected it takes a new Disconnected or Failed.  It can start
\* on a peer that has recovered only while the loop still has the Connected to
\* read, or if the channel has dropped it (transport.rs:398-427).
AttemptHasCause ==
  [][task # "backoff" /\ task' = "backoff" =>
       /\ handled' \in {"Disconnected", "Failed"}
       /\ peer = "Connected" => Unread(queue') \/ missed]_vars

\* A shutdown request that is not withdrawn ends the loop, also one that comes
\* during a backoff, and also if the sender is dropped right after it.
ShutdownEnds == shutdown /\ watch # "seen" ~> Returned \/ ~shutdown

\* "Run the event loop until the signaling channel closes" (transport.rs:304).
SignalingCloseEnds == signaling = "closed" ~> Returned

GaveUp == log # <<>> /\ log[Len(log)] = 0

\* "The reconnect loop will try again" (transport.rs:480): a failed connection
\* recovers, is given up with ReconnectFailed, or the loop has returned.
FailureIsResolved == peer = "Failed" ~> peer # "Failed" \/ GaveUp \/ Returned
=============================================================================

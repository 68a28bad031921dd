----------------------- MODULE WebRtcEventLoop_proofs -----------------------
(***************************************************************************)
(* For any strategy, channel capacity and number of peer events: the       *)
(* announcements of the reconnection logic are in order, an attempt needs  *)
(* a failure that no recovery has undone, and the delay follows the        *)
(* attempts.                                                               *)
(***************************************************************************)
EXTENDS WebRtcEventLoop, Integers, WellFoundedInduction, TLAPS

\* The attempt counter against the announcements: during a backoff it is one
\* ahead; otherwise it equals their number, unless attempts are exhausted.
AttemptAgainstLog ==
  IF task = "backoff"
    THEN attempt = Len(log) + 1 /\ Allowed(attempt)
    ELSE attempt <= Len(log) /\ (attempt = Len(log) \/ ~Allowed(attempt + 1))

\* A running grace period is due to the last state handled.
GraceHasCause == deadline => handled = "Disconnected"

Types == task \in Tasks /\ attempt \in Nat /\ log \in Seq(Nat)

IInv == Types /\ AnnouncedInOrder /\ AttemptAgainstLog /\ GraceHasCause

LEMMA InitIInv == Init => IInv
<1>1. SUFFICES ASSUME Init PROVE IInv
  OBVIOUS
<1>2. task = "starting" /\ attempt = 0 /\ log = <<>> /\ deadline = FALSE
  BY <1>1 DEF Init
<1>3. <<>> \in Seq(Nat) /\ Len(<<>>) = 0 /\ DOMAIN <<>> = {}
  OBVIOUS
<1> QED
  BY <1>2, <1>3
  DEF IInv, Types, Tasks, AnnouncedInOrder, AttemptAgainstLog, GraceHasCause

\* Steps that touch neither the reconnection state nor enter or leave a backoff.
Untouched ==
  /\ UNCHANGED <<attempt, log>>
  /\ \/ task' \in Tasks \ {"backoff"} /\ task # "backoff"
     \/ task' = task

LEMMA UntouchedStep ==
  ASSUME IInv, Untouched, GraceHasCause' PROVE IInv'
<1>1. AttemptAgainstLog'
  BY DEF IInv, AttemptAgainstLog, Untouched, Allowed
<1>2. Types' /\ AnnouncedInOrder'
  BY DEF IInv, Types, AnnouncedInOrder, Untouched, Allowed
<1> QED
  BY <1>1, <1>2 DEF IInv

\* An announcement appended to the log.
LEMMA Announce ==
  ASSUME IInv, NEW k \in Nat, log' = Append(log, k),
         k = IF Allowed(Len(log) + 1) THEN Len(log) + 1 ELSE 0
  PROVE  log' \in Seq(Nat) /\ Len(log') = Len(log) + 1 /\ AnnouncedInOrder'
<1>1. /\ log' \in Seq(Nat) /\ Len(log) \in Nat /\ Len(log') = Len(log) + 1
      /\ DOMAIN log' = 1..Len(log) + 1 /\ DOMAIN log = 1..Len(log)
      /\ log'[Len(log) + 1] = k /\ \A i \in 1..Len(log) : log'[i] = log[i]
  BY DEF IInv, Types
<1>2. ASSUME NEW i \in DOMAIN log' PROVE log'[i] = IF Allowed(i) THEN i ELSE 0
  <2>1. CASE i \in DOMAIN log
    BY <1>1, <2>1 DEF IInv, AnnouncedInOrder
  <2>2. CASE i = Len(log) + 1
    BY <1>1, <2>2
  <2> QED
    BY <1>1, <1>2, <2>1, <2>2
<1> QED
  BY <1>1, <1>2 DEF AnnouncedInOrder, Allowed

LEMMA AttemptStep ==
  ASSUME IInv, NEW q, NEW l, task = "selecting", AttemptReconnect(q, l)
  PROVE  IInv'
<1>1. /\ attempt \in Nat /\ Len(log) \in Nat /\ attempt <= Len(log)
      /\ attempt = Len(log) \/ ~Allowed(attempt + 1)
  BY DEF IInv, Types, AttemptAgainstLog
<1>2. GraceHasCause'
  BY DEF AttemptReconnect, GraceHasCause
<1>3. ShouldRetry <=> Allowed(attempt + 1)
  BY <1>1, AttemptsAssumption DEF ShouldRetry, Allowed
<1>4. CASE ShouldRetry /\ attempt' = attempt + 1 /\ task' = "backoff" /\ log' = log
  BY <1>1, <1>2, <1>3, <1>4
  DEF IInv, Types, Tasks, AnnouncedInOrder, AttemptAgainstLog, Allowed
<1>5. CASE ~ShouldRetry /\ log' = Append(log, 0) /\ UNCHANGED <<task, attempt>>
  <2>1. ~Allowed(Len(log) + 1)
    BY <1>1, <1>3, <1>5, AttemptsAssumption DEF Allowed
  <2>2. log' \in Seq(Nat) /\ Len(log') = Len(log) + 1 /\ AnnouncedInOrder'
    BY <1>5, <2>1, Announce
  <2>3. attempt' <= Len(log') /\ ~Allowed(attempt + 1)
    BY <1>1, <1>3, <1>5, <2>2
  <2>4. AttemptAgainstLog'
    BY <1>5, <2>3 DEF AttemptAgainstLog, Allowed
  <2> QED
    BY <1>2, <1>5, <2>2, <2>4 DEF IInv, Types
<1> QED
  BY <1>4, <1>5 DEF AttemptReconnect

LEMMA StepIInv == IInv /\ [Next]_vars => IInv'
<1>1. SUFFICES ASSUME IInv, [Next]_vars PROVE IInv'
  OBVIOUS
<1>2. CASE HandleFailed \/ GraceExpires
  BY <1>1, <1>2, AttemptStep DEF HandleFailed, GraceExpires, Event
<1>3. CASE BackoffEnds
  <2>1. /\ task = "backoff" /\ task' = "selecting" /\ attempt' = attempt
        /\ log' = Append(log, attempt) /\ UNCHANGED <<deadline, handled>>
    BY <1>3 DEF BackoffEnds
  <2>2. attempt = Len(log) + 1 /\ Allowed(attempt) /\ attempt \in Nat /\ Len(log) \in Nat
    BY <1>1, <2>1 DEF IInv, Types, AttemptAgainstLog
  <2>3. log' \in Seq(Nat) /\ Len(log') = Len(log) + 1 /\ AnnouncedInOrder'
    BY <1>1, <2>1, <2>2, Announce
  <2>4. AttemptAgainstLog'
    BY <2>1, <2>2, <2>3 DEF AttemptAgainstLog
  <2> QED
    BY <1>1, <2>1, <2>2, <2>3, <2>4 DEF IInv, Types, Tasks, GraceHasCause
<1>4. CASE HandleConnected
  <2>1. /\ attempt' = 0 /\ log' = <<>> /\ deadline' = FALSE
        /\ task = "selecting" /\ task' = task
    BY <1>4 DEF HandleConnected, Recover, Event
  <2>2. <<>> \in Seq(Nat) /\ Len(<<>>) = 0 /\ DOMAIN <<>> = {}
    OBVIOUS
  <2> QED
    BY <2>1, <2>2
    DEF IInv, Types, Tasks, AnnouncedInOrder, AttemptAgainstLog, GraceHasCause
<1>5. CASE HandleDisconnected
  BY <1>1, <1>5, UntouchedStep DEF HandleDisconnected, Untouched, GraceHasCause
<1>6. ASSUME UNCHANGED <<attempt, log, deadline, handled>>, Untouched PROVE IInv'
  BY <1>1, <1>6, UntouchedStep DEF IInv, GraceHasCause
<1>7. CASE Start \/ EventsLost \/ HandleOther
  BY <1>6, <1>7 DEF Start, EventsLost, HandleOther, Untouched, Tasks
<1>8. CASE Signal \/ SignalFails \/ SignalClosed \/ ShutdownChanged \/ ClosePeer
  BY <1>6, <1>8
  DEF Signal, SignalFails, SignalClosed, Leave, ShutdownChanged, ClosePeer, vars,
      Untouched, Tasks
<1>9. CASE (\E s \in PeerStates : PeerChanges(s)) \/ OtherEvent
  BY <1>6, <1>9 DEF PeerChanges, OtherEvent, Untouched
<1>10. CASE (\E v \in BOOLEAN : RequestShutdown(v)) \/ DropShutdown \/ CloseSignaling
  BY <1>6, <1>10 DEF RequestShutdown, DropShutdown, CloseSignaling, Untouched
<1>11. CASE Over \/ UNCHANGED vars
  BY <1>6, <1>11 DEF Over, vars, Untouched
<1> QED
  BY <1>1, <1>2, <1>3, <1>4, <1>5, <1>7, <1>8, <1>9, <1>10, <1>11 DEF Next, HandleEvent

\* Between two recoveries the application hears Reconnecting 1, 2, 3 ... and
\* ReconnectFailed exactly beyond max_attempts, for any strategy and however
\* many events the channel drops (transport.rs:457-485).
THEOREM AnnouncementsInOrder == Spec => []AnnouncedInOrder
<1>1. IInv => AnnouncedInOrder
  BY DEF IInv
<1> QED
  BY InitIInv, StepIInv, <1>1, PTL DEF Spec

-----------------------------------------------------------------------------
\* The events a loop has to read: nothing that would start an attempt, or a
\* Connected behind which there is nothing of the kind.
Quiet(q) == \A i \in DOMAIN q : q[i] \notin {"Disconnected", "Failed"}
Fresh(q) ==
  \E i \in DOMAIN q :
    /\ q[i] = "Connected"
    /\ \A j \in DOMAIN q : i < j => q[j] \notin {"Disconnected", "Failed"}

LEMMA Pop ==
  ASSUME NEW q \in Seq(Events), q # <<>>
  PROVE  /\ Tail(q) \in Seq(Events)
         /\ Quiet(q) => Quiet(Tail(q)) /\ Head(q) \notin {"Disconnected", "Failed"}
         /\ Fresh(q) => Fresh(Tail(q)) \/ (Head(q) = "Connected" /\ Quiet(Tail(q)))
         /\ Unread(Tail(q)) => Unread(q)
<1>1. /\ Tail(q) \in Seq(Events) /\ Len(q) \in Nat \ {0} /\ Head(q) = q[1]
      /\ DOMAIN q = 1..Len(q) /\ DOMAIN Tail(q) = 1..(Len(q) - 1)
      /\ \A i \in 1..(Len(q) - 1) : Tail(q)[i] = q[i + 1]
  OBVIOUS
<1>2. \A i \in DOMAIN Tail(q) : i + 1 \in DOMAIN q /\ Tail(q)[i] = q[i + 1]
  BY <1>1
<1>3. 1 \in DOMAIN q
  BY <1>1
<1>4. Quiet(q) => Quiet(Tail(q)) /\ Head(q) \notin {"Disconnected", "Failed"}
  BY <1>1, <1>2, <1>3 DEF Quiet
<1>5. Unread(Tail(q)) => Unread(q)
  BY <1>2 DEF Unread
<1>6. ASSUME Fresh(q) PROVE Fresh(Tail(q)) \/ (Head(q) = "Connected" /\ Quiet(Tail(q)))
  <2>1. PICK i \in DOMAIN q :
          q[i] = "Connected"
          /\ \A j \in DOMAIN q : i < j => q[j] \notin {"Disconnected", "Failed"}
    BY <1>6 DEF Fresh
  <2>2. CASE i = 1
    <3>1. \A j \in DOMAIN Tail(q) : 1 < j + 1
      BY <1>1
    <3> QED
      BY <1>1, <1>2, <2>1, <2>2, <3>1 DEF Quiet
  <2>3. CASE i # 1
    <3>1. i - 1 \in DOMAIN Tail(q) /\ Tail(q)[i - 1] = "Connected"
      BY <1>1, <2>1, <2>3
    <3>2. \A j \in DOMAIN Tail(q) : i - 1 < j => i < j + 1
      BY <1>1, <2>1
    <3> QED
      BY <1>2, <2>1, <3>1, <3>2 DEF Fresh
  <2> QED
    BY <2>2, <2>3
<1> QED
  BY <1>1, <1>4, <1>5, <1>6

LEMMA Added ==
  ASSUME NEW q \in Seq(Events), NEW e \in Events
  PROVE  /\ Append(q, e) \in Seq(Events)
         /\ e = "Connected" => Fresh(Append(q, e))
         /\ e \notin {"Disconnected", "Failed"} =>
              /\ Quiet(q) => Quiet(Append(q, e))
              /\ Fresh(q) => Fresh(Append(q, e))
<1> DEFINE a == Append(q, e)
<1>1. /\ a \in Seq(Events) /\ Len(q) \in Nat /\ DOMAIN q = 1..Len(q)
      /\ DOMAIN a = 1..(Len(q) + 1) /\ a[Len(q) + 1] = e
      /\ \A i \in 1..Len(q) : a[i] = q[i]
  OBVIOUS
<1> HIDE DEF a
<1>2. ASSUME e = "Connected" PROVE Fresh(a)
  <2>1. Len(q) + 1 \in DOMAIN a /\ \A j \in DOMAIN a : ~(Len(q) + 1 < j)
    BY <1>1
  <2> QED
    BY <1>1, <1>2, <2>1 DEF Fresh
<1>3. ASSUME e \notin {"Disconnected", "Failed"}, Quiet(q) PROVE Quiet(a)
  BY <1>1, <1>3 DEF Quiet
<1>4. ASSUME e \notin {"Disconnected", "Failed"}, Fresh(q) PROVE Fresh(a)
  <2>1. PICK i \in DOMAIN q :
          q[i] = "Connected"
          /\ \A j \in DOMAIN q : i < j => q[j] \notin {"Disconnected", "Failed"}
    BY <1>4 DEF Fresh
  <2>2. i \in DOMAIN a /\ a[i] = "Connected"
    BY <1>1, <2>1
  <2>3. \A j \in DOMAIN a : i < j => a[j] \notin {"Disconnected", "Failed"}
    BY <1>1, <1>4, <2>1
  <2> QED
    BY <2>2, <2>3 DEF Fresh
<1> QED
  BY <1>1, <1>2, <1>3, <1>4 DEF a

\* An event is sent to the loop: if it is none that starts an attempt, what was
\* fresh or quiet is so still, or the channel has dropped the Connected.
LEMMA Pushed ==
  ASSUME NEW q \in Seq(Events), NEW e \in Events
  PROVE  /\ Push(q, e) \in Seq(Events)
         /\ e = "Connected" => Fresh(Push(q, e))
         /\ e \notin {"Disconnected", "Failed"} =>
              /\ Quiet(q) => Quiet(Push(q, e))
              /\ Fresh(q) => Fresh(Push(q, e)) \/ ~Unread(Push(q, e))
<1>1. CASE Len(q) < EventCap
  BY <1>1, Added DEF Push
<1>2. CASE ~(Len(q) < EventCap)
  <2>1. q # <<>> /\ Tail(q) \in Seq(Events)
    BY <1>2, EventCapAssumption
  <2>2. Push(q, e) = Append(Tail(q), e)
    BY <1>2 DEF Push
  <2>3. ASSUME e \notin {"Disconnected", "Failed"}, Fresh(q)
        PROVE  Fresh(Push(q, e)) \/ ~Unread(Push(q, e))
    <3>1. CASE Fresh(Tail(q))
      BY <2>1, <2>2, <2>3, <3>1, Added
    <3>2. CASE Quiet(Tail(q))
      <4>1. Quiet(Push(q, e))
        BY <2>1, <2>2, <2>3, <3>2, Added
      <4>2. Unread(Push(q, e)) => Fresh(Push(q, e))
        BY <4>1 DEF Quiet, Unread, Fresh
      <4> QED
        BY <4>2
    <3> QED
      BY <2>1, <2>3, <3>1, <3>2, Pop
  <2>4. e \notin {"Disconnected", "Failed"} /\ Quiet(q) => Quiet(Push(q, e))
    BY <2>1, <2>2, Added, Pop
  <2>5. Push(q, e) \in Seq(Events) /\ (e = "Connected" => Fresh(Push(q, e)))
    BY <2>1, <2>2, Added
  <2> QED
    BY <2>3, <2>4, <2>5
<1> QED
  BY <1>1, <1>2

FreshIsUnread == \A q \in Seq(Events) : Fresh(q) => Unread(q)

LEMMA FreshUnread == FreshIsUnread
  BY DEF FreshIsUnread, Fresh, Unread

\* What the loop with the events q knows of a peer that is connected: it has
\* the news before it or behind it, or the channel has dropped it.
Told(q, m, h) == m \/ Fresh(q) \/ (h = "Connected" /\ Quiet(q))
NewsInv ==
  /\ task \in Tasks /\ queue \in Seq(Events) /\ missed \in BOOLEAN
  /\ missed => ~Unread(queue)
  /\ task = "starting" => peer \in {"New", "Closed"}
  /\ Subscribed /\ peer = "Connected" => Told(queue, missed, handled)

\* Steps that leave the channel and the peer alone.
LEMMA NewsKept ==
  ASSUME NewsInv, UNCHANGED <<queue, missed>>,
         peer' = peer \/ peer' = "Closed",
         handled' = handled \/ handled' = "Connected",
         task' \in Tasks, task' = "starting" => task = "starting",
         Subscribed' => Subscribed \/ task = "starting"
  PROVE  NewsInv'
BY DEF NewsInv, Subscribed, Told

\* An event is taken out of the channel and the loop goes on.
LEMMA Taken ==
  ASSUME NewsInv, task = "selecting", queue # <<>>, NEW h,
         h = IF Head(queue) \in {"Connected", "Disconnected", "Failed"}
               THEN Head(queue) ELSE handled
  PROVE  /\ Tail(queue) \in Seq(Events)
         /\ missed => ~Unread(Tail(queue))
         /\ peer = "Connected" => Told(Tail(queue), missed, h)
<1>1. /\ queue \in Seq(Events)
      /\ missed => ~Unread(queue)
      /\ peer = "Connected" => Told(queue, missed, handled)
  BY DEF NewsInv, Subscribed
<1>2. /\ Tail(queue) \in Seq(Events)
      /\ Unread(Tail(queue)) => Unread(queue)
      /\ Quiet(queue) => Quiet(Tail(queue)) /\ Head(queue) \notin {"Disconnected", "Failed"}
      /\ Fresh(queue) =>
           Fresh(Tail(queue)) \/ (Head(queue) = "Connected" /\ Quiet(Tail(queue)))
  BY <1>1, Pop
<1> QED
  BY <1>1, <1>2 DEF Told

\* An event that starts no attempt is sent to a loop that has the events q.
LEMMA Sent ==
  ASSUME NEW q \in Seq(Events), NEW l, NEW e \in Events, NEW h,
         missed \in BOOLEAN, missed => ~Unread(q), Send(q, l, e)
  PROVE  /\ queue' \in Seq(Events) /\ missed' \in BOOLEAN
         /\ missed' => ~Unread(queue')
         /\ e = "Connected" => Told(queue', missed', h)
         /\ e \notin {"Connected", "Disconnected", "Failed"} /\ Told(q, missed, h) =>
              Told(queue', missed', h)
<1>1. queue' = Push(q, e) /\ missed' = (~Unread(queue') /\ (missed \/ Unread(q)))
  BY DEF Send
<1>2. /\ queue' \in Seq(Events)
      /\ e = "Connected" => Fresh(queue')
      /\ e \notin {"Disconnected", "Failed"} =>
           /\ Quiet(q) => Quiet(queue')
           /\ Fresh(q) => Fresh(queue') \/ ~Unread(queue')
  BY <1>1, Pushed
<1>3. Fresh(q) => Unread(q)
  BY FreshUnread DEF FreshIsUnread
<1>4. ASSUME e # "Connected", missed PROVE ~Unread(queue')
  <2>1. ~Unread(q) /\ DOMAIN q = 1..Len(q) /\ Len(q) \in Nat
    BY <1>4
  <2>2. CASE Len(q) < EventCap
    <3>1. queue' = Append(q, e)
      BY <1>1, <2>2 DEF Push
    <3> QED
      BY <1>4, <2>1, <3>1 DEF Unread
  <2>3. CASE ~(Len(q) < EventCap)
    <3>1. queue' = Append(Tail(q), e) /\ q # <<>> /\ Tail(q) \in Seq(Events)
      BY <1>1, <2>3, EventCapAssumption DEF Push
    <3>2. ~Unread(Tail(q))
      BY <2>1, <3>1, Pop
    <3> QED
      BY <1>4, <3>1, <3>2 DEF Unread
  <2> QED
    BY <2>2, <2>3
<1> QED
  BY <1>1, <1>2, <1>3, <1>4 DEF Told

\* A grace period that is over, or a Failed that was taken.
LEMMA NewsAttempted ==
  ASSUME NewsInv, NEW q \in Seq(Events), NEW l, task = "selecting",
         AttemptReconnect(q, l), missed => ~Unread(q),
         peer = "Connected" => Told(q, missed, handled')
  PROVE  NewsInv'
<1>1. peer' = peer
  BY DEF AttemptReconnect
<1>2. CASE task' = "backoff" /\ queue' = q /\ missed' = missed
  BY <1>1, <1>2 DEF NewsInv, Tasks
<1>3. CASE task' = task /\ Send(q, l, "ReconnectFailed")
  <2>1. "ReconnectFailed" \in Events /\ missed \in BOOLEAN
    BY DEF Events, NewsInv
  <2>2. /\ queue' \in Seq(Events) /\ missed' \in BOOLEAN
        /\ missed' => ~Unread(queue')
        /\ Told(q, missed, handled') => Told(queue', missed', handled')
    BY <1>3, <2>1, Sent
  <2> QED
    BY <1>1, <1>3, <2>2 DEF NewsInv
<1> QED
  BY <1>2, <1>3 DEF AttemptReconnect

\* Something is broadcast while the loop is at rest or asleep.
LEMMA NewsBroadcast ==
  ASSUME NewsInv, NEW e \in Events, Broadcast(e), handled' = handled,
         task' = task \/ (task = "backoff" /\ task' = "selecting"),
         \/ peer' = peer /\ e \notin {"Connected", "Disconnected", "Failed"}
         \/ peer' = e,
         task = "starting" => peer' \in {"New", "Closed"}
  PROVE  NewsInv'
<1>1. CASE ~Subscribed
  <2>1. UNCHANGED <<queue, missed, task>>
    BY <1>1 DEF Broadcast, Subscribed
  <2> QED
    BY <1>1, <2>1 DEF NewsInv, Subscribed
<1>2. CASE Subscribed
  <2>1. /\ Send(queue, lagged, e) /\ queue \in Seq(Events) /\ missed \in BOOLEAN
        /\ missed => ~Unread(queue)
        /\ peer = "Connected" => Told(queue, missed, handled)
    BY <1>2 DEF NewsInv, Broadcast
  <2>2. /\ queue' \in Seq(Events) /\ missed' \in BOOLEAN
        /\ missed' => ~Unread(queue')
        /\ e = "Connected" => Told(queue', missed', handled)
        /\ e \notin {"Connected", "Disconnected", "Failed"} /\ Told(queue, missed, handled) =>
             Told(queue', missed', handled)
    BY <2>1, Sent
  <2>3. peer' = "Connected" => Told(queue', missed', handled')
    BY <2>1, <2>2
  <2>4. task' \in Tasks /\ task' # "starting"
    BY <1>2 DEF Subscribed, Tasks
  <2> QED
    BY <2>2, <2>3, <2>4 DEF NewsInv
<1> QED
  BY <1>1, <1>2

LEMMA InitNews == Init => NewsInv
<1>1. SUFFICES ASSUME Init PROVE NewsInv
  OBVIOUS
<1>2. task = "starting" /\ peer = "New" /\ queue = <<>> /\ missed = FALSE
  BY <1>1 DEF Init
<1>3. <<>> \in Seq(Events)
  OBVIOUS
<1>4. ~Subscribed /\ task \in Tasks
  BY <1>2 DEF Subscribed, Tasks
<1> QED
  BY <1>2, <1>3, <1>4 DEF NewsInv

LEMMA StepNews == IInv /\ NewsInv /\ [Next]_vars => NewsInv'
<1> SUFFICES ASSUME IInv, NewsInv, [Next]_vars PROVE NewsInv'
  OBVIOUS
<1>1. CASE HandleFailed
  <2>1. /\ task = "selecting" /\ queue # <<>> /\ Head(queue) = "Failed"
        /\ handled' = "Failed" /\ AttemptReconnect(Tail(queue), FALSE)
    BY <1>1 DEF HandleFailed, Event
  <2>2. /\ Tail(queue) \in Seq(Events)
        /\ missed => ~Unread(Tail(queue))
        /\ peer = "Connected" => Told(Tail(queue), missed, handled')
    BY <2>1, Taken
  <2> QED
    BY <2>1, <2>2, NewsAttempted
<1>2. CASE GraceExpires
  <2>1. task = "selecting" /\ AttemptReconnect(queue, lagged) /\ handled' = handled
    BY <1>2 DEF GraceExpires
  <2>2. /\ queue \in Seq(Events)
        /\ missed => ~Unread(queue)
        /\ peer = "Connected" => Told(queue, missed, handled')
    BY <2>1 DEF NewsInv, Subscribed
  <2> QED
    BY <2>1, <2>2, NewsAttempted
<1>3. CASE HandleConnected \/ HandleDisconnected \/ HandleOther
  <2>1. /\ task = "selecting" /\ queue # <<>> /\ queue' = Tail(queue)
        /\ UNCHANGED <<task, peer, missed>>
        /\ handled' = IF Head(queue) \in {"Connected", "Disconnected", "Failed"}
                        THEN Head(queue) ELSE handled
    BY <1>3 DEF HandleConnected, Recover, HandleDisconnected, HandleOther, Event
  <2>2. /\ Tail(queue) \in Seq(Events)
        /\ missed => ~Unread(Tail(queue))
        /\ peer = "Connected" => Told(Tail(queue), missed, handled')
    BY <2>1, Taken
  <2> QED
    BY <2>1, <2>2 DEF NewsInv
<1>4. CASE BackoffEnds
  <2>1. /\ task = "backoff" /\ task' = "selecting" /\ Broadcast("Reconnecting")
        /\ UNCHANGED <<peer, handled>> /\ "Reconnecting" \in Events
    BY <1>4 DEF BackoffEnds, Events
  <2> QED
    BY <2>1, NewsBroadcast
<1>5. CASE \E s \in PeerStates : PeerChanges(s)
  <2>1. PICK s \in PeerStates : PeerChanges(s)
    BY <1>5
  <2>2. /\ Broadcast(s) /\ peer' = s /\ UNCHANGED <<task, handled>> /\ s \in Events
        /\ task = "starting" => s = "Closed"
    BY <2>1 DEF PeerChanges, Events
  <2>3. task = "starting" => peer' \in {"New", "Closed"}
    BY <2>2
  <2>4. \/ peer' = peer /\ s \notin {"Connected", "Disconnected", "Failed"}
        \/ peer' = s
    BY <2>2
  <2>5. handled' = handled /\ (task' = task \/ (task = "backoff" /\ task' = "selecting"))
    BY <2>2
  <2>6. s \in Events /\ Broadcast(s)
    BY <2>2
  <2> QED
    BY <2>3, <2>4, <2>5, <2>6, NewsBroadcast, Zenon
<1>6. CASE OtherEvent
  <2>1. /\ Broadcast("Other") /\ UNCHANGED <<peer, task, handled>> /\ "Other" \in Events
        /\ peer = "Connected"
    BY <1>6 DEF OtherEvent, Events
  <2>2. task # "starting"
    BY <2>1 DEF NewsInv
  <2>3. task = "starting" => peer' \in {"New", "Closed"}
    BY <2>2
  <2>4. \/ peer' = peer /\ "Other" \notin {"Connected", "Disconnected", "Failed"}
        \/ peer' = "Other"
    BY <2>1
  <2>5. handled' = handled /\ (task' = task \/ (task = "backoff" /\ task' = "selecting"))
    BY <2>1
  <2>6. "Other" \in Events /\ Broadcast("Other")
    BY <2>1
  <2> QED
    BY <2>3, <2>4, <2>5, <2>6, NewsBroadcast, Zenon
<1>7. CASE Start \/ EventsLost \/ Signal \/ SignalFails \/ SignalClosed \/ ShutdownChanged
           \/ ClosePeer
  BY <1>7, NewsKept
  DEF Start, EventsLost, Signal, SignalFails, SignalClosed, Leave, ShutdownChanged,
      ClosePeer, vars, Tasks, Subscribed, NewsInv
<1>8. CASE (\E v \in BOOLEAN : RequestShutdown(v)) \/ DropShutdown \/ CloseSignaling
           \/ Over \/ UNCHANGED vars
  BY <1>8, NewsKept
  DEF RequestShutdown, DropShutdown, CloseSignaling, Over, vars, Subscribed, NewsInv
<1> QED
  BY <1>1, <1>2, <1>3, <1>4, <1>5, <1>6, <1>7, <1>8 DEF Next, HandleEvent

\* A backoff is entered only on a failure that no handled recovery has undone,
\* and on a connected peer only while the news of it is unread or was dropped
\* (transport.rs:398-427).
THEOREM AttemptsHaveCause == Spec => AttemptHasCause
<1> DEFINE Caused ==
      task # "backoff" /\ task' = "backoff" =>
        /\ handled' \in {"Disconnected", "Failed"}
        /\ peer = "Connected" => Unread(queue') \/ missed
<1>1. IInv /\ NewsInv /\ [Next]_vars => [Caused]_vars
  <2>1. SUFFICES ASSUME IInv, NewsInv, Next, task # "backoff", task' = "backoff"
                 PROVE  /\ handled' \in {"Disconnected", "Failed"}
                        /\ peer = "Connected" => Unread(queue') \/ missed
    OBVIOUS
  <2>2. HandleFailed \/ GraceExpires
    BY <2>1
    DEF Next, HandleEvent, Start, EventsLost, HandleConnected, Recover,
        HandleDisconnected, HandleOther, BackoffEnds, Signal, SignalFails, SignalClosed, Leave,
        ShutdownChanged, ClosePeer, PeerChanges, OtherEvent, RequestShutdown,
        DropShutdown, CloseSignaling, Over, vars
  <2>3. CASE HandleFailed
    <3>1. /\ task = "selecting" /\ queue # <<>> /\ Head(queue) = "Failed"
          /\ handled' = "Failed" /\ AttemptReconnect(Tail(queue), FALSE)
      BY <2>3 DEF HandleFailed, Event
    <3>2. queue' = Tail(queue)
      BY <2>1, <3>1 DEF AttemptReconnect
    <3>3. /\ Tail(queue) \in Seq(Events)
          /\ peer = "Connected" => Told(Tail(queue), missed, "Failed")
      BY <2>1, <3>1, Taken
    <3> QED
      BY <3>1, <3>2, <3>3, FreshUnread DEF Told, FreshIsUnread
  <2>4. CASE GraceExpires
    <3>1. /\ task = "selecting" /\ deadline /\ handled' = handled
          /\ AttemptReconnect(queue, lagged)
      BY <2>4 DEF GraceExpires
    <3>2. queue' = queue
      BY <2>1, <3>1 DEF AttemptReconnect
    <3>3. handled = "Disconnected"
      BY <2>1, <3>1 DEF IInv, GraceHasCause
    <3>4. queue \in Seq(Events) /\ (peer = "Connected" => missed \/ Fresh(queue))
      BY <2>1, <3>1, <3>3 DEF NewsInv, Subscribed, Told
    <3> QED
      BY <3>1, <3>2, <3>3, <3>4, FreshUnread DEF FreshIsUnread
  <2> QED
    BY <2>2, <2>3, <2>4
<1> QED
  BY InitIInv, StepIInv, InitNews, StepNews, <1>1, PTL DEF Spec, AttemptHasCause

-----------------------------------------------------------------------------
\* Induction over the natural numbers, from a least counterexample, and what it
\* gives: a sequence of values can be defined by a first one and a step.
LEMMA Least ==
  ASSUME NEW S, S \subseteq Nat, S # {}
  PROVE  \E m \in S : \A k \in S : m <= k
<1> DEFINE R == OpToRel(<, Nat)
<1>1. IsWellFoundedOn(R, Nat)
  BY NatLessThanWellFounded
<1>2. \A k, m \in Nat : k < m => <<k, m>> \in R
  BY DEF OpToRel
<1> HIDE DEF R
<1>3. PICK m \in S : \A k \in S : ~(<<k, m>> \in R)
  BY <1>1, WFMin
<1>4. m \in Nat /\ \A k \in S : k \in Nat /\ ~(k < m)
  BY <1>2, <1>3
<1>5. \A k \in S : m <= k
  BY <1>4
<1> QED
  BY <1>5

LEMMA Induction ==
  ASSUME NEW S, 0 \in S, \A n \in Nat : n \in S => n + 1 \in S
  PROVE  Nat \subseteq S
<1> SUFFICES ASSUME Nat \ S # {} PROVE FALSE
  OBVIOUS
<1> DEFINE T == Nat \ S
<1>1. T \subseteq Nat /\ T # {}
  OBVIOUS
<1> HIDE DEF T
<1>2. PICK m \in T : \A k \in T : m <= k
  BY <1>1, Least
<1>3. m \in Nat /\ m # 0 /\ m - 1 \notin T
  BY <1>2 DEF T
<1>4. m - 1 \in Nat /\ (m - 1) + 1 = m
  BY <1>3
<1> QED
  BY <1>2, <1>3, <1>4 DEF T

\* Some sequence begins with v and goes on by the given step.
Iterates(V, v, step) ==
  \E f \in [Nat -> V] : f[0] = v /\ \A n \in Nat : f[n + 1] = step[f[n]]

LEMMA Recursion ==
  ASSUME NEW V, NEW v \in V, NEW step \in [V -> V]
  PROVE  Iterates(V, v, step)
<1> DEFINE Begins(g, n) == /\ g \in [0..n -> V] /\ g[0] = v
                           /\ \A i \in 0..n : i < n => g[i + 1] = step[g[i]]
           S == {n \in Nat : \E g : Begins(g, n)}
<1>1. 0 \in S
  <2> DEFINE g == [i \in 0..0 |-> v]
  <2>1. Begins(g, 0)
    OBVIOUS
  <2> QED
    BY <2>1
<1>2. ASSUME NEW n \in Nat, n \in S PROVE n + 1 \in S
  <2>1. PICK g : Begins(g, n)
    BY <1>2
  <2>2. g \in [0..n -> V] /\ g[0] = v /\ \A i \in 0..n : i < n => g[i + 1] = step[g[i]]
    BY <2>1
  <2> DEFINE h == [i \in 0..(n + 1) |-> IF i <= n THEN g[i] ELSE step[g[n]]]
  <2>3. h \in [0..(n + 1) -> V]
    BY <2>2
  <2>4. h[n + 1] = step[g[n]] /\ \A i \in 0..n : h[i] = g[i]
    OBVIOUS
  <2> HIDE DEF h
  <2>5. h[0] = v
    BY <2>2, <2>4
  <2>6. ASSUME NEW i \in 0..(n + 1), i < n + 1 PROVE h[i + 1] = step[h[i]]
    <3>1. CASE i = n
      BY <2>4, <3>1
    <3>2. CASE i < n
      <4>1. i \in 0..n /\ i + 1 \in 0..n
        BY <3>2
      <4> QED
        BY <2>2, <2>4, <3>2, <4>1
    <3> QED
      BY <2>6, <3>1, <3>2
  <2>7. Begins(h, n + 1)
    BY <2>3, <2>5, <2>6
  <2> QED
    BY <2>7
<1>3. Nat \subseteq S
  <2> HIDE DEF S
  <2> QED
    BY <1>1, <1>2, Induction
<1> DEFINE G == [n \in Nat |-> CHOOSE g : Begins(g, n)]
<1>4. ASSUME NEW n \in Nat PROVE Begins(G[n], n)
  <2>1. \E g : Begins(g, n)
    BY <1>3
  <2> HIDE DEF Begins
  <2> QED
    BY <2>1
<1> HIDE DEF G
<1>5. ASSUME NEW n \in Nat PROVE G[n] \in [0..n -> V] /\ G[n][0] = v
                                 /\ \A i \in 0..n : i < n => G[n][i + 1] = step[G[n][i]]
  BY <1>4
<1> HIDE DEF Begins
<1>6. ASSUME NEW n \in Nat PROVE G[n + 1][n] = G[n][n]
  <2> DEFINE Same == {i \in Nat : i <= n => G[n + 1][i] = G[n][i]}
  <2>1. 0 \in Same
    BY <1>5
  <2>2. ASSUME NEW i \in Nat, i \in Same PROVE i + 1 \in Same
    <3>1. CASE i + 1 <= n
      <4>1. i \in 0..n /\ i < n /\ i \in 0..(n + 1) /\ i < n + 1 /\ n + 1 \in Nat
        BY <3>1
      <4>2. G[n][i + 1] = step[G[n][i]] /\ G[n + 1][i + 1] = step[G[n + 1][i]]
        BY <1>5, <4>1
      <4>3. G[n + 1][i] = G[n][i]
        BY <2>2, <4>1
      <4> QED
        BY <4>2, <4>3
    <3> QED
      BY <3>1
  <2>3. Nat \subseteq Same
    <3> HIDE DEF Same
    <3> QED
      BY <2>1, <2>2, Induction
  <2> QED
    BY <2>3
<1> DEFINE f == [n \in Nat |-> G[n][n]]
<1>7. f \in [Nat -> V]
  BY <1>5
<1>8. f[0] = v
  BY <1>5
<1>9. ASSUME NEW n \in Nat PROVE f[n + 1] = step[f[n]]
  <2>1. n + 1 \in Nat /\ n \in 0..(n + 1) /\ n < n + 1
    OBVIOUS
  <2>2. G[n + 1][n + 1] = step[G[n + 1][n]]
    BY <1>5, <2>1
  <2> QED
    BY <1>6, <2>1, <2>2
<1> HIDE DEF f
<1> QED
  BY <1>7, <1>8, <1>9 DEF Iterates

-----------------------------------------------------------------------------
\* The recursive definition of DelayBefore holds: the delays exist.
LEMMA NextDelayBefore ==
  /\ DelayBefore[0] = InitialDelay
  /\ \A k \in Nat : DelayBefore[k + 1] = Capped(Scaled[DelayBefore[k]])
<1> DEFINE Delays == 0..LongestDelay
           step == [d \in Delays |-> Capped(Scaled[d])]
           Unfolds(f) == f = [k \in Nat |-> IF k = 0 THEN InitialDelay
                                            ELSE Capped(Scaled[f[k - 1]])]
<1>1. InitialDelay \in Delays /\ step \in [Delays -> Delays]
  BY DelayAssumption DEF Capped
<1>2. PICK f \in [Nat -> Delays] :
        f[0] = InitialDelay /\ \A n \in Nat : f[n + 1] = step[f[n]]
  <2> HIDE DEF step, Delays
  <2>1. Iterates(Delays, InitialDelay, step)
    BY <1>1, Recursion
  <2> QED
    BY <2>1 DEF Iterates
<1>3. ASSUME NEW k \in Nat
      PROVE  f[k] = IF k = 0 THEN InitialDelay ELSE Capped(Scaled[f[k - 1]])
  <2>1. CASE k = 0
    BY <1>2, <2>1
  <2>2. CASE k # 0
    <3>1. k - 1 \in Nat /\ (k - 1) + 1 = k
      BY <2>2
    <3>2. f[k] = step[f[k - 1]] /\ f[k - 1] \in Delays
      BY <1>2, <3>1
    <3> HIDE DEF Delays
    <3> QED
      BY <2>2, <3>2
  <2> QED
    BY <2>1, <2>2
<1>4. Unfolds(f)
  BY <1>2, <1>3
<1>5. DelayBefore = CHOOSE g : Unfolds(g)
  BY DEF DelayBefore
<1>6. Unfolds(DelayBefore)
  <2> HIDE DEF Unfolds
  <2> QED
    BY <1>4, <1>5
<1>7. \A k \in Nat : DelayBefore[k] = IF k = 0 THEN InitialDelay
                                      ELSE Capped(Scaled[DelayBefore[k - 1]])
  BY <1>6
<1>8. \A n \in Nat : n + 1 \in Nat /\ n + 1 # 0 /\ (n + 1) - 1 = n
  OBVIOUS
<1> QED
  BY <1>7, <1>8

\* During a backoff an attempt is under way.
DelayInv ==
  /\ task \in Tasks /\ attempt \in Nat
  /\ task = "backoff" => attempt # 0
  /\ DelayFollowsAttempt

LEMMA DelayKept ==
  ASSUME DelayInv, UNCHANGED <<attempt, delay>>,
         \/ task' \in Tasks \ {"backoff"} /\ task # "backoff"
         \/ task' = task
  PROVE  DelayInv'
<1>1. DelayFollowsAttempt'
  BY DEF DelayInv, DelayFollowsAttempt
<1> QED
  BY <1>1 DEF DelayInv

LEMMA DelayAttempted ==
  ASSUME DelayInv, NEW q, NEW l, task = "selecting", AttemptReconnect(q, l)
  PROVE  DelayInv'
<1>1. CASE ShouldRetry /\ attempt' = attempt + 1 /\ task' = "backoff" /\ delay' = delay
  <2>1. attempt \in Nat /\ attempt + 1 \in Nat \ {0} /\ (attempt + 1) - 1 = attempt
    BY DEF DelayInv
  <2>2. Backoff => delay = DelayBefore[attempt]
    BY DEF DelayInv, DelayFollowsAttempt
  <2>3. DelayFollowsAttempt'
    BY <1>1, <2>1, <2>2 DEF DelayFollowsAttempt
  <2> QED
    BY <1>1, <2>1, <2>3 DEF DelayInv, Tasks
<1>2. CASE UNCHANGED <<task, attempt, delay>>
  BY <1>2, DelayKept
<1> QED
  BY <1>1, <1>2 DEF AttemptReconnect

LEMMA DelayStep == DelayInv /\ [Next]_vars => DelayInv'
<1> SUFFICES ASSUME DelayInv, [Next]_vars PROVE DelayInv'
  OBVIOUS
<1>1. CASE HandleFailed \/ GraceExpires
  BY <1>1, DelayAttempted DEF HandleFailed, GraceExpires, Event
<1>2. CASE BackoffEnds
  <2>1. /\ task = "backoff" /\ task' = "selecting" /\ attempt' = attempt
        /\ delay' = NextDelay
    BY <1>2 DEF BackoffEnds
  <2>2. attempt \in Nat \ {0}
    BY <2>1 DEF DelayInv
  <2>3. ASSUME Backoff PROVE delay' = DelayBefore[attempt]
    <3>1. delay = DelayBefore[attempt - 1]
      BY <2>1, <2>3 DEF DelayInv, DelayFollowsAttempt
    <3>2. attempt - 1 \in Nat /\ (attempt - 1) + 1 = attempt
      BY <2>2
    <3> QED
      BY <2>1, <3>1, <3>2, NextDelayBefore DEF NextDelay
  <2>4. DelayFollowsAttempt'
    BY <2>1, <2>3 DEF DelayFollowsAttempt
  <2> QED
    BY <2>1, <2>2, <2>4 DEF DelayInv, Tasks
<1>3. CASE HandleConnected
  <2>1. /\ attempt' = 0 /\ task = "selecting" /\ task' = task
        /\ Backoff => delay' = InitialDelay
    BY <1>3 DEF HandleConnected, Recover, ResetDelay, Event
  <2>2. Backoff => delay' = DelayBefore[attempt']
    BY <2>1, NextDelayBefore
  <2>3. DelayFollowsAttempt'
    BY <2>1, <2>2 DEF DelayFollowsAttempt
  <2> QED
    BY <2>1, <2>3 DEF DelayInv, Tasks
<1>4. CASE Start \/ EventsLost \/ HandleDisconnected \/ HandleOther
  BY <1>4, DelayKept
  DEF Start, EventsLost, HandleDisconnected, HandleOther, Tasks
<1>5. CASE Signal \/ SignalFails \/ SignalClosed \/ ShutdownChanged \/ ClosePeer
  BY <1>5, DelayKept
  DEF Signal, SignalFails, SignalClosed, Leave, ShutdownChanged, ClosePeer, vars, Tasks
<1>6. CASE (\E s \in PeerStates : PeerChanges(s)) \/ OtherEvent
  BY <1>6, DelayKept DEF PeerChanges, OtherEvent
<1>7. CASE (\E v \in BOOLEAN : RequestShutdown(v)) \/ DropShutdown \/ CloseSignaling
  BY <1>7, DelayKept DEF RequestShutdown, DropShutdown, CloseSignaling
<1>8. CASE Over \/ UNCHANGED vars
  BY <1>8, DelayKept DEF Over, vars
<1> QED
  BY <1>1, <1>2, <1>3, <1>4, <1>5, <1>6, <1>7, <1>8 DEF Next, HandleEvent

\* Through attempts, give-ups and resets the delay at hand is that of the
\* attempt under way or of the next one, whatever initial and greatest delay and
\* whatever the multiplier and its rounding make of a delay (reconnect.rs:82-120).
THEOREM DelaysFollow == Spec => []DelayFollowsAttempt
<1>1. Init => DelayInv
  <2> SUFFICES ASSUME Init PROVE DelayInv
    OBVIOUS
  <2>1. task = "starting" /\ attempt = 0 /\ (Backoff => delay = InitialDelay)
    BY DEF Init
  <2> QED
    BY <2>1, NextDelayBefore DEF DelayInv, DelayFollowsAttempt, Tasks
<1>2. DelayInv => DelayFollowsAttempt
  BY DEF DelayInv
<1> QED
  BY <1>1, <1>2, DelayStep, PTL DEF Spec
=============================================================================

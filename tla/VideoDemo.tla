----------------------------- MODULE VideoDemo ------------------------------
(***************************************************************************)
(* The program of the example video_demo.rs: main sets up a transport,     *)
(* waits for the connection and streams; a forwarder task passes the       *)
(* remote track from the events on to an inbound task.  Main and the       *)
(* forwarder each have a receiver of the transport's events                *)
(* (subscribe_events, transport.rs), a broadcast channel of bounded length *)
(* that overwrites what a slow receiver has not read.                      *)
(***************************************************************************)
EXTENDS Naturals, Sequences

CONSTANTS
  EventsKept,  \* capacity of the broadcast channel, 256 in the code
  MaxEvents    \* bound: events of the peer

VARIABLES
  main,       \* where main is
  log,        \* the events broadcast so far
  waiter,     \* events that are behind main's receiver
  logger,     \* the same for the forwarder's
  loop,       \* the event loop's task: "unborn", "running" or "ended"
  forwarder,  \* "none", "receiving", "sending" or "ended"
  track,      \* the track it sends
  channel,    \* the channel of one track
  inbound     \* the inbound task: "none", "awaiting", "reading" or "ended"

demoVars == <<main, log, waiter, logger, loop, forwarder, track, channel, inbound>>

\* The events that matter here; a track is its place in the log.
DemoEvents == {"Connected", "Failed", "TrackAdded", "Other"}

DemoInit ==
  /\ main = "setup" /\ loop = "unborn"
  /\ log = <<>> /\ waiter = 0 /\ logger = 0
  /\ forwarder = "none" /\ track = 0 /\ channel = <<>> /\ inbound = "none"

Runs == main # "returned"
Steps(from, to) == main = from /\ main' = to

\* connect or add_local_track fails: main returns an error.
SetupFails ==
  /\ Steps("setup", "returned")
  /\ UNCHANGED <<log, waiter, logger, loop, forwarder, track, channel, inbound>>

\* subscribe_events, twice: both receivers begin with the next event.
Subscribe ==
  /\ Steps("setup", "subscribed")
  /\ waiter' = Len(log) /\ logger' = Len(log)
  /\ UNCHANGED <<log, loop, forwarder, track, channel, inbound>>

\* The forwarder and the event loop are spawned.
SpawnTasks ==
  /\ Steps("subscribed", "waiting")
  /\ forwarder' = "receiving" /\ loop' = "running"
  /\ UNCHANGED <<log, waiter, logger, track, channel, inbound>>

-----------------------------------------------------------------------------
\* A callback of the peer broadcasts; before an offer was sent there is nothing
\* to tell.
Happens(e) ==
  /\ Runs /\ loop # "unborn" /\ Len(log) < MaxEvents
  /\ log' = Append(log, e)
  /\ UNCHANGED <<main, waiter, logger, loop, forwarder, track, channel, inbound>>

\* run returns; the transport keeps the events open.
LoopEnds ==
  /\ Runs /\ loop = "running" /\ loop' = "ended"
  /\ UNCHANGED <<main, log, waiter, logger, forwarder, track, channel, inbound>>

Lagged(reader) == Len(log) - reader > EventsKept
HasEvent(reader) == reader < Len(log) /\ ~Lagged(reader)

\* conn_events.recv() of main
WaitOver ==
  /\ HasEvent(waiter) /\ Steps("waiting", "resting")
  /\ log[waiter + 1] = "Connected"
  /\ waiter' = waiter + 1
  /\ UNCHANGED <<log, logger, loop, forwarder, track, channel, inbound>>

WaitOn ==
  /\ main = "waiting" /\ HasEvent(waiter)
  /\ log[waiter + 1] # "Connected"
  /\ waiter' = waiter + 1
  /\ UNCHANGED <<main, log, logger, loop, forwarder, track, channel, inbound>>

\* Deviation: Err(Lagged) is passed over, and main reads on from the oldest
\* event that is kept.
WaitFailsOn ==
  /\ main = "waiting" /\ Lagged(waiter)
  /\ waiter' = Len(log) - EventsKept
  /\ UNCHANGED <<main, log, logger, loop, forwarder, track, channel, inbound>>
\* Err(Lagged): main returns the error.
WaitFails ==
  /\ Lagged(waiter) /\ Steps("waiting", "returned")
  /\ UNCHANGED <<log, waiter, logger, loop, forwarder, track, channel, inbound>>

\* The inbound task is spawned, it calls next, and main streams.
Stream ==
  /\ Steps("resting", "streaming")
  /\ inbound' = "awaiting"
  /\ UNCHANGED <<log, waiter, logger, loop, forwarder, track, channel>>

\* init or consume of the sink fails: main returns and the program is over.
StreamFails ==
  /\ Steps("streaming", "returned")
  /\ UNCHANGED <<log, waiter, logger, loop, forwarder, track, channel, inbound>>

-----------------------------------------------------------------------------
Forwards == Runs /\ forwarder = "receiving"

ForwardOther ==
  /\ Forwards /\ HasEvent(logger) /\ log[logger + 1] # "TrackAdded"
  /\ logger' = logger + 1
  /\ UNCHANGED <<main, log, waiter, loop, forwarder, track, channel, inbound>>

ForwardTrack ==
  /\ Forwards /\ HasEvent(logger) /\ log[logger + 1] = "TrackAdded"
  /\ logger' = logger + 1
  /\ forwarder' = "sending" /\ track' = logger + 1
  /\ UNCHANGED <<main, log, waiter, loop, channel, inbound>>

\* Deviation: the track is dropped when nobody awaits it yet.
TrackSendsNow ==
  /\ Runs /\ forwarder = "sending"
  /\ channel' = IF inbound = "awaiting" THEN <<track>> ELSE channel
  /\ forwarder' = "receiving"
  /\ UNCHANGED <<main, log, waiter, logger, loop, track, inbound>>
\* track_tx.send(): waits for room, or fails when the inbound task has ended.
TrackSends ==
  /\ Runs /\ forwarder = "sending"
  /\ \/ channel = <<>> /\ inbound # "ended" /\ channel' = <<track>>
     \/ inbound = "ended" /\ UNCHANGED channel
  /\ forwarder' = "receiving"
  /\ UNCHANGED <<main, log, waiter, logger, loop, track, inbound>>

\* Err(Lagged) ends the loop of the forwarder and drops its end of the channel.
ForwarderEnds ==
  /\ Forwards /\ Lagged(logger)
  /\ forwarder' = "ended"
  /\ UNCHANGED <<main, log, waiter, logger, loop, track, channel, inbound>>

\* The first next of the source: a track, or the end of the channel.
TakeTrack ==
  /\ Runs /\ inbound = "awaiting"
  /\ \/ channel # <<>> /\ inbound' = "reading" /\ channel' = <<>>
     \/ channel = <<>> /\ forwarder = "ended" /\ inbound' = "ended" /\ UNCHANGED channel
  /\ UNCHANGED <<main, log, waiter, logger, loop, forwarder, track>>

\* read_rtp fails, the inbound task is over.
InboundEnds ==
  /\ Runs /\ inbound = "reading"
  /\ inbound' = "ended"
  /\ UNCHANGED <<main, log, waiter, logger, loop, forwarder, track, channel>>

\* The wait for a connection has no end of its own.
DemoQuiet ==
  /\ main \in {"waiting", "streaming", "returned"}
  /\ UNCHANGED demoVars

DemoNext ==
  \/ SetupFails \/ Subscribe \/ SpawnTasks \/ LoopEnds
  \/ (\E e \in DemoEvents : Happens(e))
  \/ WaitOver \/ WaitOn \/ WaitFails \/ Stream \/ StreamFails
  \/ ForwardOther \/ ForwardTrack \/ TrackSends \/ ForwarderEnds
  \/ TakeTrack \/ InboundEnds
  \/ DemoQuiet

\* The tasks of the program run when they can.  Nothing is assumed of the peer,
\* and neither the event loop nor the streaming has to end.
DemoFairness ==
  /\ WF_demoVars(WaitOver \/ WaitOn \/ WaitFails) /\ WF_demoVars(Stream)
  /\ WF_demoVars(ForwardOther \/ ForwardTrack \/ ForwarderEnds)
  /\ WF_demoVars(TrackSends) /\ WF_demoVars(TakeTrack)

-----------------------------------------------------------------------------
Seen(e) == \E i \in DOMAIN log : log[i] = e

\* A connection ends the wait of main (video_demo.rs:184-196), however early it
\* comes and whatever events come first: main streams, or has given up.
ConnectionEndsWait == Seen("Connected") ~> main \in {"streaming", "returned"}

\* A track the peer adds reaches the inbound task once main streams
\* (video_demo.rs:165-173), also one that came before or in the middle of other
\* events, unless events came faster than the forwarder read them.
TrackReachesInbound ==
  (Seen("TrackAdded") /\ main = "streaming")
    ~> inbound \in {"reading", "ended"} \/ main = "returned"

=============================================================================

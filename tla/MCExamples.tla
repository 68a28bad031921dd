----------------------------- MODULE MCExamples -----------------------------
(***************************************************************************)
(* The example programs, one at a time: simple_pipeline.rs, the signaling  *)
(* relay with its clients, and the video demo.  They share no state, so    *)
(* each behaviour runs one of them.                                        *)
(***************************************************************************)
EXTENDS ElementChain, SignalingRelay

CONSTANTS EventsKept, MaxEvents  \* of the demo

VARIABLES
  example,  \* the program that runs
  demoMain, log, waiter, logger, loop, forwarder, track, channel, inbound

D == INSTANCE VideoDemo WITH main <- demoMain

demoPart == <<demoMain, log, waiter, logger, loop, forwarder, track, channel, inbound>>

\* By hand: every wiring of up to two elements before a sink that prints.
UpToTwo ==
  {s \o <<"print_sink">> : s \in UNION {[1..n -> Transforms] : n \in 0..2}}

ExamplesInit ==
  /\ example \in {"simple_pipeline", "signaling_server", "video_demo"}
  /\ Init /\ RelayInit /\ D!DemoInit

ExamplesNext ==
  /\ UNCHANGED example
  /\ \/ example = "simple_pipeline" /\ Next /\ UNCHANGED <<relayVars, demoPart>>
     \/ example = "signaling_server" /\ RelayNext /\ UNCHANGED <<vars, demoPart>>
     \/ example = "video_demo" /\ D!DemoNext /\ UNCHANGED <<vars, relayVars>>

ExamplesSpec ==
  /\ ExamplesInit /\ [][ExamplesNext]_<<example, vars, relayVars, demoPart>>
  /\ RelayFairness /\ D!DemoFairness

-----------------------------------------------------------------------------
\* A connection ends the wait of main (video_demo.rs:184-196), as VideoDemo
\* states it.
ConnectionEndsWait == D!ConnectionEndsWait

\* A track the peer adds reaches the inbound task (video_demo.rs:165-173), as
\* VideoDemo states it.
TrackReachesInbound == D!TrackReachesInbound
=============================================================================

--------------------------- MODULE ActorPipeline ---------------------------
(***************************************************************************)
(* A chain of actors: a source, elements, a sink (crate aiko-pipeline,     *)
(* executor.rs) each running in the task that aiko-actor's spawn starts    *)
(* (actor.rs) with a bounded mailbox.  Actor 1 is the SourceActor, actor N *)
(* the SinkActor, the actors between them are ElementActors; the           *)
(* next_actor of a is a + 1.  Every action is what one task does between   *)
(* two awaits, so tasks interleave at every point where the scheduler may  *)
(* switch.  A frame is its position in the source's output; what an        *)
(* element computes from it keeps that number.                             *)
(***************************************************************************)
EXTENDS Naturals, Sequences

CONSTANTS
  N,            \* number of actors in the chain
  MailboxCap,   \* capacity of a mailbox (1024 in the code)
  MaxFrames,    \* bound: frames the source has to offer
  Controls,     \* the control messages the application sends
  MaxControls   \* bound: control messages it sends in a behaviour

ASSUME NAssumption == N \in Nat /\ N >= 2
ASSUME CapAssumption == MailboxCap \in Nat \ {0}
ASSUME FramesAssumption == MaxFrames \in Nat
ASSUME ControlsAssumption ==
  Controls \subseteq {"Start", "Pause", "Resume", "Stop", "Configure"}
ASSUME MaxControlsAssumption == MaxControls \in Nat

VARIABLES
  phase,         \* where the actor's task is
  box,           \* the mailbox: the queue between the ActorRefs and rx
  hand,          \* the frame an actor works on or sends, 0 if none
  running,       \* SourceActor.running
  frameCounter,  \* SourceActor.frame_counter
  controlsSent,  \* number of control messages sent, for the bound
  consumed,      \* the frames the sink has consumed, in order
  discarded      \* the frames filtered out or failed by an element or sink

vars == <<phase, box, hand, running, frameCounter, controlsSent,
          consumed, discarded>>

Actors == 1..N
Receivers == 2..N
Source == 1
Sink == N

Frame(f) == [kind |-> "ProcessFrame", frame |-> f]
Control(c) == [kind |-> c, frame |-> 0]
Message == {Frame(f) : f \in 1..MaxFrames} \cup {Control(c) : c \in Controls}

\* "starting" awaits pre_start, "receiving" awaits rx.recv(), "working"
\* awaits source.next(), element.process() or sink.consume(), "sending"
\* awaits next.send(), "stopping" awaits post_stop.  The last three are ends.
Phases == {"starting", "receiving", "working", "sending", "stopping",
           "stopped", "initfailed", "panicked"}

Ended(a) == phase[a] \in {"stopped", "initfailed", "panicked"}

\* The receiver rx lives until the task ends: also during pre_start and
\* post_stop a mailbox takes messages.
\* Deviation: an unbounded channel.
CanSendUnbounded(a) == ~Ended(a)
CanSend(a) == ~Ended(a) /\ Len(box[a]) < MailboxCap

-----------------------------------------------------------------------------
Init ==
  /\ phase = [a \in Actors |-> "starting"]
  /\ box = [a \in Actors |-> <<>>]
  /\ hand = [a \in Actors |-> 0]
  /\ running = FALSE
  /\ frameCounter = 0
  /\ controlsSent = 0
  /\ consumed = <<>>
  /\ discarded = {}

Goto(a, p) == phase' = [phase EXCEPT ![a] = p]
Put(a, m) == box' = [box EXCEPT ![a] = Append(@, m)]
Hold(a, f) == hand' = [hand EXCEPT ![a] = f]

\* The task returns or unwinds: the actor, rx and all queued messages drop.
End(a, p) ==
  /\ Goto(a, p)
  /\ box' = [box EXCEPT ![a] = <<>>]
  /\ Hold(a, 0)
  /\ UNCHANGED <<running, frameCounter, controlsSent, consumed, discarded>>

PreStart(a) ==
  /\ phase[a] = "starting"
  /\ Goto(a, "receiving")
  /\ UNCHANGED <<box, hand, running, frameCounter, controlsSent,
                 consumed, discarded>>

\* spawn has already returned Ok: nobody is told.
PreStartFails(a) == phase[a] = "starting" /\ End(a, "initfailed")

-----------------------------------------------------------------------------
\* rx.recv() yields a message of a kind in K.
Recv(a, K) ==
  /\ phase[a] = "receiving"
  /\ box[a] # <<>>
  /\ Head(box[a]).kind \in K
  /\ box' = [box EXCEPT ![a] = Tail(@)]
  /\ UNCHANGED <<frameCounter, controlsSent, consumed, discarded>>

\* spawn's loop takes Stop for itself; the Stop arms of handle never run.
\* Deviation: Stop reaches handle and the loop goes on.
TakeStopInHandle(a) == Recv(a, {"Stop"}) /\ UNCHANGED <<phase, hand, running>>
TakeStop(a) ==
  /\ Recv(a, {"Stop"})
  /\ Goto(a, "stopping")
  /\ UNCHANGED <<hand, running>>

TakeStart ==
  /\ Recv(Source, {"Start", "Resume"})
  /\ running' = TRUE
  /\ Goto(Source, "working")
  /\ UNCHANGED hand

TakePause ==
  /\ Recv(Source, {"Pause"})
  /\ running' = FALSE
  /\ UNCHANGED <<phase, hand>>

TakeFrame(a) ==
  /\ a \in Receivers
  /\ Recv(a, {"ProcessFrame"})
  /\ Hold(a, Head(box[a]).frame)
  /\ Goto(a, "working")
  /\ UNCHANGED running

Ignored(a) ==
  IF a = Source THEN {"ProcessFrame", "Configure"}
                ELSE {"Start", "Pause", "Resume", "Configure"}

TakeIgnored(a) ==
  /\ Recv(a, Ignored(a))
  /\ UNCHANGED <<phase, hand, running>>

-----------------------------------------------------------------------------
\* produce_frames runs inside handle: until it returns, no message is taken.
Yield ==
  /\ phase[Source] = "working"
  /\ running
  /\ frameCounter < MaxFrames
  /\ frameCounter' = frameCounter + 1
  /\ Hold(Source, frameCounter + 1)
  /\ Goto(Source, "sending")
  /\ UNCHANGED <<box, running, controlsSent, consumed, discarded>>

\* next() returns None or an error: the loop ends, running stays as it is.
YieldEnds ==
  /\ phase[Source] = "working"
  /\ Goto(Source, "receiving")
  /\ UNCHANGED <<box, hand, running, frameCounter, controlsSent,
                 consumed, discarded>>

Process(a) ==
  /\ a \in Receivers \ {Sink}
  /\ phase[a] = "working"
  /\ Goto(a, "sending")
  /\ UNCHANGED <<box, hand, running, frameCounter, controlsSent,
                 consumed, discarded>>

\* A filtered frame, an error of process or consume, a failed downcast.
Discard(a) ==
  /\ a \in Receivers
  /\ phase[a] = "working"
  /\ discarded' = discarded \cup {hand[a]}
  /\ Hold(a, 0)
  /\ Goto(a, "receiving")
  /\ UNCHANGED <<box, running, frameCounter, controlsSent, consumed>>

Consume ==
  /\ phase[Sink] = "working"
  /\ consumed' = Append(consumed, hand[Sink])
  /\ Hold(Sink, 0)
  /\ Goto(Sink, "receiving")
  /\ UNCHANGED <<box, running, frameCounter, controlsSent, discarded>>

\* Deviation: the frame is sent again.
SendAgain(a) ==
  /\ phase[a] = "sending"
  /\ CanSend(a + 1)
  /\ Put(a + 1, Frame(hand[a]))
  /\ UNCHANGED <<phase, hand, running, frameCounter, controlsSent,
                 consumed, discarded>>

\* next.send() waits for room; then the source goes on with its loop, an
\* element returns from handle.
Send(a) ==
  /\ phase[a] = "sending"
  /\ CanSend(a + 1)
  /\ Put(a + 1, Frame(hand[a]))
  /\ Hold(a, 0)
  /\ Goto(a, IF a = Source THEN "working" ELSE "receiving")
  /\ UNCHANGED <<running, frameCounter, controlsSent, consumed, discarded>>

\* Deviations: try_send, which gives up on a full mailbox; a send that waits
\* on although the receiver is gone.
SendGivesUp(a) ==
  /\ phase[a] = "sending"
  /\ ~CanSend(a + 1)
  /\ Hold(a, 0)
  /\ Goto(a, "receiving")
  /\ UNCHANGED <<box, running, frameCounter, controlsSent, consumed, discarded>>
SendWaits(a) == phase[a] = "sending" /\ Ended(a + 1) /\ UNCHANGED vars

\* MailboxClosed: handle returns the error, the loop logs it and goes on.
SendRefused(a) ==
  /\ phase[a] = "sending"
  /\ Ended(a + 1)
  /\ Hold(a, 0)
  /\ Goto(a, "receiving")
  /\ UNCHANGED <<box, running, frameCounter, controlsSent, consumed, discarded>>

-----------------------------------------------------------------------------
PostStop(a) == phase[a] = "stopping" /\ End(a, "stopped")

\* User code (init, next, process, consume, shutdown) panics: the task ends
\* without post_stop.
Panic(a) ==
  /\ phase[a] \in {"starting", "working", "stopping"}
  /\ End(a, "panicked")

\* The application: ActorRef::control and ActorRef::stop.
ClientSend(a, c) ==
  /\ controlsSent < MaxControls
  /\ CanSend(a)
  /\ Put(a, Control(c))
  /\ controlsSent' = controlsSent + 1
  /\ UNCHANGED <<phase, hand, running, frameCounter, consumed, discarded>>

\* Nothing is left to do: the live actors wait for messages.
Idle == \A a \in Actors : Ended(a) \/ (phase[a] = "receiving" /\ box[a] = <<>>)
Quiet == Idle /\ UNCHANGED vars

Recvs(a) ==
  \/ TakeStop(a) \/ TakeFrame(a) \/ TakeIgnored(a)
  \/ a = Source /\ (TakeStart \/ TakePause)
Works(a) == Process(a) \/ Discard(a) \/ (a = Sink /\ Consume)
Sends(a) == a # Sink /\ (Send(a) \/ SendRefused(a))
Client == \E a \in Actors, c \in Controls : ClientSend(a, c)

Next ==
  \/ \E a \in Actors :
       \/ PreStart(a) \/ PreStartFails(a)
       \/ Recvs(a) \/ Works(a) \/ Sends(a)
       \/ PostStop(a) \/ Panic(a)
  \/ Yield \/ YieldEnds
  \/ Client
  \/ Quiet

Spec == Init /\ [][Next]_vars

\* tokio runs every ready task, and init, process, consume and shutdown
\* return.  Nothing is assumed of source.next(): a source may wait for ever.
Fairness ==
  \A a \in Actors :
    /\ WF_vars(PreStart(a))
    /\ WF_vars(Recvs(a))
    /\ WF_vars(Works(a))
    /\ WF_vars(Sends(a))
    /\ WF_vars(PostStop(a))

FairSpec == Spec /\ Fairness
-----------------------------------------------------------------------------
\* The frames actor a keeps in its mailbox and in its hand.
FramesIn(s) == {s[i].frame : i \in DOMAIN s} \ {0}
At(a) == FramesIn(box[a]) \cup ({hand[a]} \ {0})
Transit == UNION {At(a) : a \in Actors}
Intact == \A a \in Receivers : ~Ended(a)
Delivered == {consumed[i] : i \in DOMAIN consumed}

\* Every variable keeps its type; no mailbox exceeds the capacity spawn gives
\* it (actor.rs:184), however many tasks send to it.
TypeOK ==
  /\ phase \in [Actors -> Phases]
  /\ box \in [Actors -> Seq(Message)]
  /\ \A a \in Actors : Len(box[a]) <= MailboxCap
  /\ hand \in [Actors -> 0..MaxFrames]
  /\ running \in BOOLEAN
  /\ frameCounter \in 0..MaxFrames
  /\ controlsSent \in 0..MaxControls
  /\ consumed \in Seq(1..MaxFrames)
  /\ discarded \subseteq 1..MaxFrames

Increasing(s) == \A i, j \in DOMAIN s : i < j => s[i] < s[j]

\* The sink consumes frames in the order the source yielded them and none
\* twice, through all mailboxes, hand-overs, refused sends and panics.
InOrder == Increasing(consumed)

\* As long as no receiving actor has ended, every frame the source counted is
\* consumed, was dropped by an element that logged it, or is on its way:
\* backpressure holds frames back and loses none.
NothingLost ==
  Intact => 1..frameCounter = Transit \cup Delivered \cup discarded

Pipe == INSTANCE FramePipe WITH
  produced <- frameCounter,
  transit <- Transit,
  delivered <- consumed,
  discarded <- discarded,
  intact <- Intact

\* The chain of actors implements the ordered pipe: each frame leaves it once,
\* oldest first, and frames are lost only where a receiving actor has ended.
ImplementsPipe == Pipe!Spec

\* No frame stays on its way for ever: a full mailbox drains, and a sender
\* blocked on an actor that ends is released (actor.rs:25-30).
EveryFrameLeaves ==
  \A f \in 1..MaxFrames : f \in Transit ~> f \notin Transit

StopQueued(a) == \E i \in DOMAIN box[a] : box[a][i].kind = "Stop"

\* A Stop in the mailbox of an element or a sink ends that actor, whatever is
\* queued before it and whether or not the actors after it are alive.
StopEndsReceiver == \A a \in Receivers : StopQueued(a) ~> Ended(a)

\* The same of the source: "Stop and shutdown gracefully"
\* (aiko-core/src/message.rs:54).
StopEndsSource == StopQueued(Source) ~> Ended(Source)
=============================================================================

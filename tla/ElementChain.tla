---------------------------- MODULE ElementChain ----------------------------
(***************************************************************************)
(* A program as the example simple_pipeline.rs: it builds a pipeline, and  *)
(* runs elements as actors that it wires by hand, as a pipeline cannot be  *)
(* run: others than those of the pipeline, or the same in the same order.  *)
(* It spawns a sink and the elements, each with the ActorRef of the next,  *)
(* sends frames to the first, rests, and stops the actors from the first   *)
(* to the last.  Frames have payloads and types here, so that what the     *)
(* actors compute together can be compared with the same elements called   *)
(* one after the other.                                                    *)
(***************************************************************************)
EXTENDS PipelineBuilder, SequencesExt

CONSTANTS
  ByHand,     \* what may be wired by hand: elements, and a sink as the last
  NumFrames,  \* frames the program sends
  MailboxCap  \* capacity of a mailbox, 1024 in the code

ASSUME ByHandAssumption ==
  \A w \in ByHand : /\ w \in Seq(Transforms \cup Sinks) /\ Len(w) > 0
                    /\ w[Len(w)] \in Sinks
                    /\ \A i \in 1..(Len(w) - 1) : w[i] \in Transforms
ASSUME ChainAssumption == NumFrames \in Nat /\ MailboxCap \in Nat \ {0}

VARIABLES
  main,      \* where the program is
  wiring,    \* the elements in the order of their actors
  sent,      \* number of frames it has sent
  stops,     \* number of Stops it has sent
  box,       \* the mailboxes
  out,       \* the frame an actor has processed and not sent yet, or none
  ended,     \* the actors that have taken their Stop
  dropped,   \* the frames that no downcast accepted
  consumed   \* the frames the sink has consumed

chainVars == <<main, wiring, sent, stops, box, out, ended, dropped, consumed>>
vars == <<builderVars, chainVars>>

SinkAt == Len(wiring)
Actors == 1..SinkAt
Stop == [type |-> "Stop"]

Init ==
  /\ BuilderInit
  /\ main = "building" /\ wiring = <<>> /\ sent = 0 /\ stops = 0
  /\ box = <<>> /\ out = <<>>
  /\ ended = {} /\ dropped = {} /\ consumed = <<>>

\* Until the actors run nothing but the builder changes.
Building == main = "building" /\ BuilderNext /\ UNCHANGED chainVars

Spawn(w) ==
  /\ main = "building"
  /\ main' = "sending"
  /\ wiring' = w
  /\ box' = [a \in 1..Len(w) |-> <<>>]
  /\ out' = [a \in 1..Len(w) |-> <<>>]
  /\ UNCHANGED <<builderVars, sent, stops, ended, dropped, consumed>>

\* The elements of a complete pipeline behind its source.
Built ==
  IF stage = "SourcedPipeline" THEN Tail(elements)
  ELSE IF stage = "InputPipeline" THEN elements
  ELSE <<>>

\* The program spawns what it likes; it does so before it builds anything, or
\* it repeats what it has built, if its frames are what the first of them takes.
ToWire ==
  IF stage = "PipelineBuilder" THEN ByHand
  ELSE {w \in {Built} : w # <<>> /\ InputType(w[1]) = "i32"}
SpawnByHand == \E w \in ToWire : Spawn(w)

HasRoom(a) == Len(box[a]) < MailboxCap
Put(a, m) == box' = [box EXCEPT ![a] = Append(@, m)]

-----------------------------------------------------------------------------
\* Frame number i of the loop in main: the stream is its own.
Frame(i) == NewFrame(i, i - 1, i - 1)

SendFrame ==
  /\ main = "sending" /\ sent < NumFrames /\ HasRoom(1)
  /\ Put(1, Frame(sent + 1))
  /\ sent' = sent + 1
  /\ UNCHANGED <<builderVars, main, wiring, stops, out, ended, dropped, consumed>>

\* The rest of 100 ms is over, whatever the actors have done by then.
Rested ==
  /\ main = "sending" /\ sent = NumFrames
  /\ main' = "stopping"
  /\ UNCHANGED <<builderVars, wiring, sent, stops, box, out, ended, dropped, consumed>>

SendStop ==
  /\ main = "stopping" /\ stops < SinkAt /\ HasRoom(stops + 1)
  /\ Put(stops + 1, Stop)
  /\ stops' = stops + 1
  /\ UNCHANGED <<builderVars, main, wiring, sent, out, ended, dropped, consumed>>

\* main returns, and the runtime drops every task, stopped or not.
Return ==
  /\ main = "stopping" /\ stops = SinkAt
  /\ main' = "returned"
  /\ UNCHANGED <<builderVars, wiring, sent, stops, box, out, ended, dropped, consumed>>

-----------------------------------------------------------------------------
Runs(a) == main \in {"sending", "stopping"} /\ a \notin ended
Take(a) ==
  /\ Runs(a) /\ out[a] = <<>> /\ box[a] # <<>>
  /\ UNCHANGED <<builderVars, main, wiring, sent, stops>>

\* handle of an ElementActor that gets a frame of its type.
HandleElement(a) ==
  /\ Take(a) /\ a # SinkAt /\ Downcasts(wiring[a], Head(box[a]))
  /\ out' = [out EXCEPT ![a] = Process(wiring[a], Head(box[a]))]
  /\ box' = [box EXCEPT ![a] = Tail(@)]
  /\ UNCHANGED <<ended, dropped, consumed>>

\* handle of the SinkActor
HandleSink ==
  /\ Take(SinkAt) /\ Downcasts(wiring[SinkAt], Head(box[SinkAt]))
  /\ consumed' = Append(consumed, Head(box[SinkAt]))
  /\ box' = [box EXCEPT ![SinkAt] = Tail(@)]
  /\ UNCHANGED <<out, ended, dropped>>

\* Type mismatch: the frame is dropped with a log entry.
Mismatch(a) ==
  /\ Take(a) /\ Head(box[a]) # Stop /\ ~Downcasts(wiring[a], Head(box[a]))
  /\ dropped' = dropped \cup {Head(box[a])}
  /\ box' = [box EXCEPT ![a] = Tail(@)]
  /\ UNCHANGED <<out, ended, consumed>>

\* Stop: the loop breaks, and what is behind it in the mailbox is lost.
End(a) ==
  /\ Take(a) /\ Head(box[a]) = Stop
  /\ ended' = ended \cup {a}
  /\ box' = [box EXCEPT ![a] = <<>>]
  /\ UNCHANGED <<out, dropped, consumed>>

\* Deviation: a full mailbox is a reason to drop the frame.
ForwardNow(a) ==
  /\ Runs(a) /\ out[a] # <<>>
  /\ IF a + 1 \notin ended /\ HasRoom(a + 1) THEN Put(a + 1, out[a][1]) ELSE UNCHANGED box
  /\ out' = [out EXCEPT ![a] = <<>>]
  /\ UNCHANGED <<builderVars, main, wiring, sent, stops, ended, dropped, consumed>>
\* next.send() waits for room; to an actor that has ended it fails, and the
\* frame is lost with a log entry.
Forward(a) ==
  /\ Runs(a) /\ out[a] # <<>>
  /\ IF a + 1 \in ended THEN UNCHANGED box
     ELSE HasRoom(a + 1) /\ Put(a + 1, out[a][1])
  /\ out' = [out EXCEPT ![a] = <<>>]
  /\ UNCHANGED <<builderVars, main, wiring, sent, stops, ended, dropped, consumed>>

\* A pipeline that is not run is dropped.
Quiet ==
  /\ main \in {"building", "returned"} /\ (main = "building" => stage \in Pipelines)
  /\ UNCHANGED vars

Next ==
  \/ Building \/ SpawnByHand
  \/ SendFrame \/ Rested \/ SendStop \/ Return
  \/ \E a \in Actors : HandleElement(a) \/ Mismatch(a) \/ End(a) \/ Forward(a)
  \/ HandleSink
  \/ Quiet

Spec == Init /\ [][Next]_vars

-----------------------------------------------------------------------------
\* Manual execution: the frames of a CounterSource, one after the other through
\* the elements; a frame that an element keeps back or cannot take goes no
\* further.
Through(w, frame) ==
  LET after[i \in 0..Len(w)] ==
        IF i = 0 THEN <<frame>>
        ELSE IF after[i - 1] = <<>> THEN <<>>
        ELSE IF ~Downcasts(w[i], after[i - 1][1]) THEN <<>>
        ELSE IF i = Len(w) THEN after[i - 1]
        ELSE Process(w[i], after[i - 1][1])
  IN after[Len(w)]

Manually(w, n) == FlattenSeq([i \in 1..n |-> Through(w, CounterFrames(0, n)[i])])

\* The same frames, whatever stream they are of.
SameBut(stream, frames) == [i \in DOMAIN frames |-> [frames[i] EXCEPT !.stream = stream]]

\* What the actors make of the frames sent so far is what the same elements,
\* called one after the other (simple_pipeline.rs:290-295), make of them, in
\* that order, under the frame ids and the stream the frames were sent with:
\* however the tasks interleave, and whoever is stopped while frames are on
\* their way, only frames at the end are missing.
ComputesInOrder ==
  /\ IsPrefix(SameBut(0, consumed), Manually(wiring, sent))
  /\ \A i \in DOMAIN consumed : consumed[i].stream = consumed[i].id + 1

Idle == \A a \in Actors : box[a] = <<>> /\ out[a] = <<>>

\* A rest that lasts until the actors are idle (simple_pipeline.rs:340) is long
\* enough: of what was sent nothing is missing then, whatever the mailboxes
\* hold and whoever had to wait for room.
CompleteWhenIdle ==
  main # "building" /\ Idle /\ stops = 0
    => SameBut(0, consumed) = Manually(wiring, sent)

\* "It is impossible to wire together pipeline elements with incompatible
\* types" (README.md:190), for actors wired by hand as the builder accepted
\* them: they never drop a frame for its type (executor.rs:188-193).
BuiltNeverMismatch == wiring = Built => dropped = {}
=============================================================================

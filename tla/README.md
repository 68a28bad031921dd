# A TLA+ model of aiko-rs

aiko-rs is a Rust workspace for pipelines of typed stream elements that run as
actors, with MQTT and WebRTC as transports. This directory holds TLA+ modules
for the parts of it in which something can go wrong in an order nobody wrote a
test for, TLC configurations that check them on small instances, and proofs,
checked by TLAPS, of the properties that matter most.

`MODULE.tla` is a model, `MCMODULE.tla` gives model values to its constants,
`MODULE_proofs.tla` holds its theorems. `PROJECT.json` maps every definition to
the source lines it stands for and lists the runs, the deviations that break
each property, the hazards, the findings and the theorems.

To check: `tlc -config ActorPipeline.cfg ActorPipeline` and so on (the table of
runs names module and configuration), `tlapm ActorPipeline_proofs.tla` and so on.
Definitions that a comment calls a *Deviation* belong to no specification: each is the
mutated form of the definition below it, and shows that a property notices it.

## The system

| Component (crate, file) | State | Operations | Talks to |
|---|---|---|---|
| Actor runtime (`aiko-actor/actor.rs`, `aiko-core/message.rs`) | per actor: a bounded mailbox of 1024, the actor, its context | `spawn`, `ActorRef::send/control/stop`, the receive loop, `pre_start`, `post_stop` | one tokio task per actor; mailboxes |
| Pipeline executor (`aiko-pipeline/executor.rs`, `aiko-core/element.rs`) | `running`, `frame_counter`, the element, `next_actor` | `handle` of source, element and sink; `produce_frames` | the next actor's mailbox, awaited inside `handle` |
| Actor registry (`aiko-actor/registry.rs`) | two concurrent maps, `by_id` and `by_name` | `register`, `unregister`, `unregister_by_name`, look-ups | any thread |
| WebRTC event loop (`aiko-webrtc/transport.rs`, `reconnect.rs`, `peer.rs`) | `ReconnectState`, the grace deadline, peer state, a broadcast channel of 256 events | `run_with_shutdown` (five `select!` arms), `attempt_reconnect` | peer callbacks, signaling, the application's watch channel |
| Negotiation (`transport.rs`, `signaling.rs`) | local and remote description, the channel of ICE candidates | `send_offer`, the Offer, Answer and IceCandidate arms | the other peer's event loop, through a signaling service |
| H.264 depacketizer (`pipeline/h264.rs`) | `fua_buffer`, `fua_active` | `process_rtp` | RTP packets from `read_rtp` |
| Data channels, tracks (`transport.rs`, `media.rs`) | a concurrent map of channels | `open_channel`, `send`, `send_raw`, callbacks | peer callbacks and application threads |
| MQTT client (`aiko-mqtt/client.rs`) | the `connected` flag, a broadcast channel of 1024 messages | `subscribe`, `publish`, `disconnect`, the two event loops | rumqttc's request channel and event loop, the broker |
| MQTT topics (`topics.rs`) | none | `TopicBuilder`, `TopicMatcher` | names chosen by the application |
| Frames and elements (`aiko-core/frame.rs`, `element.rs`) | a frame: stream, id, payload | `Frame::map`, downcast, the closure elements | every actor of a pipeline |
| Pipeline builder (`aiko-pipeline/builder.rs`) | its type parameter | `source`, `input`, `then`, `sink`, `build` | the compiler |
| Example `simple_pipeline.rs` | mailboxes of the actors it wires | manual execution; actors, frames, a rest, stops | builder, elements, actor runtime |
| Media frames (`aiko-core/media.rs`) | width, height, data | sizes and planes in u32, `new`, `from_raw` | video and audio elements |
| Video and audio elements (`aiko-webrtc/pipeline/*_source.rs`, `*_sink.rs`) | encoder or decoder, frame counter, track | `init`, `next`, `consume`, `shutdown` | tracks, foreign codecs |
| Signaling relay (`examples/signaling_server.rs`, `signaling.rs`) | two websockets, two relay tasks | accept, relay, `select!`; `connect`, `send`, `recv` | the two event loops that negotiate |
| Example `video_demo.rs` | two event receivers, a channel of one track | `main`, the forwarder, the inbound task | the transport's broadcast channel, video elements |
| Envelopes and codecs (`codec.rs` of three crates) | none | a record in bytes, a type tag | transports |

What is hard about each, and what makes it correct:

- **Actors and pipelines.** Every actor is a task; a send waits for room in the
  next mailbox *inside* `handle`, so a slow sink stops a whole chain, and a
  chain must come free again when the sink drains or ends. Actors may fail in
  `pre_start` (after `spawn` has returned `Ok`), panic, or be stopped, while
  frames are in their mailboxes. Correct means: frames arrive in order and
  once, none is lost while the actors live, nothing waits for ever, `Stop`
  ends an actor.
- **Registry.** Each map operation is atomic and a registry operation is two of
  them. Correct means: an operation that no other one on the same name overlaps takes
  effect in both maps.
- **WebRTC event loop.** It learns of a connection's state only through a
  lossy broadcast channel, has a grace timer and a backoff during which it
  serves nothing. Correct means: attempts are counted and announced
  properly, no attempt is made on a connection that has recovered, a
  failure is retried or given up, shutdown and the end of signaling are not missed.
- **Negotiation.** Two loops, messages in flight in both directions, a callback
  that finds candidates at any time. Correct means: candidates come after the
  description they belong to, the two ends agree on one session, a restart that
  nothing crosses completes.
- **H.264.** Packets are lost and overtake each other. Correct means: what the
  decoder is given is made of whole units, in order.
- **MQTT.** The client reconnects by itself; flag, subscriptions and
  application must not drift apart.
- **Data channels.** A channel is announced by a callback and found in a map.
- **Topics.** A topic that was built is parsed into what it was built from.
- **Builder and elements.** The builder checks types and runs nothing; actors are wired by
  hand and check types as frames arrive. Correct means: what the builder accepts never
  mismatches, and actors compute what the elements compute when called one by one, however
  tasks interleave and whenever they are stopped.
- **Media.** Products in u32 that wrap, divisions that round, a clock told in whole
  milliseconds, three ideas of rate and channels, samples lost and frames refused. Correct
  means: planes lie in the data, sound lasts as long as it lasted, keyframes keep coming.
- **Relay and demo.** Tasks that end each other through `select!`, detached tasks, an event
  that comes before anyone waits for it. Correct means: messages pass whole and in order, the
  next pair is served, neither the connection nor the track is missed.

## The modules

### FramePipe and ActorPipeline

`FramePipe` is what a chain of actors promises: an ordered pipe that delivers
frames oldest first, may discard single frames on purpose (a filter, an element
error) and loses frames only once a receiving stage has ended.

`ActorPipeline` is a chain of N actors: `SourceActor`, any number of
`ElementActor`s, `SinkActor`, each in the task that `spawn` starts. An action
is what a task does between two awaits; `phase` says at which await it is:
`pre_start`, `rx.recv()`, the user's `next/process/consume`, `next.send()`,
`post_stop`. `Recv` with `TakeStop`, `TakeStart`, `TakePause`, `TakeFrame`
and `TakeIgnored` are the message loop and the arms of the three `handle`s;
`Yield` and `YieldEnds` are `produce_frames`, which runs inside `handle`;
`Send` and `SendRefused` are `ActorRef::send` of the next actor, which waits
for room or returns `MailboxClosed`; `End` drops a task with everything that is
in its mailbox. A frame is its number in the source's output. What an element
computes is left out; that it may filter, fail or be given a frame of the wrong
type is `Discard`. `System` messages are left out: the loop and every `handle`
treat them as they treat an ignored control message.

A `ProcessFrame` in the mailbox of the source never happens: the
chain has no cycle. It is in `Ignored(Source)` because the code ignores it.

### ActorRegistry

`by_id` and `by_name` with each registry operation as its two map
operations; `call` remembers which half a thread still has to do. Any thread may
operate on any actor and actors may share names, since nothing in the code prevents
either. Where operations on one name overlap, the maps can be left apart; so the model
remembers which operations were overlapped (`crossed`) and, for each name, the latest
operation if it was not (`last`), and `MapsAgree` is about the effect of those.

### WebRtcEventLoop

`run_with_shutdown` with every `select!` arm and the `ReconnectState`, beside
the callback that writes the peer's state and broadcasts it. `queue` and
`lagged` are the loop's receiver of the broadcast channel: a full channel
drops its oldest event, and the loop finds out through `Err(Lagged)`, which it
ignores. `task = "backoff"` is the sleep of `wait_and_advance`, which is
awaited inside an arm, so nothing else is served. `log` holds what the
application hears of the attempts since the last recovery. `missed` remembers that the
channel has dropped the last Connected. Delays are whole numbers, and `Scaled`, any function
on them, stands for the product by a float and its conversion; the first delay is
`InitialDelay` whether or not it exceeds `MaxDelay`, as in the code, and `MCWebRtcEventLoop`
has a multiplier of 2 and one of 0.7. How peer states follow
one another is the webrtc crate's business: `Follows` states what its
documentation and callbacks allow.

### Negotiation

Two such loops and what they say to each other: offers and answers (known by the
offer they belong to) and candidates, over FIFO wires as the relay in
`examples/signaling_server.rs` provides them. `CreateOffer` and
`SendDescription` are `send_offer`; `HandleOffer`, `HandleAnswer` and
`HandleCandidate` the three arms. A loop may return for two reasons: a message that its
connection refuses in the state it is in, or that cannot be sent any more, makes it `"failed"`;
a call that fails for a reason of its own (a description that cannot be parsed, no answer that
can be made or set, an offer that cannot be created, an error of `recv`) makes it `"broken"`,
in any arm (`Break`, `OfferFails`, `SignalFails`). A send is assumed to fail only when the
other loop is gone. `Gather` is the callback that puts candidates into `ice_rx`,
`ForwardCandidate` the arm that sends them. `Attempt` stands for the
reconnection attempts of `WebRtcEventLoop`, at any time. The signaling state of the
connection is WebRTC's: an offer is refused unless the connection is stable, an
answer unless an offer is open.

### H264Depacketizer

`process_rtp` for single units, fragments (FU-A), aggregates (STAP-A) and
unusable payloads, behind a sender and a network that loses packets and lets a
packet overtake up to `Window` others. A fragment is known by its unit and
its position; `out` is all that has been returned, `sent` and `lost` are the parts that were
sent and those the network has lost, so that what is missing in a unit can be told from what
the depacketizer itself has dropped or joined. `overtaken` remembers whether a
packet has overtaken another: order and completeness are claimed only while none has.

### DataChannels

The concurrent map of a `WebRtcTransport` from labels to channels, and the
runtime under it. A look-up in `send` returns a guard that locks a shard of the
map for reading until `send` returns, over its await; `insert`, in the callback
and in `open_channel`, blocks the *thread* until it can lock the shard for
writing. So the model has worker threads: a task between two awaits is `Busy`
and occupies one, a task that awaits `dc.send` occupies none but needs one to go on.
`OpenChannel`, `ChannelArrives` and `Announce` are what the two inserting
functions do before `Insert`; `Unblock` is the rest of an insert that had to wait.
`WorkersHeld` is the state in which every worker is held by an insert that waits for a
guard, and so no send can go on and drop one.

### Topics and MqttLink

`Topics` writes `TopicBuilder` and `TopicMatcher::parse` as operators on sequences
of levels. An identifier or a namespace is a sequence too, because nothing keeps
an application from putting a `/` into one.

`MqttLink` is `MqttTransport`, `MqttEventLoop::run_with_shutdown` and, external,
what `rumqttc::EventLoop::poll` (0.24) does between them: it connects, takes
requests out of the bounded channel, hands over packets, and on an error drops the
connection and keeps the requests aside (`pending`). `loop` is `"polling"` when
`select!` begins and `"waiting"` once the task is parked with the poll alive; a
connection takes several wake-ups, so it is made only from `"waiting"`. That is
what `ShutdownChanged` interrupts: its arm drops the poll, with a value of `false` once,
with a dropped sender at every round. The signal is a watch channel, so a `true` that the loop
has not seen may be replaced by a `false` (`Signal`), which `ShutdownEnds` excepts. `Handles` and the arms named after it are the match
on what poll returned. `run` is the same loop without the second arm.

### Elements, PipelineBuilder and ElementChain

`Elements` has the traits' associated types, `Frame::map` and the elements of
`simple_pipeline.rs` as operators on frames with stream, id, payload type and value.
`PipelineBuilder` is the type-state builder: its Rust types are `stage`, its type parameter is
`current`, and the bounds of `then` and `sink`, which the compiler checks, are guards.
`ElementChain` composes the two with the actors of the example: `Building` is the builder;
what it builds carries names only and nothing runs it, so the program wires its actors by hand
(`SpawnByHand`), before it builds anything, whatever the types, or repeating what it has
built; `SendFrame`, `Rested`, `SendStop`, `Return` are `main`, and
`HandleElement`, `HandleSink`, `Mismatch`, `Forward`, `End` the actors. `ActorPipeline` has
the actors' life in detail and frames without contents; `ElementChain` has the contents and
an actor that runs or has ended. `Through` and `Manually` are the example's first half, the
elements called one after the other: the reference the actors are compared with.

### VideoPath, AudioPath, VideoFrames

`VideoPath` is `WebRtcVideoSink::consume` on one end of a track and `WebRtcVideoSource::next`
and `shutdown` on the other. The codec is external and known by what the properties need: the
encoder numbers the frames it encodes, starts with a keyframe, encodes one when told to, and
may leave a frame out but not a keyframe; the decoder decodes a keyframe, or the
frame after the last one it has decoded. The five ways in which `consume` can come out
are five actions: written, left out by the encoder, not encoded, not written, and a panic, on a
frame that is not I420 or with `fps = 0`. `frame_count` advances in the first two.

`AudioPath` is the same for sound: `init`, the lazy encoder, `consume` with its refusals and
panics (`RefuseFrame`, `PanicOn`), and the source's `next`. What is modelled are durations:
what the encoder makes of the samples, what the track is told, what the source returns. Time
is counted in half milliseconds because an Opus frame may take 2.5 ms.

`VideoFrames` is the arithmetic of I420 frames: sizes, planes and the bytes that three
makers write: `VideoFrame::new`, the copy out of the decoder's strides, the painted
bars of the demo. `Modulus` is 2^32 in the code; a product that does not fit wraps or
panics, as the build has it.

`MCMedia` runs one of these or `H264Depacketizer` in each behaviour: they share no state.

### SignalingRelay and VideoDemo

`SignalingRelay` is `examples/signaling_server.rs` and the client of `signaling.rs`. `up` is
what a client has sent and the server has not read, `down` what the server has written to it;
`tasks` are the relay tasks that run, `over` those whose end is dropped. `SessionEnds` is
`select!`: it returns with the first task and leaves the other detached. A write to a client
whose end is not known yet succeeds and is lost (`RelayLost`), later it fails
(`RelayFails`). `RelaysEveryMessage` is a refinement: the way from each client to its
partner implements `FramePipe`, the pipe that a chain of actors implements too.

`VideoDemo` is `main`, the forwarder and the inbound task of `examples/video_demo.rs` with the
broadcast channel they read: `log` is all events since `subscribe_events`, a receiver is its
place in the log, and one that is more than `EventsKept` behind has lagged.

`MCExamples` runs one of `ElementChain`, `SignalingRelay` and `VideoDemo` in each behaviour.

## What the runs show

| Run | Module, configuration | Bounds | Shows |
|---|---|---|---|
| pipeline | ActorPipeline | 3 actors, mailboxes of 2, 3 frames, 3 of Start, Stop, Pause | frames stay in order (`InOrder`), none is lost while the receivers live (`NothingLost`), the chain implements `FramePipe`, every frame leaves the chain, a `Stop` ends the actor it is sent to |
| source_stop | ActorPipeline, SourceStop | 2 actors | finding 1 |
| registry | MCActorRegistry, ActorRegistry | 3 actors, 2 of one name, 3 threads on any of them | what nothing on the same name overlaps takes effect in both maps and stays, whatever races have left there |
| event_loop | MCWebRtcEventLoop, WebRtcEventLoop | 2 attempts, delays 5, 3, 2 with a maximum of 3, an event channel of 2, 8 peer events | announcements and delays are right; an attempt has a cause, and on a peer that has recovered it needs a Connected that is unread or was dropped; shutdown and the end of signaling end the loop |
| failure_resolved | MCWebRtcEventLoop, FailureResolved | 4 peer events | finding 2 |
| negotiation | MCNegotiation, Negotiation | both restart twice, 2 candidates | candidates follow their description; loops that survive agree; a restart of one side alone is refused nowhere; in the end the loops agree or both have returned, whatever was refused and whichever call failed |
| glare | MCNegotiation, Glare | both restart once | finding 3 |
| channels | MCDataChannels, DataChannels | 3 labels in 2 shards, 2 senders, 2 inserting tasks, 2 workers | an announced channel is filed or about to be; inserts end, unless they hold all the workers |
| mqtt | MCMqttLink, MqttLink | a caller with 2 calls, a channel of 1, 2 connections, 2 shutdown values | the flag follows the connection while the loop polls; topics are parsed as built; shutdown ends the loop, calls return, the loop connects again |
| mqtt_disconnect | MCMqttLink, Disconnect | 1 call | finding 4 |
| media | MCMedia, Media | 3 units of 3 fragments, loss, a window of 1; 8 video frames, a keyframe every 3; 3 frames of sound out of 11 kinds; sides up to 16, products that wrap at 110 | H.264: what is returned starts and ends as a unit does; without overtaking it is in order, misses nothing inside but what the network has lost, and a unit whose fragments all arrive is returned whole. Video: keyframes keep coming and the source can decode again within an interval. Sound: the track keeps time, what is returned lasts as long as what was decoded. Frames: planes lie in the data, and what is copied or painted fills them |
| examples | MCExamples, Examples | 2 elements and a sink, 3 frames, mailboxes of 2; 3 clients of 2 messages; 4 events of which 2 are kept | actors compute what the elements compute, complete once idle; what the builder accepts never mismatches; the relay is a pipe, serves the next pair, and tells a client that sends to nobody; the demo misses neither connection nor track |

Why the bounds are enough. *Pipeline*: three actors have all three roles; a
mailbox of two can be empty, partly filled and full; three frames fill a
mailbox and a hand behind it; three controls can start, pause and stop, or stop
every actor. The theorems hold for every bound. *Registry*: two threads can overlap on a
name that two actors share while the third works on another one, or on the same.
*Event loop*: an event channel of two overflows and drops a Connected, eight events reach two
failures beyond the last attempt and a recovery; the first delay is above the maximum, the
second at it and the third below. *Negotiation*: two restarts on each side give crossing
offers, an answer to an offer that has been replaced, and a candidate behind each.
*H.264*: three fragments have a first, a middle and a last; a unit may be cut off
by the start of another, by a single packet, by an aggregate or by a loss, and
three units leave room for a whole one before and after it.
*Channels*: two labels share a shard, so a send on one blocks an insert of the
other; two sends can keep one insert waiting, one after the other; one blocked insert leaves a
worker for everything else, two leave none. *MQTT*: with a
channel of one the second call waits; two connections show what a break leaves
behind for the next; two signals are `false` and then `true`, the other way round, or a drop.
*Video*: eight frames hold two intervals and a failure in each place.
*Sound*: the frames cover both ends of the rates, mono and stereo, a length that is rounded,
and each reason for which a frame is refused or panics; three of them give an encoder made by
`init`, by the first frame, and by neither. *Frames*: sides of each remainder
by two and four, a width below eight, and products on both sides of 110, one of which wraps
to less than a plane. *Elements*: two elements give every pair of a filter, a map and a change of
type, matching or not; with mailboxes of two and three frames every actor has to wait for
room. *Relay*: three clients are a pair and the one that comes after; two messages can be in
order or not. *Demo*: four events make a receiver lag that keeps two.

## Fairness

- *ActorPipeline*: tokio runs every task that is ready, and the user's `init`,
  `process`, `consume` and `shutdown` return; weak fairness of each of an actor's steps says no
  more. `source.next()` is assumed nothing of: a source may wait for ever.
- *WebRtcEventLoop*: the task runs when it is ready and sleeps end (weak).
  `select!` without `biased` polls its arms in random order, so an arm that is
  ready again and again is taken (strong, for the arms). Nothing is assumed of the
  peer, the signaling service or the application.
- *Negotiation*: a loop that has something to do does it (weak); its attempts
  and candidates are finite, so each message gets its turn. That a loop hears of the other's
  end is the service's part: the relay of the examples tells it only when it sends next
  (`SenderHears`), and `recv` of a loop that sends nothing may wait for ever there.
- *DataChannels*: the runtime runs a ready task when a worker is free, the association
  drains what `dc.send` waits for, a writer is woken when the last reader has left (weak).
  That an insert ends needs sends to be finitely many, as they are here: the map's lock lets
  readers in while a writer waits, so an application that always has a send under way can
  keep an insert, and its thread, waiting.
- *MqttLink*: handlers run and sleeps end (weak). `select!` without `biased` picks a ready
  arm again and again (strong, for the shutdown arm and the sending of requests). The
  broker can be reached again and again and closes what it was told to close (strong): a
  client whose broker stays away does not connect, and its calls wait.
- *SignalingRelay*: the server's tasks run when they can and a client takes what has arrived
  (weak). Nothing is assumed of who connects, sends or leaves, nor of the handshake.
- *VideoDemo*: the program's tasks run when they can (weak). Nothing is assumed of the peer;
  neither the event loop nor the streaming has to end.
- *ActorRegistry*, *ElementChain* and everything in `MCMedia`: safety only.

## What is proved

TLC shows a property on the instances above; the theorems show it for every
value of the constants that meets the assumptions named in the modules.

- `ActorPipeline_proofs`. `TypeCorrect`: the types and that no mailbox exceeds
  its capacity. `FramesInOrder`: `InOrder` is not inductive, because it says
  nothing of frames that are not consumed yet. The invariant `IInv` adds that
  the frames in each mailbox increase (`InBoxes`) and that all frames of an actor
  are younger than those of every actor after it, and than those consumed (`Ordered`).
  The proof of the step reduces the many actions to the six ways in which a
  frame can move (`Moves`: it enters, is forwarded, arrives, is discarded, is
  refused, or its actor ends), so that order is argued once per move and not once per
  action. `NoFrameLost` and `Refinement` (every step of the chain is a step or a
  stutter of `FramePipe`) use the same invariant and the same moves.
- `ActorRegistry_proofs`. `MapsAlwaysAgree`, for any threads, actors and names. The
  invariant adds that two operations under way on one name are marked as overlapping
  (`Overlap`), that nobody is in the middle of another one on a name whose latest operation is
  remembered (`Remembered`), what the maps hold halfway through an operation that was not
  overlapped (`Halfway`), and that a name leads only to actors of that name (`NameFiled`).
  Each operation is argued as two halves (`BeginKeeps`, `ReturnKeeps`).
- `WebRtcEventLoop_proofs`. `AnnouncementsInOrder`, for every strategy: the
  invariant relates the attempt counter to the announcements made
  (`AttemptAgainstLog`). `AttemptsHaveCause`, an action property: no attempt starts
  unless a Disconnected or Failed was handled after the last Connected, nor on a peer that is
  connected but for a Connected that is unread or was dropped. Its
  invariant is that a set grace deadline has such a cause (`GraceHasCause`) and that the loop
  of a connected peer has the news behind it or before it, with no failure after it, or the
  channel has dropped it (`NewsInv`, `Told`). `DelaysFollow`,
  for any initial and greatest delay in either order and any effect of the multiplier: the delay
  at hand is an iterate (`DelayBefore`), and a backoff has an attempt under way
  (`DelayInv`). The iterates are a recursive function; that its definition has a solution
  (`Recursion`) is proved by induction from a least counterexample (`Induction`), which needs no
  theorem with an operator as its parameter.

- `DataChannels_proofs`. `AnnouncedAreAtHand`, for any number of tasks, labels, shards and
  workers; the invariant adds the types and that a task that is not idle has a channel in
  hand (`InHand`). `WorkersSuffice`: with one worker more than there are inserting tasks the
  state `WorkersHeld`, which `ChannelsAreFiled` excepts, is not reached, because a sender is
  never on a worker between two awaits (`SendersWait`).
- `Media_proofs`. `PlanesAreInside`, for every width, height and modulus: a frame whose
  maker has not panicked has the length of its format (`Sized`), and three planes of which two
  are rounded down fit into one and a half that is rounded down once (`PlanesFit`).
  `KeyframesKeep`, for every interval but zero: that at most an interval
  passes is not inductive; the invariant bounds the frames since a keyframe by the remainder of
  `frame_count` (and by the interval where the remainder is zero), and the proof needs what the
  next remainder is (`NextRemainder`), derived from division. `SourceResyncs`: that
  few samples are read in vain depends on what is still in the network, so the invariant is
  about both (`Undecoded`): no run of consecutive samples in it is as long as the interval, and
  one that reaches the last frame encoded is no longer than the sink has counted (`ResyncInv`).
  `FramesAreMeasured`: two even sides make a product divisible by four, so that nothing is cut
  off, and the rows of the planes tile the data. `TrackIsOnTime` and `SoundIsKept`, for any
  rates and channels: the invariant (`SoundInv`) is the two equations with the types; they hold
  of each packet because a packet has one of six lengths and each of five rates makes whole
  numbers of samples of it. The depacketizer, for any number of units, fragments and packets
  under way: `UnitsInOrder` adds to the order of what was returned that the buffer, what has
  arrived and what is still on its way come after it (`Ordered`). `UnitsAreHeldTogether` says
  of the buffer that it is empty or begins with a header (`Begun`), that every part sent is
  lost, has arrived or is on its way (`Accounted`), and that nothing but what is lost lies
  between two neighbours in the buffer, nor has anything arrived behind its last one
  (`Filling`): so what the next packet is put behind leaves no hole of the
  depacketizer's own. `IntactUnitsAreReturned`:
  if the fragments of a unit up to the one expected next have arrived, the buffer is exactly
  those (`Reassembled`), since what ends a reassembly keeps its place among the fragments
  (`Aligned`), and so a unit is returned with its last one (`Recovered`).
- `Negotiation_proofs`. `CandidatesAreLate`: a candidate is taken with a remote description in
  place because of what precedes it, so the invariant is about the wires. Until a loop has a
  remote description or has returned, the oldest message to it is a description, and there is
  one if the other has a local description and is not about to send it (`Waits`); and who has
  candidates to forward has a local description (`HasLocal`). `SessionsAreAgreed`: an answer is
  set on whatever offer is open, never compared with it, so two loops could each end up with the
  wrong half. The invariant (`Agreeing`) speaks of the descriptions that are on their way to
  a peer or about to be sent (`Coming`) and says that, while both loops run, the negotiation is
  in one of six states (`Harmony`): settled, crossed, offered, answered, renewed, or with more
  answers to come than offers are open (`Surplus`), from which it can only end with a loop that
  fails. `OneOffererSurvives` assumes `Offerers # Peers`, since two
  offerers end each other's loops from the start; while the offerer has restarted once at most
  and no call has failed for a reason of its own, the negotiation is in three of those states
  only (`Modest`).
- `MqttLink_proofs`. `FlagIsRight`: `FlagFollows` speaks of the polling loop; the invariant adds,
  for each place of the loop and each event at hand, how far the flag may be behind.
  `TopicsParseBack` assumes that the namespace has one level, and not a wildcard (`OneLevel`):
  `parse` compares one level of the topic with the whole namespace (topics.rs:111-117).
  Its invariant (`Carried`) says where messages come from; the rest is that a topic has five
  levels in a known order (`FiveLevels`) and that the kinds differ in two of them (`KindsDiffer`).
- `Examples_proofs`. `BuilderIsSound`: the invariant follows the builder's type parameter
  through its stages (`BuilderTyped`) and the types of the frames through the mailboxes
  (`ChainTyped`), for any number of elements and frames and any capacity.
  `OrderIsKept` and `RestIsEnough`: `At[n]` is what has become of the n-th frame behind a number
  of elements, `Up[n]` what has become of the first n. The invariant (`Flowing`, `FlowInv`) says
  that there are two numbers for each actor, of the frames that have come to it or never will and
  of those it has taken, such that what is in its mailbox before a Stop, and in its hand, is what
  has become of the frames between (`Accounted`). An actor whose Stop was sent counts only what
  is before it, and the Stops go from the first actor to the last: so what is lost is behind
  everything that still arrives. The manual execution of the same elements gives
  the same frames under another stream (`ManuallyIs`), since no element looks at the stream.
  Both are definitions by recursion: that they have a solution, and what it is, is proved from
  the least counterexample (`Least`, `Induction`, `Recursion`), for sequences of any length.
  `RelayIsPipe`,
  for any clients and number of messages: for each sender the relay is a `FramePipe` to its
  partner. The invariant says that partners are each other's, that who has none has no relay task
  and is told nothing (`Paired`), and that the messages past the server come before those it has
  not read (`InTurn`); each step leaves the pipe as it is, loses, produces or delivers.

The other assumptions are those the modules name, for instance that the keyframe interval
is not zero (`VideoAssumption`; video_sink.rs:115 divides by it), and types of constants
(`AudioAssumption`, `MessagesAssumption`, `ClientsAssumption`, `ByHandAssumption`).

Only model-checked: every liveness property (`EveryFrameLeaves`,
`StopEndsReceiver`, `ShutdownEnds`, `SignalingCloseEnds`,
`NegotiationCompletes`, `ChannelsAreFiled`, `Reconnects`, `CallsReturn`,
`ServesAgain`, `SenderHears`, `ConnectionEndsWait`, `TrackReachesInbound`), which rest on
fairness. Every safety invariant of the passing runs has a theorem.

## Findings

1. *A producing source does not look at Stop.* `produce_frames` runs inside
   `handle` (executor.rs:65); Stop, Pause and Configure wait in the mailbox
   until the source's output ends. `message.rs:54` says "Stop and shutdown gracefully."
2. *A failed restart is not retried.* When the offer of an attempt is lost or not
   answered the peer reports no new state, and the loop starts no further attempt and
   announces no `ReconnectFailed`; `transport.rs:480-481` says the loop "will try again on
   the next Failed/Disconnected event", and there is none.
3. *Restart offers cross.* Both roles send offers in `attempt_reconnect`; when both
   notice the failure, each refuses the other's offer with an error that ends the loop,
   without `close()`. A connection that breaks is usually noticed at both ends.
4. *A disconnect does not last.* `disconnect()` queues a Disconnect packet; the broker
   closes the connection, the loop takes that for an error, pauses 100 ms and connects
   again. `client.rs:206` says "Disconnect from the broker."

What the models show besides, by changing a configuration or in a property's exceptions:

- *The registry's maps can disagree* when two threads operate on one name: an
  `unregister` between the two inserts of a `register` leaves a name that leads to
  an unregistered actor for ever. `MapsAgree` speaks only of what was not overlapped. Of two
  actors that share a name the name leads to the last one registered, and removing either
  removes it.
- *An attempt can start on a peer that has recovered*, while the Connected that says so is
  unread or after the channel has dropped it. `AttemptHasCause` excepts exactly that.
- *A lost fragment is not noticed* by the depacketizer: fragments are appended without a look
  at the RTP sequence number, and the unit is returned with a hole, or joined with the end of a
  later one. This is why `UnitsHoldTogether` allows what the network has lost to be missing, and
  claims only the two ends of a unit once a packet has overtaken another.
- *A runtime with too few threads can stop* in the data channels: inserts that wait for
  a guard can hold every worker, and the send that holds the guard then waits for a
  worker for ever. The run reaches this state, which `ChannelsAreFiled` excepts
  (`WorkersHeld`); `WorkersSuffice` says how many workers exclude it.
- *Two attempts in a row of one peer* end its loop too: the answer to the offer that was
  replaced is accepted as the answer to the new one, and the right one is then refused.
- *A dropped shutdown sender keeps the MQTT client from connecting*: `changed()` is then
  always ready, each round drops the poll, and the task spins. `Reconnects` and
  `CallsReturn` except it.
- *The flag outlives the loop*: after shutdown nothing clears `connected`, and `FlagFollows`
  is claimed only while the loop polls. Receivers of `subscribe_messages` wait for ever
  then, since the transport itself holds a sender.
- *The first keyframe can be missed*: if the first sample cannot be written, `frame_count`
  stays 0 and no keyframe is forced until it has reached the interval. This is why
  `KeyframesKeepComing` says `<= Interval` and not `<`.

- *A wiring by hand can mismatch.* "It is impossible to wire together pipeline elements with
  incompatible types" (README.md:190) is true of what the builder accepts, also where the
  program repeats it by hand (`BuiltNeverMismatch`). A built pipeline has no way to run, though: actors are wired by hand,
  nothing compares their types, and a mismatched frame is dropped with a log entry
  (executor.rs:188, 277).
- *The silent partner of a client that has left is never told*, since its relay task waits for
  its own client; `SenderHears` is claimed for clients that send. A first client that has left
  before the second comes is paired with it all the same, and a handshake that fails ends the
  server (signaling_server.rs:25-30). The server closes without a Close frame, so that a client
  reads an error and not the end.
- *The demo can wait for ever* (video_demo.rs:184): when the event loop ends or the peer fails
  without a connection, no event ends the wait. If events come faster than they are read, `main`
  returns an error or the forwarder ends; a second track of any kind is not
  distinguished from the first.
- *A frame of 2.5 ms costs the track half a millisecond* (audio_sink.rs:187 tells it whole
  milliseconds), and the encoder's rate and channels are never compared with the frame's:
  `TrackKeepsTime` is claimed when they agree, up to the short frames. A first frame that is
  refused leaves its parameters in the encoder (audio_sink.rs:153-173). An odd number of bytes
  panics (217), and so does a rate of zero (188).
- *A frame that is made may have panicked instead*: a width below eight divides by zero in the
  demo's bars, and for odd sides the length the source copies need not be that of the format, on
  which `from_raw` insists. H.264 gives even sides, which is what `CopyDecoded` assumes.
- *An interval of zero keyframes* divides by zero (video_sink.rs:115); the configuration accepts it.

Smaller disagreements met while reading, which no run is spent on: STAP-A packets
return all their units joined (h264.rs:74), not "the first NAL unit" (h264.rs:40);
`create_offer(None)` (peer.rs:84) does not ask for an ICE restart although
`attempt_reconnect` calls it one; `close()` is skipped whenever the loop returns an
error (transport.rs:391); `ordered_channels` is not used when a channel is
opened; the default role is `Offerer`, so two peers with the default configuration
both offer; with the default `clean_session` the broker forgets the subscriptions at every
reconnection, and the client does not repeat them; `subscribe` logs "Subscribed" once the
request is queued; a namespace with a `/` is built into topics that `parse` refuses;
1000 / fps is rounded down, so 30 frames of video last 990 ms; the executor initialises
every sink with its default configuration, so an audio sink encodes 48 kHz stereo whatever
its frames hold; an `InputPipeline` carries the type its sink takes as its parameter and not the
type of its input (builder.rs:158, 238-239); a `serde_json::Value` put into an envelope by
bincode cannot be read back (codec.rs:183-185); `data_channel.rs` expects signaling on port 8080
and the relay listens on 9001.

## Not modelled, and why

- Children lists, `SupervisionAction`, `FunctionActor`: nothing in the code acts on them.
- `SyncExecutor`: calls the elements one after the other, as `Through` does.
- Envelopes and codecs: a record put into bytes by bincode and one comparison of a tag; no state.
- openh264, audiopus, webrtc, rumqttc: foreign code, known by what their callers rely on.
- Pixel formats but I420, and colours: nothing computes with them.
- Incoming messages of data channels and `add_local_track`: broadcast as they come, or kept
  nowhere.
- Retransmission inside rumqttc, quality of service, and what the application does with a
  lagging broadcast receiver (but for the demo's two).
- Subscriptions forgotten by the broker and the missing `close()` (two of the listed hazards):
  the code does nothing about either, so there is no behaviour to state a property of; the
  models contain both (`Connects` may empty `session`, a loop may end with its peer open).
- Example `data_channel.rs`: the calls of `DataChannels`, at fixed times.

## Plan

Done, in this order: `FramePipe` and `ActorPipeline` with proofs; `ActorRegistry` with its
proof; `WebRtcEventLoop` with proofs; `Negotiation` with proofs; `H264Depacketizer` with proofs;
`DataChannels` with its proof; `Topics` and `MqttLink` with proofs; `VideoPath`, `AudioPath` and
`VideoFrames` with proofs; `Elements`, `PipelineBuilder` and `ElementChain` with proofs;
`SignalingRelay`, refining `FramePipe`, with a proof; `VideoDemo`.

What could come next: `Negotiation` over `SignalingRelay` instead of over plain wires.

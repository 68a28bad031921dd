----------------------------- MODULE VideoPath ------------------------------
(***************************************************************************)
(* The way of a video from a WebRtcVideoSink over a track to a             *)
(* WebRtcVideoSource (aiko-webrtc, pipeline/video_sink.rs and              *)
(* video_source.rs).  The sink encodes the frames of its pipeline and      *)
(* forces a keyframe every so many of them; the source waits for its       *)
(* track, then decodes.  A frame that is not a keyframe can be decoded     *)
(* only after the one encoded before it, so what a loss costs depends on   *)
(* when the next keyframe comes.                                           *)
(***************************************************************************)
EXTENDS Naturals, Sequences

CONSTANTS
  Interval,   \* keyframe_interval_frames
  MaxFrames,  \* bound: frames handed to the sink
  Samples     \* bound: samples in the network

ASSUME VideoAssumption == Interval \in Nat \ {0} /\ MaxFrames \in Nat /\ Samples \in Nat

VARIABLES
  sinkRuns,       \* the sink's actor has not panicked
  frameCount,     \* the sink's frame_count
  videoEncoder,   \* its encoder: how many frames it has encoded and whether it
                  \* was told to encode a keyframe
  offered,        \* frames handed to the sink, for the bound
  sinceKey,       \* frames the sink accepted after the last keyframe it sent
  network,        \* samples on their way
  trackRx,        \* the channel the source waits on
  videoSource,    \* where the source is
  decoder,        \* the source's decoder: the last sample it has decoded
  lastRead,       \* the last sample the source has read
  stale,          \* samples read in a row, with no gap, and not decoded
  videoReturned   \* the source's frame_count

videoSinkVars == <<sinkRuns, frameCount, videoEncoder, offered, sinceKey>>
videoSourceVars == <<trackRx, videoSource, decoder, lastRead, stale, videoReturned>>
videoVars == <<videoSinkVars, network, videoSourceVars>>

\* videoSource is "idle" between two calls of next, "awaiting" in track_rx.recv,
\* "reading" or "ended".  trackRx is "open", "sent", "last" when the track is in
\* the channel and the sender is gone, "closed", "taken", or "gone" when the
\* source has been shut down and has neither track nor channel.
VideoInit ==
  /\ sinkRuns = TRUE /\ frameCount = 0 /\ offered = 0 /\ sinceKey = 0
  /\ videoEncoder = [at |-> 0, force |-> FALSE]
  /\ network = <<>>
  /\ trackRx = "open" /\ videoSource = "idle" /\ decoder = 0
  /\ lastRead = 0 /\ stale = 0 /\ videoReturned = 0

-----------------------------------------------------------------------------
\* Deviation: one keyframe, and then no other.
KeyframeOnce == frameCount = Interval
\* consume: a keyframe is forced at each multiple of the interval but zero.
KeyframeIsDue == frameCount > 0 /\ frameCount % Interval = 0

\* The encoder starts with a keyframe and encodes one when it was told to.
Forced == videoEncoder.force \/ KeyframeIsDue
Key == videoEncoder.at = 0 \/ Forced

\* A frame reaches the sink; the sink is there for the next one, too.
FrameComes ==
  /\ sinkRuns /\ offered < MaxFrames
  /\ offered' = offered + 1
  /\ UNCHANGED videoSourceVars
Offer == FrameComes /\ UNCHANGED sinkRuns

Encoded == videoEncoder' = [at |-> videoEncoder.at + 1, force |-> FALSE]
NotEncoded == videoEncoder' = [videoEncoder EXCEPT !.force = Forced]

\* The frame is encoded and written.
Consume ==
  /\ Offer /\ Len(network) < Samples
  /\ Encoded
  /\ network' = Append(network, [n |-> videoEncoder.at + 1, key |-> Key])
  /\ frameCount' = frameCount + 1
  /\ sinceKey' = IF Key THEN 0 ELSE sinceKey + 1

\* The encoder leaves the frame out to keep its rate; a keyframe it does not.
ConsumeSkipped ==
  /\ Offer /\ ~Key /\ NotEncoded
  /\ frameCount' = frameCount + 1
  /\ sinceKey' = sinceKey + 1
  /\ UNCHANGED network

\* encode fails: the frame is not counted and the order to encode a keyframe
\* stands.
EncodeFails == Offer /\ NotEncoded /\ UNCHANGED <<frameCount, sinceKey, network>>

\* Deviation: a frame that could not be written is counted.
WriteFailsCounted ==
  /\ Offer /\ Encoded /\ frameCount' = frameCount + 1
  /\ sinceKey' = sinceKey + 1 /\ UNCHANGED network
\* write_sample fails: the frame is not counted.
WriteSampleFails == Offer /\ Encoded /\ UNCHANGED <<frameCount, sinceKey, network>>

\* consume panics, on a frame that is not I420 or with fps = 0, and the actor
\* ends.  (So it does on the second frame if Interval is 0, which the constant
\* leaves out.)
ConsumePanics ==
  /\ FrameComes /\ sinkRuns' = FALSE
  /\ UNCHANGED <<frameCount, videoEncoder, sinceKey, network>>

-----------------------------------------------------------------------------
\* The application passes the track on, and drops its end of the channel.
TrackSent ==
  /\ trackRx = "open" /\ trackRx' = "sent"
  /\ UNCHANGED <<videoSinkVars, network, videoSource, decoder, lastRead, stale, videoReturned>>
TrackDropped ==
  /\ trackRx \in {"open", "sent"}
  /\ trackRx' = IF trackRx = "sent" THEN "last" ELSE "closed"
  /\ UNCHANGED <<videoSinkVars, network, videoSource, decoder, lastRead, stale, videoReturned>>

\* The network loses a sample.
LoseSample ==
  /\ network # <<>>
  /\ network' = Tail(network)
  /\ UNCHANGED <<videoSinkVars, videoSourceVars>>

SourceAt(next) ==
  /\ videoSource' = next
  /\ UNCHANGED <<videoSinkVars, network, decoder, lastRead, stale, videoReturned>>

\* next is called: the track is waited for on the first call.
NextCalled ==
  /\ videoSource \in {"idle", "ended"}
  /\ SourceAt(CASE trackRx = "taken" -> "reading"
            [] trackRx = "gone" -> "ended"
            [] OTHER -> "awaiting")
  /\ UNCHANGED trackRx

\* shutdown, between two calls of next: whoever sends a track now fails.
Shutdown ==
  /\ videoSource \in {"idle", "ended"}
  /\ trackRx' = "gone" /\ SourceAt("ended")

\* track_rx.recv returns the track, or None when there will be no track.
TrackReceived ==
  /\ videoSource = "awaiting"
  /\ \/ trackRx \in {"sent", "last"} /\ SourceAt("reading") /\ trackRx' = "taken"
     \/ trackRx = "closed" /\ SourceAt("ended") /\ UNCHANGED trackRx

Decodable(sample) == sample.key \/ (decoder > 0 /\ sample.n = decoder + 1)

\* read_rtp: the sample decodes, into a frame or into nothing yet.
ReadDecoded ==
  /\ videoSource = "reading" /\ network # <<>> /\ Decodable(Head(network))
  /\ \/ videoSource' = "idle" /\ videoReturned' = videoReturned + 1
     \/ UNCHANGED <<videoSource, videoReturned>>
  /\ decoder' = Head(network).n /\ lastRead' = Head(network).n /\ stale' = 0
  /\ network' = Tail(network)
  /\ UNCHANGED <<videoSinkVars, trackRx>>

\* The reference is missing: decode fails and the source reads on, or the
\* decoder conceals what is missing and a spoilt frame is returned.
ReadSpoilt ==
  /\ videoSource = "reading" /\ network # <<>> /\ ~Decodable(Head(network))
  /\ \/ videoSource' = "idle" /\ videoReturned' = videoReturned + 1
     \/ UNCHANGED <<videoSource, videoReturned>>
  /\ lastRead' = Head(network).n
  /\ stale' = IF Head(network).n = lastRead + 1 THEN stale + 1 ELSE 1
  /\ network' = Tail(network)
  /\ UNCHANGED <<videoSinkVars, trackRx, decoder>>

\* read_rtp fails: next returns an error, and may be called again.
ReadFails == videoSource = "reading" /\ SourceAt("idle") /\ UNCHANGED trackRx

Quiet == (offered = MaxFrames \/ ~sinkRuns) /\ network = <<>> /\ UNCHANGED videoVars

VideoNext ==
  \/ Consume \/ ConsumeSkipped \/ EncodeFails \/ WriteSampleFails \/ ConsumePanics
  \/ TrackSent \/ TrackDropped \/ LoseSample
  \/ NextCalled \/ Shutdown \/ TrackReceived \/ ReadDecoded \/ ReadSpoilt \/ ReadFails
  \/ Quiet

VideoSpec == VideoInit /\ [][VideoNext]_videoVars

-----------------------------------------------------------------------------
\* "Force periodic keyframes so the browser decoder can (re)sync"
\* (video_sink.rs:114): among the frames the sink accepts after a keyframe at
\* most Interval are none, however many were skipped or failed.
KeyframesKeepComing == sinceKey <= Interval

\* After a loss, on the way or in the sink, the source gets what it can decode
\* within an interval, unless more is lost.
ResyncsInTime == stale <= Interval
=============================================================================

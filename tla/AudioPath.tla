----------------------------- MODULE AudioPath ------------------------------
(***************************************************************************)
(* The way of sound from a WebRtcAudioSink over a track to a               *)
(* WebRtcAudioSource (aiko-webrtc, pipeline/audio_sink.rs and              *)
(* audio_source.rs) with the arithmetic of AudioFrame (aiko-core,          *)
(* media.rs).  The sink encodes what its encoder takes for the samples of  *)
(* a frame and tells the track a duration that it computes from the frame  *)
(* itself; the source makes frames of its own rate and channels.  Time is  *)
(* counted in half milliseconds, since an Opus frame may take 2.5 ms.      *)
(***************************************************************************)
EXTENDS Naturals, Sequences

CONSTANTS
  Frames,    \* AudioFrames: rate, channels, format and number of bytes
  Configs,   \* what the sink may be initialised with
  Ends,      \* what the source may be made with
  MaxOffers, \* bound: frames handed to the sink
  OnTheWay   \* bound: packets in the network

ASSUME AudioAssumption ==
  /\ Frames \subseteq [rate : Nat, channels : Nat, format : {"I16Le", "F32Le"}, bytes : Nat]
  /\ Configs \cup Ends \subseteq [rate : Nat, channels : Nat]

VARIABLES
  sink,      \* "new", "ready" once init has run, "panicked"
  encoder,   \* the encoder's rate and channels, or NoEncoder
  offers,    \* frames handed to the sink, for the bound
  given,     \* the rates and channels the sink was given, by init and by frames
  encoded,   \* the sound in the packets written
  clock,     \* the time the track has been told of
  short,     \* packets of 2.5 ms written
  packets,   \* packets on their way: their length
  end,       \* the source's sample_rate and channels
  source,    \* where the source is
  decoded,   \* the sound in the packets it has decoded
  returned   \* the sound in the frames it has returned

sinkVars == <<sink, encoder, offers, given, encoded, clock, short>>
sourceVars == <<end, source, decoded, returned>>
audioVars == <<sinkVars, packets, sourceVars>>

NoEncoder == [rate |-> 0, channels |-> 0]

AudioInit ==
  /\ sink = "new" /\ encoder = NoEncoder /\ offers = 0 /\ given = {}
  /\ encoded = 0 /\ clock = 0 /\ short = 0
  /\ packets = <<>>
  /\ end \in Ends /\ source = "waiting" /\ decoded = 0 /\ returned = 0

-----------------------------------------------------------------------------
\* to_audiopus_sample_rate and to_audiopus_channels
Supported(p) == p.rate \in {8000, 12000, 16000, 24000, 48000} /\ p.channels \in {1, 2}

BytesPerSample(format) == IF format = "I16Le" THEN 2 ELSE 4

\* AudioFrame::samples_per_channel
SamplesPerChannel(f) ==
  IF f.channels = 0 THEN 0 ELSE f.bytes \div (f.channels * BytesPerSample(f.format))

\* Opus takes frames of 2.5, 5, 10, 20, 40 or 60 ms.
OpusSizes(rate) == {(rate \div 400) * k : k \in {1, 2, 4, 8, 16, 24}}

\* What the encoder takes the bytes for, whatever the frame says it is.
SamplesTaken(f, enc) == (f.bytes \div 2) \div enc.channels

Halves(samples, rate) == (samples * 2000) \div rate

\* The duration written with the packet: whole milliseconds of the frame.
Duration(f) == 2 * ((SamplesPerChannel(f) * 1000) \div f.rate)

ParamsOf(f) == [rate |-> f.rate, channels |-> f.channels]

\* Deviation: the encoder that is made on the first frame is the default one.
EncoderDefault(f) ==
  IF encoder = NoEncoder THEN [rate |-> 48000, channels |-> 2] ELSE encoder
\* The encoder that a frame meets: made for the first frame if init was not
\* called.
EncoderFor(f) == IF encoder = NoEncoder THEN ParamsOf(f) ELSE encoder

-----------------------------------------------------------------------------
\* init: a configuration that is not supported is an error.
InitSink(c) ==
  /\ sink = "new" /\ encoder = NoEncoder
  /\ IF Supported(c) THEN encoder' = c /\ sink' = "ready" ELSE UNCHANGED <<encoder, sink>>
  /\ given' = given \cup {c}
  /\ UNCHANGED <<offers, encoded, clock, short, packets, sourceVars>>

\* consume: the encoder there is from here on, whatever comes of the frame.
Offered(f) ==
  /\ sink # "panicked" /\ offers < MaxOffers
  /\ offers' = offers + 1
  /\ given' = given \cup {ParamsOf(f)}
  /\ Supported(EncoderFor(f))
  /\ encoder' = EncoderFor(f)
  /\ UNCHANGED sourceVars

\* The first frame is one no encoder can be made for.
NoEncoderFor(f) ==
  /\ sink # "panicked" /\ offers < MaxOffers /\ ~Supported(EncoderFor(f))
  /\ offers' = offers + 1
  /\ given' = given \cup {ParamsOf(f)}
  /\ UNCHANGED <<sink, encoder, encoded, clock, short, packets, sourceVars>>

IsEncodable(f) == SamplesTaken(f, EncoderFor(f)) \in OpusSizes(EncoderFor(f).rate)

\* Not I16Le, or not of a length that Opus takes.
RefuseFrame(f) ==
  /\ Offered(f)
  /\ f.format # "I16Le" \/ (f.bytes % 2 = 0 /\ ~IsEncodable(f))
  /\ UNCHANGED <<sink, encoded, clock, short, packets>>

\* Half a sample, or a rate of zero to divide by: the actor's task panics.
PanicOn(f) ==
  /\ Offered(f)
  /\ f.format = "I16Le"
  /\ f.bytes % 2 = 1 \/ (IsEncodable(f) /\ f.rate = 0)
  /\ sink' = "panicked"
  /\ UNCHANGED <<encoded, clock, short, packets>>

Encodes(f) ==
  /\ Offered(f)
  /\ f.format = "I16Le" /\ f.bytes % 2 = 0 /\ IsEncodable(f) /\ f.rate > 0
  /\ UNCHANGED sink

\* The packet is written; the clock of the track moves on by the duration.
WriteSample(f) ==
  LET sound == Halves(SamplesTaken(f, EncoderFor(f)), EncoderFor(f).rate) IN
    /\ Encodes(f) /\ Len(packets) < OnTheWay
    /\ packets' = Append(packets, sound)
    /\ encoded' = encoded + sound
    /\ clock' = clock + Duration(f)
    /\ short' = short + (IF sound = 5 THEN 1 ELSE 0)

\* write_sample fails, and the error returns.
WriteFails(f) == Encodes(f) /\ UNCHANGED <<encoded, clock, short, packets>>

-----------------------------------------------------------------------------
\* The network loses a packet.
LosePacket ==
  /\ packets # <<>> /\ packets' = Tail(packets)
  /\ UNCHANGED <<sinkVars, sourceVars>>

\* next: the track comes, or the channel closes and the source is at its end.
AwaitTrack ==
  /\ source = "waiting"
  /\ source' \in {"ready", "ended"}
  /\ UNCHANGED <<sinkVars, packets, end, decoded, returned>>

\* The samples that next copies from its buffer, which holds 120 ms.
BufferSize == ((end.rate * 120) \div 1000) * end.channels

\* Deviation: the number of decoded samples is taken for that of all channels.
TotalSamplesOfOne(samples) == samples
TotalSamples(samples) == samples * end.channels

\* A packet is decoded at the source's rate and becomes a frame.  Without
\* support for its rate and channels next fails before it reads.
Decode ==
  /\ source = "ready" /\ Supported(end) /\ packets # <<>>
  /\ LET samples == (Head(packets) * end.rate) \div 2000
         frame == [rate |-> end.rate, channels |-> end.channels, format |-> "I16Le",
                   bytes |-> 2 * TotalSamples(samples)]
     IN /\ TotalSamples(samples) <= BufferSize
        /\ returned' = returned + Halves(SamplesPerChannel(frame), frame.rate)
  /\ decoded' = decoded + Head(packets)
  /\ packets' = Tail(packets)
  /\ UNCHANGED <<sinkVars, end, source>>

\* An empty payload, or one that does not decode: next reads on.
SkipPacket ==
  /\ source = "ready" /\ Supported(end) /\ packets # <<>>
  /\ packets' = Tail(packets)
  /\ UNCHANGED <<sinkVars, sourceVars>>

\* shutdown: without track and channel next returns None.
ShutdownSource ==
  /\ source # "ended" /\ source' = "ended"
  /\ UNCHANGED <<sinkVars, packets, end, decoded, returned>>

AudioQuiet ==
  /\ sink = "panicked" \/ offers = MaxOffers
  /\ packets = <<>> \/ source = "ended" \/ ~Supported(end)
  /\ UNCHANGED audioVars

AudioNext ==
  \/ \E c \in Configs : InitSink(c)
  \/ \E f \in Frames : NoEncoderFor(f) \/ RefuseFrame(f) \/ PanicOn(f) \/ WriteSample(f)
                       \/ WriteFails(f)
  \/ LosePacket \/ AwaitTrack \/ Decode \/ SkipPacket \/ ShutdownSource
  \/ AudioQuiet

-----------------------------------------------------------------------------
\* If init, when it is called, and the frames agree on rate and channels, the
\* track's clock (audio_sink.rs:187-189) is behind the sound only by what is cut
\* off a frame of 2.5 ms: half a millisecond for each such packet, nothing for
\* any other, at every rate, with and without init.
TrackKeepsTime ==
  (\A p, q \in given : p = q) => encoded = clock + short

\* Whatever rates and channels the two ends have, the frames the source returns
\* last as long as the packets it has decoded (audio_source.rs:160-171).
SoundKeepsLength == returned = decoded
=============================================================================

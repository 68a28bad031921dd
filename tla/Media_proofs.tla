---------------------------- MODULE Media_proofs ----------------------------
(***************************************************************************)
(* The parts between a pipeline and its media tracks.                      *)
(*                                                                         *)
(* The path of a video, for every keyframe interval, number of frames and  *)
(* network: the sink never accepts more than an interval of frames without *)
(* sending a keyframe, whatever frames the encoder skips and whatever      *)
(* fails, and the source never reads more than an interval of samples that *)
(* it cannot decode, unless another is missing.                            *)
(*                                                                         *)
(* The path of sound, for every rate and number of channels at either end: *)
(* the track keeps the time of the frames, and the source gives back the   *)
(* length of what it decodes.                                              *)
(*                                                                         *)
(* Frames of any width and height, with a product that wraps at any power: *)
(* the planes of a frame that was made lie in its data; those of a picture *)
(* of even sides fill it.                                                  *)
(*                                                                         *)
(* The depacketizer, for any number of units, fragments and packets in the *)
(* network and for any loss: what it returns begins and ends where units   *)
(* do, and until a packet overtakes another it is in the order it was      *)
(* sent, has no hole and no splice but over what was lost, and holds every *)
(* unit all of whose fragments arrive.                                     *)
(***************************************************************************)
EXTENDS H264Depacketizer, VideoPath, AudioPath, VideoFrames, Integers, SequenceTheorems, TLAPS

\* Products by the same factor are in the order of the other factors.
LEMMA Product ==
  ASSUME NEW a \in Int, NEW b \in Int, NEW d \in Nat, a <= b
  PROVE  d * a \in Int /\ d * b \in Int /\ d * a <= d * b
<1>1. \A x, y \in Nat : x * y \in Nat
  OBVIOUS
<1>2. d * (b - a) \in Nat
  BY <1>1
<1>3. d * b = d * a + d * (b - a)
  OBVIOUS
<1> QED
  BY <1>2, <1>3

\* A number is a multiple and a remainder.
LEMMA Division ==
  ASSUME NEW n \in Nat, NEW d \in Nat \ {0}
  PROVE  /\ n \div d \in Int /\ n % d \in 0..(d - 1)
         /\ n = d * (n \div d) + (n % d)
  OBVIOUS

\* The next number has the next remainder, or none.
LEMMA NextRemainder ==
  ASSUME NEW n \in Nat, NEW d \in Nat \ {0}
  PROVE  (n + 1) % d = IF (n % d) + 1 = d THEN 0 ELSE (n % d) + 1
<1> DEFINE p == n \div d  q == (n + 1) \div d  r == n % d  s == (n + 1) % d
<1>1. /\ p \in Int /\ r \in 0..(d - 1) /\ n = d * p + r
      /\ q \in Int /\ s \in 0..(d - 1) /\ n + 1 = d * q + s
  BY Division
<1> HIDE DEF p, q, r, s
<1>2. CASE q = p
  BY <1>1, <1>2
<1>3. CASE q = p + 1
  <2>1. d * q = d * p + d
    BY <1>1, <1>3
  <2> QED
    BY <1>1, <2>1
<1>4. CASE q >= p + 2
  <2>1. d * (p + 2) <= d * q /\ d * (p + 2) \in Int /\ d * q \in Int
    BY <1>1, <1>4, Product
  <2>2. d * (p + 2) = d * p + 2 * d
    BY <1>1
  <2>3. d * p \in Int
    BY <1>1
  <2> QED
    BY <1>1, <2>1, <2>2, <2>3
<1>5. CASE q <= p - 1
  <2>1. d * q <= d * (p - 1) /\ d * (p - 1) \in Int /\ d * q \in Int
    BY <1>1, <1>5, Product
  <2>2. d * (p - 1) = d * p - d
    BY <1>1
  <2>3. d * p \in Int
    BY <1>1
  <2> QED
    BY <1>1, <2>1, <2>2, <2>3
<1>6. q = p \/ q = p + 1 \/ q >= p + 2 \/ q <= p - 1
  BY <1>1
<1>7. s = IF r + 1 = d THEN 0 ELSE r + 1
  BY <1>1, <1>2, <1>3, <1>4, <1>5, <1>6
<1> QED
  BY <1>7 DEF r, s

-----------------------------------------------------------------------------
\* Between two multiples of the interval the frames without a keyframe are not
\* more than those since the last multiple; at a multiple they are at most an
\* interval, and the next frame is a keyframe unless none was accepted yet.
KeyInv ==
  /\ frameCount \in Nat /\ sinceKey \in Nat
  /\ sinceKey <= Interval
  /\ frameCount = 0 => sinceKey = 0
  /\ frameCount % Interval # 0 => sinceKey <= frameCount % Interval

LEMMA InitKeyInv == VideoInit => KeyInv
<1>1. 0 % Interval = 0
  BY Division, VideoAssumption
<1> QED
  BY <1>1, VideoAssumption DEF VideoInit, KeyInv

\* An accepted frame is a keyframe, or one more without.
Accepted ==
  /\ frameCount' = frameCount + 1
  /\ sinceKey' = sinceKey + 1 \/ sinceKey' = 0
  /\ KeyframeIsDue => sinceKey' = 0

LEMMA AcceptedKeepsKeyInv ==
  ASSUME KeyInv, Accepted PROVE KeyInv'
<1> DEFINE r == frameCount % Interval
<1>1. /\ r \in 0..(Interval - 1)
      /\ (frameCount + 1) % Interval = IF r + 1 = Interval THEN 0 ELSE r + 1
  BY Division, NextRemainder, VideoAssumption DEF KeyInv
<1>2. CASE sinceKey' = 0
  BY <1>1, <1>2, VideoAssumption DEF KeyInv, Accepted
<1>3. CASE sinceKey' = sinceKey + 1
  <2>1. sinceKey + 1 # 0
    BY DEF KeyInv
  <2>2. frameCount = 0 \/ r # 0
    BY <1>3, <2>1 DEF Accepted, KeyframeIsDue, KeyInv
  <2>3. sinceKey + 1 <= r + 1
    BY <1>1, <2>2 DEF KeyInv
  <2> QED
    BY <1>1, <1>3, <2>3, VideoAssumption DEF KeyInv, Accepted
<1> QED
  BY <1>2, <1>3 DEF Accepted

\* A step accepts a frame or leaves the sink's counters alone.
LEMMA StepAccepts ==
  [VideoNext]_videoVars => Accepted \/ UNCHANGED <<frameCount, sinceKey>>
<1> SUFFICES ASSUME [VideoNext]_videoVars PROVE Accepted \/ UNCHANGED <<frameCount, sinceKey>>
  OBVIOUS
<1> USE DEF videoSinkVars, videoSourceVars
<1>1. CASE Consume
  BY <1>1 DEF Consume, Key, Forced, Accepted
<1>2. CASE ConsumeSkipped
  BY <1>2 DEF ConsumeSkipped, Key, Forced, Accepted
<1>3. CASE EncodeFails \/ WriteSampleFails \/ ConsumePanics
  BY <1>3 DEF EncodeFails, WriteSampleFails, ConsumePanics
<1>4. CASE TrackSent \/ TrackDropped \/ LoseSample
  BY <1>4 DEF TrackSent, TrackDropped, LoseSample
<1>5. CASE NextCalled \/ Shutdown \/ TrackReceived
  BY <1>5 DEF NextCalled, Shutdown, TrackReceived, SourceAt
<1>6. CASE ReadDecoded \/ ReadSpoilt \/ ReadFails
  BY <1>6 DEF ReadDecoded, ReadSpoilt, ReadFails, SourceAt
<1>7. CASE Quiet \/ UNCHANGED videoVars
  BY <1>7 DEF Quiet, videoVars
<1> QED
  BY <1>1, <1>2, <1>3, <1>4, <1>5, <1>6, <1>7 DEF VideoNext

LEMMA StepKeyInv == KeyInv /\ [VideoNext]_videoVars => KeyInv'
<1> SUFFICES ASSUME KeyInv, [VideoNext]_videoVars PROVE KeyInv'
  OBVIOUS
<1>1. CASE Accepted
  BY <1>1, AcceptedKeepsKeyInv
<1>2. CASE UNCHANGED <<frameCount, sinceKey>>
  BY <1>2 DEF KeyInv
<1> QED
  BY <1>1, <1>2, StepAccepts

\* "Force periodic keyframes so the browser decoder can (re)sync"
\* (video_sink.rs:114): for every interval but zero, whatever the encoder skips
\* and whatever fails, at most an interval of frames pass without a keyframe.
THEOREM KeyframesKeep == VideoSpec => []KeyframesKeepComing
<1>1. VideoInit => KeyInv
  BY InitKeyInv
<1>2. KeyInv /\ [VideoNext]_videoVars => KeyInv'
  BY StepKeyInv
<1>3. KeyInv => KeyframesKeepComing
  BY DEF KeyInv, KeyframesKeepComing
<1> QED
  BY <1>1, <1>2, <1>3, PTL DEF VideoSpec

\* The samples the source cannot decode by themselves: those on their way that
\* are not keyframes, and the last it has read in vain.
Undecoded ==
  {s.n : s \in {network[i] : i \in {j \in 1..Len(network) : ~network[j].key}}}
    \cup (lastRead - stale + 1)..lastRead

\* No run of frames without a keyframe is longer than an interval, and one that
\* reaches the last frame encoded is not longer than the sink has counted.
ResyncInv ==
  /\ KeyInv
  /\ videoEncoder \in [at : Nat, force : BOOLEAN]
  /\ network \in Seq([n : Nat, key : BOOLEAN])
  /\ lastRead \in Nat /\ stale \in Nat
  /\ \A n \in Undecoded : n <= videoEncoder.at
  /\ \A a, b \in Int : a <= b /\ a..b \subseteq Undecoded =>
       b - a < Interval /\ (b = videoEncoder.at => b - a < sinceKey)

LEMMA InitResyncInv == VideoInit => ResyncInv
<1> SUFFICES ASSUME VideoInit PROVE ResyncInv
  OBVIOUS
<1>1. lastRead = 0 /\ stale = 0 /\ 1..Len(network) = {} /\ network \in Seq([n : Nat, key : BOOLEAN])
      /\ videoEncoder \in [at : Nat, force : BOOLEAN]
  BY DEF VideoInit
<1>2. Undecoded = {}
  BY <1>1 DEF Undecoded
<1>3. \A a, b \in Int : a <= b => a \in a..b
  OBVIOUS
<1> QED
  BY <1>1, <1>2, <1>3, InitKeyInv DEF ResyncInv

LEMMA Numbered ==
  ASSUME network \in Seq([n : Nat, key : BOOLEAN]), lastRead \in Nat, stale \in Nat
  PROVE  Undecoded \subseteq Int
<1>1. \A j \in 1..Len(network) : network[j] \in [n : Nat, key : BOOLEAN]
  <2> DEFINE S == [n : Nat, key : BOOLEAN]
  <2> HIDE DEF S
  <2>1. network \in Seq(S)
    BY DEF S
  <2>2. \A j \in 1..Len(network) : network[j] \in S
    BY <2>1
  <2> QED
    BY <2>2 DEF S
<1>2. \A j \in 1..Len(network) : network[j].n \in Int
  BY <1>1
<1> QED
  BY <1>2 DEF Undecoded

\* What leaves the network, read or lost, adds nothing to the undecoded.
LEMMA Fewer ==
  ASSUME ResyncInv, KeyInv', network' \in Seq([n : Nat, key : BOOLEAN]),
         videoEncoder' \in [at : Nat, force : BOOLEAN], videoEncoder'.at = videoEncoder.at,
         lastRead' \in Nat, stale' \in Nat, Undecoded' \subseteq Undecoded, sinceKey <= sinceKey'
  PROVE  ResyncInv'
<1>1. \A n \in Undecoded' : n <= videoEncoder'.at
  BY DEF ResyncInv
<1>2. ASSUME NEW a \in Int, NEW b \in Int, a <= b, a..b \subseteq Undecoded'
      PROVE  b - a < Interval /\ (b = videoEncoder'.at => b - a < sinceKey')
  <2>1. a..b \subseteq Undecoded
    BY <1>2
  <2>2. b - a < Interval /\ (b = videoEncoder.at => b - a < sinceKey)
    BY <1>2, <2>1 DEF ResyncInv
  <2> QED
    BY <2>2 DEF ResyncInv, KeyInv
<1> QED
  BY <1>1, <1>2 DEF ResyncInv

\* The tail of the network.
LEMMA TailOfNetwork ==
  ASSUME network \in Seq([n : Nat, key : BOOLEAN]), network # <<>>, network' = Tail(network)
  PROVE  /\ network' \in Seq([n : Nat, key : BOOLEAN])
         /\ Head(network) = network[1] /\ 1 \in 1..Len(network)
         /\ Head(network) \in [n : Nat, key : BOOLEAN]
         /\ \A j \in 1..Len(network') : j + 1 \in 1..Len(network) /\ network'[j] = network[j + 1]
<1> DEFINE S == [n : Nat, key : BOOLEAN]
<1> HIDE DEF S
<1>1. network \in Seq(S)
  BY DEF S
<1>2. Len(network) \in Nat /\ Len(network) > 0 /\ Head(network) = network[1]
  BY <1>1
<1>3. network[1] \in S
  BY <1>1, <1>2
<1>4. network' \in Seq(S) /\ Len(network') = Len(network) - 1
  BY <1>1, <1>2
<1>5. \A j \in 1..Len(network') : j + 1 \in 1..Len(network) /\ network'[j] = network[j + 1]
  BY <1>1, <1>2, <1>4
<1> QED
  BY <1>2, <1>3, <1>4, <1>5 DEF S

LEMMA ReadOrLost ==
  ASSUME ResyncInv, network # <<>>, network' = Tail(network), KeyInv',
         UNCHANGED <<videoEncoder, sinceKey>>,
         \/ UNCHANGED <<lastRead, stale>>
         \/ lastRead' = Head(network).n /\ stale' = 0
         \/ /\ ~Head(network).key /\ lastRead' = Head(network).n
            /\ stale' = IF Head(network).n = lastRead + 1 THEN stale + 1 ELSE 1
  PROVE  ResyncInv'
<1> DEFINE K == {j \in 1..Len(network) : ~network[j].key}
<1>1. /\ network' \in Seq([n : Nat, key : BOOLEAN])
      /\ Head(network) = network[1] /\ 1 \in 1..Len(network)
      /\ Head(network) \in [n : Nat, key : BOOLEAN]
      /\ \A j \in 1..Len(network') : j + 1 \in 1..Len(network) /\ network'[j] = network[j + 1]
  BY TailOfNetwork DEF ResyncInv
<1>2. lastRead' \in Nat /\ stale' \in Nat
  BY <1>1 DEF ResyncInv
<1>3. \A j \in K : network[j].n \in Undecoded
  BY DEF Undecoded
<1>4. (lastRead - stale + 1)..lastRead \subseteq Undecoded
  BY DEF Undecoded
<1>5. ASSUME NEW x \in (lastRead' - stale' + 1)..lastRead' PROVE x \in Undecoded
  <2>1. CASE UNCHANGED <<lastRead, stale>>
    BY <1>4, <1>5, <2>1
  <2>2. CASE lastRead' = Head(network).n /\ stale' = 0
    BY <1>1, <1>5, <2>2
  <2>3. CASE /\ ~Head(network).key /\ lastRead' = Head(network).n
             /\ stale' = IF Head(network).n = lastRead + 1 THEN stale + 1 ELSE 1
    <3>1. lastRead' \in Undecoded
      BY <1>1, <1>3, <2>3
    <3>2. x = lastRead' \/ x \in (lastRead - stale + 1)..lastRead
      BY <1>1, <1>2, <1>5, <2>3 DEF ResyncInv
    <3> QED
      BY <1>4, <3>1, <3>2
  <2> QED
    BY <2>1, <2>2, <2>3
<1>6. ASSUME NEW j \in 1..Len(network'), ~network'[j].key PROVE network'[j].n \in Undecoded
  BY <1>1, <1>3, <1>6
<1>7. Undecoded' \subseteq Undecoded
  BY <1>5, <1>6 DEF Undecoded
<1> QED
  BY <1>1, <1>2, <1>7, Fewer DEF ResyncInv, KeyInv

\* A frame that is encoded and written is a keyframe, or makes the run that
\* ends with it one longer.
LEMMA WrittenKeepsResync == ASSUME ResyncInv, KeyInv', Consume PROVE ResyncInv'
<1> DEFINE e == videoEncoder.at  s == [n |-> e + 1, key |-> Key]
<1>1. /\ network' = Append(network, s) /\ s \in [n : Nat, key : BOOLEAN]
      /\ videoEncoder' = [at |-> e + 1, force |-> FALSE] /\ e \in Nat
      /\ UNCHANGED <<lastRead, stale>>
      /\ sinceKey' = IF Key THEN 0 ELSE sinceKey + 1
  BY DEF Consume, Encoded, Offer, FrameComes, videoSourceVars, ResyncInv, Key, Forced, KeyframeIsDue
<1>2. /\ network' \in Seq([n : Nat, key : BOOLEAN])
      /\ \A j \in 1..Len(network') :
           \/ j \in 1..Len(network) /\ network'[j] = network[j]
           \/ network'[j] = s
  BY <1>1 DEF ResyncInv
<1>3. \A x \in Undecoded' : x \in Undecoded \/ (~Key /\ x = e + 1)
  <2>1. \A j \in 1..Len(network') : ~network'[j].key =>
          network'[j].n \in Undecoded \/ (~Key /\ network'[j].n = e + 1)
    BY <1>2 DEF Undecoded
  <2> QED
    BY <1>1, <2>1 DEF Undecoded
<1>4. \A x \in Undecoded : x <= e /\ x \in Int
  BY Numbered DEF ResyncInv
<1>5. ASSUME NEW a \in Int, NEW b \in Int, a <= b, a..b \subseteq Undecoded'
      PROVE  b - a < Interval /\ (b = videoEncoder'.at => b - a < sinceKey')
  <2>1. CASE b = e + 1
    <3>1. ~Key
      BY <1>1, <1>3, <1>4, <1>5, <2>1
    <3>2. a < b => a..e \subseteq Undecoded
      BY <1>1, <1>3, <1>5, <2>1
    <3>3. a < b => e - a < sinceKey
      <4>1. e \in Int /\ (a < b => a <= e)
        BY <1>1, <1>5, <2>1
      <4> QED
        BY <3>2, <4>1 DEF ResyncInv
    <3>4. sinceKey' = sinceKey + 1 /\ sinceKey \in Nat /\ sinceKey' <= Interval
      BY <1>1, <3>1 DEF ResyncInv, KeyInv
    <3>5. b - a < sinceKey'
      BY <1>1, <1>5, <2>1, <3>3, <3>4
    <3> QED
      BY <1>1, <1>5, <3>4, <3>5, VideoAssumption
  <2>2. CASE b # e + 1
    <3>1. b <= e
      BY <1>1, <1>3, <1>4, <1>5, <2>2
    <3>2. a..b \subseteq Undecoded
      BY <1>1, <1>3, <1>5, <3>1
    <3> QED
      BY <1>1, <1>5, <2>2, <3>2 DEF ResyncInv
  <2> QED
    BY <2>1, <2>2
<1>6. \A x \in Undecoded' : x <= videoEncoder'.at
  BY <1>1, <1>3, <1>4
<1> QED
  BY <1>1, <1>2, <1>5, <1>6 DEF ResyncInv

\* A frame that is encoded and not written leaves a gap.
LEMMA UnwrittenKeepsResync == ASSUME ResyncInv, KeyInv', WriteSampleFails PROVE ResyncInv'
<1> DEFINE e == videoEncoder.at
<1>1. /\ videoEncoder' = [at |-> e + 1, force |-> FALSE] /\ e \in Nat
      /\ UNCHANGED <<network, lastRead, stale>>
  BY DEF WriteSampleFails, Encoded, Offer, FrameComes, videoSourceVars, ResyncInv
<1>2. Undecoded' = Undecoded
  BY <1>1 DEF Undecoded
<1>3. \A x \in Undecoded : x <= e /\ x \in Int
  BY Numbered DEF ResyncInv
<1>4. \A x \in Undecoded' : x <= videoEncoder'.at
  BY <1>1, <1>2, <1>3
<1>5. ASSUME NEW a \in Int, NEW b \in Int, a <= b, a..b \subseteq Undecoded'
      PROVE  b - a < Interval /\ b # videoEncoder'.at
  <2>1. b \in Undecoded
    BY <1>2, <1>5
  <2> QED
    BY <1>1, <1>2, <1>3, <1>5, <2>1 DEF ResyncInv
<1> QED
  BY <1>1, <1>4, <1>5 DEF ResyncInv

LEMMA StepResyncInv == ResyncInv /\ [VideoNext]_videoVars => ResyncInv'
<1> SUFFICES ASSUME ResyncInv, [VideoNext]_videoVars PROVE ResyncInv'
  OBVIOUS
<1> USE DEF videoSinkVars, videoSourceVars
<1>1. KeyInv'
  BY StepKeyInv DEF ResyncInv
<1>2. CASE Consume
  BY <1>1, <1>2, WrittenKeepsResync
<1>3. CASE WriteSampleFails
  BY <1>1, <1>3, UnwrittenKeepsResync
<1>4. CASE ConsumeSkipped \/ EncodeFails
  <2>1. /\ UNCHANGED <<network, lastRead, stale>>
        /\ sinceKey' \in {sinceKey, sinceKey + 1}
        /\ videoEncoder' = [videoEncoder EXCEPT !.force = Forced]
    BY <1>4 DEF ConsumeSkipped, EncodeFails, Offer, FrameComes, NotEncoded
  <2>2. videoEncoder' \in [at : Nat, force : BOOLEAN] /\ videoEncoder'.at = videoEncoder.at
    BY <2>1 DEF ResyncInv, Forced, KeyframeIsDue
  <2>3. Undecoded' \subseteq Undecoded /\ sinceKey <= sinceKey'
    BY <2>1 DEF Undecoded, ResyncInv, KeyInv
  <2> QED
    BY <1>1, <2>1, <2>2, <2>3, Fewer DEF ResyncInv
<1>5. CASE LoseSample
  BY <1>1, <1>5, ReadOrLost DEF LoseSample
<1>6. CASE ReadDecoded
  BY <1>1, <1>6, ReadOrLost DEF ReadDecoded
<1>7. CASE ReadSpoilt
  <2>1. \/ UNCHANGED <<lastRead, stale>>
        \/ lastRead' = Head(network).n /\ stale' = 0
        \/ /\ ~Head(network).key /\ lastRead' = Head(network).n
           /\ stale' = IF Head(network).n = lastRead + 1 THEN stale + 1 ELSE 1
    BY <1>7 DEF ReadSpoilt, Decodable
  <2>2. network # <<>> /\ network' = Tail(network) /\ UNCHANGED <<videoEncoder, sinceKey>>
    BY <1>7 DEF ReadSpoilt
  <2> QED
    BY <1>1, <2>1, <2>2, ReadOrLost
<1>8. CASE \/ TrackSent \/ TrackDropped \/ NextCalled \/ Shutdown \/ TrackReceived
           \/ ReadFails \/ ConsumePanics \/ Quiet \/ UNCHANGED videoVars
  <2>1. UNCHANGED <<videoEncoder, sinceKey, network, lastRead, stale>>
    BY <1>8 DEF ConsumePanics, FrameComes, TrackSent, TrackDropped, NextCalled, Shutdown, TrackReceived, ReadFails,
       Quiet, videoVars, SourceAt
  <2> QED
    BY <1>1, <2>1 DEF ResyncInv, Undecoded
<1> QED
  BY <1>2, <1>3, <1>4, <1>5, <1>6, <1>7, <1>8 DEF VideoNext

\* After a loss, in the network or in the sink, the source decodes again within
\* an interval of samples, unless another is missing (video_sink.rs:114).
THEOREM SourceResyncs == VideoSpec => []ResyncsInTime
<1>1. VideoInit => ResyncInv
  BY InitResyncInv
<1>2. ResyncInv /\ [VideoNext]_videoVars => ResyncInv'
  BY StepResyncInv
<1>3. ResyncInv => ResyncsInTime
  <2> SUFFICES ASSUME ResyncInv, stale > Interval PROVE FALSE
    BY VideoAssumption DEF ResyncInv, ResyncsInTime
  <2>1. (lastRead - stale + 1)..lastRead \subseteq Undecoded
    BY DEF Undecoded
  <2>2. lastRead \in Int /\ lastRead - stale + 1 \in Int /\ lastRead - stale + 1 <= lastRead
    BY VideoAssumption DEF ResyncInv
  <2>3. lastRead - (lastRead - stale + 1) < Interval
    BY <2>1, <2>2 DEF ResyncInv
  <2> QED
    BY <2>3, VideoAssumption DEF ResyncInv
<1> QED
  BY <1>1, <1>2, <1>3, PTL DEF VideoSpec

-----------------------------------------------------------------------------
AudioSpec == AudioInit /\ [][AudioNext]_audioVars

\* The lengths of Opus packets, in half milliseconds.
Lengths == {5, 10, 20, 40, 80, 120}
Rates == {8000, 12000, 16000, 24000, 48000}

\* What Opus takes at a rate lasts as long as at any other, and is whole
\* milliseconds but for the shortest.
LEMMA OpusLengths ==
  ASSUME NEW r \in Rates, NEW n \in OpusSizes(r)
  PROVE  /\ Halves(n, r) \in Lengths
         /\ Halves(n, r) = 2 * ((n * 1000) \div r) + (IF Halves(n, r) = 5 THEN 1 ELSE 0)
<1>1. PICK k \in {1, 2, 4, 8, 16, 24} : n = (r \div 400) * k
  BY DEF OpusSizes
<1>2. CASE r = 8000
  <2>1. r \div 400 = 20 /\ n = 20 * k
    BY <1>1, <1>2
  <2> QED
    BY <1>2, <2>1 DEF Halves, Lengths
<1>3. CASE r = 12000
  <2>1. r \div 400 = 30 /\ n = 30 * k
    BY <1>1, <1>3
  <2> QED
    BY <1>3, <2>1 DEF Halves, Lengths
<1>4. CASE r = 16000
  <2>1. r \div 400 = 40 /\ n = 40 * k
    BY <1>1, <1>4
  <2> QED
    BY <1>4, <2>1 DEF Halves, Lengths
<1>5. CASE r = 24000
  <2>1. r \div 400 = 60 /\ n = 60 * k
    BY <1>1, <1>5
  <2> QED
    BY <1>5, <2>1 DEF Halves, Lengths
<1>6. CASE r = 48000
  <2>1. r \div 400 = 120 /\ n = 120 * k
    BY <1>1, <1>6
  <2> QED
    BY <1>6, <2>1 DEF Halves, Lengths
<1> QED
  BY <1>2, <1>3, <1>4, <1>5, <1>6 DEF Rates

\* The samples of a frame are those of all channels, however they are counted.
LEMMA SamplesAgree ==
  ASSUME NEW n \in Nat, NEW c \in {1, 2}
  PROVE  (n * c * 2) \div (c * 2) = n
<1>1. CASE c = 1
  BY <1>1
<1>2. CASE c = 2
  BY <1>2
<1> QED
  BY <1>1, <1>2

\* A packet decoded at any rate lasts as long at that rate.
LEMMA DecodedLengths ==
  ASSUME NEW r \in Rates, NEW d \in Lengths
  PROVE  (d * r) \div 2000 \in Nat /\ Halves((d * r) \div 2000, r) = d
<1>1. CASE r = 8000
  BY <1>1 DEF Halves, Lengths
<1>2. CASE r = 12000
  BY <1>2 DEF Halves, Lengths
<1>3. CASE r = 16000
  BY <1>3 DEF Halves, Lengths
<1>4. CASE r = 24000
  BY <1>4 DEF Halves, Lengths
<1>5. CASE r = 48000
  BY <1>5 DEF Halves, Lengths
<1> QED
  BY <1>1, <1>2, <1>3, <1>4, <1>5 DEF Rates

\* The encoder is one that was asked for; what is on its way are Opus packets.
SoundTyped ==
  /\ encoder # NoEncoder => encoder \in given /\ Supported(encoder)
  /\ encoded \in Nat /\ clock \in Nat /\ short \in Nat
  /\ packets \in Seq(Lengths)
  /\ end \in [rate : Nat, channels : Nat]
  /\ decoded \in Nat

SoundInv == SoundTyped /\ TrackKeepsTime /\ SoundKeepsLength

LEMMA InitSoundInv == AudioInit => SoundInv
<1> SUFFICES ASSUME AudioInit PROVE SoundInv
  OBVIOUS
<1>1. SoundTyped
  BY AudioAssumption DEF AudioInit, SoundTyped
<1> QED
  BY <1>1 DEF AudioInit, SoundInv, TrackKeepsTime, SoundKeepsLength

\* A frame meets an encoder that was asked for.
LEMMA FrameMeetsEncoder ==
  ASSUME SoundTyped, NEW f \in Frames, Offered(f)
  PROVE  /\ encoder' \in given' /\ Supported(encoder') /\ encoder' = EncoderFor(f)
         /\ given' = given \cup {ParamsOf(f)}
         /\ UNCHANGED sourceVars
  BY DEF SoundTyped, Offered, EncoderFor

\* What an encoder that was made for the frame takes lasts as long as the frame
\* says, but for the shortest.
LEMMA EncodedLengths ==
  ASSUME NEW f \in Frames, Supported(EncoderFor(f)), f.bytes % 2 = 0, f.format = "I16Le",
         IsEncodable(f)
  PROVE  LET sound == Halves(SamplesTaken(f, EncoderFor(f)), EncoderFor(f).rate) IN
           /\ sound \in Lengths
           /\ EncoderFor(f) = ParamsOf(f) =>
                Duration(f) \in Nat /\ sound = Duration(f) + (IF sound = 5 THEN 1 ELSE 0)
<1> DEFINE e == EncoderFor(f)  n == SamplesTaken(f, e)
<1>1. e.rate \in Rates /\ e.channels \in {1, 2} /\ n \in OpusSizes(e.rate)
  BY DEF Supported, IsEncodable, Rates
<1>2. /\ Halves(n, e.rate) \in Lengths
      /\ Halves(n, e.rate) = 2 * ((n * 1000) \div e.rate)
                             + (IF Halves(n, e.rate) = 5 THEN 1 ELSE 0)
  BY <1>1, OpusLengths
<1>3. ASSUME e = ParamsOf(f)
      PROVE  /\ Duration(f) \in Nat
             /\ Halves(n, e.rate) = Duration(f) + (IF Halves(n, e.rate) = 5 THEN 1 ELSE 0)
  <2>1. f.rate = e.rate /\ f.channels = e.channels
    BY <1>3 DEF ParamsOf
  <2>2. f.bytes \in Nat
    BY AudioAssumption
  <2>3. SamplesPerChannel(f) = n
    <3>1. CASE f.channels = 1
      BY <2>1, <2>2, <3>1 DEF SamplesPerChannel, BytesPerSample, SamplesTaken
    <3>2. CASE f.channels = 2
      BY <2>1, <2>2, <3>2 DEF SamplesPerChannel, BytesPerSample, SamplesTaken
    <3> QED
      BY <1>1, <2>1, <3>1, <3>2
  <2>4. Duration(f) = 2 * ((n * 1000) \div e.rate)
    BY <2>1, <2>3 DEF Duration
  <2>5. Halves(n, e.rate) \in Nat /\ 2 * ((n * 1000) \div e.rate) \in Nat
    <3>1. n \in Nat
      BY <1>1, <2>2 DEF SamplesTaken
    <3>2. (n * 1000) \div e.rate \in Nat
      BY <1>1, <3>1 DEF Rates
    <3> QED
      BY <1>2, <3>2 DEF Lengths
  <2> QED
    BY <1>2, <2>4, <2>5
<1> QED
  BY <1>2, <1>3

LEMMA WritingKeepsSound ==
  ASSUME SoundInv, NEW f \in Frames, WriteSample(f) PROVE SoundInv'
<1> DEFINE sound == Halves(SamplesTaken(f, EncoderFor(f)), EncoderFor(f).rate)
<1>1. /\ Offered(f) /\ f.format = "I16Le" /\ f.bytes % 2 = 0 /\ IsEncodable(f)
      /\ Supported(EncoderFor(f))
  BY DEF WriteSample, Encodes, Offered
<1>2. /\ packets' = Append(packets, sound) /\ encoded' = encoded + sound
      /\ clock' = clock + Duration(f)
      /\ short' = short + (IF sound = 5 THEN 1 ELSE 0)
  BY DEF WriteSample
<1>3. /\ encoder' \in given' /\ Supported(encoder') /\ encoder' = EncoderFor(f)
      /\ given' = given \cup {ParamsOf(f)} /\ UNCHANGED sourceVars
  BY <1>1, FrameMeetsEncoder DEF SoundInv
<1>4. /\ sound \in Lengths
      /\ EncoderFor(f) = ParamsOf(f) =>
           Duration(f) \in Nat /\ sound = Duration(f) + (IF sound = 5 THEN 1 ELSE 0)
  BY <1>1, EncodedLengths
<1> HIDE DEF sound
<1>5. sound \in Nat
  BY <1>4 DEF Lengths
<1>6. Duration(f) \in Nat
  <2>1. f.rate \in Nat \ {0} /\ f.channels \in Nat /\ f.bytes \in Nat
    BY AudioAssumption DEF WriteSample, Encodes
  <2>2. \A d \in Nat \ {0}, n \in Nat : n \div d \in Nat
    OBVIOUS
  <2>3. f.channels # 0 => f.channels * 2 \in Nat \ {0}
    BY <2>1
  <2>4. SamplesPerChannel(f) \in Nat
    BY <1>1, <2>1, <2>2, <2>3 DEF SamplesPerChannel, BytesPerSample
  <2>5. (SamplesPerChannel(f) * 1000) \div f.rate \in Nat
    BY <2>1, <2>2, <2>4
  <2> QED
    BY <2>5 DEF Duration
<1>7. SoundTyped'
  BY <1>2, <1>3, <1>4, <1>5, <1>6 DEF SoundInv, SoundTyped, sourceVars
<1>8. TrackKeepsTime'
  <2> SUFFICES ASSUME \A p, q \in given' : p = q PROVE encoded' = clock' + short'
    BY DEF TrackKeepsTime
  <2>1. EncoderFor(f) = ParamsOf(f)
    BY <1>3
  <2>2. encoded = clock + short
    BY <1>3 DEF SoundInv, TrackKeepsTime
  <2>3. sound = Duration(f) + (IF sound = 5 THEN 1 ELSE 0)
    BY <1>4, <2>1
  <2>4. encoded \in Nat /\ clock \in Nat /\ short \in Nat
    BY DEF SoundInv, SoundTyped
  <2> QED
    BY <1>2, <1>5, <1>6, <2>2, <2>3, <2>4
<1> QED
  BY <1>3, <1>7, <1>8 DEF SoundInv, SoundKeepsLength, sourceVars

LEMMA DecodingKeepsSound == ASSUME SoundInv, Decode PROVE SoundInv'
<1> DEFINE d == Head(packets)  n == (d * end.rate) \div 2000
<1>1. d \in Lengths /\ packets' \in Seq(Lengths)
  <2> HIDE DEF Lengths
  <2> QED
    BY DEF Decode, SoundInv, SoundTyped
<1>2. end.rate \in Rates /\ end.channels \in {1, 2}
  BY DEF Decode, Supported, Rates
<1>3. n \in Nat /\ Halves(n, end.rate) = d
  BY <1>1, <1>2, DecodedLengths
<1>4. returned' = returned + d
  <2> DEFINE frame == [rate |-> end.rate, channels |-> end.channels, format |-> "I16Le",
                       bytes |-> 2 * TotalSamples(n)]
  <2>1. returned' = returned + Halves(SamplesPerChannel(frame), frame.rate)
    BY DEF Decode
  <2>2. SamplesPerChannel(frame) = (2 * (n * end.channels)) \div (end.channels * 2)
    BY <1>2 DEF SamplesPerChannel, BytesPerSample, TotalSamples
  <2>3. 2 * (n * end.channels) = n * end.channels * 2
    BY <1>2, <1>3
  <2>4. SamplesPerChannel(frame) = n
    BY <1>2, <1>3, <2>2, <2>3, SamplesAgree
  <2> QED
    BY <1>3, <2>1, <2>4
<1>5. decoded' = decoded + d /\ UNCHANGED <<sinkVars, end, source>>
  BY DEF Decode
<1>6. d \in Nat
  BY <1>1 DEF Lengths
<1>7. SoundTyped'
  BY <1>1, <1>5, <1>6 DEF SoundInv, SoundTyped, sinkVars
<1>8. TrackKeepsTime'
  BY <1>5 DEF SoundInv, TrackKeepsTime, sinkVars
<1>9. SoundKeepsLength'
  BY <1>4, <1>5 DEF SoundInv, SoundKeepsLength
<1> QED
  BY <1>7, <1>8, <1>9 DEF SoundInv

LEMMA StepSoundInv == SoundInv /\ [AudioNext]_audioVars => SoundInv'
<1> SUFFICES ASSUME SoundInv, [AudioNext]_audioVars PROVE SoundInv'
  OBVIOUS
<1>1. ASSUME NEW c \in Configs, InitSink(c) PROVE SoundInv'
  <2>1. /\ given' = given \cup {c} /\ encoder = NoEncoder
        /\ (encoder' = c /\ Supported(c)) \/ encoder' = encoder
        /\ UNCHANGED <<encoded, clock, short, packets, sourceVars>>
    BY <1>1 DEF InitSink
  <2> QED
    BY <2>1 DEF SoundInv, SoundTyped, TrackKeepsTime, SoundKeepsLength, sourceVars
<1>2. ASSUME NEW f \in Frames, NoEncoderFor(f) PROVE SoundInv'
  BY <1>2 DEF NoEncoderFor, SoundInv, SoundTyped, TrackKeepsTime, SoundKeepsLength, sourceVars
<1>3. ASSUME NEW f \in Frames, RefuseFrame(f) \/ PanicOn(f) \/ WriteFails(f) PROVE SoundInv'
  <2>1. Offered(f) /\ UNCHANGED <<encoded, clock, short, packets>>
    BY <1>3 DEF RefuseFrame, PanicOn, WriteFails, Encodes
  <2>2. /\ encoder' \in given' /\ Supported(encoder')
        /\ given' = given \cup {ParamsOf(f)} /\ UNCHANGED sourceVars
    BY <2>1, FrameMeetsEncoder DEF SoundInv
  <2> QED
    BY <2>1, <2>2 DEF SoundInv, SoundTyped, TrackKeepsTime, SoundKeepsLength, sourceVars
<1>4. CASE LosePacket \/ SkipPacket
  <2> HIDE DEF Lengths
  <2>1. packets' \in Seq(Lengths) /\ UNCHANGED <<sinkVars, sourceVars>>
    BY <1>4 DEF LosePacket, SkipPacket, SoundInv, SoundTyped
  <2> QED
    BY <2>1 DEF SoundInv, SoundTyped, TrackKeepsTime, SoundKeepsLength, sinkVars, sourceVars
<1>5. CASE AwaitTrack \/ ShutdownSource \/ AudioQuiet \/ UNCHANGED audioVars
  <2>1. UNCHANGED <<sinkVars, packets, end, decoded, returned>>
    BY <1>5 DEF AwaitTrack, ShutdownSource, AudioQuiet, audioVars, sourceVars
  <2> QED
    BY <2>1 DEF SoundInv, SoundTyped, TrackKeepsTime, SoundKeepsLength, sinkVars
<1>6. CASE Decode
  BY <1>6, DecodingKeepsSound
<1> QED
  BY <1>1, <1>2, <1>3, <1>4, <1>5, <1>6, WritingKeepsSound DEF AudioNext

\* As long as init and the frames agree, whatever their rate and channels, the
\* track's clock is behind the sound only by the half milliseconds that are cut
\* off frames of 2.5 ms (audio_sink.rs:187-189).
THEOREM TrackIsOnTime == AudioSpec => []TrackKeepsTime
<1>1. SoundInv => TrackKeepsTime
  BY DEF SoundInv
<1> QED
  BY <1>1, InitSoundInv, StepSoundInv, PTL DEF AudioSpec

\* The frames the source returns last as long as the packets it has decoded,
\* for any rate and channels at either end (audio_source.rs:160-171).
THEOREM SoundIsKept == AudioSpec => []SoundKeepsLength
<1>1. SoundInv => SoundKeepsLength
  BY DEF SoundInv
<1> QED
  BY <1>1, InitSoundInv, StepSoundInv, PTL DEF AudioSpec

-----------------------------------------------------------------------------
ImageSpec == ImageInit /\ [][ImageNext]_imageVars

\* A product of sides is a number of bytes.
LEMMA PixelsNat == ASSUME NEW w \in Nat, NEW h \in Nat PROVE Pixels(w, h) \in Nat
<1>1. w * h \in Nat
  OBVIOUS
<1>2. \A n \in Nat : n % Modulus \in Nat
  BY SidesAssumption
<1> QED
  BY <1>1, <1>2 DEF Pixels

\* Three planes, of which two are rounded down, are not larger than one and a
\* half, which is rounded down once.
LEMMA PlanesFit == ASSUME NEW y \in Nat PROVE y + 2 * (y \div 4) <= (y * 3) \div 2
  OBVIOUS

Sized == image.length = FrameSize(image.width, image.height)

Framed ==
  /\ image \in [width : Nat, height : Nat, length : Int]
  /\ outcome = "ok" => Sized

LEMMA InitFramed == ImageInit => Framed
<1>1. (0 * 0) % Modulus = 0
  BY SidesAssumption
<1> QED
  BY <1>1 DEF ImageInit, Framed, Sized, FrameSize, Pixels

LEMMA FrameSizeInt == ASSUME NEW w \in Nat, NEW h \in Nat PROVE FrameSize(w, h) \in Int
  BY PixelsNat DEF FrameSize

LEMMA StepFramed == Framed /\ [ImageNext]_imageVars => Framed'
<1> SUFFICES ASSUME Framed, ImageNext PROVE Framed'
  BY DEF Framed, Sized, imageVars
<1>1. PICK w \in Sides, h \in Sides :
        \/ New(w, h) \/ CopyDecoded(w, h) \/ PaintBars(w, h)
        \/ \E length \in {FrameSize(w, h), CopyLength(w, h)} : FromRaw(w, h, length)
  BY DEF ImageNext
<1>2. w \in Nat /\ h \in Nat /\ FrameSize(w, h) \in Int
  BY SidesAssumption, FrameSizeInt
<1>3. CopyLength(w, h) \in Int
  BY <1>2, PixelsNat DEF CopyLength
<1>4. CASE New(w, h)
  BY <1>2, <1>4 DEF New, Made, Framed, Sized
<1>5. CASE CopyDecoded(w, h)
  BY <1>2, <1>3, <1>5 DEF CopyDecoded, Made, Framed, Sized
<1>6. CASE PaintBars(w, h)
  BY <1>2, <1>6 DEF PaintBars, Made, Framed, Sized
<1>7. CASE \E length \in {FrameSize(w, h), CopyLength(w, h)} : FromRaw(w, h, length)
  BY <1>2, <1>3, <1>7 DEF FromRaw, Made, Framed, Sized
<1> QED
  BY <1>1, <1>4, <1>5, <1>6, <1>7

\* A frame of the length of its format has its planes.
LEMMA SizedHasPlanes == Framed => PlanesInside
<1> SUFFICES ASSUME Framed, outcome = "ok"
             PROVE  PlaneY(image.width, image.height) \cup PlaneU(image.width, image.height)
                      \cup PlaneV(image.width, image.height) \subseteq 0..(image.length - 1)
  BY DEF PlanesInside
<1> DEFINE y == Pixels(image.width, image.height)
<1>1. y \in Nat
  BY PixelsNat DEF Framed
<1>2. image.length = (y * 3) \div 2 /\ y + 2 * (y \div 4) <= image.length
  BY <1>1, PlanesFit DEF Framed, Sized, FrameSize
<1>3. PlaneY(image.width, image.height) = 0..(y - 1)
      /\ PlaneU(image.width, image.height) = y..(y + y \div 4 - 1)
      /\ PlaneV(image.width, image.height) = (y + y \div 4)..(y + 2 * (y \div 4) - 1)
  BY DEF PlaneY, PlaneU, PlaneV, Quarter
<1> HIDE DEF y
<1>4. image.length \in Int /\ y \div 4 \in Nat
  BY <1>1, <1>2
<1> QED
  BY <1>1, <1>2, <1>3, <1>4

\* i420_planes does not panic on a frame that was made (media.rs:104-116): for
\* every width and height, odd ones as well, and however their product wraps.
THEOREM PlanesAreInside == ImageSpec => []PlanesInside
<1> QED
  BY InitFramed, StepFramed, SizedHasPlanes, PTL DEF ImageSpec

-----------------------------------------------------------------------------
\* A picture of even sides: twice as many columns and rows as its colours have.
LEMMA EvenSides ==
  ASSUME NEW w \in Nat, NEW h \in Nat, w % 2 = 0, h % 2 = 0, w * h < Modulus
  PROVE  /\ w \div 2 \in Nat /\ w = 2 * (w \div 2)
         /\ h \div 2 \in Nat /\ h = 2 * (h \div 2)
         /\ (w \div 2) * (h \div 2) \in Nat
         /\ w * h = 4 * ((w \div 2) * (h \div 2))
         /\ Pixels(w, h) = 4 * ((w \div 2) * (h \div 2))
         /\ Pixels(w, h) \div 4 = (w \div 2) * (h \div 2)
<1> DEFINE a == w \div 2  b == h \div 2
<1>1. a \in Nat /\ b \in Nat /\ w = 2 * a /\ h = 2 * b
  OBVIOUS
<1> HIDE DEF a, b
<1>2. \A x, y \in Nat : x * y \in Nat
  OBVIOUS
<1>3. a * b \in Nat
  BY <1>1, <1>2
<1>4. w * h = 4 * (a * b)
  BY <1>1
<1> DEFINE m == a * b
<1> HIDE DEF m
<1>5. m \in Nat /\ w * h = 4 * m
  BY <1>3, <1>4 DEF m
<1>6. Pixels(w, h) = 4 * m
  BY <1>5, SidesAssumption DEF Pixels
<1>7. Pixels(w, h) \div 4 = m
  BY <1>5, <1>6
<1> QED
  BY <1>1, <1>5, <1>6, <1>7 DEF m, a, b

\* Rows of w positions, one after the other, are the positions up to the last.
LEMMA Grid ==
  ASSUME NEW w \in Nat \ {0}, NEW h \in Nat
  PROVE  /\ \A r \in 0..(h - 1), c \in 0..(w - 1) : r * w + c \in 0..(w * h - 1)
         /\ \A x \in 0..(w * h - 1) :
              \E r \in 0..(h - 1), c \in 0..(w - 1) : x = r * w + c
<1>1. ASSUME NEW r \in 0..(h - 1), NEW c \in 0..(w - 1) PROVE r * w + c \in 0..(w * h - 1)
  <2>1. w * r \in Int /\ w * (h - 1) \in Int /\ w * r <= w * (h - 1)
    BY Product
  <2>2. w * 0 <= w * r
    BY Product
  <2>3. w * (h - 1) = w * h - w /\ r * w = w * r /\ w * h \in Int
    OBVIOUS
  <2> QED
    BY <2>1, <2>2, <2>3
<1>2. ASSUME NEW x \in 0..(w * h - 1)
      PROVE  \E r \in 0..(h - 1), c \in 0..(w - 1) : x = r * w + c
  <2> DEFINE r == x \div w  c == x % w
  <2>0. w * h \in Nat
    OBVIOUS
  <2>1. r \in Int /\ c \in 0..(w - 1) /\ x = w * r + c /\ x \in Nat
    BY <2>0, Division
  <2> HIDE DEF r, c
  <2>2. ~(r >= h)
    <3> SUFFICES ASSUME r >= h PROVE FALSE
      OBVIOUS
    <3>1. w * h \in Int /\ w * r \in Int /\ w * h <= w * r
      BY <2>1, Product
    <3> QED
      BY <2>1, <3>1
  <2>3. ~(r < 0)
    <3> SUFFICES ASSUME r < 0 PROVE FALSE
      OBVIOUS
    <3>1. r <= -1 /\ -1 \in Int
      BY <2>1
    <3>2. w * r <= w * (-1) /\ w * r \in Int
      BY <2>1, <3>1, Product
    <3>3. w * (-1) = -w
      OBVIOUS
    <3> QED
      BY <2>1, <3>2, <3>3
  <2>4. r \in 0..(h - 1)
    BY <2>1, <2>2, <2>3
  <2>5. x = r * w + c
    BY <2>1
  <2> QED
    BY <2>1, <2>4, <2>5
<1> QED
  BY <1>1, <1>2

\* The parts of a frame of even sides, and what is copied into it.
LEMMA PlanesOfEven ==
  ASSUME NEW w \in Nat, NEW h \in Nat, w % 2 = 0, h % 2 = 0, w * h < Modulus
  PROVE  LET m == (w \div 2) * (h \div 2) IN
           /\ FrameSize(w, h) = 6 * m /\ CopyLength(w, h) = 6 * m
           /\ Copied(w, h) = 0..(6 * m - 1)
           /\ PlaneY(w, h) = 0..(w * h - 1)
           /\ PlaneU(w, h) = Rows(w * h, h \div 2, w \div 2)
           /\ PlaneV(w, h) = Rows(w * h + m, h \div 2, w \div 2)
<1> DEFINE a == w \div 2  b == h \div 2  m == a * b  y == Pixels(w, h)
<1>1. m \in Nat /\ w * h = 4 * m /\ y = 4 * m /\ y \div 4 = m
  BY EvenSides
<1>2. b * a = m /\ h * w = w * h
  OBVIOUS
<1>3. \A s \in Int : Rows(s, b, a) = s..(s + m - 1)
  BY <1>2 DEF Rows
<1>4. Rows(0, h, w) = 0..(4 * m - 1)
  BY <1>1, <1>2 DEF Rows
<1>5. Copied(w, h) = Rows(0, h, w) \cup Rows(y, b, a) \cup Rows(y + y \div 4, b, a)
  BY DEF Copied
<1>6. /\ PlaneY(w, h) = 0..(y - 1) /\ PlaneU(w, h) = y..(y + y \div 4 - 1)
      /\ PlaneV(w, h) = (y + y \div 4)..(y + 2 * (y \div 4) - 1)
  BY DEF PlaneY, PlaneU, PlaneV, Quarter
<1>7. FrameSize(w, h) = (y * 3) \div 2 /\ CopyLength(w, h) = y + 2 * (y \div 4)
  BY DEF FrameSize, CopyLength
<1> HIDE DEF m, y, a, b
<1>8. 4 * m \in Int /\ 4 * m + m \in Int
  BY <1>1
<1>9. /\ Rows(y, b, a) = (4 * m)..(5 * m - 1)
      /\ Rows(y + y \div 4, b, a) = (5 * m)..(6 * m - 1)
  <2>1. Rows(4 * m, b, a) = (4 * m)..(4 * m + m - 1)
        /\ Rows(4 * m + m, b, a) = (4 * m + m)..(4 * m + m + m - 1)
    BY <1>3, <1>8
  <2>2. 4 * m + m = 5 * m /\ 4 * m + m + m = 6 * m
    BY <1>1
  <2> QED
    BY <1>1, <2>1, <2>2
<1>10. Copied(w, h) = 0..(6 * m - 1)
  BY <1>1, <1>4, <1>5, <1>9
<1>11. (y * 3) \div 2 = 6 * m /\ y + 2 * (y \div 4) = 6 * m
  BY <1>1
<1>12. PlaneU(w, h) = Rows(w * h, b, a) /\ PlaneV(w, h) = Rows(w * h + m, b, a)
  <2>1. y + y \div 4 - 1 = 5 * m - 1 /\ y + y \div 4 = 5 * m
        /\ y + 2 * (y \div 4) - 1 = 6 * m - 1
    BY <1>1
  <2>2. w * h = y /\ w * h + m = y + y \div 4
    BY <1>1
  <2> QED
    BY <1>1, <1>6, <1>9, <2>1, <2>2
<1> QED
  BY <1>1, <1>6, <1>7, <1>10, <1>11, <1>12 DEF m, a, b

\* The demo paints each position once, and each colour.
LEMMA PaintedIsAll ==
  ASSUME NEW w \in Nat, NEW h \in Nat, w % 2 = 0, h % 2 = 0, w * h < Modulus, w >= 8
  PROVE  Painted(w, h) = 0..(6 * ((w \div 2) * (h \div 2)) - 1)
<1> DEFINE a == w \div 2  b == h \div 2  m == a * b  y == w * h
           E(n) == {i \in 0..(n - 1) : i % 2 = 0}
           Lights == {row * w + col : row \in 0..(h - 1), col \in 0..(w - 1)}
           Both(r, c) == {y + ColourAt(w, r, c), y + y \div 4 + ColourAt(w, r, c)}
           Colours == UNION {Both(r, c) : r \in E(h), c \in E(w)}
<1>1. /\ a \in Nat /\ w = 2 * a /\ b \in Nat /\ h = 2 * b
      /\ m \in Nat /\ y = 4 * m /\ y \div 4 = m
  <2>1. a \in Nat /\ w = 2 * a /\ b \in Nat /\ h = 2 * b /\ m \in Nat /\ y = 4 * m
    BY EvenSides
  <2> HIDE DEF a, b, m, y
  <2>2. y \div 4 = m
    BY <2>1
  <2> QED
    BY <2>1, <2>2
<1>2. Painted(w, h) = Lights \cup Colours
  BY DEF Painted
<1>3. a \in Nat \ {0} /\ w \in Nat \ {0} /\ a * b = m /\ w * h = y
  BY <1>1
<1>4. ASSUME NEW x
      PROVE  x \in Lights <=> x \in 0..(y - 1)
  <2>1. /\ \A r \in 0..(h - 1), c \in 0..(w - 1) : r * w + c \in 0..(w * h - 1)
        /\ \A z \in 0..(w * h - 1) :
             \E r \in 0..(h - 1), c \in 0..(w - 1) : z = r * w + c
    BY <1>3, Grid
  <2>2. x \in Lights <=> \E r \in 0..(h - 1), c \in 0..(w - 1) : x = r * w + c
    OBVIOUS
  <2> HIDE DEF Lights
  <2> QED
    BY <2>1, <2>2
<1>5. /\ \A r \in E(h), c \in E(w) : ColourAt(w, r, c) \in 0..(m - 1)
      /\ \A z \in 0..(m - 1) : \E r \in E(h), c \in E(w) : z = ColourAt(w, r, c)
  <2>1. /\ \A r \in 0..(b - 1), c \in 0..(a - 1) : r * a + c \in 0..(a * b - 1)
        /\ \A z \in 0..(a * b - 1) :
             \E r \in 0..(b - 1), c \in 0..(a - 1) : z = r * a + c
    BY <1>1, <1>3, Grid
  <2> HIDE DEF a, b, m
  <2>2. ASSUME NEW r \in E(h), NEW c \in E(w) PROVE ColourAt(w, r, c) \in 0..(m - 1)
    <3>1. r \div 2 \in 0..(b - 1) /\ c \div 2 \in 0..(a - 1)
      BY <1>1
    <3>2. (r \div 2) * a + (c \div 2) \in 0..(m - 1)
      BY <1>3, <2>1, <3>1
    <3> QED
      BY <3>2 DEF ColourAt, a
  <2>3. ASSUME NEW z \in 0..(m - 1)
        PROVE  \E r \in E(h), c \in E(w) : z = ColourAt(w, r, c)
    <3>1. PICK r \in 0..(b - 1), c \in 0..(a - 1) : z = r * a + c
      BY <1>3, <2>1
    <3>2. 2 * r \in E(h) /\ 2 * c \in E(w) /\ (2 * r) \div 2 = r /\ (2 * c) \div 2 = c
      BY <1>1
    <3>3. z = ColourAt(w, 2 * r, 2 * c)
      BY <3>1, <3>2 DEF ColourAt, a
    <3> QED
      BY <3>2, <3>3
  <2> QED
    BY <2>2, <2>3
<1>6. ASSUME NEW x
      PROVE  x \in Colours <=> \E z \in 0..(m - 1) : x = y + z \/ x = y + m + z
  <2> HIDE DEF m, y, E
  <2>1. x \in Colours <=>
          \E r \in E(h), c \in E(w) : x = y + ColourAt(w, r, c) \/ x = y + m + ColourAt(w, r, c)
    <3>1. \A r, c : x \in Both(r, c) <=>
                     x = y + ColourAt(w, r, c) \/ x = y + m + ColourAt(w, r, c)
      BY <1>1
    <3> HIDE DEF Both
    <3>2. x \in Colours <=> \E r \in E(h), c \in E(w) : x \in Both(r, c)
      OBVIOUS
    <3> HIDE DEF Colours
    <3> QED
      BY <3>1, <3>2
  <2> HIDE DEF Colours, E
  <2> QED
    BY <1>5, <2>1
<1> HIDE DEF m, y, Lights, Colours, E, a, b
<1>7. ASSUME NEW x PROVE x \in Lights \cup Colours <=> x \in 0..(6 * m - 1)
  <2>1. CASE x \in 0..(y - 1)
    BY <1>1, <1>4, <2>1
  <2>2. ASSUME NEW z \in 0..(m - 1), x = y + z \/ x = y + m + z PROVE x \in 0..(6 * m - 1)
    BY <1>1, <2>2
  <2>3. ASSUME x \in 0..(6 * m - 1), x \notin 0..(y - 1)
        PROVE  \E z \in 0..(m - 1) : x = y + z \/ x = y + m + z
    <3>1. CASE x < 5 * m
      <4>1. x - y \in 0..(m - 1) /\ x = y + (x - y)
        BY <1>1, <2>3, <3>1
      <4> QED
        BY <4>1
    <3>2. CASE x >= 5 * m
      <4>1. x - 5 * m \in 0..(m - 1) /\ x = y + m + (x - 5 * m)
        BY <1>1, <2>3, <3>2
      <4> QED
        BY <4>1
    <3> QED
      BY <1>1, <2>3, <3>1, <3>2
  <2> QED
    BY <1>4, <1>6, <2>1, <2>2, <2>3
<1>8. Painted(w, h) = 0..(6 * m - 1)
  BY <1>2, <1>7
<1> QED
  BY <1>8 DEF m, a, b

\* Each frame is measured when it is made.
LEMMA MakingMeasures ==
  ASSUME NEW w \in Nat, NEW h \in Nat, CopyDecoded(w, h) \/ PaintBars(w, h)
  PROVE  MadeToMeasure'
<1> DEFINE m == (w \div 2) * (h \div 2)
<1>1. w % 2 = 0 /\ h % 2 = 0 /\ w * h < Modulus
  BY DEF CopyDecoded, PaintBars
<1>2. /\ FrameSize(w, h) = 6 * m /\ CopyLength(w, h) = 6 * m
      /\ Copied(w, h) = 0..(6 * m - 1)
      /\ PlaneY(w, h) = 0..(w * h - 1)
      /\ PlaneU(w, h) = Rows(w * h, h \div 2, w \div 2)
      /\ PlaneV(w, h) = Rows(w * h + m, h \div 2, w \div 2)
  BY <1>1, PlanesOfEven
<1>3. w >= 8 => Painted(w, h) = 0..(6 * m - 1) /\ w \div 8 # 0
  <2>1. w >= 8 => Painted(w, h) = 0..(6 * m - 1)
    BY <1>1, PaintedIsAll
  <2>2. w >= 8 => w \div 8 # 0
    OBVIOUS
  <2> QED
    BY <2>1, <2>2
<1> HIDE DEF m
<1>4. w >= 8 =>
        /\ image' = [width |-> w, height |-> h, length |-> 6 * m]
        /\ written' = 0..(6 * m - 1) /\ outcome' = "ok"
  <2>1. CASE CopyDecoded(w, h)
    BY <1>2, <2>1 DEF CopyDecoded, Made, Writes
  <2>2. CASE PaintBars(w, h)
    BY <1>2, <1>3, <2>2 DEF PaintBars, Made, Writes
  <2> QED
    BY <2>1, <2>2
<1>5. image'.width = w
  BY DEF CopyDecoded, PaintBars, Made
<1>6. w >= 8 => image'.width = w /\ image'.height = h /\ image'.length = 6 * m
  BY <1>4
<1> QED
  BY <1>2, <1>4, <1>5, <1>6 DEF MadeToMeasure, m, PlaneY, PlaneU, PlaneV, Rows, Pixels

\* "Plane layout: Y (width*height) + U (width/2 * height/2) + V (width/2 *
\* height/2)" (media.rs:15), for all even sides whose product does not wrap: what
\* the source copies and the demo paints fills the frame, plane for plane.
THEOREM FramesAreMeasured == ImageSpec => []MadeToMeasure
<1>1. ImageInit => MadeToMeasure
  BY DEF ImageInit, MadeToMeasure
<1>2. MadeToMeasure /\ [ImageNext]_imageVars => MadeToMeasure'
  <2> SUFFICES ASSUME MadeToMeasure, [ImageNext]_imageVars PROVE MadeToMeasure'
    OBVIOUS
  <2>1. CASE UNCHANGED imageVars
    BY <2>1 DEF imageVars, MadeToMeasure
  <2>2. ASSUME NEW w \in Sides, NEW h \in Sides, CopyDecoded(w, h) \/ PaintBars(w, h)
        PROVE  MadeToMeasure'
    BY <2>2, SidesAssumption, MakingMeasures
  <2>3. ASSUME NEW w \in Sides, NEW h \in Sides, New(w, h) \/ \E n : FromRaw(w, h, n)
        PROVE  MadeToMeasure'
    BY <2>3 DEF New, FromRaw, Made, MadeToMeasure
  <2> QED
    BY <2>1, <2>2, <2>3 DEF ImageNext
<1> QED
  BY <1>1, <1>2, PTL DEF ImageSpec

-----------------------------------------------------------------------------
(***************************************************************************)
(* The depacketizer.                                                       *)
(***************************************************************************)

Parts == Nat \X Nat
Packets == [kind : {"single", "fu", "stap", "other"}, unit : Nat, part : Nat, of : Nat]

Typed ==
  /\ next \in Nat /\ part \in Nat /\ of \in Nat
  /\ net \in Seq(Packets) /\ overtaken \in BOOLEAN
  /\ arrived \subseteq Packets
  /\ fua_buffer \in Seq(Parts) /\ fua_active \in BOOLEAN
  /\ out \in Seq(Seq(Parts))
  /\ \A i \in 1..Len(net) : /\ net[i].kind = "single" => net[i].of = 1
                            /\ net[i].kind = "fu" => net[i].part > 0
  /\ \A f \in arrived : f.part > 0

\* What is left when one is taken out.
LEMMA Removed ==
  ASSUME NEW S, NEW s \in Seq(S), NEW i \in 1..Len(s)
  PROVE  /\ RemoveAt(s, i) \in Seq(S) /\ Len(RemoveAt(s, i)) = Len(s) - 1
         /\ \A j \in 1..(Len(s) - 1) : RemoveAt(s, i)[j] = s[IF j < i THEN j ELSE j + 1]
<1> DEFINE a == SubSeq(s, 1, i - 1)  b == SubSeq(s, i + 1, Len(s))
<1>1. /\ a \in Seq(S) /\ Len(a) = i - 1 /\ \A j \in 1..(i - 1) : a[j] = s[j]
  OBVIOUS
<1>2. /\ b \in Seq(S) /\ Len(b) = Len(s) - i /\ \A j \in 1..(Len(s) - i) : b[j] = s[j + i]
  OBVIOUS
<1>3. RemoveAt(s, i) = a \o b
  BY DEF RemoveAt
<1> HIDE DEF a, b
<1>4. /\ a \o b \in Seq(S) /\ Len(a \o b) = Len(s) - 1
      /\ \A j \in 1..(Len(s) - 1) : (a \o b)[j] = IF j <= Len(a) THEN a[j] ELSE b[j - Len(a)]
  <2>1. /\ a \o b \in Seq(S) /\ Len(a \o b) = Len(a) + Len(b)
        /\ \A j \in 1..(Len(a) + Len(b)) :
             (a \o b)[j] = IF j <= Len(a) THEN a[j] ELSE b[j - Len(a)]
    BY <1>1, <1>2, ConcatProperties
  <2> QED
    BY <1>1, <1>2, <2>1
<1>6. ASSUME NEW j \in 1..(Len(s) - 1) PROVE (a \o b)[j] = s[IF j < i THEN j ELSE j + 1]
  BY <1>1, <1>2, <1>4
<1> QED
  BY <1>3, <1>4, <1>6

\* The packets in the network after a step are some of those before it, in the
\* same order, or one more behind them.
LEMMA Thinned ==
  ASSUME Typed, NEW i \in DOMAIN net, net' = RemoveAt(net, i)
  PROVE  /\ net' \in Seq(Packets) /\ i \in 1..Len(net)
         /\ \A j \in 1..Len(net') : \E k \in 1..Len(net) : net'[j] = net[k] /\ k # i
         /\ \A j, k \in 1..Len(net') : j < k =>
              \E m, n \in 1..Len(net) :
                m < n /\ net'[j] = net[m] /\ net'[k] = net[n] /\ m # i /\ n # i
<1> DEFINE r == RemoveAt(net, i)  from(j) == IF j < i THEN j ELSE j + 1
<1>1. i \in 1..Len(net) /\ net \in Seq(Packets)
  BY DEF Typed
<1>2. /\ r \in Seq(Packets) /\ Len(r) = Len(net) - 1
      /\ \A j \in 1..(Len(net) - 1) : r[j] = net[from(j)]
  BY <1>1, Removed
<1> HIDE DEF r
<1>3. \A j \in 1..Len(r) : from(j) \in 1..Len(net) /\ from(j) # i /\ r[j] = net[from(j)]
  BY <1>1, <1>2
<1>4. \A j, k \in 1..Len(r) : j < k => from(j) < from(k)
  BY <1>1, <1>2
<1>5. net' = r
  BY DEF r
<1> HIDE DEF from
<1> QED
  BY <1>1, <1>2, <1>3, <1>4, <1>5


\* The packet that arrives was in the network.
LEMMA Arrival ==
  ASSUME Typed, NEW p, NEW k, Arrives(p, k)
  PROVE  \E i \in DOMAIN net :
           /\ i \in 1..Len(net) /\ p = net[i] /\ p \in Packets /\ net' = RemoveAt(net, i)
           /\ overtaken' = (overtaken \/ i > 1)
<1>1. PICK i \in DOMAIN net :
        net[i] = p /\ net' = RemoveAt(net, i) /\ overtaken' = (overtaken \/ i > 1)
  BY DEF Arrives
<1>2. i \in 1..Len(net) /\ p \in Packets
  BY <1>1 DEF Typed
<1> QED
  BY <1>1, <1>2

LEMMA InitTyped == Init => Typed
<1>1. \A S : <<>> \in Seq(S) /\ \A i : i \notin 1..Len(<<>>)
  OBVIOUS
<1> SUFFICES ASSUME Init PROVE Typed
  OBVIOUS
<1>2. /\ next = 1 /\ part = 0 /\ of = 0 /\ net = <<>> /\ overtaken = FALSE
      /\ arrived = {} /\ fua_buffer = <<>> /\ fua_active = FALSE /\ out = <<>>
  BY DEF Init
<1>3. next \in Nat /\ part \in Nat /\ of \in Nat
  BY <1>2
<1> QED
  BY <1>1, <1>2, <1>3, Zenon DEF Typed

\* What a packet brings is a sequence of parts.
LEMMA UnitsTyped ==
  ASSUME NEW p \in Packets
  PROVE  /\ <<<<p.unit, 1>>>> \in Seq(Parts)
         /\ [i \in 1..p.of |-> <<p.unit + i - 1, 1>>] \in Seq(Parts)
         /\ p.of \in Nat
         /\ Len([i \in 1..p.of |-> <<p.unit + i - 1, 1>>]) = p.of
<1>1. p.unit \in Nat /\ p.of \in Nat
  BY DEF Packets
<1>2. \A i \in 1..p.of : <<p.unit + i - 1, 1>> \in Parts
  BY <1>1 DEF Parts
<1>3. <<p.unit, 1>> \in Parts
  BY <1>1 DEF Parts
<1> QED
  BY <1>1, <1>2, <1>3

LEMMA SendTyped ==
  ASSUME Typed, SendSingle \/ SendAggregate \/ SendFragment \/ SendUnusable
  PROVE  Typed'
<1>1. ASSUME NEW p \in Packets, Transmit(p), next' \in Nat, part' \in Nat, of' \in Nat,
             p.kind = "single" => p.of = 1, p.kind = "fu" => p.part > 0
      PROVE  Typed'
  <2>1. /\ net' = Append(net, p) /\ net \in Seq(Packets)
        /\ UNCHANGED <<overtaken, arrived, fua_buffer, fua_active, out>>
    BY <1>1 DEF Typed, Transmit, depacketizer
  <2>2. /\ net' \in Seq(Packets)
        /\ \A i \in 1..Len(net') : net'[i] = p \/ (i \in 1..Len(net) /\ net'[i] = net[i])
    BY <2>1
  <2> QED
    BY <1>1, <2>1, <2>2 DEF Typed
<1>2. CASE SendSingle
  <2>1. Single(next) \in Packets /\ Single(next).of = 1 /\ Single(next).kind = "single"
    BY DEF Single, Packets, Typed
  <2> QED
    BY <1>1, <1>2, <2>1 DEF SendSingle, Typed
<1>3. CASE SendAggregate
  <2>1. PICK k \in 0..MaxParts : Transmit(Aggregate(next, k)) /\ next' = next + k
    BY <1>3 DEF SendAggregate
  <2>2. k \in Nat
    BY BoundsAssumption
  <2>3. Aggregate(next, k) \in Packets /\ Aggregate(next, k).kind = "stap"
    BY <2>2 DEF Aggregate, Packets, Typed
  <2> QED
    BY <1>1, <1>3, <2>1, <2>2, <2>3 DEF SendAggregate, Typed
<1>4. CASE SendFragment
  <2>1. PICK l \in 2..MaxParts :
          /\ Transmit(Fragment(next, part + 1, l))
          /\ \/ next' = next + 1 /\ part' = 0 /\ of' = 0
             \/ part' = part + 1 /\ of' = l /\ UNCHANGED next
    BY <1>4 DEF SendFragment
  <2>2. l \in Nat
    BY BoundsAssumption
  <2>3. /\ Fragment(next, part + 1, l) \in Packets /\ Fragment(next, part + 1, l).part > 0
        /\ Fragment(next, part + 1, l).kind = "fu"
    BY <2>2 DEF Fragment, Packets, Typed
  <2> QED
    BY <1>1, <2>1, <2>2, <2>3 DEF Typed
<1>5. CASE SendUnusable
  <2>1. Unusable \in Packets /\ Unusable.kind = "other"
    BY DEF Unusable, Packets
  <2> QED
    BY <1>1, <1>5, <2>1 DEF SendUnusable, Typed, sender
<1> QED
  BY <1>2, <1>3, <1>4, <1>5

LEMMA LoseTyped == ASSUME Typed, Lose PROVE Typed'
<1>1. PICK i \in DOMAIN net : net' = RemoveAt(net, i)
  BY DEF Lose
<1>2. /\ net' \in Seq(Packets)
      /\ \A j \in 1..Len(net') : \E k \in 1..Len(net) : net'[j] = net[k] /\ k # i
  BY <1>1, Thinned
<1> QED
  BY <1>2 DEF Typed, Lose, sender, depacketizer

LEMMA ProcessTyped == ASSUME Typed, NEW p, ProcessRtp(p) PROVE Typed'
<1>1. PICK k \in {"single", "fu", "stap", "other"} : Arrives(p, k)
  BY DEF ProcessRtp, SinglePacket, StapPacket, FuaPacket, UnusablePacket
<1>2. PICK i \in DOMAIN net :
        /\ i \in 1..Len(net) /\ p = net[i] /\ p \in Packets /\ net' = RemoveAt(net, i)
        /\ overtaken' = (overtaken \/ i > 1)
  BY <1>1, Arrival
<1>3. /\ net' \in Seq(Packets)
      /\ \A j \in 1..Len(net') : \E m \in 1..Len(net) : net'[j] = net[m] /\ m # i
  BY <1>2, Thinned
<1>4. /\ UNCHANGED sender /\ arrived' \in {arrived, arrived \cup {p}}
      /\ arrived' # arrived => p.kind = "fu"
  BY <1>1 DEF Arrives
<1>5. /\ next' \in Nat /\ part' \in Nat /\ of' \in Nat /\ overtaken' \in BOOLEAN
      /\ net' \in Seq(Packets) /\ arrived' \subseteq Packets
      /\ \A j \in 1..Len(net') : /\ net'[j].kind = "single" => net'[j].of = 1
                                 /\ net'[j].kind = "fu" => net'[j].part > 0
      /\ \A f \in arrived' : f.part > 0
  BY <1>2, <1>3, <1>4 DEF Typed, sender
<1>6. /\ <<>> \in Seq(Parts) /\ \A b \in Seq(Parts) : Append(out, b) \in Seq(Seq(Parts))
      /\ \A b \in Seq(Parts) : Append(b, <<p.unit, p.part>>) \in Seq(Parts)
  <2>1. p.unit \in Nat /\ p.part \in Nat
    BY <1>2 DEF Packets
  <2>2. <<p.unit, p.part>> \in Parts
    BY <2>1 DEF Parts
  <2> QED
    BY <2>2 DEF Typed
<1>7. CASE SinglePacket(p)
  <2>1. out' \in Seq(Seq(Parts)) /\ fua_buffer' = <<>> /\ fua_active' = FALSE
    BY <1>2, <1>6, <1>7, UnitsTyped DEF SinglePacket, ResetFua
  <2> QED
    BY <1>5, <1>6, <2>1 DEF Typed
<1>8. CASE StapPacket(p)
  <2>1. out' \in Seq(Seq(Parts)) /\ fua_buffer' = <<>> /\ fua_active' = FALSE
    BY <1>2, <1>6, <1>8, UnitsTyped DEF StapPacket, ResetFua, Typed
  <2> QED
    BY <1>5, <1>6, <2>1 DEF Typed
<1>9. CASE FuaPacket(p)
  <2>1. Collected(p) \in Seq(Parts)
    BY DEF Collected, Typed
  <2>2. /\ out' \in Seq(Seq(Parts)) /\ fua_buffer' \in Seq(Parts) /\ fua_active' \in BOOLEAN
    BY <1>6, <1>9, <2>1 DEF FuaPacket, End, ResetFua, Typed, depacketizer
  <2> QED
    BY <1>5, <2>2 DEF Typed
<1>10. CASE UnusablePacket(p)
  BY <1>5, <1>10 DEF UnusablePacket, Typed, depacketizer
<1> QED
  BY <1>7, <1>8, <1>9, <1>10 DEF ProcessRtp

LEMMA StepTyped == Typed /\ [Next]_vars => Typed'
<1>1. Typed /\ UNCHANGED vars => Typed'
  BY DEF Typed, vars, sender, depacketizer
<1> QED
  BY <1>1, SendTyped, LoseTyped, ProcessTyped DEF Next

-----------------------------------------------------------------------------
\* What is being collected begins with the start of a unit.
Begun ==
  /\ fua_active => fua_buffer # <<>> /\ fua_buffer[1][2] = 1
  /\ \A u \in ToSet(out) : StartsAndEnds(u)

\* What is returned, with one more unit.
LEMMA Returns ==
  ASSUME Typed, NEW b \in Seq(Parts), out' = Append(out, b)
  PROVE  ToSet(out') = ToSet(out) \cup {b}
<1>1. /\ out \in Seq(Seq(Parts)) /\ Append(out, b) \in Seq(Seq(Parts))
      /\ Len(Append(out, b)) = Len(out) + 1 /\ Len(out) \in Nat
      /\ \A i \in 1..Len(out) : Append(out, b)[i] = out[i]
      /\ Append(out, b)[Len(out) + 1] = b
  BY DEF Typed
<1>2. \A i : i \in 1..(Len(out) + 1) <=> i \in 1..Len(out) \/ i = Len(out) + 1
  BY <1>1
<1>3. DOMAIN out = 1..Len(out) /\ DOMAIN out' = 1..(Len(out) + 1)
  BY <1>1
<1> QED
  BY <1>1, <1>2, <1>3 DEF ToSet

LEMMA StepBegun == Typed /\ Begun /\ [Next]_vars => Begun'
<1> SUFFICES ASSUME Typed, Begun, [Next]_vars PROVE Begun'
  OBVIOUS
<1>1. ASSUME UNCHANGED <<out, fua_buffer, fua_active>>, arrived \subseteq arrived' PROVE Begun'
  BY <1>1 DEF Begun, StartsAndEnds
<1>2. CASE UNCHANGED vars \/ SendSingle \/ SendAggregate \/ SendFragment \/ SendUnusable \/ Lose
  BY <1>1, <1>2 DEF vars, depacketizer, SendSingle, SendAggregate, SendFragment, SendUnusable,
     Transmit, Lose
<1>3. ASSUME NEW b \in Seq(Parts), out' = Append(out, b), arrived \subseteq arrived',
             ResetFua, b[1][2] = 1,
             Last(b)[2] = 1 \/ \E p \in arrived' : p.part = p.of /\ Last(b) = <<p.unit, p.part>>
      PROVE  Begun'
  <2>1. ToSet(out') = ToSet(out) \cup {b}
    BY <1>3, Returns
  <2> QED
    BY <1>3, <2>1 DEF Begun, StartsAndEnds, ResetFua
<1>4. ASSUME NEW p, ProcessRtp(p) PROVE Begun'
  <2>1. PICK k \in {"single", "fu", "stap", "other"} : Arrives(p, k)
    BY <1>4 DEF ProcessRtp, SinglePacket, StapPacket, FuaPacket, UnusablePacket
  <2>2. p \in Packets /\ arrived \subseteq arrived' /\ (p.kind = "fu" => p \in arrived')
    BY <2>1, Arrival DEF Arrives
  <2>3. p.unit \in Nat /\ p.part \in Nat /\ p.of \in Nat /\ <<p.unit, p.part>> \in Parts
    BY <2>2 DEF Packets, Parts
  <2>4. CASE SinglePacket(p)
    <3> DEFINE b == <<<<p.unit, 1>>>>
    <3>1. b \in Seq(Parts) /\ b[1][2] = 1 /\ Last(b)[2] = 1
      BY <2>2, UnitsTyped DEF Last
    <3> QED
      BY <1>3, <2>2, <2>4, <3>1 DEF SinglePacket
  <2>5. CASE StapPacket(p)
    <3> DEFINE b == [i \in 1..p.of |-> <<p.unit + i - 1, 1>>]
    <3>1. CASE p.of = 0
      BY <2>2, <2>5, <3>1 DEF StapPacket, ResetFua, Begun, StartsAndEnds
    <3>2. CASE p.of # 0
      <4>1. b \in Seq(Parts) /\ Len(b) = p.of /\ 1 \in 1..p.of /\ p.of \in 1..p.of
        BY <2>2, <2>3, <3>2, UnitsTyped
      <4>2. b[1][2] = 1 /\ Last(b)[2] = 1
        BY <4>1 DEF Last
      <4>3. out' = Append(out, b) /\ ResetFua
        BY <2>5, <3>2 DEF StapPacket
      <4> HIDE DEF b
      <4> QED
        BY <1>3, <2>2, <4>1, <4>2, <4>3
    <3> QED
      BY <3>1, <3>2
  <2>6. CASE FuaPacket(p)
    <3> DEFINE c == Collected(p)  b == Append(c, <<p.unit, p.part>>)
    <3>1. CASE Orphan(p)
      BY <1>1, <2>2, <2>6, <3>1 DEF FuaPacket, depacketizer, End, Orphan
    <3>2. CASE ~Orphan(p)
      <4>1. c \in Seq(Parts) /\ (c # <<>> => c[1][2] = 1) /\ (c = <<>> => p.part = 1)
        BY <3>2 DEF Collected, Orphan, Begun, Typed
      <4> HIDE DEF c
      <4>2. b \in Seq(Parts) /\ b # <<>> /\ Last(b) = <<p.unit, p.part>>
        BY <2>3, <4>1 DEF Last
      <4>3. b[1][2] = 1
        BY <2>3, <4>1
      <4>4. \/ out' = Append(out, b) /\ ResetFua /\ p.part = p.of
            \/ fua_buffer' = b /\ fua_active' = TRUE /\ UNCHANGED out
        BY <2>6, <3>2 DEF FuaPacket, End, c
      <4> HIDE DEF b
      <4>5. p.kind = "fu"
        BY <2>6 DEF FuaPacket, Arrives
      <4>6. CASE out' = Append(out, b) /\ ResetFua /\ p.part = p.of
        BY <1>3, <2>2, <4>2, <4>3, <4>5, <4>6
      <4>7. CASE fua_buffer' = b /\ fua_active' = TRUE /\ UNCHANGED out
        BY <2>2, <4>2, <4>3, <4>7 DEF Begun, StartsAndEnds
      <4> QED
        BY <4>4, <4>6, <4>7
    <3> QED
      BY <3>1, <3>2
  <2>7. CASE UnusablePacket(p)
    BY <1>1, <2>2, <2>7 DEF UnusablePacket, depacketizer
  <2> QED
    BY <1>4, <2>4, <2>5, <2>6, <2>7 DEF ProcessRtp
<1> QED
  BY <1>2, <1>4 DEF Next

-----------------------------------------------------------------------------
\* The order of the parts: those that were returned, those collected, those on
\* their way, the next to be sent.
Precede(S, T) == \A x \in S, y \in T : Before(x, y)
Sorted(s) == \A k, l \in DOMAIN s : k < l => Before(s[k], s[l])

Given == UNION {ToSet(u) : u \in ToSet(out)}
Past == Given \cup ToSet(fua_buffer) \cup {<<f.unit, f.part>> : f \in arrived}
Cursor == <<next, part + 1>>

OutSorted ==
  \A i, j \in DOMAIN out : \A k \in DOMAIN out[i], l \in DOMAIN out[j] :
    i < j \/ (i = j /\ k < l) => Before(out[i][k], out[j][l])

Ordered ==
  /\ OutSorted /\ Sorted(fua_buffer) /\ Precede(Given, ToSet(fua_buffer))
  /\ Precede(Past, {Cursor})
  /\ \A i \in 1..Len(net) :
       /\ Precede(Past, Carries(net[i])) /\ Precede(Carries(net[i]), {Cursor})
       /\ \A j \in 1..Len(net) : i < j => Precede(Carries(net[i]), Carries(net[j]))

LEMMA Transitive ==
  ASSUME NEW x \in Parts, NEW y \in Parts, NEW z \in Parts, Before(x, y),
         Before(y, z) \/ y = z
  PROVE  Before(x, z)
<1>1. x[1] \in Nat /\ x[2] \in Nat /\ y[1] \in Nat /\ y[2] \in Nat /\ z[1] \in Nat /\ z[2] \in Nat
  BY DEF Parts
<1> QED
  BY <1>1 DEF Before

LEMMA PartsTyped ==
  ASSUME Typed
  PROVE  /\ Past \subseteq Parts /\ Given \subseteq Parts /\ Cursor \in Parts
         /\ \A p \in Packets : Carries(p) \subseteq Parts
<1>1. \A p \in Packets : Carries(p) \subseteq Parts
  <2> SUFFICES ASSUME NEW p \in Packets PROVE Carries(p) \subseteq Parts
    OBVIOUS
  <2>1. p.unit \in Nat /\ p.part \in Nat /\ p.of \in Nat
    BY DEF Packets
  <2>2. <<p.unit, p.part>> \in Parts /\ \A i \in 1..p.of : <<p.unit + i - 1, 1>> \in Parts
    BY <2>1 DEF Parts
  <2> QED
    BY <2>2 DEF Carries
<1>2. \A u \in Seq(Parts) : ToSet(u) \subseteq Parts
  BY DEF ToSet
<1>3. ToSet(out) \subseteq Seq(Parts)
  BY DEF Typed, ToSet
<1>4. Given \subseteq Parts
  BY <1>2, <1>3 DEF Given
<1>5. \A f \in arrived : <<f.unit, f.part>> \in Parts
  BY DEF Typed, Packets, Parts
<1>6. Past \subseteq Parts
  BY <1>2, <1>4, <1>5 DEF Past, Typed
<1>7. Cursor \in Parts
  BY DEF Cursor, Typed, Parts
<1> QED
  BY <1>1, <1>4, <1>6, <1>7

\* A packet that is sent carries what comes next, or nothing.
LEMMA SentInOrder ==
  ASSUME Typed, Typed', Ordered, NEW p \in Packets, Transmit(p),
         Cursor' = Cursor \/ Before(Cursor, Cursor'),
         \A x \in Carries(p) : (x = Cursor \/ Before(Cursor, x)) /\ Before(x, Cursor')
  PROVE  Ordered'
<1>1. /\ net' = Append(net, p) /\ net \in Seq(Packets)
      /\ UNCHANGED <<overtaken, arrived, fua_buffer, fua_active, out>>
  BY DEF Transmit, Typed, depacketizer
<1>2. Past' = Past /\ Given' = Given /\ OutSorted' = OutSorted
  BY <1>1 DEF Past, Given, OutSorted
<1>3. /\ Past \subseteq Parts /\ Cursor \in Parts /\ Cursor' \in Parts
      /\ Carries(p) \subseteq Parts /\ \A i \in 1..Len(net) : Carries(net[i]) \subseteq Parts
  <2>1. Cursor' \in Parts
    BY DEF Cursor, Typed, Parts
  <2> QED
    BY <1>1, <2>1, PartsTyped
<1>4. \A S \in SUBSET Parts : Precede(S, {Cursor}) =>
        Precede(S, {Cursor'}) /\ Precede(S, Carries(p))
  BY <1>3, Transitive DEF Precede
<1>5. /\ Precede(Past, {Cursor'}) /\ Precede(Past, Carries(p)) /\ Precede(Carries(p), {Cursor'})
      /\ \A i \in 1..Len(net) :
           Precede(Carries(net[i]), {Cursor'}) /\ Precede(Carries(net[i]), Carries(p))
  <2>1. Precede(Carries(p), {Cursor'})
    BY DEF Precede
  <2> QED
    BY <1>3, <1>4, <2>1 DEF Ordered
<1>6. /\ Len(net') = Len(net) + 1 /\ net'[Len(net) + 1] = p /\ Len(net) \in Nat
      /\ \A i \in 1..Len(net) : net'[i] = net[i]
  BY <1>1
<1>7. \A i \in 1..Len(net') : i \in 1..Len(net) \/ i = Len(net) + 1
  BY <1>6
<1>8. ASSUME NEW i \in 1..Len(net')
      PROVE  /\ Precede(Past, Carries(net'[i])) /\ Precede(Carries(net'[i]), {Cursor'})
             /\ \A j \in 1..Len(net') : i < j => Precede(Carries(net'[i]), Carries(net'[j]))
  <2>1. CASE i \in 1..Len(net)
    BY <1>5, <1>6, <1>7, <2>1 DEF Ordered
  <2>2. CASE i = Len(net) + 1
    BY <1>5, <1>6, <2>2
  <2> QED
    BY <1>7, <2>1, <2>2
<1>9. Sorted(fua_buffer)' /\ Precede(Given', ToSet(fua_buffer'))
  BY <1>1, <1>2 DEF Ordered, Sorted
<1> QED
  BY <1>2, <1>5, <1>8, <1>9 DEF Ordered

LEMMA SendOrdered ==
  ASSUME Typed, Typed', Ordered, SendSingle \/ SendAggregate \/ SendFragment \/ SendUnusable
  PROVE  Ordered'
<1>1. next \in Nat /\ part \in Nat
  BY DEF Typed
<1>2. CASE SendSingle
  <2>1. Single(next) \in Packets /\ Carries(Single(next)) = {<<next, 1>>}
    BY <1>1 DEF Single, Packets, Carries
  <2>2. Transmit(Single(next)) /\ Cursor = <<next, 1>> /\ Cursor' = <<next + 1, 1>>
    BY <1>1, <1>2 DEF SendSingle, Cursor
  <2>3. Before(<<next, 1>>, <<next + 1, 1>>)
    BY <1>1 DEF Before
  <2> QED
    BY <2>1, <2>2, <2>3, SentInOrder
<1>3. CASE SendAggregate
  <2>1. PICK k \in 0..MaxParts : Transmit(Aggregate(next, k)) /\ next' = next + k
    BY <1>3 DEF SendAggregate
  <2>2. k \in Nat
    BY BoundsAssumption
  <2>3. /\ Aggregate(next, k) \in Packets
        /\ Carries(Aggregate(next, k)) = {<<next + i - 1, 1>> : i \in 1..k}
    BY <1>1, <2>2 DEF Aggregate, Packets, Carries
  <2>4. Cursor = <<next, 1>> /\ Cursor' = <<next + k, 1>>
    BY <1>1, <1>3, <2>1 DEF SendAggregate, Cursor
  <2>5. <<next, 1>> = <<next + k, 1>> \/ Before(<<next, 1>>, <<next + k, 1>>)
    BY <1>1, <2>2 DEF Before
  <2>6. \A i \in 1..k : /\ Before(<<next + i - 1, 1>>, <<next + k, 1>>)
                        /\ \/ <<next + i - 1, 1>> = <<next, 1>>
                           \/ Before(<<next, 1>>, <<next + i - 1, 1>>)
    BY <1>1, <2>2 DEF Before
  <2> QED
    BY <2>1, <2>3, <2>4, <2>5, <2>6, SentInOrder
<1>4. CASE SendFragment
  <2>1. PICK l \in 2..MaxParts :
          /\ Transmit(Fragment(next, part + 1, l))
          /\ \/ next' = next + 1 /\ part' = 0 /\ of' = 0
             \/ part' = part + 1 /\ of' = l /\ UNCHANGED next
    BY <1>4 DEF SendFragment
  <2>2. l \in Nat
    BY BoundsAssumption
  <2>3. /\ Fragment(next, part + 1, l) \in Packets
        /\ Carries(Fragment(next, part + 1, l)) = {Cursor}
    BY <1>1, <2>2 DEF Fragment, Packets, Carries, Cursor
  <2>4. Before(Cursor, Cursor')
    BY <1>1, <2>1 DEF Cursor, Before
  <2> QED
    BY <2>1, <2>3, <2>4, SentInOrder
<1>5. CASE SendUnusable
  <2>1. Unusable \in Packets /\ Carries(Unusable) = {}
    BY DEF Unusable, Packets, Carries
  <2>2. Transmit(Unusable) /\ Cursor' = Cursor
    BY <1>5 DEF SendUnusable, sender, Cursor
  <2> QED
    BY <2>1, <2>2, SentInOrder
<1> QED
  BY <1>2, <1>3, <1>4, <1>5


LEMMA LoseOrdered == ASSUME Typed, Ordered, Lose PROVE Ordered'
<1>1. PICK i \in DOMAIN net : net' = RemoveAt(net, i)
  BY DEF Lose
<1>2. /\ \A j \in 1..Len(net') : \E k \in 1..Len(net) : net'[j] = net[k] /\ k # i
      /\ \A j, k \in 1..Len(net') : j < k =>
           \E m, n \in 1..Len(net) :
             m < n /\ net'[j] = net[m] /\ net'[k] = net[n] /\ m # i /\ n # i
  BY <1>1, Thinned
<1>3. UNCHANGED <<next, part, arrived, fua_buffer, out>>
  BY DEF Lose, sender, depacketizer
<1>4. Past' = Past /\ Given' = Given /\ Cursor' = Cursor /\ OutSorted' = OutSorted
  BY <1>3 DEF Past, Given, Cursor, OutSorted
<1> QED
  BY <1>2, <1>3, <1>4 DEF Ordered

\* A part at the end of a sequence, and a unit at the end of what was returned.
LEMMA Extended ==
  ASSUME NEW s \in Seq(Parts), NEW x \in Parts
  PROVE  /\ Append(s, x) \in Seq(Parts) /\ ToSet(Append(s, x)) = ToSet(s) \cup {x}
         /\ Sorted(s) /\ Precede(ToSet(s), {x}) => Sorted(Append(s, x))
<1> DEFINE a == Append(s, x)  n == Len(s)
<1>1. /\ a \in Seq(Parts) /\ n \in Nat /\ Len(a) = n + 1 /\ a[n + 1] = x
      /\ DOMAIN a = 1..(n + 1) /\ DOMAIN s = 1..n /\ \A i \in 1..n : a[i] = s[i]
  OBVIOUS
<1>2. \A i : i \in 1..(n + 1) <=> i \in 1..n \/ i = n + 1
  BY <1>1
<1> HIDE DEF a, n
<1>3. ToSet(a) = ToSet(s) \cup {x}
  BY <1>1, <1>2 DEF ToSet
<1>4. ASSUME Sorted(s), Precede(ToSet(s), {x}) PROVE Sorted(a)
  <2>1. \A i \in 1..n : Before(a[i], x)
    BY <1>1, <1>4 DEF Precede, ToSet
  <2>2. \A k, l \in 1..n : k < l => Before(a[k], a[l])
    BY <1>1, <1>4 DEF Sorted
  <2>3. \A k, l \in 1..(n + 1) : k < l => k \in 1..n /\ (l \in 1..n \/ l = n + 1)
    BY <1>1
  <2> QED
    BY <1>1, <2>1, <2>2, <2>3 DEF Sorted
<1> QED
  BY <1>1, <1>3, <1>4 DEF a

LEMMA OutGrows ==
  ASSUME Typed, OutSorted, NEW b \in Seq(Parts), Sorted(b), Precede(Given, ToSet(b)),
         out' = Append(out, b)
  PROVE  OutSorted' /\ Given' = Given \cup ToSet(b)
<1> DEFINE n == Len(out)
<1>1. /\ out \in Seq(Seq(Parts)) /\ n \in Nat /\ out'[n + 1] = b
      /\ DOMAIN out' = 1..(n + 1) /\ DOMAIN out = 1..n /\ \A i \in 1..n : out'[i] = out[i]
  BY DEF Typed
<1>2. Given' = Given \cup ToSet(b)
  BY Returns DEF Given
<1>3. \A i, j \in 1..(n + 1) :
        i < j \/ i = j => \/ i \in 1..n /\ j \in 1..n
                          \/ i \in 1..n /\ j = n + 1 /\ i # j
                          \/ i = n + 1 /\ j = n + 1
  BY <1>1
<1>4. \A i \in 1..n : \A k \in DOMAIN out[i] : out[i][k] \in Given
  <2>1. \A i \in 1..n : out[i] \in ToSet(out)
    BY <1>1 DEF ToSet
  <2>2. \A i \in 1..n : \A k \in DOMAIN out[i] : out[i][k] \in ToSet(out[i])
    BY DEF ToSet
  <2> QED
    BY <2>1, <2>2 DEF Given
<1>5. \A l \in DOMAIN b : b[l] \in ToSet(b)
  BY DEF ToSet
<1> HIDE DEF n
<1>6. \A i \in 1..n : \A k \in DOMAIN out[i], l \in DOMAIN b : Before(out[i][k], b[l])
  BY <1>4, <1>5 DEF Precede
<1>7. ASSUME NEW i \in 1..(n + 1), NEW j \in 1..(n + 1),
             NEW k \in DOMAIN out'[i], NEW l \in DOMAIN out'[j],
             i < j \/ (i = j /\ k < l)
      PROVE  Before(out'[i][k], out'[j][l])
  <2>1. CASE i \in 1..n /\ j \in 1..n
    BY <1>1, <1>7, <2>1 DEF OutSorted
  <2>2. CASE i \in 1..n /\ j = n + 1 /\ i # j
    BY <1>1, <1>6, <1>7, <2>2
  <2>3. CASE i = n + 1 /\ j = n + 1
    <3>1. i = j /\ i \in Nat
      BY <1>1, <2>3
    <3>2. k < l
      BY <1>7, <3>1
    <3> QED
      BY <1>1, <1>7, <2>3, <3>2 DEF Sorted
  <2> QED
    BY <1>3, <1>7, <2>1, <2>2, <2>3
<1>8. OutSorted'
  BY <1>1, <1>7 DEF OutSorted
<1> QED
  BY <1>2, <1>8

\* The oldest packet arrives: what it brings is later than all before it and
\* earlier than all that is still to come.
LEMMA ArrivalOrdered ==
  ASSUME Typed, Ordered, 1 \in 1..Len(net), net' = RemoveAt(net, 1), UNCHANGED sender,
         Past' \subseteq Past \cup Carries(net[1]),
         OutSorted', Sorted(fua_buffer)', Precede(Given', ToSet(fua_buffer'))
  PROVE  Ordered'
<1>1. /\ \A j \in 1..Len(net') : \E k \in 1..Len(net) : net'[j] = net[k] /\ k # 1
      /\ \A j, k \in 1..Len(net') : j < k =>
           \E m, n \in 1..Len(net) :
             m < n /\ net'[j] = net[m] /\ net'[k] = net[n] /\ m # 1 /\ n # 1
  <2>1. 1 \in DOMAIN net
    BY DEF Typed
  <2> QED
    BY <2>1, Thinned
<1>2. Cursor' = Cursor
  BY DEF sender, Cursor
<1>3. Precede(Past', {Cursor'})
  BY <1>2 DEF Ordered, Precede
<1>4. \A k \in 1..Len(net) : k # 1 => Precede(Past', Carries(net[k]))
  <2> SUFFICES ASSUME NEW k \in 1..Len(net), k # 1 PROVE Precede(Past', Carries(net[k]))
    OBVIOUS
  <2>1. 1 < k
    BY DEF Typed
  <2>2. Precede(Past, Carries(net[k])) /\ Precede(Carries(net[1]), Carries(net[k]))
    BY <2>1 DEF Ordered
  <2> QED
    BY <2>2 DEF Precede
<1>5. ASSUME NEW i \in 1..Len(net')
      PROVE  /\ Precede(Past', Carries(net'[i])) /\ Precede(Carries(net'[i]), {Cursor'})
             /\ \A j \in 1..Len(net') : i < j => Precede(Carries(net'[i]), Carries(net'[j]))
  <2>1. PICK k \in 1..Len(net) : net'[i] = net[k] /\ k # 1
    BY <1>1
  <2>2. Precede(Past', Carries(net[k])) /\ Precede(Carries(net[k]), {Cursor})
    BY <1>4, <2>1 DEF Ordered
  <2>3. ASSUME NEW j \in 1..Len(net'), i < j
        PROVE  Precede(Carries(net'[i]), Carries(net'[j]))
    <3>1. PICK m, n \in 1..Len(net) : m < n /\ net'[i] = net[m] /\ net'[j] = net[n]
      BY <1>1, <2>3
    <3> QED
      BY <3>1 DEF Ordered
  <2> QED
    BY <1>2, <2>1, <2>2, <2>3
<1> QED
  BY <1>3, <1>5 DEF Ordered

LEMMA ProcessOrdered ==
  ASSUME Typed, Ordered, NEW p, ProcessRtp(p), ~overtaken'
  PROVE  Ordered' /\ 1 \in 1..Len(net) /\ p = net[1] /\ net' = RemoveAt(net, 1)
<1>1. PICK k \in {"single", "fu", "stap", "other"} : Arrives(p, k)
  BY DEF ProcessRtp, SinglePacket, StapPacket, FuaPacket, UnusablePacket
<1>2. PICK i \in DOMAIN net :
        /\ i \in 1..Len(net) /\ p = net[i] /\ p \in Packets /\ net' = RemoveAt(net, i)
        /\ overtaken' = (overtaken \/ i > 1)
  BY <1>1, Arrival
<1>3. i = 1
  <2>1. ~(i > 1)
    BY <1>2
  <2>2. Len(net) \in Nat
    BY DEF Typed
  <2> QED
    BY <1>2, <2>1, <2>2
<1>4. 1 \in 1..Len(net) /\ p = net[1] /\ net' = RemoveAt(net, 1) /\ UNCHANGED sender
  BY <1>1, <1>2, <1>3 DEF Arrives
<1> SUFFICES Ordered'
  BY <1>4
<1>5. p.unit \in Nat /\ p.part \in Nat /\ p.of \in Nat /\ Carries(p) \subseteq Parts
  BY <1>2, PartsTyped DEF Packets
<1>6. /\ Precede(Past, Carries(p)) /\ Precede(Given, Carries(p))
      /\ Precede(ToSet(fua_buffer), Carries(p))
  BY <1>4 DEF Ordered, Past, Precede
<1>7. ToSet(<<>>) = {} /\ Sorted(<<>>)
  BY DEF ToSet, Sorted
<1>8. ASSUME NEW b \in Seq(Parts), Sorted(b), Precede(Given, ToSet(b)),
             ToSet(b) \subseteq Past \cup Carries(p), out' = Append(out, b), ResetFua,
             arrived' = arrived \/ (p.kind = "fu" /\ arrived' = arrived \cup {p})
      PROVE  Ordered'
  <2>1. OutSorted' /\ Given' = Given \cup ToSet(b) /\ fua_buffer' = <<>>
    BY <1>8, OutGrows DEF Ordered, ResetFua
  <2>2. {<<f.unit, f.part>> : f \in arrived'}
          \subseteq {<<f.unit, f.part>> : f \in arrived} \cup Carries(p)
    BY <1>8 DEF Carries
  <2>3. Past' \subseteq Past \cup Carries(p)
    BY <1>7, <1>8, <2>1, <2>2 DEF Past
  <2>4. Sorted(fua_buffer)' /\ Precede(Given', ToSet(fua_buffer'))
    BY <1>7, <2>1 DEF Precede
  <2> QED
    BY <1>4, <2>1, <2>3, <2>4, ArrivalOrdered
<1>9. ASSUME UNCHANGED out, NEW S \in SUBSET Parts, ToSet(fua_buffer') = S,
             Sorted(fua_buffer'), Precede(Given, S), S \subseteq Past \cup Carries(p),
             arrived' = arrived \/ (p.kind = "fu" /\ arrived' = arrived \cup {p})
      PROVE  Ordered'
  <2>1. Given' = Given /\ OutSorted'
    BY <1>9 DEF Ordered, OutSorted, Given
  <2>2. {<<f.unit, f.part>> : f \in arrived'}
          \subseteq {<<f.unit, f.part>> : f \in arrived} \cup Carries(p)
    BY <1>9 DEF Carries
  <2>3. Past' \subseteq Past \cup Carries(p)
    BY <1>9, <2>1, <2>2 DEF Past
  <2> QED
    BY <1>4, <1>9, <2>1, <2>3, ArrivalOrdered
<1>10. CASE SinglePacket(p)
  <2> DEFINE x == <<p.unit, 1>>
  <2>1. x \in Parts /\ <<x>> \in Seq(Parts) /\ Len(<<x>>) = 1 /\ <<x>>[1] = x
    BY <1>5 DEF Parts
  <2>2. ToSet(<<x>>) = {x} /\ Sorted(<<x>>)
    BY <2>1 DEF ToSet, Sorted
  <2>3. p.kind = "single" /\ p.of = 1 /\ arrived' = arrived
    BY <1>4, <1>10 DEF SinglePacket, Arrives, Typed
  <2>4. x \in Carries(p)
    BY <1>5, <2>3 DEF Carries
  <2> QED
    BY <1>6, <1>8, <1>10, <2>1, <2>2, <2>3, <2>4 DEF SinglePacket, Precede
<1>11. CASE StapPacket(p)
  <2> DEFINE b == [i_1 \in 1..p.of |-> <<p.unit + i_1 - 1, 1>>]
  <2>1. b \in Seq(Parts) /\ DOMAIN b = 1..p.of
    BY <1>2, UnitsTyped
  <2>2. p.kind = "stap" /\ arrived' = arrived
    BY <1>11 DEF StapPacket, Arrives
  <2>3. ToSet(b) \subseteq Carries(p)
    BY <2>1, <2>2 DEF ToSet, Carries
  <2>4. Sorted(b)
    BY <1>5 DEF Sorted, Before
  <2>5. CASE p.of = 0
    <3>1. UNCHANGED out /\ fua_buffer' = <<>>
      BY <1>11, <2>5 DEF StapPacket, ResetFua
    <3> QED
      BY <1>7, <1>9, <2>2, <3>1 DEF Precede
  <2>6. CASE p.of # 0
    <3>1. out' = Append(out, b) /\ ResetFua
      BY <1>11, <2>6 DEF StapPacket
    <3> HIDE DEF b
    <3> QED
      BY <1>6, <1>8, <2>1, <2>2, <2>3, <2>4, <3>1 DEF Precede
  <2> QED
    BY <2>5, <2>6
<1>12. CASE FuaPacket(p)
  <2> DEFINE c == Collected(p)  x == <<p.unit, p.part>>  b == Append(c, x)
  <2>1. x \in Parts /\ Carries(p) = {x} /\ p.kind = "fu" /\ arrived' = arrived \cup {p}
    BY <1>5, <1>12 DEF Parts, FuaPacket, Arrives, Carries
  <2>2. c \in Seq(Parts) /\ Sorted(c) /\ ToSet(c) \subseteq ToSet(fua_buffer)
    BY <1>7 DEF Collected, Typed, Ordered
  <2>3. b \in Seq(Parts) /\ ToSet(b) = ToSet(c) \cup {x} /\ Sorted(b)
    BY <1>6, <2>1, <2>2, Extended DEF Precede
  <2>4. /\ Precede(Given, ToSet(fua_buffer)) /\ ToSet(fua_buffer) \subseteq Past
        /\ ToSet(fua_buffer) \in SUBSET Parts /\ Sorted(fua_buffer)
    BY PartsTyped DEF Ordered, Past
  <2>5. Precede(Given, ToSet(b)) /\ ToSet(b) \subseteq Past \cup Carries(p) /\ ToSet(b) \subseteq Parts
    BY <1>6, <2>1, <2>2, <2>3, <2>4 DEF Precede
  <2> HIDE DEF c
  <2>6. \/ UNCHANGED <<out, fua_buffer>>
        \/ out' = Append(out, b) /\ ResetFua
        \/ UNCHANGED out /\ fua_buffer' = b
    BY <1>12 DEF FuaPacket, End, depacketizer, c
  <2> HIDE DEF b, x
  <2>7. CASE UNCHANGED <<out, fua_buffer>>
    BY <1>9, <2>1, <2>4, <2>7
  <2>8. CASE out' = Append(out, b) /\ ResetFua
    BY <1>8, <2>1, <2>3, <2>5, <2>8
  <2>9. CASE UNCHANGED out /\ fua_buffer' = b
    BY <1>9, <2>1, <2>3, <2>5, <2>9
  <2> QED
    BY <2>6, <2>7, <2>8, <2>9
<1>13. CASE UnusablePacket(p)
  <2>1. UNCHANGED <<out, fua_buffer>> /\ arrived' = arrived
    BY <1>13 DEF UnusablePacket, Arrives, depacketizer
  <2>2. /\ Precede(Given, ToSet(fua_buffer)) /\ ToSet(fua_buffer) \subseteq Past
        /\ ToSet(fua_buffer) \in SUBSET Parts /\ Sorted(fua_buffer)
    BY PartsTyped DEF Ordered, Past
  <2> QED
    BY <1>9, <2>1, <2>2
<1> QED
  BY <1>10, <1>11, <1>12, <1>13 DEF ProcessRtp


\* A packet that has overtaken another stays so.
LEMMA StepOvertakes ==
  ASSUME Typed, [Next]_vars, ~overtaken'
  PROVE  ~overtaken
<1>1. CASE UNCHANGED vars \/ SendSingle \/ SendAggregate \/ SendFragment \/ SendUnusable \/ Lose
  BY <1>1 DEF vars, SendSingle, SendAggregate, SendFragment, SendUnusable, Transmit, Lose
<1>2. ASSUME NEW p, ProcessRtp(p) PROVE ~overtaken
  <2>1. PICK k \in {"single", "fu", "stap", "other"} : Arrives(p, k)
    BY <1>2 DEF ProcessRtp, SinglePacket, StapPacket, FuaPacket, UnusablePacket
  <2>2. \E i \in DOMAIN net : overtaken' = (overtaken \/ i > 1)
    BY <2>1 DEF Arrives
  <2> QED
    BY <2>2
<1> QED
  BY <1>1, <1>2 DEF Next

LEMMA StepOrdered ==
  ASSUME Typed, Typed', Ordered, [Next]_vars, ~overtaken'
  PROVE  Ordered'
<1>1. CASE UNCHANGED vars
  BY <1>1 DEF vars, sender, depacketizer, Ordered, OutSorted, Past, Given, Cursor, Sorted
<1> QED
  BY <1>1, SendOrdered, LoseOrdered, ProcessOrdered DEF Next

\* Until a packet overtakes another, what is returned is in the order it was
\* sent, whatever is lost (h264.rs:42-146).
THEOREM UnitsInOrder == Spec => []OutInOrder
<1> DEFINE Inv == Typed /\ (~overtaken => Ordered)
<1>1. Init => Inv
  <2> SUFFICES ASSUME Init PROVE Ordered
    BY InitTyped
  <2>1. DOMAIN out = {} /\ DOMAIN fua_buffer = {} /\ 1..Len(net) = {} /\ arrived = {}
    BY DEF Init
  <2>2. Past = {} /\ Given = {}
    BY <2>1 DEF Past, Given, ToSet
  <2> QED
    BY <2>1, <2>2 DEF Ordered, OutSorted, Sorted, Precede
<1>2. Inv /\ [Next]_vars => Inv'
  BY StepTyped, StepOvertakes, StepOrdered
<1>3. Inv => OutInOrder
  BY DEF Ordered, OutSorted, OutInOrder
<1> QED
  BY <1>1, <1>2, <1>3, PTL DEF Spec

-----------------------------------------------------------------------------
\* Every part that is sent is lost, has arrived, or is on its way.
Seen == Given \cup {<<f.unit, f.part>> : f \in arrived}
Travelling == UNION {Carries(net[i]) : i \in 1..Len(net)}
Accounted == sent \subseteq lost \cup Seen \cup Travelling

\* What is sent between two parts is lost, and nothing that has arrived is later
\* than what is being collected.
Gap(x, y) == \A z \in sent : Before(x, z) /\ Before(z, y) => z \in lost
Filled(u) == \A k \in 1..(Len(u) - 1) : Gap(u[k], u[k + 1])
Filling ==
  /\ fua_active => /\ fua_buffer # <<>>
                   /\ \A y \in Seen : y = Last(fua_buffer) \/ Before(y, Last(fua_buffer))
  /\ Filled(fua_buffer)
  /\ \A u \in ToSet(out) : Filled(u)

LEMMA Asymmetric ==
  ASSUME NEW x \in Parts, NEW y \in Parts, Before(x, y)
  PROVE  ~Before(y, x) /\ x # y
<1>1. x[1] \in Nat /\ x[2] \in Nat /\ y[1] \in Nat /\ y[2] \in Nat
  BY DEF Parts
<1> QED
  BY <1>1 DEF Before

LEMMA SeenTyped == ASSUME Typed PROVE Seen \subseteq Past /\ Seen \subseteq Parts
  BY PartsTyped DEF Seen, Past

\* What remains when one is taken out.
LEMMA Remains ==
  ASSUME Typed, NEW i \in DOMAIN net, net' = RemoveAt(net, i)
  PROVE  i \in 1..Len(net) /\ Travelling \subseteq Travelling' \cup Carries(net[i])
<1>1. i \in 1..Len(net) /\ net \in Seq(Packets) /\ Len(net) \in Nat
  BY DEF Typed
<1>2. /\ Len(net') = Len(net) - 1
      /\ \A j \in 1..(Len(net) - 1) : net'[j] = net[IF j < i THEN j ELSE j + 1]
  BY <1>1, Removed
<1>3. ASSUME NEW k \in 1..Len(net), k # i
      PROVE  Carries(net[k]) \subseteq Travelling'
  <2> DEFINE j == IF k < i THEN k ELSE k - 1
  <2>1. j \in 1..(Len(net) - 1) /\ k = IF j < i THEN j ELSE j + 1
    BY <1>1, <1>3
  <2> HIDE DEF j
  <2>2. j \in 1..Len(net') /\ net'[j] = net[k]
    BY <1>2, <2>1
  <2> QED
    BY <2>2 DEF Travelling
<1>4. \A x \in Travelling : \E k \in 1..Len(net) : x \in Carries(net[k])
  BY DEF Travelling
<1> QED
  BY <1>1, <1>3, <1>4

LEMMA SendFilled ==
  ASSUME Typed, Ordered, Accounted, Filling,
         SendSingle \/ SendAggregate \/ SendFragment \/ SendUnusable
  PROVE  Accounted' /\ Filling'
<1>1. PICK p \in Packets :
        Transmit(p) /\ \A x \in Carries(p) : x = Cursor \/ Before(Cursor, x)
  <2>1. next \in Nat /\ part \in Nat
    BY DEF Typed
  <2>2. CASE SendSingle
    <3>1. Single(next) \in Packets /\ Carries(Single(next)) = {<<next, 1>>}
      BY <2>1 DEF Single, Packets, Carries
    <3> QED
      BY <2>1, <2>2, <3>1 DEF SendSingle, Cursor
  <2>3. CASE SendAggregate
    <3>1. PICK k \in 0..MaxParts : Transmit(Aggregate(next, k))
      BY <2>3 DEF SendAggregate
    <3>2. k \in Nat
      BY BoundsAssumption
    <3>3. /\ Aggregate(next, k) \in Packets
          /\ Carries(Aggregate(next, k)) = {<<next + i - 1, 1>> : i \in 1..k}
      BY <2>1, <3>2 DEF Aggregate, Packets, Carries
    <3>4. Cursor = <<next, 1>>
      BY <2>1, <2>3 DEF SendAggregate, Cursor
    <3>5. \A i \in 1..k : \/ <<next + i - 1, 1>> = <<next, 1>>
                          \/ Before(<<next, 1>>, <<next + i - 1, 1>>)
      BY <2>1, <3>2 DEF Before
    <3> QED
      BY <3>1, <3>3, <3>4, <3>5
  <2>4. CASE SendFragment
    <3>1. PICK l \in 2..MaxParts : Transmit(Fragment(next, part + 1, l))
      BY <2>4 DEF SendFragment
    <3>2. l \in Nat
      BY BoundsAssumption
    <3>3. /\ Fragment(next, part + 1, l) \in Packets
          /\ Carries(Fragment(next, part + 1, l)) = {Cursor}
      BY <2>1, <3>2 DEF Fragment, Packets, Carries, Cursor
    <3> QED
      BY <3>1, <3>3
  <2>5. CASE SendUnusable
    <3>1. Unusable \in Packets /\ Carries(Unusable) = {}
      BY DEF Unusable, Packets, Carries
    <3> QED
      BY <2>5, <3>1 DEF SendUnusable
  <2> QED
    BY <2>2, <2>3, <2>4, <2>5
<1>2. /\ net' = Append(net, p) /\ net \in Seq(Packets) /\ sent' = sent \cup Carries(p)
      /\ UNCHANGED <<lost, arrived, fua_buffer, fua_active, out>>
  BY <1>1 DEF Transmit, Typed, depacketizer
<1>3. Seen' = Seen /\ Given' = Given
  BY <1>2 DEF Seen, Given
<1>4. Travelling' = Travelling \cup Carries(p)
  <2>1. /\ Len(net') = Len(net) + 1 /\ net'[Len(net) + 1] = p /\ Len(net) \in Nat
        /\ \A i \in 1..Len(net) : net'[i] = net[i]
    BY <1>2
  <2>2. \A i : i \in 1..Len(net') <=> i \in 1..Len(net) \/ i = Len(net) + 1
    BY <2>1
  <2> QED
    BY <2>1, <2>2 DEF Travelling
<1>5. Accounted'
  BY <1>2, <1>3, <1>4 DEF Accounted
<1>6. ASSUME NEW x, NEW y \in Past, Gap(x, y) PROVE Gap(x, y)'
  <2>1. ASSUME NEW z \in Carries(p), Before(z, y) PROVE FALSE
    <3>1. z \in Parts /\ y \in Parts /\ Cursor \in Parts
      BY PartsTyped
    <3>2. Before(y, Cursor)
      BY DEF Ordered, Precede
    <3>3. Before(y, z)
      BY <1>1, <3>1, <3>2, Transitive
    <3> QED
      BY <2>1, <3>1, <3>3, Asymmetric
  <2> QED
    BY <1>2, <1>6, <2>1 DEF Gap
<1>7. ASSUME NEW u \in Seq(Parts), ToSet(u) \subseteq Past, Filled(u) PROVE Filled(u)'
  <2>1. \A k \in 1..(Len(u) - 1) : u[k + 1] \in ToSet(u)
    BY DEF ToSet
  <2> QED
    BY <1>6, <1>7, <2>1 DEF Filled
<1>8. /\ fua_buffer \in Seq(Parts) /\ ToSet(fua_buffer) \subseteq Past
      /\ \A u \in ToSet(out) : u \in Seq(Parts) /\ ToSet(u) \subseteq Past
  <2>1. \A u \in ToSet(out) : u \in Seq(Parts)
    BY DEF ToSet, Typed
  <2> QED
    BY <2>1 DEF Typed, Past, Given
<1>9. Filling'
  <2>1. Filled(fua_buffer)'
    BY <1>2, <1>7, <1>8 DEF Filling
  <2>2. \A u \in ToSet(out') : Filled(u)'
    BY <1>2, <1>7, <1>8 DEF Filling
  <2> QED
    BY <1>2, <1>3, <2>1, <2>2 DEF Filling
<1> QED
  BY <1>5, <1>9

LEMMA LoseFilled ==
  ASSUME Typed, Accounted, Filling, Lose
  PROVE  Accounted' /\ Filling'
<1>1. PICK i \in DOMAIN net : net' = RemoveAt(net, i) /\ lost' = lost \cup Carries(net[i])
  BY DEF Lose
<1>2. UNCHANGED <<sent, arrived, fua_buffer, fua_active, out>>
  BY DEF Lose, depacketizer
<1>3. Seen' = Seen
  BY <1>2 DEF Seen, Given
<1>4. Accounted'
  BY <1>1, <1>2, <1>3, Remains DEF Accounted
<1>5. \A u : Filled(u) => Filled(u)'
  BY <1>1, <1>2 DEF Filled, Gap
<1> QED
  BY <1>2, <1>3, <1>4, <1>5 DEF Filling

\* The oldest packet arrives: what was sent before what it brings, and later
\* than all that has arrived, was lost.
LEMMA NoneBetween ==
  ASSUME Typed, Ordered, Accounted, 1 \in 1..Len(net), NEW a, NEW x \in Carries(net[1]),
         \A y \in Seen \cup Carries(net[1]) : ~(Before(a, y) /\ Before(y, x))
  PROVE  Gap(a, x)
<1>1. ASSUME NEW z \in sent, Before(a, z), Before(z, x), z \notin lost PROVE FALSE
  <2>1. PICK i \in 1..Len(net) : z \in Carries(net[i]) /\ i # 1
    BY <1>1 DEF Accounted, Travelling
  <2>2. 1 < i
    BY <2>1 DEF Typed
  <2>3. Before(x, z)
    BY <2>1, <2>2 DEF Ordered, Precede
  <2>4. x \in Parts /\ z \in Parts
    BY <2>1, PartsTyped DEF Typed
  <2> QED
    BY <1>1, <2>3, <2>4, Asymmetric
<1> QED
  BY <1>1 DEF Gap

LEMMA ProcessFilled ==
  ASSUME Typed, Ordered, Accounted, Filling, NEW p, ProcessRtp(p), ~overtaken'
  PROVE  Accounted' /\ Filling'
<1>1. 1 \in 1..Len(net) /\ 1 \in DOMAIN net /\ p = net[1] /\ net' = RemoveAt(net, 1)
      /\ p \in Packets
  BY ProcessOrdered DEF Typed
<1>2. PICK k \in {"single", "fu", "stap", "other"} : Arrives(p, k)
  BY DEF ProcessRtp, SinglePacket, StapPacket, FuaPacket, UnusablePacket
<1>3. /\ UNCHANGED <<sent, lost>>
      /\ arrived' = IF p.kind = "fu" THEN arrived \cup {p} ELSE arrived
  BY <1>2 DEF Arrives
<1>4. \A u : Filled(u)' <=> Filled(u)
  BY <1>3 DEF Filled, Gap
<1>5. p.unit \in Nat /\ p.part \in Nat /\ p.of \in Nat /\ Carries(p) \subseteq Parts
      /\ Past \subseteq Parts /\ Seen \subseteq Past /\ Seen \subseteq Parts
  BY <1>1, PartsTyped, SeenTyped DEF Packets
<1>6. Precede(Seen, Carries(p))
  BY <1>1, <1>5 DEF Ordered, Precede
<1>7. ASSUME Seen \cup Carries(p) \subseteq Seen' PROVE Accounted'
  BY <1>1, <1>3, <1>7, Remains DEF Accounted
<1>8. Filled(<<>>)
  BY DEF Filled
<1>9. ASSUME NEW b \in Seq(Parts), Filled(b), out' = Append(out, b), ResetFua,
             Carries(p) \subseteq ToSet(b) \cup {<<f.unit, f.part>> : f \in arrived'}
      PROVE  Accounted' /\ Filling'
  <2>1. ToSet(out') = ToSet(out) \cup {b}
    BY <1>9, Returns
  <2>2. Given' = Given \cup ToSet(b)
    BY <2>1 DEF Given
  <2>3. Accounted'
    BY <1>3, <1>7, <1>9, <2>2 DEF Seen
  <2>4. \A u \in ToSet(out') : Filled(u)'
    BY <1>4, <1>9, <2>1 DEF Filling
  <2>5. fua_buffer' = <<>> /\ fua_active' = FALSE
    BY <1>9 DEF ResetFua
  <2>6. Filled(fua_buffer)'
    BY <1>4, <1>8, <2>5
  <2> QED
    BY <2>3, <2>4, <2>5, <2>6 DEF Filling
<1>10. ASSUME UNCHANGED out PROVE Given' = Given /\ \A u \in ToSet(out') : Filled(u)'
  BY <1>4, <1>10 DEF Filling, Given
<1>11. CASE SinglePacket(p)
  <2> DEFINE x == <<p.unit, 1>>  b == <<x>>
  <2>1. x \in Parts /\ b \in Seq(Parts) /\ Len(b) = 1 /\ b[1] = x /\ 1 \in DOMAIN b
    BY <1>5 DEF Parts
  <2>2. Filled(b)
    BY <2>1 DEF Filled
  <2>3. p.kind = "single" /\ p.of = 1
    BY <1>1, <1>11 DEF SinglePacket, Arrives, Typed
  <2>4. Carries(p) = {x}
    BY <1>5, <2>3 DEF Carries
  <2>5. Carries(p) \subseteq ToSet(b)
    BY <2>1, <2>4 DEF ToSet
  <2>6. out' = Append(out, b) /\ ResetFua
    BY <1>11 DEF SinglePacket
  <2> HIDE DEF b
  <2> QED
    BY <1>9, <2>1, <2>2, <2>5, <2>6
<1>12. CASE StapPacket(p)
  <2> DEFINE b == [i \in 1..p.of |-> <<p.unit + i - 1, 1>>]
  <2>1. /\ b \in Seq(Parts) /\ Len(b) = p.of /\ DOMAIN b = 1..p.of
        /\ \A i \in 1..p.of : b[i] = <<p.unit + i - 1, 1>>
    BY <1>1, UnitsTyped
  <2>2. p.kind = "stap"
    BY <1>12 DEF StapPacket, Arrives
  <2>3. Carries(p) = {<<p.unit + i - 1, 1>> : i \in 1..p.of}
    BY <2>2 DEF Carries
  <2>4. CASE p.of = 0
    <3>1. UNCHANGED out /\ fua_buffer' = <<>> /\ fua_active' = FALSE
      BY <1>12, <2>4 DEF StapPacket, ResetFua
    <3>2. Carries(p) = {} /\ Seen' = Seen
      BY <1>3, <1>10, <2>2, <2>3, <2>4, <3>1 DEF Seen
    <3>3. Filled(fua_buffer)'
      BY <1>4, <1>8, <3>1
    <3> QED
      BY <1>7, <1>10, <3>1, <3>2, <3>3 DEF Filling
  <2>5. CASE p.of # 0
    <3>1. out' = Append(out, b) /\ ResetFua
      BY <1>12, <2>5 DEF StapPacket
    <3>2. \A x : x \in Carries(p) => \E i \in 1..p.of : x = <<p.unit + i - 1, 1>>
      BY <2>3
    <3>3. Carries(p) \subseteq ToSet(b)
      BY <2>1, <2>3 DEF ToSet
    <3> HIDE DEF b
    <3>4. ASSUME NEW k_1 \in 1..(Len(b) - 1) PROVE Gap(b[k_1], b[k_1 + 1])
      <4>1. /\ k_1 \in 1..p.of /\ k_1 + 1 \in 1..p.of
            /\ b[k_1] = <<p.unit + k_1 - 1, 1>> /\ b[k_1 + 1] = <<p.unit + k_1, 1>>
        BY <1>5, <2>1
      <4>2. b[k_1] \in Carries(p) /\ b[k_1 + 1] \in Carries(p)
        BY <2>1, <2>3, <4>1
      <4>3. \A y \in Seen : ~Before(b[k_1], y)
        BY <1>5, <1>6, <4>2, Asymmetric DEF Precede
      <4>4. \A y \in Carries(p) : ~(Before(b[k_1], y) /\ Before(y, b[k_1 + 1]))
        BY <1>5, <3>2, <4>1 DEF Before
      <4> QED
        BY <1>1, <4>2, <4>3, <4>4, NoneBetween
    <3> QED
      BY <1>9, <2>1, <3>1, <3>3, <3>4 DEF Filled
  <2> QED
    BY <2>4, <2>5
<1>13. CASE FuaPacket(p)
  <2> DEFINE c == Collected(p)  x == <<p.unit, p.part>>  b == Append(c, x)
  <2>1. p.kind = "fu" /\ Carries(p) = {x} /\ x \in Parts /\ arrived' = arrived \cup {p}
    BY <1>3, <1>5, <1>13 DEF FuaPacket, Arrives, Carries, Parts
  <2>2. x \in {<<f.unit, f.part>> : f \in arrived'}
    BY <2>1
  <2>3. ASSUME UNCHANGED out PROVE Accounted' /\ Seen' = Seen \cup {x}
    <3>1. Seen' = Seen \cup {x}
      BY <1>10, <2>1, <2>3 DEF Seen
    <3> QED
      BY <1>7, <2>1, <3>1
  <2>4. CASE Orphan(p)
    <3>1. UNCHANGED <<out, fua_buffer, fua_active>> /\ ~fua_active
      BY <1>13, <2>4 DEF FuaPacket, depacketizer, End, Orphan
    <3> QED
      BY <1>4, <1>10, <2>3, <3>1 DEF Filling
  <2>5. CASE ~Orphan(p)
    <3>1. /\ c \in Seq(Parts) /\ Filled(c)
          /\ c # <<>> => c = fua_buffer /\ fua_active
      BY <1>8, <2>5 DEF Collected, Orphan, Typed, Filling
    <3>2. \/ out' = Append(out, b) /\ ResetFua
          \/ fua_buffer' = b /\ fua_active' = TRUE /\ UNCHANGED out
      BY <1>13, <2>5 DEF FuaPacket, End, c
    <3> HIDE DEF c, x
    <3>3. /\ b \in Seq(Parts) /\ Len(b) = Len(c) + 1 /\ b[Len(c) + 1] = x /\ Len(c) \in Nat
          /\ \A j \in 1..Len(c) : b[j] = c[j]
          /\ b # <<>>
      BY <2>1, <3>1
    <3>4. Last(b) = x
      BY <3>3 DEF Last
    <3>5. ASSUME c # <<>> PROVE Gap(c[Len(c)], x)
      <4>1. \A y \in Seen : y = c[Len(c)] \/ Before(y, c[Len(c)])
        BY <3>1, <3>5 DEF Filling, Last
      <4>2. c[Len(c)] \in Parts
        BY <3>1, <3>5
      <4>3. \A y \in Seen : ~Before(c[Len(c)], y)
        BY <1>5, <4>1, <4>2, Asymmetric
      <4>4. ~Before(x, x)
        BY <2>1, Asymmetric
      <4> QED
        BY <1>1, <2>1, <4>3, <4>4, NoneBetween
    <3> HIDE DEF b
    <3>6. Filled(b)
      <4>1. ASSUME NEW k_1 \in 1..(Len(b) - 1) PROVE Gap(b[k_1], b[k_1 + 1])
        <5>1. k_1 \in 1..Len(c) /\ b[k_1] = c[k_1]
          BY <3>3
        <5>2. CASE k_1 = Len(c)
          <6>1. c # <<>>
            BY <5>1, <5>2
          <6> QED
            BY <3>3, <3>5, <5>1, <5>2, <6>1
        <5>3. CASE k_1 # Len(c)
          <6>1. k_1 \in 1..(Len(c) - 1) /\ b[k_1 + 1] = c[k_1 + 1]
            BY <3>3, <5>1, <5>3
          <6> QED
            BY <3>1, <5>1, <6>1 DEF Filled
        <5> QED
          BY <5>2, <5>3
      <4> QED
        BY <4>1 DEF Filled
    <3>7. CASE out' = Append(out, b) /\ ResetFua
      BY <1>9, <2>1, <2>2, <3>3, <3>6, <3>7
    <3>8. CASE fua_buffer' = b /\ fua_active' = TRUE /\ UNCHANGED out
      <4>1. \A y \in Seen' : y = x \/ Before(y, x)
        BY <1>6, <2>1, <2>3, <3>8 DEF Precede
      <4>2. Filled(fua_buffer)'
        BY <1>4, <3>6, <3>8
      <4> QED
        BY <1>10, <2>3, <3>3, <3>4, <3>8, <4>1, <4>2 DEF Filling
    <3> QED
      BY <3>2, <3>7, <3>8
  <2> QED
    BY <2>4, <2>5
<1>14. CASE UnusablePacket(p)
  <2>1. UNCHANGED <<out, fua_buffer, fua_active>> /\ p.kind = "other"
    BY <1>14 DEF UnusablePacket, Arrives, depacketizer
  <2>2. Carries(p) = {} /\ Seen' = Seen
    BY <1>3, <1>10, <2>1 DEF Carries, Seen
  <2> QED
    BY <1>4, <1>7, <1>10, <2>1, <2>2 DEF Filling
<1> QED
  BY <1>11, <1>12, <1>13, <1>14 DEF ProcessRtp

LEMMA StepFilled ==
  ASSUME Typed, Ordered, Accounted, Filling, [Next]_vars, ~overtaken'
  PROVE  Accounted' /\ Filling'
<1>1. CASE UNCHANGED vars
  BY <1>1 DEF vars, depacketizer, Accounted, Filling, Seen, Given, Travelling, Filled, Gap
<1> QED
  BY <1>1, SendFilled, LoseFilled, ProcessFilled DEF Next

\* What is returned begins with a start and ends with an end, whatever is lost
\* or reordered, and until a packet overtakes another there is no hole in it and
\* no splice but over what was lost (h264.rs:42-146).
THEOREM UnitsAreHeldTogether == Spec => []UnitsHoldTogether
<1> DEFINE Inv == Typed /\ Begun /\ (~overtaken => Ordered /\ Accounted /\ Filling)
<1>1. Init => Inv
  <2> SUFFICES ASSUME Init PROVE Begun /\ Ordered /\ Accounted /\ Filling
    BY InitTyped
  <2>1. DOMAIN out = {} /\ fua_buffer = <<>> /\ 1..Len(net) = {} /\ arrived = {} /\ sent = {}
        /\ fua_active = FALSE
    BY DEF Init
  <2>2. ToSet(out) = {} /\ DOMAIN fua_buffer = {} /\ 1..(Len(fua_buffer) - 1) = {}
    BY <2>1 DEF ToSet
  <2>3. Past = {} /\ Given = {}
    BY <2>1, <2>2 DEF Past, Given, ToSet
  <2>4. Ordered
    BY <2>1, <2>2, <2>3 DEF Ordered, OutSorted, Sorted, Precede
  <2>5. Accounted /\ Filling
    BY <2>1, <2>2 DEF Accounted, Filling, Filled
  <2> QED
    BY <2>1, <2>2, <2>4, <2>5 DEF Begun
<1>2. Inv /\ [Next]_vars => Inv'
  BY StepTyped, StepBegun, StepOvertakes, StepOrdered, StepFilled
<1>3. Inv => UnitsHoldTogether
  <2> SUFFICES ASSUME Inv, NEW u \in ToSet(out) PROVE StartsAndEnds(u) /\ OnlyLossIsMissing(u)
    BY DEF UnitsHoldTogether
  <2>1. ~overtaken => Filled(u)
    BY DEF Filling
  <2> QED
    BY <2>1 DEF Begun, OnlyLossIsMissing, Filled, Gap
<1> QED
  BY <1>1, <1>2, <1>3, PTL DEF Spec

-----------------------------------------------------------------------------
\* A packet that ends a reassembly, an empty one as well, keeps its place among
\* the fragments.
Interrupts(p) == p.kind \in {"single", "stap"}
Aligned ==
  \A i \in 1..Len(net) : Interrupts(net[i]) =>
    /\ net[i].unit <= next
    /\ \A f \in arrived : f.unit < net[i].unit
    /\ \A j \in 1..Len(net) : net[j].kind = "fu" =>
         IF i < j THEN net[i].unit <= net[j].unit ELSE net[j].unit < net[i].unit

\* The fragments of a unit that have arrived, up to the one that is expected,
\* are what is being collected.
Expected(n, i, l) ==
  \/ \E m \in 1..Len(net) : net[m] = Fragment(n, i, l)
  \/ next = n /\ part + 1 = i /\ of = l
Reassembled ==
  \A n, l \in Nat : \A i \in 1..(l - 1) :
    (\A j \in 1..i : Fragment(n, j, l) \in arrived) /\ Expected(n, i + 1, l) =>
      fua_active /\ fua_buffer = Whole(n, i)
Recovered ==
  \A n \in Nat, l \in Nat \ {0, 1} : AllArrived(n, l) => Whole(n, l) \in ToSet(out)

LEMMA SendAligned ==
  ASSUME Typed, Ordered, Aligned,
         SendSingle \/ SendAggregate \/ SendFragment \/ SendUnusable
  PROVE  Aligned'
<1>1. PICK p \in Packets :
        /\ Transmit(p) /\ next' \in Nat /\ next' >= next
        /\ Interrupts(p) => p.unit = next /\ part = 0
        /\ p.kind = "fu" => p.unit = next
  <2>1. Unusable \in Packets /\ ~Interrupts(Unusable) /\ Unusable.kind # "fu"
    BY DEF Unusable, Packets, Interrupts
  <2>2. \A n, k \in Nat : /\ Aggregate(n, k) \in Packets /\ Aggregate(n, k).unit = n
                          /\ Aggregate(n, k).kind # "fu"
                          /\ Single(n) \in Packets /\ Single(n).unit = n
                          /\ Single(n).kind # "fu"
    BY DEF Aggregate, Single, Packets
  <2>3. \A n, i, l \in Nat : /\ Fragment(n, i, l) \in Packets /\ Fragment(n, i, l).unit = n
                             /\ ~Interrupts(Fragment(n, i, l))
    BY DEF Fragment, Packets, Interrupts
  <2>4. next \in Nat /\ part + 1 \in Nat /\ 0..MaxParts \subseteq Nat /\ 2..MaxParts \subseteq Nat
    BY BoundsAssumption DEF Typed
  <2>5. CASE SendSingle
    BY <2>2, <2>4, <2>5 DEF SendSingle
  <2>6. CASE SendAggregate
    <3>1. PICK k \in 0..MaxParts : Transmit(Aggregate(next, k)) /\ next' = next + k
      BY <2>6 DEF SendAggregate
    <3> QED
      BY <2>2, <2>4, <2>6, <3>1 DEF SendAggregate
  <2>7. CASE SendFragment
    <3>1. PICK l \in 2..MaxParts :
            Transmit(Fragment(next, part + 1, l)) /\ (next' = next + 1 \/ next' = next)
      BY <2>7 DEF SendFragment
    <3> QED
      BY <2>3, <2>4, <3>1
  <2>8. CASE SendUnusable
    BY <2>1, <2>4, <2>8 DEF SendUnusable, sender
  <2> QED
    BY <2>5, <2>6, <2>7, <2>8
<1>2. /\ Len(net') = Len(net) + 1 /\ net'[Len(net) + 1] = p /\ Len(net) \in Nat
      /\ \A i \in 1..Len(net) : net'[i] = net[i] /\ net[i] \in Packets
      /\ arrived' = arrived /\ next \in Nat
  BY <1>1 DEF Typed, Transmit
<1>3. \A i \in 1..Len(net') : i \in 1..Len(net) \/ i = Len(net) + 1
  BY <1>2
<1>4. ASSUME part = 0
      PROVE  /\ \A f \in arrived : f.unit < next
             /\ \A j \in 1..Len(net) : net[j].kind = "fu" => net[j].unit < next
  <2>1. ASSUME NEW q \in Packets, q.part > 0, Before(<<q.unit, q.part>>, Cursor)
        PROVE  q.unit < next
    BY <1>2, <1>4, <2>1 DEF Before, Cursor, Packets
  <2>2. \A f \in arrived : Before(<<f.unit, f.part>>, Cursor)
    BY DEF Ordered, Precede, Past
  <2>3. \A j \in 1..Len(net) : net[j].kind = "fu" => Before(<<net[j].unit, net[j].part>>, Cursor)
    BY DEF Ordered, Precede, Carries
  <2> QED
    BY <1>2, <2>1, <2>2, <2>3 DEF Typed
<1>5. ASSUME NEW i \in 1..Len(net'), Interrupts(net'[i])
      PROVE  /\ net'[i].unit <= next'
             /\ \A f \in arrived' : f.unit < net'[i].unit
             /\ \A j \in 1..Len(net') : net'[j].kind = "fu" =>
                  IF i < j THEN net'[i].unit <= net'[j].unit ELSE net'[j].unit < net'[i].unit
  <2>1. CASE i \in 1..Len(net)
    <3>1. net'[i] = net[i] /\ net[i].unit \in Nat /\ i # Len(net) + 1
      BY <1>2, <2>1 DEF Packets
    <3>2. net[i].unit <= next /\ \A f \in arrived : f.unit < net[i].unit
      BY <1>5, <2>1, <3>1 DEF Aligned
    <3>3. ASSUME NEW j \in 1..Len(net'), net'[j].kind = "fu"
          PROVE  IF i < j THEN net[i].unit <= net'[j].unit ELSE net'[j].unit < net[i].unit
      <4>1. CASE j \in 1..Len(net)
        BY <1>2, <1>5, <2>1, <3>1, <3>3, <4>1 DEF Aligned
      <4>2. CASE j = Len(net) + 1
        BY <1>1, <1>2, <2>1, <3>2, <3>3, <4>2
      <4> QED
        BY <1>3, <4>1, <4>2
    <3> QED
      BY <1>1, <1>2, <3>1, <3>2, <3>3
  <2>2. CASE i = Len(net) + 1
    <3>1. net'[i].unit = next /\ part = 0 /\ p.kind # "fu"
      BY <1>1, <1>2, <1>5, <2>2 DEF Interrupts
    <3>2. \A j \in 1..Len(net') : net'[j].kind = "fu" => j \in 1..Len(net) /\ ~(i < j)
      BY <1>2, <1>3, <2>2, <3>1
    <3> QED
      BY <1>1, <1>2, <1>4, <3>1, <3>2
  <2> QED
    BY <1>3, <2>1, <2>2
<1> QED
  BY <1>5 DEF Aligned

\* Taking packets out of the network, or the oldest.
LEMMA ThinnedAligned ==
  ASSUME Typed, Aligned, NEW i \in DOMAIN net, net' = RemoveAt(net, i), UNCHANGED sender,
         \/ arrived' = arrived
         \/ i = 1 /\ net[1].kind = "fu" /\ arrived' = arrived \cup {net[1]}
  PROVE  Aligned'
<1>1. /\ i \in 1..Len(net)
      /\ \A j \in 1..Len(net') : \E k \in 1..Len(net) : net'[j] = net[k] /\ k # i
      /\ \A j, k \in 1..Len(net') : j < k =>
           \E m, n \in 1..Len(net) :
             m < n /\ net'[j] = net[m] /\ net'[k] = net[n] /\ m # i /\ n # i
      /\ net' \in Seq(Packets) /\ net \in Seq(Packets)
  BY Thinned DEF Typed
<1>2. ASSUME NEW j \in 1..Len(net'), Interrupts(net'[j])
      PROVE  /\ net'[j].unit <= next'
             /\ \A f \in arrived' : f.unit < net'[j].unit
             /\ \A k \in 1..Len(net') : net'[k].kind = "fu" =>
                  IF j < k THEN net'[j].unit <= net'[k].unit ELSE net'[k].unit < net'[j].unit
  <2>1. PICK m \in 1..Len(net) : net'[j] = net[m] /\ m # i
    BY <1>1
  <2>2. net'[j].unit <= next'
    BY <1>2, <2>1 DEF Aligned, sender
  <2>3. \A f \in arrived' : f.unit < net'[j].unit
    <3>1. \A f \in arrived : f.unit < net'[j].unit
      BY <1>2, <2>1 DEF Aligned
    <3>2. ASSUME i = 1, net[1].kind = "fu" PROVE net[1].unit < net'[j].unit
      <4>1. ~(m < 1) /\ m # 1 /\ 1 \in 1..Len(net)
        BY <1>1, <2>1, <3>2
      <4>2. ~(m < 1) /\ Interrupts(net[m])
        BY <1>2, <2>1, <4>1
      <4> QED
        BY <2>1, <3>2, <4>1, <4>2 DEF Aligned
    <3> QED
      BY <3>1, <3>2
  <2>4. ASSUME NEW k \in 1..Len(net'), net'[k].kind = "fu"
        PROVE  IF j < k THEN net'[j].unit <= net'[k].unit ELSE net'[k].unit < net'[j].unit
    <3>1. CASE j < k
      <4>1. PICK m_1, n_1 \in 1..Len(net) : m_1 < n_1 /\ net'[j] = net[m_1] /\ net'[k] = net[n_1]
        BY <1>1, <3>1
      <4> QED
        BY <1>2, <2>4, <3>1, <4>1 DEF Aligned
    <3>2. CASE k < j
      <4>1. PICK m_1, n_1 \in 1..Len(net) : m_1 < n_1 /\ net'[k] = net[m_1] /\ net'[j] = net[n_1]
        BY <1>1, <3>2
      <4>2. ~(n_1 < m_1)
        BY <4>1
      <4>3. net[m_1].unit < net[n_1].unit
        BY <1>2, <2>4, <4>1, <4>2 DEF Aligned
      <4> QED
        BY <3>2, <4>1, <4>3
    <3>3. j = k => FALSE
      BY <1>2, <2>4 DEF Interrupts
    <3> QED
      BY <1>1, <3>1, <3>2, <3>3
  <2> QED
    BY <2>2, <2>3, <2>4
<1> QED
  BY <1>2 DEF Aligned


LEMMA StepAligned ==
  ASSUME Typed, Ordered, Aligned, [Next]_vars, ~overtaken'
  PROVE  Aligned'
<1>1. CASE UNCHANGED vars
  BY <1>1 DEF vars, sender, Aligned
<1>2. CASE Lose
  <2>1. PICK i \in DOMAIN net : net' = RemoveAt(net, i)
    BY <1>2 DEF Lose
  <2> QED
    BY <1>2, <2>1, ThinnedAligned DEF Lose
<1>3. ASSUME NEW p, ProcessRtp(p) PROVE Aligned'
  <2>1. 1 \in 1..Len(net) /\ p = net[1] /\ net' = RemoveAt(net, 1)
    BY <1>3, ProcessOrdered
  <2>2. PICK k \in {"single", "fu", "stap", "other"} : Arrives(p, k)
    BY <1>3 DEF ProcessRtp, SinglePacket, StapPacket, FuaPacket, UnusablePacket
  <2>3. UNCHANGED sender /\ (arrived' = arrived \/ (p.kind = "fu" /\ arrived' = arrived \cup {p}))
    BY <2>2 DEF Arrives
  <2>4. 1 \in DOMAIN net
    BY <2>1 DEF Typed
  <2> QED
    BY <2>1, <2>3, <2>4, ThinnedAligned
<1> QED
  BY <1>1, <1>2, <1>3, SendAligned DEF Next

LEMMA SendReassembles ==
  ASSUME Typed, Ordered, Reassembled,
         SendSingle \/ SendAggregate \/ SendFragment \/ SendUnusable
  PROVE  Reassembled'
<1>1. UNCHANGED <<arrived, fua_buffer, fua_active>> /\ next \in Nat /\ part \in Nat
      /\ net \in Seq(Packets)
  BY DEF SendSingle, SendAggregate, SendFragment, SendUnusable, Transmit, depacketizer, Typed
<1>2. ASSUME NEW n \in Nat, NEW l \in Nat, NEW i \in 1..(l - 1),
             \A j \in 1..i : Fragment(n, j, l) \in arrived', Expected(n, i + 1, l)'
      PROVE  Expected(n, i + 1, l)
  <2>1. \A p \in {Single(next), Unusable} \cup {Aggregate(next, k) : k \in Nat} :
          p # Fragment(n, i + 1, l)
    BY DEF Single, Unusable, Aggregate, Fragment
  <2>2. ASSUME NEW p, net' = Append(net, p), p \in Packets
        PROVE  (\E m \in 1..Len(net') : net'[m] = Fragment(n, i + 1, l)) =>
                 p = Fragment(n, i + 1, l) \/ Expected(n, i + 1, l)
    BY <1>1, <2>2 DEF Expected
  <2>3. i \in Nat /\ i # 0 /\ l \in Nat
    OBVIOUS
  <2>4. CASE SendSingle \/ SendAggregate
    <3>1. PICK p \in {Single(next)} \cup {Aggregate(next, k) : k \in Nat} : net' = Append(net, p)
      BY <2>4, BoundsAssumption DEF SendSingle, SendAggregate, Transmit
    <3>2. p \in Packets
      BY <1>1 DEF Single, Aggregate, Packets
    <3>3. part' = 0
      BY <2>4 DEF SendSingle, SendAggregate
    <3> QED
      BY <1>2, <2>1, <2>2, <2>3, <3>1, <3>2, <3>3 DEF Expected
  <2>5. CASE SendUnusable
    <3>1. net' = Append(net, Unusable) /\ Unusable \in Packets /\ UNCHANGED sender
      BY <2>5 DEF SendUnusable, Transmit, Unusable, Packets
    <3>2. next' = next /\ part' = part /\ of' = of
      BY <3>1 DEF sender
    <3> QED
      BY <1>2, <2>1, <2>2, <3>1, <3>2 DEF Expected
  <2>6. CASE SendFragment
    <3>1. PICK k \in 2..MaxParts :
            /\ part # 0 => k = of
            /\ net' = Append(net, Fragment(next, part + 1, k))
            /\ \/ part' = 0
               \/ part' = part + 1 /\ of' = k /\ UNCHANGED next
      BY <2>6 DEF SendFragment, Transmit
    <3>2. k \in Nat /\ Fragment(next, part + 1, k) \in Packets
      BY <1>1, BoundsAssumption DEF Fragment, Packets
    <3>3. CASE Fragment(next, part + 1, k) = Fragment(n, i + 1, l)
      <4>1. next = n /\ part + 1 = i + 1 /\ k = l
        BY <3>3 DEF Fragment
      <4>2. part # 0
        BY <1>1, <2>3, <4>1
      <4> QED
        BY <3>1, <4>1, <4>2 DEF Expected
    <3>4. CASE part' = part + 1 /\ of' = k /\ next' = next /\ next' = n /\ part' + 1 = i + 1 /\ of' = l
      <4>1. Fragment(next, part + 1, l) \in arrived
        BY <1>1, <1>2, <2>3, <3>4
      <4>2. <<next, part + 1>> \in Past
        BY <4>1 DEF Past, Fragment
      <4>3. Before(Cursor, Cursor)
        BY <4>2 DEF Ordered, Precede, Cursor
      <4> QED
        BY <1>1, <4>3 DEF Before, Cursor
    <3> QED
      BY <1>2, <2>2, <2>3, <3>1, <3>2, <3>3, <3>4 DEF Expected
  <2> QED
    BY <2>4, <2>5, <2>6
<1> QED
  BY <1>1, <1>2 DEF Reassembled

\* A packet taken out of the network was not the one that is expected still.
LEMMA ThinnedExpects ==
  ASSUME Typed, NEW i \in DOMAIN net, net' = RemoveAt(net, i), UNCHANGED sender,
         NEW n, NEW k, NEW l, Expected(n, k, l)'
  PROVE  \/ \E m \in 1..Len(net) : m # i /\ net[m] = Fragment(n, k, l)
         \/ next = n /\ part + 1 = k /\ of = l
<1>1. \A j \in 1..Len(net') : \E m \in 1..Len(net) : net'[j] = net[m] /\ m # i
  BY Thinned
<1> QED
  BY <1>1 DEF Expected, sender

\* What arrives before the fragment that is expected, and is not Unusable, is
\* the fragment before it.
LEMMA ArrivesInTurn ==
  ASSUME Typed, Ordered, Aligned, NEW p, ProcessRtp(p), ~overtaken', p.kind # "other",
         NEW n \in Nat, NEW l \in Nat, NEW i \in 1..(l - 1),
         \A j \in 1..i : Fragment(n, j, l) \in arrived',
         Expected(n, i + 1, l)'
  PROVE  p = Fragment(n, i, l) /\ p \notin arrived
<1>1. 1 \in 1..Len(net) /\ 1 \in DOMAIN net /\ p = net[1] /\ net' = RemoveAt(net, 1)
      /\ p \in Packets
  BY ProcessOrdered DEF Typed
<1>2. PICK k \in {"single", "fu", "stap", "other"} : Arrives(p, k)
  BY DEF ProcessRtp, SinglePacket, StapPacket, FuaPacket, UnusablePacket
<1>3. /\ UNCHANGED sender
      /\ arrived' = IF p.kind = "fu" THEN arrived \cup {p} ELSE arrived
      /\ p.kind \in {"single", "fu", "stap"}
  BY <1>2 DEF Arrives
<1>4. \/ \E m \in 1..Len(net) : m # 1 /\ net[m] = Fragment(n, i + 1, l)
      \/ next = n /\ part + 1 = i + 1 /\ of = l
  BY <1>1, <1>3, ThinnedExpects
<1>5. \A j : /\ Fragment(n, j, l).kind = "fu" /\ Fragment(n, j, l).unit = n
             /\ Fragment(n, j, l).part = j /\ Carries(Fragment(n, j, l)) = {<<n, j>>}
  BY DEF Fragment, Carries
<1>6. CASE p.kind # "fu"
  <2>1. Interrupts(net[1]) /\ Fragment(n, 1, l) \in arrived
    BY <1>1, <1>3, <1>6 DEF Interrupts
  <2>2. n < net[1].unit /\ net[1].unit \in Nat
    BY <1>1, <1>5, <2>1 DEF Aligned, Packets
  <2>3. CASE \E m \in 1..Len(net) : m # 1 /\ net[m] = Fragment(n, i + 1, l)
    <3>1. PICK m \in 1..Len(net) : m # 1 /\ net[m] = Fragment(n, i + 1, l)
      BY <2>3
    <3>2. 1 < m /\ net[m].kind = "fu" /\ net[m].unit = n
      BY <1>5, <3>1
    <3>3. net[1].unit <= n
      BY <1>1, <2>1, <3>2 DEF Aligned
    <3> QED
      BY <2>2, <3>3
  <2>4. CASE next = n
    <3>1. net[1].unit <= n
      BY <1>1, <2>1, <2>4 DEF Aligned
    <3> QED
      BY <2>2, <3>1
  <2> QED
    BY <1>4, <2>3, <2>4
<1>7. CASE p.kind = "fu"
  <2> DEFINE x == <<p.unit, p.part>>
  <2>1. Carries(p) = {x} /\ p.unit \in Nat /\ p.part \in Nat
    BY <1>1, <1>7 DEF Carries, Packets
  <2>2. Before(x, <<n, i + 1>>)
    <3>1. CASE \E m \in 1..Len(net) : m # 1 /\ net[m] = Fragment(n, i + 1, l)
      <4>1. PICK m \in 1..Len(net) : m # 1 /\ net[m] = Fragment(n, i + 1, l)
        BY <3>1
      <4>2. Precede(Carries(net[1]), Carries(net[m]))
        BY <1>1, <4>1 DEF Ordered
      <4> QED
        BY <1>1, <1>5, <2>1, <4>1, <4>2 DEF Precede
    <3>2. CASE next = n /\ part + 1 = i + 1
      BY <1>1, <2>1, <3>2 DEF Ordered, Precede, Cursor
    <3> QED
      BY <1>4, <3>1, <3>2
  <2>3. \A f \in arrived : Before(<<f.unit, f.part>>, x)
    BY <1>1, <2>1 DEF Ordered, Precede, Past
  <2>4. ASSUME Fragment(n, i, l) \in arrived PROVE FALSE
    <3>1. Before(<<n, i>>, x)
      BY <1>5, <2>3, <2>4
    <3> QED
      BY <2>1, <2>2, <3>1 DEF Before
  <2>5. p \notin arrived
    BY <2>1, <2>3 DEF Before
  <2>6. Fragment(n, i, l) \in arrived'
    OBVIOUS
  <2> QED
    BY <1>3, <1>7, <2>4, <2>5, <2>6
<1> QED
  BY <1>6, <1>7


\* A fragment added to those before it.
LEMMA WholeGrows ==
  ASSUME NEW n, NEW i \in Nat
  PROVE  Append(Whole(n, i), <<n, i + 1>>) = Whole(n, i + 1) /\ Whole(n, 0) = <<>>
         /\ (i > 0 => Whole(n, i) # <<>>)
<1> DEFINE w == Whole(n, i)  v == Whole(n, i + 1)
<1>1. w \in Seq({<<n, j>> : j \in Nat}) /\ Len(w) = i /\ \A j \in 1..i : w[j] = <<n, j>>
  BY DEF Whole
<1>2. Append(w, <<n, i + 1>>) = v
  <2>1. DOMAIN Append(w, <<n, i + 1>>) = 1..(i + 1) /\ DOMAIN v = 1..(i + 1)
    BY <1>1 DEF Whole
  <2>2. \A j \in 1..(i + 1) : Append(w, <<n, i + 1>>)[j] = v[j]
    BY <1>1 DEF Whole
  <2> QED
    BY <1>1, <2>1, <2>2 DEF Whole
<1>3. Whole(n, 0) = <<>>
  BY DEF Whole
<1>4. i > 0 => Whole(n, i) # <<>>
  BY <1>1
<1> QED
  BY <1>2, <1>3, <1>4

\* A fragment that arrives after all those before it is added to them.
LEMMA Collects ==
  ASSUME Typed, Ordered, Reassembled, NEW p, ProcessRtp(p), ~overtaken',
         NEW n \in Nat, NEW l \in Nat, NEW i \in 1..l, p = Fragment(n, i, l), p \notin arrived,
         l # 1, \A j \in 1..i : Fragment(n, j, l) \in arrived'
  PROVE  FuaPacket(p) /\ ~Orphan(p) /\ Append(Collected(p), <<p.unit, p.part>>) = Whole(n, i)
<1>1. 1 \in 1..Len(net) /\ p = net[1]
  BY ProcessOrdered
<1>2. p.kind = "fu" /\ p.unit = n /\ p.part = i /\ p.of = l /\ i \in Nat
  BY DEF Fragment
<1>3. FuaPacket(p)
  BY <1>2 DEF ProcessRtp, SinglePacket, StapPacket, UnusablePacket, Arrives
<1>4. arrived' = arrived \cup {p}
  BY <1>3 DEF FuaPacket, Arrives
<1>5. CASE i = 1
  <2>1. Collected(p) = Whole(n, 0) /\ ~Orphan(p)
    BY <1>2, <1>5, WholeGrows DEF Collected, Orphan
  <2> QED
    BY <1>2, <1>3, <1>5, <2>1, WholeGrows
<1>6. CASE i # 1
  <2>1. i - 1 \in 1..(l - 1) /\ i - 1 \in Nat /\ (i - 1) + 1 = i
    BY <1>2, <1>6
  <2>2. \A j \in 1..(i - 1) : j \in 1..i /\ j # i
    BY <1>2
  <2>3. \A j \in 1..(i - 1) : Fragment(n, j, l) # p
    BY <2>2 DEF Fragment
  <2>4. \A j \in 1..(i - 1) : Fragment(n, j, l) \in arrived
    BY <1>4, <2>2, <2>3
  <2>5. Expected(n, i, l)
    BY <1>1 DEF Expected
  <2>6. fua_active /\ fua_buffer = Whole(n, i - 1)
    BY <2>1, <2>4, <2>5 DEF Reassembled
  <2>7. Collected(p) = Whole(n, i - 1) /\ ~Orphan(p)
    BY <1>2, <1>6, <2>6 DEF Collected, Orphan
  <2> QED
    BY <1>2, <1>3, <2>1, <2>7, WholeGrows
<1> QED
  BY <1>5, <1>6

LEMMA StepReassembles ==
  ASSUME Typed, Ordered, Aligned, Reassembled, [Next]_vars, ~overtaken'
  PROVE  Reassembled'
<1>1. CASE UNCHANGED vars
  BY <1>1 DEF vars, sender, depacketizer, Reassembled, Expected
<1>2. CASE Lose
  <2>1. PICK i \in DOMAIN net : net' = RemoveAt(net, i)
    BY <1>2 DEF Lose
  <2>2. UNCHANGED <<sender, arrived, fua_buffer, fua_active>>
    BY <1>2 DEF Lose, depacketizer
  <2>3. ASSUME NEW n, NEW k, NEW l, Expected(n, k, l)' PROVE Expected(n, k, l)
    BY <2>1, <2>2, <2>3, ThinnedExpects DEF Expected
  <2> QED
    BY <2>2, <2>3 DEF Reassembled
<1>3. ASSUME NEW p, ProcessRtp(p), NEW n \in Nat, NEW l \in Nat, NEW i \in 1..(l - 1),
             \A j \in 1..i : Fragment(n, j, l) \in arrived', Expected(n, i + 1, l)'
      PROVE  fua_active' /\ fua_buffer' = Whole(n, i)
  <2>0. 1 \in 1..Len(net) /\ p = net[1] /\ net' = RemoveAt(net, 1)
    BY <1>3, ProcessOrdered
  <2>1. 1 \in DOMAIN net
    BY <2>0 DEF Typed
  <2>2. CASE p.kind = "other"
    <3>1. UNCHANGED <<sender, arrived, fua_buffer, fua_active>>
      BY <1>3, <2>2 DEF ProcessRtp, SinglePacket, StapPacket, FuaPacket, UnusablePacket,
         Arrives, depacketizer
    <3>2. \/ \E m \in 1..Len(net) : m # 1 /\ net[m] = Fragment(n, i + 1, l)
          \/ next = n /\ part + 1 = i + 1 /\ of = l
      BY <1>3, <2>0, <2>1, <3>1, ThinnedExpects
    <3>3. Expected(n, i + 1, l)
      BY <3>2 DEF Expected
    <3> QED
      BY <1>3, <3>1, <3>3 DEF Reassembled
  <2>3. CASE p.kind # "other"
    <3>1. p = Fragment(n, i, l) /\ p \notin arrived
      BY <1>3, <2>3, ArrivesInTurn
    <3>2. i \in 1..l /\ l # 1 /\ i # l
      BY <1>3
    <3>3. FuaPacket(p) /\ ~Orphan(p) /\ Append(Collected(p), <<p.unit, p.part>>) = Whole(n, i)
      BY <1>3, <3>1, <3>2, Collects
    <3>4. p.part # p.of
      BY <3>1, <3>2 DEF Fragment
    <3> QED
      BY <3>3, <3>4 DEF FuaPacket
  <2> QED
    BY <2>2, <2>3
<1>4. ASSUME NEW p, ProcessRtp(p) PROVE Reassembled'
  BY <1>3, <1>4 DEF Reassembled
<1> QED
  BY <1>1, <1>2, <1>4, SendReassembles DEF Next

LEMMA StepRecovers ==
  ASSUME Typed, Ordered, Reassembled, Recovered, [Next]_vars, ~overtaken'
  PROVE  Recovered'
<1>1. CASE UNCHANGED vars \/ SendSingle \/ SendAggregate \/ SendFragment \/ SendUnusable \/ Lose
  BY <1>1 DEF vars, SendSingle, SendAggregate, SendFragment, SendUnusable, Transmit, Lose,
     Recovered, AllArrived
<1>2. ASSUME NEW p, ProcessRtp(p), NEW n \in Nat, NEW l \in Nat \ {0, 1}, AllArrived(n, l)'
      PROVE  Whole(n, l) \in ToSet(out')
  <2>1. 1 \in 1..Len(net) /\ p = net[1] /\ p \in Packets
    BY <1>2, ProcessOrdered DEF Typed
  <2>2. PICK k \in {"single", "fu", "stap", "other"} : Arrives(p, k)
    BY <1>2 DEF ProcessRtp, SinglePacket, StapPacket, FuaPacket, UnusablePacket
  <2>3. arrived' = IF p.kind = "fu" THEN arrived \cup {p} ELSE arrived
    BY <2>2 DEF Arrives
  <2>4. CASE AllArrived(n, l)
    <3>1. out' = out \/ \E b \in Seq(Parts) : out' = Append(out, b)
      <4>1. <<p.unit, p.part>> \in Parts
        BY <2>1 DEF Packets, Parts
      <4>2. Append(Collected(p), <<p.unit, p.part>>) \in Seq(Parts)
        BY <4>1 DEF Collected, Typed
      <4> QED
        BY <1>2, <2>1, <4>2, UnitsTyped DEF ProcessRtp, SinglePacket, StapPacket, FuaPacket,
           UnusablePacket, End
    <3>2. ToSet(out) \subseteq ToSet(out')
      BY <3>1, Returns
    <3> QED
      BY <2>4, <3>2 DEF Recovered
  <2>5. CASE ~AllArrived(n, l)
    <3>1. PICK i \in 1..l : Fragment(n, i, l) \notin arrived
      BY <2>5 DEF AllArrived
    <3>2. \A j \in 1..l : Fragment(n, j, l) \in arrived'
      BY <1>2 DEF AllArrived
    <3>3. p = Fragment(n, i, l) /\ p.kind = "fu" /\ arrived' = arrived \cup {p}
      BY <2>3, <3>1, <3>2
    <3>4. ASSUME i # l PROVE FALSE
      <4>1. Fragment(n, l, l) # p /\ l \in 1..l
        BY <3>3, <3>4 DEF Fragment
      <4>2. Fragment(n, l, l) \in arrived
        BY <3>2, <3>3, <4>1
      <4>3. <<n, l>> \in Past /\ <<n, i>> \in Carries(p)
        BY <3>3, <4>2 DEF Past, Carries, Fragment
      <4>4. Before(<<n, l>>, <<n, i>>)
        BY <2>1, <4>3 DEF Ordered, Precede
      <4> QED
        BY <4>4 DEF Before
    <3>5. /\ FuaPacket(p) /\ ~Orphan(p)
          /\ Append(Collected(p), <<p.unit, p.part>>) = Whole(n, l)
      BY <1>2, <3>1, <3>2, <3>3, <3>4, Collects
    <3>6. p.part = p.of
      BY <3>3, <3>4 DEF Fragment
    <3>7. out' = Append(out, Whole(n, l))
      BY <3>5, <3>6 DEF FuaPacket, End
    <3>8. Whole(n, l) \in Seq(Parts)
      BY DEF Whole, Parts
    <3> QED
      BY <3>7, <3>8, Returns
  <2> QED
    BY <2>4, <2>5
<1>3. ASSUME NEW p, ProcessRtp(p) PROVE Recovered'
  BY <1>2, <1>3 DEF Recovered
<1> QED
  BY <1>1, <1>3 DEF Next

\* Until a packet overtakes another, no unit is spoilt by what comes before,
\* between or after its fragments, whatever is lost (h264.rs:42-141).
THEOREM IntactUnitsAreReturned == Spec => []IntactUnitsReturned
<1> DEFINE Inv == Typed /\ (~overtaken => Ordered /\ Aligned /\ Reassembled /\ Recovered)
<1>1. Init => Inv
  <2> SUFFICES ASSUME Init PROVE Ordered /\ Aligned /\ Reassembled /\ Recovered
    BY InitTyped
  <2>1. DOMAIN out = {} /\ DOMAIN fua_buffer = {} /\ 1..Len(net) = {} /\ arrived = {}
        /\ ~fua_active
    BY DEF Init
  <2>2. Past = {} /\ Given = {}
    BY <2>1 DEF Past, Given, ToSet
  <2>3. Ordered /\ Aligned
    BY <2>1, <2>2 DEF Ordered, OutSorted, Sorted, Precede, Aligned
  <2>4. \A n : Fragment(n, 1, n) \notin arrived
    BY <2>1
  <2>5. Reassembled
    BY <2>1 DEF Reassembled
  <2>6. \A l \in Nat \ {0, 1} : 1 \in 1..l
    OBVIOUS
  <2>7. Recovered
    BY <2>1, <2>6 DEF Recovered, AllArrived
  <2> QED
    BY <2>3, <2>5, <2>7
<1>2. Inv /\ [Next]_vars => Inv'
  BY StepTyped, StepOvertakes, StepOrdered, StepAligned, StepReassembles, StepRecovers
<1>3. Inv => IntactUnitsReturned
  <2>1. 1..MaxUnits \subseteq Nat /\ 2..MaxParts \subseteq Nat \ {0, 1}
    BY BoundsAssumption
  <2> QED
    BY <2>1 DEF Recovered, IntactUnitsReturned
<1> QED
  BY <1>1, <1>2, <1>3, PTL DEF Spec
=============================================================================

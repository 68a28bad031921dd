------------------------------ MODULE MCMedia -------------------------------
(***************************************************************************)
(* The parts between a pipeline and its media tracks, one at a time: the   *)
(* depacketizer, the path of a video, the path of sound, and the frames of *)
(* a video.  They share no state, so each behaviour runs one of them.      *)
(***************************************************************************)
EXTENDS H264Depacketizer, VideoPath, AudioPath, VideoFrames

VARIABLE running  \* the part that runs

packetVars == vars

MediaInit ==
  /\ Init /\ VideoInit /\ AudioInit /\ ImageInit
  /\ running \in {"depacketizer", "video", "audio", "frames"}
  /\ running = "audio" \/ end = CHOOSE e \in Ends : TRUE

MediaNext ==
  /\ UNCHANGED running
  /\ \/ running = "depacketizer" /\ Next /\ UNCHANGED <<videoVars, audioVars, imageVars>>
     \/ running = "video" /\ VideoNext /\ UNCHANGED <<packetVars, audioVars, imageVars>>
     \/ running = "audio" /\ AudioNext /\ UNCHANGED <<packetVars, videoVars, imageVars>>
     \/ running = "frames" /\ ImageNext /\ UNCHANGED <<packetVars, videoVars, audioVars>>

MediaSpec == MediaInit /\ [][MediaNext]_<<running, packetVars, videoVars, audioVars, imageVars>>

-----------------------------------------------------------------------------
Sound(rate, channels, format, bytes) ==
  [rate |-> rate, channels |-> channels, format |-> format, bytes |-> bytes]

\* Frames of 20 ms and of 2.5 ms at two rates, mono and stereo, one of 5 ms,
\* and frames that no Opus encoder takes: 7 ms, samples of four bytes, half a
\* sample, a rate of 44.1 kHz and of zero.
SomeFrames ==
  {Sound(48000, 2, "I16Le", 3840), Sound(48000, 1, "I16Le", 1920),
   Sound(48000, 2, "I16Le", 480), Sound(8000, 1, "I16Le", 320),
   Sound(8000, 1, "I16Le", 40), Sound(8000, 1, "I16Le", 80),
   Sound(8000, 1, "I16Le", 112), Sound(48000, 2, "F32Le", 7680),
   Sound(8000, 1, "I16Le", 321), Sound(44100, 2, "I16Le", 3528),
   Sound(0, 2, "I16Le", 3840)}

SomeConfigs ==
  {[rate |-> 48000, channels |-> 2], [rate |-> 8000, channels |-> 1],
   [rate |-> 44100, channels |-> 2]}

SomeEnds ==
  {[rate |-> 48000, channels |-> 2], [rate |-> 8000, channels |-> 1],
   [rate |-> 48000, channels |-> 3]}
=============================================================================

----------------------------- MODULE VideoFrames -----------------------------
(***************************************************************************)
(* The arithmetic of I420 frames: VideoFrame and PixelFormat (aiko-core,   *)
(* media.rs), the picture that WebRtcVideoSource copies out of its decoder *)
(* and the planes that WebRtcVideoSink hands to its encoder (aiko-webrtc,  *)
(* pipeline/), and the bars that the example video_demo.rs paints.  Width  *)
(* and height are u32 and so is their product, which wraps in a release    *)
(* build and panics in a debug build.  A byte of the data is its index; of *)
(* interest is which bytes are there, are written and are in a plane.      *)
(***************************************************************************)
EXTENDS Integers

CONSTANTS
  Modulus,  \* 2^32 in the code
  Sides     \* widths and heights of frames

ASSUME SidesAssumption == Modulus \in Nat \ {0} /\ Sides \subseteq Nat

VARIABLES
  image,    \* the frame made last: its width, height and length of data
  origin,   \* what made it: "new", "from_raw", "decoder" or "bars"
  outcome,  \* "ok" or "panic"
  written   \* the bytes its maker has written

imageVars == <<image, origin, outcome, written>>

ImageInit ==
  /\ image = [width |-> 0, height |-> 0, length |-> 0]
  /\ origin = "none" /\ outcome = "ok" /\ written = {}

-----------------------------------------------------------------------------
Pixels(w, h) == (w * h) % Modulus

\* What a product of sides may do, in one build or the other.
Multiplied(w, h) == IF w * h < Modulus THEN {"ok"} ELSE {"ok", "panic"}

\* PixelFormat::I420.frame_size
FrameSize(w, h) == (Pixels(w, h) * 3) \div 2

\* Deviation: the planes of the colours are half as large as that of Y.
QuarterHalved(y) == y \div 2
\* The size of U and V for a Y of y bytes.
Quarter(y) == y \div 4

\* i420_planes: the bytes of each plane.
PlaneY(w, h) == 0..(Pixels(w, h) - 1)
PlaneU(w, h) == LET y == Pixels(w, h) IN y..(y + Quarter(y) - 1)
PlaneV(w, h) ==
  LET y == Pixels(w, h) IN (y + Quarter(y))..(y + 2 * Quarter(y) - 1)

\* Bytes that are not there cannot be written.
Writes(bytes, length) == IF bytes \subseteq 0..(length - 1) THEN "ok" ELSE "panic"

Made(w, h, length, by, bytes) ==
  /\ image' = [width |-> w, height |-> h, length |-> length]
  /\ origin' = by /\ written' = bytes

-----------------------------------------------------------------------------
\* VideoFrame::new
New(w, h) ==
  /\ Made(w, h, FrameSize(w, h), "new", {})
  /\ outcome' \in Multiplied(w, h)

\* VideoFrame::from_raw: panics unless the length is that of the format.
FromRaw(w, h, length) ==
  /\ Made(w, h, length, "from_raw", {})
  /\ IF length = FrameSize(w, h) THEN outcome' \in Multiplied(w, h) ELSE outcome' = "panic"

\* Rows of a plane, one behind the other.
Rows(start, rows, length) == start..(start + rows * length - 1)

\* The length of the data the source makes for a picture, and the bytes of it
\* that it copies, row by row without the padding of the decoder's strides.
CopyLength(w, h) == Pixels(w, h) + 2 * (Pixels(w, h) \div 4)
Copied(w, h) ==
  LET y == Pixels(w, h) IN
    Rows(0, h, w) \cup Rows(y, h \div 2, w \div 2)
      \cup Rows(y + y \div 4, h \div 2, w \div 2)

\* A decoded picture becomes a frame.  H264 gives it even sides, and its levels
\* bound them far below a product of 2^32.
CopyDecoded(w, h) ==
  /\ w % 2 = 0 /\ h % 2 = 0 /\ w * h < Modulus
  /\ Made(w, h, CopyLength(w, h), "decoder", Copied(w, h))
  /\ outcome' = IF CopyLength(w, h) = FrameSize(w, h)
                  THEN Writes(Copied(w, h), CopyLength(w, h)) ELSE "panic"

\* Deviation: a row of colours for each row.
ColourAtEach(w, row, col) == row * (w \div 2) + (col \div 2)
\* The colours of row and column: one for each two rows and two columns.
ColourAt(w, row, col) == (row \div 2) * (w \div 2) + (col \div 2)

\* generate_frame: a colour for each position, of a bar an eighth of the width.
Painted(w, h) ==
  LET y == w * h  IN
    {row * w + col : row \in 0..(h - 1), col \in 0..(w - 1)}
      \cup UNION {{y + ColourAt(w, r, c), y + y \div 4 + ColourAt(w, r, c)} :
                    r \in {i \in 0..(h - 1) : i % 2 = 0}, c \in {i \in 0..(w - 1) : i % 2 = 0}}

\* The demo has 640 by 480; a width below eight divides by zero.
PaintBars(w, h) ==
  /\ w % 2 = 0 /\ h % 2 = 0 /\ w * h < Modulus
  /\ Made(w, h, FrameSize(w, h), "bars", Painted(w, h))
  /\ outcome' = IF w \div 8 = 0 THEN "panic" ELSE Writes(Painted(w, h), FrameSize(w, h))

ImageNext ==
  \E w, h \in Sides :
    \/ New(w, h) \/ CopyDecoded(w, h) \/ PaintBars(w, h)
    \/ \E length \in {FrameSize(w, h), CopyLength(w, h)} : FromRaw(w, h, length)

-----------------------------------------------------------------------------
\* The planes of a frame that was made lie in its data, so that i420_planes
\* (media.rs:104-116) does not panic: for odd sides as well, and for a product
\* that has wrapped.
PlanesInside ==
  outcome = "ok" =>
    PlaneY(image.width, image.height) \cup PlaneU(image.width, image.height)
      \cup PlaneV(image.width, image.height) \subseteq 0..(image.length - 1)

\* "Plane layout: Y (width*height) + U (width/2 * height/2) + V (width/2 *
\* height/2)" (media.rs:15): what the source copies out of its decoder and what
\* the demo paints is accepted by from_raw, fills the frame to the last byte,
\* and has the planes that the sink's encoder expects (video_sink.rs:124-128).
MadeToMeasure ==
  origin \in {"decoder", "bars"} /\ image.width >= 8 =>
    LET w == image.width  h == image.height IN
      /\ outcome = "ok"
      /\ written = 0..(image.length - 1)
      /\ PlaneY(w, h) = 0..(w * h - 1)
      /\ PlaneU(w, h) = Rows(w * h, h \div 2, w \div 2)
      /\ PlaneV(w, h) = Rows(w * h + (w \div 2) * (h \div 2), h \div 2, w \div 2)
=============================================================================

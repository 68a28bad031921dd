------------------------------ MODULE Elements ------------------------------
(***************************************************************************)
(* The elements of a pipeline and what they make of a frame: the traits    *)
(* and closures of aiko-core (element.rs, frame.rs) and the elements of    *)
(* the example simple_pipeline.rs.  An element is known by its name; it    *)
(* has an input and an output type.  Of the payloads an i32 is a number,   *)
(* and the String "Value: n" is the number n under the type String.        *)
(***************************************************************************)
EXTENDS Integers, Sequences

Unit == "()"
PayloadTypes == {"i32", "String"}

\* add_ten is a MapElement, no_name a PassThrough<String>.
Transforms == {"double", "add_ten", "even_filter", "to_string", "no_name"}
Sinks == {"collector", "print_sink"}
Sources == {"counter_source"}

\* The associated types Input and Output, () where an element has none.
InputType(e) ==
  IF e \in Sources THEN Unit
  ELSE IF e \in {"double", "add_ten", "even_filter", "to_string"} THEN "i32"
  ELSE "String"

OutputType(e) ==
  IF e \in Sinks THEN Unit
  ELSE IF e \in {"double", "add_ten", "even_filter", "counter_source"} THEN "i32"
  ELSE "String"

\* Frame::new with the metadata of FrameMetadata::new, the time left out.
NewFrame(stream, id, value) ==
  [stream |-> stream, id |-> id, type |-> "i32", value |-> value]

\* CounterSource::next: the frames of a source that yields max of them, which
\* all have its stream.
CounterFrames(stream, max) == [i \in 1..max |-> NewFrame(stream, i - 1, i - 1)]

\* Deviation: the result is a new frame with metadata of its own.
MapAnew(frame, type, value) == [NewFrame(0, 0, value) EXCEPT !.type = type]
\* Frame::map: the payload changes and its type, the metadata stays.
MapFrame(frame, type, value) == [frame EXCEPT !.type = type, !.value = value]

\* FilterElement: the frame itself or none.
FilterFrame(frame, kept) == IF kept THEN <<frame>> ELSE <<>>

\* process: the frames it returns, one or none.
Process(e, frame) ==
  CASE e = "double" -> <<MapFrame(frame, "i32", 2 * frame.value)>>
    [] e = "add_ten" -> <<MapFrame(frame, "i32", frame.value + 10)>>
    [] e = "to_string" -> <<MapFrame(frame, "String", frame.value)>>
    [] e = "even_filter" -> FilterFrame(frame, frame.value % 2 = 0)
    [] e = "no_name" -> <<frame>>

\* AnyFrame::downcast in the actor of element e: a frame whose payload is not
\* of the element's input type comes out as None.
Downcasts(e, frame) == frame.type = InputType(e)
=============================================================================

--------------------------- MODULE Examples_proofs ---------------------------
(***************************************************************************)
(* Two of the example programs.                                            *)
(*                                                                         *)
(* simple_pipeline, for any number of elements, frames and any capacity of *)
(* the mailboxes: the elements of a pipeline that the builder accepted     *)
(* never see a frame that is not of their type; whatever the elements are, *)
(* the actors compute what the same elements compute when they are called  *)
(* one after the other, and all of it once nothing is on its way.          *)
(*                                                                         *)
(* signaling_server, for any number of clients and messages: the relay is  *)
(* an ordered pipe from every client to the one it is paired with.         *)
(***************************************************************************)
EXTENDS ElementChain, SignalingRelay, TLAPS, WellFoundedInduction, SequenceTheorems

\* Frames of one payload type.
Typed(t) == {f \in [stream : Int, id : Int, type : PayloadTypes, value : Int] : f.type = t}

Sourced == stage \in {"SourcedPipelineBuilder", "SourcedPipeline"}
First == IF Sourced THEN 2 ELSE 1

\* What the bounds of then and sink leave behind: each element gives what the
\* next one takes, and all are transforms but the source in front and, of a
\* pipeline, the sink at the end.
BuilderTyped ==
  stage \in Builders \cup {"SourcedPipeline", "InputPipeline"} =>
    /\ elements \in Seq(Sources \cup Transforms \cup Sinks)
    /\ \A i \in 1..(Len(elements) - 1) :
         OutputType(elements[i]) = InputType(elements[i + 1])
    /\ \A i \in First..Len(elements) :
         elements[i] \in Transforms \/ (i = Len(elements) /\ stage \notin Builders)
    /\ stage \in Builders /\ Len(elements) > 0
         => current = OutputType(elements[Len(elements)])

\* The actors are wired as the builder allows.  What is in the mailbox of one
\* is of its input type, and what it has processed and not sent yet is of its
\* output type.
ChainTyped ==
  /\ SinkAt \in Nat \ {0} /\ InputType(wiring[1]) = "i32"
  /\ \A a \in 1..(SinkAt - 1) :
       wiring[a] \in Transforms /\ OutputType(wiring[a]) = InputType(wiring[a + 1])
  /\ DOMAIN box = Actors /\ DOMAIN out = Actors
  /\ \A a \in Actors : /\ box[a] \in Seq(Typed(InputType(wiring[a])) \cup {Stop})
                       /\ out[a] \in Seq(Typed(OutputType(wiring[a])))
  /\ out[SinkAt] = <<>>

IInv ==
  /\ BuilderTyped
  /\ sent \in Nat /\ stops \in Nat
  /\ main = "building" => dropped = {}
  /\ main # "building" /\ wiring = Built => dropped = {} /\ ChainTyped

-----------------------------------------------------------------------------
\* Frame::map gives a frame of the new type.
LEMMA MapTyped ==
  ASSUME NEW t \in PayloadTypes, NEW f \in Typed(t), NEW u \in PayloadTypes, NEW v \in Int
  PROVE  MapFrame(f, u, v) \in Typed(u)
  BY DEF MapFrame, Typed

\* An element makes frames of its output type from frames of its input type.
LEMMA ProcessTyped ==
  ASSUME NEW e \in Transforms, NEW f \in Typed(InputType(e))
  PROVE  Process(e, f) \in Seq(Typed(OutputType(e)))
<1>1. InputType(e) \in PayloadTypes /\ OutputType(e) \in PayloadTypes
  BY DEF InputType, OutputType, Transforms, Sources, Sinks, PayloadTypes
<1>2. f.value \in Int
  BY DEF Typed
<1>3. CASE e \in {"double", "add_ten", "to_string"}
  <2>1. \A v \in Int : MapFrame(f, OutputType(e), v) \in Typed(OutputType(e))
    BY <1>1, MapTyped
  <2>2. \E v \in Int : Process(e, f) = <<MapFrame(f, OutputType(e), v)>>
    <3>1. CASE e = "double"
      <4>1. Process(e, f) = <<MapFrame(f, OutputType(e), 2 * f.value)>>
        BY <3>1 DEF Process, OutputType, Sinks
      <4> QED
        BY <1>2, <4>1
    <3>2. CASE e = "add_ten"
      <4>1. Process(e, f) = <<MapFrame(f, OutputType(e), f.value + 10)>>
        BY <3>2 DEF Process, OutputType, Sinks
      <4> QED
        BY <1>2, <4>1
    <3>3. CASE e = "to_string"
      <4>1. Process(e, f) = <<MapFrame(f, OutputType(e), f.value)>>
        BY <3>3 DEF Process, OutputType, Sinks
      <4> QED
        BY <1>2, <4>1
    <3> QED
      BY <1>3, <3>1, <3>2, <3>3
  <2> QED
    BY <2>1, <2>2
<1>4. CASE e \in {"even_filter", "no_name"}
  <2>1. InputType(e) = OutputType(e)
    BY <1>4 DEF InputType, OutputType, Sources, Sinks
  <2>2. Process(e, f) \in {<<>>, <<f>>}
    BY <1>4 DEF Process, FilterFrame
  <2>3. f \in Typed(OutputType(e))
    BY <2>1
  <2>4. \A S : \A g \in S : <<>> \in Seq(S) /\ <<g>> \in Seq(S)
    OBVIOUS
  <2> QED
    BY <2>2, <2>3, <2>4
<1> QED
  BY <1>3, <1>4 DEF Transforms

\* The stages of the builder keep the chain typed.
LEMMA BuilderKeepsTypes == ASSUME BuilderTyped, BuilderNext PROVE BuilderTyped'
<1> USE DEF BuilderTyped, Becomes, Builders, First, Sourced
<1>1. ASSUME NEW e \in Sources, Source(e) PROVE BuilderTyped'
  BY <1>1 DEF Source
<1>2. ASSUME NEW t \in PayloadTypes, Input(t) PROVE BuilderTyped'
  BY <1>2 DEF Input
<1>3. ASSUME NEW e \in Transforms, Then(e) PROVE BuilderTyped'
  BY <1>3 DEF Then
<1>4. ASSUME NEW e \in Sinks, SinkTo(e) PROVE BuilderTyped'
  <2>1. /\ elements \in Seq(Sources \cup Transforms \cup Sinks)
        /\ elements' = Append(elements, e) /\ stage' \in {"SourcedPipeline", "InputPipeline"}
        /\ Sourced' = Sourced /\ First' = First
    BY <1>4 DEF SinkTo
  <2>2. Len(elements) > 0 => OutputType(elements[Len(elements)]) = InputType(e)
    BY <1>4 DEF SinkTo
  <2>3. \A i \in First..Len(elements) : elements[i] \in Transforms
    BY <1>4 DEF SinkTo
  <2>4. \A i \in 1..(Len(elements') - 1) :
          OutputType(elements'[i]) = InputType(elements'[i + 1])
    BY <1>4, <2>1, <2>2 DEF SinkTo
  <2>5. \A i \in First..Len(elements') : elements'[i] \in Transforms \/ i = Len(elements')
    BY <2>1, <2>3
  <2> QED
    BY <2>1, <2>4, <2>5
<1>5. CASE Build
  BY <1>5 DEF Build
<1> QED
  BY <1>1, <1>2, <1>3, <1>4, <1>5 DEF BuilderNext

\* The elements behind the source of a pipeline, as BuilderTyped has them.
LEMMA BuiltChain ==
  ASSUME BuilderTyped, Built # <<>>
  PROVE  /\ Built \in Seq(Sources \cup Transforms \cup Sinks)
         /\ \A i \in 1..(Len(Built) - 1) :
              Built[i] \in Transforms /\ OutputType(Built[i]) = InputType(Built[i + 1])
<1> USE DEF BuilderTyped, Builders, First, Sourced
<1>1. CASE stage = "SourcedPipeline"
  <2>1. Built = Tail(elements) /\ elements \in Seq(Sources \cup Transforms \cup Sinks)
    BY <1>1 DEF Built
  <2>2. CASE elements = <<>>
    BY <1>1, <2>1, <2>2
  <2>3. CASE elements # <<>>
    <3>1. /\ Built \in Seq(Sources \cup Transforms \cup Sinks)
          /\ Len(Built) = Len(elements) - 1
          /\ \A i \in 1..Len(Built) : Built[i] = elements[i + 1]
      BY <2>1, <2>3
    <3>2. ASSUME NEW i \in 1..(Len(Built) - 1)
          PROVE  Built[i] \in Transforms /\ OutputType(Built[i]) = InputType(Built[i + 1])
      <4> DEFINE n == Len(elements)
      <4>1. n \in Nat /\ Len(Built) = n - 1 /\ First = 2
        <5>1. n \in Nat
          BY <2>1
        <5>2. First = 2
          BY <1>1 DEF First, Sourced
        <5> QED
          BY <5>1, <5>2, <3>1
      <4> HIDE DEF n
      <4>2. i \in Nat /\ 1 <= i /\ i <= n - 2
        BY <4>1
      <4>3. /\ i + 1 \in First..n /\ i + 1 # n /\ i + 1 \in 1..(n - 1)
            /\ i \in 1..Len(Built) /\ i + 1 \in 1..Len(Built)
        BY <4>1, <4>2
      <4> USE DEF n
      <4>4. elements[i + 1] \in Transforms
            /\ OutputType(elements[i + 1]) = InputType(elements[(i + 1) + 1])
        BY <1>1, <4>3
      <4>5. Built[i] = elements[i + 1] /\ Built[i + 1] = elements[(i + 1) + 1]
        BY <4>3, <3>1
      <4> QED
        BY <4>4, <4>5
    <3> QED
      BY <3>1, <3>2
  <2> QED
    BY <2>2, <2>3
<1>2. CASE stage = "InputPipeline"
  BY <1>2 DEF Built
<1> QED
  BY <1>1, <1>2 DEF Built

LEMMA InitIInv == Init => IInv
  BY DEF Init, BuilderInit, IInv, BuilderTyped, Builders

LEMMA SpawnKeepsIInv == ASSUME IInv, SpawnByHand PROVE IInv'
<1>1. main = "building" /\ main' = "sending" /\ dropped' = {}
      /\ UNCHANGED <<sent, stops>> /\ UNCHANGED <<stage, elements, current>>
  BY DEF IInv, SpawnByHand, Spawn, builderVars
<1>2. BuilderTyped' /\ Built' = Built
  BY <1>1 DEF IInv, BuilderTyped, Built, First, Sourced
<1>3. CASE stage # "PipelineBuilder"
  <2>1. /\ wiring' = Built /\ Built # <<>> /\ InputType(Built[1]) = "i32"
        /\ box' = [a \in 1..Len(Built) |-> <<>>] /\ out' = [a \in 1..Len(Built) |-> <<>>]
    BY <1>3 DEF SpawnByHand, ToWire, Spawn
  <2>2. Len(Built) \in Nat \ {0}
    BY <1>2, <2>1, BuiltChain DEF IInv
  <2>3. ChainTyped'
    BY <1>2, <2>1, <2>2, BuiltChain DEF ChainTyped, Actors, SinkAt, IInv
  <2> QED
    BY <1>1, <1>2, <2>1, <2>3 DEF IInv
<1>4. CASE stage = "PipelineBuilder"
  <2>1. wiring' # <<>> /\ Built = <<>>
    BY <1>4, ByHandAssumption DEF SpawnByHand, ToWire, Spawn, Built
  <2> QED
    BY <1>1, <1>2, <2>1 DEF IInv
<1> QED
  BY <1>3, <1>4

-----------------------------------------------------------------------------
\* The program goes on to stop, or returns, or sends one more message to an
\* actor, and leaves the rest alone.
Outside == UNCHANGED <<builderVars, wiring, dropped>>

LEMMA OutsideKeeps ==
  ASSUME IInv, Outside, main # "building", main' # "building", sent' \in Nat /\ stops' \in Nat,
         ChainTyped => (wiring = Built => ChainTyped')
  PROVE  IInv'
<1>1. UNCHANGED <<stage, elements, current, wiring, dropped>>
  BY DEF Outside, builderVars
<1>2. BuilderTyped' /\ Built' = Built
  BY <1>1 DEF IInv, BuilderTyped, Built, First, Sourced
<1> QED
  BY <1>1, <1>2 DEF IInv

\* A message that fits the actor may be put into its mailbox.
LEMMA PutKeepsTypes ==
  ASSUME ChainTyped, NEW a \in Actors,
         NEW m \in Typed(InputType(wiring[a])) \cup {Stop},
         Put(a, m), UNCHANGED wiring, out' = out
  PROVE  ChainTyped'
<1>1. Append(box[a], m) \in Seq(Typed(InputType(wiring[a])) \cup {Stop})
  <2> DEFINE S == Typed(InputType(wiring[a])) \cup {Stop}
  <2>1. box[a] \in Seq(S) /\ m \in S
    BY DEF ChainTyped
  <2> HIDE DEF S
  <2>2. Append(box[a], m) \in Seq(S)
    BY <2>1
  <2> QED
    BY <2>2 DEF S
<1>2. box' = [box EXCEPT ![a] = Append(box[a], m)]
  BY DEF Put
<1> QED
  BY <1>1, <1>2 DEF ChainTyped, Actors, SinkAt

LEMMA MainKeepsIInv ==
  ASSUME IInv, SendFrame \/ Rested \/ SendStop \/ Return
  PROVE  IInv'
<1>1. CASE SendFrame
  <2>1. Outside /\ main # "building" /\ main' # "building" /\ sent' \in Nat /\ stops' \in Nat
    BY <1>1 DEF SendFrame, Outside, IInv
  <2>2. ASSUME ChainTyped PROVE ChainTyped'
    <3>1. Frame(sent + 1) \in Typed("i32")
      BY DEF Frame, NewFrame, Typed, PayloadTypes, IInv
    <3>2. 1 \in Actors
      BY <2>2 DEF ChainTyped, Actors
    <3> QED
      BY <1>1, <2>2, <3>1, <3>2, PutKeepsTypes DEF SendFrame, ChainTyped
  <2> QED
    BY <2>1, <2>2, OutsideKeeps
<1>2. CASE SendStop
  <2>1. Outside /\ main # "building" /\ main' # "building" /\ sent' \in Nat /\ stops' \in Nat
    BY <1>2 DEF SendStop, Outside, IInv
  <2>2. ASSUME ChainTyped PROVE ChainTyped'
    <3>1. stops + 1 \in Actors
      BY <1>2, <2>2 DEF SendStop, ChainTyped, Actors, IInv
    <3> QED
      BY <1>2, <2>2, <3>1, PutKeepsTypes DEF SendStop
  <2> QED
    BY <2>1, <2>2, OutsideKeeps
<1>3. CASE Rested \/ Return
  <2>1. /\ Outside /\ main # "building" /\ main' # "building" /\ sent' \in Nat /\ stops' \in Nat
        /\ UNCHANGED <<wiring, box, out>>
    BY <1>3 DEF Rested, Return, Outside, IInv
  <2>2. ChainTyped => ChainTyped'
    BY <2>1 DEF ChainTyped, Actors, SinkAt
  <2> QED
    BY <2>1, <2>2, OutsideKeeps
<1> QED
  BY <1>1, <1>2, <1>3

-----------------------------------------------------------------------------
\* A step of an actor, of those that may run.
LEMMA ActorKeepsIInv ==
  ASSUME IInv,
         \/ HandleSink
         \/ \E a \in Actors : HandleElement(a) \/ Mismatch(a) \/ End(a) \/ Forward(a)
  PROVE  IInv'
<1>1. /\ main # "building" /\ main' = main /\ UNCHANGED <<sent, stops>>
      /\ UNCHANGED <<stage, elements, current, wiring>>
  BY DEF HandleSink, HandleElement, Mismatch, End, Forward, Take, Runs, builderVars
<1>2. BuilderTyped' /\ Built' = Built
  BY <1>1 DEF IInv, BuilderTyped, Built, First, Sourced
<1>3. SUFFICES ASSUME wiring = Built PROVE dropped' = {} /\ ChainTyped'
  BY <1>1, <1>2 DEF IInv
<1>4. dropped = {} /\ ChainTyped
  BY <1>1, <1>3 DEF IInv
<1>5. ASSUME NEW a \in Actors, HandleElement(a) PROVE dropped' = {} /\ ChainTyped'
  <2>1. a \in 1..(SinkAt - 1)
    BY <1>4, <1>5 DEF HandleElement, Actors, ChainTyped
  <2> DEFINE f == Head(box[a])
  <2>2. /\ box[a] \in Seq(Typed(InputType(wiring[a])) \cup {Stop}) /\ box[a] # <<>>
        /\ wiring[a] \in Transforms
    BY <1>4, <1>5, <2>1 DEF HandleElement, Take, ChainTyped
  <2>3. f \in Typed(InputType(wiring[a]))
    <3>1. f \in Typed(InputType(wiring[a])) \cup {Stop}
      BY <2>2
    <3>2. f.type = InputType(wiring[a]) /\ InputType(wiring[a]) # "Stop"
      BY <1>5 DEF HandleElement, Downcasts, InputType, Unit
    <3>3. f # Stop
      BY <3>2 DEF Stop
    <3> QED
      BY <3>1, <3>3
  <2>4. Process(wiring[a], f) \in Seq(Typed(OutputType(wiring[a])))
    BY <2>2, <2>3, ProcessTyped
  <2>5. Tail(box[a]) \in Seq(Typed(InputType(wiring[a])) \cup {Stop})
    BY <2>2
  <2>6. /\ out' = [out EXCEPT ![a] = Process(wiring[a], f)]
        /\ box' = [box EXCEPT ![a] = Tail(box[a])] /\ dropped' = dropped
    BY <1>5 DEF HandleElement
  <2> HIDE DEF f
  <2>7. ChainTyped'
    BY <1>1, <1>4, <2>1, <2>4, <2>5, <2>6 DEF ChainTyped, Actors, SinkAt
  <2> QED
    BY <1>4, <2>6, <2>7
<1>6. CASE HandleSink
  <2>1. SinkAt \in Actors /\ box[SinkAt] # <<>>
    BY <1>4, <1>6 DEF HandleSink, Take, ChainTyped, Actors
  <2>2. Tail(box[SinkAt]) \in Seq(Typed(InputType(wiring[SinkAt])) \cup {Stop})
    BY <1>4, <2>1 DEF ChainTyped
  <2> QED
    BY <1>1, <1>4, <1>6, <2>1, <2>2 DEF HandleSink, ChainTyped, Actors, SinkAt
<1>7. ASSUME NEW a \in Actors, Mismatch(a) PROVE FALSE
  <2>1. /\ box[a] \in Seq(Typed(InputType(wiring[a])) \cup {Stop}) /\ box[a] # <<>>
    BY <1>4, <1>7 DEF Mismatch, Take, ChainTyped
  <2>2. Head(box[a]) \in Typed(InputType(wiring[a]))
    BY <1>7, <2>1 DEF Mismatch
  <2> QED
    BY <1>7, <2>2 DEF Mismatch, Downcasts, Typed
<1>8. ASSUME NEW a \in Actors, End(a) PROVE dropped' = {} /\ ChainTyped'
  <2>1. <<>> \in Seq(Typed(InputType(wiring[a])) \cup {Stop})
    OBVIOUS
  <2>2. box' = [box EXCEPT ![a] = <<>>] /\ UNCHANGED <<out, dropped>>
    BY <1>8 DEF End
  <2>3. ChainTyped'
    BY <1>1, <1>4, <2>1, <2>2 DEF ChainTyped, Actors, SinkAt
  <2> QED
    BY <1>4, <2>2, <2>3
<1>9. ASSUME NEW a \in Actors, Forward(a) PROVE dropped' = {} /\ ChainTyped'
  <2>1. a \in 1..(SinkAt - 1) /\ a + 1 \in Actors
    BY <1>4, <1>9 DEF Forward, Actors, ChainTyped
  <2>2. /\ out[a] \in Seq(Typed(OutputType(wiring[a]))) /\ out[a] # <<>>
        /\ OutputType(wiring[a]) = InputType(wiring[a + 1])
    BY <1>4, <1>9, <2>1 DEF Forward, ChainTyped
  <2>3. out[a][1] \in Typed(InputType(wiring[a + 1]))
    BY <2>2
  <2>4. /\ box' = box \/ box' = [box EXCEPT ![a + 1] = Append(box[a + 1], out[a][1])]
        /\ out' = [out EXCEPT ![a] = <<>>] /\ dropped' = dropped
    BY <1>9 DEF Forward, Put
  <2>5. ASSUME box' = [box EXCEPT ![a + 1] = Append(box[a + 1], out[a][1])]
        PROVE  \A b \in Actors : box'[b] \in Seq(Typed(InputType(wiring[b])) \cup {Stop})
    <3> DEFINE S == Typed(InputType(wiring[a + 1])) \cup {Stop}
    <3>1. box[a + 1] \in Seq(S) /\ out[a][1] \in S
      BY <1>4, <2>1, <2>3 DEF ChainTyped
    <3> HIDE DEF S
    <3>2. Append(box[a + 1], out[a][1]) \in Seq(S)
      BY <3>1
    <3> USE DEF S
    <3> QED
      BY <1>4, <2>1, <2>5, <3>2 DEF ChainTyped
  <2>6. /\ \A b \in Actors : box'[b] \in Seq(Typed(InputType(wiring[b])) \cup {Stop})
        /\ DOMAIN box' = Actors
    BY <1>4, <2>4, <2>5 DEF ChainTyped
  <2>7. /\ \A b \in Actors : out'[b] \in Seq(Typed(OutputType(wiring[b])))
        /\ DOMAIN out' = Actors /\ out'[SinkAt] = <<>>
    <3>1. \A S : <<>> \in Seq(S)
      OBVIOUS
    <3>2. SinkAt \in Actors /\ SinkAt # a
      BY <1>4, <2>1 DEF ChainTyped, Actors
    <3> QED
      BY <1>4, <2>4, <3>1, <3>2 DEF ChainTyped
  <2> QED
    BY <1>1, <1>4, <2>4, <2>6, <2>7 DEF ChainTyped, Actors, SinkAt
<1> QED
  BY <1>5, <1>6, <1>7, <1>8, <1>9

LEMMA StepIInv == IInv /\ [Next]_vars => IInv'
<1> SUFFICES ASSUME IInv, [Next]_vars PROVE IInv'
  OBVIOUS
<1>1. CASE Building
  <2>1. BuilderTyped'
    BY <1>1, BuilderKeepsTypes DEF Building, IInv
  <2> QED
    BY <1>1, <2>1 DEF Building, chainVars, IInv
<1>2. CASE SpawnByHand
  BY <1>2, SpawnKeepsIInv
<1>3. CASE SendFrame \/ Rested \/ SendStop \/ Return
  BY <1>3, MainKeepsIInv
<1>4. CASE \/ HandleSink
           \/ \E a \in Actors : HandleElement(a) \/ Mismatch(a) \/ End(a) \/ Forward(a)
  BY <1>4, ActorKeepsIInv
<1>5. CASE Quiet \/ UNCHANGED vars
  <2>1. UNCHANGED vars
    BY <1>5 DEF Quiet
  <2>2. BuilderTyped' = BuilderTyped /\ Built' = Built
    BY <2>1 DEF vars, builderVars, BuilderTyped, Built, First, Sourced
  <2>3. ChainTyped' = ChainTyped
    BY <2>1 DEF vars, chainVars, ChainTyped, Actors, SinkAt
  <2> QED
    BY <2>1, <2>2, <2>3 DEF vars, chainVars, IInv
<1> QED
  BY <1>1, <1>2, <1>3, <1>4, <1>5 DEF Next

\* "It is impossible to wire together pipeline elements with incompatible
\* types" (README.md:190): for every number of elements and frames and every
\* capacity, the actors of a pipeline that the builder accepted drop no frame
\* for its type (executor.rs:188-193).
THEOREM BuilderIsSound == Spec => []BuiltNeverMismatch
<1>1. IInv => BuiltNeverMismatch
  BY DEF IInv, BuiltNeverMismatch
<1> QED
  BY <1>1, InitIInv, StepIInv, PTL DEF Spec

-----------------------------------------------------------------------------
\* Induction over the natural numbers, from a least counterexample, and what it
\* gives: a sequence of values can be defined by a first one and a step.
\*
\* A set of numbers that is not empty has a least one.
LEMMA Least ==
  ASSUME NEW S, S \subseteq Nat, S # {}
  PROVE  \E m \in S : \A k \in S : m <= k
<1> DEFINE R == OpToRel(<, Nat)
<1>1. IsWellFoundedOn(R, Nat)
  BY NatLessThanWellFounded
<1>2. \A k, m \in Nat : k < m => <<k, m>> \in R
  BY DEF OpToRel
<1> HIDE DEF R
<1>3. PICK m \in S : \A k \in S : ~(<<k, m>> \in R)
  BY <1>1, WFMin
<1>4. m \in Nat /\ \A k \in S : k \in Nat /\ ~(k < m)
  BY <1>2, <1>3
<1>5. \A k \in S : m <= k
  BY <1>4
<1> QED
  BY <1>5

\* A set that has 0, and with each number the next, has them all.
LEMMA Induction ==
  ASSUME NEW S, 0 \in S, \A n \in Nat : n \in S => n + 1 \in S
  PROVE  Nat \subseteq S
<1> SUFFICES ASSUME Nat \ S # {} PROVE FALSE
  OBVIOUS
<1> DEFINE T == Nat \ S
<1>1. T \subseteq Nat /\ T # {}
  OBVIOUS
<1> HIDE DEF T
<1>2. PICK m \in T : \A k \in T : m <= k
  BY <1>1, Least
<1>3. m \in Nat /\ m # 0 /\ m - 1 \notin T
  BY <1>2 DEF T
<1>4. m - 1 \in Nat /\ (m - 1) + 1 = m
  BY <1>3
<1> QED
  BY <1>2, <1>3, <1>4 DEF T

\* Some sequence begins with v and goes on by the given step, which may depend
\* on the place.
Iterates(V, v, step) ==
  \E f \in [Nat -> V] : f[0] = v /\ \A n \in Nat : f[n + 1] = step[<<n, f[n]>>]

\* There always is such a sequence.
LEMMA Recursion ==
  ASSUME NEW V, NEW v \in V, NEW step \in [Nat \X V -> V]
  PROVE  Iterates(V, v, step)
<1> DEFINE Begins(g, n) == /\ g \in [0..n -> V] /\ g[0] = v
                           /\ \A i \in 0..n : i < n => g[i + 1] = step[<<i, g[i]>>]
           S == {n \in Nat : \E g : Begins(g, n)}
<1>1. 0 \in S
  <2> DEFINE g == [i \in 0..0 |-> v]
  <2>1. Begins(g, 0)
    OBVIOUS
  <2> QED
    BY <2>1
<1>2. ASSUME NEW n \in Nat, n \in S PROVE n + 1 \in S
  <2>1. PICK g : Begins(g, n)
    BY <1>2
  <2>2. g \in [0..n -> V] /\ g[0] = v
        /\ \A i \in 0..n : i < n => g[i + 1] = step[<<i, g[i]>>]
    BY <2>1
  <2> DEFINE h == [i \in 0..(n + 1) |-> IF i <= n THEN g[i] ELSE step[<<n, g[n]>>]]
  <2>3. h \in [0..(n + 1) -> V]
    <3>1. step[<<n, g[n]>>] \in V
      BY <2>2
    <3>2. \A i \in 0..(n + 1) : i <= n => g[i] \in V
      BY <2>2
    <3> QED
      BY <3>1, <3>2
  <2>4. h[n + 1] = step[<<n, g[n]>>] /\ \A i \in 0..n : h[i] = g[i]
    OBVIOUS
  <2> HIDE DEF h
  <2>5. h[0] = v
    BY <2>2, <2>4
  <2>6. ASSUME NEW i \in 0..(n + 1), i < n + 1 PROVE h[i + 1] = step[<<i, h[i]>>]
    <3>1. CASE i = n
      BY <2>4, <3>1
    <3>2. CASE i < n
      <4>1. i \in 0..n /\ i + 1 \in 0..n
        BY <3>2
      <4> QED
        BY <2>2, <2>4, <3>2, <4>1
    <3> QED
      BY <2>6, <3>1, <3>2
  <2>7. Begins(h, n + 1)
    BY <2>3, <2>5, <2>6
  <2> QED
    BY <2>7
<1>3. Nat \subseteq S
  <2> HIDE DEF S
  <2> QED
    BY <1>1, <1>2, Induction
<1> DEFINE G == [n \in Nat |-> CHOOSE g : Begins(g, n)]
<1>4. ASSUME NEW n \in Nat PROVE Begins(G[n], n)
  <2>1. \E g : Begins(g, n)
    BY <1>3
  <2> HIDE DEF Begins
  <2> QED
    BY <2>1
<1> HIDE DEF G
<1>5. ASSUME NEW n \in Nat
      PROVE  G[n] \in [0..n -> V] /\ G[n][0] = v
             /\ \A i \in 0..n : i < n => G[n][i + 1] = step[<<i, G[n][i]>>]
  BY <1>4
<1> HIDE DEF Begins
<1>6. ASSUME NEW n \in Nat PROVE G[n + 1][n] = G[n][n]
  <2> DEFINE Same == {i \in Nat : i <= n => G[n + 1][i] = G[n][i]}
  <2>1. 0 \in Same
    BY <1>5
  <2>2. ASSUME NEW i \in Nat, i \in Same PROVE i + 1 \in Same
    <3>1. CASE i + 1 <= n
      <4>1. i \in 0..n /\ i < n /\ i \in 0..(n + 1) /\ i < n + 1 /\ n + 1 \in Nat
        BY <3>1
      <4>2. G[n][i + 1] = step[<<i, G[n][i]>>] /\ G[n + 1][i + 1] = step[<<i, G[n + 1][i]>>]
        BY <1>5, <4>1
      <4>3. G[n + 1][i] = G[n][i]
        BY <2>2, <4>1
      <4> QED
        BY <4>2, <4>3
    <3> QED
      BY <3>1
  <2>3. Nat \subseteq Same
    <3> HIDE DEF Same
    <3> QED
      BY <2>1, <2>2, Induction
  <2> QED
    BY <2>3
<1> DEFINE f == [n \in Nat |-> G[n][n]]
<1>7. f \in [Nat -> V]
  BY <1>5
<1>8. f[0] = v
  BY <1>5
<1>9. ASSUME NEW n \in Nat PROVE f[n + 1] = step[<<n, f[n]>>]
  <2>1. n + 1 \in Nat /\ n \in 0..(n + 1) /\ n < n + 1
    OBVIOUS
  <2>2. G[n + 1][n + 1] = step[<<n, G[n + 1][n]>>]
    BY <1>5, <2>1
  <2> QED
    BY <1>6, <2>1, <2>2
<1> HIDE DEF f
<1> QED
  BY <1>7, <1>8, <1>9 DEF Iterates

-----------------------------------------------------------------------------
\* simple_pipeline: what the elements make of a frame.
Frames == [stream : Int, id : Int, type : PayloadTypes, value : Int]
Like(frame) == {f \in Frames : f.stream = frame.stream /\ f.id = frame.id}
OneOf(S) == {<<>>} \cup {<<f>> : f \in S}

\* Elements in a row that can be run as actors.
Wired(w) ==
  /\ w \in Seq(Sources \cup Transforms \cup Sinks) /\ Len(w) > 0
  /\ \A i \in 1..(Len(w) - 1) : w[i] \in Transforms

\* What element number i of w makes of the frame it is given, if any.
Passed(w, i, s) ==
  IF s = <<>> THEN <<>>
  ELSE IF ~Downcasts(w[i], s[1]) THEN <<>>
  ELSE IF i = Len(w) THEN s
  ELSE Process(w[i], s[1])

\* process gives one frame of the same stream and id, or none.
LEMMA ProcessOne ==
  ASSUME NEW e \in Transforms, NEW f \in Frames
  PROVE  Process(e, f) \in OneOf(Like(f))
<1>1. \A t \in PayloadTypes, v \in Int : MapFrame(f, t, v) \in Like(f)
  BY DEF MapFrame, Like, Frames
<1>2. f.value \in Int /\ f \in Like(f) /\ "i32" \in PayloadTypes /\ "String" \in PayloadTypes
  BY DEF Frames, Like, PayloadTypes
<1>3. CASE e = "double"
  <2>1. Process(e, f) = <<MapFrame(f, "i32", 2 * f.value)>>
    BY <1>3 DEF Process
  <2>2. 2 * f.value \in Int
    BY <1>2
  <2> QED
    BY <1>1, <1>2, <2>1, <2>2 DEF OneOf
<1>4. CASE e = "add_ten"
  <2>1. Process(e, f) = <<MapFrame(f, "i32", f.value + 10)>>
    BY <1>4 DEF Process
  <2>2. f.value + 10 \in Int
    BY <1>2
  <2> QED
    BY <1>1, <1>2, <2>1, <2>2 DEF OneOf
<1>5. CASE e = "to_string"
  <2>1. Process(e, f) = <<MapFrame(f, "String", f.value)>>
    BY <1>5 DEF Process
  <2> QED
    BY <1>1, <1>2, <2>1 DEF OneOf
<1>6. CASE e \in {"even_filter", "no_name"}
  <2>1. Process(e, f) \in {<<>>, <<f>>}
    BY <1>6 DEF Process, FilterFrame
  <2> QED
    BY <1>2, <2>1 DEF OneOf
<1> QED
  BY <1>3, <1>4, <1>5, <1>6 DEF Transforms

\* So does what is given on behind any of the elements, the sink included.
LEMMA PassedOne ==
  ASSUME NEW w, Wired(w), NEW i \in 1..Len(w), NEW f \in Frames, NEW s \in OneOf(Like(f))
  PROVE  Passed(w, i, s) \in OneOf(Like(f))
<1>1. CASE s = <<>>
  BY <1>1 DEF Passed, OneOf
<1>2. ASSUME NEW g \in Like(f), s = <<g>> PROVE Passed(w, i, s) \in OneOf(Like(f))
  <2>1. s # <<>> /\ s[1] = g /\ g \in Frames /\ Like(g) = Like(f)
    BY <1>2 DEF Like
  <2>2. i # Len(w) => Process(w[i], g) \in OneOf(Like(f))
    <3>1. i # Len(w) => w[i] \in Transforms
      BY DEF Wired
    <3> QED
      BY <2>1, <3>1, ProcessOne
  <2>3. <<>> \in OneOf(Like(f))
    BY DEF OneOf
  <2> QED
    BY <2>1, <2>2, <2>3 DEF Passed
<1> QED
  BY <1>1, <1>2 DEF OneOf

\* The reference, as the model defines it: the frame after each of the elements.
After(w, frame) ==
  CHOOSE after : after = [i \in 0..Len(w) |->
    IF i = 0 THEN <<frame>>
    ELSE IF after[i - 1] = <<>> THEN <<>>
    ELSE IF ~Downcasts(w[i], after[i - 1][1]) THEN <<>>
    ELSE IF i = Len(w) THEN after[i - 1]
    ELSE Process(w[i], after[i - 1][1])]

\* What is left of a frame in the end is what is left behind the last element.
LEMMA ThroughIs == ASSUME NEW w, NEW f PROVE Through(w, f) = After(w, f)[Len(w)]
BY DEF Through, After

\* Behind each element there is what it makes of what comes to it.
LEMMA AfterSteps ==
  ASSUME NEW w, Wired(w), NEW f \in Frames
  PROVE  /\ \A i \in 0..Len(w) : After(w, f)[i] \in OneOf(Like(f))
         /\ After(w, f)[0] = <<f>>
         /\ \A i \in 1..Len(w) : After(w, f)[i] = Passed(w, i, After(w, f)[i - 1])
<1> DEFINE N == Len(w)
           V == OneOf(Like(f))
           Solves(g) == g = [i \in 0..N |->
              IF i = 0 THEN <<f>>
              ELSE IF g[i - 1] = <<>> THEN <<>>
              ELSE IF ~Downcasts(w[i], g[i - 1][1]) THEN <<>>
              ELSE IF i = N THEN g[i - 1]
              ELSE Process(w[i], g[i - 1][1])]
           step == [p \in Nat \X V |-> IF p[1] < N THEN Passed(w, p[1] + 1, p[2]) ELSE <<>>]
           v == <<f>>
<1>1. N \in Nat /\ N > 0
  BY DEF Wired
<1>2. v \in V /\ <<>> \in V
  BY DEF OneOf, Like
<1>3. step \in [Nat \X V -> V]
  <2>1. ASSUME NEW p \in Nat \X V, p[1] < N PROVE Passed(w, p[1] + 1, p[2]) \in V
    <3>1. p[1] + 1 \in 1..Len(w) /\ p[2] \in OneOf(Like(f))
      BY <1>1, <2>1
    <3> QED
      BY <3>1, PassedOne
  <2> QED
    BY <1>2, <2>1
<1>4. PICK h \in [Nat -> V] : h[0] = v /\ \A n \in Nat : h[n + 1] = step[<<n, h[n]>>]
  <2> HIDE DEF step, V, v
  <2>1. Iterates(V, v, step)
    BY <1>2, <1>3, Recursion
  <2> QED
    BY <2>1 DEF Iterates
<1>5. \A i \in 1..N : h[i] = Passed(w, i, h[i - 1])
  <2> SUFFICES ASSUME NEW i \in 1..N PROVE h[i] = Passed(w, i, h[i - 1])
    OBVIOUS
  <2>1. i - 1 \in Nat /\ (i - 1) + 1 = i /\ i - 1 < N
    BY <1>1
  <2>2. h[i - 1] \in V
    BY <1>4, <2>1
  <2> HIDE DEF V, N
  <2> QED
    BY <1>4, <2>1, <2>2
<1> DEFINE g == [i \in 0..N |-> h[i]]
<1>6. Solves(g)
  <2>1. g[0] = v
    BY <1>1, <1>4
  <2>2. ASSUME NEW i \in 1..N PROVE g[i] = Passed(w, i, g[i - 1])
    <3>1. i \in 0..N /\ i - 1 \in 0..N
      BY <1>1
    <3> QED
      BY <1>5, <3>1
  <2>3. g = [i \in 0..N |-> g[i]] /\ \A i \in 0..N : i = 0 \/ i \in 1..N
    BY <1>1
  <2> HIDE DEF g, N
  <2> QED
    BY <2>1, <2>2, <2>3 DEF Passed, N
<1>7. Solves(After(w, f))
  <2>1. After(w, f) = CHOOSE x : Solves(x)
    BY DEF After
  <2> HIDE DEF Solves, g
  <2> QED
    BY <1>6, <2>1
<1> DEFINE A == After(w, f)
<1>8. A = [i \in 0..N |-> A[i]] /\ A[0] = <<f>>
  BY <1>1, <1>7
<1>9. ASSUME NEW i \in 1..N PROVE A[i] = Passed(w, i, A[i - 1])
  <2>1. i \in 0..N /\ i # 0
    BY <1>1
  <2> QED
    BY <1>7, <2>1 DEF Passed
<1>10. \A i \in 0..N : A[i] \in V
  <2> DEFINE S == {i \in Nat : i <= N => A[i] \in V}
  <2>1. 0 \in S
    BY <1>2, <1>8
  <2>2. ASSUME NEW i \in Nat, i \in S PROVE i + 1 \in S
    <3>1. ASSUME i + 1 <= N PROVE A[i + 1] \in V
      <4>1. i + 1 \in 1..N /\ (i + 1) - 1 = i /\ A[i] \in V
        BY <1>1, <2>2, <3>1
      <4> HIDE DEF A
      <4>2. A[i + 1] = Passed(w, i + 1, A[i])
        BY <1>9, <4>1
      <4> QED
        BY <4>1, <4>2, PassedOne
    <3> QED
      BY <3>1
  <2>3. Nat \subseteq S
    <3> HIDE DEF S
    <3> QED
      BY <2>1, <2>2, Induction
  <2> QED
    BY <1>1, <2>3
<1> QED
  BY <1>8, <1>9, <1>10

\* Sequences of frames, and what joining them does.  The provers do better with
\* the two as operators that they do not look into.
FrameSeqs == Seq(Frames)
Join(s, t) == s \o t

\* Joined sequences of frames are a sequence of frames,
LEMMA JoinTyped == \A s, t \in FrameSeqs : Join(s, t) \in FrameSeqs
BY ConcatProperties DEF FrameSeqs, Join

\* nothing joined changes nothing,
LEMMA JoinEmpty ==
  <<>> \in FrameSeqs /\ \A s \in FrameSeqs : Join(s, <<>>) = s /\ Join(<<>>, s) = s
<1>1. \A s \in FrameSeqs : Join(s, <<>>) = s /\ Join(<<>>, s) = s
  BY ConcatEmptySeq DEF FrameSeqs, Join
<1> QED
  BY <1>1 DEF FrameSeqs

\* the order in which they are joined does not matter,
LEMMA JoinAssociative ==
  ASSUME NEW s \in FrameSeqs, NEW t \in FrameSeqs, NEW u \in FrameSeqs
  PROVE  Join(Join(s, t), u) = Join(s, Join(t, u))
BY ConcatAssociative DEF FrameSeqs, Join

\* what is joined is known from the result,
LEMMA JoinCancels ==
  ASSUME NEW s \in FrameSeqs, NEW t \in FrameSeqs, NEW u \in FrameSeqs,
         Join(s, t) = Join(s, u)
  PROVE  t = u
BY ConcatSimplifications DEF FrameSeqs, Join

\* and nothing is joined of nothing only.
LEMMA JoinNothing ==
  ASSUME NEW s \in FrameSeqs, NEW t \in FrameSeqs, Join(s, t) = <<>>
  PROVE  s = <<>> /\ t = <<>>
BY ConcatSimplifications DEF FrameSeqs, Join

\* To append a frame is to join it as a sequence of its own,
LEMMA JoinOne ==
  ASSUME NEW s \in FrameSeqs, NEW f \in Frames
  PROVE  <<f>> \in FrameSeqs /\ Append(s, f) = Join(s, <<f>>)
<1>1. Append(s, f) = s \o <<f>>
  BY AppendIsConcat DEF FrameSeqs
<1> QED
  BY <1>1 DEF FrameSeqs, Join

\* as which one frame or none is taken everywhere.
LEMMA OnesAreSeqs ==
  /\ \A s \in OneOf(Frames) : s \in FrameSeqs
  /\ \A s \in OneOf(Frames) : s # <<>> => s = <<s[1]>> /\ s[1] \in Frames
<1>1. \A f \in Frames : <<f>> \in Seq(Frames) /\ <<f>>[1] = f
  OBVIOUS
<1>2. <<>> \in Seq(Frames)
  OBVIOUS
<1> QED
  BY <1>1, <1>2 DEF OneOf, FrameSeqs

\* The frames of a non-empty sequence but the first.
LEMMA FirstAndRest ==
  ASSUME NEW b \in FrameSeqs, b # <<>>
  PROVE  /\ Head(b) \in Frames /\ Tail(b) \in FrameSeqs
         /\ b = Join(<<Head(b)>>, Tail(b))
         /\ \A f \in Frames, z \in FrameSeqs : b = Join(<<f>>, z) => f = Head(b) /\ z = Tail(b)
<1> USE DEF FrameSeqs, Join
<1>1. Head(b) \in Frames /\ Tail(b) \in FrameSeqs
  OBVIOUS
<1>2. b = Join(<<Head(b)>>, Tail(b))
  OBVIOUS
<1>3. ASSUME NEW f \in Frames, NEW z \in FrameSeqs, b = Join(<<f>>, z)
      PROVE  f = Head(b) /\ z = Tail(b)
  <2>1. Len(b) = Len(z) + 1 /\ b[1] = f /\ \A i \in 1..Len(z) : b[i + 1] = z[i]
    BY <1>3
  <2>2. Tail(b) \in Seq(Frames) /\ Len(Tail(b)) = Len(z)
        /\ \A i \in 1..Len(z) : Tail(b)[i] = z[i]
    BY <2>1
  <2> QED
    BY <2>1, <2>2
<1> QED
  BY <1>1, <1>2, <1>3

\* Frames one after the other: U[n] are those that the first n sent frames have
\* become, At[n] what the n-th has become.
Piles(U, At) ==
  /\ U \in [Nat -> FrameSeqs] /\ At \in [Nat -> OneOf(Frames)]
  /\ U[0] = <<>>
  /\ \A n \in Nat : U[n + 1] = Join(U[n], At[n + 1])

\* What has become of more frames begins with what has become of fewer.
LEMMA PilesGrow ==
  ASSUME NEW U, NEW At, Piles(U, At), NEW m \in Nat, NEW n \in Nat, m <= n
  PROVE  \E z \in FrameSeqs : U[n] = Join(U[m], z)
<1> DEFINE S == {i \in Nat : m <= i => \E z \in FrameSeqs : U[i] = Join(U[m], z)}
<1>1. U[m] \in FrameSeqs /\ <<>> \in FrameSeqs
  BY JoinEmpty DEF Piles
<1>2. U[m] = Join(U[m], <<>>)
  BY <1>1, JoinEmpty
<1>3. 0 \in S
  <2>1. m <= 0 => m = 0
    OBVIOUS
  <2> QED
    BY <1>1, <1>2, <2>1
<1>4. ASSUME NEW i \in Nat, i \in S PROVE i + 1 \in S
  <2>1. CASE i + 1 = m
    BY <1>1, <1>2, <2>1
  <2>2. CASE m <= i
    <3>1. PICK z \in FrameSeqs : U[i] = Join(U[m], z)
      BY <1>4, <2>2
    <3>2. i + 1 \in Nat /\ At[i + 1] \in FrameSeqs /\ U[i + 1] = Join(U[i], At[i + 1])
      BY OnesAreSeqs DEF Piles
    <3>3. Join(z, At[i + 1]) \in FrameSeqs /\ U[i + 1] = Join(U[m], Join(z, At[i + 1]))
      <4>1. Join(z, At[i + 1]) \in FrameSeqs
        BY <3>2, JoinTyped
      <4>2. Join(Join(U[m], z), At[i + 1]) = Join(U[m], Join(z, At[i + 1]))
        BY <1>1, <3>2, JoinAssociative
      <4> QED
        BY <3>1, <3>2, <4>1, <4>2
    <3> QED
      BY <3>2, <3>3
  <2>3. CASE i + 1 < m
    BY <2>3
  <2> QED
    BY <2>1, <2>2, <2>3
<1>5. Nat \subseteq S
  <2> HIDE DEF S
  <2> QED
    BY <1>3, <1>4, Induction
<1> QED
  BY <1>5

\* Where nothing has come after the m-th, nothing has become of those frames.
LEMMA PilesRest ==
  ASSUME NEW U, NEW At, Piles(U, At), NEW m \in Nat, NEW n \in Nat, m <= n, U[n] = U[m],
         NEW k \in (m + 1)..n
  PROVE  U[k] = U[m] /\ At[k] = <<>>
<1>1. /\ k \in Nat /\ k - 1 \in Nat /\ m <= k - 1 /\ k <= n /\ (k - 1) + 1 = k
      /\ k - 1 <= n /\ m <= k
  OBVIOUS
<1>2. U[m] \in FrameSeqs /\ At[k] \in FrameSeqs /\ U[k] = Join(U[k - 1], At[k])
  BY <1>1, OnesAreSeqs DEF Piles
<1>3. ASSUME NEW j \in Nat, m <= j, j <= n PROVE U[j] = U[m]
  <2>1. PICK y \in FrameSeqs : U[j] = Join(U[m], y)
    BY <1>3, PilesGrow
  <2>2. PICK z \in FrameSeqs : U[n] = Join(U[j], z)
    BY <1>3, PilesGrow
  <2>3. Join(y, z) = <<>>
    <3>1. Join(U[m], <<>>) = Join(U[m], Join(y, z))
      BY <1>2, <2>1, <2>2, JoinEmpty, JoinAssociative
    <3>2. Join(y, z) \in FrameSeqs /\ <<>> \in FrameSeqs
      BY JoinTyped, JoinEmpty
    <3> QED
      BY <1>2, <3>1, <3>2, JoinCancels
  <2>4. y = <<>>
    BY <2>3, JoinNothing
  <2> QED
    BY <1>2, <2>1, <2>4, JoinEmpty
<1>4. U[k] = U[m] /\ U[k - 1] = U[m]
  BY <1>1, <1>3
<1>5. Join(U[m], <<>>) = Join(U[m], At[k]) /\ <<>> \in FrameSeqs
  BY <1>2, <1>4, JoinEmpty
<1> QED
  BY <1>2, <1>4, <1>5, JoinCancels

\* The first frame that has come after the t-th is what one of the frames has
\* become, and nothing has become of those between.
HasTaken(U, At, t, c, b) ==
  \E k \in (t + 1)..c :
    U[k - 1] = U[t] /\ At[k] = <<Head(b)>> /\ U[c] = Join(U[k], Tail(b))

\* So it is whenever something has come: the frame is the first that came to
\* anything.
LEMMA PilesTake ==
  ASSUME NEW U, NEW At, Piles(U, At), NEW t \in Nat, NEW c \in Nat, t <= c,
         NEW b \in FrameSeqs, b # <<>>, U[c] = Join(U[t], b)
  PROVE  HasTaken(U, At, t, c, b)
<1> DEFINE S == {k \in Nat : t <= k /\ U[k] # U[t]}
<1>1. U[t] \in FrameSeqs
  BY DEF Piles
<1>2. c \in S
  <2>1. Join(U[t], <<>>) # Join(U[t], b)
    BY <1>1, JoinCancels, JoinEmpty
  <2> QED
    BY <1>1, <2>1, JoinEmpty
<1>3. S \subseteq Nat /\ S # {}
  BY <1>2
<1>4. PICK k \in S : \A j \in S : k <= j
  <2> HIDE DEF S
  <2> QED
    BY <1>3, Least
<1>5. k \in (t + 1)..c /\ k \in Nat /\ k - 1 \in Nat /\ (k - 1) + 1 = k
  BY <1>2, <1>4
<1>6. U[k - 1] = U[t]
  BY <1>4, <1>5
<1>7. At[k] \in OneOf(Frames) /\ U[k] = Join(U[t], At[k]) /\ U[k] # U[t]
  <2>1. U[(k - 1) + 1] = Join(U[k - 1], At[(k - 1) + 1])
    BY <1>5 DEF Piles
  <2>2. At[k] \in OneOf(Frames)
    BY <1>5 DEF Piles
  <2> QED
    BY <1>4, <1>5, <1>6, <2>1, <2>2
<1>8. At[k] # <<>>
  BY <1>1, <1>7, JoinEmpty
<1>9. At[k] = <<At[k][1]>> /\ At[k][1] \in Frames /\ At[k] \in FrameSeqs
  BY <1>7, <1>8, OnesAreSeqs
<1>10. PICK z \in FrameSeqs : U[c] = Join(U[k], z)
  BY <1>5, PilesGrow
<1>11. Join(At[k], z) = b
  <2>1. Join(U[t], b) = Join(U[t], Join(At[k], z))
    BY <1>1, <1>7, <1>9, <1>10, JoinAssociative
  <2>2. Join(At[k], z) \in FrameSeqs
    BY <1>9, JoinTyped
  <2> QED
    BY <1>1, <2>1, <2>2, JoinCancels
<1>12. Head(b) = At[k][1] /\ Tail(b) = z
  <2>1. b = Join(<<At[k][1]>>, z)
    BY <1>9, <1>11
  <2> QED
    BY <1>9, <2>1, FirstAndRest
<1> QED
  BY <1>5, <1>6, <1>9, <1>10, <1>12 DEF HasTaken

\* What has become of the n-th frame sent, and of the first n, behind a elements.
At(w, a) == [n \in Nat |-> After(w, Frame(n))[a]]
Up(w, a) == CHOOSE U : Piles(U, At(w, a))

\* Frames with the id and the stream that one was sent with.
Kept == {f \in Frames : f.stream = f.id + 1}

\* Every frame that main sends has the stream that its id tells.
LEMMA FrameIsOne ==
  ASSUME NEW n \in Int
  PROVE  Frame(n) \in Frames /\ Like(Frame(n)) \subseteq Kept
<1>1. Frame(n) \in Frames
  BY DEF Frame, NewFrame, Frames, PayloadTypes
<1>2. ASSUME NEW f \in Like(Frame(n)) PROVE f \in Kept
  <2>1. f \in Frames /\ f.stream = n /\ f.id = n - 1
    BY <1>2 DEF Like, Frame, NewFrame
  <2> QED
    BY <2>1 DEF Kept
<1> QED
  BY <1>1, <1>2

\* What has become of a frame goes from element to element.
LEMMA AtSteps ==
  ASSUME NEW w, Wired(w), NEW n \in Nat
  PROVE  /\ \A a \in 0..Len(w) : At(w, a)[n] \in OneOf(Like(Frame(n)))
         /\ At(w, 0)[n] = <<Frame(n)>>
         /\ \A a \in 1..Len(w) : At(w, a)[n] = Passed(w, a, At(w, a - 1)[n])
<1> DEFINE A == After(w, Frame(n))
<1>1. /\ \A a \in 0..Len(w) : A[a] \in OneOf(Like(Frame(n)))
      /\ A[0] = <<Frame(n)>>
      /\ \A a \in 1..Len(w) : A[a] = Passed(w, a, A[a - 1])
  <2>1. Frame(n) \in Frames
    BY FrameIsOne
  <2> QED
    BY <2>1, AfterSteps
<1> HIDE DEF A
<1>2. \A a : At(w, a)[n] = A[a]
  BY DEF At, A
<1> QED
  BY <1>1, <1>2

\* Up is what it is to be: the definition has a solution.
LEMMA UpPiles ==
  ASSUME NEW w, Wired(w), NEW a \in 0..Len(w)
  PROVE  Piles(Up(w, a), At(w, a))
<1> DEFINE A == At(w, a)
           step == [p \in Nat \X FrameSeqs |-> Join(p[2], A[p[1] + 1])]
           none == <<>>
<1>1. \A n \in Nat : A[n] \in OneOf(Frames)
  <2>1. \A n \in Nat : OneOf(Like(Frame(n))) \subseteq OneOf(Frames)
    BY DEF OneOf, Like
  <2> QED
    BY <2>1, AtSteps
<1>2. A \in [Nat -> OneOf(Frames)]
  BY <1>1 DEF At
<1> HIDE DEF A
<1>3. step \in [Nat \X FrameSeqs -> FrameSeqs]
  <2>1. ASSUME NEW p \in Nat \X FrameSeqs PROVE Join(p[2], A[p[1] + 1]) \in FrameSeqs
    <3>1. p[1] + 1 \in Nat /\ p[2] \in FrameSeqs
      OBVIOUS
    <3>2. A[p[1] + 1] \in FrameSeqs
      BY <1>1, <3>1, OnesAreSeqs
    <3> QED
      BY <3>1, <3>2, JoinTyped
  <2> QED
    BY <2>1
<1>4. PICK U \in [Nat -> FrameSeqs] : U[0] = none /\ \A n \in Nat : U[n + 1] = step[<<n, U[n]>>]
  <2> HIDE DEF step, none
  <2>1. none \in FrameSeqs
    BY JoinEmpty DEF none
  <2>2. Iterates(FrameSeqs, none, step)
    BY <1>3, <2>1, Recursion
  <2> QED
    BY <2>2 DEF Iterates
<1>5. \A n \in Nat : U[n + 1] = Join(U[n], A[n + 1])
  BY <1>4
<1>6. Piles(U, A)
  BY <1>2, <1>4, <1>5 DEF Piles
<1>7. Up(w, a) = CHOOSE V : Piles(V, A)
  BY DEF Up, A
<1>8. Piles(Up(w, a), A)
  BY <1>6, <1>7
<1> QED
  BY <1>8 DEF A

\* It is a sequence of frames.
LEMMA UpTyped ==
  ASSUME NEW w, Wired(w), NEW a \in 0..Len(w), NEW n \in Nat
  PROVE  Up(w, a)[n] \in FrameSeqs
<1>1. Piles(Up(w, a), At(w, a))
  BY UpPiles
<1> QED
  BY <1>1 DEF Piles

\* Where nothing has come after the m-th frame, nothing comes behind the next
\* element.
LEMMA UpRest ==
  ASSUME NEW w, Wired(w), NEW a \in 1..Len(w), NEW m \in Nat, NEW n \in Nat, m <= n,
         Up(w, a - 1)[n] = Up(w, a - 1)[m]
  PROVE  Up(w, a)[n] = Up(w, a)[m]
<1>1. a - 1 \in 0..Len(w) /\ a \in 0..Len(w)
  BY DEF Wired
<1>2. Piles(Up(w, a - 1), At(w, a - 1)) /\ Piles(Up(w, a), At(w, a))
  BY <1>1, UpPiles
<1>3. ASSUME NEW k \in (m + 1)..n PROVE At(w, a)[k] = <<>>
  <2>1. k \in Nat /\ At(w, a - 1)[k] = <<>>
    BY <1>2, <1>3, PilesRest
  <2>2. At(w, a)[k] = Passed(w, a, At(w, a - 1)[k])
    BY <2>1, AtSteps
  <2> QED
    BY <2>1, <2>2 DEF Passed
<1> DEFINE S == {i \in Nat : m <= i /\ i <= n => Up(w, a)[i] = Up(w, a)[m]}
<1>4. 0 \in S
  <2>1. m <= 0 => m = 0
    OBVIOUS
  <2> QED
    BY <2>1
<1>5. ASSUME NEW i \in Nat, i \in S PROVE i + 1 \in S
  <2>1. CASE m <= i /\ i + 1 <= n
    <3>1. i + 1 \in (m + 1)..n /\ i + 1 \in Nat
      BY <2>1
    <3>2. /\ Up(w, a)[i] \in FrameSeqs
          /\ Up(w, a)[i + 1] = Join(Up(w, a)[i], At(w, a)[i + 1])
      BY <1>2 DEF Piles
    <3>3. Up(w, a)[i + 1] = Up(w, a)[i]
      BY <1>3, <3>1, <3>2, JoinEmpty
    <3>4. Up(w, a)[i] = Up(w, a)[m]
      BY <1>5, <2>1
    <3> QED
      BY <3>1, <3>3, <3>4
  <2>2. CASE i + 1 <= m
    <3>1. m <= i + 1 => i + 1 = m
      BY <2>2
    <3> QED
      BY <3>1
  <2>3. CASE n < i + 1
    BY <2>3
  <2> QED
    BY <2>1, <2>2, <2>3
<1>6. Nat \subseteq S
  <2> HIDE DEF S
  <2> QED
    BY <1>4, <1>5, Induction
<1> QED
  BY <1>6

\* All frames keep the id and the stream they were sent with.
LEMMA UpKept ==
  ASSUME NEW w, Wired(w), NEW a \in 0..Len(w), NEW n \in Nat
  PROVE  Up(w, a)[n] \in Seq(Kept)
<1>1. /\ Up(w, a)[0] = <<>>
      /\ \A m \in Nat : Up(w, a)[m + 1] = Up(w, a)[m] \o At(w, a)[m + 1]
  <2>1. Piles(Up(w, a), At(w, a))
    BY UpPiles
  <2> QED
    BY <2>1 DEF Piles, Join
<1>2. ASSUME NEW k \in Nat PROVE At(w, a)[k] \in Seq(Kept)
  <2>1. At(w, a)[k] \in OneOf(Like(Frame(k)))
    BY AtSteps
  <2>2. Like(Frame(k)) \subseteq Kept
    BY FrameIsOne
  <2>3. \A f \in Kept : <<f>> \in Seq(Kept)
    OBVIOUS
  <2>4. <<>> \in Seq(Kept)
    OBVIOUS
  <2> QED
    BY <2>1, <2>2, <2>3, <2>4 DEF OneOf
<1> DEFINE S == {m \in Nat : Up(w, a)[m] \in Seq(Kept)}
<1>3. 0 \in S
  <2>1. <<>> \in Seq(Kept) /\ 0 \in Nat
    OBVIOUS
  <2> QED
    BY <1>1, <2>1, Zenon
<1>4. ASSUME NEW m \in Nat, m \in S PROVE m + 1 \in S
  <2>1. m + 1 \in Nat
    OBVIOUS
  <2>2. Up(w, a)[m + 1] = Up(w, a)[m] \o At(w, a)[m + 1]
    BY <1>1, Zenon
  <2>3. Up(w, a)[m] \in Seq(Kept) /\ At(w, a)[m + 1] \in Seq(Kept)
    BY <1>2, <1>4, <2>1
  <2> QED
    BY <2>1, <2>2, <2>3, ConcatProperties
<1>5. Nat \subseteq S
  <2> HIDE DEF S
  <2> QED
    BY <1>3, <1>4, Induction
<1> QED
  BY <1>5

-----------------------------------------------------------------------------
\* The reference: the same frames under one stream.
OfOne(f) == [f EXCEPT !.stream = 0]
Renamed(s) == SameBut(0, s)

\* Of nothing or of a single frame,
LEMMA RenamedOne ==
  /\ Renamed(<<>>) = <<>>
  /\ \A f \in Frames : OfOne(f) \in Frames /\ Renamed(<<f>>) = <<OfOne(f)>>
<1>1. Renamed(<<>>) = <<>>
  BY DEF Renamed, SameBut
<1>2. ASSUME NEW f \in Frames PROVE OfOne(f) \in Frames
  BY DEF OfOne, Frames
<1>3. ASSUME NEW f \in Frames PROVE Renamed(<<f>>) = <<OfOne(f)>>
  <2>1. DOMAIN <<f>> = 1..1 /\ <<f>>[1] = f
    OBVIOUS
  <2>2. Renamed(<<f>>) = [i \in 1..1 |-> OfOne(f)]
    BY <2>1 DEF Renamed, SameBut, OfOne
  <2> QED
    BY <2>2
<1> QED
  BY <1>1, <1>2, <1>3

\* and of sequences, the new name is that of the parts.
LEMMA RenamedJoin ==
  ASSUME NEW s \in FrameSeqs, NEW t \in FrameSeqs
  PROVE  /\ Renamed(s) \in FrameSeqs /\ Len(Renamed(s)) = Len(s)
         /\ Renamed(Join(s, t)) = Join(Renamed(s), Renamed(t))
<1>1. ASSUME NEW u \in FrameSeqs
      PROVE  /\ Renamed(u) \in FrameSeqs /\ Len(Renamed(u)) = Len(u)
             /\ \A i \in 1..Len(u) : Renamed(u)[i] = OfOne(u[i])
  <2>1. DOMAIN u = 1..Len(u) /\ Len(u) \in Nat /\ \A i \in 1..Len(u) : u[i] \in Frames
    BY DEF FrameSeqs
  <2>2. Renamed(u) = [i \in 1..Len(u) |-> OfOne(u[i])]
    BY <2>1 DEF Renamed, SameBut, OfOne
  <2>3. \A i \in 1..Len(u) : OfOne(u[i]) \in Frames
    BY <2>1, RenamedOne
  <2> QED
    BY <2>1, <2>2, <2>3 DEF FrameSeqs
<1> DEFINE l == Renamed(Join(s, t))
           r == Join(Renamed(s), Renamed(t))
<1>2. Join(s, t) \in FrameSeqs /\ l \in FrameSeqs /\ r \in FrameSeqs
  BY <1>1, JoinTyped
<1>3. /\ Len(s) \in Nat /\ Len(t) \in Nat /\ Len(Join(s, t)) = Len(s) + Len(t)
      /\ \A i \in 1..(Len(s) + Len(t)) :
           Join(s, t)[i] = IF i <= Len(s) THEN s[i] ELSE t[i - Len(s)]
  BY ConcatProperties DEF Join, FrameSeqs
<1>4. /\ Len(r) = Len(s) + Len(t)
      /\ \A i \in 1..(Len(s) + Len(t)) :
           r[i] = IF i <= Len(s) THEN Renamed(s)[i] ELSE Renamed(t)[i - Len(s)]
  <2>1. Renamed(s) \in FrameSeqs /\ Renamed(t) \in FrameSeqs
        /\ Len(Renamed(s)) = Len(s) /\ Len(Renamed(t)) = Len(t)
    BY <1>1
  <2> DEFINE p == Renamed(s)
             q == Renamed(t)
  <2>2. p \in Seq(Frames) /\ q \in Seq(Frames) /\ Len(p) = Len(s) /\ Len(q) = Len(t)
    BY <2>1 DEF FrameSeqs
  <2> HIDE DEF p, q
  <2>3. /\ Len(p \o q) = Len(p) + Len(q)
        /\ \A i \in 1..(Len(p) + Len(q)) :
             (p \o q)[i] = IF i <= Len(p) THEN p[i] ELSE q[i - Len(p)]
    BY <2>2, ConcatProperties
  <2> QED
    BY <2>2, <2>3 DEF Join, p, q
<1>5. /\ Len(l) = Len(s) + Len(t)
      /\ \A i \in 1..(Len(s) + Len(t)) : l[i] = OfOne(Join(s, t)[i])
  BY <1>1, <1>2, <1>3
<1>6. ASSUME NEW i \in 1..(Len(s) + Len(t)) PROVE l[i] = r[i]
  <2> HIDE DEF l, r
  <2>1. CASE i <= Len(s)
    <3>1. i \in 1..Len(s)
      BY <1>3, <2>1
    <3> QED
      BY <1>1, <1>3, <1>4, <1>5, <2>1, <3>1
  <2>2. CASE ~(i <= Len(s))
    <3>1. i - Len(s) \in 1..Len(t)
      BY <1>3, <2>2
    <3> QED
      BY <1>1, <1>3, <1>4, <1>5, <2>2, <3>1
  <2> QED
    BY <2>1, <2>2
<1>7. l = r
  <2> HIDE DEF l, r
  <2> QED
    BY <1>2, <1>4, <1>5, <1>6 DEF FrameSeqs
<1> QED
  BY <1>1, <1>7

\* No element looks at the stream or changes it.
LEMMA ProcessOfOne ==
  ASSUME NEW e \in Transforms, NEW f \in Frames
  PROVE  Process(e, OfOne(f)) = Renamed(Process(e, f))
<1> DEFINE g == OfOne(f)
<1>1. g \in Frames /\ g.value = f.value
  BY DEF OfOne, Frames
<1>2. \A t \in PayloadTypes, v \in Int :
        MapFrame(f, t, v) \in Frames /\ MapFrame(g, t, v) = OfOne(MapFrame(f, t, v))
  BY DEF OfOne, MapFrame, Frames
<1>3. f.value \in Int /\ "i32" \in PayloadTypes /\ "String" \in PayloadTypes
  BY DEF Frames, PayloadTypes
<1>4. \A t \in PayloadTypes, v \in Int :
        Renamed(<<MapFrame(f, t, v)>>) = <<MapFrame(g, t, v)>>
  BY <1>2, RenamedOne
<1>5. CASE e = "double"
  <2>1. Process(e, f) = <<MapFrame(f, "i32", 2 * f.value)>>
    BY <1>5 DEF Process
  <2>2. Process(e, g) = <<MapFrame(g, "i32", 2 * g.value)>>
    BY <1>5 DEF Process
  <2>3. 2 * f.value \in Int
    BY <1>3
  <2>4. Renamed(<<MapFrame(f, "i32", 2 * f.value)>>) = <<MapFrame(g, "i32", 2 * f.value)>>
    BY <1>3, <1>4, <2>3
  <2> QED
    BY <1>1, <2>1, <2>2, <2>4
<1>6. CASE e = "add_ten"
  <2>1. Process(e, f) = <<MapFrame(f, "i32", f.value + 10)>>
    BY <1>6 DEF Process
  <2>2. Process(e, g) = <<MapFrame(g, "i32", g.value + 10)>>
    BY <1>6 DEF Process
  <2>3. f.value + 10 \in Int
    BY <1>3
  <2>4. Renamed(<<MapFrame(f, "i32", f.value + 10)>>) = <<MapFrame(g, "i32", f.value + 10)>>
    BY <1>3, <1>4, <2>3
  <2> QED
    BY <1>1, <2>1, <2>2, <2>4
<1>7. CASE e = "to_string"
  <2>1. Process(e, f) = <<MapFrame(f, "String", f.value)>>
    BY <1>7 DEF Process
  <2>2. Process(e, g) = <<MapFrame(g, "String", g.value)>>
    BY <1>7 DEF Process
  <2>3. Renamed(<<MapFrame(f, "String", f.value)>>) = <<MapFrame(g, "String", f.value)>>
    BY <1>3, <1>4
  <2> QED
    BY <1>1, <2>1, <2>2, <2>3
<1>8. CASE e = "even_filter"
  <2>1. Process(e, f) = IF f.value % 2 = 0 THEN <<f>> ELSE <<>>
    BY <1>8 DEF Process, FilterFrame
  <2>2. Process(e, g) = IF g.value % 2 = 0 THEN <<g>> ELSE <<>>
    BY <1>8 DEF Process, FilterFrame
  <2> QED
    BY <1>1, <2>1, <2>2, RenamedOne
<1>9. CASE e = "no_name"
  <2>1. Process(e, f) = <<f>> /\ Process(e, g) = <<g>>
    BY <1>9 DEF Process
  <2> QED
    BY <2>1, RenamedOne
<1> QED
  BY <1>5, <1>6, <1>7, <1>8, <1>9 DEF Transforms

\* Nor does a downcast or a sink,
LEMMA PassedOfOne ==
  ASSUME NEW w, Wired(w), NEW i \in 1..Len(w), NEW s \in OneOf(Frames)
  PROVE  Passed(w, i, Renamed(s)) = Renamed(Passed(w, i, s))
<1>1. CASE s = <<>>
  BY <1>1, RenamedOne DEF Passed
<1>2. ASSUME NEW f \in Frames, s = <<f>>
      PROVE  Passed(w, i, Renamed(s)) = Renamed(Passed(w, i, s))
  <2>1. Renamed(s) = <<OfOne(f)>>
    BY <1>2, RenamedOne
  <2>2. Downcasts(w[i], OfOne(f)) = Downcasts(w[i], f)
    BY DEF Downcasts, OfOne, Frames
  <2>3. i # Len(w) => w[i] \in Transforms
    BY DEF Wired
  <2>4. i # Len(w) => Process(w[i], OfOne(f)) = Renamed(Process(w[i], f))
    BY <2>3, ProcessOfOne
  <2>5. \A g : Passed(w, i, <<g>>) = IF ~Downcasts(w[i], g) THEN <<>>
                                     ELSE IF i = Len(w) THEN <<g>> ELSE Process(w[i], g)
    <3>1. \A g : <<g>> # <<>> /\ <<g>>[1] = g
      OBVIOUS
    <3> QED
      BY <3>1 DEF Passed
  <2> QED
    BY <1>2, <2>1, <2>2, <2>4, <2>5, RenamedOne
<1> QED
  BY <1>1, <1>2 DEF OneOf

\* nor do all of them together.
LEMMA AfterOfOne ==
  ASSUME NEW w, Wired(w), NEW f \in Frames, NEW n \in 0..Len(w)
  PROVE  After(w, OfOne(f))[n] = Renamed(After(w, f)[n])
<1> DEFINE A == After(w, f)
           B == After(w, OfOne(f))
<1>1. OfOne(f) \in Frames /\ <<OfOne(f)>> = Renamed(<<f>>)
  BY RenamedOne
<1>2. /\ \A i \in 0..Len(w) : A[i] \in OneOf(Frames)
      /\ A[0] = <<f>> /\ \A i \in 1..Len(w) : A[i] = Passed(w, i, A[i - 1])
  <2>1. OneOf(Like(f)) \subseteq OneOf(Frames)
    BY DEF OneOf, Like
  <2> QED
    BY <2>1, AfterSteps
<1>3. B[0] = <<OfOne(f)>> /\ \A i \in 1..Len(w) : B[i] = Passed(w, i, B[i - 1])
  BY <1>1, AfterSteps
<1> HIDE DEF A, B
<1> DEFINE S == {i \in Nat : i <= Len(w) => B[i] = Renamed(A[i])}
<1>4. 0 \in S
  BY <1>1, <1>2, <1>3
<1>5. ASSUME NEW i \in Nat, i \in S PROVE i + 1 \in S
  <2>1. ASSUME i + 1 <= Len(w) PROVE B[i + 1] = Renamed(A[i + 1])
    <3>1. Len(w) \in Nat
      BY DEF Wired
    <3>2. i + 1 \in 1..Len(w) /\ (i + 1) - 1 = i /\ i \in 0..Len(w)
      BY <2>1, <3>1
    <3>3. B[i] = Renamed(A[i]) /\ A[i] \in OneOf(Frames)
      BY <1>2, <1>5, <3>2
    <3>4. B[i + 1] = Passed(w, i + 1, B[i]) /\ A[i + 1] = Passed(w, i + 1, A[i])
      BY <1>2, <1>3, <3>2
    <3> QED
      BY <3>2, <3>3, <3>4, PassedOfOne
  <2> QED
    BY <2>1
<1>6. Nat \subseteq S
  <2> HIDE DEF S
  <2> QED
    BY <1>4, <1>5, Induction
<1>7. n \in Nat /\ n <= Len(w)
  BY DEF Wired
<1> QED
  BY <1>6, <1>7 DEF A, B

\* FlattenSeq as the library defines it.
Flat(seqs) ==
  CHOOSE flatten : flatten = [i \in 1..Len(seqs) |->
    IF i = 1 THEN seqs[i] ELSE flatten[i - 1] \o seqs[i]]

\* FlattenSeq joins from the first to the last.
LEMMA FlattenIs ==
  ASSUME NEW seqs
  PROVE  FlattenSeq(seqs) = IF Len(seqs) = 0 THEN seqs ELSE Flat(seqs)[Len(seqs)]
BY DEF FlattenSeq, Flat

\* Called one after the other, the elements make of the first n frames what
\* comes of those that are sent, but for the stream.
LEMMA ManuallyIs ==
  ASSUME NEW w, Wired(w), NEW n \in Nat
  PROVE  Manually(w, n) = Renamed(Up(w, Len(w))[n])
<1> DEFINE N == Len(w)
           seqs == [i \in 1..n |-> Through(w, CounterFrames(0, n)[i])]
           U == Up(w, N)
           A == At(w, N)
           Solves(h) == h = [i \in 1..Len(seqs) |->
             IF i = 1 THEN seqs[i] ELSE h[i - 1] \o seqs[i]]
<1>1. Len(w) \in 0..Len(w) /\ Piles(Up(w, Len(w)), At(w, Len(w)))
  <2>1. Len(w) \in 0..Len(w)
    BY DEF Wired
  <2> QED
    BY <2>1, UpPiles
<1>2. Len(seqs) = n
  OBVIOUS
<1>3. ASSUME NEW i \in 1..n PROVE seqs[i] = Renamed(A[i])
  <2>1. i \in Nat /\ CounterFrames(0, n)[i] = OfOne(Frame(i))
    BY DEF CounterFrames, NewFrame, OfOne, Frame
  <2>2. Through(w, CounterFrames(0, n)[i]) = After(w, OfOne(Frame(i)))[Len(w)]
    BY <2>1, ThroughIs
  <2>3. After(w, OfOne(Frame(i)))[Len(w)] = Renamed(After(w, Frame(i))[Len(w)])
    BY <1>1, <2>1, FrameIsOne, AfterOfOne
  <2>4. A[i] = After(w, Frame(i))[Len(w)]
    BY <2>1 DEF At
  <2> QED
    BY <2>2, <2>3, <2>4
<1>4. Manually(w, n) = FlattenSeq(seqs)
  BY DEF Manually
<1> HIDE DEF seqs, A, U
<1>5. /\ U[0] = <<>>
      /\ \A i \in Nat : U[i] \in FrameSeqs /\ A[i] \in FrameSeqs
      /\ \A i \in Nat : U[i + 1] = Join(U[i], A[i + 1])
  <2>1. Piles(U, A)
    BY <1>1 DEF U, A
  <2> QED
    BY <2>1, OnesAreSeqs DEF Piles
<1>6. ASSUME NEW i \in Nat
      PROVE  Renamed(U[i + 1]) = Renamed(U[i]) \o Renamed(A[i + 1])
  <2>1. i + 1 \in Nat
    OBVIOUS
  <2>2. U[i] \in FrameSeqs /\ A[i + 1] \in FrameSeqs /\ U[i + 1] = Join(U[i], A[i + 1])
    BY <1>5, <2>1
  <2>3. Renamed(U[i + 1]) = Join(Renamed(U[i]), Renamed(A[i + 1]))
    BY <2>2, RenamedJoin
  <2> QED
    BY <2>3 DEF Join
<1>7. Renamed(U[1]) = Renamed(A[1])
  <2>1. 0 + 1 = 1 /\ 1 \in Nat
    OBVIOUS
  <2>2. U[1] = Join(<<>>, A[1]) /\ A[1] \in FrameSeqs
    BY <1>5, <2>1
  <2> QED
    BY <2>2, JoinEmpty
<1> DEFINE g == [i \in 1..n |-> Renamed(U[i])]
<1>8. Solves(g)
  <2>1. ASSUME NEW i \in 1..n, i # 1 PROVE g[i] = g[i - 1] \o seqs[i]
    <3>1. i - 1 \in Nat /\ (i - 1) + 1 = i /\ i - 1 \in 1..n
      BY <2>1
    <3>2. Renamed(U[(i - 1) + 1]) = Renamed(U[i - 1]) \o Renamed(A[(i - 1) + 1])
      BY <1>6, <3>1
    <3>3. g[i] = Renamed(U[i]) /\ g[i - 1] = Renamed(U[i - 1])
      BY <3>1
    <3> HIDE DEF g
    <3> QED
      BY <1>3, <3>1, <3>2, <3>3
  <2>2. ASSUME NEW i \in 1..n, i = 1 PROVE g[i] = seqs[i]
    <3>1. g[i] = Renamed(U[1]) /\ seqs[i] = Renamed(A[1])
      BY <1>3, <2>2
    <3> HIDE DEF g
    <3> QED
      BY <1>7, <3>1
  <2>3. g = [i \in 1..n |-> g[i]]
    OBVIOUS
  <2> HIDE DEF g
  <2>4. g = [i \in 1..n |-> IF i = 1 THEN seqs[i] ELSE g[i - 1] \o seqs[i]]
    BY <2>1, <2>2, <2>3
  <2> QED
    BY <1>2, <2>4
<1>9. Solves(Flat(seqs))
  <2>1. Flat(seqs) = CHOOSE h : Solves(h)
    BY DEF Flat
  <2> HIDE DEF Solves, g
  <2> QED
    BY <1>8, <2>1
<1> DEFINE F == Flat(seqs)
<1>10. ASSUME NEW i \in 1..n
       PROVE  F[i] = IF i = 1 THEN seqs[i] ELSE F[i - 1] \o seqs[i]
  BY <1>2, <1>9
<1> HIDE DEF F, g
<1> DEFINE S == {i \in Nat : i = 0 \/ i > n \/ F[i] = Renamed(U[i])}
<1>11. 0 \in S
  OBVIOUS
<1>12. ASSUME NEW i \in Nat, i \in S PROVE i + 1 \in S
  <2>1. CASE i + 1 > n
    BY <2>1
  <2>2. CASE i = 0 /\ i + 1 <= n
    <3>1. 1 \in 1..n /\ i + 1 = 1
      BY <2>2
    <3>2. F[1] = Renamed(A[1])
      BY <1>3, <1>10, <3>1
    <3> QED
      BY <1>7, <3>1, <3>2
  <2>3. CASE i # 0 /\ i + 1 <= n
    <3>1. i + 1 \in 1..n /\ i + 1 # 1 /\ (i + 1) - 1 = i /\ F[i] = Renamed(U[i])
      BY <1>12, <2>3
    <3>2. F[i + 1] = F[i] \o seqs[i + 1] /\ seqs[i + 1] = Renamed(A[i + 1])
      BY <1>3, <1>10, <3>1
    <3>3. F[i + 1] = Renamed(U[i + 1])
      BY <1>6, <3>1, <3>2
    <3> QED
      BY <3>3
  <2> QED
    BY <2>1, <2>2, <2>3
<1>13. Nat \subseteq S
  <2> HIDE DEF S
  <2> QED
    BY <1>11, <1>12, Induction
<1>14. CASE n = 0
  <2>1. FlattenSeq(seqs) = seqs
    BY <1>2, <1>14, FlattenIs
  <2>2. seqs = <<>>
    BY <1>14 DEF seqs
  <2>3. Renamed(U[n]) = <<>>
    BY <1>5, <1>14, RenamedOne
  <2> QED
    BY <1>4, <2>1, <2>2, <2>3 DEF U
<1>15. CASE n # 0
  <2>1. FlattenSeq(seqs) = F[n]
    BY <1>2, <1>15, FlattenIs DEF F
  <2>2. F[n] = Renamed(U[n])
    BY <1>13, <1>15
  <2> QED
    BY <1>4, <2>1, <2>2 DEF U
<1> QED
  BY <1>14, <1>15

-----------------------------------------------------------------------------
\* The actors of simple_pipeline.  Since Stops go from the first actor to the
\* last, what is before the Stop in a mailbox or further on still reaches the
\* sink, and the rest is lost.
Messages == Frames \cup {Stop}

\* The Stop is in the mailbox, behind what is still taken.
Before(s, live) == \E dead \in Seq(Messages) : s = live \o (<<Stop>> \o dead)

\* The frames in the mailbox of an actor that it still takes.
Ahead(a, live) == IF a > stops THEN box[a] = live ELSE Before(box[a], live)

\* Of the frames sent, c[a] are decided to have come to actor a or not, and t[a]
\* to have been taken by it or not: the frames on their way are those that have
\* come of the frames between.
Accounted(c, t) ==
  /\ \A a \in Actors : t[a] <= c[a] /\ c[a] <= sent
  /\ stops = 0 => c[1] = sent
  /\ \A a \in Actors : a # SinkAt /\ stops <= a =>
       c[a + 1] <= t[a] /\ Up(wiring, a)[t[a]] = Join(Up(wiring, a)[c[a + 1]], out[a])
  /\ \A a \in Actors \ ended : stops <= a =>
       \E live \in FrameSeqs :
         Ahead(a, live) /\ Up(wiring, a - 1)[c[a]] = Join(Up(wiring, a - 1)[t[a]], live)
  /\ consumed = Up(wiring, SinkAt)[t[SinkAt]]

\* Once they run, there are such numbers.
Flowing ==
  /\ Wired(wiring) /\ stops \in 0..SinkAt /\ ended \subseteq 1..stops
  /\ main = "sending" => stops = 0
  /\ sent \in Nat
  /\ box \in [Actors -> Seq(Messages)]
  /\ out \in [Actors -> OneOf(Frames)] /\ out[SinkAt] = <<>>
  /\ \E c, t \in [Actors -> Nat] : Accounted(c, t)

\* No frame is taken for a Stop.
LEMMA FramesDoNotStop == Stop \notin Frames
BY DEF Stop, Frames, PayloadTypes

\* A message in front that is not the Stop is one the actor still takes.
LEMMA BeforeHead ==
  ASSUME NEW s \in Seq(Messages), NEW live \in FrameSeqs, Before(s, live), s # <<>>,
         Head(s) # Stop
  PROVE  /\ live # <<>> /\ Head(s) = Head(live) /\ Tail(live) \in FrameSeqs
         /\ Before(Tail(s), Tail(live))
<1>1. PICK dead \in Seq(Messages) : s = live \o (<<Stop>> \o dead)
  BY DEF Before
<1> DEFINE end == <<Stop>> \o dead
<1>2. end \in Seq(Messages) /\ Len(end) = Len(dead) + 1 /\ end[1] = Stop
  BY DEF Messages
<1>3. live \in Seq(Messages) /\ live \in Seq(Frames)
  BY DEF FrameSeqs, Messages
<1> HIDE DEF end
<1>4. s = live \o end
  BY <1>1 DEF end
<1>5. CASE live = <<>>
  <2>1. s = end
    BY <1>2, <1>4, <1>5, ConcatEmptySeq
  <2> QED
    BY <1>2, <2>1
<1>6. CASE live # <<>>
  <2>1. /\ Len(s) = Len(live) + Len(end)
        /\ \A i \in 1..(Len(live) + Len(end)) :
             s[i] = IF i <= Len(live) THEN live[i] ELSE end[i - Len(live)]
    BY <1>2, <1>3, <1>4, ConcatProperties
  <2>2. Len(live) \in Nat \ {0} /\ Len(end) \in Nat \ {0}
    BY <1>2, <1>3, <1>6
  <2>3. Head(s) = Head(live)
    BY <2>1, <2>2
  <2>4. /\ Tail(live) \in Seq(Frames) /\ Tail(live) \in Seq(Messages)
        /\ Len(Tail(live)) = Len(live) - 1
        /\ \A i \in 1..(Len(live) - 1) : Tail(live)[i] = live[i + 1]
    BY <1>3, <1>6
  <2>5. /\ Tail(s) \in Seq(Messages) /\ Len(Tail(s)) = Len(s) - 1
        /\ \A i \in 1..(Len(s) - 1) : Tail(s)[i] = s[i + 1]
    BY HeadTailProperties
  <2> DEFINE r == Tail(live) \o end
  <2>6. /\ r \in Seq(Messages) /\ Len(r) = Len(Tail(live)) + Len(end)
        /\ \A i \in 1..(Len(Tail(live)) + Len(end)) :
             r[i] = IF i <= Len(Tail(live)) THEN Tail(live)[i] ELSE end[i - Len(Tail(live))]
    BY <1>2, <2>4, ConcatProperties
  <2> HIDE DEF r
  <2>7. Tail(s) = r
    <3>1. Len(Tail(s)) = Len(r) /\ Len(r) \in Nat
      BY <2>1, <2>2, <2>4, <2>5, <2>6
    <3>2. ASSUME NEW i \in 1..Len(r) PROVE Tail(s)[i] = r[i]
      <4>1. /\ i \in Nat /\ i + 1 \in 1..(Len(live) + Len(end)) /\ i \in 1..(Len(s) - 1)
            /\ i \in 1..(Len(Tail(live)) + Len(end))
        BY <2>1, <2>2, <2>4, <2>6
      <4>2. Tail(s)[i] = s[i + 1]
        BY <2>5, <4>1
      <4>3. CASE i <= Len(live) - 1
        <5>1. i \in 1..(Len(live) - 1) /\ i + 1 <= Len(live) /\ i <= Len(Tail(live))
          BY <2>2, <2>4, <4>1, <4>3
        <5>2. s[i + 1] = live[i + 1]
          BY <2>1, <4>1, <5>1
        <5>3. r[i] = live[i + 1]
          BY <2>4, <2>6, <4>1, <5>1
        <5> QED
          BY <4>2, <5>2, <5>3
      <4>4. CASE ~(i <= Len(live) - 1)
        <5>1. ~(i + 1 <= Len(live)) /\ ~(i <= Len(Tail(live)))
              /\ (i + 1) - Len(live) = i - Len(Tail(live))
          BY <2>2, <2>4, <4>1, <4>4
        <5>2. s[i + 1] = end[(i + 1) - Len(live)]
          BY <2>1, <4>1, <5>1
        <5>3. r[i] = end[i - Len(Tail(live))]
          BY <2>6, <4>1, <5>1
        <5> QED
          BY <4>2, <5>1, <5>2, <5>3
      <4> QED
        BY <4>3, <4>4
    <3> QED
      BY <2>5, <2>6, <3>1, <3>2, SeqEqual
  <2> QED
    BY <1>6, <2>3, <2>4, <2>7 DEF r, end, Before, FrameSeqs
<1> QED
  BY <1>5, <1>6

\* What is put behind a Stop is lost, whatever it is.
LEMMA BeforeMore ==
  ASSUME NEW s \in Seq(Messages), NEW live \in FrameSeqs, NEW m \in Messages
  PROVE  /\ Before(s, live) => Before(Append(s, m), live)
         /\ Before(Append(live, Stop), live)
<1>1. live \in Seq(Messages) /\ <<Stop>> \in Seq(Messages) /\ <<>> \in Seq(Messages)
  BY DEF FrameSeqs, Messages
<1>2. ASSUME Before(s, live) PROVE Before(Append(s, m), live)
  <2>1. PICK dead \in Seq(Messages) : s = live \o (<<Stop>> \o dead)
    BY <1>2 DEF Before
  <2>2. Append(dead, m) \in Seq(Messages) /\ <<m>> \in Seq(Messages)
    OBVIOUS
  <2>3. Append(s, m) = s \o <<m>> /\ Append(dead, m) = dead \o <<m>>
    BY AppendIsConcat
  <2>4. <<Stop>> \o dead \in Seq(Messages)
    BY <1>1, ConcatProperties
  <2>5. s \o <<m>> = live \o ((<<Stop>> \o dead) \o <<m>>)
    BY <1>1, <2>1, <2>2, <2>4, ConcatAssociative
  <2>6. (<<Stop>> \o dead) \o <<m>> = <<Stop>> \o (dead \o <<m>>)
    BY <1>1, <2>2, ConcatAssociative
  <2>7. Append(s, m) = live \o (<<Stop>> \o Append(dead, m))
    BY <2>3, <2>5, <2>6
  <2> QED
    BY <2>2, <2>7 DEF Before
<1>3. Before(Append(live, Stop), live)
  <2>1. <<Stop>> \o <<>> = <<Stop>>
    BY <1>1, ConcatEmptySeq
  <2>2. Stop \in Messages
    BY DEF Messages
  <2>3. Append(live, Stop) = live \o <<Stop>>
    BY <1>1, <2>2, AppendIsConcat
  <2> QED
    BY <1>1, <2>1, <2>3 DEF Before
<1> QED
  BY <1>2, <1>3

\* An actor takes a frame: a later one of those sent, of which it makes p.
LEMMA TakeKeeps ==
  ASSUME Flowing, NEW a \in Actors \ ended, NEW p,
         out[a] = <<>>, box[a] # <<>>, Head(box[a]) # Stop,
         p = Passed(wiring, a, <<Head(box[a])>>),
         box' = [box EXCEPT ![a] = Tail(box[a])],
         a # SinkAt => out' = [out EXCEPT ![a] = p] /\ consumed' = consumed,
         a = SinkAt => out' = out /\ consumed' = consumed \o p,
         UNCHANGED <<main, wiring, sent, stops, ended>>
  PROVE  Flowing'
<1>1. PICK c \in [Actors -> Nat], t \in [Actors -> Nat] : Accounted(c, t)
  BY DEF Flowing
<1>2. /\ Wired(wiring) /\ stops \in 0..SinkAt /\ SinkAt \in Nat \ {0} /\ Actors = 1..SinkAt
      /\ box \in [Actors -> Seq(Messages)] /\ out \in [Actors -> OneOf(Frames)]
      /\ a \in Actors /\ a \notin ended /\ SinkAt = Len(wiring)
  BY DEF Flowing, Wired, Actors, SinkAt
<1>3. /\ Tail(box[a]) \in Seq(Messages) /\ Head(box[a]) \in Messages
      /\ Head(box[a]) \in Frames
  <2>1. box[a] \in Seq(Messages) /\ box[a] # <<>>
    BY <1>2
  <2>2. Tail(box[a]) \in Seq(Messages) /\ Head(box[a]) \in Messages
    BY <2>1, HeadTailProperties
  <2> QED
    BY <2>2 DEF Messages
<1>4. p \in OneOf(Frames)
  <2> DEFINE f == Head(box[a])
  <2>1. <<f>> \in OneOf(Like(f)) /\ f \in Frames /\ OneOf(Like(f)) \subseteq OneOf(Frames)
    BY <1>3 DEF OneOf, Like
  <2>2. a \in 1..Len(wiring)
    BY <1>2
  <2> HIDE DEF f
  <2>3. Passed(wiring, a, <<f>>) \in OneOf(Like(f))
    BY <1>2, <2>1, <2>2, PassedOne
  <2> QED
    BY <2>1, <2>3 DEF f
<1>5. /\ Wired(wiring)' /\ SinkAt' = SinkAt /\ Actors' = Actors
      /\ box' \in [Actors -> Seq(Messages)] /\ out' \in [Actors -> OneOf(Frames)]
      /\ out'[SinkAt] = <<>>
  <2>1. wiring' = wiring
    OBVIOUS
  <2>2. SinkAt' = SinkAt /\ Actors' = Actors /\ Wired(wiring)'
    BY <1>2, <2>1 DEF SinkAt, Actors
  <2>3. box' \in [Actors -> Seq(Messages)]
    BY <1>2, <1>3
  <2>4. out' \in [Actors -> OneOf(Frames)] /\ out'[SinkAt] = <<>>
    BY <1>2, <1>4 DEF Flowing
  <2> QED
    BY <2>2, <2>3, <2>4
<1>6. SUFFICES \E d, u \in [Actors -> Nat] : Accounted(d, u)'
  BY <1>5 DEF Flowing
<1>7. \A s : \A b \in Actors : b # a => (Ahead(b, s) <=> Ahead(b, s)')
  BY <1>2 DEF Ahead, Before
<1>8. CASE a < stops
  <2>1. a # SinkAt
    BY <1>2, <1>8
  <2>2. \A b \in Actors : stops <= b => b # a /\ out'[b] = out[b]
    BY <1>2, <1>8, <2>1
  <2>3. ASSUME NEW b \in Actors \ ended, stops <= b
        PROVE  \E l \in FrameSeqs :
                 /\ Ahead(b, l)'
                 /\ Up(wiring, b - 1)[c[b]] = Join(Up(wiring, b - 1)[t[b]], l)
    BY <1>1, <1>7, <2>2, <2>3 DEF Accounted
  <2>4. ASSUME NEW b \in Actors, b # SinkAt, stops <= b
        PROVE  /\ c[b + 1] <= t[b]
               /\ Up(wiring, b)[t[b]] = Join(Up(wiring, b)[c[b + 1]], out'[b])
    BY <1>1, <2>2, <2>4 DEF Accounted
  <2>5. /\ \A b \in Actors : t[b] <= c[b] /\ c[b] <= sent
        /\ stops = 0 => c[1] = sent
        /\ consumed' = Up(wiring, SinkAt)[t[SinkAt]]
    BY <1>1, <2>1 DEF Accounted
  <2>6. Accounted(c, t)'
    BY <1>5, <2>3, <2>4, <2>5 DEF Accounted
  <2> QED
    BY <2>6
<1>9. CASE stops <= a
  <2> DEFINE U == Up(wiring, a - 1)
             V == Up(wiring, a)
             A == At(wiring, a - 1)
             B == At(wiring, a)
  <2>1. PICK live \in FrameSeqs : Ahead(a, live) /\ U[c[a]] = Join(U[t[a]], live)
    BY <1>1, <1>2, <1>9 DEF Accounted
  <2>2. /\ live # <<>> /\ Head(box[a]) = Head(live) /\ Tail(live) \in FrameSeqs
        /\ Ahead(a, Tail(live))'
    <3>1. CASE a > stops
      <4>1. box[a] = live
        BY <2>1, <3>1 DEF Ahead
      <4> QED
        BY <1>2, <3>1, <4>1, FirstAndRest DEF Ahead
    <3>2. CASE ~(a > stops)
      <4>1. Before(box[a], live)
        BY <2>1, <3>2 DEF Ahead
      <4>2. /\ live # <<>> /\ Head(box[a]) = Head(live) /\ Tail(live) \in FrameSeqs
            /\ Before(Tail(box[a]), Tail(live))
        BY <1>2, <4>1, BeforeHead
      <4>3. box'[a] = Tail(box[a])
        BY <1>2
      <4> QED
        BY <3>2, <4>2, <4>3 DEF Ahead, Before
    <3> QED
      BY <3>1, <3>2
  <2>3. Piles(U, A) /\ Piles(V, B) /\ c[a] \in Nat /\ t[a] \in Nat /\ t[a] <= c[a]
    <3>1. a - 1 \in 0..Len(wiring) /\ a \in 0..Len(wiring)
      BY <1>2
    <3> QED
      BY <1>1, <1>2, <3>1, UpPiles DEF Accounted
  <2> HIDE DEF U, V, A, B
  <2>4. PICK k \in (t[a] + 1)..c[a] : /\ U[k - 1] = U[t[a]] /\ A[k] = <<Head(live)>>
                                       /\ U[c[a]] = Join(U[k], Tail(live))
    <3> DEFINE m == t[a]
               n == c[a]
    <3>1. m \in Nat /\ n \in Nat /\ m <= n /\ U[n] = Join(U[m], live)
      BY <2>1, <2>3
    <3> HIDE DEF m, n
    <3>2. HasTaken(U, A, m, n, live)
      BY <2>2, <2>3, <3>1, PilesTake
    <3> QED
      BY <3>2 DEF HasTaken, m, n
  <2>5. k \in Nat /\ k - 1 \in Nat /\ (k - 1) + 1 = k /\ t[a] <= k - 1 /\ t[a] <= k /\ k <= c[a]
    BY <2>3, <2>4
  <2>6. B[k] = p
    <3>1. a \in 1..Len(wiring)
      BY <1>2
    <3>2. B[k] = Passed(wiring, a, A[k])
      BY <1>2, <2>5, <3>1, AtSteps DEF A, B
    <3> QED
      BY <2>2, <2>4, <3>2
  <2>7. V[k] = Join(V[t[a]], p)
    <3>1. a \in 1..Len(wiring)
      BY <1>2
    <3>2. V[k - 1] = V[t[a]]
      <4> DEFINE m == t[a]
                 n == k - 1
      <4>1. m \in Nat /\ n \in Nat /\ m <= n
            /\ Up(wiring, a - 1)[n] = Up(wiring, a - 1)[m]
        BY <2>3, <2>4, <2>5 DEF U
      <4> HIDE DEF m, n
      <4>2. Up(wiring, a)[n] = Up(wiring, a)[m]
        BY <1>2, <3>1, <4>1, UpRest
      <4> QED
        BY <4>2 DEF V, m, n
    <3>3. V[(k - 1) + 1] = Join(V[k - 1], B[(k - 1) + 1])
      BY <2>3, <2>5 DEF Piles
    <3> QED
      BY <2>5, <2>6, <3>2, <3>3
  <2> DEFINE u == [t EXCEPT ![a] = k]
  <2>8. u \in [Actors -> Nat] /\ u[a] = k /\ \A b \in Actors : b # a => u[b] = t[b]
    BY <1>2, <2>5
  <2> HIDE DEF u
  <2>9. \A b \in Actors : u[b] <= c[b] /\ c[b] <= sent
    BY <1>1, <2>5, <2>8 DEF Accounted
  <2>10. ASSUME NEW b \in Actors, b # SinkAt, stops <= b
         PROVE  /\ c[b + 1] <= u[b]
                /\ Up(wiring, b)[u[b]] = Join(Up(wiring, b)[c[b + 1]], out'[b])
    <3>1. c[b + 1] <= t[b] /\ Up(wiring, b)[t[b]] = Join(Up(wiring, b)[c[b + 1]], out[b])
      BY <1>1, <2>10 DEF Accounted
    <3>2. b + 1 \in Actors /\ c[b + 1] \in Nat /\ t[b] \in Nat
      <4>1. b + 1 \in Actors
        BY <1>2, <2>10
      <4> QED
        BY <4>1
    <3>3. CASE b # a
      BY <1>2, <2>8, <3>1, <3>3
    <3>4. CASE b = a
      <4>1. V[c[b + 1]] \in FrameSeqs /\ out[a] = <<>>
        BY <2>3, <3>2 DEF Piles
      <4>2. V[t[a]] = V[c[b + 1]]
        BY <3>1, <3>4, <4>1, JoinEmpty DEF V
      <4>3. out'[a] = p
        BY <1>2, <2>10, <3>4
      <4> QED
        BY <2>5, <2>7, <2>8, <3>1, <3>2, <3>4, <4>2, <4>3 DEF V
    <3> QED
      BY <3>3, <3>4
  <2>11. ASSUME NEW b \in Actors \ ended, stops <= b
         PROVE  \E l \in FrameSeqs :
                  /\ Ahead(b, l)'
                  /\ Up(wiring, b - 1)[c[b]] = Join(Up(wiring, b - 1)[u[b]], l)
    <3>1. CASE b # a
      <4>1. PICK l \in FrameSeqs :
              Ahead(b, l) /\ Up(wiring, b - 1)[c[b]] = Join(Up(wiring, b - 1)[t[b]], l)
        BY <1>1, <2>11 DEF Accounted
      <4>2. Ahead(b, l)' /\ u[b] = t[b]
        BY <1>7, <2>8, <3>1, <4>1
      <4> QED
        BY <4>1, <4>2
    <3>2. CASE b = a
      BY <2>2, <2>4, <2>8, <3>2 DEF U
    <3> QED
      BY <3>1, <3>2
  <2>12. consumed' = Up(wiring, SinkAt)[u[SinkAt]]
    <3>1. consumed = Up(wiring, SinkAt)[t[SinkAt]] /\ SinkAt \in Actors
      BY <1>1, <1>2 DEF Accounted
    <3>2. CASE a # SinkAt
      BY <2>8, <3>1, <3>2
    <3>3. CASE a = SinkAt
      <4>1. V = Up(wiring, SinkAt) /\ t[a] = t[SinkAt] /\ u[SinkAt] = k
        BY <2>8, <3>3 DEF V
      <4> QED
        BY <2>7, <3>1, <3>3, <4>1 DEF Join
    <3> QED
      BY <3>2, <3>3
  <2>13. stops = 0 => c[1] = sent
    BY <1>1 DEF Accounted
  <2>14. Accounted(c, u)'
    BY <1>5, <2>9, <2>10, <2>11, <2>12, <2>13 DEF Accounted
  <2> QED
    BY <2>8, <2>14
<1>10. a < stops \/ stops <= a
  BY <1>2
<1> QED
  BY <1>8, <1>9, <1>10

\* Whatever an actor does with a frame, it takes it as the next of those sent:
\* an element processes it, a sink consumes it, a mismatch makes nothing of it.
LEMMA ActorTakes ==
  ASSUME Flowing, NEW a \in Actors, HandleElement(a) \/ Mismatch(a) \/ (a = SinkAt /\ HandleSink)
  PROVE  Flowing'
<1> DEFINE f == Head(box[a])
           p == Passed(wiring, a, <<f>>)
<1>1. /\ a \in Actors \ ended /\ out[a] = <<>> /\ box[a] # <<>>
      /\ UNCHANGED <<main, wiring, sent, stops, ended>>
      /\ box' = [box EXCEPT ![a] = Tail(box[a])]
  BY DEF HandleElement, Mismatch, HandleSink, Take, Runs
<1>2. p = IF ~Downcasts(wiring[a], f) THEN <<>>
          ELSE IF a = SinkAt THEN <<f>> ELSE Process(wiring[a], f)
  <2>1. <<f>> # <<>> /\ <<f>>[1] = f
    OBVIOUS
  <2> QED
    BY <2>1 DEF Passed, SinkAt
<1>3. f # Stop
  <2>1. ASSUME Downcasts(wiring[a], f) PROVE f # Stop
    BY <2>1 DEF Downcasts, InputType, Unit, Stop
  <2> QED
    BY <2>1 DEF HandleElement, Mismatch, HandleSink
<1>4. consumed \in FrameSeqs
  <2>1. PICK c \in [Actors -> Nat], t \in [Actors -> Nat] : Accounted(c, t)
    BY DEF Flowing
  <2>2. SinkAt \in Actors /\ SinkAt \in 0..Len(wiring) /\ Wired(wiring)
    BY DEF Flowing, Wired, Actors, SinkAt
  <2>3. Piles(Up(wiring, SinkAt), At(wiring, SinkAt)) /\ t[SinkAt] \in Nat
    BY <2>2, UpPiles
  <2> QED
    BY <2>1, <2>3 DEF Accounted, Piles
<1>5. /\ a # SinkAt => out' = [out EXCEPT ![a] = p] /\ consumed' = consumed
      /\ a = SinkAt => out' = out /\ consumed' = consumed \o p
  <2>1. CASE HandleElement(a)
    BY <1>2, <2>1 DEF HandleElement
  <2>2. CASE Mismatch(a)
    <3>1. p = <<>> /\ out' = out /\ consumed' = consumed
      BY <1>2, <2>2 DEF Mismatch
    <3>2. consumed \o <<>> = consumed
      BY <1>4, JoinEmpty DEF Join
    <3>3. out = [out EXCEPT ![a] = <<>>]
      BY <1>1 DEF Flowing
    <3> QED
      BY <3>1, <3>2, <3>3
  <2>3. CASE a = SinkAt /\ HandleSink
    <3>1. p = <<f>> /\ out' = out /\ consumed' = Append(consumed, f)
      BY <1>2, <2>3 DEF HandleSink
    <3>2. f \in Messages
      BY <1>1, HeadTailProperties DEF Flowing
    <3>3. f \in Frames
      BY <1>3, <3>2 DEF Messages
    <3> HIDE DEF f
    <3>4. Append(consumed, f) = consumed \o <<f>>
      BY <1>4, <3>3, JoinOne DEF Join
    <3> QED
      BY <2>3, <3>1, <3>4
  <2> QED
    BY <2>1, <2>2, <2>3
<1> HIDE DEF p
<1>6. p = Passed(wiring, a, <<Head(box[a])>>) /\ Head(box[a]) # Stop
  BY <1>3 DEF p
<1> QED
  BY <1>1, <1>5, <1>6, TakeKeeps

\* An actor that takes its Stop had taken all that was before it.
LEMMA EndKeeps ==
  ASSUME Flowing, NEW a \in Actors, End(a)
  PROVE  Flowing'
<1>1. PICK c \in [Actors -> Nat], t \in [Actors -> Nat] : Accounted(c, t)
  BY DEF Flowing
<1>2. /\ stops \in 0..SinkAt /\ SinkAt \in Nat \ {0} /\ Actors = 1..SinkAt
      /\ box \in [Actors -> Seq(Messages)] /\ ended \subseteq 1..stops
  BY DEF Flowing, Wired, Actors, SinkAt
<1>3. /\ a \notin ended /\ box[a] # <<>> /\ Head(box[a]) = Stop
      /\ ended' = ended \cup {a} /\ box' = [box EXCEPT ![a] = <<>>]
      /\ UNCHANGED <<main, wiring, sent, stops, out, consumed>>
  BY DEF End, Take, Runs
<1>4. a \in 1..stops
  <2>1. SUFFICES ASSUME stops < a PROVE FALSE
    BY <1>2
  <2>2. PICK live \in FrameSeqs : Ahead(a, live)
    BY <1>1, <1>2, <1>3, <2>1 DEF Accounted
  <2>3. box[a] \in FrameSeqs
    BY <2>1, <2>2 DEF Ahead
  <2> QED
    BY <1>3, <2>3, FirstAndRest, FramesDoNotStop
<1>5. SinkAt' = SinkAt /\ Actors' = Actors /\ box' \in [Actors -> Seq(Messages)]
  <2>1. <<>> \in Seq(Messages)
    OBVIOUS
  <2> QED
    BY <1>2, <1>3, <2>1 DEF SinkAt, Actors
<1>6. \A s : \A b \in Actors \ ended' : Ahead(b, s) => Ahead(b, s)'
  BY <1>2, <1>3 DEF Ahead, Before
<1>7. Accounted(c, t)'
  <2>1. ASSUME NEW b \in Actors \ ended', stops <= b
        PROVE  \E l \in FrameSeqs :
                 /\ Ahead(b, l)'
                 /\ Up(wiring, b - 1)[c[b]] = Join(Up(wiring, b - 1)[t[b]], l)
    <3>1. PICK l \in FrameSeqs :
            Ahead(b, l) /\ Up(wiring, b - 1)[c[b]] = Join(Up(wiring, b - 1)[t[b]], l)
      BY <1>1, <1>3, <2>1 DEF Accounted
    <3> QED
      BY <1>6, <3>1
  <2> QED
    BY <1>1, <1>3, <1>5, <2>1 DEF Accounted
<1>8. wiring' = wiring /\ Wired(wiring)'
  BY <1>3 DEF Flowing
<1> QED
  BY <1>2, <1>3, <1>4, <1>5, <1>7, <1>8 DEF Flowing

\* A message more in the mailbox of an actor.
LEMMA PutFlows ==
  ASSUME Flowing, NEW a \in Actors, NEW m \in Messages, Put(a, m), stops' = stops
  PROVE  /\ box' \in [Actors -> Seq(Messages)]
         /\ \A b \in Actors, l \in FrameSeqs :
              (b # a \/ b <= stops) /\ Ahead(b, l) => Ahead(b, l)'
         /\ a > stops => \A l \in FrameSeqs : Ahead(a, l) => Ahead(a, Append(l, m))'
<1>1. /\ box \in [Actors -> Seq(Messages)] /\ box' = [box EXCEPT ![a] = Append(box[a], m)]
      /\ stops \in Nat /\ Actors \subseteq Nat
  BY DEF Flowing, Put, Actors, SinkAt, Wired
<1>2. box' \in [Actors -> Seq(Messages)]
  <2>1. box[a] \in Seq(Messages)
    BY <1>1
  <2>2. Append(box[a], m) \in Seq(Messages)
    BY <2>1, AppendProperties
  <2> QED
    BY <1>1, <2>2
<1>3. ASSUME NEW b \in Actors, NEW l \in FrameSeqs, b # a \/ b <= stops, Ahead(b, l)
      PROVE  Ahead(b, l)'
  <2>1. CASE b # a
    BY <1>1, <1>3, <2>1 DEF Ahead, Before
  <2>2. CASE b = a /\ b <= stops
    <3>1. Before(box[a], l) /\ box[a] \in Seq(Messages)
      BY <1>1, <1>3, <2>2 DEF Ahead
    <3>2. Before(Append(box[a], m), l) /\ box'[a] = Append(box[a], m)
      BY <1>1, <3>1, BeforeMore
    <3>3. ~(b > stops') /\ Before(box'[b], l)
      BY <1>1, <2>2, <3>2
    <3> QED
      BY <3>3 DEF Ahead, Before
  <2> QED
    BY <1>3, <2>1, <2>2
<1>4. ASSUME a > stops, NEW l \in FrameSeqs, Ahead(a, l) PROVE Ahead(a, Append(l, m))'
  BY <1>1, <1>4 DEF Ahead
<1> QED
  BY <1>2, <1>3, <1>4

\* A frame that is forwarded comes to the next actor in its turn.  If that one
\* has ended, its Stop has been sent, and it counts no more.
LEMMA ForwardKeeps ==
  ASSUME Flowing, NEW a \in Actors, Forward(a)
  PROVE  Flowing'
<1>1. PICK c \in [Actors -> Nat], t \in [Actors -> Nat] : Accounted(c, t)
  BY DEF Flowing
<1>2. /\ Wired(wiring) /\ stops \in 0..SinkAt /\ SinkAt \in Nat \ {0} /\ Actors = 1..SinkAt
      /\ box \in [Actors -> Seq(Messages)] /\ out \in [Actors -> OneOf(Frames)]
      /\ ended \subseteq 1..stops /\ SinkAt = Len(wiring) /\ out[SinkAt] = <<>>
  BY DEF Flowing, Wired, Actors, SinkAt
<1>3. /\ out[a] # <<>> /\ out' = [out EXCEPT ![a] = <<>>]
      /\ IF a + 1 \in ended THEN box' = box ELSE Put(a + 1, out[a][1])
      /\ UNCHANGED <<main, wiring, sent, stops, ended, consumed>>
  BY DEF Forward
<1>4. a # SinkAt /\ a + 1 \in Actors
  BY <1>2, <1>3
<1>5. PICK g \in Frames : out[a] = <<g>> /\ out[a][1] = g
  <2>1. out[a] \in OneOf(Frames)
    BY <1>2
  <2> QED
    BY <1>3, <2>1, OnesAreSeqs
<1>6. /\ SinkAt' = SinkAt /\ Actors' = Actors /\ wiring' = wiring /\ Wired(wiring)'
      /\ out' \in [Actors -> OneOf(Frames)] /\ out'[SinkAt] = <<>>
      /\ \A b \in Actors : b # a => out'[b] = out[b]
      /\ out'[a] = <<>>
  <2>1. <<>> \in OneOf(Frames)
    BY DEF OneOf
  <2>2. out' \in [Actors -> OneOf(Frames)] /\ out'[SinkAt] = <<>>
        /\ out'[a] = <<>> /\ \A b \in Actors : b # a => out'[b] = out[b]
    BY <1>2, <1>3, <2>1
  <2> QED
    BY <1>2, <1>3, <2>2 DEF SinkAt, Actors
<1>7. /\ box' \in [Actors -> Seq(Messages)]
      /\ \A b \in Actors, l \in FrameSeqs :
           (b # a + 1 \/ b <= stops) /\ Ahead(b, l) => Ahead(b, l)'
      /\ a + 1 > stops => \A l \in FrameSeqs : Ahead(a + 1, l) => Ahead(a + 1, Append(l, g))'
  <2>1. CASE a + 1 \in ended
    <3>1. box' = box /\ a + 1 <= stops
      BY <1>2, <1>3, <2>1
    <3>2. ~(a + 1 > stops)
      BY <1>2, <2>1
    <3> QED
      BY <1>2, <1>3, <3>1, <3>2 DEF Ahead, Before
  <2>2. CASE a + 1 \notin ended
    <3>1. Put(a + 1, g) /\ stops' = stops
      BY <1>3, <1>5, <2>2
    <3> DEFINE n == a + 1
    <3>2. n \in Actors /\ Put(n, g)
      BY <1>4, <3>1
    <3> HIDE DEF n
    <3>3. /\ box' \in [Actors -> Seq(Messages)]
          /\ \A b \in Actors, l \in FrameSeqs :
               (b # n \/ b <= stops) /\ Ahead(b, l) => Ahead(b, l)'
          /\ n > stops => \A l \in FrameSeqs : Ahead(n, l) => Ahead(n, Append(l, g))'
      <4>1. g \in Messages
        BY DEF Messages
      <4> QED
        BY <3>1, <3>2, <4>1, PutFlows
    <3> QED
      BY <3>3 DEF n
  <2> QED
    BY <2>1, <2>2
<1>8. SUFFICES \E d, u \in [Actors -> Nat] : Accounted(d, u)'
  BY <1>2, <1>3, <1>6, <1>7 DEF Flowing
<1>9. CASE a < stops
  <2>1. ASSUME NEW b \in Actors \ ended, stops <= b
        PROVE  \E l \in FrameSeqs :
                 /\ Ahead(b, l)'
                 /\ Up(wiring, b - 1)[c[b]] = Join(Up(wiring, b - 1)[t[b]], l)
    <3>1. PICK l \in FrameSeqs :
            Ahead(b, l) /\ Up(wiring, b - 1)[c[b]] = Join(Up(wiring, b - 1)[t[b]], l)
      BY <1>1, <2>1 DEF Accounted
    <3>2. b # a + 1 \/ b <= stops
      BY <1>2, <1>9, <2>1
    <3> QED
      BY <1>7, <3>1, <3>2
  <2>2. \A b \in Actors : stops <= b => b # a
    BY <1>2, <1>9
  <2>3. Accounted(c, t)'
    BY <1>1, <1>3, <1>6, <2>1, <2>2 DEF Accounted
  <2> QED
    BY <2>3
<1>10. CASE stops <= a
  <2> DEFINE n == a + 1
             V == Up(wiring, a)
             d == [c EXCEPT ![n] = t[a]]
  <2>1. /\ n \in Actors /\ n - 1 = a /\ n > stops /\ stops <= n /\ n \notin ended /\ n # a
        /\ n # 1
    BY <1>2, <1>4, <1>10
  <2>2. /\ c[n] <= t[a] /\ V[t[a]] = Join(V[c[n]], <<g>>) /\ t[a] <= c[a] /\ c[a] <= sent
        /\ t[n] <= c[n]
    BY <1>1, <1>4, <1>5, <1>10, <2>1 DEF Accounted
  <2>3. PICK live \in FrameSeqs : Ahead(n, live) /\ V[c[n]] = Join(V[t[n]], live)
    <3>1. \E live \in FrameSeqs :
            Ahead(n, live) /\ Up(wiring, n - 1)[c[n]] = Join(Up(wiring, n - 1)[t[n]], live)
      BY <1>1, <2>1 DEF Accounted
    <3> QED
      BY <2>1, <3>1
  <2>4. Ahead(n, Append(live, g))'
    BY <1>7, <2>1, <2>3
  <2>5. t[a] \in Nat /\ t[n] \in Nat /\ c[n] \in Nat /\ c[a] \in Nat /\ sent \in Nat
    BY <2>1 DEF Flowing
  <2>6. Piles(V, At(wiring, a))
    <3>1. a \in 0..Len(wiring)
      BY <1>2
    <3> QED
      BY <1>2, <3>1, UpPiles
  <2>7. d \in [Actors -> Nat] /\ d[n] = t[a] /\ \A b \in Actors : b # n => d[b] = c[b]
    BY <2>1, <2>5
  <2> HIDE DEF n, d, V
  <2>8. V[t[n]] \in FrameSeqs /\ V[t[a]] \in FrameSeqs
    BY <2>5, <2>6 DEF Piles
  <2>9. /\ Append(live, g) \in FrameSeqs /\ V[d[n]] = Join(V[t[n]], Append(live, g))
    <3>1. <<g>> \in FrameSeqs /\ Append(live, g) = Join(live, <<g>>)
      BY <1>5, JoinOne
    <3>2. Join(Join(V[t[n]], live), <<g>>) = Join(V[t[n]], Join(live, <<g>>))
      BY <2>8, <3>1, JoinAssociative
    <3>3. Join(live, <<g>>) \in FrameSeqs
      BY <3>1, JoinTyped
    <3> QED
      BY <2>2, <2>3, <2>7, <3>1, <3>2, <3>3
  <2>10. \A b \in Actors : t[b] <= d[b] /\ d[b] <= sent
    BY <1>1, <2>2, <2>5, <2>7 DEF Accounted
  <2>11. ASSUME NEW b \in Actors, b # SinkAt, stops <= b
         PROVE  /\ d[b + 1] <= t[b]
                /\ Up(wiring, b)[t[b]] = Join(Up(wiring, b)[d[b + 1]], out'[b])
    <3>1. b + 1 \in Actors
      BY <1>2, <2>11
    <3>2. CASE b = a
      <4>1. b + 1 = n /\ V[t[a]] = Join(V[t[a]], <<>>)
        BY <2>8, <3>2, JoinEmpty DEF n
      <4> QED
        BY <1>6, <2>5, <2>7, <3>2, <4>1 DEF V
    <3>3. CASE b # a
      <4>1. d[b + 1] = c[b + 1] /\ out'[b] = out[b]
        <5>1. b + 1 # n
          BY <1>2, <2>11, <3>3 DEF n
        <5> QED
          BY <1>6, <2>7, <3>1, <3>3, <5>1
      <4> QED
        BY <1>1, <2>11, <4>1 DEF Accounted
    <3> QED
      BY <3>2, <3>3
  <2>12. ASSUME NEW b \in Actors \ ended, stops <= b
         PROVE  \E l \in FrameSeqs :
                  /\ Ahead(b, l)'
                  /\ Up(wiring, b - 1)[d[b]] = Join(Up(wiring, b - 1)[t[b]], l)
    <3>1. CASE b = n
      <4>1. Up(wiring, b - 1) = V
        BY <2>1, <3>1 DEF V
      <4> QED
        BY <2>4, <2>9, <3>1, <4>1
    <3>2. CASE b # n
      <4>1. PICK l \in FrameSeqs :
              Ahead(b, l) /\ Up(wiring, b - 1)[c[b]] = Join(Up(wiring, b - 1)[t[b]], l)
        BY <1>1, <2>12 DEF Accounted
      <4> QED
        BY <1>7, <2>7, <3>2, <4>1 DEF n
    <3> QED
      BY <3>1, <3>2
  <2>13. stops = 0 => d[1] = sent
    <3>1. 1 \in Actors
      BY <1>2
    <3> QED
      BY <1>1, <2>1, <2>7, <3>1 DEF Accounted
  <2>14. Accounted(d, t)'
    BY <1>1, <1>3, <1>6, <2>10, <2>11, <2>12, <2>13 DEF Accounted
  <2> QED
    BY <2>7, <2>14
<1>11. a < stops \/ stops <= a
  BY <1>2
<1> QED
  BY <1>9, <1>10, <1>11

\* main sends the next frame.
LEMMA SendFlows ==
  ASSUME Flowing, SendFrame
  PROVE  Flowing'
<1>1. PICK c \in [Actors -> Nat], t \in [Actors -> Nat] : Accounted(c, t)
  BY DEF Flowing
<1>2. /\ Wired(wiring) /\ stops = 0 /\ SinkAt \in Nat \ {0} /\ Actors = 1..SinkAt
      /\ sent \in Nat /\ 1 \in Actors /\ main = "sending"
      /\ SinkAt' = SinkAt /\ Actors' = Actors
  BY DEF Flowing, Wired, Actors, SinkAt, SendFrame
<1>3. /\ Put(1, Frame(sent + 1)) /\ sent' = sent + 1
      /\ UNCHANGED <<main, wiring, stops, out, ended, consumed>>
  BY DEF SendFrame
<1>4. PICK n \in Nat : n = sent + 1
  BY <1>2
<1> DEFINE f == Frame(n)
           U == Up(wiring, 0)
           d == [c EXCEPT ![1] = n]
<1>5. f \in Frames /\ f \in Messages
  BY FrameIsOne DEF Messages
<1>6. /\ box' \in [Actors -> Seq(Messages)]
      /\ \A b \in Actors, l \in FrameSeqs :
           (b # 1 \/ b <= stops) /\ Ahead(b, l) => Ahead(b, l)'
      /\ 1 > stops => \A l \in FrameSeqs : Ahead(1, l) => Ahead(1, Append(l, f))'
  <2>1. Put(1, f) /\ stops' = stops
    BY <1>3, <1>4
  <2> HIDE DEF f
  <2> DEFINE one == 1
  <2>2. one \in Actors /\ Put(one, f)
    BY <1>2, <2>1
  <2> HIDE DEF one
  <2>3. /\ box' \in [Actors -> Seq(Messages)]
        /\ \A b \in Actors, l \in FrameSeqs :
             (b # one \/ b <= stops) /\ Ahead(b, l) => Ahead(b, l)'
        /\ one > stops => \A l \in FrameSeqs : Ahead(one, l) => Ahead(one, Append(l, f))'
    BY <1>5, <2>1, <2>2, PutFlows
  <2> QED
    BY <2>3 DEF one
<1>7. /\ d \in [Actors -> Nat] /\ d[1] = n /\ \A b \in Actors : b # 1 => d[b] = c[b]
  BY <1>2
<1> HIDE DEF d, f
<1>8. c[1] = sent /\ t[1] <= c[1] /\ t[1] \in Nat
  BY <1>1, <1>2 DEF Accounted
<1>9. PICK live \in FrameSeqs : Ahead(1, live) /\ U[c[1]] = Join(U[t[1]], live)
  <2>1. 1 \in Actors \ ended /\ stops <= 1 /\ 1 - 1 = 0
    BY <1>2 DEF Flowing
  <2> QED
    BY <1>1, <2>1 DEF Accounted
<1>10. Append(live, f) \in FrameSeqs /\ U[n] = Join(U[t[1]], Append(live, f))
  <2>1. 0 \in 0..Len(wiring)
    BY <1>2 DEF SinkAt
  <2>2. Piles(U, At(wiring, 0))
    BY <1>2, <2>1, UpPiles
  <2>3. At(wiring, 0)[n] = <<f>>
    BY <1>2, AtSteps DEF f
  <2> HIDE DEF U
  <2>4. U[n] = Join(U[sent], <<f>>) /\ U[t[1]] \in FrameSeqs
    BY <1>2, <1>4, <1>8, <2>2, <2>3 DEF Piles
  <2>5. <<f>> \in FrameSeqs /\ Append(live, f) = Join(live, <<f>>)
    BY <1>5, JoinOne
  <2>6. Join(Join(U[t[1]], live), <<f>>) = Join(U[t[1]], Join(live, <<f>>))
    BY <2>4, <2>5, JoinAssociative
  <2>7. Join(live, <<f>>) \in FrameSeqs
    BY <2>5, JoinTyped
  <2> QED
    BY <1>8, <1>9, <2>4, <2>5, <2>6, <2>7
<1>11. Accounted(d, t)'
  <2>1. \A b \in Actors : t[b] <= d[b] /\ d[b] <= sent'
    <3>1. ASSUME NEW b \in Actors PROVE t[b] <= d[b] /\ d[b] <= sent'
      <4>1. t[b] <= c[b] /\ c[b] <= sent /\ t[b] \in Nat /\ c[b] \in Nat
        BY <1>1 DEF Accounted
      <4>2. d[b] = n \/ d[b] = c[b]
        BY <1>7
      <4> QED
        BY <1>2, <1>3, <1>4, <4>1, <4>2
    <3> QED
      BY <3>1
  <2>2. ASSUME NEW b \in Actors, b # SinkAt, stops <= b
        PROVE  /\ d[b + 1] <= t[b]
               /\ Up(wiring, b)[t[b]] = Join(Up(wiring, b)[d[b + 1]], out[b])
    <3>1. b + 1 \in Actors /\ b + 1 # 1
      BY <1>2, <2>2
    <3>2. d[b + 1] = c[b + 1]
      BY <1>7, <3>1
    <3> QED
      BY <1>1, <2>2, <3>2 DEF Accounted
  <2>3. ASSUME NEW b \in Actors \ ended, stops <= b
        PROVE  \E l \in FrameSeqs :
                 /\ Ahead(b, l)'
                 /\ Up(wiring, b - 1)[d[b]] = Join(Up(wiring, b - 1)[t[b]], l)
    <3>1. CASE b = 1
      <4>1. Ahead(1, Append(live, f))'
        BY <1>2, <1>6, <1>9
      <4>2. Up(wiring, b - 1) = U /\ d[b] = n /\ t[b] = t[1]
        BY <1>7, <3>1
      <4> HIDE DEF U
      <4> QED
        BY <1>10, <3>1, <4>1, <4>2
    <3>2. CASE b # 1
      <4>1. PICK l \in FrameSeqs :
              Ahead(b, l) /\ Up(wiring, b - 1)[c[b]] = Join(Up(wiring, b - 1)[t[b]], l)
        BY <1>1, <2>3 DEF Accounted
      <4> QED
        BY <1>6, <1>7, <3>2, <4>1
    <3> QED
      BY <3>1, <3>2
  <2> QED
    BY <1>1, <1>2, <1>3, <1>4, <1>7, <2>1, <2>2, <2>3 DEF Accounted
<1>12. wiring' = wiring /\ Wired(wiring)' /\ n \in Nat
  BY <1>2, <1>3
<1> QED
  BY <1>2, <1>3, <1>4, <1>6, <1>7, <1>11, <1>12 DEF Flowing

\* main sends the next Stop: what is in that mailbox is all that its actor
\* will take.
LEMMA StopFlows ==
  ASSUME Flowing, SendStop, stops \in Nat
  PROVE  Flowing'
<1>1. PICK c \in [Actors -> Nat], t \in [Actors -> Nat] : Accounted(c, t)
  BY DEF Flowing
<1>2. PICK s \in Actors : s = stops + 1
  BY DEF Flowing, Wired, Actors, SinkAt, SendStop
<1>3. /\ Wired(wiring) /\ stops \in 0..SinkAt /\ SinkAt \in Nat \ {0} /\ Actors = 1..SinkAt
      /\ box \in [Actors -> Seq(Messages)] /\ ended \subseteq 1..stops
      /\ SinkAt' = SinkAt /\ Actors' = Actors /\ wiring' = wiring
  BY DEF Flowing, Wired, Actors, SinkAt, SendStop
<1>4. /\ box' = [box EXCEPT ![s] = Append(box[s], Stop)] /\ stops' = s
      /\ UNCHANGED <<main, wiring, sent, out, ended, consumed>> /\ main # "sending"
  BY <1>2 DEF SendStop, Put
<1>5. box' \in [Actors -> Seq(Messages)]
  <2>1. box[s] \in Seq(Messages) /\ Stop \in Messages
    BY <1>3 DEF Messages
  <2>2. Append(box[s], Stop) \in Seq(Messages)
    BY <2>1, AppendProperties
  <2> QED
    BY <1>3, <1>4, <2>2
<1>6. ASSUME NEW b \in Actors \ ended, s <= b, NEW l \in FrameSeqs, Ahead(b, l)
      PROVE  Ahead(b, l)'
  <2>1. box[b] = l
    BY <1>2, <1>3, <1>6 DEF Ahead
  <2>2. CASE b = s
    <3>1. box'[b] = Append(l, Stop)
      BY <1>3, <1>4, <2>1, <2>2
    <3>2. Before(Append(l, Stop), l)
      <4>1. Stop \in Messages /\ l \in Seq(Messages)
        BY DEF Messages, FrameSeqs
      <4> QED
        BY <4>1, BeforeMore
    <3>3. Before(box'[b], l)
      BY <3>1, <3>2
    <3>4. ~(b > stops')
      <4>1. stops' = s /\ s \in Nat
        BY <1>3, <1>4
      <4> QED
        BY <2>2, <4>1
    <3> QED
      BY <3>3, <3>4 DEF Ahead, Before
  <2>3. CASE b # s
    <3>1. box'[b] = l /\ b > stops'
      BY <1>3, <1>4, <1>6, <2>1, <2>3
    <3> QED
      BY <3>1 DEF Ahead
  <2> QED
    BY <2>2, <2>3
<1>7. \A b \in Actors : s <= b => stops <= b
  BY <1>2, <1>3
<1>8. Accounted(c, t)'
  <2>1. ASSUME NEW b \in Actors \ ended, s <= b
        PROVE  \E l \in FrameSeqs :
                 /\ Ahead(b, l)'
                 /\ Up(wiring, b - 1)[c[b]] = Join(Up(wiring, b - 1)[t[b]], l)
    <3>1. PICK l \in FrameSeqs :
            Ahead(b, l) /\ Up(wiring, b - 1)[c[b]] = Join(Up(wiring, b - 1)[t[b]], l)
      BY <1>1, <1>7, <2>1 DEF Accounted
    <3> QED
      BY <1>6, <2>1, <3>1
  <2>2. stops' # 0
    BY <1>3, <1>4
  <2>3. \A b \in Actors : t[b] <= c[b] /\ c[b] <= sent
    BY <1>1 DEF Accounted
  <2>4. ASSUME NEW b \in Actors, b # SinkAt, s <= b
        PROVE  /\ c[b + 1] <= t[b]
               /\ Up(wiring, b)[t[b]] = Join(Up(wiring, b)[c[b + 1]], out[b])
    BY <1>1, <1>7, <2>4 DEF Accounted
  <2>5. consumed = Up(wiring, SinkAt)[t[SinkAt]]
    BY <1>1 DEF Accounted
  <2> QED
    BY <1>3, <1>4, <2>1, <2>2, <2>3, <2>4, <2>5 DEF Accounted
<1>9. ended' \subseteq 1..stops' /\ stops' \in 0..SinkAt'
  BY <1>2, <1>3, <1>4
<1> QED
  BY <1>3, <1>4, <1>5, <1>8, <1>9 DEF Flowing

-----------------------------------------------------------------------------
\* The start: no frame is on its way.
LEMMA SpawnFlows ==
  ASSUME NEW w, Wired(w), Spawn(w), sent = 0, stops = 0, ended = {}, consumed = <<>>
  PROVE  Flowing'
<1>1. /\ wiring' = w /\ main' = "sending" /\ sent' = 0 /\ stops' = 0 /\ ended' = {}
      /\ consumed' = <<>>
      /\ box' = [a \in 1..Len(w) |-> <<>>] /\ out' = [a \in 1..Len(w) |-> <<>>]
  BY DEF Spawn
<1> DEFINE z == [a \in 1..Len(w) |-> 0]
<1>2. SinkAt' = Len(w) /\ Actors' = 1..Len(w) /\ Len(w) \in Nat \ {0} /\ Wired(wiring)'
  BY <1>1 DEF SinkAt, Actors, Wired
<1>3. /\ box' \in [1..Len(w) -> Seq(Messages)] /\ out' \in [1..Len(w) -> OneOf(Frames)]
      /\ out'[Len(w)] = <<>> /\ z \in [1..Len(w) -> Nat] /\ \A b \in 1..Len(w) : z[b] = 0
  BY <1>1, <1>2 DEF OneOf
<1>4. ASSUME NEW a \in 0..Len(w) PROVE Up(w, a)[0] = <<>> /\ <<>> = Join(<<>>, <<>>)
  BY UpPiles, JoinEmpty DEF Piles
<1>5. ASSUME NEW b \in 1..Len(w) PROVE Ahead(b, <<>>)'
  <2>1. b > stops' /\ box'[b] = <<>>
    BY <1>1
  <2> QED
    BY <2>1 DEF Ahead
<1>6. /\ \A b \in 1..Len(w) : b - 1 \in 0..Len(w) /\ b \in 0..Len(w)
      /\ \A b \in 1..Len(w) : b # Len(w) => b + 1 \in 1..Len(w)
      /\ Len(w) \in 1..Len(w)
  BY <1>2
<1> HIDE DEF z
<1>7. Accounted(z, z)'
  <2>1. \A b \in 1..Len(w) : z[b] <= z[b] /\ z[b] <= sent'
    BY <1>1, <1>3
  <2>2. z[1] = sent'
    BY <1>1, <1>2, <1>3
  <2>3. ASSUME NEW b \in 1..Len(w), b # Len(w)
        PROVE  /\ z[b + 1] <= z[b]
               /\ Up(w, b)[z[b]] = Join(Up(w, b)[z[b + 1]], out'[b])
    <3>1. z[b + 1] = 0 /\ z[b] = 0 /\ out'[b] = <<>>
      BY <1>1, <1>3, <1>6, <2>3
    <3>2. Up(w, b)[0] = <<>> /\ <<>> = Join(<<>>, <<>>)
      BY <1>4, <1>6
    <3> QED
      BY <3>1, <3>2
  <2>4. ASSUME NEW b \in 1..Len(w)
        PROVE  \E l \in FrameSeqs :
                 /\ Ahead(b, l)'
                 /\ Up(w, b - 1)[z[b]] = Join(Up(w, b - 1)[z[b]], l)
    <3>1. z[b] = 0 /\ Up(w, b - 1)[0] = <<>> /\ <<>> = Join(<<>>, <<>>)
      BY <1>3, <1>4, <1>6
    <3>2. <<>> \in FrameSeqs
      BY JoinEmpty
    <3> QED
      BY <1>5, <3>1, <3>2
  <2>5. consumed' = Up(w, Len(w))[z[Len(w)]]
    <3>1. Up(w, Len(w))[0] = <<>> /\ z[Len(w)] = 0
      BY <1>3, <1>4, <1>6
    <3> QED
      BY <1>1, <3>1
  <2> QED
    BY <1>1, <1>2, <2>1, <2>2, <2>3, <2>4, <2>5 DEF Accounted
<1> QED
  BY <1>1, <1>2, <1>3, <1>7 DEF Flowing

\* What the builder has accepted is wired.
LEMMA BuiltWired == ASSUME BuilderTyped, Built # <<>> PROVE Wired(Built)
<1>1. /\ Built \in Seq(Sources \cup Transforms \cup Sinks)
      /\ \A i \in 1..(Len(Built) - 1) : Built[i] \in Transforms
  BY BuiltChain
<1> QED
  BY <1>1 DEF Wired

\* So is what the program wires by hand.
LEMMA ByHandWired == ASSUME NEW w \in ByHand PROVE Wired(w)
<1>1. /\ w \in Seq(Transforms \cup Sinks) /\ Len(w) > 0
      /\ \A i \in 1..(Len(w) - 1) : w[i] \in Transforms
  BY ByHandAssumption
<1>2. w \in Seq(Sources \cup Transforms \cup Sinks)
  BY <1>1
<1> QED
  BY <1>1, <1>2 DEF Wired

\* Nothing happens to the frames while main and the builder go on.
LEMMA FlowStays ==
  ASSUME Flowing, UNCHANGED <<wiring, sent, stops, box, out, ended, consumed>>,
         main' = "sending" => main = "sending"
  PROVE  Flowing'
<1>1. SinkAt' = SinkAt /\ Actors' = Actors
  BY DEF SinkAt, Actors
<1>2. \A a, l : Ahead(a, l)' <=> Ahead(a, l)
  BY DEF Ahead, Before
<1>3. ASSUME NEW c \in [Actors -> Nat], NEW t \in [Actors -> Nat], Accounted(c, t)
      PROVE  Accounted(c, t)'
  BY <1>1, <1>2, <1>3 DEF Accounted
<1> QED
  BY <1>1, <1>3 DEF Flowing

\* Before they run there is nothing to account for.
FlowInv ==
  /\ main = "building" => /\ wiring = <<>> /\ sent = 0 /\ stops = 0 /\ ended = {}
                          /\ consumed = <<>>
  /\ main # "building" => Flowing

\* It holds at the start,
LEMMA InitFlowInv == Init => FlowInv
BY DEF Init, FlowInv

\* and each step of main, of the builder and of the actors keeps it.
LEMMA StepFlowInv == IInv /\ FlowInv /\ [Next]_vars => FlowInv'
<1> SUFFICES ASSUME IInv, FlowInv, [Next]_vars PROVE FlowInv'
  OBVIOUS
<1>1. CASE Building
  BY <1>1 DEF Building, chainVars, FlowInv
<1>2. CASE SpawnByHand
  <2>1. PICK w : Wired(w) /\ Spawn(w)
    <3>1. PICK w \in ToWire : Spawn(w)
      BY <1>2 DEF SpawnByHand
    <3>2. w \in ByHand \/ (w = Built /\ Built # <<>>)
      BY DEF ToWire
    <3> QED
      BY <3>1, <3>2, BuiltWired, ByHandWired DEF IInv
  <2>2. main = "building" /\ main' = "sending"
    BY <2>1 DEF Spawn
  <2>3. Flowing'
    BY <2>1, <2>2, SpawnFlows DEF FlowInv
  <2> QED
    BY <2>2, <2>3 DEF FlowInv
<1>3. ASSUME SendFrame \/ Rested \/ SendStop \/ Return \/ HandleSink
                \/ (\E a \in Actors : HandleElement(a) \/ Mismatch(a) \/ End(a) \/ Forward(a))
      PROVE  FlowInv'
  <2>1. main # "building" /\ main' # "building"
    BY <1>3 DEF SendFrame, Rested, SendStop, Return, HandleSink, HandleElement, Mismatch, End,
                Forward, Take, Runs
  <2>2. Flowing
    BY <2>1 DEF FlowInv
  <2>3. CASE SendFrame
    BY <2>1, <2>2, <2>3, SendFlows DEF FlowInv
  <2>4. CASE Rested \/ Return
    <3>1. /\ UNCHANGED <<wiring, sent, stops, box, out, ended, consumed>>
          /\ main' # "sending"
      BY <2>4 DEF Rested, Return
    <3>2. Flowing'
      BY <2>2, <3>1, FlowStays
    <3> QED
      BY <2>1, <3>2 DEF FlowInv
  <2>5. CASE SendStop
    <3>1. stops \in Nat
      BY DEF IInv
    <3>2. Flowing'
      BY <2>2, <2>5, <3>1, StopFlows
    <3> QED
      BY <2>1, <3>2 DEF FlowInv
  <2>6. CASE HandleSink
    <3>1. SinkAt \in Actors
      BY <2>2 DEF Flowing, Wired, SinkAt, Actors
    <3>2. Flowing'
      BY <2>2, <2>6, <3>1, ActorTakes
    <3> QED
      BY <2>1, <3>2 DEF FlowInv
  <2>7. ASSUME NEW a \in Actors, HandleElement(a) \/ Mismatch(a) \/ End(a) \/ Forward(a)
        PROVE  FlowInv'
    <3>1. Flowing'
      BY <2>2, <2>7, ActorTakes, EndKeeps, ForwardKeeps
    <3> QED
      BY <2>1, <3>1 DEF FlowInv
  <2> QED
    BY <1>3, <2>3, <2>4, <2>5, <2>6, <2>7
<1>4. CASE Quiet \/ UNCHANGED vars
  <2>1. UNCHANGED vars
    BY <1>4 DEF Quiet
  <2>2. UNCHANGED <<main, wiring, sent, stops, box, out, ended, consumed>>
    BY <2>1 DEF vars, chainVars
  <2>3. CASE main = "building"
    BY <2>2, <2>3 DEF FlowInv
  <2>4. CASE main # "building"
    <3>1. Flowing'
      BY <2>2, <2>4, FlowStays DEF FlowInv
    <3> QED
      BY <2>2, <2>4, <3>1 DEF FlowInv
  <2> QED
    BY <2>3, <2>4
<1> QED
  BY <1>1, <1>2, <1>3, <1>4 DEF Next

\* To join is to continue.
LEMMA PrefixOfJoin ==
  ASSUME NEW s \in FrameSeqs, NEW z \in FrameSeqs
  PROVE  IsPrefix(s, Join(s, z))
<1> USE DEF FrameSeqs
<1>1. CASE s = <<>>
  <2>1. Join(s, z) = z
    BY <1>1, JoinEmpty
  <2>2. Len(s) = 0 /\ Len(z) \in Nat /\ SubSeq(s, 1, 0) = SubSeq(z, 1, 0)
    BY <1>1
  <2> QED
    BY <2>1, <2>2 DEF IsPrefix
<1>2. CASE s # <<>>
  <2> DEFINE n == Len(s)
  <2>1. n \in Nat \ {0} /\ Len(z) \in Nat /\ Len(Join(s, z)) = n + Len(z)
    BY <1>2, ConcatProperties DEF Join
  <2>2. SubSeq(Join(s, z), 1, n) = SubSeq(s, 1, n)
    <3>1. 1 \in 1..Len(s) /\ n \in 1..Len(s)
      BY <2>1
    <3> QED
      BY <3>1, SubSeqOfConcat1 DEF Join
  <2> QED
    BY <2>1, <2>2 DEF IsPrefix
<1> QED
  BY <1>1, <1>2

\* Nothing is made of nothing.
LEMMA NoneByHand == Manually(<<>>, 0) = <<>> /\ SameBut(0, <<>>) = <<>>
<1>1. Manually(<<>>, 0) = <<>>
  <2> DEFINE seqs == [i \in 1..0 |-> Through(<<>>, CounterFrames(0, 0)[i])]
  <2>1. Manually(<<>>, 0) = FlattenSeq(seqs)
    BY DEF Manually
  <2>2. seqs = <<>>
    OBVIOUS
  <2> HIDE DEF seqs
  <2>3. Len(seqs) = 0
    BY <2>2
  <2> QED
    BY <2>1, <2>2, <2>3, FlattenIs
<1> QED
  BY <1>1, RenamedOne DEF Renamed

\* What the sink has consumed is what has become of the frames taken by it, and
\* with a name for their stream it begins what the manual execution gives.
LEMMA FlowInOrder == FlowInv => ComputesInOrder
<1> SUFFICES ASSUME FlowInv PROVE ComputesInOrder
  OBVIOUS
<1>1. CASE main = "building"
  <2>1. wiring = <<>> /\ sent = 0 /\ consumed = <<>>
    BY <1>1 DEF FlowInv
  <2>2. IsPrefix(SameBut(0, consumed), Manually(wiring, sent))
    <3>1. Manually(wiring, sent) = <<>> /\ SameBut(0, consumed) = <<>>
      BY <2>1, NoneByHand
    <3>2. <<>> \in FrameSeqs /\ Join(<<>>, <<>>) = <<>>
      BY JoinEmpty
    <3> QED
      BY <3>1, <3>2, PrefixOfJoin
  <2>3. DOMAIN consumed = {}
    BY <2>1
  <2> QED
    BY <2>2, <2>3 DEF ComputesInOrder
<1>2. CASE main # "building"
  <2>1. Flowing
    BY <1>2 DEF FlowInv
  <2>2. PICK c \in [Actors -> Nat], t \in [Actors -> Nat] : Accounted(c, t)
    BY <2>1 DEF Flowing
  <2> DEFINE U == Up(wiring, SinkAt)
             m == t[SinkAt]
  <2>3. /\ Wired(wiring) /\ SinkAt \in Actors /\ SinkAt \in 0..Len(wiring)
        /\ SinkAt = Len(wiring) /\ sent \in Nat
    BY <2>1 DEF Flowing, Wired, Actors, SinkAt
  <2>4. consumed = U[m] /\ m \in Nat /\ m <= sent
    <3>1. m \in Nat /\ c[SinkAt] \in Nat
      BY <2>3
    <3>2. consumed = U[m] /\ m <= c[SinkAt] /\ c[SinkAt] <= sent
      BY <2>2, <2>3 DEF Accounted
    <3> HIDE DEF m
    <3> QED
      BY <2>3, <3>1, <3>2
  <2>5. Piles(U, At(wiring, SinkAt))
    BY <2>3, UpPiles
  <2>6. consumed \in Seq(Kept)
    BY <2>3, <2>4, UpKept
  <2> HIDE DEF U, m
  <2>7. PICK z \in FrameSeqs : U[sent] = Join(U[m], z)
    BY <2>3, <2>4, <2>5, PilesGrow
  <2>8. Manually(wiring, sent) = Renamed(U[sent])
    BY <2>3, ManuallyIs DEF U
  <2>9. Manually(wiring, sent) = Join(Renamed(consumed), Renamed(z))
    <3>1. U[m] \in FrameSeqs
      BY <2>4, <2>5 DEF Piles
    <3> QED
      BY <2>4, <2>7, <2>8, <3>1, RenamedJoin
  <2>10. Renamed(consumed) \in FrameSeqs /\ Renamed(z) \in FrameSeqs
    <3>1. consumed \in FrameSeqs
      BY <2>4, <2>5 DEF Piles
    <3> QED
      BY <3>1, RenamedJoin
  <2>11. IsPrefix(SameBut(0, consumed), Manually(wiring, sent))
    BY <2>9, <2>10, PrefixOfJoin DEF Renamed
  <2>12. \A i \in DOMAIN consumed : consumed[i].stream = consumed[i].id + 1
    BY <2>6 DEF Kept
  <2> QED
    BY <2>11, <2>12 DEF ComputesInOrder
<1> QED
  BY <1>1, <1>2

\* With nobody told to stop and nothing on its way, all that was sent has been
\* taken, from the first actor to the sink.
LEMMA FlowComplete == FlowInv => CompleteWhenIdle
<1> SUFFICES ASSUME Flowing, Idle, stops = 0
             PROVE  SameBut(0, consumed) = Manually(wiring, sent)
  BY DEF FlowInv, CompleteWhenIdle
<1>1. PICK c \in [Actors -> Nat], t \in [Actors -> Nat] : Accounted(c, t)
  BY DEF Flowing
<1>2. /\ Wired(wiring) /\ SinkAt \in Nat \ {0} /\ Actors = 1..SinkAt /\ ended = {}
      /\ SinkAt = Len(wiring) /\ sent \in Nat
  BY DEF Flowing, Wired, Actors, SinkAt
<1>3. c[1] = sent
  BY <1>1 DEF Accounted
<1>4. ASSUME NEW a \in Actors
      PROVE  /\ Up(wiring, a - 1)[c[a]] = Up(wiring, a - 1)[t[a]]
             /\ t[a] \in Nat /\ t[a] <= sent
  <2>1. PICK l \in FrameSeqs :
          Ahead(a, l) /\ Up(wiring, a - 1)[c[a]] = Join(Up(wiring, a - 1)[t[a]], l)
    BY <1>1, <1>2 DEF Accounted
  <2>2. l = <<>>
    BY <1>2, <2>1 DEF Ahead, Idle
  <2>3. t[a] \in Nat /\ c[a] \in Nat /\ t[a] <= c[a] /\ c[a] <= sent
    BY <1>1 DEF Accounted
  <2>4. Up(wiring, a - 1)[t[a]] \in FrameSeqs
    <3>1. a - 1 \in 0..Len(wiring)
      BY <1>2
    <3> QED
      BY <1>2, <2>3, <3>1, UpTyped
  <2> QED
    BY <1>2, <2>1, <2>2, <2>3, <2>4, JoinEmpty
<1> DEFINE Same(i) == Up(wiring, i)[sent] = Up(wiring, i)[t[i + 1]]
           S == {i \in Nat : i + 1 \in Actors => Same(i)}
<1>5. 0 \in S
  <2>1. 1 \in Actors /\ 1 - 1 = 0 /\ 0 + 1 = 1
    BY <1>2
  <2> QED
    BY <1>3, <1>4, <2>1
<1>6. ASSUME NEW i \in Nat, i \in S, (i + 1) + 1 \in Actors PROVE Same(i + 1)
  <2> DEFINE a == i + 1
  <2>1. /\ a \in Actors /\ a \in 1..Len(wiring) /\ a # SinkAt /\ a - 1 = i /\ a + 1 \in Actors
        /\ (a + 1) - 1 = a /\ a \in 0..Len(wiring)
    BY <1>2, <1>6
  <2>2. Up(wiring, a - 1)[sent] = Up(wiring, a - 1)[t[a]]
    BY <1>6, <2>1
  <2> HIDE DEF a
  <2>3. Up(wiring, a)[sent] = Up(wiring, a)[t[a]]
    <3> DEFINE m == t[a]
    <3>1. m \in Nat /\ m <= sent /\ Up(wiring, a - 1)[sent] = Up(wiring, a - 1)[m]
      BY <1>4, <2>1, <2>2
    <3> HIDE DEF m
    <3>2. Up(wiring, a)[sent] = Up(wiring, a)[m]
      BY <1>2, <2>1, <3>1, UpRest
    <3> QED
      BY <3>2 DEF m
  <2>4. Up(wiring, a)[t[a]] = Join(Up(wiring, a)[c[a + 1]], out[a])
    <3>1. stops <= a
      BY <1>2, <2>1
    <3> QED
      BY <1>1, <2>1, <3>1 DEF Accounted
  <2>5. out[a] = <<>> /\ Up(wiring, a)[c[a + 1]] \in FrameSeqs
    <3>1. out[a] = <<>>
      BY <2>1 DEF Idle
    <3>2. c[a + 1] \in Nat
      BY <2>1
    <3> QED
      BY <1>2, <2>1, <3>1, <3>2, UpTyped
  <2>6. Up(wiring, a)[t[a]] = Up(wiring, a)[c[a + 1]]
    BY <2>4, <2>5, JoinEmpty
  <2>7. Up(wiring, a)[c[a + 1]] = Up(wiring, a)[t[a + 1]]
    BY <1>4, <2>1
  <2>8. Same(a)
    BY <2>3, <2>6, <2>7
  <2> QED
    BY <2>8 DEF a
<1>7. Nat \subseteq S
  <2>1. ASSUME NEW i \in Nat, i \in S PROVE i + 1 \in S
    <3>1. (i + 1) + 1 \in Actors => Same(i + 1)
      BY <1>6, <2>1
    <3>2. i + 1 \in Nat
      OBVIOUS
    <3> HIDE DEF Same
    <3> QED
      BY <3>1, <3>2
  <2> HIDE DEF S
  <2> QED
    BY <1>5, <2>1, Induction
<1>8. Up(wiring, SinkAt)[sent] = Up(wiring, SinkAt)[t[SinkAt]]
  <2>1. SinkAt - 1 \in Nat /\ (SinkAt - 1) + 1 = SinkAt /\ SinkAt \in Actors
    BY <1>2
  <2>2. Up(wiring, SinkAt - 1)[sent] = Up(wiring, SinkAt - 1)[t[SinkAt]]
    BY <1>7, <2>1
  <2> DEFINE m == t[SinkAt]
  <2>3. m \in Nat /\ m <= sent /\ Up(wiring, SinkAt - 1)[sent] = Up(wiring, SinkAt - 1)[m]
        /\ SinkAt \in 1..Len(wiring)
    BY <1>2, <1>4, <2>1, <2>2
  <2> HIDE DEF m
  <2>4. Up(wiring, SinkAt)[sent] = Up(wiring, SinkAt)[m]
    BY <1>2, <2>3, UpRest
  <2> QED
    BY <2>4 DEF m
<1>9. consumed = Up(wiring, SinkAt)[sent]
  BY <1>1, <1>8 DEF Accounted
<1> QED
  BY <1>2, <1>9, ManuallyIs DEF Renamed

\* For every wiring, however long, every number of frames and every capacity:
\* what the actors make of the frames sent so far is what the same elements
\* make of them when they are called one after the other
\* (simple_pipeline.rs:290-295), in that order and under the ids and the
\* stream they were sent with; only frames at the end are missing.
THEOREM OrderIsKept == Spec => []ComputesInOrder
<1>1. Init => IInv /\ FlowInv
  BY InitIInv, InitFlowInv
<1>2. IInv /\ FlowInv /\ [Next]_vars => (IInv /\ FlowInv)'
  BY StepIInv, StepFlowInv
<1> QED
  BY <1>1, <1>2, FlowInOrder, PTL DEF Spec

\* And nothing is missing once the actors are idle (simple_pipeline.rs:340),
\* whatever the mailboxes hold and whoever had to wait for room.
THEOREM RestIsEnough == Spec => []CompleteWhenIdle
<1>1. Init => IInv /\ FlowInv
  BY InitIInv, InitFlowInv
<1>2. IInv /\ FlowInv /\ [Next]_vars => (IInv /\ FlowInv)'
  BY StepIInv, StepFlowInv
<1> QED
  BY <1>1, <1>2, FlowComplete, PTL DEF Spec

-----------------------------------------------------------------------------
RelaySpec == RelayInit /\ [][RelayNext]_relayVars

Rising == {s \in Seq(Nat) : \A i, j \in 1..Len(s) : i < j => s[i] < s[j]}

\* Of n messages, those that are past the server, and behind them those that
\* are not.
InTurn(past, before, n) ==
  /\ past \in Rising /\ before \in Rising /\ n \in Nat
  /\ \A x \in Range(past) \cup Range(before) : x <= n
  /\ \A x \in Range(past), y \in Range(before) : x < y

LEMMA RangeOf ==
  ASSUME NEW s \in Rising
  PROVE  Range(s) = {s[i] : i \in 1..Len(s)} /\ Range(s) \subseteq Nat
  BY DEF Range, Rising

LEMMA AddLast ==
  ASSUME NEW s \in Rising, NEW x \in Nat, \A y \in Range(s) : y < x
  PROVE  Append(s, x) \in Rising /\ Range(Append(s, x)) = Range(s) \cup {x}
<1> DEFINE more == Append(s, x)  n == Len(s)
<1>1. /\ more \in Seq(Nat) /\ Len(more) = n + 1 /\ more[n + 1] = x /\ n \in Nat
      /\ \A i \in 1..n : more[i] = s[i]
  BY DEF Rising
<1>2. \A i \in 1..n : s[i] < x /\ s[i] \in Nat
  BY RangeOf DEF Rising
<1>3. \A i, j \in 1..n : i < j => s[i] < s[j]
  BY DEF Rising
<1>4. Range(s) = {s[i] : i \in 1..n}
  BY RangeOf
<1> HIDE DEF more, n
<1>5. \A i, j \in 1..(n + 1) : i < j => more[i] < more[j]
  <2> SUFFICES ASSUME NEW i \in 1..(n + 1), NEW j \in 1..(n + 1), i < j
               PROVE  more[i] < more[j]
    OBVIOUS
  <2>1. i \in 1..n /\ (j \in 1..n \/ j = n + 1)
    BY <1>1
  <2> QED
    BY <1>1, <1>2, <1>3, <2>1
<1>6. more \in Rising
  BY <1>1, <1>5 DEF Rising
<1>7. Range(more) = {more[i] : i \in 1..(n + 1)}
  BY <1>1, <1>6, RangeOf
<1>8. 1..(n + 1) = 1..n \cup {n + 1}
  BY <1>1
<1>9. Range(more) = Range(s) \cup {x}
  BY <1>1, <1>4, <1>7, <1>8
<1> QED
  BY <1>6, <1>9 DEF more

LEMMA TakeFirst ==
  ASSUME NEW s \in Rising, s # <<>>
  PROVE  /\ Tail(s) \in Rising /\ Head(s) \in Nat
         /\ Range(s) = Range(Tail(s)) \cup {Head(s)}
         /\ \A y \in Range(Tail(s)) : Head(s) < y
<1> DEFINE rest == Tail(s)  n == Len(s)
<1>1. /\ rest \in Seq(Nat) /\ Len(rest) = n - 1 /\ n \in Nat /\ n > 0
      /\ Head(s) = s[1] /\ s[1] \in Nat
      /\ \A i \in 1..(n - 1) : rest[i] = s[i + 1]
  BY DEF Rising
<1>2. \A i, j \in 1..n : i < j => s[i] < s[j]
  BY DEF Rising
<1>3. Range(s) = {s[i] : i \in 1..n}
  BY RangeOf
<1> HIDE DEF rest, n
<1>4. \A i, j \in 1..(n - 1) : i < j => rest[i] < rest[j]
  <2> SUFFICES ASSUME NEW i \in 1..(n - 1), NEW j \in 1..(n - 1), i < j
               PROVE  rest[i] < rest[j]
    OBVIOUS
  <2>1. i + 1 \in 1..n /\ j + 1 \in 1..n /\ i + 1 < j + 1
    BY <1>1
  <2> QED
    BY <1>1, <1>2, <2>1
<1>5. rest \in Rising
  BY <1>1, <1>4 DEF Rising
<1>6. Range(rest) = {rest[i] : i \in 1..(n - 1)}
  BY <1>1, <1>5, RangeOf
<1>7. ASSUME NEW y \in Range(rest) PROVE y \in Range(s) /\ s[1] < y
  <2>1. PICK i \in 1..(n - 1) : y = rest[i]
    BY <1>6
  <2>2. i + 1 \in 1..n /\ 1 \in 1..n /\ 1 < i + 1 /\ y = s[i + 1]
    BY <1>1, <2>1
  <2> QED
    BY <1>2, <1>3, <2>2
<1>8. ASSUME NEW y \in Range(s), y # s[1] PROVE y \in Range(rest)
  <2>1. PICK i \in 1..n : y = s[i]
    BY <1>3
  <2>2. i - 1 \in 1..(n - 1) /\ y = rest[i - 1]
    BY <1>1, <1>8, <2>1
  <2> QED
    BY <1>6, <2>2
<1>9. s[1] \in Range(s)
  BY <1>1, <1>3
<1> QED
  BY <1>1, <1>5, <1>7, <1>8, <1>9 DEF rest

LEMMA Sending ==
  ASSUME NEW past, NEW before, NEW n, InTurn(past, before, n)
  PROVE  /\ InTurn(past, Append(before, n + 1), n + 1)
         /\ Range(Append(before, n + 1)) = Range(before) \cup {n + 1}
<1>1. Range(past) \subseteq Nat /\ Range(before) \subseteq Nat /\ n + 1 \in Nat
  BY RangeOf DEF InTurn
<1>2. \A x \in Range(past) \cup Range(before) : x < n + 1 /\ x <= n + 1
  BY <1>1 DEF InTurn
<1>3. /\ Append(before, n + 1) \in Rising
      /\ Range(Append(before, n + 1)) = Range(before) \cup {n + 1}
  BY <1>1, <1>2, AddLast DEF InTurn
<1> QED
  BY <1>1, <1>2, <1>3 DEF InTurn

LEMMA Dropping ==
  ASSUME NEW past, NEW before, NEW n, InTurn(past, before, n), before # <<>>
  PROVE  InTurn(past, Tail(before), n) /\ Range(Tail(before)) \subseteq Range(before)
<1>1. /\ Tail(before) \in Rising
      /\ Range(before) = Range(Tail(before)) \cup {Head(before)}
  BY TakeFirst DEF InTurn
<1> QED
  BY <1>1 DEF InTurn

LEMMA Moving ==
  ASSUME NEW past, NEW before, NEW n, InTurn(past, before, n), before # <<>>
  PROVE  /\ InTurn(Append(past, Head(before)), Tail(before), n)
         /\ Range(Tail(before)) \cup Range(Append(past, Head(before)))
              = Range(before) \cup Range(past)
<1>1. /\ Tail(before) \in Rising /\ Head(before) \in Nat
      /\ Range(before) = Range(Tail(before)) \cup {Head(before)}
      /\ \A y \in Range(Tail(before)) : Head(before) < y
  BY TakeFirst DEF InTurn
<1>2. \A y \in Range(past) : y < Head(before)
  BY <1>1 DEF InTurn
<1>3. /\ Append(past, Head(before)) \in Rising
      /\ Range(Append(past, Head(before))) = Range(past) \cup {Head(before)}
  BY <1>1, <1>2, AddLast DEF InTurn
<1> QED
  BY <1>1, <1>3 DEF InTurn

LEMMA Taking ==
  ASSUME NEW past, NEW before, NEW n, InTurn(past, before, n), past # <<>>
  PROVE  /\ InTurn(Tail(past), before, n)
         /\ Head(past) \in Range(past)
         /\ \A x \in Range(before) \cup Range(past) : Head(past) <= x
         /\ Range(before) \cup Range(Tail(past))
              = (Range(before) \cup Range(past)) \ {Head(past)}
<1>1. /\ Tail(past) \in Rising /\ Head(past) \in Nat
      /\ Range(past) = Range(Tail(past)) \cup {Head(past)}
      /\ \A y \in Range(Tail(past)) : Head(past) < y
  BY TakeFirst DEF InTurn
<1>2. Range(before) \subseteq Nat /\ Range(Tail(past)) \subseteq Nat
  BY <1>1, RangeOf DEF InTurn
<1>3. \A y \in Range(before) \cup Range(Tail(past)) :
        Head(past) < y /\ Head(past) <= y /\ Head(past) # y
  <2>1. Head(past) \in Range(past)
    BY <1>1
  <2>2. \A y \in Range(before) : Head(past) < y
    BY <2>1 DEF InTurn
  <2> QED
    BY <1>1, <1>2, <2>2
<1>4. Head(past) <= Head(past)
  BY <1>1
<1>5. InTurn(Tail(past), before, n)
  BY <1>1 DEF InTurn
<1> QED
  BY <1>1, <1>3, <1>4, <1>5

-----------------------------------------------------------------------------
\* What is past the server, on its way to c's partner.
Past(c) == IF partner[c] = NoClient THEN <<>> ELSE down[partner[c]]

RelayTyped ==
  /\ server \in {"first", "second", "relaying", "down"}
  /\ client \in [Clients -> {"away", "connecting", "open", "left"}]
  /\ partner \in [Clients -> Clients \cup {NoClient}]
  /\ tasks \subseteq Clients
  /\ sentBy \in [Clients -> Nat]
  /\ up \in [Clients -> Seq(Nat)] /\ down \in [Clients -> Seq(Nat)]
  /\ got \in [Clients -> Seq(Nat)]

\* Partners are partners of each other; who has none has no relay task and is
\* told nothing; who is about to be paired has none.
Alone(c) == partner[c] = NoClient => c \notin tasks /\ down[c] = <<>> /\ got[c] = <<>>
AwaitsSecond(f) == pair = {f} /\ partner[f] = NoClient /\ client[f] \in {"open", "left"}
Paired ==
  /\ \A c \in Clients : partner[c] # NoClient => partner[c] # c /\ partner[partner[c]] = c
  /\ \A c \in Clients : Alone(c)
  /\ \A c \in Clients : client[c] \in {"away", "connecting"} => partner[c] = NoClient
  /\ server = "second" => \E f \in Clients : AwaitsSecond(f)

RelayInv ==
  /\ RelayTyped /\ Paired
  /\ \A c \in Clients : InTurn(Past(c), up[c], sentBy[c])

\* What a step does to the pipe of c, seen from its two ends.
Way(c) == Range(up[c]) \cup Range(Past(c))
Heard(c) == IF partner[c] = NoClient THEN <<>> ELSE got[partner[c]]
Still(c) == sentBy'[c] = sentBy[c] /\ Heard(c)' = Heard(c)

LEMMA NothingIsEmpty == Range(<<>>) = {} /\ <<>> \in Rising
  BY DEF Range, Rising

LEMMA PipeStays ==
  ASSUME NEW c \in Clients, Still(c), Way(c)' = Way(c), Whole(c)' <=> Whole(c)
  PROVE  UNCHANGED Pipe(c)!pipe
  BY NothingIsEmpty DEF Still, Way, Heard, Past, Whole, Pipe!pipe

LEMMA PipeLoses ==
  ASSUME NEW c \in Clients, Still(c), Way(c)' \subseteq Way(c), ~Whole(c)'
  PROVE  Pipe(c)!Next
  BY NothingIsEmpty DEF Still, Way, Heard, Past, Whole, Pipe!Next, Pipe!Lose

LEMMA PipeDelivers ==
  ASSUME NEW c \in Clients, NEW f \in Way(c), \A g \in Way(c) : f <= g,
         Heard(c)' = Append(Heard(c), f), Way(c)' = Way(c) \ {f},
         sentBy'[c] = sentBy[c], Whole(c)' <=> Whole(c)
  PROVE  Pipe(c)!Next
<1> DEFINE way == Range(up[c])
                    \cup (IF partner[c] = NoClient THEN {} ELSE Range(down[partner[c]]))
<1>1. Way(c) = way /\ Way(c)' = way'
  BY NothingIsEmpty DEF Way, Past
<1>2. f \in way /\ (\A g \in way : f <= g) /\ way' = way \ {f}
  BY <1>1
<1> HIDE DEF way
<1>3. Pipe(c)!Deliver
  BY <1>2 DEF Pipe!Deliver, Heard, Whole, way
<1> QED
  BY <1>3 DEF Pipe!Next

\* A step keeps the invariant and is one of the pipe of c, or none of it.
Carries(c) ==
  /\ InTurn(Past(c), up[c], sentBy[c])'
  /\ Pipe(c)!Next \/ UNCHANGED Pipe(c)!pipe

LEMMA OthersStay ==
  ASSUME RelayInv, NEW c \in Clients,
         UNCHANGED <<up[c], sentBy[c], Past(c), Heard(c)>>, Whole(c)' => Whole(c)
  PROVE  Carries(c)
<1>1. Still(c) /\ Way(c)' = Way(c)
  BY DEF Still, Way
<1>2. Pipe(c)!Next \/ UNCHANGED Pipe(c)!pipe
  BY <1>1, PipeStays, PipeLoses
<1>3. InTurn(Past(c)', up'[c], sentBy'[c])
  BY DEF RelayInv
<1> QED
  BY <1>2, <1>3 DEF Carries

\* Steps that move no message: someone comes or goes, a task or a session ends.
Moves == Paired' /\ RelayTyped' /\ \A c \in Clients : Carries(c)

LEMMA NoMessageMoves ==
  ASSUME RelayInv, RelayTyped', Paired', UNCHANGED <<partner, messages>>,
         \A c \in Clients : Whole(c)' => Whole(c)
  PROVE  Moves
  BY OthersStay DEF Moves, messages, Past, Heard

LEMMA ComingAndGoing ==
  ASSUME RelayInv, NEW c \in Clients,
         Connect(c) \/ Leave(c) \/ AcceptFirst(c) \/ ReadEnds(c) \/ Hear(c)
  PROVE  Moves
<1> USE DEF Connect, Leave, AcceptFirst, Handshake, ReadEnds, Hear, Turns
<1>1. UNCHANGED <<partner, messages>>
  BY DEF messages
<1>2. RelayTyped'
  BY DEF RelayInv, RelayTyped, messages
<1>3. \A d \in Clients : client[d] = "left" => client'[d] = "left"
  BY DEF RelayInv, RelayTyped
<1>4. server' # "down" => server # "down"
  OBVIOUS
<1>5. \A d \in Clients : d \in tasks' => d \in tasks
  OBVIOUS
<1>6. \A d \in Clients : partner[d] # NoClient => partner[d] \in Clients
  BY DEF RelayInv, RelayTyped
<1>7. \A d \in Clients : Whole(d)' => Whole(d)
  BY <1>1, <1>3, <1>4, <1>5, <1>6 DEF Whole
<1>8. Paired'
  <2>1. \A d \in Clients :
          client'[d] \in {"away", "connecting"} => client[d] \in {"away", "connecting"}
    BY DEF RelayInv, RelayTyped
  <2>2. \A d \in Clients :
          /\ partner'[d] # NoClient => partner'[d] # d /\ partner'[partner'[d]] = d
          /\ Alone(d)'
          /\ client'[d] \in {"away", "connecting"} => partner'[d] = NoClient
    BY <1>1, <1>5, <2>1 DEF RelayInv, Paired, Alone, messages
  <2>3. server' = "second" => \E f \in Clients : AwaitsSecond(f)'
    <3>1. CASE AcceptFirst(c)
      <4>1. pair' = {c} /\ client'[c] = "open" /\ client[c] = "connecting"
        BY <3>1 DEF RelayInv, RelayTyped
      <4> QED
        BY <1>1, <4>1 DEF RelayInv, Paired, AwaitsSecond
    <3>2. CASE ~AcceptFirst(c)
      <4>1. UNCHANGED <<server, pair>>
        BY <3>2
      <4>2. \A d \in Clients :
              client[d] \in {"open", "left"} => client'[d] \in {"open", "left"}
        BY DEF RelayInv, RelayTyped
      <4> QED
        BY <1>1, <4>1, <4>2 DEF RelayInv, Paired, AwaitsSecond
    <3> QED
      BY <3>1, <3>2
  <2> QED
    BY <2>2, <2>3 DEF Paired
<1> QED
  BY <1>1, <1>2, <1>7, <1>8, NoMessageMoves

LEMMA ServerStops ==
  ASSUME RelayInv, HandshakeFails \/ SessionEnds \/ UNCHANGED relayVars
  PROVE  Moves
<1>1. UNCHANGED <<partner, client, messages>> /\ tasks' \subseteq tasks
      /\ ((server' = server /\ pair' = pair) \/ server' \in {"down", "first"})
      /\ (server' # "down" => server # "down" /\ tasks' = tasks)
  BY DEF HandshakeFails, SessionEnds, relayVars, messages
<1>2. RelayTyped' /\ Paired'
  BY <1>1 DEF RelayInv, RelayTyped, Paired, Alone, AwaitsSecond, messages
<1>3. \A d \in Clients : Whole(d)' => Whole(d)
  BY <1>1 DEF Whole
<1> QED
  BY <1>1, <1>2, <1>3, NoMessageMoves

\* Two clients are paired: what the first has sent, and had to wait with.
LEMMA Pairing ==
  ASSUME RelayInv, NEW c \in Clients, AcceptSecond(c)
  PROVE  Moves
<1>1. PICK f \in Clients :
        pair = {f} /\ partner[f] = NoClient /\ client[f] \in {"open", "left"}
  BY DEF AcceptSecond, RelayInv, Paired, AwaitsSecond
<1>2. /\ client[c] = "connecting" /\ partner[c] = NoClient /\ f # c
      /\ client' = [client EXCEPT ![c] = "open"] /\ UNCHANGED messages
      /\ server = "second" /\ server' = "relaying"
  BY <1>1 DEF AcceptSecond, Handshake, Turns, RelayInv, Paired
<1>3. /\ partner' = [d \in Clients |->
                      IF d = c THEN f ELSE IF d = f THEN c ELSE partner[d]]
      /\ tasks' = tasks \cup {f, c}
  BY <1>1 DEF AcceptSecond
<1>4. /\ partner'[c] = f /\ partner'[f] = c
      /\ \A d \in Clients \ {c, f} : partner'[d] = partner[d]
      /\ client'[c] = "open" /\ \A d \in Clients \ {c} : client'[d] = client[d]
  BY <1>2, <1>3 DEF RelayInv, RelayTyped
<1>5. \A d \in Clients \ {c, f} : partner[d] \notin {c, f}
  BY <1>1, <1>2, ClientsAssumption DEF RelayInv, RelayTyped, Paired, Alone
<1>6. RelayTyped'
  BY <1>2, <1>3 DEF RelayInv, RelayTyped, messages
<1>7. Paired'
  <2>1. ASSUME NEW d \in Clients, partner'[d] # NoClient
        PROVE  partner'[d] # d /\ partner'[partner'[d]] = d
    <3>1. CASE d \in {c, f}
      BY <1>2, <1>4, <3>1
    <3>2. CASE d \notin {c, f}
      <4>1. partner'[d] = partner[d] /\ partner[d] \in Clients \ {c, f}
        BY <1>4, <1>5, <2>1, <3>2 DEF RelayInv, RelayTyped
      <4>2. partner[d] # d /\ partner[partner[d]] = d
        BY <4>1, ClientsAssumption DEF RelayInv, Paired
      <4> QED
        BY <1>4, <4>1, <4>2
    <3> QED
      BY <3>1, <3>2
  <2>2. \A d \in Clients : Alone(d)'
    BY <1>2, <1>3, <1>4, ClientsAssumption DEF RelayInv, Paired, Alone, messages
  <2>3. \A d \in Clients : client'[d] \in {"away", "connecting"} => partner'[d] = NoClient
    BY <1>1, <1>2, <1>4 DEF RelayInv, Paired, Alone
  <2> QED
    BY <1>2, <2>1, <2>2, <2>3 DEF Paired
<1>8. ASSUME NEW d \in Clients PROVE Carries(d)
  <2>1. UNCHANGED <<up[d], sentBy[d]>>
    BY <1>2 DEF messages
  <2>2. UNCHANGED <<Past(d), Heard(d)>>
    <3>1. CASE d \in {c, f}
      <4>1. partner[d] = NoClient /\ partner'[d] \in {c, f} /\ partner'[d] # NoClient
        BY <1>1, <1>2, <1>4, <3>1, ClientsAssumption
      <4>2. \A e \in {c, f} : down'[e] = <<>> /\ got'[e] = <<>>
        BY <1>1, <1>2 DEF RelayInv, Paired, Alone, messages
      <4> QED
        BY <4>1, <4>2 DEF Past, Heard
    <3>2. CASE d \notin {c, f}
      BY <1>2, <1>4, <3>2 DEF Past, Heard, messages
    <3> QED
      BY <3>1, <3>2
  <2>3. Whole(d)' => Whole(d)
    <3>1. CASE d \in {c, f}
      BY <1>1, <1>2, <1>4, <3>1 DEF Whole
    <3>2. CASE d \notin {c, f}
      BY <1>2, <1>3, <1>4, <1>5, <3>2 DEF Whole, RelayInv, RelayTyped
    <3> QED
      BY <3>1, <3>2
  <2> QED
    BY <2>1, <2>2, <2>3, OthersStay
<1> QED
  BY <1>6, <1>7, <1>8 DEF Moves

LEMMA PartnersDiffer ==
  ASSUME RelayInv, NEW c \in Clients, NEW d \in Clients, c # d, partner[c] # NoClient
  PROVE  partner[c] # partner[d]
  BY DEF RelayInv, Paired

\* c sends: the pipe of c has one message more.
LEMMA SendMoves == ASSUME RelayInv, NEW c \in Clients, Send(c) PROVE Moves
<1>1. /\ sentBy' = [sentBy EXCEPT ![c] = @ + 1]
      /\ up' = [up EXCEPT ![c] = Append(@, sentBy[c] + 1)]
      /\ UNCHANGED <<server, pair, client, partner, tasks, down, got>>
  BY DEF Send
<1>2. InTurn(Past(c), up[c], sentBy[c]) /\ sentBy[c] \in Nat /\ up[c] \in Seq(Nat)
  BY DEF RelayInv, RelayTyped
<1>3. /\ sentBy'[c] = sentBy[c] + 1 /\ up'[c] = Append(up[c], sentBy[c] + 1)
      /\ \A d \in Clients \ {c} : UNCHANGED <<sentBy[d], up[d]>>
  BY <1>1 DEF RelayInv, RelayTyped
<1>4. RelayTyped' /\ Paired'
  <2>1. Append(up[c], sentBy[c] + 1) \in Seq(Nat) /\ sentBy[c] + 1 \in Nat
    BY <1>2
  <2> QED
    BY <1>1, <2>1 DEF RelayInv, RelayTyped, Paired, Alone, AwaitsSecond
<1>5. \A d \in Clients : UNCHANGED <<Past(d), Heard(d)>> /\ (Whole(d)' <=> Whole(d))
  BY <1>1 DEF Past, Heard, Whole
<1>6. Carries(c)
  <2>1. /\ InTurn(Past(c)', up'[c], sentBy'[c])
        /\ Range(up'[c]) = Range(up[c]) \cup {sentBy[c] + 1}
    <3>1. /\ InTurn(Past(c), Append(up[c], sentBy[c] + 1), sentBy[c] + 1)
          /\ Range(Append(up[c], sentBy[c] + 1)) = Range(up[c]) \cup {sentBy[c] + 1}
      BY <1>2, Sending
    <3> QED
      BY <1>3, <1>5, <3>1
  <2>2. Pipe(c)!Produce
    BY <1>1, <1>3, <1>5, <2>1 DEF Pipe!Produce, Past, Heard, Whole
  <2> QED
    BY <2>1, <2>2 DEF Carries, Pipe!Next
<1>7. \A d \in Clients \ {c} : Carries(d)
  BY <1>3, <1>5, OthersStay
<1> QED
  BY <1>4, <1>6, <1>7 DEF Moves

\* The relay task of c writes what it has read, or loses it to a partner that
\* has gone.
LEMMA RelayMoves ==
  ASSUME RelayInv, NEW c \in Clients, Relay(c) \/ RelayLost(c) \/ RelayFails(c)
  PROVE  Moves
<1> DEFINE p == partner[c]
<1>1. c \in tasks /\ up[c] # <<>> /\ p \in Clients /\ p # NoClient /\ p # c /\ partner[p] = c
  BY ClientsAssumption
     DEF Relay, RelayLost, RelayFails, Reads, RelayInv, RelayTyped, Paired, Alone
<1>2. /\ up' = [up EXCEPT ![c] = Tail(@)] /\ tasks' \subseteq tasks
      /\ UNCHANGED <<server, pair, client, partner, sentBy, got>>
  BY DEF Relay, RelayLost, RelayFails, Reads
<1>3. \A d \in Clients \ {c} :
        UNCHANGED <<up[d], sentBy[d], Heard(d)>> /\ (Whole(d)' => Whole(d))
  BY <1>2 DEF RelayInv, RelayTyped, Heard, Whole
<1>4. UNCHANGED <<sentBy[c], Heard(c)>> /\ up'[c] = Tail(up[c]) /\ Past(c) = down[p]
      /\ Past(c)' = down'[p]
  BY <1>1, <1>2 DEF RelayInv, RelayTyped, Heard, Past
<1>5. InTurn(down[p], up[c], sentBy[c])
  BY <1>4 DEF RelayInv
<1>6. Tail(up[c]) \in Seq(Nat) /\ Head(up[c]) \in Nat
  BY <1>1 DEF RelayInv, RelayTyped
<1>7. CASE Relay(c)
  <2>1. down' = [down EXCEPT ![p] = Append(@, Head(up[c]))] /\ UNCHANGED tasks
    BY <1>7 DEF Relay
  <2>2. RelayTyped'
    <3>1. Append(down[p], Head(up[c])) \in Seq(Nat)
      BY <1>1, <1>6 DEF RelayInv, RelayTyped
    <3> QED
      BY <1>1, <1>2, <1>6, <2>1, <3>1 DEF RelayInv, RelayTyped
  <2>3. Paired'
    BY <1>1, <1>2, <2>1, ClientsAssumption
       DEF RelayInv, RelayTyped, Paired, Alone, AwaitsSecond
  <2>4. /\ down'[p] = Append(down[p], Head(up[c]))
        /\ \A e \in Clients \ {p} : down'[e] = down[e]
    BY <1>1, <2>1 DEF RelayInv, RelayTyped
  <2>5. \A d \in Clients \ {c} : UNCHANGED Past(d)
    BY <1>1, <1>2, <2>4, PartnersDiffer DEF Past, RelayInv, RelayTyped
  <2>6. /\ InTurn(down'[p], up'[c], sentBy'[c])
        /\ Range(up'[c]) \cup Range(down'[p]) = Range(up[c]) \cup Range(down[p])
    BY <1>1, <1>4, <1>5, <2>4, Moving
  <2>7. Still(c) /\ Way(c)' = Way(c) /\ (Whole(c)' <=> Whole(c))
    BY <1>2, <1>4, <2>1, <2>6 DEF Still, Way, Whole
  <2>8. Carries(c)
    BY <1>4, <2>6, <2>7, PipeStays DEF Carries
  <2> QED
    BY <1>3, <2>2, <2>3, <2>5, <2>8, OthersStay DEF Moves
<1>8. CASE RelayLost(c) \/ RelayFails(c)
  <2>1. client[p] = "left" /\ UNCHANGED down
    BY <1>8 DEF RelayLost, RelayFails
  <2>2. RelayTyped' /\ Paired'
    BY <1>2, <1>6, <2>1 DEF RelayInv, RelayTyped, Paired, Alone, AwaitsSecond
  <2>3. \A d \in Clients : UNCHANGED Past(d)
    BY <1>2, <2>1 DEF Past
  <2>4. InTurn(down[p], up'[c], sentBy'[c]) /\ Range(up'[c]) \subseteq Range(up[c])
    BY <1>1, <1>4, <1>5, Dropping
  <2>5. Still(c) /\ Way(c)' \subseteq Way(c) /\ ~Whole(c)'
    BY <1>1, <1>2, <1>4, <2>1, <2>3, <2>4 DEF Still, Way, Whole
  <2>6. Carries(c)
    BY <1>4, <2>1, <2>4, <2>5, PipeLoses DEF Carries
  <2> QED
    BY <1>3, <2>2, <2>3, <2>6, OthersStay DEF Moves
<1> QED
  BY <1>7, <1>8

\* c receives: the pipe of its partner delivers its oldest message.
LEMMA ReceiveMoves == ASSUME RelayInv, NEW c \in Clients, Receive(c) PROVE Moves
<1>1. /\ down[c] # <<>> /\ got' = [got EXCEPT ![c] = Append(@, Head(down[c]))]
      /\ down' = [down EXCEPT ![c] = Tail(@)]
      /\ UNCHANGED <<server, pair, client, partner, tasks, sentBy, up>>
  BY DEF Receive
<1>2. PICK p \in Clients : p = partner[c] /\ p # c /\ partner[p] = c
  BY <1>1 DEF RelayInv, RelayTyped, Paired, Alone
<1>3. Tail(down[c]) \in Seq(Nat) /\ Append(got[c], Head(down[c])) \in Seq(Nat)
  BY <1>1 DEF RelayInv, RelayTyped
<1>4. /\ down'[c] = Tail(down[c]) /\ got'[c] = Append(got[c], Head(down[c]))
      /\ \A e \in Clients \ {c} : down'[e] = down[e] /\ got'[e] = got[e]
  BY <1>1 DEF RelayInv, RelayTyped
<1>5. RelayTyped' /\ Paired'
  <2>1. RelayTyped'
    BY <1>1, <1>3 DEF RelayInv, RelayTyped
  <2>2. \A d \in Clients : Alone(d)'
    BY <1>1, <1>2, <1>4 DEF RelayInv, Paired, Alone, AwaitsSecond
  <2> QED
    BY <1>1, <2>1, <2>2 DEF RelayInv, Paired, Alone, AwaitsSecond
<1>6. \A d \in Clients : Whole(d)' <=> Whole(d)
  BY <1>1 DEF Whole
<1>7. Past(p) = down[c] /\ Past(p)' = down'[c] /\ Heard(p) = got[c] /\ Heard(p)' = got'[c]
  BY <1>1, <1>2, ClientsAssumption DEF Past, Heard
<1>8. InTurn(down[c], up[p], sentBy[p])
  BY <1>2, <1>7 DEF RelayInv
<1>9. Carries(p)
  <2>1. /\ InTurn(down'[c], up'[p], sentBy'[p])
        /\ Head(down[c]) \in Range(up[p]) \cup Range(down[c])
        /\ \A x \in Range(up[p]) \cup Range(down[c]) : Head(down[c]) <= x
        /\ Range(up'[p]) \cup Range(down'[c])
             = (Range(up[p]) \cup Range(down[c])) \ {Head(down[c])}
    <3>1. /\ InTurn(Tail(down[c]), up[p], sentBy[p])
          /\ Head(down[c]) \in Range(down[c])
          /\ \A x \in Range(up[p]) \cup Range(down[c]) : Head(down[c]) <= x
          /\ Range(up[p]) \cup Range(Tail(down[c]))
               = (Range(up[p]) \cup Range(down[c])) \ {Head(down[c])}
      BY <1>1, <1>8, Taking
    <3> QED
      BY <1>1, <1>4, <3>1
  <2>2. UNCHANGED <<up[p], sentBy[p]>>
    BY <1>1
  <2>3. /\ Way(p) = Range(up[p]) \cup Range(down[c])
        /\ Way(p)' = Range(up'[p]) \cup Range(down'[c])
    BY <1>7 DEF Way
  <2>4. Pipe(p)!Next
    BY <1>4, <1>6, <1>7, <2>1, <2>2, <2>3, PipeDelivers
  <2> QED
    BY <1>7, <2>1, <2>4 DEF Carries
<1>10. ASSUME NEW d \in Clients, d # p PROVE Carries(d)
  <2>1. partner[d] # c
    BY <1>2, <1>10, ClientsAssumption DEF RelayInv, Paired
  <2>2. UNCHANGED <<up[d], sentBy[d], Past(d), Heard(d)>>
    BY <1>1, <1>4, <2>1 DEF Past, Heard, RelayInv, RelayTyped
  <2> QED
    BY <1>6, <2>2, OthersStay
<1> QED
  BY <1>5, <1>9, <1>10 DEF Moves

LEMMA StepMoves == ASSUME RelayInv, [RelayNext]_relayVars PROVE Moves
  BY ComingAndGoing, ServerStops, Pairing, SendMoves, RelayMoves, ReceiveMoves
     DEF RelayNext, RelayQuiet

LEMMA InitRelayInv ==
  ASSUME RelayInit PROVE RelayInv /\ \A c \in Clients : Pipe(c)!Init
<1>1. RelayTyped /\ Paired
  BY DEF RelayInit, RelayTyped, Paired, Alone
<1>2. \A c \in Clients : InTurn(Past(c), up[c], sentBy[c])
  BY NothingIsEmpty DEF RelayInit, Past, InTurn
<1>3. \A c \in Clients : Pipe(c)!Init
  BY NothingIsEmpty DEF RelayInit, Pipe!Init, Whole
<1> QED
  BY <1>1, <1>2, <1>3 DEF RelayInv

\* "Relays every text/binary message from one peer to the other"
\* (signaling_server.rs:3-4), for any number of clients and of messages: each
\* step of the relay is a step of an ordered pipe from every client, which loses
\* messages only where a client or the server has gone.
THEOREM RelayIsPipe == RelaySpec => RelaysEveryMessage
<1>1. RelayInit => RelayInv /\ \A c \in Clients : Pipe(c)!Init
  BY InitRelayInv
<1>2. RelayInv /\ [RelayNext]_relayVars
        => RelayInv' /\ \A c \in Clients : Pipe(c)!Next \/ UNCHANGED Pipe(c)!pipe
  BY StepMoves DEF Moves, Carries, RelayInv
<1> QED
  BY <1>1, <1>2, PTL DEF RelaySpec, RelaysEveryMessage
=============================================================================

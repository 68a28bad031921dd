-------------------------- MODULE PipelineBuilder ---------------------------
(***************************************************************************)
(* The typed builder of aiko-pipeline (builder.rs).  Its stages are Rust   *)
(* types with a type parameter, so the bounds of then and sink are guards  *)
(* here: a call that does not meet them does not compile.                  *)
(***************************************************************************)
EXTENDS Elements

CONSTANT MaxElements  \* bound: elements between the ends of a pipeline
ASSUME ElementsAssumption == MaxElements \in Nat

VARIABLES
  stage,     \* the builder or pipeline type there is
  elements,  \* its elements
  current    \* its type parameter, CurrentOutput of a builder

builderVars == <<stage, elements, current>>

Builders == {"SourcedPipelineBuilder", "InputPipelineBuilder"}
Pipelines == {"SourcedPipeline", "InputPipeline", "OpenPipeline"}

BuilderInit == stage = "PipelineBuilder" /\ elements = <<>> /\ current = Unit

Becomes(next, es, param) == stage' = next /\ elements' = es /\ current' = param

Source(e) ==
  /\ stage = "PipelineBuilder"
  /\ Becomes("SourcedPipelineBuilder", <<e>>, OutputType(e))

Input(type) ==
  /\ stage = "PipelineBuilder"
  /\ Becomes("InputPipelineBuilder", <<>>, type)

\* Deviation: the bound on the element's input is missing.
ThenUnbound(e) ==
  /\ stage \in Builders /\ Len(elements) <= MaxElements
  /\ Becomes(stage, Append(elements, e), OutputType(e))
\* then, of both builders
Then(e) ==
  /\ stage \in Builders /\ Len(elements) <= MaxElements
  /\ InputType(e) = current
  /\ Becomes(stage, Append(elements, e), OutputType(e))

\* sink: the parameter of an InputPipeline is what the sink takes.
SinkTo(e) ==
  /\ stage \in Builders /\ InputType(e) = current
  /\ \/ /\ stage = "SourcedPipelineBuilder"
        /\ Becomes("SourcedPipeline", Append(elements, e), Unit)
     \/ /\ stage = "InputPipelineBuilder"
        /\ Becomes("InputPipeline", Append(elements, e), current)

Build == stage \in Builders /\ Becomes("OpenPipeline", elements, current)

BuilderNext ==
  \/ \E e \in Sources : Source(e)
  \/ \E t \in PayloadTypes : Input(t)
  \/ \E e \in Transforms : Then(e)
  \/ \E e \in Sinks : SinkTo(e)
  \/ Build
=============================================================================

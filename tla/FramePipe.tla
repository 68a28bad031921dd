----------------------------- MODULE FramePipe -----------------------------
(***************************************************************************)
(* What a chain of actors promises to whoever starts its source and reads  *)
(* its sink: an ordered pipe.  Frames are numbered in the order the source *)
(* yields them.  The pipe delivers them one at a time, oldest first, may   *)
(* discard single frames on purpose (a filter, an element error), and may  *)
(* lose frames only once it is broken, that is once a stage of the chain   *)
(* has ended.  ActorPipeline implements this specification.                *)
(***************************************************************************)
EXTENDS Naturals, Sequences

VARIABLES
  produced,   \* number of frames the source has yielded
  transit,    \* the frames that are on their way
  delivered,  \* the frames consumed at the far end, in the order of arrival
  discarded,  \* the frames a stage has dropped on purpose
  intact      \* no receiving stage has ended

pipe == <<produced, transit, delivered, discarded, intact>>

Init ==
  /\ produced = 0
  /\ transit = {}
  /\ delivered = <<>>
  /\ discarded = {}
  /\ intact = TRUE

Produce ==
  /\ produced' = produced + 1
  /\ transit' = transit \cup {produced + 1}
  /\ UNCHANGED <<delivered, discarded, intact>>

Deliver ==
  \E f \in transit :
    /\ \A g \in transit : f <= g
    /\ delivered' = Append(delivered, f)
    /\ transit' = transit \ {f}
    /\ UNCHANGED <<produced, discarded, intact>>

Discard ==
  \E f \in transit :
    /\ discarded' = discarded \cup {f}
    /\ transit' = transit \ {f}
    /\ UNCHANGED <<produced, delivered, intact>>

\* A stage ends, or a frame reaches a stage that has ended.
Lose ==
  /\ intact' = FALSE
  /\ transit' \subseteq transit
  /\ UNCHANGED <<produced, delivered, discarded>>

Next == Produce \/ Deliver \/ Discard \/ Lose

Spec == Init /\ [][Next]_pipe
=============================================================================

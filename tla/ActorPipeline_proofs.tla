------------------------ MODULE ActorPipeline_proofs ------------------------
(***************************************************************************)
(* For a chain of any length, any mailbox capacity and any number of       *)
(* frames: types, the order of the frames, no loss while the receiving     *)
(* actors live, and the refinement of FramePipe.                           *)
(*                                                                         *)
(* The argument has three layers.  Lemmas about mailboxes say which frames *)
(* a queue holds after Append and Tail and that it stays sorted.  MoveStep *)
(* reduces every action to what it does to the sets At(a), the frames      *)
(* actor a has.  Order, conservation and refinement are then shown for     *)
(* the few kinds of move and no longer mention mailboxes.                  *)
(***************************************************************************)
EXTENDS ActorPipeline, TLAPS

\* Frames of a queue come in increasing order; control messages carry 0.
Sorted(s) ==
  \A i, j \in DOMAIN s :
    i < j /\ s[i].frame # 0 /\ s[j].frame # 0 => s[i].frame < s[j].frame

LEMMA MessageFrame ==
  ASSUME NEW m \in Message
  PROVE  /\ m.frame \in 0..MaxFrames
         /\ m.kind = "ProcessFrame" <=> m.frame # 0
  BY FramesAssumption, ControlsAssumption DEF Message, Frame, Control

LEMMA FramesInRange ==
  ASSUME NEW s \in Seq(Message) PROVE FramesIn(s) \subseteq 1..MaxFrames
<1>1. \A i \in DOMAIN s : s[i] \in Message
  OBVIOUS
<1>2. \A i \in DOMAIN s : s[i].frame \in 0..MaxFrames
  BY <1>1, MessageFrame
<1> QED
  BY <1>2, FramesAssumption DEF FramesIn

LEMMA FramesOfAppend ==
  ASSUME NEW s \in Seq(Message), NEW m \in Message
  PROVE  FramesIn(Append(s, m)) = FramesIn(s) \cup ({m.frame} \ {0})
<1> DEFINE t == Append(s, m)
<1>1. /\ DOMAIN t = 1..Len(s) + 1 /\ DOMAIN s = 1..Len(s) /\ Len(s) \in Nat
      /\ \A i \in 1..Len(s) : t[i] = s[i]
      /\ t[Len(s) + 1] = m
  OBVIOUS
<1>2. \A f : (\E i \in DOMAIN t : f = t[i].frame)
               <=> (\E i \in DOMAIN s : f = s[i].frame) \/ f = m.frame
  <2> HIDE DEF t
  <2>1. \A i \in DOMAIN t : i \in DOMAIN s \/ i = Len(s) + 1
    BY <1>1
  <2>2. \A i \in DOMAIN s : i \in DOMAIN t
    BY <1>1
  <2>3. Len(s) + 1 \in DOMAIN t
    BY <1>1
  <2> QED
    BY <1>1, <2>1, <2>2, <2>3
<1> QED
  BY <1>2 DEF FramesIn

LEMMA FramesOfTail ==
  ASSUME NEW s \in Seq(Message), s # <<>>
  PROVE  /\ Head(s) \in Message /\ Tail(s) \in Seq(Message)
         /\ FramesIn(s) = FramesIn(Tail(s)) \cup ({Head(s).frame} \ {0})
<1> DEFINE t == Tail(s)
<1>1. /\ Len(s) \in Nat \ {0} /\ DOMAIN s = 1..Len(s) /\ DOMAIN t = 1..Len(s) - 1
      /\ \A i \in 1..Len(s) - 1 : t[i] = s[i + 1]
      /\ Head(s) = s[1] /\ Head(s) \in Message /\ t \in Seq(Message)
  OBVIOUS
<1>2. \A f : (\E i \in DOMAIN s : f = s[i].frame)
               <=> (\E i \in DOMAIN t : f = t[i].frame) \/ f = Head(s).frame
  <2> HIDE DEF t
  <2>1. \A i \in DOMAIN s : i = 1 \/ (i - 1 \in DOMAIN t /\ s[i] = t[i - 1])
    BY <1>1
  <2>2. \A i \in DOMAIN t : i + 1 \in DOMAIN s /\ t[i] = s[i + 1]
    BY <1>1
  <2>3. 1 \in DOMAIN s
    BY <1>1
  <2> QED
    BY <1>1, <2>1, <2>2, <2>3
<1>3. FramesIn(s) = FramesIn(t) \cup ({Head(s).frame} \ {0})
  <2> HIDE DEF t
  <2> QED
    BY <1>2 DEF FramesIn
<1> QED
  BY <1>1, <1>3

LEMMA SortedAppend ==
  ASSUME NEW s \in Seq(Message), NEW m \in Message, Sorted(s),
         m.frame # 0 => \A f \in FramesIn(s) : f < m.frame
  PROVE  Sorted(Append(s, m))
<1> DEFINE t == Append(s, m)
<1>1. /\ DOMAIN t = 1..Len(s) + 1 /\ DOMAIN s = 1..Len(s) /\ Len(s) \in Nat
      /\ \A i \in 1..Len(s) : t[i] = s[i]
      /\ t[Len(s) + 1] = m
  OBVIOUS
<1> HIDE DEF t
<1>2. SUFFICES ASSUME NEW i \in DOMAIN t, NEW j \in DOMAIN t,
                      i < j, t[i].frame # 0, t[j].frame # 0
               PROVE  t[i].frame < t[j].frame
  BY DEF Sorted, t
<1>3. i \in DOMAIN s /\ t[i] = s[i]
  BY <1>1, <1>2
<1>4. CASE j \in DOMAIN s
  BY <1>1, <1>2, <1>3, <1>4 DEF Sorted
<1>5. CASE j = Len(s) + 1
  BY <1>1, <1>2, <1>3, <1>5 DEF FramesIn
<1> QED
  BY <1>1, <1>4, <1>5

LEMMA SortedTail ==
  ASSUME NEW s \in Seq(Message), s # <<>>, Sorted(s)
  PROVE  /\ Sorted(Tail(s))
         /\ Head(s).frame # 0 => \A f \in FramesIn(Tail(s)) : Head(s).frame < f
<1> DEFINE t == Tail(s)
<1>1. /\ Len(s) \in Nat \ {0} /\ DOMAIN s = 1..Len(s) /\ DOMAIN t = 1..Len(s) - 1
      /\ \A i \in 1..Len(s) - 1 : t[i] = s[i + 1]
      /\ Head(s) = s[1]
  OBVIOUS
<1> HIDE DEF t
<1>2. \A i \in DOMAIN t : i + 1 \in DOMAIN s /\ i \in Nat /\ i > 0 /\ t[i] = s[i + 1]
  BY <1>1
<1>3. Sorted(t)
  <2>1. SUFFICES ASSUME NEW i \in DOMAIN t, NEW j \in DOMAIN t,
                        i < j, t[i].frame # 0, t[j].frame # 0
                 PROVE  t[i].frame < t[j].frame
    BY DEF Sorted
  <2>2. i + 1 < j + 1
    BY <1>2, <2>1
  <2> QED
    BY <1>2, <2>1, <2>2 DEF Sorted
<1>4. ASSUME Head(s).frame # 0, NEW f \in FramesIn(t) PROVE Head(s).frame < f
  <2>1. PICK i \in DOMAIN t : f = t[i].frame /\ f # 0
    BY <1>4 DEF FramesIn
  <2> QED
    BY <1>1, <1>2, <1>4, <2>1 DEF Sorted
<1> QED
  BY <1>3, <1>4 DEF t

-----------------------------------------------------------------------------
\* An actor has a frame in its hand exactly while it works on one or sends it.
HandBusy ==
  \A a \in Actors :
    hand[a] # 0 <=> phase[a] = "sending" \/ (a # Source /\ phase[a] = "working")

\* Nobody sends a frame to the source.
NoFrameToSource == FramesIn(box[Source]) = {}

\* The sink sends nothing.
SinkKeeps == phase[Sink] # "sending"

Typed == TypeOK /\ HandBusy /\ NoFrameToSource /\ SinkKeeps

LEMMA InitTyped == Init => Typed
<1>1. SUFFICES ASSUME Init PROVE Typed
  OBVIOUS
<1>2. \A a \in Actors : phase[a] = "starting" /\ box[a] = <<>> /\ hand[a] = 0
  BY <1>1 DEF Init
<1>3. Source \in Actors /\ Sink \in Actors
  BY NAssumption DEF Source, Sink, Actors
<1>4. <<>> \in Seq(Message) /\ Len(<<>>) = 0 /\ <<>> \in Seq(1..MaxFrames)
  OBVIOUS
<1>5. TypeOK
  <2>1. phase \in [Actors -> Phases] /\ box \in [Actors -> Seq(Message)]
    BY <1>1, <1>4 DEF Init, Phases
  <2>2. \A a \in Actors : Len(box[a]) <= MailboxCap
    BY <1>2, <1>4, CapAssumption
  <2>3. running \in BOOLEAN
    BY <1>1 DEF Init
  <2>4. /\ hand \in [Actors -> 0..MaxFrames] /\ frameCounter \in 0..MaxFrames
        /\ controlsSent \in 0..MaxControls
        /\ consumed \in Seq(1..MaxFrames) /\ discarded \subseteq 1..MaxFrames
    BY <1>1, <1>4, FramesAssumption, MaxControlsAssumption DEF Init
  <2> QED
    BY <2>1, <2>2, <2>3, <2>4 DEF TypeOK
<1> QED
  BY <1>2, <1>3, <1>5 DEF Typed, HandBusy, NoFrameToSource, FramesIn, SinkKeeps

\* What an actor's task, the source's loop or the application does in a step.
Steps ==
  \/ \E a \in Actors :
       \/ PreStart(a)
       \/ PreStartFails(a) \/ PostStop(a) \/ Panic(a)
       \/ TakeStop(a) \/ TakeFrame(a) \/ TakeIgnored(a)
       \/ Process(a) \/ Discard(a)
       \/ a # Sink /\ Send(a)
       \/ a # Sink /\ SendRefused(a)
       \/ \E c \in Controls : ClientSend(a, c)
  \/ TakeStart \/ TakePause \/ Yield \/ YieldEnds \/ Consume
  \/ UNCHANGED vars

LEMMA NextSteps == [Next]_vars => Steps
  BY DEF Next, Steps, Recvs, Works, Sends, Client, Quiet

LEMMA ActorFacts ==
  /\ Source \in Actors /\ Sink \in Actors /\ Source # Sink
  /\ \A a \in Actors : a # Sink => a + 1 \in Actors /\ a + 1 # a /\ a + 1 # Source
  /\ \A a \in Actors : a \in Receivers <=> a # Source
  BY NAssumption DEF Source, Sink, Actors, Receivers

\* Taking the oldest message: what Recv leaves in the mailboxes.
LEMMA RecvFacts ==
  ASSUME Typed, NEW a \in Actors, NEW K, Recv(a, K)
  PROVE  /\ phase[a] = "receiving" /\ hand[a] = 0
         /\ box[a] \in Seq(Message) /\ box[a] # <<>>
         /\ Head(box[a]) \in Message /\ Head(box[a]).kind \in K
         /\ box' \in [Actors -> Seq(Message)]
         /\ box' = [box EXCEPT ![a] = Tail(box[a])]
         /\ \A b \in Actors : Len(box'[b]) <= MailboxCap
         /\ FramesIn(box'[Source]) = {}
<1>1. /\ phase[a] = "receiving" /\ box[a] # <<>> /\ Head(box[a]).kind \in K
      /\ box' = [box EXCEPT ![a] = Tail(box[a])]
  BY DEF Recv
<1>2. box \in [Actors -> Seq(Message)] /\ box[a] \in Seq(Message)
  BY DEF Typed, TypeOK
<1>3. /\ Head(box[a]) \in Message /\ Tail(box[a]) \in Seq(Message)
      /\ FramesIn(box[a]) = FramesIn(Tail(box[a])) \cup ({Head(box[a]).frame} \ {0})
  BY <1>1, <1>2, FramesOfTail
<1>4. hand[a] = 0
  BY <1>1 DEF Typed, HandBusy
<1>5. Len(Tail(box[a])) <= Len(box[a]) /\ Len(box[a]) \in Nat /\ Len(Tail(box[a])) \in Nat
  BY <1>1, <1>2, <1>3
<1>6. \A b \in Actors : Len(box'[b]) <= MailboxCap
  BY <1>1, <1>2, <1>5, CapAssumption DEF Typed, TypeOK
<1>7. FramesIn(box'[Source]) = {}
  BY <1>1, <1>2, <1>3, ActorFacts DEF Typed, NoFrameToSource
<1> QED
  BY <1>1, <1>2, <1>3, <1>4, <1>6, <1>7

\* Sending to an actor whose mailbox has room.
LEMMA PutFacts ==
  ASSUME Typed, NEW a \in Actors, NEW m \in Message, CanSend(a), Put(a, m),
         a = Source => m.frame = 0
  PROVE  /\ box[a] \in Seq(Message)
         /\ box' \in [Actors -> Seq(Message)]
         /\ box' = [box EXCEPT ![a] = Append(box[a], m)]
         /\ \A b \in Actors : Len(box'[b]) <= MailboxCap
         /\ FramesIn(box'[Source]) = {}
<1>1. box' = [box EXCEPT ![a] = Append(box[a], m)] /\ Len(box[a]) < MailboxCap
  BY DEF Put, CanSend
<1>2. box \in [Actors -> Seq(Message)] /\ box[a] \in Seq(Message)
  BY DEF Typed, TypeOK
<1>3. Append(box[a], m) \in Seq(Message) /\ Len(Append(box[a], m)) = Len(box[a]) + 1
      /\ Len(box[a]) \in Nat
  BY <1>2
<1>4. FramesIn(Append(box[a], m)) = FramesIn(box[a]) \cup ({m.frame} \ {0})
  BY <1>2, FramesOfAppend
<1>5. \A b \in Actors : Len(box'[b]) <= MailboxCap
  BY <1>1, <1>2, <1>3, CapAssumption DEF Typed, TypeOK
<1>6. FramesIn(box'[Source]) = {}
  BY <1>1, <1>2, <1>4, ActorFacts DEF Typed, NoFrameToSource
<1> QED
  BY <1>1, <1>2, <1>3, <1>5, <1>6

\* An actor that ends drops its mailbox.
LEMMA EndFacts ==
  ASSUME Typed, NEW a \in Actors, NEW p \in {"stopped", "initfailed", "panicked"},
         End(a, p)
  PROVE  Typed'
<1>1. /\ phase' = [phase EXCEPT ![a] = p] /\ box' = [box EXCEPT ![a] = <<>>]
      /\ hand' = [hand EXCEPT ![a] = 0]
      /\ UNCHANGED <<running, frameCounter, controlsSent, consumed, discarded>>
  BY DEF End, Goto, Hold
<1>2. <<>> \in Seq(Message) /\ Len(<<>>) = 0 /\ FramesIn(<<>>) = {}
  BY DEF FramesIn
<1>3. TypeOK'
  BY <1>1, <1>2, CapAssumption, FramesAssumption DEF Typed, TypeOK, Phases
<1>4. HandBusy' /\ SinkKeeps'
  BY <1>1, ActorFacts DEF Typed, TypeOK, HandBusy, SinkKeeps
<1>5. NoFrameToSource'
  BY <1>1, <1>2, ActorFacts DEF Typed, TypeOK, NoFrameToSource
<1> QED
  BY <1>3, <1>4, <1>5 DEF Typed

LEMMA TypedStep == ASSUME Typed, Steps PROVE Typed'
<1> USE ActorFacts
<1>1. ASSUME NEW a \in Actors, PreStart(a) PROVE Typed'
  BY <1>1 DEF PreStart, Goto, Typed, TypeOK, Phases, HandBusy, NoFrameToSource, SinkKeeps
<1>2. ASSUME NEW a \in Actors, PreStartFails(a) \/ PostStop(a) \/ Panic(a) PROVE Typed'
  BY <1>2, EndFacts DEF PreStartFails, PostStop, Panic
<1>3. ASSUME NEW a \in Actors, TakeStop(a) \/ TakeIgnored(a) PROVE Typed'
  <2>1. PICK K : Recv(a, K) /\ hand' = hand /\ running' = running
                 /\ phase' \in {phase, [phase EXCEPT ![a] = "stopping"]}
    BY <1>3 DEF TakeStop, TakeIgnored, Goto
  <2>2. UNCHANGED <<frameCounter, controlsSent, consumed, discarded>>
    BY <2>1 DEF Recv
  <2> QED
    BY <2>1, <2>2, RecvFacts
    DEF Typed, TypeOK, Phases, HandBusy, NoFrameToSource, SinkKeeps
<1>4. ASSUME NEW a \in Actors, TakeFrame(a) PROVE Typed'
  <2>1. /\ a # Source /\ Recv(a, {"ProcessFrame"}) /\ running' = running
        /\ phase' = [phase EXCEPT ![a] = "working"]
        /\ hand' = [hand EXCEPT ![a] = Head(box[a]).frame]
    BY <1>4 DEF TakeFrame, Goto, Hold
  <2>2. UNCHANGED <<frameCounter, controlsSent, consumed, discarded>>
    BY <2>1 DEF Recv
  <2>3. Head(box[a]) \in Message /\ Head(box[a]).kind = "ProcessFrame"
    BY <2>1, RecvFacts
  <2>4. Head(box[a]).frame \in 1..MaxFrames
    BY <2>3, MessageFrame, FramesAssumption
  <2>5. /\ phase[a] = "receiving" /\ hand[a] = 0
        /\ box' \in [Actors -> Seq(Message)] /\ FramesIn(box'[Source]) = {}
        /\ \A b \in Actors : Len(box'[b]) <= MailboxCap
    BY <2>1, RecvFacts
  <2>6. TypeOK'
    <3>1. phase' \in [Actors -> Phases] /\ hand' \in [Actors -> 0..MaxFrames]
      BY <2>1, <2>4, FramesAssumption DEF Typed, TypeOK, Phases
    <3> QED
      BY <2>1, <2>2, <2>5, <3>1 DEF Typed, TypeOK
  <2>7. HandBusy' /\ SinkKeeps'
    BY <2>1, <2>4, <2>5, FramesAssumption DEF Typed, TypeOK, HandBusy, SinkKeeps
  <2> QED
    BY <2>5, <2>6, <2>7 DEF Typed, NoFrameToSource
<1>5. CASE TakeStart \/ TakePause
  <2>1. PICK K : Recv(Source, K) /\ hand' = hand /\ running' \in BOOLEAN
                 /\ phase' \in {phase, [phase EXCEPT ![Source] = "working"]}
    BY <1>5 DEF TakeStart, TakePause, Goto
  <2>2. UNCHANGED <<frameCounter, controlsSent, consumed, discarded>>
    BY <2>1 DEF Recv
  <2> QED
    BY <2>1, <2>2, RecvFacts
    DEF Typed, TypeOK, Phases, HandBusy, NoFrameToSource, SinkKeeps
<1>6. CASE Yield
  BY <1>6, FramesAssumption
  DEF Yield, Goto, Hold, Typed, TypeOK, Phases, HandBusy, NoFrameToSource, SinkKeeps
<1>7. CASE YieldEnds
  BY <1>7 DEF YieldEnds, Goto, Typed, TypeOK, Phases, HandBusy, NoFrameToSource, SinkKeeps
<1>8. ASSUME NEW a \in Actors, Process(a) PROVE Typed'
  BY <1>8 DEF Process, Goto, Typed, TypeOK, Phases, HandBusy, NoFrameToSource, SinkKeeps
<1>9. ASSUME NEW a \in Actors, Discard(a) PROVE Typed'
  <2>1. hand[a] \in 1..MaxFrames
    BY <1>9, FramesAssumption DEF Discard, Typed, TypeOK, HandBusy
  <2>2. TypeOK'
    <3>1. phase' \in [Actors -> Phases]
      BY <1>9 DEF Discard, Goto, Typed, TypeOK, Phases
    <3>2. hand' \in [Actors -> 0..MaxFrames]
      BY <1>9, FramesAssumption DEF Discard, Hold, Typed, TypeOK
    <3>3. discarded' \subseteq 1..MaxFrames
      BY <1>9, <2>1 DEF Discard, Typed, TypeOK
    <3> QED
      BY <1>9, <3>1, <3>2, <3>3 DEF Discard, Typed, TypeOK
  <2>3. HandBusy' /\ SinkKeeps' /\ NoFrameToSource'
    BY <1>9 DEF Discard, Goto, Hold, Typed, TypeOK, HandBusy, NoFrameToSource, SinkKeeps
  <2> QED
    BY <2>2, <2>3 DEF Typed
<1>10. CASE Consume
  BY <1>10, FramesAssumption
  DEF Consume, Goto, Hold, Typed, TypeOK, Phases, HandBusy, NoFrameToSource, SinkKeeps
<1>11. ASSUME NEW a \in Actors, a # Sink, Send(a) PROVE Typed'
  <2>1. /\ phase[a] = "sending" /\ CanSend(a + 1) /\ Put(a + 1, Frame(hand[a]))
        /\ phase' \in {[phase EXCEPT ![a] = "receiving"], [phase EXCEPT ![a] = "working"]}
        /\ phase'[a] = "working" => a = Source
        /\ hand' = [hand EXCEPT ![a] = 0]
        /\ UNCHANGED <<running, frameCounter, controlsSent, consumed, discarded>>
    BY <1>11 DEF Send, Goto, Hold, Typed, TypeOK
  <2>2. Frame(hand[a]) \in Message
    BY <2>1, FramesAssumption DEF Typed, TypeOK, HandBusy, Message
  <2>3. /\ box' \in [Actors -> Seq(Message)] /\ FramesIn(box'[Source]) = {}
        /\ \A b \in Actors : Len(box'[b]) <= MailboxCap
    BY <1>11, <2>1, <2>2, PutFacts
  <2>4. TypeOK'
    <3>1. phase' \in [Actors -> Phases]
      BY <2>1 DEF Typed, TypeOK, Phases
    <3>2. hand' \in [Actors -> 0..MaxFrames]
      BY <2>1, FramesAssumption DEF Typed, TypeOK
    <3> QED
      BY <2>1, <2>3, <3>1, <3>2 DEF Typed, TypeOK
  <2>5. HandBusy' /\ SinkKeeps'
    BY <1>11, <2>1 DEF Typed, TypeOK, HandBusy, SinkKeeps
  <2> QED
    BY <2>3, <2>4, <2>5 DEF Typed, NoFrameToSource
<1>12. ASSUME NEW a \in Actors, SendRefused(a) PROVE Typed'
  BY <1>12, FramesAssumption
  DEF SendRefused, Goto, Hold, Typed, TypeOK, Phases, HandBusy, NoFrameToSource, SinkKeeps
<1>13. ASSUME NEW a \in Actors, NEW c \in Controls, ClientSend(a, c) PROVE Typed'
  <2>1. Control(c) \in Message /\ Control(c).frame = 0
    BY DEF Message, Control
  <2>2. /\ box' \in [Actors -> Seq(Message)] /\ FramesIn(box'[Source]) = {}
        /\ \A b \in Actors : Len(box'[b]) <= MailboxCap
    BY <1>13, <2>1, PutFacts DEF ClientSend
  <2> QED
    BY <1>13, <2>2, MaxControlsAssumption
    DEF ClientSend, Typed, TypeOK, HandBusy, NoFrameToSource, SinkKeeps
<1>14. CASE UNCHANGED vars
  BY <1>14 DEF vars, Typed, TypeOK, HandBusy, NoFrameToSource, SinkKeeps
<1> QED
  BY <1>1, <1>2, <1>3, <1>4, <1>5, <1>6, <1>7, <1>8, <1>9, <1>10, <1>11, <1>12,
     <1>13, <1>14 DEF Steps

\* Every variable keeps its type and every mailbox its capacity, for any
\* length of the chain and any capacity (actor.rs:184).
THEOREM TypeCorrect == Spec => []TypeOK
<1>1. Typed /\ [Next]_vars => Typed'
  BY NextSteps, TypedStep
<1>2. Typed => TypeOK
  BY DEF Typed
<1> QED
  BY InitTyped, <1>1, <1>2, PTL DEF Spec

-----------------------------------------------------------------------------
\* Within an actor: the mailbox is in order and the frame in hand is older
\* than those queued.
InBoxes ==
  \A a \in Actors :
    /\ Sorted(box[a])
    /\ hand[a] # 0 => \A f \in FramesIn(box[a]) : hand[a] < f

\* Between actors: whatever is further down the chain is older.
Stages == \A a, b \in Actors : a < b => \A f \in At(a), g \in At(b) : g < f

\* What was consumed is older still, and nothing is newer than the counter.
ConsumedFirst ==
  \A i \in DOMAIN consumed :
    consumed[i] <= frameCounter /\ \A a \in Actors : \A f \in At(a) : consumed[i] < f
Counted == \A a \in Actors : At(a) \subseteq 1..frameCounter

\* The kinds of move, in terms of the sets At(a) only.
SameEnds == \A a \in Actors : Ended(a)' <=> Ended(a)
SameAt(S) == \A b \in Actors \ S : At(b)' = At(b)
Still == UNCHANGED <<frameCounter, consumed, discarded>>
Takes(a, f) == f \in At(a) /\ (\A g \in At(a) : f <= g) /\ At(a)' = At(a) \ {f}

Rests == Still /\ SameEnds /\ SameAt({})
Enters ==
  /\ frameCounter' = frameCounter + 1 /\ UNCHANGED <<consumed, discarded>> /\ SameEnds
  /\ At(Source) = {} /\ At(Source)' = {frameCounter + 1} /\ SameAt({Source})
Forwards(a, f) ==
  /\ a # Sink /\ Still /\ SameEnds
  /\ Takes(a, f) /\ At(a + 1)' = At(a + 1) \cup {f} /\ SameAt({a, a + 1})
Arrives(f) ==
  /\ consumed' = Append(consumed, f) /\ UNCHANGED <<frameCounter, discarded>> /\ SameEnds
  /\ Takes(Sink, f) /\ SameAt({Sink})
Discards(a, f) ==
  /\ discarded' = discarded \cup {f} /\ UNCHANGED <<frameCounter, consumed>> /\ SameEnds
  /\ Takes(a, f) /\ SameAt({a})
Refused(a, f) ==
  /\ a # Sink /\ Ended(a + 1) /\ Still /\ SameEnds
  /\ Takes(a, f) /\ SameAt({a})
Ends(a) ==
  /\ Still /\ Ended(a)' /\ \A b \in Actors \ {a} : Ended(b)' <=> Ended(b)
  /\ a = Source => At(a) = {}
  /\ At(a)' = {} /\ SameAt({a})

Moves ==
  \/ Rests \/ Enters
  \/ \E a \in Actors : Ends(a)
  \/ \E a \in Actors, f \in 1..MaxFrames : Forwards(a, f) \/ Discards(a, f) \/ Refused(a, f)
  \/ \E f \in 1..MaxFrames : Arrives(f)

LEMMA HandTaken ==
  ASSUME Typed, InBoxes, NEW a \in Actors, hand[a] # 0, box'[a] = box[a], hand'[a] = 0
  PROVE  hand[a] \in 1..MaxFrames /\ Takes(a, hand[a])
<1>1. hand[a] \in 1..MaxFrames
  BY FramesAssumption DEF Typed, TypeOK
<1>2. FramesIn(box[a]) \subseteq 1..MaxFrames
  BY FramesInRange DEF Typed, TypeOK
<1>3. hand[a] \notin FramesIn(box[a]) /\ \A g \in FramesIn(box[a]) : hand[a] <= g
  BY <1>1, <1>2 DEF InBoxes
<1> QED
  BY <1>1, <1>3 DEF Takes, At

\* Actions that leave mailboxes and hands alone.
LEMMA RestStep ==
  ASSUME UNCHANGED <<box, hand, frameCounter, consumed, discarded>>, SameEnds, InBoxes
  PROVE  Rests /\ InBoxes'
  BY DEF Rests, Still, SameAt, At, InBoxes

\* An actor takes the oldest message into its hand, or takes one that is no frame.
LEMMA RecvStep ==
  ASSUME Typed, InBoxes, NEW a \in Actors, NEW K, Recv(a, K), SameEnds,
         hand' = [hand EXCEPT ![a] = Head(box[a]).frame]
  PROVE  Rests /\ InBoxes'
<1>1. /\ hand[a] = 0 /\ box[a] \in Seq(Message) /\ box[a] # <<>>
      /\ box' = [box EXCEPT ![a] = Tail(box[a])]
  BY RecvFacts
<1>2. Sorted(box[a])
  BY DEF InBoxes
<1>3. /\ FramesIn(box[a]) = FramesIn(Tail(box[a])) \cup ({Head(box[a]).frame} \ {0})
      /\ Sorted(Tail(box[a]))
      /\ Head(box[a]).frame # 0 => \A f \in FramesIn(Tail(box[a])) : Head(box[a]).frame < f
  BY <1>1, <1>2, FramesOfTail, SortedTail
<1>4. /\ box'[a] = Tail(box[a]) /\ hand'[a] = Head(box[a]).frame
      /\ \A b \in Actors \ {a} : box'[b] = box[b] /\ hand'[b] = hand[b]
  BY <1>1 DEF Typed, TypeOK
<1>5. At(a)' = At(a)
  BY <1>1, <1>3, <1>4 DEF At
<1>6. SameAt({})
  BY <1>4, <1>5 DEF SameAt, At
<1>7. InBoxes'
  BY <1>3, <1>4 DEF InBoxes
<1> QED
  BY <1>6, <1>7 DEF Rests, Still, Recv

LEMMA EndStep ==
  ASSUME Typed, InBoxes, NEW a \in Actors, NEW p \in {"stopped", "initfailed", "panicked"},
         End(a, p), phase[a] \in {"starting", "working", "stopping"}
  PROVE  Ends(a) /\ InBoxes'
<1>1. /\ phase' = [phase EXCEPT ![a] = p] /\ box' = [box EXCEPT ![a] = <<>>]
      /\ hand' = [hand EXCEPT ![a] = 0] /\ Still
  BY DEF End, Goto, Hold, Still
<1>2. /\ phase'[a] = p /\ box'[a] = <<>> /\ hand'[a] = 0
      /\ \A b \in Actors \ {a} : phase'[b] = phase[b] /\ box'[b] = box[b] /\ hand'[b] = hand[b]
  BY <1>1 DEF Typed, TypeOK
<1>3. FramesIn(<<>>) = {} /\ Sorted(<<>>)
  BY DEF FramesIn, Sorted
<1>4. a = Source => At(a) = {}
  BY DEF Typed, HandBusy, NoFrameToSource, At
<1>5. At(a)' = {} /\ SameAt({a})
  BY <1>2, <1>3 DEF At, SameAt
<1>6. Ended(a)' /\ \A b \in Actors \ {a} : Ended(b)' <=> Ended(b)
  BY <1>2 DEF Ended
<1>7. InBoxes'
  BY <1>2, <1>3 DEF InBoxes
<1> QED
  BY <1>1, <1>4, <1>5, <1>6, <1>7 DEF Ends

LEMMA PutStep ==
  ASSUME Typed, InBoxes, NEW a \in Actors, NEW m \in Message, CanSend(a), Put(a, m),
         a = Source => m.frame = 0, m.frame # 0 => \A g \in At(a) : g < m.frame,
         \A b \in Actors : hand'[b] \in {hand[b], 0}, hand'[a] = hand[a]
  PROVE  /\ At(a)' = At(a) \cup ({m.frame} \ {0})
         /\ \A b \in Actors \ {a} : box'[b] = box[b]
         /\ InBoxes'
<1>1. /\ box[a] \in Seq(Message) /\ box' = [box EXCEPT ![a] = Append(box[a], m)]
  BY PutFacts
<1>2. box'[a] = Append(box[a], m) /\ \A b \in Actors \ {a} : box'[b] = box[b]
  BY <1>1 DEF Typed, TypeOK
<1>3. FramesIn(Append(box[a], m)) = FramesIn(box[a]) \cup ({m.frame} \ {0})
  BY <1>1, FramesOfAppend
<1>4. m.frame # 0 => \A g \in FramesIn(box[a]) : g < m.frame
  BY DEF At
<1>5. Sorted(Append(box[a], m))
  BY <1>1, <1>4, SortedAppend DEF InBoxes
<1>6. At(a)' = At(a) \cup ({m.frame} \ {0})
  BY <1>2, <1>3 DEF At
<1>7. hand[a] # 0 /\ m.frame # 0 => hand[a] < m.frame
  BY DEF At
<1>8. InBoxes'
  BY <1>2, <1>3, <1>5, <1>7 DEF InBoxes
<1> QED
  BY <1>2, <1>6, <1>8

\* Every action is one of the moves and keeps each mailbox in order.
LEMMA MoveStep ==
  ASSUME Typed, InBoxes, Stages, Steps
  PROVE  Moves /\ InBoxes'
<1> USE ActorFacts
<1>1. ASSUME NEW a \in Actors, NEW p \in Phases, ~Ended(a), Goto(a, p),
             p \notin {"stopped", "initfailed", "panicked"}
      PROVE  SameEnds
  BY <1>1 DEF Goto, SameEnds, Ended, Typed, TypeOK
<1>2. ASSUME NEW a \in Actors, PreStart(a) \/ Process(a) PROVE Rests /\ InBoxes'
  <2>1. SameEnds
    BY <1>1, <1>2 DEF PreStart, Process, Ended, Phases
  <2> QED
    BY <1>2, <2>1, RestStep DEF PreStart, Process
<1>3. CASE YieldEnds
  <2>1. SameEnds
    BY <1>1, <1>3 DEF YieldEnds, Ended, Phases
  <2> QED
    BY <1>3, <2>1, RestStep DEF YieldEnds, Moves
<1>4. ASSUME NEW a \in Actors, PreStartFails(a) \/ PostStop(a) \/ Panic(a)
      PROVE  Ends(a) /\ InBoxes'
  BY <1>4, EndStep DEF PreStartFails, PostStop, Panic
<1>5. ASSUME NEW a \in Actors, NEW K, Recv(a, K), "ProcessFrame" \notin K \/ a = Source,
             hand' = hand, SameEnds
      PROVE  Rests /\ InBoxes'
  <2>1. /\ hand[a] = 0 /\ Head(box[a]) \in Message /\ Head(box[a]).kind \in K
        /\ box[a] \in Seq(Message) /\ box[a] # <<>>
    BY <1>5, RecvFacts
  <2>2. Head(box[a]).frame = 0
    <3>1. CASE "ProcessFrame" \notin K
      BY <2>1, <3>1, MessageFrame
    <3>2. CASE a = Source
      BY <2>1, <3>2, FramesOfTail DEF Typed, NoFrameToSource
    <3> QED
      BY <1>5, <3>1, <3>2
  <2>3. hand' = [hand EXCEPT ![a] = Head(box[a]).frame]
    BY <1>5, <2>1, <2>2 DEF Typed, TypeOK
  <2> QED
    BY <1>5, <2>3, RecvStep
<1>6. ASSUME NEW a \in Actors, TakeStop(a) \/ TakeIgnored(a) PROVE Rests /\ InBoxes'
  <2>1. SameEnds
    BY <1>1, <1>6 DEF TakeStop, TakeIgnored, Recv, Ended, Phases, SameEnds
  <2>2. CASE TakeStop(a)
    BY <1>5, <2>1, <2>2 DEF TakeStop
  <2>3. CASE TakeIgnored(a)
    BY <1>5, <2>1, <2>3 DEF TakeIgnored, Ignored
  <2> QED
    BY <1>6, <2>2, <2>3
<1>7. CASE TakeStart \/ TakePause
  <2>1. SameEnds
    BY <1>1, <1>7 DEF TakeStart, TakePause, Recv, Ended, Phases, SameEnds
  <2> QED
    BY <1>5, <1>7, <2>1 DEF TakeStart, TakePause, Moves
<1>8. ASSUME NEW a \in Actors, TakeFrame(a) PROVE Rests /\ InBoxes'
  <2>1. SameEnds
    BY <1>1, <1>8 DEF TakeFrame, Recv, Ended, Phases
  <2>2. Recv(a, {"ProcessFrame"}) /\ hand' = [hand EXCEPT ![a] = Head(box[a]).frame]
    BY <1>8 DEF TakeFrame, Hold
  <2> QED
    BY <2>1, <2>2, RecvStep
<1>9. CASE Yield
  <2>1. SameEnds
    BY <1>1, <1>9 DEF Yield, Ended, Phases
  <2>2. /\ box' = box /\ frameCounter' = frameCounter + 1
        /\ hand' = [hand EXCEPT ![Source] = frameCounter + 1]
        /\ UNCHANGED <<consumed, discarded>> /\ phase[Source] = "working"
    BY <1>9 DEF Yield, Hold
  <2>3. hand[Source] = 0 /\ FramesIn(box[Source]) = {}
    BY <2>2 DEF Typed, HandBusy, NoFrameToSource
  <2>4. frameCounter + 1 # 0 /\ hand'[Source] = frameCounter + 1
        /\ \A b \in Actors \ {Source} : hand'[b] = hand[b]
    BY <2>2, FramesAssumption DEF Typed, TypeOK
  <2>5. At(Source) = {} /\ At(Source)' = {frameCounter + 1} /\ SameAt({Source})
    BY <2>2, <2>3, <2>4 DEF At, SameAt
  <2>6. InBoxes'
    BY <2>2, <2>3, <2>4 DEF InBoxes
  <2> QED
    BY <2>1, <2>2, <2>5, <2>6 DEF Enters, Moves
<1>10. ASSUME NEW a \in Actors, hand[a] # 0, box' = box, Hold(a, 0)
       PROVE  hand[a] \in 1..MaxFrames /\ Takes(a, hand[a]) /\ SameAt({a}) /\ InBoxes'
  <2>1. hand'[a] = 0 /\ \A b \in Actors \ {a} : hand'[b] = hand[b]
    BY <1>10 DEF Hold, Typed, TypeOK
  <2>2. SameAt({a}) /\ InBoxes'
    BY <1>10, <2>1 DEF SameAt, At, InBoxes
  <2> QED
    BY <1>10, <2>1, <2>2, HandTaken
<1>11. ASSUME NEW a \in Actors, Discard(a)
       PROVE  (\E f \in 1..MaxFrames : Discards(a, f)) /\ InBoxes'
  <2>1. SameEnds /\ hand[a] # 0
    BY <1>1, <1>11 DEF Discard, Ended, Phases, Typed, HandBusy
  <2> QED
    BY <1>10, <1>11, <2>1 DEF Discard, Discards
<1>12. CASE Consume
  <2>1. SameEnds /\ hand[Sink] # 0
    BY <1>1, <1>12 DEF Consume, Ended, Phases, Typed, HandBusy
  <2>2. (\E f \in 1..MaxFrames : Arrives(f)) /\ InBoxes'
    BY <1>10, <1>12, <2>1 DEF Consume, Arrives
  <2> QED
    BY <2>2 DEF Moves
<1>13. ASSUME NEW a \in Actors, a # Sink, SendRefused(a)
       PROVE  (\E f \in 1..MaxFrames : Refused(a, f)) /\ InBoxes'
  <2>1. SameEnds /\ hand[a] # 0
    BY <1>1, <1>13 DEF SendRefused, Ended, Phases, Typed, HandBusy
  <2> QED
    BY <1>10, <1>13, <2>1 DEF SendRefused, Refused, Still
<1>14. ASSUME NEW a \in Actors, a # Sink, Send(a)
       PROVE  (\E f \in 1..MaxFrames : Forwards(a, f)) /\ InBoxes'
  <2> DEFINE f == hand[a]
  <2>1. /\ phase[a] = "sending" /\ CanSend(a + 1) /\ Put(a + 1, Frame(f))
        /\ hand' = [hand EXCEPT ![a] = 0] /\ Still
    BY <1>14 DEF Send, Hold, Still
  <2>2. SameEnds
    BY <1>1, <1>14 DEF Send, Ended, Phases
  <2>3. f # 0 /\ f \in 1..MaxFrames /\ Frame(f) \in Message /\ Frame(f).frame = f
    BY <2>1, FramesAssumption DEF Typed, TypeOK, HandBusy, Message, Frame
  <2>4. \A g \in At(a + 1) : g < f
    BY <1>14, <2>3, NAssumption DEF Stages, At, Actors
  <2>5. hand'[a] = 0 /\ \A b \in Actors \ {a} : hand'[b] = hand[b]
    BY <2>1 DEF Typed, TypeOK
  <2>6. /\ At(a + 1)' = At(a + 1) \cup ({f} \ {0})
        /\ \A b \in Actors \ {a + 1} : box'[b] = box[b]
        /\ InBoxes'
    <3> HIDE DEF f
    <3> QED
      BY <1>14, <2>1, <2>3, <2>4, <2>5, PutStep
  <2>7. Takes(a, f)
    BY <1>14, <2>3, <2>5, <2>6, HandTaken
  <2>8. SameAt({a, a + 1})
    BY <2>5, <2>6 DEF SameAt, At
  <2> QED
    BY <1>14, <2>1, <2>2, <2>3, <2>6, <2>7, <2>8 DEF Forwards
<1>15. ASSUME NEW a \in Actors, NEW c \in Controls, ClientSend(a, c)
       PROVE  Rests /\ InBoxes'
  <2> DEFINE m == Control(c)
  <2>1. m \in Message /\ m.frame = 0
    BY DEF Message, Control
  <2>2. /\ CanSend(a) /\ Put(a, m) /\ hand' = hand
        /\ UNCHANGED <<phase, frameCounter, consumed, discarded>>
    BY <1>15 DEF ClientSend
  <2> HIDE DEF m
  <2>3. At(a)' = At(a) /\ (\A b \in Actors \ {a} : box'[b] = box[b]) /\ InBoxes'
    BY <1>15, <2>1, <2>2, PutStep
  <2>4. SameAt({}) /\ SameEnds /\ Still
    BY <2>2, <2>3 DEF SameAt, At, SameEnds, Ended, Still
  <2> QED
    BY <2>3, <2>4 DEF Rests
<1>16. CASE UNCHANGED vars
  <2>1. SameEnds
    BY <1>16 DEF vars, SameEnds, Ended
  <2> QED
    BY <1>16, <2>1, RestStep DEF vars, Moves
<1> QED
  BY <1>2, <1>3, <1>4, <1>6, <1>7, <1>8, <1>9, <1>11, <1>12, <1>13, <1>14, <1>15, <1>16
  DEF Steps, Moves

-----------------------------------------------------------------------------
\* From here on only the moves matter.
Ordered == Stages /\ ConsumedFirst /\ Counted /\ InOrder

LEMMA OrderStep ==
  ASSUME Typed, Ordered, Moves
  PROVE  Ordered'
<1> USE ActorFacts
<1>1. /\ frameCounter \in Nat /\ consumed \in Seq(1..MaxFrames)
      /\ \A i \in DOMAIN consumed : consumed[i] \in Nat
      /\ \A a \in Actors : At(a) \subseteq 1..frameCounter
  BY FramesAssumption DEF Typed, TypeOK, Ordered, Counted
<1>2. ASSUME Still, \A a \in Actors : At(a)' \subseteq At(a) PROVE Ordered'
  BY <1>2 DEF Ordered, Still, Stages, ConsumedFirst, Counted, InOrder, Increasing
<1>3. CASE Rests
  BY <1>2, <1>3 DEF Rests, SameAt
<1>4. ASSUME NEW a \in Actors, Ends(a) PROVE Ordered'
  BY <1>2, <1>4 DEF Ends, SameAt
<1>5. ASSUME NEW a \in Actors, NEW f, Refused(a, f) PROVE Ordered'
  BY <1>2, <1>5 DEF Refused, SameAt, Takes
<1>6. ASSUME NEW a \in Actors, NEW f, Discards(a, f) PROVE Ordered'
  <2>1. Still \/ UNCHANGED <<frameCounter, consumed>>
    BY <1>6 DEF Discards
  <2>2. \A b \in Actors : At(b)' \subseteq At(b)
    BY <1>6 DEF Discards, SameAt, Takes
  <2> QED
    BY <2>1, <2>2, <1>6
    DEF Discards, Ordered, Stages, ConsumedFirst, Counted, InOrder, Increasing
<1>7. CASE Enters
  <2>1. /\ frameCounter' = frameCounter + 1 /\ UNCHANGED <<consumed, discarded>>
        /\ At(Source) = {} /\ At(Source)' = {frameCounter + 1}
        /\ \A b \in Actors \ {Source} : At(b)' = At(b)
    BY <1>7 DEF Enters, SameAt
  <2>2. Stages'
    <3>1. SUFFICES ASSUME NEW a \in Actors, NEW b \in Actors, a < b,
                          NEW f \in At(a)', NEW g \in At(b)'
                   PROVE  g < f
      BY DEF Stages
    <3>2. b # Source
      BY <3>1, NAssumption DEF Actors, Source
    <3>3. g \in At(b) /\ g \in 1..frameCounter
      BY <1>1, <2>1, <3>1, <3>2
    <3>4. CASE a = Source
      BY <1>1, <2>1, <3>1, <3>3, <3>4
    <3>5. CASE a # Source
      BY <2>1, <3>1, <3>3, <3>5 DEF Ordered, Stages
    <3> QED
      BY <3>4, <3>5
  <2>3. ConsumedFirst' /\ Counted' /\ InOrder'
    BY <1>1, <2>1 DEF Ordered, ConsumedFirst, Counted, InOrder, Increasing
  <2> QED
    BY <2>2, <2>3 DEF Ordered
<1>8. ASSUME NEW a \in Actors, NEW f, Forwards(a, f) PROVE Ordered'
  <2>1. /\ a # Sink /\ a + 1 \in Actors /\ f \in At(a) /\ \A g \in At(a) : f <= g
        /\ At(a)' = At(a) \ {f} /\ At(a + 1)' = At(a + 1) \cup {f}
        /\ \A b \in Actors \ {a, a + 1} : At(b)' = At(b)
        /\ UNCHANGED <<frameCounter, consumed>>
    BY <1>8 DEF Forwards, SameAt, Takes, Still
  <2>2. Stages'
    <3>1. SUFFICES ASSUME NEW b \in Actors, NEW c \in Actors, b < c,
                          NEW g \in At(b)', NEW h \in At(c)'
                   PROVE  h < g
      BY DEF Stages
    <3>2. CASE h \in At(c) /\ g \in At(b)
      BY <3>1, <3>2 DEF Ordered, Stages
    <3>3. CASE h \notin At(c)
      <4>1. c = a + 1 /\ h = f
        BY <2>1, <3>1, <3>3
      <4>2. b # a + 1 /\ g \in At(b)
        BY <2>1, <3>1, <4>1 DEF Actors
      <4>3. CASE b = a
        BY <1>1, <2>1, <3>1, <4>1, <4>3
      <4>4. CASE b < a
        BY <2>1, <4>1, <4>2, <4>4 DEF Ordered, Stages
      <4> QED
        BY <3>1, <4>1, <4>3, <4>4, NAssumption DEF Actors
    <3>4. CASE g \notin At(b)
      <4>1. b = a + 1 /\ g = f /\ h \in At(c)
        BY <2>1, <3>1, <3>4, NAssumption DEF Actors
      <4>2. a < c
        BY <3>1, <4>1, NAssumption DEF Actors
      <4> QED
        BY <2>1, <4>1, <4>2 DEF Ordered, Stages
    <3> QED
      BY <3>2, <3>3, <3>4
  <2>3. \A b \in Actors : At(b)' \subseteq At(b) \cup {f}
    BY <2>1
  <2>4. ConsumedFirst' /\ Counted' /\ InOrder'
    BY <1>1, <2>1, <2>3 DEF Ordered, ConsumedFirst, Counted, InOrder, Increasing
  <2> QED
    BY <2>2, <2>4 DEF Ordered
<1>9. ASSUME NEW f, Arrives(f) PROVE Ordered'
  <2>1. /\ consumed' = Append(consumed, f) /\ frameCounter' = frameCounter
        /\ f \in At(Sink) /\ \A g \in At(Sink) : f <= g
        /\ At(Sink)' = At(Sink) \ {f} /\ \A b \in Actors \ {Sink} : At(b)' = At(b)
    BY <1>9 DEF Arrives, SameAt, Takes
  <2>2. f \in 1..frameCounter /\ f \in Nat
    BY <1>1, <2>1
  <2>3. \A b \in Actors : \A g \in At(b)' : f < g /\ g \in At(b)
    <3>1. SUFFICES ASSUME NEW b \in Actors, NEW g \in At(b)' PROVE f < g /\ g \in At(b)
      OBVIOUS
    <3>2. CASE b = Sink
      BY <1>1, <2>1, <3>1, <3>2
    <3>3. CASE b # Sink
      BY <2>1, <3>1, <3>3, NAssumption DEF Ordered, Stages, Actors, Sink
    <3> QED
      BY <3>2, <3>3
  <2>4. /\ DOMAIN consumed' = 1..Len(consumed) + 1 /\ DOMAIN consumed = 1..Len(consumed)
        /\ Len(consumed) \in Nat /\ consumed'[Len(consumed) + 1] = f
        /\ \A i \in 1..Len(consumed) : consumed'[i] = consumed[i] /\ consumed[i] < f
    BY <1>1, <2>1 DEF Ordered, ConsumedFirst
  <2>5. InOrder'
    BY <1>1, <2>4 DEF Ordered, InOrder, Increasing
  <2>6. ConsumedFirst'
    <3>1. SUFFICES ASSUME NEW i \in DOMAIN consumed'
                   PROVE  /\ consumed'[i] <= frameCounter'
                          /\ \A b \in Actors : \A g \in At(b)' : consumed'[i] < g
      BY DEF ConsumedFirst
    <3>2. CASE i = Len(consumed) + 1
      BY <2>1, <2>2, <2>3, <2>4, <3>2
    <3>3. CASE i \in DOMAIN consumed
      BY <2>1, <2>3, <2>4, <3>3 DEF Ordered, ConsumedFirst
    <3> QED
      BY <2>4, <3>1, <3>2, <3>3
  <2>7. Stages' /\ Counted'
    BY <2>1, <2>3 DEF Ordered, Stages, Counted
  <2> QED
    BY <2>5, <2>6, <2>7 DEF Ordered
<1> QED
  BY <1>3, <1>4, <1>5, <1>6, <1>7, <1>8, <1>9 DEF Moves

IInv == Typed /\ InBoxes /\ Ordered

LEMMA InitIInv == Init => IInv
<1>1. SUFFICES ASSUME Init PROVE IInv
  OBVIOUS
<1>2. /\ \A a \in Actors : box[a] = <<>> /\ hand[a] = 0
      /\ consumed = <<>>
  BY <1>1 DEF Init
<1>3. FramesIn(<<>>) = {} /\ Sorted(<<>>) /\ DOMAIN <<>> = {}
  BY DEF FramesIn, Sorted
<1>4. \A a \in Actors : At(a) = {}
  BY <1>2, <1>3 DEF At
<1>5. InBoxes /\ Ordered
  BY <1>2, <1>3, <1>4
  DEF InBoxes, Ordered, Stages, ConsumedFirst, Counted, InOrder, Increasing
<1> QED
  BY <1>1, <1>5, InitTyped DEF IInv

LEMMA StepIInv == IInv /\ [Next]_vars => IInv' /\ Moves
<1>1. SUFFICES ASSUME IInv, Steps PROVE IInv' /\ Moves
  BY NextSteps
<1>2. Typed' /\ InBoxes' /\ Moves
  BY <1>1, TypedStep, MoveStep DEF IInv, Ordered
<1>3. Ordered'
  BY <1>1, <1>2, OrderStep DEF IInv
<1> QED
  BY <1>2, <1>3 DEF IInv

\* The sink consumes the frames in the source's order and none twice, for any
\* chain, capacity and schedule (executor.rs:96-120, 159-201, 252-290).
THEOREM FramesInOrder == Spec => []InOrder
<1>1. IInv => InOrder
  BY DEF IInv, Ordered
<1> QED
  BY InitIInv, StepIInv, <1>1, PTL DEF Spec

-----------------------------------------------------------------------------
\* What the moves do to the whole chain.
LEMMA TransitMember == \A x : x \in Transit <=> \E a \in Actors : x \in At(a)
  BY DEF Transit

LEMMA IntactSame == SameEnds => (Intact' <=> Intact)
  BY ActorFacts DEF SameEnds, Intact, Receivers, Actors

LEMMA DeliveredAppend ==
  ASSUME consumed \in Seq(1..MaxFrames), NEW f, consumed' = Append(consumed, f)
  PROVE  Delivered' = Delivered \cup {f}
<1>1. /\ DOMAIN consumed' = 1..Len(consumed) + 1 /\ DOMAIN consumed = 1..Len(consumed)
      /\ Len(consumed) \in Nat /\ consumed'[Len(consumed) + 1] = f
      /\ \A i \in 1..Len(consumed) : consumed'[i] = consumed[i]
  OBVIOUS
<1>2. \A x : (\E i \in DOMAIN consumed' : x = consumed'[i])
               <=> (\E i \in DOMAIN consumed : x = consumed[i]) \/ x = f
  <2>1. \A i \in DOMAIN consumed' : i \in DOMAIN consumed \/ i = Len(consumed) + 1
    BY <1>1
  <2>2. \A i \in DOMAIN consumed : i \in DOMAIN consumed'
    BY <1>1
  <2>3. Len(consumed) + 1 \in DOMAIN consumed'
    BY <1>1
  <2> QED
    BY <1>1, <2>1, <2>2, <2>3
<1> QED
  BY <1>2 DEF Delivered

\* A frame an actor takes is nowhere else, and older than all before it.
LEMMA TakenOnce ==
  ASSUME Typed, Ordered, NEW a \in Actors, NEW f, Takes(a, f), SameAt({a})
  PROVE  /\ f \in Transit /\ Transit' = Transit \ {f}
         /\ a = Sink => \A g \in Transit : f <= g
<1>1. f \in At(a) /\ At(a)' = At(a) \ {f} /\ \A b \in Actors \ {a} : At(b)' = At(b)
  BY DEF Takes, SameAt
<1>2. \A b \in Actors : At(b) \subseteq 1..frameCounter /\ frameCounter \in Nat
  BY FramesAssumption DEF Typed, TypeOK, Ordered, Counted
<1>3. ASSUME NEW b \in Actors \ {a} PROVE f \notin At(b)
  <2>1. b < a \/ a < b
    BY <1>3, NAssumption DEF Actors
  <2> QED
    BY <1>1, <1>2, <2>1 DEF Ordered, Stages
<1>4. \A x : x \in Transit' <=> \E b \in Actors : x \in At(b)'
  BY DEF Transit
<1>5. f \in Transit /\ Transit' = Transit \ {f}
  BY <1>1, <1>3, <1>4, TransitMember
<1>6. ASSUME a = Sink, NEW g \in Transit PROVE f <= g
  <2>1. PICK b \in Actors : g \in At(b)
    BY TransitMember
  <2>2. CASE b = a
    BY <2>1, <2>2 DEF Takes
  <2>3. CASE b # a
    <3>1. b < a
      BY <1>6, <2>3, NAssumption DEF Actors, Sink
    <3> QED
      BY <1>1, <1>2, <2>1, <3>1 DEF Ordered, Stages
  <2> QED
    BY <2>2, <2>3
<1> QED
  BY <1>5, <1>6

\* An actor that ends, or refuses a frame, breaks the chain or loses nothing.
LEMMA TransitStep ==
  ASSUME Typed, Ordered
  PROVE  /\ Rests => Transit' = Transit /\ (Intact' <=> Intact)
         /\ Enters => Transit' = Transit \cup {frameCounter + 1} /\ (Intact' <=> Intact)
         /\ \A a \in Actors : \A f : Forwards(a, f) => Transit' = Transit /\ (Intact' <=> Intact)
         /\ \A a \in Actors : \A f : Refused(a, f) => Transit' \subseteq Transit /\ ~Intact'
         /\ Ends(Source) => Transit' = Transit /\ (Intact' <=> Intact)
         /\ \A a \in Receivers : Ends(a) => Transit' \subseteq Transit /\ ~Intact'
<1> USE ActorFacts
<1>1. \A x : x \in Transit' <=> \E b \in Actors : x \in At(b)'
  BY DEF Transit
<1>2. ASSUME Rests PROVE Transit' = Transit /\ (Intact' <=> Intact)
  BY <1>1, <1>2, TransitMember, IntactSame DEF Rests, SameAt
<1>3. ASSUME Enters
      PROVE  Transit' = Transit \cup {frameCounter + 1} /\ (Intact' <=> Intact)
  BY <1>1, <1>3, TransitMember, IntactSame DEF Enters, SameAt
<1>4. ASSUME NEW a \in Actors, NEW f, Forwards(a, f)
      PROVE  Transit' = Transit /\ (Intact' <=> Intact)
  <2>1. /\ a # Sink /\ a + 1 \in Actors /\ a + 1 # a /\ f \in At(a)
        /\ At(a)' = At(a) \ {f} /\ At(a + 1)' = At(a + 1) \cup {f}
        /\ \A b \in Actors \ {a, a + 1} : At(b)' = At(b)
    BY <1>4 DEF Forwards, SameAt, Takes
  <2>2. ASSUME NEW x PROVE x \in Transit' <=> x \in Transit
    <3>1. CASE x = f
      BY <1>1, <2>1, <3>1, TransitMember
    <3>2. CASE x # f
      <4>1. \A b \in Actors : x \in At(b)' <=> x \in At(b)
        BY <2>1, <3>2
      <4> QED
        BY <1>1, <4>1, TransitMember
    <3> QED
      BY <3>1, <3>2
  <2> QED
    BY <1>4, <2>2, IntactSame DEF Forwards
<1>5. ASSUME NEW a \in Actors, NEW f, Refused(a, f)
      PROVE  Transit' \subseteq Transit /\ ~Intact'
  <2>1. a + 1 \in Receivers /\ a + 1 \in Actors /\ Ended(a + 1)'
    BY <1>5 DEF Refused, SameEnds
  <2> QED
    BY <1>1, <1>5, <2>1, TransitMember DEF Refused, Takes, SameAt, Intact
<1>6. ASSUME Ends(Source) PROVE Transit' = Transit /\ (Intact' <=> Intact)
  <2>1. \A b \in Actors : At(b)' = At(b)
    BY <1>6 DEF Ends, SameAt
  <2>2. \A b \in Receivers : Ended(b)' <=> Ended(b)
    BY <1>6 DEF Ends, Receivers, Actors, Source
  <2> QED
    BY <1>1, <2>1, <2>2, TransitMember DEF Intact
<1>7. ASSUME NEW a \in Receivers, Ends(a) PROVE Transit' \subseteq Transit /\ ~Intact'
  BY <1>1, <1>7, TransitMember DEF Ends, SameAt, Intact, Receivers, Actors
<1> QED
  BY <1>2, <1>3, <1>4, <1>5, <1>6, <1>7

LEMMA LossStep ==
  ASSUME Typed, Ordered, NothingLost, Moves
  PROVE  NothingLost'
<1> USE ActorFacts
<1>1. SUFFICES ASSUME Intact' PROVE (1..frameCounter = Transit \cup Delivered \cup discarded)'
  BY DEF NothingLost
<1>2. consumed' = consumed => Delivered' = Delivered
  BY DEF Delivered
<1>3. CASE Rests
  BY <1>1, <1>2, <1>3, TransitStep DEF NothingLost, Rests, Still
<1>4. CASE Enters
  <2>1. 1..frameCounter + 1 = 1..frameCounter \cup {frameCounter + 1}
    BY FramesAssumption DEF Typed, TypeOK
  <2> QED
    BY <1>1, <1>2, <1>4, <2>1, TransitStep DEF NothingLost, Enters
<1>5. ASSUME NEW a \in Actors, Ends(a) PROVE NothingLost'
  <2>1. a = Source
    BY <1>1, <1>5, TransitStep
  <2> QED
    BY <1>1, <1>2, <1>5, <2>1, TransitStep DEF NothingLost, Ends, Still
<1>6. ASSUME NEW a \in Actors, NEW f, Forwards(a, f) PROVE NothingLost'
  BY <1>1, <1>2, <1>6, TransitStep DEF NothingLost, Forwards, Still
<1>7. ASSUME NEW a \in Actors, NEW f, Refused(a, f) PROVE FALSE
  BY <1>1, <1>7, TransitStep
<1>8. ASSUME NEW a \in Actors, NEW f, Discards(a, f) PROVE NothingLost'
  <2>1. f \in Transit /\ Transit' = Transit \ {f} /\ Intact
    BY <1>1, <1>8, TakenOnce, IntactSame DEF Discards
  <2> QED
    BY <1>1, <1>2, <1>8, <2>1 DEF NothingLost, Discards
<1>9. ASSUME NEW f, Arrives(f) PROVE NothingLost'
  <2>1. f \in Transit /\ Transit' = Transit \ {f} /\ Intact
    BY <1>1, <1>9, TakenOnce, IntactSame DEF Arrives
  <2>2. Delivered' = Delivered \cup {f}
    BY <1>9, DeliveredAppend DEF Arrives, Typed, TypeOK
  <2> QED
    BY <1>1, <1>9, <2>1, <2>2 DEF NothingLost, Arrives
<1> QED
  BY <1>1, <1>3, <1>4, <1>5, <1>6, <1>7, <1>8, <1>9 DEF Moves, NothingLost

\* While every receiving actor lives, each frame the source counted is
\* consumed, discarded or on its way, for any chain and schedule: a frame is
\* lost only where a stop, a failed start or a panic ends a receiver.
THEOREM NoFrameLost == Spec => []NothingLost
<1>1. Init => NothingLost
  <2>1. SUFFICES ASSUME Init PROVE 1..frameCounter = {} /\ Transit = {} /\ Delivered = {}
                                   /\ discarded = {}
    BY DEF NothingLost
  <2>2. \A a \in Actors : At(a) = {}
    BY <2>1 DEF Init, At, FramesIn
  <2> QED
    BY <2>1, <2>2 DEF Init, Transit, Delivered
<1>2. IInv /\ NothingLost /\ [Next]_vars => NothingLost'
  BY StepIInv, LossStep DEF IInv
<1>3. IInv /\ [Next]_vars => IInv'
  BY StepIInv
<1> QED
  BY InitIInv, <1>1, <1>2, <1>3, PTL DEF Spec

\* The chain implements the ordered pipe.
THEOREM Refinement == Spec => ImplementsPipe
<1>1. Init => Pipe!Init
  <2>1. SUFFICES ASSUME Init
                 PROVE  /\ frameCounter = 0 /\ Transit = {} /\ consumed = <<>>
                        /\ discarded = {} /\ Intact
    BY DEF Pipe!Init
  <2>2. \A a \in Actors : At(a) = {} /\ ~Ended(a)
    BY <2>1 DEF Init, At, FramesIn, Ended
  <2> QED
    BY <2>1, <2>2 DEF Init, Transit, Intact, Receivers, Actors
<1>2. IInv /\ [Next]_vars => [Pipe!Next]_Pipe!pipe
  <2>1. SUFFICES ASSUME Typed, Ordered, Moves PROVE [Pipe!Next]_Pipe!pipe
    BY StepIInv DEF IInv
  <2> USE ActorFacts
  <2>2. ASSUME Transit' = Transit, Intact' <=> Intact, Still PROVE UNCHANGED Pipe!pipe
    BY <2>2 DEF Still, Pipe!pipe
  <2>3. ASSUME Transit' \subseteq Transit, ~Intact', Still PROVE Pipe!Lose
    BY <2>3 DEF Still, Pipe!Lose
  <2>a. ASSUME Intact' <=> Intact PROVE Intact' = Intact
    BY <2>a DEF Intact
  <2>4. CASE Rests
    BY <2>1, <2>2, <2>4, TransitStep DEF Rests
  <2>5. CASE Enters
    <3>1. Transit' = Transit \cup {frameCounter + 1} /\ Intact' = Intact
      BY <2>1, <2>5, <2>a, TransitStep
    <3>2. Pipe!Produce
      BY <2>5, <3>1 DEF Enters, Pipe!Produce
    <3> QED
      BY <3>2 DEF Pipe!Next
  <2>6. ASSUME NEW a \in Actors, Ends(a) PROVE [Pipe!Next]_Pipe!pipe
    <3>1. CASE a = Source
      BY <2>1, <2>2, <2>6, <3>1, TransitStep DEF Ends
    <3>2. CASE a # Source
      BY <2>1, <2>3, <2>6, <3>2, TransitStep DEF Ends, Pipe!Next
    <3> QED
      BY <3>1, <3>2
  <2>7. ASSUME NEW a \in Actors, NEW f, Forwards(a, f) PROVE [Pipe!Next]_Pipe!pipe
    BY <2>1, <2>2, <2>7, TransitStep DEF Forwards
  <2>8. ASSUME NEW a \in Actors, NEW f, Refused(a, f) PROVE [Pipe!Next]_Pipe!pipe
    BY <2>1, <2>3, <2>8, TransitStep DEF Refused, Pipe!Next
  <2>9. ASSUME NEW a \in Actors, NEW f, Discards(a, f) PROVE [Pipe!Next]_Pipe!pipe
    <3>1. f \in Transit /\ Transit' = Transit \ {f} /\ Intact' = Intact
      BY <2>1, <2>9, <2>a, TakenOnce, IntactSame DEF Discards
    <3>2. Pipe!Discard
      BY <2>9, <3>1 DEF Discards, Pipe!Discard
    <3> QED
      BY <3>2 DEF Pipe!Next
  <2>10. ASSUME NEW f, Arrives(f) PROVE [Pipe!Next]_Pipe!pipe
    <3>1. /\ f \in Transit /\ Transit' = Transit \ {f} /\ Intact' = Intact
          /\ \A g \in Transit : f <= g
      BY <2>1, <2>10, <2>a, TakenOnce, IntactSame DEF Arrives
    <3>2. Pipe!Deliver
      BY <2>10, <3>1 DEF Arrives, Pipe!Deliver
    <3> QED
      BY <3>2 DEF Pipe!Next
  <2> QED
    BY <2>1, <2>4, <2>5, <2>6, <2>7, <2>8, <2>9, <2>10 DEF Moves
<1>3. IInv /\ [Next]_vars => IInv'
  BY StepIInv
<1> QED
  BY InitIInv, <1>1, <1>2, <1>3, PTL DEF Spec, ImplementsPipe, Pipe!Spec
=============================================================================

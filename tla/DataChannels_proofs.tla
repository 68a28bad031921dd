------------------------ MODULE DataChannels_proofs -------------------------
(***************************************************************************)
(* For any number of tasks, labels, shards and workers: the types of       *)
(* DataChannels, that a channel that was announced is in the map or about  *)
(* to get there, and that a worker more than there are tasks that insert   *)
(* is enough for the runtime never to stand still.                         *)
(***************************************************************************)
EXTENDS DataChannels, FiniteSetTheorems, TLAPS

\* A task with a channel in its hands: until it is idle again it has one.
InHand == \A t \in Inserters : pc[t] # "idle" => chan[t] # 0

IInv == TypeOK /\ InHand /\ AnnouncedOrAtHand

LEMMA InitIInv == Init => IInv
<1> SUFFICES ASSUME Init PROVE IInv
  OBVIOUS
<1>1. (CHOOSE l \in Labels : TRUE) \in Labels
  BY ShardAssumption
<1>2. TypeOK
  BY <1>1, BoundsAssumption DEF Init, TypeOK, States
<1> QED
  BY <1>2 DEF Init, IInv, InHand, AnnouncedOrAtHand, Inserters, Tasks

\* A sender touches nothing of the map.
LEMMA SenderStep ==
  ASSUME IInv, NEW t \in Senders,
         SendReturns(t) \/ \E l \in Labels : Send(t, l)
  PROVE  IInv'
<1> USE TasksAssumption, BoundsAssumption DEF IInv, Goto, At, Tasks, Inserters
<1>1. t # Callback /\ t \notin Inserters
  OBVIOUS
<1>2. CASE SendReturns(t)
  <2>1. TypeOK'
    BY <1>2 DEF SendReturns, TypeOK, States
  <2> QED
    BY <1>1, <1>2, <2>1 DEF SendReturns, TypeOK, InHand, AnnouncedOrAtHand
<1>3. CASE \E l \in Labels : Send(t, l)
  <2>1. PICK l \in Labels : Send(t, l)
    BY <1>3
  <2>2. TypeOK'
    BY <2>1 DEF Send, TypeOK, States
  <2> QED
    BY <1>1, <2>1, <2>2 DEF Send, TypeOK, InHand, AnnouncedOrAtHand
<1> QED
  BY <1>2, <1>3

\* A task that gets a channel was idle, so it had announced nothing that was
\* not in the map.
LEMMA NewChannelStep ==
  ASSUME IInv, NEW t \in Inserters, NEW l \in Labels, NewChannel(t, l),
         Goto(t, "inserting") \/ Goto(t, "announcing")
  PROVE  IInv'
<1> USE TasksAssumption, BoundsAssumption DEF IInv, Goto, At, Tasks, Inserters
<1>1. TypeOK'
  BY DEF NewChannel, TypeOK, States
<1>2. InHand'
  BY DEF NewChannel, TypeOK, InHand
<1>3. AnnouncedOrAtHand'
  BY DEF NewChannel, TypeOK, AnnouncedOrAtHand
<1> QED
  BY <1>1, <1>2, <1>3

LEMMA AnnounceStep == ASSUME IInv, Announce PROVE IInv'
<1> USE TasksAssumption, BoundsAssumption DEF IInv, Goto, At, Tasks, Inserters, Announce
<1>1. TypeOK'
  BY DEF TypeOK, States
<1>2. InHand'
  BY DEF TypeOK, InHand
<1>3. AnnouncedOrAtHand'
  BY DEF TypeOK, AnnouncedOrAtHand
<1> QED
  BY <1>1, <1>2, <1>3

\* What is stored is a channel, so the map loses none; the callback lets its
\* channel go only into the map.
LEMMA InsertStep ==
  ASSUME IInv, NEW t \in Inserters, Insert(t) \/ Unblock(t)
  PROVE  IInv'
<1> USE TasksAssumption, BoundsAssumption DEF IInv, Goto, At, Tasks, Inserters
<1>1. UNCHANGED <<opened, announced, label, chan, sends>> /\ pc[t] # "idle"
  BY DEF Insert, Unblock
<1>2. CASE Store(t)
  <2>1. TypeOK'
    BY <1>1, <1>2 DEF Store, TypeOK, States
  <2>2. InHand'
    BY <1>1, <1>2 DEF Store, TypeOK, InHand
  <2>3. AnnouncedOrAtHand'
    BY <1>1, <1>2 DEF Store, TypeOK, InHand, AnnouncedOrAtHand
  <2> QED
    BY <2>1, <2>2, <2>3
<1>3. CASE pc[t] = "inserting" /\ Goto(t, "blocked") /\ UNCHANGED channels
  BY <1>1, <1>3 DEF TypeOK, States, InHand, AnnouncedOrAtHand
<1> QED
  BY <1>2, <1>3 DEF Insert, Unblock

LEMMA StepIInv == IInv /\ [Next]_vars => IInv'
<1> SUFFICES ASSUME IInv, [Next]_vars PROVE IInv'
  OBVIOUS
<1>1. CASE \E t \in Senders : SendReturns(t) \/ \E l \in Labels : Send(t, l)
  BY <1>1, SenderStep
<1>2. CASE \E t \in Openers, l \in Labels : OpenChannel(t, l)
  BY <1>2, NewChannelStep DEF OpenChannel, Inserters
<1>3. CASE \E l \in Labels : ChannelArrives(l)
  BY <1>3, NewChannelStep DEF ChannelArrives, Inserters
<1>4. CASE Announce
  BY <1>4, AnnounceStep
<1>5. CASE \E t \in Inserters : Insert(t) \/ Unblock(t)
  BY <1>5, InsertStep
<1>6. CASE UNCHANGED vars
  BY <1>6 DEF vars, IInv, TypeOK, InHand, AnnouncedOrAtHand
<1> QED
  BY <1>1, <1>2, <1>3, <1>4, <1>5, <1>6 DEF Next, Quiet

\* A channel that was announced is in the map or in the hands of the callback,
\* which puts it there (transport.rs:157-158), for any number of tasks.
THEOREM AnnouncedAreAtHand == Spec => []AnnouncedOrAtHand
<1>1. IInv => AnnouncedOrAtHand
  BY DEF IInv
<1> QED
  BY InitIInv, StepIInv, <1>1, PTL DEF Spec

\* A sender is never on a worker between two awaits.
SendersWait == \A t \in Senders : pc[t] \in {"idle", "sending"}

LEMMA StepSendersWait == TypeOK /\ SendersWait /\ [Next]_vars => SendersWait'
<1> SUFFICES ASSUME TypeOK, SendersWait, [Next]_vars PROVE SendersWait'
  OBVIOUS
<1> USE TasksAssumption DEF Goto, At, Tasks, Inserters
<1>1. ASSUME NEW t \in Senders, SendReturns(t) \/ \E l \in Labels : Send(t, l)
      PROVE  SendersWait'
  BY <1>1 DEF SendReturns, Send, SendersWait, TypeOK
<1>2. ASSUME NEW t \in Inserters, NEW s \in States, Goto(t, s) PROVE SendersWait'
  BY <1>2 DEF SendersWait, TypeOK
<1>3. CASE \/ \E t \in Openers, l \in Labels : OpenChannel(t, l)
           \/ \E l \in Labels : ChannelArrives(l)
           \/ Announce
           \/ \E t \in Inserters : Insert(t) \/ Unblock(t)
  <2>1. \E t \in Inserters, s \in States : Goto(t, s)
    BY <1>3 DEF OpenChannel, ChannelArrives, Announce, Insert, Unblock, Store, States
  <2> QED
    BY <1>2, <2>1
<1>4. CASE UNCHANGED vars
  BY <1>4 DEF vars, SendersWait
<1> QED
  BY <1>1, <1>3, <1>4 DEF Next, Quiet

\* The workers can all be held by inserts (transport.rs:158, 217 and 228) only if
\* there are no more of them than tasks that insert.
THEOREM WorkersSuffice ==
  ASSUME Cardinality(Inserters) < Workers
  PROVE  Spec => []~WorkersHeld
<1>1. TypeOK /\ SendersWait => ~WorkersHeld
  <2> SUFFICES ASSUME TypeOK, SendersWait PROVE WorkerFree
    BY DEF WorkersHeld
  <2>1. Busy \subseteq Inserters
    BY DEF Busy, SendersWait, Tasks
  <2>2. IsFiniteSet(Inserters)
    BY TasksAssumption, FS_Union, FS_Singleton DEF Inserters
  <2>3. Cardinality(Busy) <= Cardinality(Inserters)
    BY <2>1, <2>2, FS_Subset
  <2>4. Cardinality(Busy) \in Nat /\ Cardinality(Inserters) \in Nat /\ Workers \in Nat
    BY <2>1, <2>2, FS_Subset, FS_CardinalityType, BoundsAssumption
  <2> QED
    BY <2>3, <2>4 DEF WorkerFree
<1>2. Init => SendersWait
  BY DEF Init, SendersWait, Tasks
<1>3. IInv => TypeOK
  BY DEF IInv
<1> QED
  BY InitIInv, StepIInv, StepSendersWait, <1>1, <1>2, <1>3, PTL DEF Spec
=============================================================================

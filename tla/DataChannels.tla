---------------------------- MODULE DataChannels ----------------------------
(***************************************************************************)
(* The directory of data channels of a WebRtcTransport (aiko-webrtc,       *)
(* transport.rs): a concurrent map from labels to channels that the        *)
(* callback for channels of the remote peer and open_channel insert into   *)
(* and send looks into.  A look-up holds the lock of a shard of the map    *)
(* for reading until send returns, over its await; an insert blocks the    *)
(* worker thread it runs on until it can lock the shard for writing.       *)
(* Between two awaits a task keeps its worker.                             *)
(***************************************************************************)
EXTENDS Naturals, FiniteSets

CONSTANTS
  Labels,       \* labels of data channels
  Shards,       \* the shards of the map
  ShardOf,      \* the shard a label falls into
  Senders,      \* application tasks that send
  Openers,      \* application tasks that open channels
  Callback,     \* the task that runs on_data_channel
  Workers,      \* number of worker threads of the runtime
  MaxChannels,  \* bound: channels opened by both peers
  MaxSends      \* bound: messages sent

ASSUME ShardAssumption == Labels # {} /\ ShardOf \in [Labels -> Shards]
ASSUME TasksAssumption ==
  /\ Senders \cap Openers = {} /\ Callback \notin Senders \cup Openers
  /\ IsFiniteSet(Senders) /\ IsFiniteSet(Openers)
ASSUME BoundsAssumption ==
  Workers \in Nat \ {0} /\ MaxChannels \in Nat /\ MaxSends \in Nat

VARIABLES
  channels,   \* the map: the number of the channel of a label, 0 if none
  opened,     \* number of channels so far
  announced,  \* the labels of the DataChannelOpened events
  pc,         \* where a task is
  label,      \* the label it is at
  chan,       \* the channel an inserting task has
  sends       \* number of sends so far, for the bound

vars == <<channels, opened, announced, pc, label, chan, sends>>

Inserters == Openers \cup {Callback}
Tasks == Senders \cup Inserters

\* "sending": send awaits dc.send with the shard locked for reading.
\* "announcing": the callback has set its handler.  "inserting": next is
\* channels.insert.  "blocked": in the insert, waiting for the lock.
States == {"idle", "sending", "announcing", "inserting", "blocked"}

Init ==
  /\ channels = [l \in Labels |-> 0]
  /\ opened = 0
  /\ announced = {}
  /\ pc = [t \in Tasks |-> "idle"]
  /\ label = [t \in Tasks |-> CHOOSE l \in Labels : TRUE]
  /\ chan = [t \in Inserters |-> 0]
  /\ sends = 0

At(t, s) == pc[t] = s
Goto(t, s) == pc' = [pc EXCEPT ![t] = s]

\* The tasks that are on a worker between two awaits; a blocked one stays
\* there.  Any other task needs a free worker for its next step.
Busy == {t \in Tasks : pc[t] \notin {"idle", "sending"}}
WorkerFree == Cardinality(Busy) < Workers

\* The tasks that hold a guard of the shard of label l.
Readers(l) == {t \in Senders : At(t, "sending") /\ ShardOf[label[t]] = ShardOf[l]}

-----------------------------------------------------------------------------
\* send: channels.get, then dc.send, which returns at once or awaits room in
\* the association's buffer.  An unknown label is an error.
Send(t, l) ==
  /\ WorkerFree /\ At(t, "idle") /\ sends < MaxSends
  /\ sends' = sends + 1
  /\ label' = [label EXCEPT ![t] = l]
  /\ \/ UNCHANGED pc
     \/ channels[l] # 0 /\ Goto(t, "sending")
  /\ UNCHANGED <<channels, opened, announced, chan>>

\* Deviation: a send that fails is repeated.
SendRepeats(t) == WorkerFree /\ At(t, "sending") /\ UNCHANGED vars
\* dc.send returns Ok or an error; the guard is dropped.
SendReturns(t) ==
  /\ WorkerFree /\ At(t, "sending")
  /\ Goto(t, "idle")
  /\ UNCHANGED <<channels, opened, announced, label, chan, sends>>

-----------------------------------------------------------------------------
NewChannel(t, l) ==
  /\ WorkerFree /\ At(t, "idle") /\ opened < MaxChannels
  /\ opened' = opened + 1
  /\ label' = [label EXCEPT ![t] = l]
  /\ chan' = [chan EXCEPT ![t] = opened + 1]
  /\ UNCHANGED <<channels, announced, sends>>

\* open_channel: create_data_channel has returned, on_message is set.
OpenChannel(t, l) == NewChannel(t, l) /\ Goto(t, "inserting")

\* on_data_channel: the remote peer has opened a channel.
ChannelArrives(l) == NewChannel(Callback, l) /\ Goto(Callback, "announcing")

\* DataChannelOpened is broadcast before the channel is in the map.
Announce ==
  /\ At(Callback, "announcing")
  /\ announced' = announced \cup {label[Callback]}
  /\ Goto(Callback, "inserting")
  /\ UNCHANGED <<channels, opened, label, chan, sends>>

Store(t) ==
  /\ channels' = [channels EXCEPT ![label[t]] = chan[t]]
  /\ Goto(t, "idle")

\* Deviation: an insert that finds the shard locked gives up.
TryInsert(t) ==
  /\ At(t, "inserting")
  /\ IF Readers(label[t]) = {} THEN Store(t) ELSE Goto(t, "idle") /\ UNCHANGED channels
  /\ UNCHANGED <<opened, announced, label, chan, sends>>
\* channels.insert
Insert(t) ==
  /\ At(t, "inserting")
  /\ IF Readers(label[t]) = {} THEN Store(t) ELSE Goto(t, "blocked") /\ UNCHANGED channels
  /\ UNCHANGED <<opened, announced, label, chan, sends>>

\* The last guard of the shard is dropped: the insert goes on.
Unblock(t) ==
  /\ At(t, "blocked") /\ Readers(label[t]) = {}
  /\ Store(t)
  /\ UNCHANGED <<opened, announced, label, chan, sends>>

\* Each worker is held by an insert that waits for a guard to be dropped, and
\* the send that holds the guard waits for a worker: the runtime stands still.
WorkersHeld ==
  ~WorkerFree /\ \A t \in Busy : At(t, "blocked") /\ Readers(label[t]) # {}

Quiet == ((\A t \in Tasks : At(t, "idle")) \/ WorkersHeld) /\ UNCHANGED vars

Next ==
  \/ \E t \in Senders : SendReturns(t) \/ \E l \in Labels : Send(t, l)
  \/ \E t \in Openers, l \in Labels : OpenChannel(t, l)
  \/ \E l \in Labels : ChannelArrives(l)
  \/ Announce
  \/ \E t \in Inserters : Insert(t) \/ Unblock(t)
  \/ Quiet

Spec == Init /\ [][Next]_vars

\* The runtime polls a ready task when a worker is free, the association
\* drains its buffer, and a writer is woken when the last reader leaves.
FairSpec ==
  /\ Spec
  /\ WF_vars(Announce)
  /\ \A t \in Senders : WF_vars(SendReturns(t))
  /\ \A t \in Inserters : WF_vars(Insert(t)) /\ WF_vars(Unblock(t))

-----------------------------------------------------------------------------
\* Every variable keeps its type.
TypeOK ==
  /\ channels \in [Labels -> 0..MaxChannels]
  /\ opened \in 0..MaxChannels
  /\ announced \subseteq Labels
  /\ pc \in [Tasks -> States] /\ label \in [Tasks -> Labels]
  /\ chan \in [Inserters -> 0..MaxChannels]
  /\ sends \in 0..MaxSends

\* A channel that was announced and is not in the map is in the hands of the
\* callback: whoever hears of it early can try again (transport.rs:157-158).
AnnouncedOrAtHand ==
  \A l \in announced :
    channels[l] # 0 \/ (pc[Callback] \in {"inserting", "blocked"} /\ label[Callback] = l)

\* A channel that one of the peers opened gets into the map while the
\* application does not send without end (transport.rs:158 and 217), unless all
\* the workers come to be held at once by inserts (transport.rs:228).
ChannelsAreFiled ==
  \A t \in Inserters : ~At(t, "idle") ~> (At(t, "idle") \/ WorkersHeld)
=============================================================================

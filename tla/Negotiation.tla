---------------------------- MODULE Negotiation ----------------------------
(***************************************************************************)
(* Two WebRtcEventLoops (aiko-webrtc, transport.rs) that negotiate over a  *)
(* signaling service: offers, answers and trickled ICE candidates.  A loop *)
(* runs one select! arm at a time, so between two awaits of an arm only    *)
(* the ICE callback of its own peer and the other loop take steps.  When   *)
(* and why a loop starts a reconnection attempt is WebRtcEventLoop's       *)
(* subject; here a loop with a strategy may do so once its connection has  *)
(* existed.  A description is known by the offer it belongs to.  The       *)
(* signaling service loses nothing and tells a loop when the other has     *)
(* gone; a message can be sent as long as it has not.                      *)
(***************************************************************************)
EXTENDS Naturals, Sequences, FiniteSets

CONSTANTS
  Peers,          \* the two peers
  Offerers,       \* those with role = PeerRole::Offerer
  Reconnecting,   \* those with a reconnect_strategy
  MaxRestarts,    \* bound: reconnection attempts of a peer
  MaxCandidates   \* bound: ICE candidates a peer gathers

ASSUME PeersAssumption == \E p, q \in Peers : p # q /\ Peers = {p, q}
ASSUME RolesAssumption == Offerers \subseteq Peers /\ Reconnecting \subseteq Peers
ASSUME BoundsAssumption == MaxRestarts \in Nat /\ MaxCandidates \in Nat

VARIABLES
  task,      \* where the loop of a peer is
  sig,       \* the signaling state of its connection
  local,     \* the offer its local description belongs to
  remote,    \* the offer its remote description belongs to
  offers,    \* number of offers it has created
  restarts,  \* number of its attempts, for the bound
  gathered,  \* number of candidates it has gathered, for the bound
  ice,       \* candidates between the ICE callback and the loop (ice_rx)
  wire       \* the signaling messages on their way to it

vars == <<task, sig, local, remote, offers, restarts, gathered, ice, wire>>

Other(p) == CHOOSE q \in Peers : q # p

\* "offering" and "answering": the local description is set and not yet sent.
\* The loop has returned Ok ("ended"), an error because a message was refused
\* or could not be sent ("failed"), or an error of a call that failed for a
\* reason of its own ("broken").
Tasks == {"starting", "selecting", "backoff", "offering", "answering",
          "ended", "failed", "broken"}
Returned(p) == task[p] \in {"ended", "failed", "broken"}

OfferIds == Peers \X (1..(MaxRestarts + 1))
None == <<>>
Description(k, o) == [kind |-> k, of |-> o]
Candidate == [kind |-> "candidate", of |-> None]
Messages == {Candidate} \cup [kind : {"offer", "answer"}, of : OfferIds]

Init ==
  /\ task = [p \in Peers |-> IF p \in Offerers THEN "starting" ELSE "selecting"]
  /\ sig = [p \in Peers |-> "stable"]
  /\ local = [p \in Peers |-> None]
  /\ remote = [p \in Peers |-> None]
  /\ offers = [p \in Peers |-> 0]
  /\ restarts = [p \in Peers |-> 0]
  /\ gathered = [p \in Peers |-> 0]
  /\ ice = [p \in Peers |-> 0]
  /\ wire = [p \in Peers |-> <<>>]

Goto(p, t) == task' = [task EXCEPT ![p] = t]

-----------------------------------------------------------------------------
\* create_offer and set_local_description: allowed in a stable connection and
\* in one whose last offer is not answered, which is every state a loop can be
\* in between two arms.
CreateOffer(p) ==
  /\ task[p] \in {"starting", "backoff"}
  /\ LET o == <<p, offers[p] + 1>> IN
       /\ offers' = [offers EXCEPT ![p] = @ + 1]
       /\ local' = [local EXCEPT ![p] = o]
  /\ sig' = [sig EXCEPT ![p] = "have-local-offer"]
  /\ Goto(p, "offering")
  /\ UNCHANGED <<remote, restarts, gathered, ice, wire>>

\* One of the two fails: the loop returns the error of its first offer, and
\* attempt_reconnect logs that of a later one.
OfferFails(p) ==
  /\ \/ task[p] = "starting" /\ Goto(p, "broken")
     \/ task[p] = "backoff" /\ Goto(p, "selecting")
  /\ UNCHANGED <<sig, local, remote, offers, restarts, gathered, ice, wire>>

\* signaling.send() while the loop at the other end runs.
Transmit(p, m) ==
  /\ ~Returned(Other(p))
  /\ wire' = [wire EXCEPT ![Other(p)] = Append(@, m)]

SendDescription(p) ==
  /\ \/ task[p] = "offering" /\ Transmit(p, Description("offer", local[p]))
     \/ task[p] = "answering" /\ Transmit(p, Description("answer", local[p]))
  /\ Goto(p, "selecting")
  /\ UNCHANGED <<sig, local, remote, offers, restarts, gathered, ice>>

\* The other loop is gone: the message is lost, or the error ends the loop,
\* except that attempt_reconnect logs it.
SendFails(p) ==
  /\ task[p] \in {"offering", "answering"}
  /\ Returned(Other(p))
  /\ \E t \in {"selecting", "failed"} : Goto(p, t)
  /\ UNCHANGED <<sig, local, remote, offers, restarts, gathered, ice, wire>>

\* attempt_reconnect up to the end of the backoff.  Either role attempts it.
Attempt(p) ==
  /\ task[p] = "selecting"
  /\ p \in Reconnecting
  /\ remote[p] # None
  /\ restarts[p] < MaxRestarts
  /\ restarts' = [restarts EXCEPT ![p] = @ + 1]
  /\ Goto(p, "backoff")
  /\ UNCHANGED <<sig, local, remote, offers, gathered, ice, wire>>

-----------------------------------------------------------------------------
\* signaling.recv() yields a message of kind k.
Receive(p, k) ==
  /\ task[p] = "selecting"
  /\ wire[p] # <<>>
  /\ Head(wire[p]).kind = k
  /\ wire' = [wire EXCEPT ![p] = Tail(@)]
  /\ UNCHANGED <<offers, restarts, gathered, ice>>

\* The connection, in the state it is in, refuses the message: the error leaves
\* the loop.
Fail(p) == Goto(p, "failed") /\ UNCHANGED <<sig, local, remote>>

\* Any call of an arm may fail for a reason of its own: what the message holds
\* cannot be parsed, no answer can be made or set, the candidate is not one.
\* Nobody looks at what the connection has taken by then.
Break(p) == Goto(p, "broken") /\ UNCHANGED <<sig, local, remote>>

\* set_remote_description, create_answer and set_local_description.
AcceptOffer(p) ==
  /\ sig[p] = "stable"
  /\ remote' = [remote EXCEPT ![p] = Head(wire[p]).of]
  /\ local' = [local EXCEPT ![p] = Head(wire[p]).of]
  /\ Goto(p, "answering")
  /\ UNCHANGED sig

\* Deviation: an offer that crosses one's own is dropped.
HandleOfferDropping(p) ==
  /\ Receive(p, "offer")
  /\ \/ AcceptOffer(p) \/ Break(p)
     \/ sig[p] # "stable" /\ UNCHANGED <<task, sig, local, remote>>
HandleOffer(p) ==
  /\ Receive(p, "offer")
  /\ AcceptOffer(p) \/ (sig[p] # "stable" /\ Fail(p)) \/ Break(p)

\* The connection does not compare an answer with the offer it is set on.
AcceptAnswer(p) ==
  /\ sig[p] = "have-local-offer"
  /\ remote' = [remote EXCEPT ![p] = Head(wire[p]).of]
  /\ sig' = [sig EXCEPT ![p] = "stable"]
  /\ UNCHANGED <<task, local>>

\* Deviation: an unexpected answer is dropped.
HandleAnswerLenient(p) ==
  /\ Receive(p, "answer")
  /\ \/ AcceptAnswer(p)
     \/ sig[p] # "have-local-offer" /\ UNCHANGED <<task, sig, local, remote>>
HandleAnswer(p) ==
  /\ Receive(p, "answer")
  /\ AcceptAnswer(p) \/ (sig[p] # "have-local-offer" /\ Fail(p)) \/ Break(p)

\* add_ice_candidate needs a remote description.
HandleCandidate(p) ==
  /\ Receive(p, "candidate")
  /\ \/ IF remote[p] # None THEN UNCHANGED <<task, sig, local, remote>> ELSE Fail(p)
     \/ Break(p)

\* recv() says ChannelClosed: the loop ends and closes its peer.
SignalClosed(p) ==
  /\ task[p] = "selecting"
  /\ Returned(Other(p)) /\ wire[p] = <<>>
  /\ Goto(p, "ended")
  /\ UNCHANGED <<sig, local, remote, offers, restarts, gathered, ice, wire>>

\* recv() says anything else that is not a message: the error leaves the loop.
SignalFails(p) ==
  /\ task[p] = "selecting"
  /\ Break(p)
  /\ UNCHANGED <<offers, restarts, gathered, ice, wire>>

-----------------------------------------------------------------------------
CanGather(p) ==
  /\ local[p] # None /\ ~Returned(p)
  /\ gathered[p] < MaxCandidates
  /\ gathered' = [gathered EXCEPT ![p] = @ + 1]

\* Deviation: the callback sends the candidate itself.
GatherAndSend(p) ==
  /\ CanGather(p)
  /\ Transmit(p, Candidate)
  /\ UNCHANGED <<task, sig, local, remote, offers, restarts, ice>>
\* on_ice_candidate: from the moment the local description is set.
Gather(p) ==
  /\ CanGather(p)
  /\ ice' = [ice EXCEPT ![p] = @ + 1]
  /\ UNCHANGED <<task, sig, local, remote, offers, restarts, wire>>

\* ice_rx.recv()
ForwardCandidate(p) ==
  /\ task[p] = "selecting"
  /\ ice[p] > 0
  /\ ice' = [ice EXCEPT ![p] = @ - 1]
  /\ \/ Transmit(p, Candidate) /\ UNCHANGED task
     \/ Returned(Other(p)) /\ (\E t \in {"selecting", "failed"} : Goto(p, t)) /\ UNCHANGED wire
  /\ UNCHANGED <<sig, local, remote, offers, restarts, gathered>>

\* Nothing is left to do.
Waiting(p) == task[p] = "selecting" /\ ice[p] = 0 /\ wire[p] = <<>>
Quiet == \A p \in Peers : Returned(p) \/ (Waiting(p) /\ ~Returned(Other(p)))
Idle == Quiet /\ UNCHANGED vars

Step(p) ==
  \/ CreateOffer(p) \/ OfferFails(p) \/ SendDescription(p) \/ SendFails(p)
  \/ HandleOffer(p) \/ HandleAnswer(p) \/ HandleCandidate(p) \/ SignalClosed(p)
  \/ ForwardCandidate(p)

Next == (\E p \in Peers : Step(p) \/ Attempt(p) \/ Gather(p) \/ SignalFails(p)) \/ Idle

Spec == Init /\ [][Next]_vars

\* A loop runs as long as it has something to do; its attempts and its
\* candidates are bounded, so its messages get their turn.
FairSpec == Spec /\ \A p \in Peers : WF_vars(Step(p))

-----------------------------------------------------------------------------
\* A candidate never overtakes the description it belongs to: the loop that
\* receives it has a remote description, because the sender's loop drains
\* ice_rx only after it has sent its own (transport.rs:339, 443-451, 358-363).
CandidatesFollow ==
  \A p \in Peers :
    ~Returned(p) /\ wire[p] # <<>> /\ Head(wire[p]) = Candidate => remote[p] # None

\* When two running loops have nothing left to do, both connections are
\* stable and hold the two halves of one and the same negotiation, whatever
\* offers crossed and whatever answers came late: a loop that could be left
\* with the wrong half has returned an error.
Agreed == \A p, q \in Peers : sig[p] = "stable" /\ local[p] = remote[q]
SessionsAgree == Quiet /\ (\A p \in Peers : ~Returned(p)) => Agreed

\* No call has failed for a reason of its own and ended its loop.
Unbroken == \A p \in Peers : task[p] # "broken"

\* No loop is left to wait for the other (the Offer and Answer arms, 322,
\* 386-393): in the end they have agreed on one description, or both have
\* returned, whatever was refused, whichever offer was never answered and
\* whichever call failed.
NegotiationCompletes ==
  <>[](\/ Agreed /\ \A p \in Peers : ~Returned(p) /\ local[p] # None
       \/ \A p \in Peers : Returned(p))

\* Only the offerer has attempted to reconnect, and once.
OneSided == \A p \in Peers : restarts[p] <= IF p \in Offerers THEN 1 ELSE 0

\* As long as only the offerer has attempted to reconnect, and once, and no
\* call fails for a reason of its own, no description and no candidate is
\* refused and neither loop returns an error.
OneSidedSurvives == OneSided /\ Unbroken => \A p \in Peers : task[p] # "failed"

\* "Auto-reconnection with exponential backoff and ICE restart on connection
\* failure" (README.md): negotiating again does not end a loop with an error
\* of its own.
LoopsSurvive == Unbroken => \A p \in Peers : task[p] # "failed"
=============================================================================

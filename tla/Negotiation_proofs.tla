------------------------- MODULE Negotiation_proofs -------------------------
(***************************************************************************)
(* For any roles, any number of restarts and of candidates: a candidate    *)
(* that a running loop receives finds a remote description, and two loops  *)
(* with nothing left to do agree on one session.  If not both are          *)
(* offerers, and while only the offerer restarts, no message is refused.   *)
(***************************************************************************)
EXTENDS Negotiation, SequenceTheorems, TLAPS

Ids == (Peers \X Nat) \cup {None}
Said == [kind : {"offer", "answer", "candidate"}, of : Ids]

Typed ==
  /\ task \in [Peers -> Tasks]
  /\ local \in [Peers -> Ids] /\ remote \in [Peers -> Ids]
  /\ offers \in [Peers -> Nat] /\ ice \in [Peers -> Nat]
  /\ wire \in [Peers -> Seq(Said)]

Telling(p) == task[p] \in {"offering", "answering"}

\* Who is about to send a description has one, who has candidates has one, and
\* what is said of a negotiation names an offer.
HasLocal ==
  /\ \A p \in Peers : Telling(p) \/ ice[p] > 0 => local[p] # None
  /\ \A p \in Peers : \A i \in 1..Len(wire[p]) :
       wire[p][i].kind # "candidate" => wire[p][i].of # None

\* Until p has a remote description the oldest message to it is a description;
\* and there is one, if the other has a local description and is not about to
\* send it.
Waits(p) ==
  /\ wire[p] # <<>> => Head(wire[p]).kind # "candidate"
  /\ local[Other(p)] # None /\ ~Telling(Other(p)) => wire[p] # <<>>

IInv ==
  /\ Typed /\ HasLocal
  /\ \A p \in Peers : Returned(p) \/ remote[p] # None \/ Waits(p)

LEMMA OtherPeer ==
  ASSUME NEW p \in Peers
  PROVE  Other(p) \in Peers /\ Other(p) # p /\ Other(Other(p)) = p
         /\ \A q \in Peers : q = p \/ q = Other(p)
<1>1. PICK q \in Peers : q # p /\ Peers = {p, q}
  BY PeersAssumption
<1>2. Other(p) = q
  BY <1>1 DEF Other
<1>3. Other(q) = p
  BY <1>1 DEF Other
<1> QED
  BY <1>1, <1>2, <1>3

LEMMA InitIInv == Init => IInv
<1> SUFFICES ASSUME Init PROVE IInv
  OBVIOUS
<1>1. \A q \in Peers : local[q] = None /\ remote[q] = None /\ ice[q] = 0 /\ wire[q] = <<>>
  BY DEF Init
<1>2. \A q \in Peers : task[q] \in {"starting", "selecting"}
  BY DEF Init
<1>3. Typed
  <2>1. None \in Ids
    BY DEF Ids
  <2>2. \A S : <<>> \in Seq(S)
    OBVIOUS
  <2>3. task \in [Peers -> Tasks]
    BY DEF Init, Tasks
  <2> QED
    BY <2>1, <2>2, <2>3 DEF Init, Typed
<1>4. HasLocal
  BY <1>1, <1>2 DEF HasLocal, Telling
<1>5. \A q \in Peers : Waits(q)
  BY <1>1, OtherPeer DEF Waits
<1> QED
  BY <1>3, <1>4, <1>5 DEF IInv

LEMMA CreateOfferKeeps == ASSUME IInv, NEW p \in Peers, CreateOffer(p) PROVE IInv'
<1> DEFINE o == <<p, offers[p] + 1>>
<1>1. o \in Ids /\ o # None
  BY DEF IInv, Typed, Ids, None
<1>2. /\ local' = [local EXCEPT ![p] = o] /\ task' = [task EXCEPT ![p] = "offering"]
      /\ offers' = [offers EXCEPT ![p] = offers[p] + 1]
      /\ UNCHANGED <<remote, ice, wire>>
  BY DEF CreateOffer, Goto
<1> HIDE DEF o
<1>3. Typed'
  BY <1>1, <1>2 DEF IInv, Typed, Tasks
<1>4. HasLocal'
  BY <1>1, <1>2 DEF IInv, Typed, HasLocal, Telling
<1>5. ~Returned(p)
  BY DEF CreateOffer, Returned
<1>6. ASSUME NEW q \in Peers PROVE Returned(q)' \/ remote'[q] # None \/ Waits(q)'
  BY <1>2, <1>5, OtherPeer DEF IInv, Typed, Returned, Waits, Telling
<1> QED
  BY <1>3, <1>4, <1>6 DEF IInv

-----------------------------------------------------------------------------
\* A message to the other peer: it may be a candidate only if the other has a
\* remote description or is told of one before.
LEMMA TransmitKeepsTypes ==
  ASSUME IInv, NEW p \in Peers, NEW m \in Said, Transmit(p, m),
         m.kind # "candidate" => m.of # None
  PROVE  /\ wire' \in [Peers -> Seq(Said)]
         /\ \A q \in Peers : \A i \in 1..Len(wire'[q]) :
              wire'[q][i].kind # "candidate" => wire'[q][i].of # None
         /\ wire'[p] = wire[p]
         /\ wire'[Other(p)] # <<>>
         /\ Head(wire'[Other(p)]) = IF wire[Other(p)] = <<>> THEN m ELSE Head(wire[Other(p)])
<1> DEFINE q == Other(p)
<1>1. q \in Peers /\ q # p /\ wire[q] \in Seq(Said)
  BY OtherPeer DEF IInv, Typed
<1>2. wire' = [wire EXCEPT ![q] = Append(wire[q], m)]
  BY DEF Transmit
<1>3. wire'[q] = Append(wire[q], m) /\ \A r \in Peers : r # q => wire'[r] = wire[r]
  BY <1>1, <1>2 DEF IInv, Typed
<1> HIDE DEF q
<1>4. Append(wire[q], m) \in Seq(Said) /\ Append(wire[q], m) # <<>>
      /\ Head(Append(wire[q], m)) = IF wire[q] = <<>> THEN m ELSE Head(wire[q])
  <2>1. Append(wire[q], m) \in Seq(Said) /\ Len(Append(wire[q], m)) = Len(wire[q]) + 1
    BY <1>1
  <2>2. Head(Append(wire[q], m)) = Append(wire[q], m)[1]
    BY <2>1
  <2>3. CASE wire[q] = <<>>
    BY <1>1, <2>1, <2>2, <2>3
  <2>4. CASE wire[q] # <<>>
    <3>1. Len(wire[q]) \in Nat \ {0} /\ Head(wire[q]) = wire[q][1]
      BY <1>1, <2>4
    <3>2. Append(wire[q], m)[1] = wire[q][1]
      BY <1>1, <3>1
    <3>3. Append(wire[q], m) # <<>>
      BY <1>1, <2>1, <3>1
    <3> QED
      BY <2>1, <2>2, <2>4, <3>1, <3>2, <3>3
  <2> QED
    BY <2>3, <2>4
<1>5. \A i \in 1..Len(Append(wire[q], m)) :
        \/ i \in 1..Len(wire[q]) /\ Append(wire[q], m)[i] = wire[q][i]
        \/ Append(wire[q], m)[i] = m
  BY <1>1
<1>6. \A r \in Peers : \A i \in 1..Len(wire'[r]) :
        wire'[r][i].kind # "candidate" => wire'[r][i].of # None
  BY <1>1, <1>3, <1>5 DEF IInv, HasLocal
<1>7. wire' \in [Peers -> Seq(Said)]
  BY <1>1, <1>2, <1>4 DEF IInv, Typed
<1> QED
  BY <1>1, <1>3, <1>4, <1>6, <1>7 DEF q

LEMMA SendDescriptionKeeps == ASSUME IInv, NEW p \in Peers, SendDescription(p) PROVE IInv'
<1> DEFINE q == Other(p)
<1>1. PICK k \in {"offer", "answer"} : Transmit(p, Description(k, local[p]))
  BY DEF SendDescription
<1>2. local[p] # None /\ local[p] \in Ids /\ Telling(p)
  BY DEF IInv, Typed, HasLocal, SendDescription, Telling
<1>3. Description(k, local[p]) \in Said
  BY <1>2 DEF Description, Said
<1>4. Description(k, local[p]).kind = k /\ Description(k, local[p]).of = local[p]
  BY DEF Description
<1>5. /\ wire' \in [Peers -> Seq(Said)]
      /\ \A r \in Peers : \A i \in 1..Len(wire'[r]) :
           wire'[r][i].kind # "candidate" => wire'[r][i].of # None
      /\ wire'[p] = wire[p] /\ wire'[q] # <<>>
      /\ Head(wire'[q]) = IF wire[q] = <<>> THEN Description(k, local[p]) ELSE Head(wire[q])
  BY <1>1, <1>2, <1>3, <1>4, TransmitKeepsTypes
<1>6. /\ task' = [task EXCEPT ![p] = "selecting"]
      /\ UNCHANGED <<local, remote, offers, ice>>
  BY DEF SendDescription, Goto
<1>7. Typed'
  BY <1>5, <1>6 DEF IInv, Typed, Tasks
<1>8. HasLocal'
  BY <1>5, <1>6 DEF IInv, Typed, HasLocal, Telling
<1>9. q \in Peers /\ q # p /\ Other(q) = p /\ \A r \in Peers : r = p \/ r = q
  BY OtherPeer
<1> HIDE DEF q
<1>10. Returned(p)' \/ remote'[p] # None \/ Waits(p)'
  <2>1. Other(p) = q
    BY DEF q
  <2> QED
    BY <1>2, <1>5, <1>6, <1>9, <2>1 DEF IInv, Typed, Returned, Waits, Telling
<1>11. Returned(q)' \/ remote'[q] # None \/ Waits(q)'
  <2>1. CASE wire[q] = <<>>
    BY <1>4, <1>5, <1>9, <2>1 DEF Waits
  <2>2. CASE wire[q] # <<>>
    BY <1>5, <1>6, <1>9, <2>2 DEF IInv, Typed, Returned, Waits
  <2> QED
    BY <2>1, <2>2
<1> QED
  BY <1>7, <1>8, <1>9, <1>10, <1>11 DEF IInv

LEMMA ForwardCandidateKeeps == ASSUME IInv, NEW p \in Peers, ForwardCandidate(p) PROVE IInv'
<1> DEFINE q == Other(p)
<1>1. /\ task[p] = "selecting" /\ ice[p] > 0 /\ local[p] # None
      /\ ice' = [ice EXCEPT ![p] = ice[p] - 1]
      /\ UNCHANGED <<local, remote, offers>>
  BY DEF ForwardCandidate, IInv, HasLocal
<1>2. q \in Peers /\ q # p /\ Other(q) = p /\ \A r \in Peers : r = p \/ r = q
  BY OtherPeer
<1>3. ice' \in [Peers -> Nat] /\ \A r \in Peers : ice'[r] > 0 => ice[r] > 0
  BY <1>1 DEF IInv, Typed
<1>4. CASE Transmit(p, Candidate) /\ UNCHANGED task
  <2>1. Candidate \in Said /\ Candidate.kind = "candidate"
    BY DEF Candidate, Said, Ids
  <2>2. /\ wire' \in [Peers -> Seq(Said)]
        /\ \A r \in Peers : \A i \in 1..Len(wire'[r]) :
             wire'[r][i].kind # "candidate" => wire'[r][i].of # None
        /\ wire'[p] = wire[p] /\ wire'[q] # <<>>
        /\ Head(wire'[q]) = IF wire[q] = <<>> THEN Candidate ELSE Head(wire[q])
    BY <1>4, <2>1, TransmitKeepsTypes
  <2>3. Typed' /\ HasLocal'
    BY <1>1, <1>3, <1>4, <2>2 DEF IInv, Typed, HasLocal, Telling
  <2>4. ASSUME Waits(q) PROVE wire[q] # <<>>
    BY <1>1, <1>2, <2>4 DEF Waits, Telling
  <2>5. Returned(q)' \/ remote'[q] # None \/ Waits(q)'
    BY <1>1, <1>2, <1>4, <2>2, <2>4 DEF IInv, Returned, Waits
  <2>6. Returned(p)' \/ remote'[p] # None \/ Waits(p)'
    BY <1>1, <1>2, <1>4, <2>2 DEF IInv, Returned, Waits, Telling
  <2> QED
    BY <1>2, <2>3, <2>5, <2>6 DEF IInv
<1>5. CASE Returned(q) /\ (\E t \in {"selecting", "failed"} : Goto(p, t)) /\ UNCHANGED wire
  <2>1. /\ task' \in [Peers -> Tasks] /\ task'[q] = task[q]
        /\ task'[p] \in {"selecting", "failed"}
    BY <1>2, <1>5 DEF Goto, IInv, Typed, Tasks
  <2>2. Typed' /\ HasLocal'
    BY <1>1, <1>2, <1>3, <1>5, <2>1 DEF IInv, Typed, HasLocal, Telling
  <2>3. Returned(q)'
    BY <1>5, <2>1 DEF Returned
  <2>4. Returned(p)' \/ remote'[p] # None \/ Waits(p)'
    BY <1>1, <1>2, <1>5, <2>1 DEF IInv, Returned, Waits, Telling
  <2> QED
    BY <1>2, <2>2, <2>3, <2>4 DEF IInv
<1> QED
  BY <1>4, <1>5 DEF ForwardCandidate

-----------------------------------------------------------------------------
\* An arm that takes the oldest message: what is left is of the same kinds, and
\* p has returned, or has a remote description, when it is done.
LEMMA ReceiveKeeps ==
  ASSUME IInv, NEW p \in Peers, NEW k \in {"offer", "answer", "candidate"}, Receive(p, k),
         task' \in [Peers -> Tasks], local' \in [Peers -> Ids], remote' \in [Peers -> Ids],
         \A r \in Peers \ {p} :
           task'[r] = task[r] /\ local'[r] = local[r] /\ remote'[r] = remote[r],
         local[p] # None \/ Telling(p)' => local'[p] # None,
         task'[p] \in {"failed", "broken"} \/ remote'[p] # None,
         local'[p] # local[p] => Telling(p)'
  PROVE  IInv'
<1> DEFINE q == Other(p)
<1>1. q \in Peers /\ q # p /\ Other(q) = p /\ \A r \in Peers : r = p \/ r = q
  BY OtherPeer
<1>2. /\ wire[p] \in Seq(Said) /\ wire[p] # <<>>
      /\ wire' = [wire EXCEPT ![p] = Tail(wire[p])] /\ UNCHANGED <<offers, ice>>
      /\ task[p] = "selecting"
  BY DEF Receive, IInv, Typed
<1>3. Tail(wire[p]) \in Seq(Said)
      /\ \A i \in 1..Len(Tail(wire[p])) :
           i + 1 \in 1..Len(wire[p]) /\ Tail(wire[p])[i] = wire[p][i + 1]
  BY <1>2
<1>4. wire'[p] = Tail(wire[p]) /\ wire'[q] = wire[q]
  BY <1>1, <1>2 DEF IInv, Typed
<1>5. Typed'
  BY <1>2, <1>3 DEF IInv, Typed
<1>6. HasLocal'
  <2>1. \A r \in Peers : Telling(r)' \/ ice'[r] > 0 => local'[r] # None
    BY <1>2 DEF IInv, HasLocal, Telling
  <2>2. \A r \in Peers : \A i \in 1..Len(wire'[r]) :
          wire'[r][i].kind # "candidate" => wire'[r][i].of # None
    <3>1. \A r \in Peers : \A i \in 1..Len(wire[r]) :
            wire[r][i].kind # "candidate" => wire[r][i].of # None
      BY DEF IInv, HasLocal
    <3>2. \A i \in 1..Len(Tail(wire[p])) :
            Tail(wire[p])[i].kind # "candidate" => Tail(wire[p])[i].of # None
      BY <1>3, <3>1
    <3>3. \A i \in 1..Len(wire'[p]) :
            wire'[p][i].kind # "candidate" => wire'[p][i].of # None
      BY <1>4, <3>2
    <3>4. \A i \in 1..Len(wire'[q]) :
            wire'[q][i].kind # "candidate" => wire'[q][i].of # None
      BY <1>1, <1>4, <3>1
    <3> HIDE DEF q
    <3> QED
      BY <1>1, <3>3, <3>4
  <2> QED
    BY <2>1, <2>2 DEF HasLocal
<1>7. Returned(p)' \/ remote'[p] # None
  BY DEF Returned
<1>8. Returned(q)' \/ remote'[q] # None \/ Waits(q)'
  <2>1. ASSUME Waits(q), Other(q) = p PROVE Waits(q)'
    BY <1>1, <1>2, <1>4, <2>1 DEF Waits, Telling
  <2> QED
    BY <1>1, <2>1 DEF IInv, Returned
<1> QED
  BY <1>1, <1>5, <1>6, <1>7, <1>8 DEF IInv

\* What stands first in the mail of a loop.
LEMMA FirstMessage ==
  ASSUME IInv, NEW p \in Peers, wire[p] # <<>>
  PROVE  /\ Head(wire[p]) \in Said
         /\ Head(wire[p]).kind # "candidate" => Head(wire[p]).of \in Ids \ {None}
<1>1. wire[p] \in Seq(Said) /\ 1 \in 1..Len(wire[p]) /\ Head(wire[p]) = wire[p][1]
  BY DEF IInv, Typed
<1>2. wire[p][1].kind # "candidate" => wire[p][1].of # None
  BY <1>1 DEF IInv, HasLocal
<1>3. wire[p][1] \in Said
  BY <1>1
<1>4. \A m \in Said : m.of \in Ids
  BY DEF Said
<1> QED
  BY <1>1, <1>2, <1>3, <1>4

LEMMA FailKeeps ==
  ASSUME IInv, NEW p \in Peers, NEW k \in {"offer", "answer", "candidate"},
         Receive(p, k), Fail(p) \/ Break(p)
  PROVE  IInv'
<1>1. PICK t \in {"failed", "broken"} : task' = [task EXCEPT ![p] = t]
  BY DEF Fail, Break, Goto
<1>2. UNCHANGED <<local, remote>>
  BY DEF Fail, Break
<1>3. /\ task' \in [Peers -> Tasks] /\ local' \in [Peers -> Ids] /\ remote' \in [Peers -> Ids]
      /\ task'[p] = t /\ \A r \in Peers \ {p} : task'[r] = task[r]
  BY <1>1, <1>2 DEF IInv, Typed, Tasks
<1>4. ~Telling(p)'
  BY <1>3 DEF Telling
<1> QED
  BY <1>2, <1>3, <1>4, ReceiveKeeps

LEMMA HandlersKeep ==
  ASSUME IInv, NEW p \in Peers, HandleOffer(p) \/ HandleAnswer(p) \/ HandleCandidate(p)
  PROVE  IInv'
<1> DEFINE o == Head(wire[p]).of
<1>1. CASE HandleOffer(p) /\ ~Fail(p) /\ ~Break(p)
  <2>1. /\ Receive(p, "offer") /\ Head(wire[p]).kind = "offer" /\ wire[p] # <<>>
        /\ remote' = [remote EXCEPT ![p] = o] /\ local' = [local EXCEPT ![p] = o]
        /\ task' = [task EXCEPT ![p] = "answering"]
    BY <1>1 DEF HandleOffer, AcceptOffer, Receive, Goto
  <2>2. o \in Ids \ {None}
    BY <2>1, FirstMessage
  <2> HIDE DEF o
  <2>3. /\ task' \in [Peers -> Tasks] /\ local' \in [Peers -> Ids] /\ remote' \in [Peers -> Ids]
        /\ \A r \in Peers \ {p} :
             task'[r] = task[r] /\ local'[r] = local[r] /\ remote'[r] = remote[r]
        /\ local'[p] = o /\ remote'[p] = o /\ task'[p] = "answering"
    BY <2>1, <2>2 DEF IInv, Typed, Tasks
  <2>4. Telling(p)'
    BY <2>3 DEF Telling
  <2> QED
    BY <2>1, <2>2, <2>3, <2>4, ReceiveKeeps
<1>2. CASE HandleAnswer(p) /\ ~Fail(p) /\ ~Break(p)
  <2>1. /\ Receive(p, "answer") /\ Head(wire[p]).kind = "answer" /\ wire[p] # <<>>
        /\ remote' = [remote EXCEPT ![p] = o] /\ UNCHANGED <<task, local>>
        /\ task[p] = "selecting"
    BY <1>2 DEF HandleAnswer, AcceptAnswer, Receive
  <2>2. o \in Ids \ {None}
    BY <2>1, FirstMessage
  <2> HIDE DEF o
  <2>3. /\ task' \in [Peers -> Tasks] /\ local' \in [Peers -> Ids] /\ remote' \in [Peers -> Ids]
        /\ \A r \in Peers \ {p} :
             task'[r] = task[r] /\ local'[r] = local[r] /\ remote'[r] = remote[r]
        /\ local'[p] = local[p] /\ remote'[p] = o
    BY <2>1, <2>2 DEF IInv, Typed
  <2>4. ~Telling(p)'
    BY <2>1 DEF Telling
  <2> QED
    BY <2>1, <2>2, <2>3, <2>4, ReceiveKeeps
<1>3. CASE HandleCandidate(p) /\ ~Fail(p) /\ ~Break(p)
  <2>1. /\ Receive(p, "candidate") /\ UNCHANGED <<task, local, remote>>
        /\ task[p] = "selecting" /\ remote[p] # None
    BY <1>3 DEF HandleCandidate, Receive
  <2>2. ~Telling(p)'
    BY <2>1 DEF Telling
  <2>3. /\ task' \in [Peers -> Tasks] /\ local' \in [Peers -> Ids] /\ remote' \in [Peers -> Ids]
        /\ \A r \in Peers \ {p} :
             task'[r] = task[r] /\ local'[r] = local[r] /\ remote'[r] = remote[r]
        /\ local'[p] = local[p] /\ remote'[p] # None
    BY <1>3, <2>1 DEF IInv, Typed
  <2> QED
    BY <2>1, <2>2, <2>3, ReceiveKeeps
<1>4. \E k \in {"offer", "answer", "candidate"} : Receive(p, k)
  BY DEF HandleOffer, HandleAnswer, HandleCandidate
<1> QED
  BY <1>1, <1>2, <1>3, <1>4, FailKeeps

\* The loop of p goes somewhere it tells nothing, or a candidate is found.
LEMMA ElsewhereKeeps ==
  ASSUME IInv, NEW p \in Peers,
         SendFails(p) \/ SignalClosed(p) \/ OfferFails(p)
           \/ Attempt(p) \/ Gather(p) \/ SignalFails(p)
  PROVE  IInv'
<1>1. UNCHANGED <<local, remote, offers, wire>>
  BY DEF SendFails, SignalClosed, OfferFails, Attempt, Gather, CanGather, SignalFails, Break
<1>2. CASE Gather(p)
  <2>1. /\ local[p] # None /\ task' = task /\ ice' = [ice EXCEPT ![p] = ice[p] + 1]
    BY <1>2 DEF Gather, CanGather
  <2>2. Typed' /\ HasLocal'
    BY <1>1, <2>1 DEF IInv, Typed, HasLocal, Telling
  <2> QED
    BY <1>1, <2>1, <2>2 DEF IInv, Returned, Waits, Telling
<1>3. CASE SendFails(p) \/ SignalClosed(p)
  <2> DEFINE q == Other(p)
  <2>1. q \in Peers /\ q # p /\ Other(q) = p /\ \A r \in Peers : r = p \/ r = q
    BY OtherPeer
  <2>2. Returned(q) /\ ice' = ice /\ ~Returned(p)
        /\ \E t \in {"selecting", "failed", "ended"} : task' = [task EXCEPT ![p] = t]
    BY <1>3 DEF SendFails, SignalClosed, Goto, Returned
  <2>3. /\ task' \in [Peers -> Tasks] /\ task'[q] = task[q]
        /\ task'[p] \in {"selecting", "failed", "ended"}
    BY <2>1, <2>2 DEF IInv, Typed, Tasks
  <2>4. Typed' /\ HasLocal'
    BY <1>1, <2>1, <2>2, <2>3 DEF IInv, Typed, HasLocal, Telling
  <2>5. Returned(q)'
    BY <2>2, <2>3 DEF Returned
  <2>6. Returned(p)' \/ remote'[p] # None \/ Waits(p)'
    BY <1>1, <2>1, <2>2, <2>3 DEF IInv, Returned, Waits, Telling
  <2> QED
    BY <2>1, <2>4, <2>5, <2>6 DEF IInv
<1>4. CASE OfferFails(p) \/ Attempt(p) \/ SignalFails(p)
  <2>1. PICK t \in {"selecting", "backoff", "broken"} : task' = [task EXCEPT ![p] = t]
    BY <1>4 DEF OfferFails, Attempt, SignalFails, Break, Goto
  <2>0. ice' = ice /\ task[p] \in {"starting", "backoff", "selecting"}
    BY <1>4 DEF OfferFails, Attempt, SignalFails
  <2>2. /\ task' \in [Peers -> Tasks] /\ task'[p] = t
        /\ \A r \in Peers \ {p} : task'[r] = task[r]
    BY <2>1 DEF IInv, Typed, Tasks
  <2>3. \A r \in Peers : Telling(r)' = Telling(r) /\ (Returned(r) => Returned(r)')
    BY <2>0, <2>2 DEF Telling, Returned
  <2>4. Typed' /\ HasLocal'
    BY <1>1, <2>0, <2>2, <2>3 DEF IInv, Typed, HasLocal
  <2>5. \A r \in Peers : Waits(r) => Waits(r)'
    BY <1>1, <2>3, OtherPeer DEF Waits
  <2> QED
    BY <1>1, <2>3, <2>4, <2>5 DEF IInv
<1> QED
  BY <1>2, <1>3, <1>4

LEMMA StepIInv == IInv /\ [Next]_vars => IInv'
<1> SUFFICES ASSUME IInv, [Next]_vars PROVE IInv'
  OBVIOUS
<1>1. CASE \E p \in Peers : Step(p) \/ Attempt(p) \/ Gather(p) \/ SignalFails(p)
  BY <1>1, CreateOfferKeeps, SendDescriptionKeeps, ForwardCandidateKeeps, HandlersKeep,
     ElsewhereKeeps DEF Step
<1>2. CASE UNCHANGED vars
  BY <1>2 DEF vars, IInv, Typed, HasLocal, Waits, Telling, Returned
<1> QED
  BY <1>1, <1>2 DEF Next, Idle

\* A loop that receives a candidate has a remote description, however offers
\* cross, attempts fail and candidates are found (transport.rs:339, 443-451,
\* 358-363).
THEOREM CandidatesAreLate == Spec => []CandidatesFollow
<1>1. IInv => CandidatesFollow
  BY DEF IInv, Waits, CandidatesFollow, Candidate
<1> QED
  BY <1>1, InitIInv, StepIInv, PTL DEF Spec

-----------------------------------------------------------------------------
(***************************************************************************)
(* That the sessions agree is a matter of which descriptions are under     *)
(* way.  An offer of p is open until its answer has been taken: it is      *)
(* coming to the other loop, or its answer is coming to p.                 *)
(***************************************************************************)

\* What is coming to p: its mail, and what the other is about to send.
Coming(p) ==
  IF task[Other(p)] = "offering"
    THEN Append(wire[p], Description("offer", local[Other(p)]))
  ELSE IF task[Other(p)] = "answering"
    THEN Append(wire[p], Description("answer", local[Other(p)]))
  ELSE wire[p]

IsCandidate(m) == m.kind = "candidate"
Has(s, k) == \E i \in 1..Len(s) : s[i].kind = k
HasTwo(s, k) == \E i, j \in 1..Len(s) : i # j /\ s[i].kind = k /\ s[j].kind = k

\* The descriptions in s are none, are d, and are d and e in this order.
Silent(s) == \A i \in 1..Len(s) : IsCandidate(s[i])
Says(s, d) ==
  \E i \in 1..Len(s) : s[i] = d /\ \A j \in 1..Len(s) \ {i} : IsCandidate(s[j])
SaysBoth(s, d, e) ==
  \E i, j \in 1..Len(s) :
    /\ i < j /\ s[i] = d /\ s[j] = e
    /\ \A k \in 1..Len(s) \ {i, j} : IsCandidate(s[k])

LEMMA AppendTells ==
  ASSUME NEW s \in Seq(Said), NEW m \in Said
  PROVE  /\ Append(s, m) \in Seq(Said)
         /\ \A k : Has(Append(s, m), k) <=> Has(s, k) \/ m.kind = k
         /\ \A k : HasTwo(s, k) \/ (Has(s, k) /\ m.kind = k) => HasTwo(Append(s, m), k)
         /\ Silent(s) => Says(Append(s, m), m)
         /\ \A d : Says(s, d) => SaysBoth(Append(s, m), d, m)
         /\ IsCandidate(m) =>
              /\ Silent(s) => Silent(Append(s, m))
              /\ \A d : Says(s, d) => Says(Append(s, m), d)
              /\ \A d, e : SaysBoth(s, d, e) => SaysBoth(Append(s, m), d, e)
<1> DEFINE a == Append(s, m)  n == Len(s)
<1>1. /\ a \in Seq(Said) /\ n \in Nat /\ Len(a) = n + 1
      /\ a[n + 1] = m /\ \A i \in 1..n : a[i] = s[i]
  OBVIOUS
<1>2. \A i \in 1..Len(a) : i \in 1..n \/ i = n + 1
  BY <1>1
<1>3. \A i \in 1..n : i \in 1..Len(a) /\ i # n + 1 /\ i < n + 1
  BY <1>1
<1>4. n + 1 \in 1..Len(a)
  BY <1>1
<1> HIDE DEF a
<1>5. \A k : Has(a, k) <=> Has(s, k) \/ m.kind = k
  BY <1>1, <1>2, <1>3, <1>4 DEF Has
<1>6. \A k : HasTwo(s, k) \/ (Has(s, k) /\ m.kind = k) => HasTwo(a, k)
  BY <1>1, <1>3, <1>4 DEF Has, HasTwo
<1>7. Silent(s) => Says(a, m)
  BY <1>1, <1>2, <1>4 DEF Silent, Says
<1>8. ASSUME NEW d, Says(s, d) PROVE SaysBoth(a, d, m)
  <2>1. PICK i \in 1..n : s[i] = d /\ \A j \in 1..n \ {i} : IsCandidate(s[j])
    BY <1>8 DEF Says
  <2>2. i \in 1..Len(a) /\ i < n + 1 /\ a[i] = d
    BY <1>1, <1>3, <2>1
  <2>3. \A k \in 1..Len(a) \ {i, n + 1} : IsCandidate(a[k])
    BY <1>1, <1>2, <2>1
  <2> QED
    BY <1>1, <1>4, <2>2, <2>3 DEF SaysBoth
<1>9. ASSUME IsCandidate(m) PROVE Silent(s) => Silent(a)
  BY <1>1, <1>2, <1>9 DEF Silent
<1>10. ASSUME IsCandidate(m), NEW d, Says(s, d) PROVE Says(a, d)
  <2>1. PICK i \in 1..n : s[i] = d /\ \A j \in 1..n \ {i} : IsCandidate(s[j])
    BY <1>10 DEF Says
  <2>2. i \in 1..Len(a) /\ a[i] = d
    BY <1>1, <1>3, <2>1
  <2>3. \A k \in 1..Len(a) \ {i} : IsCandidate(a[k])
    BY <1>1, <1>2, <1>10, <2>1
  <2> QED
    BY <2>2, <2>3 DEF Says
<1>11. ASSUME IsCandidate(m), NEW d, NEW e, SaysBoth(s, d, e) PROVE SaysBoth(a, d, e)
  <2>1. PICK i, j \in 1..n :
          /\ i < j /\ s[i] = d /\ s[j] = e
          /\ \A k \in 1..n \ {i, j} : IsCandidate(s[k])
    BY <1>11 DEF SaysBoth
  <2>2. i \in 1..Len(a) /\ a[i] = d /\ j \in 1..Len(a) /\ a[j] = e
    BY <1>1, <1>3, <2>1
  <2>3. \A k \in 1..Len(a) \ {i, j} : IsCandidate(a[k])
    BY <1>1, <1>2, <1>11, <2>1
  <2> QED
    BY <2>1, <2>2, <2>3 DEF SaysBoth
<1> QED
  BY <1>1, <1>5, <1>6, <1>7, <1>8, <1>9, <1>10, <1>11 DEF a

LEMMA TailTells ==
  ASSUME NEW s \in Seq(Said), s # <<>>
  PROVE  /\ Head(s) \in Said /\ Tail(s) \in Seq(Said)
         /\ \A k : Has(s, k) <=> Has(Tail(s), k) \/ Head(s).kind = k
         /\ \A k : HasTwo(s, k) => HasTwo(Tail(s), k) \/ (Has(Tail(s), k) /\ Head(s).kind = k)
         /\ Silent(s) => IsCandidate(Head(s)) /\ Silent(Tail(s))
         /\ \A d \in Said : Says(s, d) /\ ~IsCandidate(d) =>
              IF IsCandidate(Head(s)) THEN Says(Tail(s), d) ELSE Head(s) = d /\ Silent(Tail(s))
         /\ \A d, e \in Said : SaysBoth(s, d, e) /\ ~IsCandidate(d) /\ ~IsCandidate(e) =>
              IF IsCandidate(Head(s)) THEN SaysBoth(Tail(s), d, e)
              ELSE Head(s) = d /\ Says(Tail(s), e)
<1> DEFINE t == Tail(s)  h == Head(s)  n == Len(s)
<1>1. /\ t \in Seq(Said) /\ n \in Nat \ {0} /\ Len(t) = n - 1
      /\ h = s[1] /\ h \in Said /\ \A i \in 1..(n - 1) : t[i] = s[i + 1]
  OBVIOUS
<1>2. \A i \in 1..n : i = 1 \/ (i - 1 \in 1..Len(t) /\ t[i - 1] = s[i])
  BY <1>1
<1>3. \A i \in 1..Len(t) : i + 1 \in 1..n /\ i + 1 # 1 /\ t[i] = s[i + 1]
  BY <1>1
<1>4. 1 \in 1..n
  BY <1>1
<1> HIDE DEF t, h
<1>5. \A k : Has(s, k) <=> Has(t, k) \/ h.kind = k
  BY <1>1, <1>2, <1>3, <1>4 DEF Has
<1>6. ASSUME NEW k, HasTwo(s, k) PROVE HasTwo(t, k) \/ (Has(t, k) /\ h.kind = k)
  <2>1. PICK i, j \in 1..n : i # j /\ s[i].kind = k /\ s[j].kind = k
    BY <1>6 DEF HasTwo
  <2>2. CASE i = 1 \/ j = 1
    BY <1>1, <1>2, <2>1, <2>2 DEF Has
  <2>3. CASE i # 1 /\ j # 1
    <3>1. i - 1 \in 1..Len(t) /\ j - 1 \in 1..Len(t) /\ i - 1 # j - 1
      BY <1>2, <2>1, <2>3
    <3>2. t[i - 1].kind = k /\ t[j - 1].kind = k
      BY <1>2, <2>1, <2>3
    <3> QED
      BY <3>1, <3>2 DEF HasTwo
  <2> QED
    BY <2>2, <2>3
<1>7. Silent(s) => IsCandidate(h) /\ Silent(t)
  BY <1>1, <1>3, <1>4 DEF Silent
<1>8. ASSUME NEW d \in Said, Says(s, d), ~IsCandidate(d)
      PROVE  IF IsCandidate(h) THEN Says(t, d) ELSE h = d /\ Silent(t)
  <2>1. PICK i \in 1..n : s[i] = d /\ \A j \in 1..n \ {i} : IsCandidate(s[j])
    BY <1>8 DEF Says
  <2>2. CASE i = 1
    BY <1>1, <1>3, <1>8, <2>1, <2>2 DEF Silent
  <2>3. CASE i # 1
    <3>1. IsCandidate(h)
      BY <1>1, <1>4, <2>1, <2>3
    <3>2. i - 1 \in 1..Len(t) /\ t[i - 1] = d
      BY <1>2, <2>1, <2>3
    <3>3. \A k \in 1..Len(t) \ {i - 1} : IsCandidate(t[k])
      BY <1>3, <2>1
    <3> QED
      BY <3>1, <3>2, <3>3 DEF Says
  <2> QED
    BY <2>2, <2>3
<1>9. ASSUME NEW d \in Said, NEW e \in Said, SaysBoth(s, d, e), ~IsCandidate(d), ~IsCandidate(e)
      PROVE  IF IsCandidate(h) THEN SaysBoth(t, d, e) ELSE h = d /\ Says(t, e)
  <2>1. PICK i, j \in 1..n :
          /\ i < j /\ s[i] = d /\ s[j] = e
          /\ \A k \in 1..n \ {i, j} : IsCandidate(s[k])
    BY <1>9 DEF SaysBoth
  <2>2. j - 1 \in 1..Len(t) /\ t[j - 1] = e
    BY <1>2, <2>1
  <2>3. CASE i = 1
    <3>1. h = d
      BY <1>1, <2>1, <2>3
    <3>2. \A k \in 1..Len(t) \ {j - 1} : IsCandidate(t[k])
      BY <1>3, <2>1, <2>3
    <3> QED
      BY <1>9, <2>2, <3>1, <3>2 DEF Says
  <2>4. CASE i # 1
    <3>1. IsCandidate(h)
      BY <1>1, <1>4, <2>1, <2>4
    <3>2. i - 1 \in 1..Len(t) /\ t[i - 1] = d /\ i - 1 < j - 1
      BY <1>2, <2>1, <2>4
    <3>3. \A k \in 1..Len(t) \ {i - 1, j - 1} : IsCandidate(t[k])
      BY <1>3, <2>1
    <3> QED
      BY <2>2, <3>1, <3>2, <3>3 DEF SaysBoth
  <2> QED
    BY <2>3, <2>4
<1> QED
  BY <1>1, <1>5, <1>6, <1>7, <1>8, <1>9 DEF t, h

LEMMA WhatIsSaid ==
  ASSUME NEW s \in Seq(Said), NEW d \in Said, NEW e \in Said,
         NEW k \in {"offer", "answer"}
  PROVE  /\ Silent(s) => ~Has(s, k)
         /\ Says(s, d) => (Has(s, k) <=> d.kind = k)
         /\ SaysBoth(s, d, e) => (Has(s, k) <=> d.kind = k \/ e.kind = k)
         /\ HasTwo(s, k) => Has(s, k)
<1>1. Silent(s) => ~Has(s, k)
  BY DEF Silent, Has, IsCandidate
<1>2. Says(s, d) => (Has(s, k) <=> d.kind = k)
  BY DEF Says, Has, IsCandidate
<1>3. SaysBoth(s, d, e) => (Has(s, k) <=> d.kind = k \/ e.kind = k)
  BY DEF SaysBoth, Has, IsCandidate
<1>4. HasTwo(s, k) => Has(s, k)
  BY DEF HasTwo, Has
<1> QED
  BY <1>1, <1>2, <1>3, <1>4

-----------------------------------------------------------------------------
Alive == \A p \in Peers : ~Returned(p)
HasOpen(p) == sig[p] = "have-local-offer"
SigTyped == sig \in [Peers -> {"stable", "have-local-offer"}]

\* Nothing is under way; an offer of p is, to be answered; its answer is; its
\* answer is, and behind it an offer of the other.
Settled == Agreed /\ \A p \in Peers : Silent(Coming(p))
Offered(p) ==
  /\ HasOpen(p) /\ ~HasOpen(Other(p))
  /\ Says(Coming(Other(p)), Description("offer", local[p])) /\ Silent(Coming(p))
Answered(p) ==
  /\ HasOpen(p) /\ ~HasOpen(Other(p))
  /\ Says(Coming(p), Description("answer", local[p])) /\ Silent(Coming(Other(p)))
  /\ local[Other(p)] = local[p] /\ remote[Other(p)] = local[p]
Renewed(p) ==
  /\ HasOpen(p) /\ HasOpen(Other(p))
  /\ SaysBoth(Coming(p), Description("answer", local[p]),
                         Description("offer", local[Other(p)]))
  /\ Silent(Coming(Other(p)))

\* Offers have crossed: whoever is told of one has an open one and fails.
Crossed ==
  \A p \in Peers : HasOpen(p) /\ Has(Coming(p), "offer") /\ ~Has(Coming(p), "answer")

\* More offers of p are open than p can take answers to: the last of the
\* answers will find a stable connection, and p fails.
Unanswered(p) == Has(Coming(Other(p)), "offer") \/ Has(Coming(p), "answer")
Surplus(p) ==
  /\ Unanswered(p)
  /\ HasOpen(p) => \/ HasTwo(Coming(Other(p)), "offer") \/ HasTwo(Coming(p), "answer")
                   \/ Has(Coming(Other(p)), "offer") /\ Has(Coming(p), "answer")

Harmony ==
  \/ Settled \/ Crossed
  \/ \E p \in Peers : Surplus(p) \/ Offered(p) \/ Answered(p) \/ Renewed(p)

-----------------------------------------------------------------------------
\* What a step of p may do to that, if no loop returns: p makes an offer, adds
\* a candidate or nothing, or takes a candidate, an offer or an answer.
Still(p) == sig'[p] = sig[p] /\ local'[p] = local[p] /\ remote'[p] = remote[p]

MakesOffer(p) ==
  /\ HasOpen(p)' /\ Still(Other(p)) /\ Coming(p)' = Coming(p)
  /\ Description("offer", local'[p]) \in Said
  /\ Coming(Other(p))' = Append(Coming(Other(p)), Description("offer", local'[p]))

AddsLittle(p) ==
  /\ Still(p) /\ Still(Other(p)) /\ Coming(p)' = Coming(p)
  /\ Coming(Other(p))' \in {Coming(Other(p)), Append(Coming(Other(p)), Candidate)}

Takes(p, k) ==
  /\ Still(Other(p))
  /\ Coming(p) # <<>> /\ Head(Coming(p)).kind = k /\ Coming(p)' = Tail(Coming(p))

TakesCandidate(p) ==
  Takes(p, "candidate") /\ Still(p) /\ Coming(Other(p))' = Coming(Other(p))

TakesOffer(p) ==
  /\ Takes(p, "offer") /\ ~HasOpen(p) /\ sig'[p] = sig[p]
  /\ local'[p] = Head(Coming(p)).of /\ remote'[p] = local'[p]
  /\ Description("answer", local'[p]) \in Said
  /\ Coming(Other(p))' = Append(Coming(Other(p)), Description("answer", local'[p]))

TakesAnswer(p) ==
  /\ Takes(p, "answer") /\ HasOpen(p) /\ sig'[p] = "stable"
  /\ local'[p] = local[p] /\ remote'[p] = Head(Coming(p)).of
  /\ Coming(Other(p))' = Coming(Other(p))

LEMMA DescriptionSays ==
  ASSUME NEW k \in {"offer", "answer"}, NEW o
  PROVE  /\ Description(k, o).kind = k /\ Description(k, o).of = o
         /\ ~IsCandidate(Description(k, o))
         /\ o \in Ids => Description(k, o) \in Said
  BY DEF Description, IsCandidate, Said

LEMMA ComingTyped ==
  ASSUME IInv, NEW p \in Peers
  PROVE  Coming(p) \in Seq(Said)
<1>1. Other(p) \in Peers /\ wire[p] \in Seq(Said) /\ local[Other(p)] \in Ids
  BY OtherPeer DEF IInv, Typed
<1>2. /\ Description("offer", local[Other(p)]) \in Said
      /\ Description("answer", local[Other(p)]) \in Said
  BY <1>1, DescriptionSays
<1> QED
  BY <1>1, <1>2 DEF Coming

\* The common hypotheses of the lemmas below: two peers with their mail.
Mail(p) ==
  /\ p \in Peers /\ SigTyped
  /\ \A r \in Peers : Coming(r) \in Seq(Said) /\ local[r] \in Ids /\ remote[r] \in Ids

LEMMA OfferUnsettles ==
  ASSUME NEW p, Mail(p), Settled, MakesOffer(p)
  PROVE  Offered(p)'
<1> DEFINE q == Other(p)  d == Description("offer", local'[p])
<1>1. p \in Peers /\ q \in Peers /\ q # p /\ Other(q) = p
  BY OtherPeer DEF Mail
<1>2. /\ HasOpen(p)' /\ Still(q) /\ Coming(p)' = Coming(p)
      /\ d \in Said /\ Coming(q)' = Append(Coming(q), d)
  BY DEF MakesOffer
<1>3. Silent(Coming(p)) /\ Silent(Coming(q)) /\ ~HasOpen(q)'
  BY <1>1, <1>2 DEF Settled, Agreed, HasOpen, Still
<1>4. Says(Coming(q)', d)
  BY <1>1, <1>2, <1>3, AppendTells DEF Mail
<1> QED
  BY <1>2, <1>3, <1>4 DEF Offered

LEMMA OfferKeepsHarmony ==
  ASSUME NEW p, Mail(p), Harmony, MakesOffer(p)
  PROVE  Harmony'
<1> DEFINE q == Other(p)  d == Description("offer", local'[p])
<1>1. p \in Peers /\ q \in Peers /\ q # p /\ Other(q) = p /\ \A r \in Peers : r = p \/ r = q
  BY OtherPeer DEF Mail
<1>2. /\ HasOpen(p)' /\ Still(q) /\ Coming(p)' = Coming(p)
      /\ d \in Said /\ Coming(q)' = Append(Coming(q), d) /\ d.kind = "offer"
  BY DescriptionSays DEF MakesOffer
<1>3. Coming(p) \in Seq(Said) /\ Coming(q) \in Seq(Said)
  BY <1>1 DEF Mail
<1>4. Description("offer", local[p]) \in Said /\ Description("offer", local[q]) \in Said
      /\ Description("answer", local[p]) \in Said /\ Description("answer", local[q]) \in Said
  BY <1>1, DescriptionSays DEF Mail
<1>5. HasOpen(q)' = HasOpen(q) /\ local'[q] = local[q]
  BY <1>2 DEF Still, HasOpen
<1> HIDE DEF q, d
<1>6. /\ Has(Coming(q)', "offer")
      /\ \A k : Has(Coming(q)', k) <=> Has(Coming(q), k) \/ k = "offer"
      /\ \A k : HasTwo(Coming(q), k) => HasTwo(Coming(q)', k)
      /\ Has(Coming(q), "offer") => HasTwo(Coming(q)', "offer")
      /\ Silent(Coming(q)) => Says(Coming(q)', d)
      /\ \A e : Says(Coming(q), e) => SaysBoth(Coming(q)', e, d)
  BY <1>2, <1>3, AppendTells
<1>7. Other(p) = q /\ d = Description("offer", local'[p])
  BY DEF q, d
<1>8. CASE Unanswered(p)
  <2>1. Surplus(p)'
    BY <1>2, <1>6, <1>7, <1>8 DEF Surplus, Unanswered
  <2> QED
    BY <1>1, <2>1 DEF Harmony
<1>9. CASE Crossed
  <2>1. Crossed'
    BY <1>1, <1>2, <1>5, <1>6, <1>9 DEF Crossed
  <2> QED
    BY <2>1 DEF Harmony
<1>10. CASE Settled
  BY <1>1, <1>10, OfferUnsettles DEF Harmony
<1>11. CASE Surplus(q)
  <2>1. Surplus(q)'
    BY <1>1, <1>2, <1>5, <1>6, <1>11 DEF Surplus, Unanswered
  <2> QED
    BY <1>1, <2>1 DEF Harmony
<1>12. CASE Offered(q)
  <2>1. HasOpen(q) /\ Says(Coming(p), Description("offer", local[q])) /\ Silent(Coming(q))
    BY <1>1, <1>12 DEF Offered
  <2>2. Has(Coming(p), "offer") /\ ~Has(Coming(p), "answer") /\ ~Has(Coming(q), "answer")
    BY <1>3, <1>4, <2>1, WhatIsSaid, DescriptionSays
  <2>3. Crossed'
    BY <1>1, <1>2, <1>5, <1>6, <2>1, <2>2 DEF Crossed
  <2> QED
    BY <2>3 DEF Harmony
<1>13. CASE Answered(q)
  <2>1. HasOpen(q) /\ Says(Coming(q), Description("answer", local[q])) /\ Silent(Coming(p))
    BY <1>1, <1>13 DEF Answered
  <2>2. Renewed(q)'
    BY <1>1, <1>2, <1>5, <1>6, <1>7, <2>1 DEF Renewed
  <2> QED
    BY <1>1, <2>2 DEF Harmony
<1>14. ASSUME Offered(p) \/ Answered(p) \/ Surplus(p) PROVE Unanswered(p)
  <2>1. \/ Says(Coming(q), Description("offer", local[p]))
        \/ Says(Coming(p), Description("answer", local[p])) \/ Unanswered(p)
    BY <1>7, <1>14 DEF Offered, Answered, Surplus
  <2> QED
    BY <1>3, <1>4, <1>7, <2>1, WhatIsSaid, DescriptionSays DEF Unanswered
<1>15. ASSUME Renewed(p) \/ Renewed(q) PROVE Unanswered(p)
  <2>1. \/ SaysBoth(Coming(p), Description("answer", local[p]), Description("offer", local[q]))
        \/ SaysBoth(Coming(q), Description("answer", local[q]), Description("offer", local[p]))
    BY <1>1, <1>7, <1>15 DEF Renewed
  <2> QED
    BY <1>3, <1>4, <1>7, <2>1, WhatIsSaid, DescriptionSays DEF Unanswered
<1> QED
  BY <1>1, <1>8, <1>9, <1>10, <1>11, <1>12, <1>13, <1>14, <1>15 DEF Harmony

LEMMA LittleKeepsHarmony ==
  ASSUME NEW p, Mail(p), AddsLittle(p)
  PROVE  /\ Harmony => Harmony'
         /\ Settled => Settled'
         /\ \A r \in Peers : (Offered(r) => Offered(r)') /\ (Answered(r) => Answered(r)')
<1> DEFINE q == Other(p)
<1>1. p \in Peers /\ q \in Peers /\ q # p /\ Other(q) = p /\ \A r \in Peers : r = p \/ r = q
  BY OtherPeer DEF Mail
<1>2. /\ \A r \in Peers : sig'[r] = sig[r] /\ local'[r] = local[r] /\ remote'[r] = remote[r]
      /\ Coming(p)' = Coming(p)
      /\ Coming(q)' \in {Coming(q), Append(Coming(q), Candidate)}
  BY <1>1 DEF AddsLittle, Still
<1>3. Coming(p) \in Seq(Said) /\ Coming(q) \in Seq(Said)
  BY <1>1 DEF Mail
<1>4. Candidate \in Said /\ Candidate.kind = "candidate" /\ IsCandidate(Candidate)
  BY DEF Candidate, Said, Ids, IsCandidate
<1> HIDE DEF q
<1>5. /\ \A k \in {"offer", "answer"} :
           /\ Has(Coming(q)', k) <=> Has(Coming(q), k)
           /\ HasTwo(Coming(q), k) => HasTwo(Coming(q)', k)
      /\ Silent(Coming(q)) => Silent(Coming(q)')
      /\ \A d : Says(Coming(q), d) => Says(Coming(q)', d)
      /\ \A d, e : SaysBoth(Coming(q), d, e) => SaysBoth(Coming(q)', d, e)
  <2>1. CASE Coming(q)' = Coming(q)
    BY <2>1
  <2>2. CASE Coming(q)' = Append(Coming(q), Candidate)
    <3> DEFINE a == Append(Coming(q), Candidate)
    <3>1. \A k \in {"offer", "answer"} :
            /\ Has(a, k) <=> Has(Coming(q), k)
            /\ HasTwo(Coming(q), k) => HasTwo(a, k)
      BY <1>3, <1>4, AppendTells
    <3>2. /\ Silent(Coming(q)) => Silent(a)
          /\ \A d : Says(Coming(q), d) => Says(a, d)
          /\ \A d, e : SaysBoth(Coming(q), d, e) => SaysBoth(a, d, e)
      BY <1>3, <1>4, AppendTells
    <3> QED
      BY <2>2, <3>1, <3>2
  <2> QED
    BY <1>2, <2>1, <2>2
<1>7. Other(p) = q /\ \A r \in Peers : HasOpen(r)' = HasOpen(r)
  BY <1>2 DEF q, HasOpen
<1>8. Crossed => Crossed'
  BY <1>1, <1>2, <1>5, <1>7 DEF Crossed
<1>9. Settled => Settled'
  BY <1>1, <1>2, <1>5 DEF Settled, Agreed
<1>10. \A r \in Peers : Surplus(r) => Surplus(r)'
  BY <1>1, <1>2, <1>5, <1>7 DEF Surplus, Unanswered
<1>11. \A r \in Peers : Offered(r) => Offered(r)'
  BY <1>1, <1>2, <1>5, <1>7 DEF Offered
<1>12. \A r \in Peers : Answered(r) => Answered(r)'
  BY <1>1, <1>2, <1>5, <1>7 DEF Answered
<1>13. \A r \in Peers : Renewed(r) => Renewed(r)'
  BY <1>1, <1>2, <1>5, <1>7 DEF Renewed
<1> QED
  BY <1>8, <1>9, <1>10, <1>11, <1>12, <1>13 DEF Harmony

\* What is left of the mail of p when it has taken the oldest message.
LEMMA TakeTells ==
  ASSUME NEW p, Mail(p), NEW k \in {"offer", "answer", "candidate"}, Takes(p, k)
  PROVE  /\ \A j : Has(Coming(p), j) <=> Has(Coming(p)', j) \/ j = k
         /\ \A j : HasTwo(Coming(p), j) => HasTwo(Coming(p)', j) \/ (Has(Coming(p)', j) /\ j = k)
         /\ Silent(Coming(p)) => k = "candidate" /\ Silent(Coming(p)')
         /\ \A j \in {"offer", "answer"}, r \in Peers :
              Says(Coming(p), Description(j, local[r])) =>
                IF k = "candidate" THEN Says(Coming(p)', Description(j, local[r]))
                ELSE /\ k = j /\ Head(Coming(p)).of = local[r]
                     /\ Silent(Coming(p)')
         /\ \A j, l \in {"offer", "answer"}, r, s \in Peers :
              SaysBoth(Coming(p), Description(j, local[r]), Description(l, local[s])) =>
                IF k = "candidate"
                  THEN SaysBoth(Coming(p)', Description(j, local[r]), Description(l, local[s]))
                  ELSE /\ k = j /\ Head(Coming(p)).of = local[r]
                       /\ Says(Coming(p)', Description(l, local[s]))
<1> DEFINE c == Coming(p)  t == Tail(c)  h == Head(c)
<1>1. c \in Seq(Said) /\ c # <<>> /\ h.kind = k /\ Coming(p)' = t
  BY DEF Mail, Takes
<1>2. IsCandidate(h) <=> k = "candidate"
  BY <1>1 DEF IsCandidate
<1>3. \A j \in {"offer", "answer"}, r \in Peers :
        /\ Description(j, local[r]) \in Said /\ ~IsCandidate(Description(j, local[r]))
        /\ h = Description(j, local[r]) => k = j /\ h.of = local[r]
  BY <1>1, DescriptionSays DEF Mail
<1> HIDE DEF c
<1>4. /\ \A j : Has(c, j) <=> Has(t, j) \/ j = k
      /\ \A j : HasTwo(c, j) => HasTwo(t, j) \/ (Has(t, j) /\ j = k)
      /\ Silent(c) => k = "candidate" /\ Silent(t)
  BY <1>1, <1>2, TailTells
<1>5. ASSUME NEW j \in {"offer", "answer"}, NEW r \in Peers, Says(c, Description(j, local[r]))
      PROVE  IF k = "candidate" THEN Says(t, Description(j, local[r]))
             ELSE k = j /\ h.of = local[r] /\ Silent(t)
  BY <1>1, <1>2, <1>3, <1>5, TailTells
<1>6. ASSUME NEW j \in {"offer", "answer"}, NEW l \in {"offer", "answer"},
             NEW r \in Peers, NEW s \in Peers,
             SaysBoth(c, Description(j, local[r]), Description(l, local[s]))
      PROVE  IF k = "candidate"
               THEN SaysBoth(t, Description(j, local[r]), Description(l, local[s]))
               ELSE k = j /\ h.of = local[r] /\ Says(t, Description(l, local[s]))
  BY <1>1, <1>2, <1>3, <1>6, TailTells
<1> HIDE DEF t, h
<1>7. h = Head(c) /\ c = Coming(p)
  BY DEF h, c
<1> QED
  BY <1>1, <1>4, <1>5, <1>6, <1>7

LEMMA CandidateKeepsHarmony ==
  ASSUME NEW p, Mail(p), TakesCandidate(p)
  PROVE  /\ Harmony => Harmony'
         /\ Settled => Settled'
         /\ \A r \in Peers : (Offered(r) => Offered(r)') /\ (Answered(r) => Answered(r)')
<1> DEFINE q == Other(p)
<1>1. p \in Peers /\ q \in Peers /\ q # p /\ Other(q) = p /\ \A r \in Peers : r = p \/ r = q
  BY OtherPeer DEF Mail
<1>2. /\ \A r \in Peers : sig'[r] = sig[r] /\ local'[r] = local[r] /\ remote'[r] = remote[r]
      /\ Coming(q)' = Coming(q) /\ Takes(p, "candidate")
  BY <1>1 DEF TakesCandidate, Takes, Still
<1> HIDE DEF q
<1>3. Other(p) = q /\ \A r \in Peers : HasOpen(r)' = HasOpen(r)
  BY <1>2 DEF q, HasOpen
<1>4. /\ \A k \in {"offer", "answer"} :
           /\ Has(Coming(p)', k) <=> Has(Coming(p), k)
           /\ HasTwo(Coming(p), k) => HasTwo(Coming(p)', k)
      /\ Silent(Coming(p)) => Silent(Coming(p)')
  BY <1>2, TakeTells
<1>5. \A k \in {"offer", "answer"}, r \in Peers :
        Says(Coming(p), Description(k, local[r])) => Says(Coming(p)', Description(k, local[r]))
  BY <1>2, TakeTells
<1>6. \A k, l \in {"offer", "answer"}, r, s \in Peers :
        SaysBoth(Coming(p), Description(k, local[r]), Description(l, local[s])) =>
          SaysBoth(Coming(p)', Description(k, local[r]), Description(l, local[s]))
  BY <1>2, TakeTells
<1>7. Crossed => Crossed'
  BY <1>1, <1>2, <1>3, <1>4 DEF Crossed
<1>8. Settled => Settled'
  BY <1>1, <1>2, <1>4 DEF Settled, Agreed
<1>9. \A r \in Peers : Surplus(r) => Surplus(r)'
  BY <1>1, <1>2, <1>3, <1>4 DEF Surplus, Unanswered
<1>10. \A r \in Peers : Offered(r) => Offered(r)'
  BY <1>1, <1>2, <1>3, <1>4, <1>5 DEF Offered
<1>11. \A r \in Peers : Answered(r) => Answered(r)'
  BY <1>1, <1>2, <1>3, <1>4, <1>5 DEF Answered
<1>12. \A r \in Peers : Renewed(r) => Renewed(r)'
  BY <1>1, <1>2, <1>3, <1>4, <1>6 DEF Renewed
<1> QED
  BY <1>7, <1>8, <1>9, <1>10, <1>11, <1>12 DEF Harmony

LEMMA AnsweringFollows ==
  ASSUME NEW p, Mail(p), Offered(Other(p)), TakesOffer(p)
  PROVE  Answered(Other(p))'
<1> DEFINE q == Other(p)  d == Description("answer", local'[p])
<1>1. p \in Peers /\ q \in Peers /\ q # p /\ Other(q) = p
  BY OtherPeer DEF Mail
<1>2. /\ ~HasOpen(p)' /\ HasOpen(q)' = HasOpen(q) /\ local'[q] = local[q]
      /\ Takes(p, "offer") /\ d \in Said /\ Coming(q)' = Append(Coming(q), d)
      /\ local'[p] = Head(Coming(p)).of /\ remote'[p] = Head(Coming(p)).of
  BY DEF TakesOffer, Takes, Still, HasOpen
<1>3. HasOpen(q) /\ Says(Coming(p), Description("offer", local[q])) /\ Silent(Coming(q))
  BY <1>1 DEF Offered
<1>4. Says(Coming(q)', d)
  BY <1>1, <1>2, <1>3, AppendTells DEF Mail
<1>5. local'[p] = local[q] /\ remote'[p] = local[q] /\ Silent(Coming(p)')
  BY <1>1, <1>2, <1>3, TakeTells
<1> QED
  BY <1>1, <1>2, <1>3, <1>4, <1>5 DEF Answered

LEMMA AnsweringKeepsHarmony ==
  ASSUME NEW p, Mail(p), Harmony, TakesOffer(p)
  PROVE  Harmony'
<1> DEFINE q == Other(p)  d == Description("answer", local'[p])
<1>1. p \in Peers /\ q \in Peers /\ q # p /\ Other(q) = p /\ \A r \in Peers : r = p \/ r = q
  BY OtherPeer DEF Mail
<1>2. /\ ~HasOpen(p) /\ ~HasOpen(p)' /\ HasOpen(q)' = HasOpen(q)
      /\ local'[q] = local[q] /\ remote'[q] = remote[q]
      /\ Takes(p, "offer") /\ d \in Said /\ Coming(q)' = Append(Coming(q), d)
      /\ d.kind = "answer"
      /\ local'[p] = Head(Coming(p)).of /\ remote'[p] = Head(Coming(p)).of
  BY DescriptionSays DEF TakesOffer, Takes, Still, HasOpen
<1>3. Coming(q) \in Seq(Said)
  BY <1>1 DEF Mail
<1> HIDE DEF q, d
<1>4. Other(p) = q /\ d = Description("answer", local'[p])
  BY DEF q, d
<1>5. /\ Has(Coming(q)', "answer")
      /\ \A k : Has(Coming(q), k) => Has(Coming(q)', k)
      /\ \A k : HasTwo(Coming(q), k) => HasTwo(Coming(q)', k)
      /\ Has(Coming(q), "answer") => HasTwo(Coming(q)', "answer")
      /\ Silent(Coming(q)) => Says(Coming(q)', d)
  BY <1>2, <1>3, AppendTells
<1>6. /\ Has(Coming(p), "answer") => Has(Coming(p)', "answer")
      /\ HasTwo(Coming(p), "offer") => Has(Coming(p)', "offer")
      /\ ~Silent(Coming(p))
      /\ \A r \in Peers : ~Says(Coming(p), Description("answer", local[r]))
      /\ \A r \in Peers : Says(Coming(p), Description("offer", local[r])) =>
           Head(Coming(p)).of = local[r] /\ Silent(Coming(p)')
  <2>1. \A j : HasTwo(Coming(p), j) => HasTwo(Coming(p)', j) \/ Has(Coming(p)', j)
    BY <1>2, TakeTells
  <2>2. Coming(p)' \in Seq(Said)
    BY <1>1, <1>2, TailTells DEF Mail, Takes
  <2>3. HasTwo(Coming(p)', "offer") => Has(Coming(p)', "offer")
    BY DEF HasTwo, Has
  <2> QED
    BY <1>2, <2>1, <2>3, TakeTells
<1>7. ~Settled /\ ~Crossed /\ ~Offered(p) /\ ~Answered(p) /\ ~Answered(q)
      /\ ~Renewed(p) /\ ~Renewed(q)
  BY <1>1, <1>2, <1>4, <1>6 DEF Settled, Crossed, Offered, Answered, Renewed
<1>8. CASE Surplus(p)
  <2>1. Surplus(p)'
    BY <1>2, <1>4, <1>5, <1>6, <1>8 DEF Surplus, Unanswered
  <2> QED
    BY <1>1, <2>1 DEF Harmony
<1>9. CASE Surplus(q)
  <2>1. Surplus(q)'
    BY <1>1, <1>2, <1>5, <1>6, <1>9 DEF Surplus, Unanswered
  <2> QED
    BY <1>1, <2>1 DEF Harmony
<1>10. CASE Offered(q)
  <2>1. Answered(q)'
    BY <1>4, <1>10, AnsweringFollows
  <2> QED
    BY <1>1, <2>1 DEF Harmony
<1> QED
  BY <1>1, <1>7, <1>8, <1>9, <1>10 DEF Harmony

LEMMA AnswerSettles ==
  ASSUME NEW p, Mail(p), Answered(p), TakesAnswer(p)
  PROVE  Settled'
<1> DEFINE q == Other(p)
<1>1. p \in Peers /\ q \in Peers /\ q # p /\ \A r \in Peers : r = p \/ r = q
  BY OtherPeer DEF Mail
<1>2. /\ sig'[p] = "stable" /\ sig'[q] = sig[q]
      /\ local'[q] = local[q] /\ remote'[q] = remote[q]
      /\ Takes(p, "answer") /\ Coming(q)' = Coming(q)
      /\ local'[p] = local[p] /\ remote'[p] = Head(Coming(p)).of
  BY DEF TakesAnswer, Takes, Still
<1>3. /\ ~HasOpen(q) /\ Says(Coming(p), Description("answer", local[p])) /\ Silent(Coming(q))
      /\ local[q] = local[p] /\ remote[q] = local[p]
  BY DEF Answered
<1>4. sig[q] = "stable"
  BY <1>1, <1>3 DEF Mail, SigTyped, HasOpen
<1>5. Head(Coming(p)).of = local[p] /\ Silent(Coming(p)')
  BY <1>1, <1>2, <1>3, TakeTells
<1> HIDE DEF q
<1> QED
  BY <1>1, <1>2, <1>3, <1>4, <1>5, PeersAssumption DEF Settled, Agreed

LEMMA AnswerKeepsHarmony ==
  ASSUME NEW p, Mail(p), Harmony, TakesAnswer(p)
  PROVE  Harmony'
<1> DEFINE q == Other(p)
<1>1. p \in Peers /\ q \in Peers /\ q # p /\ Other(q) = p /\ \A r \in Peers : r = p \/ r = q
  BY OtherPeer DEF Mail
<1>2. /\ HasOpen(p) /\ ~HasOpen(p)' /\ sig'[p] = "stable"
      /\ sig'[q] = sig[q] /\ HasOpen(q)' = HasOpen(q)
      /\ local'[q] = local[q] /\ remote'[q] = remote[q]
      /\ Takes(p, "answer") /\ Coming(q)' = Coming(q)
      /\ local'[p] = local[p] /\ remote'[p] = Head(Coming(p)).of
  BY DEF TakesAnswer, Takes, Still, HasOpen
<1> HIDE DEF q
<1>3. Other(p) = q
  BY DEF q
<1>4. /\ Has(Coming(p), "answer") /\ ~Silent(Coming(p))
      /\ Has(Coming(p), "offer") => Has(Coming(p)', "offer")
      /\ HasTwo(Coming(p), "offer") => HasTwo(Coming(p)', "offer")
      /\ HasTwo(Coming(p), "answer") => Has(Coming(p)', "answer")
      /\ Says(Coming(p), Description("answer", local[p])) =>
           Head(Coming(p)).of = local[p] /\ Silent(Coming(p)')
      /\ SaysBoth(Coming(p), Description("answer", local[p]), Description("offer", local[q])) =>
           Says(Coming(p)', Description("offer", local[q]))
  <2>1. HasTwo(Coming(p)', "answer") => Has(Coming(p)', "answer")
    BY DEF HasTwo, Has
  <2> QED
    BY <1>1, <1>2, <2>1, TakeTells
<1>5. ~Settled /\ ~Crossed /\ ~Offered(p) /\ ~Offered(q) /\ ~Answered(q) /\ ~Renewed(q)
  BY <1>1, <1>2, <1>3, <1>4 DEF Settled, Crossed, Offered, Answered, Renewed
<1>6. CASE Surplus(p)
  <2>1. HasTwo(Coming(q), "offer") => Has(Coming(q), "offer")
    BY DEF HasTwo, Has
  <2>2. Surplus(p)'
    BY <1>2, <1>3, <1>4, <1>6, <2>1 DEF Surplus, Unanswered
  <2> QED
    BY <1>1, <2>2 DEF Harmony
<1>7. CASE Surplus(q)
  <2>1. Surplus(q)'
    BY <1>1, <1>2, <1>4, <1>7 DEF Surplus, Unanswered
  <2> QED
    BY <1>1, <2>1 DEF Harmony
<1>8. CASE Answered(p)
  BY <1>8, AnswerSettles DEF Harmony
<1>9. CASE Renewed(p)
  <2>1. Offered(q)'
    BY <1>1, <1>2, <1>3, <1>4, <1>9 DEF Offered, Renewed
  <2> QED
    BY <1>1, <2>1 DEF Harmony
<1> QED
  BY <1>1, <1>5, <1>6, <1>7, <1>8, <1>9 DEF Harmony

-----------------------------------------------------------------------------
(***************************************************************************)
(* Every step of a loop does one of these things to the mail, as long as   *)
(* no loop has returned after it.                                          *)
(***************************************************************************)

\* The mail does not change when what was set is sent.
LEMMA SendingAddsLittle ==
  ASSUME IInv, NEW p \in Peers, SendDescription(p)
  PROVE  AddsLittle(p)
<1> DEFINE q == Other(p)
<1>1. q \in Peers /\ q # p /\ Other(q) = p
  BY OtherPeer
<1>2. /\ task' = [task EXCEPT ![p] = "selecting"] /\ UNCHANGED <<sig, local, remote>>
      /\ \/ task[p] = "offering" /\ Transmit(p, Description("offer", local[p]))
         \/ task[p] = "answering" /\ Transmit(p, Description("answer", local[p]))
  BY DEF SendDescription, Goto
<1>3. task'[p] = "selecting" /\ task'[q] = task[q]
  BY <1>1, <1>2 DEF IInv, Typed
<1>4. PICK m : /\ wire' = [wire EXCEPT ![q] = Append(wire[q], m)]
               /\ \/ task[p] = "offering" /\ m = Description("offer", local[p])
                  \/ task[p] = "answering" /\ m = Description("answer", local[p])
  BY <1>2 DEF Transmit
<1>5. wire'[p] = wire[p] /\ wire'[q] = Append(wire[q], m)
  BY <1>1, <1>4 DEF IInv, Typed
<1> HIDE DEF q
<1>6. Other(p) = q
  BY DEF q
<1>7. Coming(p)' = Coming(p)
  BY <1>2, <1>3, <1>5, <1>6 DEF Coming
<1>8. Coming(q)' = wire'[q]
  BY <1>1, <1>3 DEF Coming
<1>9. Coming(q) = Append(wire[q], m)
  BY <1>1, <1>4 DEF Coming
<1> QED
  BY <1>2, <1>5, <1>6, <1>7, <1>8, <1>9 DEF AddsLittle, Still

\* A loop that goes on with what it is told has its mail on the wire, and what
\* it takes is the oldest message that is coming.
LEMMA ReceiveTakes ==
  ASSUME IInv, NEW p \in Peers, NEW k \in {"offer", "answer", "candidate"}, Receive(p, k),
         task'[Other(p)] = task[Other(p)], local'[Other(p)] = local[Other(p)]
  PROVE  /\ Coming(p) # <<>> /\ Head(Coming(p)) = Head(wire[p])
         /\ Head(Coming(p)).kind = k /\ Coming(p)' = Tail(Coming(p))
         /\ Coming(Other(p)) = wire[Other(p)] /\ wire'[Other(p)] = wire[Other(p)]
<1> DEFINE q == Other(p)
<1>1. q \in Peers /\ q # p /\ Other(q) = p
  BY OtherPeer
<1>2. /\ wire[p] \in Seq(Said) /\ wire[p] # <<>> /\ Head(wire[p]).kind = k
      /\ wire' = [wire EXCEPT ![p] = Tail(wire[p])] /\ task[p] = "selecting"
      /\ local[q] \in Ids
  BY <1>1 DEF Receive, IInv, Typed
<1>3. wire'[p] = Tail(wire[p]) /\ wire'[q] = wire[q]
  BY <1>1, <1>2 DEF IInv, Typed
<1>4. Coming(q) = wire[q]
  BY <1>1, <1>2 DEF Coming
<1>5. \A m \in Said : /\ Append(wire[p], m) # <<>>
                      /\ Head(Append(wire[p], m)) = Head(wire[p])
                      /\ Tail(Append(wire[p], m)) = Append(Tail(wire[p]), m)
  <2> SUFFICES ASSUME NEW m \in Said
               PROVE  /\ Append(wire[p], m) # <<>>
                      /\ Head(Append(wire[p], m)) = Head(wire[p])
                      /\ Tail(Append(wire[p], m)) = Append(Tail(wire[p]), m)
    OBVIOUS
  <2>1. Append(wire[p], m) # <<>>
    BY <1>2, AppendProperties
  <2> QED
    BY <1>2, <2>1, HeadTailAppend
<1>6. /\ Description("offer", local[q]) \in Said
      /\ Description("answer", local[q]) \in Said
  BY <1>2, DescriptionSays
<1> HIDE DEF q
<1>7. Other(p) = q
  BY DEF q
<1>8. \/ Coming(p) = wire[p] /\ Coming(p)' = wire'[p]
      \/ \E m \in Said : Coming(p) = Append(wire[p], m) /\ Coming(p)' = Append(wire'[p], m)
  BY <1>6, <1>7 DEF Coming
<1> QED
  BY <1>2, <1>3, <1>4, <1>5, <1>7, <1>8

LEMMA OfferIsMade ==
  ASSUME IInv, SigTyped, NEW p \in Peers, CreateOffer(p)
  PROVE  MakesOffer(p)
<1> DEFINE q == Other(p)  o == <<p, offers[p] + 1>>
<1>1. q \in Peers /\ q # p /\ Other(q) = p
  BY OtherPeer
<1>2. /\ local' = [local EXCEPT ![p] = o] /\ sig' = [sig EXCEPT ![p] = "have-local-offer"]
      /\ task' = [task EXCEPT ![p] = "offering"] /\ UNCHANGED <<remote, wire>>
      /\ task[p] \in {"starting", "backoff"}
  BY DEF CreateOffer, Goto
<1>3. o \in Ids
  BY DEF IInv, Typed, Ids
<1> HIDE DEF o
<1>4. /\ local'[p] = o /\ local'[q] = local[q] /\ sig'[p] = "have-local-offer"
      /\ sig'[q] = sig[q] /\ task'[p] = "offering" /\ task'[q] = task[q]
  BY <1>1, <1>2 DEF IInv, Typed, SigTyped
<1>5. Coming(q) = wire[q] /\ Coming(q)' = Append(wire'[q], Description("offer", local'[p]))
  BY <1>1, <1>2, <1>4 DEF Coming
<1>6. Coming(p)' = Coming(p)
  BY <1>2, <1>4 DEF Coming
<1>7. Description("offer", local'[p]) \in Said
  BY <1>3, <1>4, DescriptionSays
<1> QED
  BY <1>2, <1>4, <1>5, <1>6, <1>7 DEF MakesOffer, HasOpen, Still

LEMMA OfferIsTaken ==
  ASSUME IInv, SigTyped, NEW p \in Peers, HandleOffer(p), ~Returned(p)'
  PROVE  TakesOffer(p)
<1> DEFINE q == Other(p)  o == Head(wire[p]).of
<1>1. q \in Peers /\ q # p /\ Other(q) = p
  BY OtherPeer
<1>2. /\ Receive(p, "offer") /\ wire[p] # <<>> /\ Head(wire[p]).kind = "offer"
      /\ task[p] = "selecting"
  BY DEF HandleOffer, Receive
<1>3. ~Fail(p) /\ ~Break(p)
  BY DEF Fail, Break, Goto, Returned, IInv, Typed
<1>4. /\ sig[p] = "stable" /\ sig' = sig /\ task' = [task EXCEPT ![p] = "answering"]
      /\ remote' = [remote EXCEPT ![p] = o] /\ local' = [local EXCEPT ![p] = o]
  BY <1>3 DEF HandleOffer, AcceptOffer, Goto
<1>5. o \in Ids
  BY <1>2, FirstMessage
<1> HIDE DEF o
<1>6. /\ local'[p] = o /\ remote'[p] = o /\ task'[p] = "answering"
      /\ local'[q] = local[q] /\ remote'[q] = remote[q] /\ task'[q] = task[q]
  BY <1>1, <1>4 DEF IInv, Typed
<1>7. /\ Coming(p) # <<>> /\ Head(Coming(p)).of = o
      /\ Head(Coming(p)).kind = "offer" /\ Coming(p)' = Tail(Coming(p))
      /\ Coming(q) = wire[q] /\ wire'[q] = wire[q]
  BY <1>2, <1>6, ReceiveTakes DEF o
<1>8. Coming(q)' = Append(wire'[q], Description("answer", local'[p]))
  BY <1>1, <1>6 DEF Coming
<1>9. Description("answer", local'[p]) \in Said
  BY <1>5, <1>6, DescriptionSays
<1> QED
  BY <1>4, <1>6, <1>7, <1>8, <1>9 DEF TakesOffer, Takes, Still, HasOpen

LEMMA AnswerIsTaken ==
  ASSUME IInv, SigTyped, NEW p \in Peers, HandleAnswer(p), ~Returned(p)'
  PROVE  TakesAnswer(p)
<1> DEFINE q == Other(p)  o == Head(wire[p]).of
<1>1. q \in Peers /\ q # p /\ Other(q) = p
  BY OtherPeer
<1>2. /\ Receive(p, "answer") /\ wire[p] # <<>> /\ task[p] = "selecting"
  BY DEF HandleAnswer, Receive
<1>3. ~Fail(p) /\ ~Break(p)
  BY DEF Fail, Break, Goto, Returned, IInv, Typed
<1>4. /\ sig[p] = "have-local-offer" /\ sig' = [sig EXCEPT ![p] = "stable"]
      /\ task' = task /\ local' = local /\ remote' = [remote EXCEPT ![p] = o]
  BY <1>3 DEF HandleAnswer, AcceptAnswer
<1> HIDE DEF o
<1>5. /\ remote'[p] = o /\ remote'[q] = remote[q] /\ sig'[p] = "stable" /\ sig'[q] = sig[q]
  BY <1>1, <1>4 DEF IInv, Typed, SigTyped
<1>6. /\ Coming(p) # <<>> /\ Head(Coming(p)).of = o
      /\ Head(Coming(p)).kind = "answer" /\ Coming(p)' = Tail(Coming(p))
      /\ Coming(q) = wire[q] /\ wire'[q] = wire[q]
  BY <1>2, <1>4, ReceiveTakes DEF o
<1>7. Coming(q)' = wire'[q]
  BY <1>1, <1>2, <1>4 DEF Coming
<1> QED
  BY <1>4, <1>5, <1>6, <1>7 DEF TakesAnswer, Takes, Still, HasOpen

LEMMA CandidateIsTaken ==
  ASSUME IInv, NEW p \in Peers, HandleCandidate(p), ~Returned(p)'
  PROVE  TakesCandidate(p)
<1> DEFINE q == Other(p)
<1>1. q \in Peers /\ q # p /\ Other(q) = p
  BY OtherPeer
<1>2. /\ Receive(p, "candidate") /\ task[p] = "selecting"
  BY DEF HandleCandidate, Receive
<1>3. ~Fail(p) /\ ~Break(p)
  BY DEF Fail, Break, Goto, Returned, IInv, Typed
<1>4. UNCHANGED <<task, sig, local, remote>>
  BY <1>3 DEF HandleCandidate
<1>5. /\ Coming(p) # <<>> /\ Head(Coming(p)).kind = "candidate"
      /\ Coming(p)' = Tail(Coming(p))
      /\ Coming(q) = wire[q] /\ wire'[q] = wire[q]
  BY <1>2, <1>4, ReceiveTakes
<1>6. Coming(q)' = wire'[q]
  BY <1>1, <1>2, <1>4 DEF Coming
<1> QED
  BY <1>4, <1>5, <1>6 DEF TakesCandidate, Takes, Still

LEMMA CandidateIsAdded ==
  ASSUME IInv, NEW p \in Peers, ForwardCandidate(p), ~Returned(Other(p))
  PROVE  AddsLittle(p)
<1> DEFINE q == Other(p)
<1>1. q \in Peers /\ q # p /\ Other(q) = p
  BY OtherPeer
<1>2. /\ UNCHANGED <<task, sig, local, remote>> /\ task[p] = "selecting"
      /\ wire' = [wire EXCEPT ![q] = Append(wire[q], Candidate)]
  BY DEF ForwardCandidate, Transmit
<1>3. wire'[p] = wire[p] /\ wire'[q] = Append(wire[q], Candidate)
  BY <1>1, <1>2 DEF IInv, Typed
<1>4. Coming(q) = wire[q] /\ Coming(q)' = wire'[q]
  BY <1>1, <1>2 DEF Coming
<1>5. Coming(p)' = Coming(p)
  BY <1>2, <1>3 DEF Coming
<1> QED
  BY <1>2, <1>3, <1>4, <1>5 DEF AddsLittle, Still

LEMMA NothingIsSaid ==
  ASSUME IInv, NEW p \in Peers, OfferFails(p) \/ Attempt(p) \/ Gather(p) \/ SignalFails(p)
  PROVE  AddsLittle(p)
<1> DEFINE q == Other(p)
<1>1. q \in Peers /\ q # p /\ Other(q) = p
  BY OtherPeer
<1>2. /\ UNCHANGED <<sig, local, remote, wire>>
      /\ \/ task' = task
         \/ /\ task[p] \in {"starting", "backoff", "selecting"}
            /\ \E t \in {"backoff", "selecting", "broken"} : task' = [task EXCEPT ![p] = t]
  BY DEF OfferFails, Attempt, Gather, SignalFails, Break, Goto
<1>3. task'[q] = task[q] /\ (task'[p] = task[p] \/ ~(Telling(p) \/ Telling(p)'))
  BY <1>1, <1>2 DEF IInv, Typed, Telling
<1>4. Coming(p)' = Coming(p) /\ Coming(q)' = Coming(q)
  BY <1>1, <1>2, <1>3 DEF Coming, Telling
<1> QED
  BY <1>2, <1>4 DEF AddsLittle, Still

Agreeing == IInv /\ SigTyped /\ (Alive => Harmony)

\* Only a loop that has not returned moves, and it moves alone.
LEMMA StepOfOne ==
  ASSUME IInv, NEW p \in Peers, Step(p) \/ Attempt(p) \/ Gather(p) \/ SignalFails(p)
  PROVE  ~Returned(p) /\ task'[Other(p)] = task[Other(p)]
<1>1. ~Returned(p)
  BY DEF Step, CreateOffer, OfferFails, SendDescription, SendFails, HandleOffer, HandleAnswer,
     HandleCandidate, SignalClosed, SignalFails, ForwardCandidate, Attempt, Gather, CanGather,
     Receive, Returned
<1>2. task' = task \/ \E t : task' = [task EXCEPT ![p] = t]
  BY DEF Step, CreateOffer, OfferFails, SendDescription, SendFails, HandleOffer, HandleAnswer,
     HandleCandidate, SignalClosed, SignalFails, ForwardCandidate, Attempt, Gather,
     AcceptOffer, AcceptAnswer, Fail, Break, Goto
<1> QED
  BY <1>1, <1>2, OtherPeer DEF IInv, Typed

LEMMA StepOfAlive ==
  ASSUME IInv, SigTyped, Alive', NEW p \in Peers,
         Step(p) \/ Attempt(p) \/ Gather(p) \/ SignalFails(p)
  PROVE  /\ Alive
         /\ MakesOffer(p) \/ AddsLittle(p) \/ TakesCandidate(p) \/ TakesOffer(p) \/ TakesAnswer(p)
<1>1. Other(p) \in Peers /\ Other(p) # p /\ \A r \in Peers : r = p \/ r = Other(p)
  BY OtherPeer
<1>2. ~Returned(p)
  BY StepOfOne
<1>3. task'[Other(p)] = task[Other(p)]
  BY StepOfOne
<1>4. ~Returned(Other(p)) /\ ~Returned(p)'
  BY <1>1, <1>3 DEF Alive, Returned
<1>5. Alive
  BY <1>1, <1>2, <1>4 DEF Alive
<1>6. ~SendFails(p) /\ ~SignalClosed(p)
  BY <1>4 DEF SendFails, SignalClosed
<1> QED
  BY <1>4, <1>5, <1>6, OfferIsMade, SendingAddsLittle, OfferIsTaken, AnswerIsTaken,
     CandidateIsTaken, CandidateIsAdded, NothingIsSaid DEF Step

LEMMA InitAgreeing == Init => Agreeing
<1> SUFFICES ASSUME Init PROVE SigTyped /\ Settled
  BY InitIInv DEF Agreeing, Harmony
<1>1. SigTyped
  BY DEF Init, SigTyped
<1>2. \A p \in Peers : Coming(p) = <<>>
  <2> SUFFICES ASSUME NEW p \in Peers PROVE Coming(p) = <<>>
    OBVIOUS
  <2>1. Other(p) \in Peers
    BY OtherPeer
  <2>2. task[Other(p)] \in {"starting", "selecting"} /\ wire[p] = <<>>
    BY <2>1 DEF Init
  <2> QED
    BY <2>2 DEF Coming
<1>3. Agreed
  BY DEF Init, Agreed
<1>4. Silent(<<>>)
  BY DEF Silent
<1> QED
  BY <1>1, <1>2, <1>3, <1>4 DEF Settled

LEMMA StepAgreeing == Agreeing /\ [Next]_vars => Agreeing'
<1> SUFFICES ASSUME Agreeing, [Next]_vars PROVE Agreeing'
  OBVIOUS
<1>1. IInv'
  BY StepIInv DEF Agreeing
<1>2. IInv /\ SigTyped
  BY DEF Agreeing
<1>3. CASE UNCHANGED vars
  <2>1. SigTyped' /\ Alive' = Alive /\ \A p \in Peers : Coming(p)' = Coming(p)
    BY <1>2, <1>3 DEF vars, SigTyped, Alive, Returned, Coming
  <2>2. Harmony => Harmony'
    BY <1>3, <2>1, OtherPeer DEF vars, Harmony, Settled, Crossed, Surplus, Unanswered, Offered,
       Answered, Renewed, HasOpen, Agreed
  <2> QED
    BY <1>1, <2>1, <2>2 DEF Agreeing
<1>4. ASSUME NEW p \in Peers, Step(p) \/ Attempt(p) \/ Gather(p) \/ SignalFails(p) PROVE Agreeing'
  <2>1. SigTyped'
    BY <1>2, <1>4 DEF SigTyped, Step, CreateOffer, OfferFails, SendDescription, SendFails,
       HandleOffer, HandleAnswer, HandleCandidate, SignalClosed, SignalFails, ForwardCandidate,
       Attempt, Gather, AcceptOffer, AcceptAnswer, Fail, Break
  <2>2. ASSUME Alive' PROVE Harmony'
    <3>1. Alive /\ Harmony
      BY <1>2, <1>4, <2>2, StepOfAlive DEF Agreeing
    <3>2. Mail(p)
      BY <1>2, ComingTyped DEF Mail, IInv, Typed
    <3> QED
      BY <1>2, <1>4, <2>2, <3>1, <3>2, StepOfAlive, OfferKeepsHarmony, LittleKeepsHarmony,
         CandidateKeepsHarmony, AnsweringKeepsHarmony, AnswerKeepsHarmony
  <2> QED
    BY <1>1, <2>1, <2>2 DEF Agreeing
<1> QED
  BY <1>3, <1>4 DEF Next, Idle

\* Two loops that both run and have nothing left to do are in Harmony without
\* mail, and that leaves only one of its cases.
LEMMA QuietIsAgreed == Agreeing => SessionsAgree
<1> SUFFICES ASSUME Agreeing, Quiet, Alive PROVE Agreed
  BY DEF SessionsAgree, Alive
<1>1. \A p \in Peers : Other(p) \in Peers /\ Coming(p) = <<>>
  BY OtherPeer DEF Quiet, Waiting, Alive, Coming
<1>2. /\ \A k : ~Has(<<>>, k)
      /\ \A d : ~Says(<<>>, d)
      /\ \A d, e : ~SaysBoth(<<>>, d, e)
  BY DEF Has, Says, SaysBoth
<1>3. \A p \in Peers : ~Surplus(p) /\ ~Offered(p) /\ ~Answered(p) /\ ~Renewed(p)
  BY <1>1, <1>2 DEF Surplus, Unanswered, Offered, Answered, Renewed
<1>4. ~Crossed
  BY <1>1, <1>2, PeersAssumption DEF Crossed
<1> QED
  BY <1>3, <1>4 DEF Agreeing, Harmony, Settled

\* Two loops with nothing left to do hold the two halves of one negotiation,
\* however often both restart it, whatever offers cross and whatever answers
\* come late, although an answer is never compared with the offer it is set on
\* (transport.rs:333-337): an answer too many ends its loop before.
THEOREM SessionsAreAgreed == Spec => []SessionsAgree
<1> QED
  BY InitAgreeing, StepAgreeing, QuietIsAgreed, PTL DEF Spec

-----------------------------------------------------------------------------
(***************************************************************************)
(* As long as only the offerer has attempted to reconnect, and once, only  *)
(* one description is ever under way, and it finds the connection it needs. *)
(***************************************************************************)

\* p may attempt again only by giving up OneSided.
Spent(p) == remote[p] = None \/ restarts[p] > 0

Orderly ==
  /\ \A p \in Peers : task[p] = "starting" => p \in Offerers /\ remote[p] = None /\ Settled
  /\ \A p \in Peers : task[p] = "backoff" => p \in Offerers /\ restarts[p] > 0 /\ Settled
  /\ Settled \/ \E p \in Offerers : (Offered(p) \/ Answered(p)) /\ Spent(p)

Modest ==
  /\ IInv /\ SigTyped /\ restarts \in [Peers -> Nat]
  /\ OneSided /\ Unbroken => Alive /\ Orderly

\* What is coming tells the three states of a negotiation apart, and what a
\* loop can take from it.
LEMMA OneIsUnderWay ==
  ASSUME IInv, NEW p \in Peers
  PROVE  /\ Settled => ~Offered(p) /\ ~Answered(p)
         /\ Settled => \A r \in Peers : ~Has(Coming(r), "offer") /\ ~Has(Coming(r), "answer")
         /\ Offered(p) => /\ ~Has(Coming(p), "offer") /\ ~Has(Coming(p), "answer")
                          /\ ~Has(Coming(Other(p)), "answer")
         /\ Answered(p) => /\ ~Has(Coming(p), "offer")
                           /\ ~Has(Coming(Other(p)), "offer") /\ ~Has(Coming(Other(p)), "answer")
<1>1. Other(p) \in Peers /\ \A r \in Peers : Coming(r) \in Seq(Said)
  BY OtherPeer, ComingTyped
<1>2. /\ Description("offer", local[p]) \in Said /\ Description("answer", local[p]) \in Said
      /\ Description("offer", local[p]).kind = "offer"
      /\ Description("answer", local[p]).kind = "answer"
  BY DescriptionSays DEF IInv, Typed
<1>3. ASSUME Settled
      PROVE  \A r \in Peers : ~Has(Coming(r), "offer") /\ ~Has(Coming(r), "answer")
  BY <1>1, <1>2, <1>3, WhatIsSaid DEF Settled
<1>4. ASSUME Offered(p)
      PROVE  /\ ~Has(Coming(p), "offer") /\ ~Has(Coming(p), "answer")
             /\ ~Has(Coming(Other(p)), "answer") /\ Has(Coming(Other(p)), "offer")
  BY <1>1, <1>2, <1>4, WhatIsSaid DEF Offered
<1>5. ASSUME Answered(p)
      PROVE  /\ ~Has(Coming(p), "offer") /\ Has(Coming(p), "answer")
             /\ ~Has(Coming(Other(p)), "offer") /\ ~Has(Coming(Other(p)), "answer")
  BY <1>1, <1>2, <1>5, WhatIsSaid DEF Answered
<1> QED
  BY <1>1, <1>3, <1>4, <1>5

\* A message that a loop receives is one that was coming to it.
LEMMA ReceivedWasComing ==
  ASSUME IInv, NEW p \in Peers, NEW k \in {"offer", "answer", "candidate"}, Receive(p, k)
  PROVE  Has(Coming(p), k)
<1>1. wire[p] \in Seq(Said) /\ 1 \in 1..Len(wire[p]) /\ wire[p][1].kind = k
  BY DEF Receive, IInv, Typed
<1>2. Has(wire[p], k)
  BY <1>1 DEF Has
<1>3. local[Other(p)] \in Ids
  BY OtherPeer DEF IInv, Typed
<1>4. /\ Description("offer", local[Other(p)]) \in Said
      /\ Description("answer", local[Other(p)]) \in Said
  BY <1>3, DescriptionSays
<1>5. \A m \in Said : Has(Append(wire[p], m), k)
  BY <1>1, <1>2, AppendTells
<1> QED
  BY <1>2, <1>4, <1>5 DEF Coming

\* With one offerer no loop refuses what it takes while all is in order.
LEMMA NothingIsRefused ==
  ASSUME Modest, Alive, Orderly, Offerers # Peers, Unbroken',
         NEW p \in Peers, Step(p) \/ Attempt(p) \/ Gather(p) \/ SignalFails(p)
  PROVE  Alive'
<1> DEFINE q == Other(p)
<1>1. q \in Peers /\ q # p /\ Other(q) = p /\ \A r \in Peers : r = p \/ r = q
  BY OtherPeer
<1>2. IInv /\ SigTyped /\ ~Returned(q) /\ ~Returned(p) /\ task \in [Peers -> Tasks]
  BY <1>1 DEF Modest, Alive, IInv, Typed
<1> HIDE DEF q
<1>3. q = Other(p)
  BY DEF q
<1>4. ASSUME \/ task' = task
             \/ \E t : task' = [task EXCEPT ![p] = t] /\ t \notin {"ended", "failed"}
      PROVE  Alive'
  BY <1>1, <1>2, <1>4 DEF Alive, Returned, Unbroken
<1>5. CASE HandleOffer(p)
  <2>1. Has(Coming(p), "offer")
    BY <1>2, <1>5, ReceivedWasComing DEF HandleOffer
  <2>2. Offered(q)
    BY <1>1, <1>2, <1>3, <2>1, OneIsUnderWay, RolesAssumption DEF Orderly
  <2>3. sig[p] = "stable"
    BY <1>1, <1>2, <2>2 DEF Offered, HasOpen, SigTyped
  <2> QED
    BY <1>4, <1>5, <2>3 DEF HandleOffer, AcceptOffer, Break, Goto
<1>6. CASE HandleAnswer(p)
  <2>1. Has(Coming(p), "answer")
    BY <1>2, <1>6, ReceivedWasComing DEF HandleAnswer
  <2>2. Answered(p)
    BY <1>1, <1>2, <1>3, <2>1, OneIsUnderWay, RolesAssumption DEF Orderly
  <2>3. sig[p] = "have-local-offer"
    BY <2>2 DEF Answered, HasOpen
  <2> QED
    BY <1>4, <1>6, <2>3 DEF HandleAnswer, AcceptAnswer, Break, Goto
<1>7. CASE HandleCandidate(p)
  <2>1. wire[p] # <<>> /\ Head(wire[p]).kind = "candidate"
    BY <1>7 DEF HandleCandidate, Receive
  <2>2. remote[p] # None
    BY <1>2, <2>1 DEF IInv, Waits
  <2> QED
    BY <1>4, <1>7, <2>2 DEF HandleCandidate, Break, Goto
<1>8. CASE \/ CreateOffer(p) \/ OfferFails(p) \/ SendDescription(p)
           \/ Attempt(p) \/ Gather(p) \/ SignalFails(p)
  BY <1>4, <1>8 DEF CreateOffer, OfferFails, SendDescription, Attempt, Gather, SignalFails,
     Break, Goto
<1>9. CASE SendFails(p) \/ SignalClosed(p) \/ ForwardCandidate(p)
  BY <1>2, <1>3, <1>4, <1>9 DEF SendFails, SignalClosed, ForwardCandidate
<1> QED
  BY <1>5, <1>6, <1>7, <1>8, <1>9 DEF Step

\* What an attempt asks for is not Spent; the other steps leave it so.
LEMMA StepSpends ==
  ASSUME Modest, OneSided', NEW p \in Peers,
         Step(p) \/ Attempt(p) \/ Gather(p) \/ SignalFails(p)
  PROVE  /\ restarts' \in [Peers -> Nat] /\ OneSided
         /\ \A r \in Peers : restarts[r] > 0 => restarts'[r] > 0
         /\ Attempt(p) => p \in Offerers /\ ~Spent(p) /\ restarts'[p] > 0
<1>1. CASE restarts' = restarts /\ ~Attempt(p)
  BY <1>1 DEF Modest, OneSided
<1>2. CASE Attempt(p)
  <2>1. /\ restarts' = [restarts EXCEPT ![p] = restarts[p] + 1] /\ remote[p] # None
        /\ restarts \in [Peers -> Nat]
    BY <1>2 DEF Attempt, Modest
  <2>2. restarts'[p] = restarts[p] + 1 /\ \A r \in Peers : restarts'[r] >= restarts[r]
    BY <2>1
  <2>3. OneSided
    BY <2>1, <2>2 DEF OneSided
  <2>4. restarts'[p] <= IF p \in Offerers THEN 1 ELSE 0
    BY DEF OneSided
  <2>5. restarts[p] \in Nat
    BY <2>1
  <2>6. p \in Offerers /\ restarts[p] = 0 /\ restarts'[p] > 0
    BY <2>2, <2>4, <2>5
  <2>7. ~Spent(p)
    BY <2>1, <2>6 DEF Spent
  <2>8. restarts' \in [Peers -> Nat] /\ \A r \in Peers : restarts[r] > 0 => restarts'[r] > 0
    BY <2>1
  <2> QED
    BY <2>3, <2>6, <2>7, <2>8
<1>3. ASSUME ~Attempt(p) PROVE restarts' = restarts
  BY <1>3 DEF Step, CreateOffer, OfferFails, SendDescription, SendFails, HandleOffer,
     HandleAnswer, HandleCandidate, SignalClosed, SignalFails, ForwardCandidate, Gather,
     CanGather, Receive
<1> QED
  BY <1>1, <1>2, <1>3

\* An offer is only made when nothing is under way.
LEMMA OfferIsOrderly ==
  ASSUME Modest, Orderly, Offerers # Peers, NEW p \in Peers, CreateOffer(p)
  PROVE  Orderly'
<1> DEFINE q == Other(p)
<1>1. q \in Peers /\ q # p /\ Other(q) = p /\ \A r \in Peers : r = p \/ r = q
  BY OtherPeer
<1>2. /\ task' = [task EXCEPT ![p] = "offering"] /\ task \in [Peers -> Tasks]
      /\ task[p] \in {"starting", "backoff"} /\ UNCHANGED <<remote, restarts>>
  BY DEF CreateOffer, Goto, Modest, IInv, Typed
<1>3. p \in Offerers /\ Settled /\ Spent(p) /\ q \notin Offerers
  BY <1>1, <1>2, RolesAssumption DEF Orderly, Spent
<1>4. Mail(p)
  BY ComingTyped DEF Mail, Modest, IInv, Typed
<1>5. Offered(p)' /\ Spent(p)'
  BY <1>2, <1>3, <1>4, OfferIsMade, OfferUnsettles DEF Modest, Spent
<1>6. \A r \in Peers : task'[r] \notin {"starting", "backoff"}
  BY <1>1, <1>2, <1>3 DEF Orderly
<1> QED
  BY <1>3, <1>5, <1>6 DEF Orderly

\* An attempt is only made when nothing is under way.
LEMMA AttemptIsOrderly ==
  ASSUME Modest, OneSided', Orderly, Offerers # Peers, NEW p \in Peers, Attempt(p)
  PROVE  Orderly'
<1>1. Other(p) \in Peers /\ \A r \in Peers : r = p \/ r = Other(p)
  BY OtherPeer
<1>2. p \in Offerers /\ ~Spent(p) /\ restarts'[p] > 0
      /\ \A r \in Peers : restarts[r] > 0 => restarts'[r] > 0
  BY StepSpends
<1>3. Settled
  BY <1>1, <1>2, RolesAssumption DEF Orderly
<1>4. Mail(p)
  BY ComingTyped DEF Mail, Modest, IInv, Typed
<1>5. Settled'
  BY <1>3, <1>4, NothingIsSaid, LittleKeepsHarmony DEF Modest
<1>6. /\ task' = [task EXCEPT ![p] = "backoff"] /\ task \in [Peers -> Tasks] /\ remote' = remote
  BY DEF Attempt, Goto, Modest, IInv, Typed
<1> QED
  BY <1>2, <1>5, <1>6 DEF Orderly

\* The steps that neither make an offer nor attempt to.
LEMMA OthersAreOrderly ==
  ASSUME Modest, Alive', Orderly, Offerers # Peers, NEW p \in Peers,
         Step(p) \/ Gather(p) \/ SignalFails(p), ~CreateOffer(p),
         \A r \in Peers : restarts[r] > 0 => restarts'[r] > 0
  PROVE  Orderly'
<1> DEFINE q == Other(p)
<1>1. q \in Peers /\ q # p /\ Other(q) = p /\ \A r \in Peers : r = p \/ r = q
  BY OtherPeer
<1>2. IInv /\ SigTyped /\ Mail(p) /\ task \in [Peers -> Tasks] /\ remote \in [Peers -> Ids]
  BY ComingTyped DEF Mail, Modest, IInv, Typed
<1>3. ~Returned(p)' /\ ~Returned(q)'
  BY <1>1 DEF Alive
<1>4. /\ \A r \in Peers : task'[r] = "starting" => task[r] = "starting"
      /\ \A r \in Peers : task'[r] = "backoff" => task[r] = "backoff"
      /\ \A r \in Peers : task'[r] = "starting" => remote'[r] = remote[r]
      /\ remote'[q] = remote[q]
  <2>1. /\ task' = task \/ \E t \in Tasks \ {"starting", "backoff"} : task' = [task EXCEPT ![p] = t]
        /\ remote' = remote \/ (task[p] = "selecting" /\ \E o : remote' = [remote EXCEPT ![p] = o])
    BY DEF Step, OfferFails, SendDescription, SendFails, HandleOffer, HandleAnswer,
       HandleCandidate, SignalClosed, SignalFails, ForwardCandidate, Gather, CanGather, Receive,
       AcceptOffer, AcceptAnswer, Fail, Break, Goto, Tasks
  <2> QED
    BY <1>1, <1>2, <2>1
<1> HIDE DEF q
<1>5. q = Other(p)
  BY DEF q
<1>6. CASE AddsLittle(p) \/ TakesCandidate(p)
  <2>1. /\ Settled => Settled'
        /\ \A r \in Peers : (Offered(r) => Offered(r)') /\ (Answered(r) => Answered(r)')
    BY <1>2, <1>6, LittleKeepsHarmony, CandidateKeepsHarmony
  <2>2. remote'[p] = remote[p]
    BY <1>6 DEF AddsLittle, TakesCandidate, Still
  <2>3. \A r \in Peers : Spent(r) => Spent(r)'
    BY <1>1, <1>4, <2>2 DEF Spent
  <2> QED
    BY <1>4, <2>1, <2>3, RolesAssumption DEF Orderly
<1>7. CASE HandleOffer(p)
  <2>1. Has(Coming(p), "offer")
    BY <1>2, <1>7, ReceivedWasComing DEF HandleOffer
  <2>2. Offered(q) /\ q \in Offerers /\ Spent(q) /\ ~Settled
    BY <1>1, <1>2, <1>5, <2>1, OneIsUnderWay, RolesAssumption DEF Orderly
  <2>3. Answered(q)'
    BY <1>2, <1>3, <1>5, <1>7, <2>2, OfferIsTaken, AnsweringFollows
  <2>4. Spent(q)'
    BY <1>1, <1>4, <2>2 DEF Spent
  <2> QED
    BY <1>4, <2>2, <2>3, <2>4 DEF Orderly
<1>8. CASE HandleAnswer(p)
  <2>1. Has(Coming(p), "answer")
    BY <1>2, <1>8, ReceivedWasComing DEF HandleAnswer
  <2>2. Answered(p) /\ ~Settled
    BY <1>1, <1>2, <1>5, <2>1, OneIsUnderWay, RolesAssumption DEF Orderly
  <2>3. Settled'
    BY <1>2, <1>3, <1>8, <2>2, AnswerIsTaken, AnswerSettles
  <2> QED
    BY <1>4, <2>2, <2>3 DEF Orderly
<1>9. CASE ~HandleOffer(p) /\ ~HandleAnswer(p)
  <2>1. ~Returned(q)
    BY <1>1, <1>2, StepOfAlive DEF Alive
  <2> QED
    BY <1>2, <1>3, <1>5, <1>6, <1>9, <2>1, SendingAddsLittle, CandidateIsTaken,
       CandidateIsAdded, NothingIsSaid DEF Step, SendFails, SignalClosed
<1> QED
  BY <1>7, <1>8, <1>9

LEMMA InitModest == ASSUME Offerers # Peers PROVE Init => Modest
<1> SUFFICES ASSUME Init PROVE Alive /\ Orderly /\ restarts \in [Peers -> Nat]
  BY InitAgreeing DEF Modest, Agreeing
<1>1. Settled
  <2>1. \A p \in Peers : Coming(p) = <<>>
    BY OtherPeer DEF Init, Coming
  <2> QED
    BY <2>1 DEF Settled, Silent, Init, Agreed
<1>2. Alive
  BY DEF Init, Alive, Returned
<1> QED
  BY <1>1, <1>2 DEF Init, Orderly

LEMMA StepModest == ASSUME Offerers # Peers PROVE Modest /\ [Next]_vars => Modest'
<1> SUFFICES ASSUME Modest, [Next]_vars PROVE Modest'
  OBVIOUS
<1>1. IInv'
  BY StepIInv DEF Modest
<1>2. CASE UNCHANGED vars
  <2>1. SigTyped' /\ Alive' = Alive /\ OneSided' = OneSided /\ Unbroken' = Unbroken
        /\ \A p \in Peers : Coming(p)' = Coming(p) /\ Spent(p)' = Spent(p)
    BY <1>2 DEF Modest, vars, SigTyped, Alive, Returned, Coming, OneSided, Unbroken, Spent
  <2>2. Orderly => Orderly'
    BY <1>2, <2>1, OtherPeer, RolesAssumption DEF vars, Orderly, Settled, Offered, Answered,
       HasOpen, Agreed
  <2> QED
    BY <1>1, <1>2, <2>1, <2>2 DEF Modest, vars
<1>3. ASSUME NEW p \in Peers, Step(p) \/ Attempt(p) \/ Gather(p) \/ SignalFails(p) PROVE Modest'
  <2>1. SigTyped'
    BY <1>3 DEF Modest, SigTyped, Step, CreateOffer, OfferFails, SendDescription, SendFails,
       HandleOffer, HandleAnswer, HandleCandidate, SignalClosed, SignalFails, ForwardCandidate,
       Attempt, Gather, AcceptOffer, AcceptAnswer, Fail, Break
  <2>2. restarts' \in [Peers -> Nat]
    BY <1>3 DEF Modest, Step, CreateOffer, OfferFails, SendDescription, SendFails, HandleOffer,
       HandleAnswer, HandleCandidate, SignalClosed, SignalFails, ForwardCandidate, Attempt,
       Gather, CanGather, Receive
  <2>3. ASSUME OneSided', Unbroken' PROVE Alive' /\ Orderly'
    <3>1. OneSided /\ \A r \in Peers : restarts[r] > 0 => restarts'[r] > 0
      BY <1>3, <2>3, StepSpends
    <3>5. Unbroken
      BY <1>3, <2>3, StepOfOne, OtherPeer DEF Modest, Unbroken, Returned
    <3>2. Alive /\ Orderly
      BY <3>1, <3>5 DEF Modest
    <3>3. Alive'
      BY <1>3, <2>3, <3>2, NothingIsRefused
    <3> QED
      BY <1>3, <2>3, <3>1, <3>2, <3>3, OfferIsOrderly, AttemptIsOrderly, OthersAreOrderly
  <2> QED
    BY <1>1, <2>1, <2>2, <2>3 DEF Modest
<1> QED
  BY <1>2, <1>3 DEF Next, Idle

\* If one of the peers at most is the offerer, then as long as only it has
\* attempted to reconnect, and once, no loop returns an error that is not of a
\* call's own making: whatever a loop takes, in whatever order its mail and its
\* candidates come, finds the connection in the state it needs
\* (transport.rs:318-363).
THEOREM OneOffererSurvives ==
  ASSUME Offerers # Peers
  PROVE  Spec => []OneSidedSurvives
<1>1. Modest => OneSidedSurvives
  BY DEF Modest, Alive, Returned, OneSidedSurvives
<1> QED
  BY <1>1, InitModest, StepModest, PTL DEF Spec
=============================================================================

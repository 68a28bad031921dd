-------------------------- MODULE H264Depacketizer --------------------------
(***************************************************************************)
(* H264Depacketizer (aiko-webrtc, pipeline/h264.rs) behind a network that  *)
(* may lose and reorder RTP packets: nothing between read_rtp and          *)
(* process_rtp puts them in order.  NAL units are numbered in the order    *)
(* they are sent; a unit travels in a packet of its own, in fragments      *)
(* (FU-A), or with the units after it in one packet (STAP-A).  The bytes   *)
(* of a fragment are known by the unit and the position: <<unit, part>>.   *)
(***************************************************************************)
EXTENDS Naturals, Sequences, SequencesExt

CONSTANTS
  MaxUnits,   \* bound: NAL units sent
  MaxParts,   \* bound: fragments of a unit, units of an aggregate
  InFlight,   \* bound: packets the network holds
  Window,     \* packets a packet may overtake in the network
  Lossy       \* the network may lose packets

ASSUME BoundsAssumption ==
  MaxUnits \in Nat /\ MaxParts \in Nat \ {0} /\ InFlight \in Nat
ASSUME NetworkAssumption == Window \in Nat /\ Lossy \in BOOLEAN

VARIABLES
  next,        \* the number of the next NAL unit to send
  part, of,    \* fragments sent of the unit under way, and how many it has
  net,         \* the packets on their way
  sent, lost,  \* the parts that were sent, and those the network has lost
  overtaken,   \* a packet has overtaken another
  arrived,     \* the fragments that process_rtp has been given
  fua_buffer,  \* the fragments collected
  fua_active,  \* H264Depacketizer.fua_active
  out          \* what process_rtp has returned, None left out

sender == <<next, part, of>>
depacketizer == <<fua_buffer, fua_active>>
vars == <<sender, net, sent, lost, overtaken, arrived, depacketizer, out>>

Single(n) == [kind |-> "single", unit |-> n, part |-> 1, of |-> 1]
Fragment(n, i, l) == [kind |-> "fu", unit |-> n, part |-> i, of |-> l]
\* The aggregate of the k units from n on; k = 0 if no unit fits the payload.
Aggregate(n, k) == [kind |-> "stap", unit |-> n, part |-> 1, of |-> k]
\* An empty payload, a fragment without a header, a type that is not handled.
Unusable == [kind |-> "other", unit |-> 0, part |-> 0, of |-> 0]

\* What a packet brings.
Carries(p) ==
  IF p.kind = "fu" THEN {<<p.unit, p.part>>}
  ELSE IF p.kind = "other" THEN {} ELSE {<<p.unit + i - 1, 1>> : i \in 1..p.of}

Init ==
  /\ next = 1 /\ part = 0 /\ of = 0
  /\ net = <<>> /\ sent = {} /\ lost = {} /\ overtaken = FALSE
  /\ arrived = {}
  /\ fua_buffer = <<>> /\ fua_active = FALSE
  /\ out = <<>>

-----------------------------------------------------------------------------
\* The sender and the network.
Transmit(p) ==
  /\ Len(net) < InFlight
  /\ net' = Append(net, p)
  /\ sent' = sent \cup Carries(p)
  /\ UNCHANGED <<lost, overtaken, arrived, depacketizer, out>>

SendSingle ==
  /\ part = 0 /\ next <= MaxUnits
  /\ Transmit(Single(next))
  /\ next' = next + 1
  /\ UNCHANGED <<part, of>>

SendAggregate ==
  /\ part = 0
  /\ \E k \in 0..MaxParts :
       /\ next + k <= MaxUnits + 1
       /\ Transmit(Aggregate(next, k))
       /\ next' = next + k
  /\ UNCHANGED <<part, of>>

SendFragment ==
  /\ next <= MaxUnits
  /\ \E l \in 2..MaxParts :
       /\ part # 0 => l = of
       /\ Transmit(Fragment(next, part + 1, l))
       /\ IF part + 1 = l
            THEN next' = next + 1 /\ part' = 0 /\ of' = 0
            ELSE part' = part + 1 /\ of' = l /\ UNCHANGED next

SendUnusable == Transmit(Unusable) /\ UNCHANGED sender

Lose ==
  /\ Lossy
  /\ \E i \in DOMAIN net :
       net' = RemoveAt(net, i) /\ lost' = lost \cup Carries(net[i])
  /\ UNCHANGED <<sender, sent, overtaken, arrived, depacketizer, out>>

\* read_rtp() yields a packet of kind k and process_rtp is called with it.
Arrives(p, k) ==
  /\ p.kind = k
  /\ \E i \in DOMAIN net :
       /\ i <= Window + 1 /\ net[i] = p
       /\ net' = RemoveAt(net, i)
       /\ overtaken' = (overtaken \/ i > 1)
  /\ arrived' = IF k = "fu" THEN arrived \cup {p} ELSE arrived
  /\ UNCHANGED <<sender, sent, lost>>

-----------------------------------------------------------------------------
ResetFua == fua_buffer' = <<>> /\ fua_active' = FALSE

\* Deviation: an interrupted reassembly goes on.
SinglePacketKeeps(p) ==
  /\ Arrives(p, "single")
  /\ out' = Append(out, <<<<p.unit, 1>>>>)
  /\ UNCHANGED depacketizer
SinglePacket(p) ==
  /\ Arrives(p, "single")
  /\ out' = Append(out, <<<<p.unit, 1>>>>)
  /\ ResetFua

\* depacketize_stap_a: all the units the payload holds, one after the other.
StapPacket(p) ==
  /\ Arrives(p, "stap")
  /\ out' = IF p.of = 0 THEN out
            ELSE Append(out, [i \in 1..p.of |-> <<p.unit + i - 1, 1>>])
  /\ ResetFua

\* What the fragment is added to: nothing if it is the first.
\* Deviation: the buffer is not cleared.
CollectedStale(p) == fua_buffer
Collected(p) == IF p.part = 1 THEN <<>> ELSE fua_buffer

\* Deviation: a fragment without a start is taken.
OrphanTaken(p) == FALSE
Orphan(p) == p.part # 1 /\ ~fua_active

End(b) == out' = Append(out, b) /\ ResetFua

\* depacketize_fu_a
FuaPacket(p) ==
  /\ Arrives(p, "fu")
  /\ LET b == Append(Collected(p), <<p.unit, p.part>>) IN
       \/ Orphan(p) /\ UNCHANGED <<depacketizer, out>>
       \/ ~Orphan(p) /\ p.part = p.of /\ End(b)
       \/ /\ ~Orphan(p) /\ p.part # p.of
          /\ fua_buffer' = b /\ fua_active' = TRUE
          /\ UNCHANGED out

UnusablePacket(p) == Arrives(p, "other") /\ UNCHANGED <<depacketizer, out>>

ProcessRtp(p) == SinglePacket(p) \/ StapPacket(p) \/ FuaPacket(p) \/ UnusablePacket(p)

Next ==
  \/ SendSingle \/ SendAggregate \/ SendFragment \/ SendUnusable
  \/ Lose
  \/ \E p \in ToSet(net) : ProcessRtp(p)

Spec == Init /\ [][Next]_vars

-----------------------------------------------------------------------------
Before(x, y) == x[1] < y[1] \/ (x[1] = y[1] /\ x[2] < y[2])

\* Until a packet overtakes another, all that process_rtp has returned is in the
\* order it was sent and nothing is in it twice, whatever was lost.
OutInOrder ==
  ~overtaken =>
    \A i, j \in DOMAIN out : \A k \in DOMAIN out[i], l \in DOMAIN out[j] :
      i < j \/ (i = j /\ k < l) => Before(out[i][k], out[j][l])

Whole(n, l) == [i \in 1..l |-> <<n, i>>]
AllArrived(n, l) == \A i \in 1..l : Fragment(n, i, l) \in arrived

\* Until a packet overtakes another, a unit all of whose fragments arrive is
\* returned whole, whatever was lost before, after or around it.
IntactUnitsReturned ==
  ~overtaken =>
    \A n \in 1..MaxUnits, l \in 2..MaxParts :
      AllArrived(n, l) => Whole(n, l) \in ToSet(out)

\* Whatever is lost or reordered, what is returned begins with the header of a
\* unit and ends with the last byte of one: an end without a start is not used.
StartsAndEnds(u) ==
  /\ u[1][2] = 1
  /\ \/ Last(u)[2] = 1
     \/ \E p \in arrived : p.part = p.of /\ Last(u) = <<p.unit, p.part>>

\* Until a packet overtakes another, what is missing between two neighbours was
\* lost: no unit has a hole, and no two are spliced, over what has arrived.
OnlyLossIsMissing(u) ==
  ~overtaken =>
    \A k \in 1..(Len(u) - 1) : \A x \in sent :
      Before(u[k], x) /\ Before(x, u[k + 1]) => x \in lost

UnitsHoldTogether == \A u \in ToSet(out) : StartsAndEnds(u) /\ OnlyLossIsMissing(u)
=============================================================================

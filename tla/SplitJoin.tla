----------------------------- MODULE SplitJoin ------------------------------
(***************************************************************************)
(* Splitting and joining checked against what they are for: a message of   *)
(* every length up to MaxLen is split, its packets arrive one at a time in *)
(* any order, up to MaxRepeats of them again, and in every state what      *)
(* JoinPackets would make of the packets so far is compared with the       *)
(* message that was split.                                                 *)
(***************************************************************************)
EXTENDS Segments

CONSTANTS
  SegSize,      \* payload bytes in a packet
  MaxLen,       \* longest message
  Parities,     \* parity settings, out of SectSize
  MaxRepeats    \* packets that may arrive again

ASSUME SplitJoinAssumption ==
  /\ SegSize \in Nat \ {0} /\ MaxLen \in Nat /\ MaxRepeats \in Nat
  /\ Parities \subseteq 0 .. SectSize - 1

VARIABLES
  length,       \* Length of the message, in every packet of it
  parity,       \* Parity of the message, in every packet of it
  packets       \* sequence numbers received, in ascending order

vars == <<length, parity, packets>>

Init ==
  /\ length \in 1..MaxLen
  /\ parity \in Parities
  /\ packets = << >>

\* A packet of the message arrives; the list is kept sorted as sort.Sort
\* leaves it in JoinPackets.
Receive(seq) ==
  /\ seq \in ToSet(packets) => Cardinality(Repeats(packets)) < MaxRepeats
  /\ LET below == Cardinality({i \in DOMAIN packets : packets[i] <= seq})
     IN  packets' = InsertAt(packets, below + 1, seq)
  /\ UNCHANGED <<length, parity>>

Next == \E seq \in SplitToPackets(length, SegSize, parity) : Receive(seq)

Spec == Init /\ [][Next]_vars

-----------------------------------------------------------------------------
(* What the layout and the join must be.                                   *)

segMap == NewSegments(length, SegSize, parity)
outcome == JoinPackets(packets, length, SegSize, parity)

\* The data packets of the message in their order, and all its bytes.
Whole ==
  [shards |-> Sorted(UNION {segMap[i].DStart .. segMap[i].DEnd - 1 : i \in DOMAIN segMap}),
   bytes  |-> length]

\* Lengths the layout is made for: the last segment is neither empty nor the
\* end of the last of several full sections.
Regular ==
  /\ length % SegSize # 0
  /\ Len(segMap) > 1 => segMap[Len(segMap)].Last = length % SegSize

\* NewSegments lays the sections out one after the other without gap or
\* overlap, none larger than the encoder's SectSize, and each with at least
\* one parity packet if there is any parity (the encoder refuses zero).
LayoutContiguous ==
  /\ segMap # << >> /\ segMap[1].DStart = 0
  /\ \A i \in DOMAIN segMap :
       /\ segMap[i].DStart < segMap[i].DEnd
       /\ segMap[i].PEnd - segMap[i].DStart <= SectSize
       /\ i > 1 => segMap[i].DStart = segMap[i-1].PEnd
       /\ IF parity = 0 THEN segMap[i].PEnd = segMap[i].DEnd
                        ELSE segMap[i].PEnd > segMap[i].DEnd

\* A join that reports success returns exactly the message that was split:
\* the right segments in the right order and no padding, whichever packets
\* were lost and in whatever order the others came.
JoinReturnsMessage ==
  (Regular /\ Repeats(packets) = {} /\ outcome.status = "ok") =>
    outcome.msg = Whole

\* The redundancy is worth what it costs: a join succeeds as soon as every
\* section has as many packets as it has data segments, and not before.
JoinWhenEnough ==
  (Repeats(packets) = {} /\ packets # << >>) =>
    (outcome.status = "ok" <=>
       \A i \in DOMAIN segMap :
         Cardinality(ToSet(packets) \cap ShardsOf(segMap[i])) >= DataLen(segMap[i]))

\* Once every packet has come, a repeat of some of them does no harm if there
\* is redundancy: "Check the data is the same, then discard the second if they
\* match".  (A packet that comes three times does: it is looked for at an
\* index below zero.)
RepeatsHarmless ==
  ( /\ Regular /\ parity > 0
    /\ ToSet(packets) = 0 .. PacketCount(segMap) - 1
    /\ \A i \in Repeats(packets) : i + 1 \notin Repeats(packets) ) =>
    outcome.status = "ok" /\ outcome.msg = Whole

\* A join is exact: it returns the message that was split or nothing, it does so
\* from the moment there is enough, and repeats change nothing.
JoinIsExact == JoinReturnsMessage /\ JoinWhenEnough /\ RepeatsHarmless

\* A message that fills its last segment exactly can be sent too: AddParity
\* expects the segments to be as many as the layout announces ("slice wrong
\* length, got %d expected %d").
FullSegmentsSurvive ==
  (ToSet(packets) = SplitToPackets(length, SegSize, parity) /\ length % SegSize = 0) =>
    (outcome.status = "ok" /\ outcome.msg = Whole)
=============================================================================

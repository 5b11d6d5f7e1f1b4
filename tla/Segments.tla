------------------------------ MODULE Segments ------------------------------
(***************************************************************************)
(* How a message is cut into packets and put together again: package       *)
(* packet (segcalc.go, segment.go) and slice.Segment.                      *)
(*                                                                         *)
(* A message of payloadLen bytes is cut into segments of segSize bytes;    *)
(* segments are grouped into sections of at most SectSize packets (256 in  *)
(* the code), each with its own Reed-Solomon parity packets.  A packet is  *)
(* abstracted to its sequence number Seq (from 0), which identifies its    *)
(* contents; a joined message is the sequence of the data packets that     *)
(* were concatenated and the number of bytes that were kept of them.       *)
(***************************************************************************)
EXTENDS Integers, Sequences, FiniteSets, FiniteSetsExt, SequencesExt

CONSTANT SectSize     \* packets in a full section, 256 in the code

ASSUME SectSizeAssumption == SectSize \in Nat \ {0}

\* The elements of a finite set of integers in ascending order (sort.Sort).
Sorted(S) ==
  [k \in 1..Cardinality(S) |->
     CHOOSE x \in S : Cardinality({y \in S : y < x}) = k - 1]

-----------------------------------------------------------------------------
(* The section layout.                                                     *)

\* nSegs: the segments the layout provides for.
SegmentTotal(payloadLen, segSize) == payloadLen \div segSize + 1

\* Variant that takes the parity for a share of the data packets alone.
WithParity_OfAll(nSegs, parity) == nSegs + (nSegs * parity) \div SectSize

\* withR: the packets with the redundant ones, raised by one when the ratio
\* rounds to no parity.
WithParity(nSegs, parity) ==
  LET ratio == nSegs + (nSegs * parity) \div (SectSize - parity)
  IN  IF ratio = nSegs /\ parity > 0 THEN ratio + 1 ELSE ratio

\* The sections of a message.  Only a message of exactly one full section
\* gets the length of its last segment in Last; the last of several full
\* sections does not.
NewSegments(payloadLen, segSize, parity) ==
  LET nSegs    == SegmentTotal(payloadLen, segSize)
      withR    == WithParity(nSegs, parity)
      lastSeg  == payloadLen % segSize
      sectsD   == SectSize - parity
      sects    == nSegs \div sectsD
      lastSect == nSegs % sectsD
      start    == sects * SectSize
      endD     == start + lastSect
      full(i)  == [DStart |-> (i-1) * SectSize,
                   DEnd   |-> (i-1) * SectSize + sectsD,
                   PEnd   |-> i * SectSize,
                   SLen   |-> segSize,
                   Last   |-> IF lastSect = 0 /\ sects = 1 THEN lastSeg ELSE segSize]
      tail     == [DStart |-> start,
                   DEnd   |-> endD,
                   PEnd   |-> IF withR = endD /\ parity > 0 THEN withR + 1 ELSE withR,
                   SLen   |-> segSize,
                   Last   |-> lastSeg]
  IN  [i \in 1..sects |-> full(i)] \o (IF lastSect > 0 THEN <<tail>> ELSE << >>)

DataLen(sm)      == sm.DEnd - sm.DStart
ShardsOf(sm)     == sm.DStart .. sm.PEnd - 1
DataShards(segMap)  == segMap[Len(segMap)].DEnd
PacketCount(segMap) == segMap[Len(segMap)].PEnd

\* slice.Segment: how many segments the payload is really cut into.
SegmentCount(payloadLen, segSize) == (payloadLen + segSize - 1) \div segSize

\* AddParity takes the data segments section by section and needs as many as
\* the layout announces; otherwise the split fails.
AddParity(segMap, segments) ==
  segments = MapThenSumSet(LAMBDA i : DataLen(segMap[i]), DOMAIN segMap)

\* append leaves no room in a slice whose length is a power of two.
SliceIsFull(n) == \E k \in 0..n : n = 2^k

\* SplitToPackets: the sequence numbers of the packets that are made.  When
\* the segments fall one short of the layout (payloadLen a multiple of
\* segSize) AddParity reads one segment past their end: it panics if their
\* slice is full; otherwise the segment is empty, and without parity its
\* packet is made all the same, while with parity the encoder refuses the
\* section and only the packets of the earlier ones are made.
SplitToPackets(payloadLen, segSize, parity) ==
  LET segMap == NewSegments(payloadLen, segSize, parity)
      segs   == SegmentCount(payloadLen, segSize)
  IN  CASE payloadLen = 0 -> {}
        [] payloadLen > 0 /\ AddParity(segMap, segs) -> 0 .. PacketCount(segMap) - 1
        [] payloadLen > 0 /\ ~AddParity(segMap, segs) ->
             IF SliceIsFull(segs) THEN {}
             ELSE 0 .. (IF parity = 0 THEN PacketCount(segMap)
                                      ELSE segMap[Len(segMap)].DStart) - 1

-----------------------------------------------------------------------------
(* Reassembly.                                                             *)

\* The positions (from 1) of packets that repeat the one before them.
Repeats(packets) == {i \in 2..Len(packets) : packets[i] = packets[i-1]}

\* RemovePacket, applied to the discarded sequence numbers in turn: the k-th
\* one is taken for an index and corrected by the k-1 removals before it.
RemovePackets(packets, discard) ==
  FoldLeftDomain(LAMBDA acc, k : RemoveAt(acc, discard[k] - (k-1) + 1),
                 packets, discard)

\* The data packets a section contributes; at gives the packet at a place.
SectionData(sm, at) == [j \in 1..DataLen(sm) |-> at[sm.DStart + j - 1]]

\* The message made of the first n sections: join drops the padding of a
\* section's last segment when its length is not that of a whole segment.
Joined(segMap, n, cut, at) ==
  [shards |-> FlattenSeq([i \in 1..n |-> SectionData(segMap[i], at)]),
   bytes  |-> MapThenSumSet(LAMBDA i : DataLen(segMap[i]) * segMap[i].SLen
                                         - (segMap[i].SLen - segMap[i].Last), 1..n)
                - (IF n = Len(segMap) THEN cut ELSE 0)]

\* The outcome of a join: its status, how many sections went into the message
\* before it stopped, the message, and whether the packets are kept (collated
\* by sequence number) or dropped.
Outcome(status, n, msg, kept) ==
  [status |-> status, sections |-> n, msg |-> msg, kept |-> kept]

NoMessage == [shards |-> << >>, bytes |-> 0]

\* Variant that also accepts a section that is one packet short.
Recoverable_OffByOne(segMap, have) ==
  {i \in DOMAIN segMap :
     Cardinality(have \cap ShardsOf(segMap[i])) + 1 >= DataLen(segMap[i])}

\* Sections that can be rebuilt from the packets at hand.
Recoverable(segMap, have) ==
  {i \in DOMAIN segMap :
     Cardinality(have \cap ShardsOf(segMap[i])) >= DataLen(segMap[i])}

\* JoinPackets on packets sorted by sequence number.  A repeated packet is
\* compared with the one found at the index of its sequence number, which
\* must exist, and discarded when they agree.  If as many packets as the
\* layout has are left they are concatenated by position; otherwise they are
\* collated and each section is rebuilt, up to the first that cannot be.
JoinPackets(packets, payloadLen, segSize, parity) ==
  LET segMap   == NewSegments(payloadLen, segSize, parity)
      segCount == PacketCount(segMap)
      cut      == IF payloadLen % segSize = 0 THEN segSize ELSE 0
      reps     == Repeats(packets)
      same     == {i \in reps : packets[packets[i] + 1] = packets[i]}
      discard  == [k \in 1..Cardinality(same) |-> packets[Sorted(same)[k]]]
      left     == RemovePackets(packets, discard)
      lp       == Len(packets) - Len(discard)
      have     == ToSet(left)
      lost     == DOMAIN segMap \ Recoverable(segMap, have)
      n        == IF lost = {} THEN Len(segMap) ELSE Min(lost) - 1
  IN  CASE Len(packets) = 0 -> Outcome("error", 0, NoMessage, FALSE)
        [] reps # {} /\ parity = 0 -> Outcome("error", 0, NoMessage, FALSE)
        [] \E i \in reps : packets[i] + 1 > Len(packets) ->
             Outcome("panic", 0, NoMessage, FALSE)
        [] \E k \in DOMAIN discard : discard[k] - (k-1) < 0 ->
             Outcome("panic", 0, NoMessage, FALSE)
        [] parity = 0 /\ lp < segCount -> Outcome("error", 0, NoMessage, FALSE)
        [] lp = segCount ->
             Outcome("ok", Len(segMap),
                     Joined(segMap, Len(segMap), cut, [i \in 0..segCount-1 |-> left[i+1]]), FALSE)
        [] OTHER ->
             Outcome(IF lost = {} THEN "ok" ELSE "error", n,
                     Joined(segMap, n, cut, [i \in 0..segCount-1 |-> i]), TRUE)
=============================================================================

--------------------------- MODULE SegmentsProofs ---------------------------
(***************************************************************************)
(* Facts about the section layout that hold for every size of message,     *)
(* segment and section.                                                    *)
(***************************************************************************)
EXTENDS Segments, FiniteSetTheorems, SequenceTheorems, TLAPS

\* Quotient and remainder, as the layout uses them.
LEMMA DivMod ==
  ASSUME NEW n \in Nat, NEW d \in Nat \ {0}
  PROVE  /\ n \div d \in Nat
         /\ n % d \in 0 .. d - 1
         /\ n = d * (n \div d) + (n % d)
  OBVIOUS

\* The quotient is the only number it can be.
LEMMA DivUnique ==
  ASSUME NEW d \in Nat \ {0}, NEW q \in Nat, NEW r \in 0 .. d - 1
  PROVE  (d * q + r) \div d = q
<1> DEFINE n == d * q + r
<1>1. n \in Nat
  OBVIOUS
<1>2. n \div d \in Nat /\ n % d \in 0 .. d - 1 /\ n = d * (n \div d) + (n % d)
  BY <1>1, DivMod
<1>3. ASSUME NEW x \in Nat, NEW y \in 0 .. d - 1, n = d * x + y
      PROVE  x = q
  <2>1. CASE x < q
    <3>1. d * (x + 1) <= d * q
      BY <2>1
    <3> QED
      BY <1>3, <3>1
  <2>2. CASE x > q
    <3>1. d * (q + 1) <= d * x
      BY <2>2
    <3> QED
      BY <1>3, <3>1
  <2> QED
    BY <2>1, <2>2
<1> QED
  BY <1>2, <1>3

\* Whole multiples come out of a division unchanged.
LEMMA DivSum ==
  ASSUME NEW d \in Nat \ {0}, NEW q \in Nat, NEW n \in Nat
  PROVE  (d * q + n) \div d = q + (n \div d)
<1>1. n \div d \in Nat /\ n % d \in 0 .. d - 1 /\ n = d * (n \div d) + (n % d)
  BY DivMod
<1>2. d * q + n = d * (q + (n \div d)) + (n % d)
  BY <1>1
<1>3. (d * (q + (n \div d)) + (n % d)) \div d = q + (n \div d)
  BY <1>1, DivUnique
<1> QED
  BY <1>2, <1>3

\* A proper part of d takes its share of p rounded down: less than p.
LEMMA DivShare ==
  ASSUME NEW d \in Nat \ {0}, NEW p \in Nat, NEW r \in 0 .. d - 1
  PROVE  /\ (r * p) \div d \in Nat
         /\ (r * p) \div d <= p
         /\ p > 0 => (r * p) \div d < p
<1>1. r * p \in Nat /\ r * p <= d * p /\ (p > 0 => r * p < d * p)
  <2>1. r * p \in Nat
    OBVIOUS
  <2>2. (d - r) * p = d * p - r * p /\ (d - r) * p \in Nat /\ (p > 0 => (d - r) * p > 0)
    OBVIOUS
  <2> QED
    BY <2>1, <2>2
<1> DEFINE x == (r * p) \div d
<1>2. x \in Nat /\ d * x <= r * p
  <2> DEFINE n == r * p
  <2>1. n \in Nat
    BY <1>1
  <2> HIDE DEF n
  <2>2. n \div d \in Nat /\ n % d \in 0 .. d - 1 /\ n = d * (n \div d) + (n % d)
    BY <2>1, DivMod
  <2>3. d * (n \div d) <= n
    BY <2>1, <2>2
  <2> QED
    BY <2>2, <2>3 DEF n
<1>3. CASE x > p
  <2>1. d * (p + 1) <= d * x
    BY <1>2, <1>3
  <2> QED
    BY <1>1, <1>2, <2>1
<1>4. CASE x = p /\ p > 0
  BY <1>1, <1>2, <1>4
<1> QED
  BY <1>2, <1>3, <1>4

\* A sequence with one more element at its end.
LEMMA ConcatOne ==
  ASSUME NEW S, NEW s \in Seq(S), NEW t \in S
  PROVE  /\ s \o <<t>> \in [1..Len(s) + 1 -> S]
         /\ Len(s \o <<t>>) = Len(s) + 1
         /\ \A i \in 1..Len(s) : (s \o <<t>>)[i] = s[i]
         /\ (s \o <<t>>)[Len(s) + 1] = t
<1>1. s \o <<t>> \in Seq(S) /\ Len(s \o <<t>>) = Len(s) + 1
  BY ConcatProperties
<1>2. \A i \in 1..Len(s) + 1 : (s \o <<t>>)[i] = IF i <= Len(s) THEN s[i] ELSE t
  BY ConcatProperties
<1>3. s \o <<t>> \in [1..Len(s) + 1 -> S]
  <2> DEFINE c == s \o <<t>>
  <2>1. c \in Seq(S) /\ Len(c) = Len(s) + 1
    BY <1>1
  <2>2. c \in [1..Len(c) -> S]
    <3> HIDE DEF c
    <3> QED
      BY <2>1
  <2> QED
    BY <2>1, <2>2
<1>4. Len(s) \in Nat
  OBVIOUS
<1> QED
  BY <1>1, <1>2, <1>3, <1>4

Section == [DStart : Nat, DEnd : Nat, PEnd : Nat, SLen : Nat, Last : Nat]

\* What a layout is made of: sects full sections, then perhaps one with
\* lastSect data packets.
Parts(segMap, parity, sects, lastSect) ==
  LET n == sects + (IF lastSect > 0 THEN 1 ELSE 0)
  IN  /\ n \in Nat \ {0}
      /\ segMap \in [1..n -> Section]
      /\ Len(segMap) = n
      /\ \A i \in 1..sects :
           /\ segMap[i].DStart = (i - 1) * SectSize
           /\ segMap[i].DEnd = (i - 1) * SectSize + (SectSize - parity)
           /\ segMap[i].PEnd = i * SectSize
      /\ lastSect > 0 =>
           /\ segMap[n].DStart = sects * SectSize
           /\ segMap[n].DEnd = sects * SectSize + lastSect
           /\ segMap[n].PEnd <= (sects + 1) * SectSize
           /\ IF parity = 0 THEN segMap[n].PEnd = segMap[n].DEnd
                            ELSE segMap[n].PEnd > segMap[n].DEnd

\* NewSegments makes such a layout.
LEMMA LayoutParts ==
  ASSUME NEW payloadLen \in Nat, NEW segSize \in Nat \ {0},
         NEW parity \in 0 .. SectSize - 1
  PROVE  \E sects \in Nat, lastSect \in 0 .. SectSize - parity - 1 :
           Parts(NewSegments(payloadLen, segSize, parity), parity, sects, lastSect)
<1> DEFINE segMap   == NewSegments(payloadLen, segSize, parity)
           nSegs    == SegmentTotal(payloadLen, segSize)
           sectsD   == SectSize - parity
           sects    == nSegs \div sectsD
           lastSect == nSegs % sectsD
           share    == (lastSect * parity) \div sectsD
           lastSeg  == payloadLen % segSize
           n        == sects + (IF lastSect > 0 THEN 1 ELSE 0)
<1>1. nSegs \in Nat \ {0} /\ sectsD \in Nat \ {0} /\ lastSeg \in Nat
  BY DivMod, SectSizeAssumption DEF SegmentTotal
<1> HIDE DEF nSegs, lastSeg
<1>2. sects \in Nat /\ lastSect \in 0 .. sectsD - 1 /\ nSegs = sectsD * sects + lastSect
  <2> HIDE DEF sectsD
  <2> QED
    BY <1>1, DivMod
<1>3. n > 0 /\ n \in Nat
  BY <1>1, <1>2
<1>4. /\ share \in Nat /\ share <= parity /\ (parity > 0 => share < parity)
      /\ (nSegs * parity) \div sectsD = sects * parity + share
  <2> HIDE DEF sectsD, sects, lastSect
  <2>1. share \in Nat /\ share <= parity /\ (parity > 0 => share < parity)
    BY <1>1, <1>2, DivShare
  <2>2. nSegs * parity = sectsD * (sects * parity) + lastSect * parity
    BY <1>1, <1>2
  <2>3. sects * parity \in Nat /\ lastSect * parity \in Nat
    BY <1>1, <1>2
  <2>4. ASSUME NEW x \in Nat, NEW y \in Nat
        PROVE  (sectsD * x + y) \div sectsD = x + (y \div sectsD)
    BY <1>1, DivSum
  <2>5. (sectsD * (sects * parity) + lastSect * parity) \div sectsD = sects * parity + share
    BY <2>3, <2>4
  <2> QED
    BY <2>1, <2>2, <2>5
<1> DEFINE endD  == sects * SectSize + lastSect
           withR == WithParity(nSegs, parity)
           pEnd  == IF withR = endD /\ parity > 0 THEN withR + 1 ELSE withR
           full(i) == [DStart |-> (i-1) * SectSize, DEnd |-> (i-1) * SectSize + sectsD,
                       PEnd |-> i * SectSize, SLen |-> segSize,
                       Last |-> IF lastSect = 0 /\ sects = 1 THEN lastSeg ELSE segSize]
           tail == [DStart |-> sects * SectSize, DEnd |-> endD, PEnd |-> pEnd,
                    SLen |-> segSize, Last |-> lastSeg]
<1>5. segMap = [i \in 1..sects |-> full(i)] \o (IF lastSect > 0 THEN <<tail>> ELSE << >>)
  BY DEF NewSegments, nSegs, lastSeg
<1>6. /\ endD \in Nat /\ pEnd \in Nat
      /\ lastSect > 0 => /\ pEnd <= (sects + 1) * SectSize
                         /\ IF parity = 0 THEN pEnd = endD ELSE pEnd > endD
  <2>1. nSegs + (nSegs * parity) \div sectsD = endD + share
    <3>1. sects * SectSize = sects * sectsD + sects * parity
      BY <1>2, SectSizeAssumption
    <3> QED
      BY <1>1, <1>2, <1>4, <3>1, SectSizeAssumption
  <2>2. withR = IF endD + share = nSegs /\ parity > 0 THEN endD + share + 1 ELSE endD + share
    BY <2>1 DEF WithParity
  <2>3. endD \in Nat /\ endD + sectsD - lastSect + parity = (sects + 1) * SectSize
    BY <1>2, SectSizeAssumption
  <2> HIDE DEF endD, share, withR, sects, lastSect, sectsD
  <2> QED
    BY <1>1, <1>2, <1>4, <2>2, <2>3
<1>7. tail \in Section /\ \A i \in 1..sects : full(i) \in Section
  BY <1>1, <1>2, <1>6, SectSizeAssumption DEF Section
<1> HIDE DEF segMap
<1>8. /\ segMap \in [1..n -> Section] /\ Len(segMap) = n
      /\ \A i \in 1..sects : segMap[i] = full(i)
      /\ lastSect > 0 => segMap[n] = tail
  <2> HIDE DEF full, tail, sects, lastSect
  <2>1. [i \in 1..sects |-> full(i)] \in Seq(Section) /\ Len([i \in 1..sects |-> full(i)]) = sects
    BY <1>2, <1>7
  <2> DEFINE fulls == [i \in 1..sects |-> full(i)]
  <2>2. CASE lastSect > 0
    <3>1. segMap = fulls \o <<tail>> /\ n = sects + 1
      BY <1>5, <2>2
    <3>2. \A i \in 1..sects : fulls[i] = full(i)
      OBVIOUS
    <3>3. fulls \in Seq(Section) /\ tail \in Section /\ Len(fulls) = sects
      BY <1>7, <2>1
    <3> HIDE DEF fulls, n
    <3>4. /\ segMap \in [1..n -> Section] /\ Len(segMap) = n
          /\ \A i \in 1..sects : segMap[i] = fulls[i]
          /\ segMap[n] = tail
      BY <3>1, <3>3, ConcatOne
    <3> QED
      BY <3>2, <3>4
  <2>3. CASE lastSect = 0
    <3>1. segMap = fulls
      BY <1>5, <2>1, <2>3
    <3> QED
      BY <1>2, <1>7, <2>1, <2>3, <3>1
  <2> QED
    BY <1>2, <2>2, <2>3
<1> QED
  <2> HIDE DEF sects, lastSect
  <2>1. sects \in Nat /\ lastSect \in 0 .. SectSize - parity - 1
    BY <1>2
  <2>2. \A i \in 1..sects :
          /\ segMap[i].DStart = (i - 1) * SectSize
          /\ segMap[i].DEnd = (i - 1) * SectSize + (SectSize - parity)
          /\ segMap[i].PEnd = i * SectSize
    <3> TAKE i \in 1..sects
    <3>1. segMap[i] = full(i)
      BY <1>8
    <3> QED
      BY <3>1
  <2>3. lastSect > 0 =>
          /\ segMap[n].DStart = sects * SectSize
          /\ segMap[n].DEnd = sects * SectSize + lastSect
          /\ segMap[n].PEnd <= (sects + 1) * SectSize
          /\ IF parity = 0 THEN segMap[n].PEnd = segMap[n].DEnd
                           ELSE segMap[n].PEnd > segMap[n].DEnd
    <3> HIDE DEF pEnd, endD
    <3> QED
      BY <1>6, <1>8 DEF endD
  <2>4. n \in Nat \ {0} /\ segMap \in [1..n -> Section] /\ Len(segMap) = n
    BY <1>3, <1>8
  <2> QED
    <3>1. Parts(segMap, parity, sects, lastSect)
      BY <2>2, <2>3, <2>4 DEF Parts
    <3> QED
      BY <2>1, <3>1 DEF segMap

\* A layout has a last section, whose packets are numbered in the naturals.
LEMMA LayoutType ==
  ASSUME NEW payloadLen \in Nat, NEW segSize \in Nat \ {0},
         NEW parity \in 0 .. SectSize - 1
  PROVE  LET segMap == NewSegments(payloadLen, segSize, parity)
         IN  /\ segMap[Len(segMap)].DStart \in Nat
             /\ PacketCount(segMap) \in Nat
<1> DEFINE segMap == NewSegments(payloadLen, segSize, parity)
<1>1. PICK sects \in Nat, lastSect \in 0 .. SectSize - parity - 1 :
        Parts(segMap, parity, sects, lastSect)
  BY LayoutParts
<1> HIDE DEF segMap
<1>2. Len(segMap) \in DOMAIN segMap /\ segMap[Len(segMap)] \in Section
  BY <1>1 DEF Parts
<1> QED
  BY <1>2 DEF segMap, PacketCount, Section

\* Such a layout leaves no gap, fits the encoder and has parity if any is
\* asked for.
LEMMA PartsContiguous ==
  ASSUME NEW segMap, NEW parity \in 0 .. SectSize - 1, NEW sects \in Nat,
         NEW lastSect \in 0 .. SectSize - parity - 1,
         Parts(segMap, parity, sects, lastSect),
         NEW i \in DOMAIN segMap
  PROVE  /\ i = 1 => segMap[i].DStart = 0
         /\ segMap[i].DStart < segMap[i].DEnd
         /\ segMap[i].PEnd - segMap[i].DStart <= SectSize
         /\ i > 1 => segMap[i].DStart = segMap[i-1].PEnd
         /\ IF parity = 0 THEN segMap[i].PEnd = segMap[i].DEnd
                          ELSE segMap[i].PEnd > segMap[i].DEnd
<1> DEFINE n == sects + (IF lastSect > 0 THEN 1 ELSE 0)
<1>1. i \in 1..n /\ segMap[i] \in Section
  BY DEF Parts
<1>2. i > 1 => segMap[i-1].PEnd = (i - 1) * SectSize
  <2>1. i > 1 => i - 1 \in 1..sects
    BY <1>1
  <2> QED
    BY <2>1 DEF Parts
<1> DEFINE base == (i - 1) * SectSize
<1>3. base \in Nat /\ i * SectSize = base + SectSize /\ (i = 1 => base = 0)
  BY <1>1, SectSizeAssumption
<1>4. CASE i \in 1..sects
  <2>1. /\ segMap[i].DStart = base
        /\ segMap[i].DEnd = base + (SectSize - parity)
        /\ segMap[i].PEnd = i * SectSize
    BY <1>4 DEF Parts
  <2> HIDE DEF base
  <2> QED
    BY <1>2, <1>3, <2>1, SectSizeAssumption DEF base
<1>5. CASE i \notin 1..sects
  <2>1. lastSect > 0 /\ i = n /\ n = sects + 1
    BY <1>1, <1>5
  <2>2. /\ segMap[i].DStart = base
        /\ segMap[i].DEnd = base + lastSect
        /\ segMap[i].PEnd <= i * SectSize
        /\ IF parity = 0 THEN segMap[i].PEnd = segMap[i].DEnd
                         ELSE segMap[i].PEnd > segMap[i].DEnd
    BY <2>1 DEF Parts
  <2>3. segMap[i].PEnd \in Nat
    BY <1>1 DEF Section
  <2> HIDE DEF base
  <2> QED
    BY <1>2, <1>3, <2>1, <2>2, <2>3, SectSizeAssumption DEF base
<1> QED
  BY <1>4, <1>5

\* The packets of a message are finitely many, numbered in the naturals.
LEMMA SplitType ==
  ASSUME NEW payloadLen \in Nat, NEW segSize \in Nat \ {0},
         NEW parity \in 0 .. SectSize - 1
  PROVE  /\ SplitToPackets(payloadLen, segSize, parity) \subseteq Nat
         /\ IsFiniteSet(SplitToPackets(payloadLen, segSize, parity))
<1> DEFINE segMap == NewSegments(payloadLen, segSize, parity)
           segs   == SegmentCount(payloadLen, segSize)
           S      == SplitToPackets(payloadLen, segSize, parity)
<1>1. segMap[Len(segMap)].DStart \in Nat /\ PacketCount(segMap) \in Nat
  BY LayoutType
<1>2. \E n \in Nat : S = 0 .. n - 1
  <2>1. {} = 0 .. 0 - 1
    OBVIOUS
  <2>2. CASE payloadLen = 0
    BY <2>1, <2>2 DEF SplitToPackets
  <2>3. CASE payloadLen > 0 /\ AddParity(segMap, segs)
    BY <1>1, <2>3 DEF SplitToPackets
  <2>4. CASE payloadLen > 0 /\ ~AddParity(segMap, segs)
    <3>1. S = IF SliceIsFull(segs) THEN {}
              ELSE 0 .. (IF parity = 0 THEN PacketCount(segMap)
                                       ELSE segMap[Len(segMap)].DStart) - 1
      BY <2>4 DEF SplitToPackets
    <3> HIDE DEF S
    <3> QED
      BY <1>1, <2>1, <3>1
  <2> QED
    BY <2>2, <2>3, <2>4
<1> HIDE DEF S
<1>3. PICK n \in Nat : S = 0 .. n - 1
  BY <1>2
<1>4. IsFiniteSet(0 .. n - 1)
  BY FS_Interval
<1> QED
  BY <1>3, <1>4 DEF S

\* Every order in which the packets of a set may be sent is a sequence of
\* its members.
LEMMA SetToSeqsType ==
  ASSUME NEW S, IsFiniteSet(S), NEW s \in SetToSeqs(S)
  PROVE  s \in Seq(S)
<1>1. Cardinality(S) \in Nat
  BY FS_CardinalityType
<1>2. s \in [1..Cardinality(S) -> S]
  BY DEF SetToSeqs
<1> QED
  BY <1>1, <1>2
=============================================================================

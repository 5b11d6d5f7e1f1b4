-------------------------- MODULE SplitJoinProofs ---------------------------
(***************************************************************************)
(* The section layout is right for every length of message, every segment  *)
(* size, every section size and every parity setting.                      *)
(***************************************************************************)
EXTENDS SplitJoin, SegmentsProofs

\* The message does not change while its packets arrive.
Inputs == length \in 1..MaxLen /\ parity \in Parities

\* The length and the parity of the message stay what they were.
LEMMA InputsInvariant == Spec => []Inputs
<1>1. Init => Inputs
  BY DEF Init, Inputs
<1>2. Inputs /\ [Next]_vars => Inputs'
  BY DEF Inputs, Next, Receive, vars
<1> QED
  BY <1>1, <1>2, PTL DEF Spec

\* The sections NewSegments lays out follow each other without gap or overlap,
\* fit the encoder and have parity when there is any.
THEOREM LayoutTheorem == Spec => []LayoutContiguous
<1>1. Inputs => LayoutContiguous
  <2> SUFFICES ASSUME Inputs PROVE LayoutContiguous
    OBVIOUS
  <2>1. length \in Nat /\ SegSize \in Nat \ {0} /\ parity \in 0 .. SectSize - 1
    BY SplitJoinAssumption DEF Inputs
  <2>2. PICK sects \in Nat, lastSect \in 0 .. SectSize - parity - 1 :
          Parts(segMap, parity, sects, lastSect)
    BY <2>1, LayoutParts DEF segMap
  <2>3. 1 \in DOMAIN segMap /\ segMap # << >>
    BY <2>2 DEF Parts
  <2> QED
    BY <2>1, <2>2, <2>3, PartsContiguous DEF LayoutContiguous
<1> QED
  BY <1>1, InputsInvariant, PTL
=============================================================================

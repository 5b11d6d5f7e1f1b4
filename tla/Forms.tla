------------------------------- MODULE Forms --------------------------------
(***************************************************************************)
(* Values written in a form of their own and read back: bytes and keys as  *)
(* based32 text, a list of byte strings as a container, a cipher offset in *)
(* three bytes, and numbers and times in cells.  A byte string is a        *)
(* sequence over 0..255, and a text a sequence of symbols in 0..31, the    *)
(* index of each character.                                                *)
(***************************************************************************)
EXTENDS Integers, Sequences, FiniteSetsExt

CONSTANTS Values,      \* for each kind of form, the values that are written
          CheckBytes,  \* bytes a checksum may be filled with
          IndexMod     \* range of a container's index arithmetic, 2^16 in the code

VARIABLES kind, value, form, back
vars == <<kind, value, form, back>>

-----------------------------------------------------------------------------
(* based32 *)

\* Bit i of a sequence of w-bit numbers, and the sequence with its bits taken v
\* at a time instead.
Bit(s, w, i) == (s[(i - 1) \div w + 1] \div 2^(w - 1 - ((i - 1) % w))) % 2
Regroup(s, w, v) ==
  [k \in 1..((Len(s) * w) \div v) |->
     MapThenSumSet(LAMBDA j : 2^(v - j) * Bit(s, w, (k - 1) * v + j), 1..v)]
ToSymbols(bytes) == Regroup(bytes, 8, 5)
ToBytes(symbols) == Regroup(symbols, 5, 8)

\* Mutant: the length byte is not counted in the place of the checksum.
getCutPoint_NoLengthByte(length, checkLen) == length - checkLen

\* Length of the checksum: with the length byte it fills up the last group.
getCheckLen(length) == 5 - ((2 + length) % 5) + 1
getCutPoint(length, checkLen) == length - checkLen - 1

\* The checksum is a hash of the input; what its bytes are does not matter here.
MakeCheck(c, checkLen) == [i \in 1..checkLen |-> c]

\* The last symbol only carries checksum bits and is dropped.
Encoder(input, c) ==
  LET checkLen == getCheckLen(Len(input))
      symbols == ToSymbols(<<checkLen>> \o input \o MakeCheck(c, checkLen))
  IN  SubSeq(symbols, 1, Len(symbols) - 1)

\* Check compares the checksum with one byte more than it has, and takes a
\* difference for validity: it refuses nothing that is long enough.
Check(data) == Len(data) >= data[1] + 1
SymbolQ == 16
Decoder(text) ==
  LET data == ToBytes(Append(text, SymbolQ))
      checkLen == data[1]
  IN  IF Check(data) THEN SubSeq(data, 2, getCutPoint(Len(data) + 1, checkLen)) ELSE <<>>

\* Keys are written without the symbols that are the same in all of them.
PrvToBased32(b, c) == SubSeq(Encoder(b, c), 2, Len(Encoder(b, c)))
PrvFromBased32(s) == Decoder(<<0>> \o s)
PubToBased32(b, c) == SubSeq(Encoder(b, c), 4, Len(Encoder(b, c)))
PubFromBased32(s) == Decoder(<<0, 24, 1>> \o s)
SigString(b, c) == SubSeq(Encoder(b, c), 3, Len(Encoder(b, c)))
SigFromBased32(s) == SubSeq(Decoder(<<0, 16>> \o s), 1, 64)

-----------------------------------------------------------------------------
(* Containers: magic, size, count, one offset per element, the elements.    *)
(* A container is its offsets, its size and its length in bytes.            *)

HeadLen == 4 + 4
CreateContainer(elems) ==
  LET nodes[i \in 1..(Len(elems) + 1)] ==
        IF i = 1 THEN 0 ELSE nodes[i - 1] + Len(elems[i - 1])
      nodeB == Len(elems) * 4 + 2
  IN  [offsets |-> [i \in 1..Len(elems) |-> nodes[i] + nodeB + 8],
       size |-> nodes[Len(elems) + 1] + nodeB + 8,
       body |-> elems]

Count(c) == Len(c.offsets)

\* The offset stored at byte p of the container.
OffsetAt(c, p) ==
  IF p >= 10 /\ (p - 10) % 4 = 0 /\ (p - 10) \div 4 < Count(c)
  THEN c.offsets[(p - 10) \div 4 + 1] ELSE 0

\* Bytes from..to of the body; a place elsewhere gives no element.
Bytes(c, from, to) ==
  LET all[i \in 0..Len(c.body)] == IF i = 0 THEN <<>> ELSE all[i - 1] \o c.body[i]
      start == HeadLen + 2 + 4 * Count(c)
  IN  IF start <= from /\ from <= to /\ to <= c.size
      THEN SubSeq(all[Len(c.body)], from - start + 1, to - start) ELSE <<"none">>

\* Indices count from 0 and the place of an offset is computed in 16 bits.
Get(c, idx) ==
  LET offset == OffsetAt(c, (10 + idx * 4) % IndexMod)
      next == IF idx < Count(c) - 1 THEN OffsetAt(c, (10 + (idx + 1) * 4) % IndexMod)
              ELSE c.size
  IN  IF idx < Count(c) THEN Bytes(c, offset, next) ELSE <<>>

-----------------------------------------------------------------------------
(* Offsets in 24 bits, smallest byte first. *)

MaxUint24 == 2^24 - 1
Offset(o) == <<o % 256, (o \div 256) % 256, (o \div 65536) % 256>>
ReadOffset(b) == b[1] + b[2] * 256 + b[3] * 65536

-----------------------------------------------------------------------------
(* Cells: a value in a fixed number of bytes, largest first, cut from the   *)
(* front of a byte string.                                                  *)

BigEndian(v, n) ==
  LET shifted[k \in 0..(n - 1)] == IF k = 0 THEN v ELSE shifted[k - 1] \div 256
  IN  [i \in 1..n |-> shifted[n - i] % 256]
Number(b) ==
  LET upto[i \in 1..Len(b)] ==
        IF i = 1 THEN (IF b[1] >= 128 THEN b[1] - 256 ELSE b[1])
        ELSE upto[i - 1] * 256 + b[i]
  IN  upto[Len(b)]
Front(b, n) == IF Len(b) < n THEN <<>> ELSE SubSeq(b, 1, n)

Int32Put(v) == BigEndian(v, 4)
Int32NewFrom(b) == Front(b, 4)
Int32Get(b) == Number(b)
TimePut(v) == BigEndian(v, 8)
TimeNewFrom(b) == Front(b, 8)
TimeGet(b) == Number(b)

\* The methods of a tag have a copy of it as their receiver: what is put into
\* a new one is lost.
TagPut(v) == <<0, 0, 0, 0>>
TagNewFrom(b) == Front(b, 4)
TagGet(b) == b

-----------------------------------------------------------------------------
Init == /\ kind \in DOMAIN Values /\ value \in Values[kind]
        /\ form = <<>> /\ back = <<>>

\* An empty byte string has no text, and an offset out of range panics.
Writable == CASE kind \in {"text", "prv", "pub", "sig"} -> value # <<>>
              [] kind = "offset" -> value <= MaxUint24
              [] OTHER -> TRUE

WriteForm ==
  /\ form = <<>> /\ back = <<>> /\ Writable
  /\ \E c \in CheckBytes :
       form' = CASE kind = "text" -> Encoder(value, c)
                 [] kind = "prv" -> PrvToBased32(value, c)
                 [] kind = "pub" -> PubToBased32(value, c)
                 [] kind = "sig" -> SigString(value, c)
                 [] kind = "list" -> <<CreateContainer(value)>>
                 [] kind = "offset" -> Offset(value)
                 [] kind = "int32" -> Int32Put(value)
                 [] kind = "time" -> TimePut(value)
                 [] kind = "tag" -> TagPut(value)
  /\ UNCHANGED <<kind, value, back>>

\* A cell is read with other data behind it.
Rest == <<255, 1>>

ReadForm ==
  /\ form # <<>> /\ back = <<>>
  /\ back' = <<CASE kind = "text" -> Decoder(form)
                 [] kind = "prv" -> PrvFromBased32(form)
                 [] kind = "pub" -> PubFromBased32(form)
                 [] kind = "sig" -> SigFromBased32(form)
                 [] kind = "list" -> [i \in 1..Count(form[1]) |-> Get(form[1], i - 1)]
                 [] kind = "offset" -> ReadOffset(form)
                 [] kind = "int32" -> Int32Get(Int32NewFrom(form \o Rest))
                 [] kind = "time" -> TimeGet(TimeNewFrom(form \o Rest))
                 [] kind = "tag" -> TagGet(TagNewFrom(form \o Rest))>>
  /\ UNCHANGED <<kind, value, form>>

Next == WriteForm \/ ReadForm
Spec == Init /\ [][Next]_vars

-----------------------------------------------------------------------------
\* A container can be indexed as far as its table of offsets lies below the
\* range of the index arithmetic.
InRange == kind = "list" => 10 + Len(value) * 4 <= IndexMod

\* The symbols that are left out of the text of a key depend only on its kind,
\* so that the reader can put them back; in the text of a signature the reader
\* puts back a different one, which only changes the length of the checksum.
FixedSymbols ==
  form # <<>> =>
    /\ kind = "prv" => \A c \in CheckBytes : Encoder(value, c)[1] = 0
    /\ kind = "pub" => \A c \in CheckBytes : SubSeq(Encoder(value, c), 1, 3) = <<0, 24, 1>>
    /\ kind = "sig" => \A c \in CheckBytes : SubSeq(Encoder(value, c), 1, 2) = <<0, 20>>

\* What is read from a form is what was written: a based32 text of any length
\* and checksum, a key from the text without its fixed symbols, every element of
\* a container at its index, every offset, and every cell but a tag.
ReadsBack ==
  /\ back # <<>> /\ InRange /\ kind # "tag" => back[1] = value
  /\ FixedSymbols
=============================================================================

-------------------------------- MODULE Wire --------------------------------
(***************************************************************************)
(* Encoding a message into a buffer and decoding it again.  The sender     *)
(* sizes the buffer with Len and lets every layer write its fields at the  *)
(* cursor; the receiver recognises the magic at the front, checks that     *)
(* enough bytes remain, and reads.  What is left of an onion is then moved *)
(* to the front of the same buffer (BudgeUp), and its next layer is        *)
(* handled in the same way.  A slice that would reach past the buffer is a *)
(* run-time panic.  A field is identified by its layer, name and offset.   *)
(***************************************************************************)
EXTENDS Codecs, FiniteSetsExt

CONSTANTS Stacks,   \* the messages to send, as sequences of layers
          Cuts      \* bytes that may be missing from the end on arrival

VARIABLES stack, size, phase, layer, field, cursor, base, wrote, got
vars == <<stack, size, phase, layer, field, cursor, base, wrote, got>>

-----------------------------------------------------------------------------
(* The onions the engine builds. *)

Crypt == <<Msg("crypt", 0, <<>>)>>
Forward(addr) == <<Msg("forw", 0, addr)>>
ForwardCrypt(addr) == Forward(addr) \o Crypt
Session == <<Msg("sess", 0, <<>>)>>
ForwardSession(addr) == Forward(addr) \o Crypt \o Session
Confirmation == <<Msg("conf", 0, <<>>)>>

ReverseCrypt(addr) == <<Msg("rvrs", 0, addr)>> \o Crypt
RoutingHeader(addr) == ReverseCrypt(addr) \o ReverseCrypt(addr) \o ReverseCrypt(addr)

MakeExit(n, addr) ==
  RoutingHeader(addr) \o <<Msg("exit", n, addr)>> \o RoutingHeader(addr)
MakeGetBalance(addr) ==
  RoutingHeader(addr) \o <<Msg("getb", 0, addr)>> \o RoutingHeader(addr)
MakeHiddenService(addr) ==
  RoutingHeader(addr) \o <<Msg("hids", 0, addr)>> \o RoutingHeader(addr)
MakeIntroQuery(addr) ==
  RoutingHeader(addr) \o <<Msg("intq", 0, addr)>> \o RoutingHeader(addr)
MakeRoute(addr) ==
  RoutingHeader(addr) \o <<Msg("rout", 0, addr)>> \o RoutingHeader(addr)

MakeSession(addr) ==
  Crypt \o Session \o ForwardSession(addr) \o ForwardSession(addr)
    \o ForwardSession(addr) \o ForwardSession(addr)
    \o ForwardCrypt(addr) \o Confirmation
Ping(addr) ==
  Crypt \o ForwardCrypt(addr) \o ForwardCrypt(addr) \o ForwardCrypt(addr)
    \o ForwardCrypt(addr) \o ForwardCrypt(addr) \o Confirmation
Message(n, addr) ==
  ForwardCrypt(addr) \o ForwardCrypt(addr) \o <<Msg("whis", n, addr)>>

\* The bytes Len asks for: a layer adds its own to those of the onion inside.
StackLen(s) ==
  LET sum[i \in 0..Len(s)] == IF i = 0 THEN 0 ELSE sum[i - 1] + LenOf(s[i])
  IN  sum[Len(s)]

-----------------------------------------------------------------------------
Init ==
  /\ stack \in Stacks
  /\ size = StackLen(stack)
  /\ phase = "encode" /\ layer = 1 /\ field = 1
  /\ cursor = 0 /\ base = 0 /\ wrote = {} /\ got = {}

Cur == stack[layer]
FieldsLeft(fs) == field <= Len(fs)

\* One write of an Encode.  A Forward prints its address before it writes, and
\* an absent one cannot be printed.  Advance moves the cursor without writing.
Put ==
  /\ phase = "encode" /\ FieldsLeft(EncodeOf(Cur))
  /\ LET f == EncodeOf(Cur)[field]
         end == cursor + WriteWidth(f, Cur)
     IN  IF (Cur.k = "forw" /\ Cur.addr = <<>>) \/ (end > size /\ f # "skipped")
         THEN phase' = "encode panic" /\ UNCHANGED <<cursor, field, wrote>>
         ELSE /\ cursor' = end /\ field' = field + 1 /\ phase' = phase
              /\ wrote' = wrote \cup {<<layer, f, cursor>>}
  /\ UNCHANGED <<stack, size, layer, base, got>>

\* Encode of the layer inside, for the layers that carry one.
EncodeInner ==
  /\ phase = "encode" /\ ~FieldsLeft(EncodeOf(Cur))
  /\ IF Cur.k \in Wrapping /\ layer < Len(stack)
     THEN layer' = layer + 1 /\ field' = 1 /\ phase' = phase
     ELSE layer' = 1 /\ field' = 1 /\ phase' = "sent"
  /\ UNCHANGED <<stack, size, cursor, base, wrote, got>>

\* The receiver has the buffer, perhaps without its last bytes.
Arrive ==
  /\ phase = "sent"
  /\ \E c \in Cuts : c < size /\ size' = size - c
  /\ phase' = "recognise" /\ cursor' = 0
  /\ UNCHANGED <<stack, layer, field, base, wrote, got>>

\* A message delivered by a routing header of its own has lost it by now.
Front == IF Cur.k \in {"redy", "whis"} THEN base + RoutingHeaderLen ELSE base

\* Recognise reads the magic and finds the type; Decode begins with its length
\* check.  A packet is recognised by the checksum of everything after it.
Recognise ==
  /\ phase = "recognise"
  /\ base' = Front
  /\ IF size < MagicLen
     THEN phase' = "decode panic" /\ cursor' = cursor
     ELSE /\ cursor' = MagicLen
          /\ phase' =
               IF Cur.k = "rpkt"
               THEN IF size < PacketLen(Cur.n) THEN "refused" ELSE "decode"
               ELSE IF <<layer, "magic", Front>> \notin wrote THEN "unknown"
               ELSE IF size - MagicLen < NeedsOf(Cur) THEN "refused" ELSE "decode"
  /\ UNCHANGED <<stack, size, layer, field, wrote, got>>

\* One read of a Decode.
Get ==
  /\ phase = "decode" /\ FieldsLeft(DecodeOf(Cur))
  /\ LET f == DecodeOf(Cur)[field]
     IN  IF cursor + ReadReach(f, Cur) > size
         THEN phase' = "decode panic" /\ UNCHANGED <<cursor, field, got>>
         ELSE /\ cursor' = cursor + ReadWidth(f, Cur)
              /\ field' = field + 1 /\ phase' = phase
              /\ got' = got \cup {<<layer, f, base + cursor>>}
  /\ UNCHANGED <<stack, size, layer, base, wrote>>

\* The rest of an onion is moved to the front and handled there, except that
\* the layers that are answered take a routing header from what follows them.
Relayed == {"crypt", "sess", "forw", "rvrs", "dely"}

BudgeUp ==
  /\ phase = "decode" /\ ~FieldsLeft(DecodeOf(Cur))
  /\ IF Cur.k \in Relayed /\ layer < Len(stack)
     THEN IF cursor > size
          THEN phase' = "decode panic" /\ UNCHANGED <<layer, field, base, cursor>>
          ELSE /\ phase' = "recognise" /\ layer' = layer + 1 /\ field' = 1
               /\ base' = base + cursor /\ cursor' = 0
     ELSE phase' = "done" /\ UNCHANGED <<layer, field, base, cursor>>
  /\ UNCHANGED <<stack, size, wrote, got>>

Next == Put \/ EncodeInner \/ Arrive \/ Recognise \/ Get \/ BudgeUp
Spec == Init /\ [][Next]_vars

-----------------------------------------------------------------------------
\* An address that takes more than the 20 bytes reserved for it; only a dns
\* name of more than 15 characters can.
Oversized(m) == m.addr # <<>> /\ BinaryLen(m.addr) > 20

\* Len reserves enough: no onion or message overruns the buffer codec.Encode
\* makes for it.  Only a Forward without an address, or an oversized address,
\* stops the encoder.
LenIsEnough ==
  phase = "encode panic" => \/ Cur.k = "forw" /\ Cur.addr = <<>>
                           \/ \E i \in 1..layer : Oversized(stack[i])

\* Every Decode finds each field where the Encode of the same type put it, at
\* every depth of an onion.  The announcement of a hidden service is left out:
\* its reader is off by the four magic bytes of the introduction inside.
FieldsInPlace ==
  (\A i \in 1..layer : ~Oversized(stack[i])) =>
  \A g \in got : stack[g[1]].k # "hids" /\ ~(stack[g[1]].k = "rout" /\ g[2] = "routing")
                  => g \in wrote

\* A message read to its end has given its reader everything its writer put
\* in, so that Validate splices the fields that Sign spliced.
NothingIsSkipped ==
  phase = "done" /\ Cur.k # "hids" /\ (\A i \in 1..layer : ~Oversized(stack[i])) =>
    \A w \in wrote : w[1] = layer /\ w[2] \notin {"magic", "check", "skipped"} =>
      w \in got \/ (w[2] = "routing" /\ w[3] < base)

\* What a reader gets is what the writer put in, all of it and in its place.
ReadsWhatWasWritten == FieldsInPlace /\ NothingIsSkipped

\* Types that read a length from the message itself, or check for fewer bytes
\* than they read, or for none.
Trusting == {"exit", "resp", "whis", "onio"} \cup {"forw", "rvrs", "rout", "hids"}
              \cup (Ads \ {"inad"})

\* The length check of every other type refuses a message that was cut short
\* before a read can reach past its end, once its magic has been read.
ChecksAreEnough ==
  phase = "decode panic" /\ size >= MagicLen => Cur.k \in Trusting

\* The header an answer is sent with is copied as RoutingHeaderLen bytes from
\* behind the request.  Everything the sender wrote there is in the copy, with
\* the address field skipped as it is while PickAddress yields none.
Answered == {"exit", "getb", "intq", "rout", "hids"}
LayerStart(i) == Min({w[3] : w \in {v \in wrote : v[1] = i}})

ReplyHeaderIsWhole ==
  phase = "sent" =>
    \A i \in 1..(Len(stack) - 1) : stack[i].k \in Answered /\ stack[i].addr = <<>> =>
      \A w \in wrote : w[1] > i =>
        w[3] + WriteWidth(w[2], stack[w[1]]) <= LayerStart(i + 1) + RoutingHeaderLen

\* The lengths the types declare agree with what they write and read.
RoomIsEnough == LenIsEnough /\ ChecksAreEnough /\ ReplyHeaderIsWhole
=============================================================================

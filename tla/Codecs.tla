------------------------------- MODULE Codecs -------------------------------
(***************************************************************************)
(* The wire forms of every message type.  A message is a sequence of       *)
(* fields; a field is named for what it carries and has a fixed width,     *)
(* except the payload.  For each type the module has the fields its Encode *)
(* writes, the fields its Decode reads after the magic bytes, the length   *)
(* its Len reserves without the enclosed onion, and the number of bytes    *)
(* that Decode demands before it reads (0 where it demands none).          *)
(*                                                                         *)
(* n is the payload length of a type with a payload, and the number of     *)
(* entries of a type with a list.  addr is the address of a type with one, *)
(* as the kinds of its pieces; the empty sequence is an address not given. *)
(***************************************************************************)
EXTENDS Naturals, Sequences, TLC

MagicLen == 4
IDLen == 8
IVLen == 16
HashLen == 32
CloakLen == 8
PubKeyLen == 33
PrvKeyLen == 32
SigLen == 64
Uint16Len == 2
Uint32Len == 4
Uint64Len == 8

\* An address is written as one length byte and 20 bytes; the length the
\* constants of the routing header were computed with is an older one.
MultiaddrLen == 1 + 20
AddrLen == 16 + 2
CryptLen == MagicLen + IVLen + CloakLen + PubKeyLen
ReverseLen == MagicLen + 1 + AddrLen

ReverseCryptLen == ReverseLen + CryptLen
RoutingHeaderLen == 3 * ReverseCryptLen

\* Bytes taken by the fields that one write or read of a splice moves over.
NumberWidth ==
  [f \in {"load", "parity"} |-> 1]
    @@ [f \in {"port", "count", "seq"} |-> Uint16Len]
    @@ [f \in {"rate", "total"} |-> Uint32Len]
    @@ [f \in {"expiry", "first", "last", "size", "received", "ping",
               "duration", "msat"} |-> Uint64Len]

KeyWidth ==
  [f \in {"key", "introducer", "from"} |-> PubKeyLen]
    @@ [f \in {"header", "payload"} |-> PrvKeyLen]
    @@ [f \in {"cloak"} |-> CloakLen] @@ [f \in {"sig"} |-> SigLen]

NonceWidth ==
  [f \in {"magic", "check"} |-> MagicLen] @@ [f \in {"id", "re"} |-> IDLen]
    @@ [f \in {"iv"} |-> IVLen] @@ [f \in {"nonces"} |-> 3 * IVLen]
    @@ [f \in {"hash"} |-> HashLen] @@ [f \in {"ciphers"} |-> 3 * HashLen]

\* Bytes of the pieces of an address in binary; the name in a dns address has
\* no bound of its own and NameLen stands for its length.
CONSTANT NameLen
PieceLen == [ip4 |-> 5, ip6 |-> 17, dns |-> 2 + NameLen, tcp |-> 3]
IsHost(p) == p \in {"ip4", "ip6", "dns"}

\* The two pieces of an address that are kept: pieces are collected until both
\* a port and a host are among them, a missing port is supplied at the end, and
\* the first two are used.  No host, no result.
AddrToBytes(pieces) ==
  LET useful == SelectSeq(pieces, LAMBDA p : IsHost(p) \/ p = "tcp")
      both(i) == {"tcp"} \subseteq {useful[j] : j \in 1..i}
                   /\ \E j \in 1..i : IsHost(useful[j])
      kept == SubSeq(useful, 1, CHOOSE i \in 0..Len(useful) :
                                  (both(i) \/ i = Len(useful)) /\ \A j \in 0..(i - 1) : ~both(j))
      whole == IF "tcp" \in {kept[i] : i \in 1..Len(kept)} THEN kept ELSE Append(kept, "tcp")
  IN  IF \E i \in 1..Len(kept) : IsHost(kept[i]) THEN SubSeq(whole, 1, 2) ELSE <<>>

BinaryLen(pieces) ==
  LET two == AddrToBytes(pieces) IN PieceLen[two[1]] + PieceLen[two[2]]

\* Writing an address pads it to 20 bytes and never cuts it.  Reading one takes
\* as many bytes as its length byte says, and then moves the cursor to the end
\* of the 20 bytes, forward or back, without touching them.
MultiaddrWritten(pieces) ==
  IF AddrToBytes(pieces) = <<>> THEN 0
  ELSE 1 + (IF BinaryLen(pieces) < 20 THEN 20 ELSE BinaryLen(pieces))
MultiaddrRead == MultiaddrLen

\* Width of field f in message m, but for addresses.
Width(f, m) ==
  CASE f \in DOMAIN NumberWidth -> NumberWidth[f]
    [] f \in DOMAIN KeyWidth -> KeyWidth[f]
    [] f \in DOMAIN NonceWidth -> NonceWidth[f]
    [] f = "bytes" -> Uint32Len + m.n
    [] f = "data" -> m.n
    [] f = "skipped" -> ReverseLen
    [] f = "routing" -> RoutingHeaderLen

WriteWidth(f, m) == IF f = "addr" THEN MultiaddrWritten(m.addr) ELSE Width(f, m)
ReadWidth(f, m) == IF f = "addr" THEN MultiaddrRead ELSE Width(f, m)
ReadReach(f, m) == IF f = "addr" THEN 1 + BinaryLen(m.addr) ELSE Width(f, m)

\* n copies of the fields fs.
Times(n, fs) == [i \in 1..(n * Len(fs)) |-> fs[((i - 1) % Len(fs)) + 1]]

-----------------------------------------------------------------------------
(* Layers that carry another onion. *)

CryptEncode == <<"magic", "iv", "cloak", "from">>
CryptDecode == <<"iv", "cloak", "from">>

\* Mutant: the cloaked key is not counted.
CryptNeeds_NoCloak == CryptLen - MagicLen - CloakLen

CryptNeeds == CryptLen - MagicLen

SessionLen == MagicLen + IDLen + PrvKeyLen * 2
SessionEncode == <<"magic", "id", "header", "payload">>
SessionDecode == <<"id", "header", "payload">>

ForwardLen == MagicLen + 21
ForwardEncode == <<"magic", "addr">>
ForwardDecode == <<"addr">>
ForwardNeeds == MagicLen

\* Without an address the encoder only moves the cursor.
ReverseOwnLen == MagicLen + 21
ReverseEncode(addr) == IF addr # <<>> THEN <<"magic", "addr">> ELSE <<"skipped">>
ReverseDecode == <<"addr">>

DelayLen == MagicLen + Uint64Len
DelayEncode == <<"magic", "duration">>
DelayDecode == <<"duration">>

ExitLen == MagicLen + Uint16Len + 3 * HashLen + Uint32Len + IVLen * 3 + IDLen
ExitEncode == <<"magic", "id", "ciphers", "nonces", "port", "bytes">>
ExitDecode == <<"id", "ciphers", "nonces", "port", "bytes">>

GetBalanceLen == MagicLen + IDLen + 3 * HashLen + IVLen * 3
GetBalanceEncode == <<"magic", "id", "ciphers", "nonces">>
GetBalanceDecode == <<"id", "ciphers", "nonces">>

IntroQueryLen == MagicLen + IDLen + PubKeyLen + 3 * HashLen + IVLen * 3
IntroQueryEncode == <<"magic", "id", "ciphers", "nonces", "key">>
IntroQueryDecode == <<"id", "ciphers", "nonces", "key">>

RouteLen == MagicLen + CloakLen + PubKeyLen + IVLen + IDLen
              + 3 * HashLen + 3 * IVLen
RouteEncode == <<"magic", "cloak", "from", "iv", "id", "ciphers", "nonces">>
RouteDecode == <<"cloak", "from", "iv">>
RouteDecrypt == <<"id", "ciphers", "nonces", "routing">>

-----------------------------------------------------------------------------
(* Messages that end an onion. *)

ConfirmationLen == MagicLen + IDLen
ConfirmationEncode == <<"magic", "id">>
ConfirmationDecode == <<"id">>

BalanceLen == MagicLen + IDLen + Uint64Len
BalanceEncode == <<"magic", "id", "msat">>
BalanceDecode == <<"id", "msat">>

ResponseLen == MagicLen + Uint32Len + Uint16Len + IDLen + 1
ResponseEncode == <<"magic", "id", "port", "load", "bytes">>

\* Mutant: the load is read before the port.
ResponseDecode_Swapped == <<"id", "load", "port", "bytes">>

ResponseDecode == <<"id", "port", "load", "bytes">>

\* The first header carries the message to its reader and is gone by then.
ReadyLen == MagicLen + IDLen + PubKeyLen + 2 * RoutingHeaderLen
              + 3 * HashLen + 3 * IVLen
ReadyEncode == <<"routing", "magic", "id", "key", "routing", "ciphers", "nonces">>

ReadyDecode == <<"id", "key", "routing", "ciphers", "nonces">>

ReplyCiphersLen == 2 * RoutingHeaderLen + 6 * HashLen + 6 * IVLen
MessageLen == MagicLen + 2 * IDLen + 2 * RoutingHeaderLen + ReplyCiphersLen
MessageEncode ==
  <<"routing", "magic", "key", "id", "re", "routing", "ciphers", "nonces", "bytes">>
MessageDecode ==
  <<"key", "id", "re", "routing", "ciphers", "nonces", "bytes">>

-----------------------------------------------------------------------------
(* Advertisements: Splice writes what the signature covers. *)

AdLen == MagicLen + IDLen + PubKeyLen + Uint64Len + SigLen

AddressesLen(n) == AdLen + Uint16Len + n * MultiaddrLen
AddressesSplice(n) ==
  <<"magic", "id", "key", "count">> \o Times(n, <<"addr">>) \o <<"expiry">>
AddressesDecode(n) ==
  <<"id", "key", "count">> \o Times(n, <<"addr">>) \o <<"expiry", "sig">>

IntroLen == AdLen + PubKeyLen + Uint16Len + Uint32Len
IntroSplice == <<"magic", "id", "key", "introducer", "rate", "port", "expiry">>
IntroDecode == <<"id", "key", "introducer", "rate", "port", "expiry", "sig">>

ServicesLen(n) == AdLen + n * (AdLen + Uint16Len + Uint32Len) + Uint32Len
ServicesSplice(n) ==
  <<"magic", "id", "key", "count">> \o Times(n, <<"port", "rate">>) \o <<"expiry">>
ServicesDecode(n) ==
  <<"id", "key", "count">> \o Times(n, <<"port", "rate">>) \o <<"expiry", "sig">>

PeerLen == AdLen + Uint32Len
PeerSplice == <<"magic", "id", "key", "rate", "expiry">>
PeerDecode == <<"id", "key", "rate", "expiry", "sig">>

LoadLen == AdLen + 1
LoadSplice == <<"magic", "id", "key", "load", "expiry">>
LoadDecode == <<"id", "key", "load", "expiry", "sig">>

\* A hidden service is announced with its introduction inside.  Decoding the
\* introduction does not step over the magic its encoding begins with.
HiddenServiceLen == MagicLen + IntroLen + 3 * HashLen + IVLen * 3 + RoutingHeaderLen
HiddenServiceEncode ==
  <<"magic">> \o IntroSplice \o <<"sig", "ciphers", "nonces">>
HiddenServiceDecode == IntroDecode \o <<"ciphers", "nonces", "routing", "routing">>

-----------------------------------------------------------------------------
(* What two ends of a connection tell each other. *)

AcknowledgeLen == 4 + IDLen + HashLen + 5 * Uint64Len
AcknowledgeEncode ==
  <<"magic", "id", "hash", "first", "last", "size", "received", "ping">>
AcknowledgeDecode ==
  <<"id", "hash", "first", "last", "size", "received", "ping">>

NewKeyLen == 4 + PubKeyLen
NewKeyEncode == <<"magic", "key">>
NewKeyDecode == <<"key">>

OnionLen(n) == 4 + n + 4
OnionEncode == <<"magic", "bytes">>
OnionDecode == <<"bytes">>

\* A packet begins with a checksum of the rest of it instead of a magic.
PacketOverhead == 4 + PubKeyLen + CloakLen + IVLen
PacketLen(n) == Uint16Len + Uint32Len + n + 1 + PacketOverhead + IDLen
PacketEncode ==
  <<"check", "from", "cloak", "iv", "id", "seq", "total", "parity", "data">>
PacketKeys == <<"from", "cloak">>
PacketDecode == <<"iv", "id", "seq", "total", "parity", "data">>

-----------------------------------------------------------------------------
(* A message m is a record: its type m.k, m.n as above, and m.addr. *)

\* Types whose message holds the next layer of an onion.
Wrapping == {"crypt", "sess", "forw", "rvrs", "dely", "exit", "getb", "intq",
             "rout", "hids"}
Ads == {"adad", "inad", "svad", "pead", "load"}

Msg(k, n, addr) == [k |-> k, n |-> n, addr |-> addr]

\* What the signature of an advertisement covers: Sign and Validate both
\* splice the fields in front of the signature.
Signed(m) ==
  CASE m.k = "adad" -> AddressesSplice(m.n)
    [] m.k = "inad" -> IntroSplice
    [] m.k = "svad" -> ServicesSplice(m.n)
    [] m.k = "pead" -> PeerSplice
    [] m.k = "load" -> LoadSplice

EncodeOf(m) ==
  CASE m.k = "crypt" -> CryptEncode
    [] m.k = "sess" -> SessionEncode
    [] m.k = "forw" -> ForwardEncode
    [] m.k = "rvrs" -> ReverseEncode(m.addr)
    [] m.k = "dely" -> DelayEncode
    [] m.k = "exit" -> ExitEncode
    [] m.k = "getb" -> GetBalanceEncode
    [] m.k = "intq" -> IntroQueryEncode
    [] m.k = "rout" -> RouteEncode
    [] m.k = "conf" -> ConfirmationEncode
    [] m.k = "bala" -> BalanceEncode
    [] m.k = "resp" -> ResponseEncode
    [] m.k = "redy" -> ReadyEncode
    [] m.k = "whis" -> MessageEncode
    [] m.k = "hids" -> HiddenServiceEncode
    [] m.k = "ackn" -> AcknowledgeEncode
    [] m.k = "newK" -> NewKeyEncode
    [] m.k = "onio" -> OnionEncode
    [] m.k = "rpkt" -> PacketEncode
    [] m.k = "end" -> <<>>
    [] m.k \in Ads -> Signed(m) \o <<"sig">>

DecodeOf(m) ==
  CASE m.k = "crypt" -> CryptDecode
    [] m.k = "sess" -> SessionDecode
    [] m.k = "forw" -> ForwardDecode
    [] m.k = "rvrs" -> ReverseDecode
    [] m.k = "dely" -> DelayDecode
    [] m.k = "exit" -> ExitDecode
    [] m.k = "getb" -> GetBalanceDecode
    [] m.k = "intq" -> IntroQueryDecode
    [] m.k = "rout" -> RouteDecode \o RouteDecrypt
    [] m.k = "conf" -> ConfirmationDecode
    [] m.k = "bala" -> BalanceDecode
    [] m.k = "resp" -> ResponseDecode
    [] m.k = "redy" -> ReadyDecode
    [] m.k = "whis" -> MessageDecode
    [] m.k = "hids" -> HiddenServiceDecode
    [] m.k = "ackn" -> AcknowledgeDecode
    [] m.k = "newK" -> NewKeyDecode
    [] m.k = "onio" -> OnionDecode
    [] m.k = "rpkt" -> PacketKeys \o PacketDecode
    [] m.k = "adad" -> AddressesDecode(m.n)
    [] m.k = "inad" -> IntroDecode
    [] m.k = "svad" -> ServicesDecode(m.n)
    [] m.k = "pead" -> PeerDecode
    [] m.k = "load" -> LoadDecode
    [] m.k = "end" -> <<>>

\* Bytes that Len reserves for m itself.
LenOf(m) ==
  CASE m.k = "crypt" -> CryptLen
    [] m.k = "sess" -> SessionLen
    [] m.k = "forw" -> ForwardLen
    [] m.k = "rvrs" -> ReverseOwnLen
    [] m.k = "dely" -> DelayLen
    [] m.k = "exit" -> ExitLen + m.n
    [] m.k = "getb" -> GetBalanceLen
    [] m.k = "intq" -> IntroQueryLen
    [] m.k = "rout" -> RouteLen
    [] m.k = "conf" -> ConfirmationLen
    [] m.k = "bala" -> BalanceLen
    [] m.k = "resp" -> ResponseLen + m.n
    [] m.k = "redy" -> ReadyLen
    [] m.k = "whis" -> MessageLen + m.n
    [] m.k = "hids" -> HiddenServiceLen
    [] m.k = "ackn" -> AcknowledgeLen
    [] m.k = "newK" -> NewKeyLen
    [] m.k = "onio" -> OnionLen(m.n)
    [] m.k = "rpkt" -> PacketLen(m.n)
    [] m.k = "adad" -> AddressesLen(m.n)
    [] m.k = "inad" -> IntroLen
    [] m.k = "svad" -> ServicesLen(m.n)
    [] m.k = "pead" -> PeerLen
    [] m.k = "load" -> LoadLen
    [] m.k = "end" -> 0

\* Bytes that must remain after the magic for Decode to begin.
NeedsOf(m) ==
  CASE m.k \in {"sess", "dely", "getb", "intq", "rout", "conf", "bala", "redy",
                "hids", "inad"} -> LenOf(m) - MagicLen
    [] m.k \in {"exit", "resp", "whis"} -> LenOf(m) - m.n - MagicLen
    [] m.k = "crypt" -> CryptNeeds
    [] m.k = "forw" -> ForwardNeeds
    [] m.k = "rvrs" -> ReverseLen - MagicLen
    [] m.k \in {"ackn", "newK"} -> LenOf(m) - MagicLen
    [] m.k = "onio" -> OnionLen(0) - MagicLen
    [] OTHER -> 0
=============================================================================

----------------------------- MODULE Encodings ------------------------------
(***************************************************************************)
(* Everything that is written in one form and read back from it: each      *)
(* message type and onion of Wire, or one value of Forms.                  *)
(***************************************************************************)
EXTENDS Wire

CONSTANTS Payloads,    \* lengths of a payload, or of a list
          CheckBytes, IndexMod

VARIABLES kind, value, form, back
formVars == <<kind, value, form, back>>

\* Addresses of every kind, with and without a port; a name may be too long.
Addrs == {<<>>, <<"ip4", "tcp">>, <<"ip6", "tcp">>, <<"ip6">>, <<"dns", "tcp">>}
Kinds == {"crypt", "sess", "forw", "rvrs", "dely", "exit", "getb", "intq", "rout",
          "hids", "conf", "bala", "resp", "redy", "whis", "ackn", "newK", "onio",
          "rpkt"} \cup Ads
MCStacks ==
  {<<Msg(k, n, a), Msg("end", 0, <<>>)>> : k \in Kinds, n \in Payloads, a \in Addrs \ {<<>>}}
    \cup UNION {{MakeExit(n, a), Message(n, a)} : n \in Payloads, a \in Addrs}
    \cup UNION {{MakeGetBalance(a), MakeHiddenService(a), MakeIntroQuery(a),
                 MakeRoute(a), MakeSession(a), Ping(a)} : a \in Addrs}
MCCuts == 0..150

\* Byte strings that fill a length in different ways.
Fill(len, a, b) == [i \in 1..len |-> (a * i + b) % 256]
Byte1(b, s) == <<b>> \o Tail(s)
FormValues ==
  [text |-> {Fill(l, a, b) : l \in 0..16, a \in {0, 57}, b \in {0, 255}},
   prv |-> {Fill(32, a, b) : a \in {0, 57}, b \in {0, 7, 255}},
   pub |-> {Byte1(t, Fill(33, a, b)) : t \in {2, 3}, a \in {0, 57}, b \in {0, 255}},
   sig |-> {Byte1(t, Fill(64, a, b)) : t \in 31..34, a \in {0, 57}, b \in {0, 255}},
   list |-> {[i \in 1..k |-> Fill((p * i) % 4, 1, 10 * i)] : k \in 0..9, p \in 1..3},
   offset |-> {0, 1, 255, 256, 65535, 65536, 65537, 2^24 - 1, 2^24},
   int32 |-> {0, 1, 255, 256, -1, -256, 2147483647, -2147483647 - 1},
   time |-> {0, 1700000000, -1}, tag |-> {<<105, 110, 100, 114>>}]

F == INSTANCE Forms WITH Values <- FormValues

NoMessage ==
  /\ stack = <<Msg("end", 0, <<>>)>> /\ size = 0 /\ phase = "done"
  /\ layer = 1 /\ field = 1 /\ cursor = 0 /\ base = 0 /\ wrote = {} /\ got = {}
NoForm == kind = "offset" /\ value = 0 /\ form = F!Offset(0) /\ back = <<0>>

EncodingsInit == \/ Init /\ NoForm
                 \/ F!Init /\ NoMessage
EncodingsNext == \/ Next /\ UNCHANGED formVars
                 \/ F!Next /\ UNCHANGED vars
EncodingsSpec == EncodingsInit /\ [][EncodingsNext]_<<vars, formVars>>

\* Every value of Forms is read back as it was written, and the symbols left out
\* of the text of a key are the same for all keys.
ReadsBack == F!ReadsBack
=============================================================================

-------------------------- MODULE DispatcherProofs --------------------------
(***************************************************************************)
(* Type correctness of the two dispatchers, that packets are encrypted to  *)
(* keys the receiver holds, and that an end never goes back to an older    *)
(* key of its peer: for every message and packet size, any number of       *)
(* messages, rekeyings and damaged packets.                                *)
(***************************************************************************)
EXTENDS Dispatcher, SegmentsProofs

IsKey(m) == m.kind = "newkey"

\* One direction of the connection: the packets q on their way, the messages
\* s sent, the keys sm the sender and rm the receiver have generated, the key
\* rk of the sender that the receiver uses and the key srk of the receiver
\* that the sender uses.  Packets arrive in the order of their messages and
\* keys are announced in order, so no packet on its way announces a key older
\* than the one in use.
Link(q, s, sm, rm, rk, srk) ==
  /\ q \in Seq(Packets) /\ s \in Seq(Messages)
  /\ sm \in Nat \ {0} /\ rm \in Nat \ {0}
  /\ rk \in 1..sm /\ srk \in 1..rm
  /\ \A i \in 1..Len(s) : IsKey(s[i]) => s[i].key \in 1..sm
  /\ \A i, j \in 1..Len(s) :
       (i <= j /\ IsKey(s[i]) /\ IsKey(s[j])) => s[i].key <= s[j].key
  /\ \A i \in 1..Len(q) :
       /\ q[i].msg \in 1..Len(s) /\ q[i].to \in 1..rm
       /\ IsKey(s[q[i].msg]) => rk <= s[q[i].msg].key
  /\ \A i, j \in 1..Len(q) : i <= j => q[i].msg <= q[j].msg

\* The receiver takes a packet and does nothing with it.
LEMMA LinkPop ==
  ASSUME NEW q, NEW s, NEW sm, NEW rm, NEW rk, NEW srk,
         Link(q, s, sm, rm, rk, srk), q # << >>
  PROVE  Link(Tail(q), s, sm, rm, rk, srk)
<1> DEFINE t == Tail(q)
<1>1. q \in Seq(Packets) /\ Len(q) \in Nat \ {0}
  BY DEF Link
<1>2. t \in Seq(Packets) /\ Len(t) = Len(q) - 1 /\ \A i \in 1..Len(t) : t[i] = q[i+1]
  BY <1>1
<1> HIDE DEF t
<1>3. \A i \in 1..Len(t) : i + 1 \in 1..Len(q)
  BY <1>1, <1>2
<1> QED
  BY <1>2, <1>3 DEF Link, t

\* The receiver takes a packet and adopts the key its message announces.
LEMMA LinkKey ==
  ASSUME NEW q, NEW s, NEW sm, NEW rm, NEW rk, NEW srk,
         Link(q, s, sm, rm, rk, srk), q # << >>, IsKey(s[Head(q).msg])
  PROVE  /\ rk <= s[Head(q).msg].key
         /\ Link(Tail(q), s, sm, rm, s[Head(q).msg].key, srk)
<1> DEFINE t == Tail(q)
           k == s[Head(q).msg].key
<1>1. q \in Seq(Packets) /\ Len(q) \in Nat \ {0} /\ Head(q) = q[1]
  BY DEF Link
<1>2. t \in Seq(Packets) /\ Len(t) = Len(q) - 1 /\ \A i \in 1..Len(t) : t[i] = q[i+1]
  BY <1>1
<1>3. q[1].msg \in 1..Len(s) /\ rk <= k /\ k \in 1..sm
  BY <1>1 DEF Link
<1> HIDE DEF t
<1>4. ASSUME NEW i \in 1..Len(t)
      PROVE  /\ t[i].msg \in 1..Len(s) /\ t[i].to \in 1..rm
             /\ IsKey(s[t[i].msg]) => k <= s[t[i].msg].key
  <2>1. i + 1 \in 1..Len(q) /\ 1 \in 1..Len(q) /\ t[i] = q[i+1] /\ 1 <= i + 1
    BY <1>1, <1>2
  <2>2. q[1].msg <= q[i+1].msg /\ q[i+1].msg \in 1..Len(s) /\ q[i+1].to \in 1..rm
    BY <2>1 DEF Link
  <2> QED
    BY <1>1, <1>3, <2>1, <2>2, ZenonT(40) DEF Link
<1>5. \A i \in 1..Len(t) : i + 1 \in 1..Len(q)
  BY <1>1, <1>2
<1>6. ASSUME NEW i \in 1..Len(t), NEW j \in 1..Len(t), i <= j
      PROVE  t[i].msg <= t[j].msg
  <2>1. i + 1 \in 1..Len(q) /\ j + 1 \in 1..Len(q) /\ i + 1 <= j + 1
    BY <1>5, <1>6
  <2>2. q[i+1].msg <= q[j+1].msg
    BY <2>1, SMTT(40) DEF Link
  <2> QED
    BY <1>2, <2>2
<1> HIDE DEF k
<1>7. Link(t, s, sm, rm, k, srk)
  BY <1>2, <1>3, <1>4, <1>6, ZenonT(40) DEF Link
<1> QED
  BY <1>3, <1>7 DEF t, k

\* The receiver generates keys and the sender adopts one of them.
LEMMA LinkMade ==
  ASSUME NEW q, NEW s, NEW sm, NEW rm, NEW rk, NEW srk,
         Link(q, s, sm, rm, rk, srk),
         NEW rm2 \in Nat, rm <= rm2, NEW srk2 \in 1..rm2
  PROVE  Link(q, s, sm, rm2, rk, srk2)
  BY DEF Link

\* The sender sends message x, encrypted to key k.
LEMMA LinkPost ==
  ASSUME NEW q, NEW s, NEW sm, NEW rm, NEW rk, NEW srk,
         Link(q, s, sm, rm, rk, srk),
         NEW x \in Messages, NEW k \in 1..rm, NEW sm2 \in {sm, sm + 1},
         IsKey(x) => x.key = sm + 1 /\ sm2 = sm + 1,
         NEW t \in Seq(Packets),
         \A i \in 1..Len(t) : t[i].msg = Len(s) + 1 /\ t[i].to = k
  PROVE  Link(q \o t, Append(s, x), sm2, rm, rk, srk)
<1> DEFINE u == q \o t
           v == Append(s, x)
<1>1. /\ q \in Seq(Packets) /\ s \in Seq(Messages)
      /\ Len(q) \in Nat /\ Len(s) \in Nat /\ Len(t) \in Nat
      /\ sm \in Nat \ {0} /\ rk \in 1..sm
  BY DEF Link
<1>2. /\ u \in Seq(Packets) /\ Len(u) = Len(q) + Len(t)
      /\ \A i \in 1..Len(u) : u[i] = IF i <= Len(q) THEN q[i] ELSE t[i - Len(q)]
  BY <1>1, ConcatProperties
<1>3. /\ v \in Seq(Messages) /\ Len(v) = Len(s) + 1
      /\ \A i \in 1..Len(s) : v[i] = s[i]
      /\ v[Len(s) + 1] = x
  BY <1>1, AppendProperties
<1> HIDE DEF u, v
<1>4. \A i \in 1..Len(v) : IsKey(v[i]) => v[i].key \in 1..sm2
  <2> TAKE i \in 1..Len(v)
  <2>1. CASE i \in 1..Len(s)
    <3>1. v[i] = s[i] /\ (IsKey(s[i]) => s[i].key \in 1..sm)
      BY <1>3, <2>1 DEF Link
    <3>2. 1..sm \subseteq 1..sm2
      BY <1>1
    <3> QED
      BY <3>1, <3>2
  <2>2. CASE i = Len(s) + 1
    BY <1>1, <1>3, <2>2
  <2> QED
    BY <1>1, <1>3, <2>1, <2>2, SMTT(40)
<1>5. ASSUME NEW i \in 1..Len(v), NEW j \in 1..Len(v),
             i <= j, IsKey(v[i]), IsKey(v[j])
      PROVE  v[i].key <= v[j].key
  <2>1. CASE j \in 1..Len(s)
    <3>1. i \in 1..Len(s) /\ v[i] = s[i] /\ v[j] = s[j]
      BY <1>1, <1>3, <1>5, <2>1
    <3> QED
      BY <1>5, <2>1, <3>1 DEF Link
  <2>2. CASE j = Len(s) + 1
    <3>1. v[j].key = sm + 1
      BY <1>3, <1>5, <2>2
    <3>2. CASE i = j
      BY <1>1, <3>1, <3>2
    <3>3. CASE i # j
      <4>1. i \in 1..Len(s) /\ v[i] = s[i]
        BY <1>1, <1>3, <1>5, <2>2, <3>3, SMTT(40)
      <4>2. s[i].key \in 1..sm
        BY <1>5, <4>1 DEF Link
      <4> QED
        BY <1>1, <3>1, <4>1, <4>2, SMTT(40)
    <3> QED
      BY <3>2, <3>3
  <2> QED
    BY <1>1, <1>3, <2>1, <2>2, SMTT(40)
<1>6. ASSUME NEW i \in 1..Len(u)
      PROVE  /\ u[i].msg \in 1..Len(v) /\ u[i].to \in 1..rm
             /\ IsKey(v[u[i].msg]) => rk <= v[u[i].msg].key
  <2>1. CASE i <= Len(q)
    <3>1. i \in 1..Len(q) /\ u[i] = q[i]
      BY <1>1, <1>2, <2>1, SMTT(40)
    <3>2. q[i].msg \in 1..Len(s) /\ v[q[i].msg] = s[q[i].msg]
      BY <1>3, <3>1 DEF Link
    <3> QED
      BY <1>1, <1>3, <3>1, <3>2, SMTT(40) DEF Link
  <2>2. CASE ~(i <= Len(q))
    <3>1. i - Len(q) \in 1..Len(t) /\ u[i] = t[i - Len(q)]
      BY <1>1, <1>2, <2>2, SMTT(40)
    <3>2. u[i].msg = Len(s) + 1 /\ u[i].to = k /\ v[u[i].msg] = x
      BY <1>3, <3>1, SMTT(40)
    <3> QED
      BY <1>1, <1>3, <3>2
  <2> QED
    BY <2>1, <2>2
<1>7. ASSUME NEW i \in 1..Len(u), NEW j \in 1..Len(u), i <= j
      PROVE  u[i].msg <= u[j].msg
  <2>1. CASE j <= Len(q)
    <3>1. i \in 1..Len(q) /\ j \in 1..Len(q) /\ u[i] = q[i] /\ u[j] = q[j]
      BY <1>1, <1>2, <1>7, <2>1, SMTT(40)
    <3> QED
      BY <1>7, <3>1 DEF Link
  <2>2. CASE ~(j <= Len(q))
    <3>1. j - Len(q) \in 1..Len(t) /\ u[j] = t[j - Len(q)]
      BY <1>1, <1>2, <2>2, SMTT(40)
    <3>2. u[j].msg = Len(s) + 1
      BY <3>1
    <3> QED
      BY <1>1, <1>3, <1>6, <3>2, SMTT(40)
  <2> QED
    BY <2>1, <2>2, SMTT(40)
<1>8. Link(u, v, sm2, rm, rk, srk)
  <2>1. sm2 \in Nat \ {0} /\ rk \in 1..sm2
    BY <1>1
  <2> QED
    BY <1>2, <1>3, <1>4, <1>5, <1>6, <1>7, <2>1, ZenonT(40) DEF Link
<1> QED
  BY <1>8 DEF u, v

-----------------------------------------------------------------------------
(* Both directions.                                                        *)

\* There are two ends, each the peer of the other.
LEMMA EndsFacts ==
  ASSUME NEW e \in Ends
  PROVE  /\ Peer(e) \in Ends /\ Peer(e) # e /\ Peer(Peer(e)) = e
         /\ \A f \in Ends : f = e \/ f = Peer(e)
  BY DispatcherAssumption DEF Ends, Peer

Net(w, s, m, r) ==
  /\ w \in [Ends -> Seq(Packets)] /\ s \in [Ends -> Seq(Messages)]
  /\ m \in [Ends -> Nat \ {0}] /\ r \in [Ends -> Nat \ {0}]
  /\ \A e \in Ends : Link(w[e], s[Peer(e)], m[Peer(e)], m[e], r[e], r[Peer(e)])

\* End e takes a packet off the wire.
LEMMA NetPop ==
  ASSUME NEW w, NEW s, NEW m, NEW r, Net(w, s, m, r), NEW e \in Ends, w[e] # << >>
  PROVE  Net([w EXCEPT ![e] = Tail(@)], s, m, r)
<1> DEFINE w2 == [w EXCEPT ![e] = Tail(@)]
<1>1. w2[e] = Tail(w[e]) /\ w2[Peer(e)] = w[Peer(e)] /\ w2 = [f \in Ends |-> w2[f]]
  BY EndsFacts, ZenonT(40) DEF Net
<1> HIDE DEF w2
<1>2. Link(w2[e], s[Peer(e)], m[Peer(e)], m[e], r[e], r[Peer(e)])
  BY <1>1, LinkPop DEF Net
<1>3. Link(w2[Peer(e)], s[e], m[e], m[Peer(e)], r[Peer(e)], r[e])
  BY <1>1, EndsFacts DEF Net
<1>4. \A f \in Ends : Link(w2[f], s[Peer(f)], m[Peer(f)], m[f], r[f], r[Peer(f)])
  BY <1>2, <1>3, EndsFacts, ZenonT(40)
<1>5. \A f \in Ends : w2[f] \in Seq(Packets)
  BY <1>4 DEF Link
<1>6. w2 \in [Ends -> Seq(Packets)]
  BY <1>1, <1>5, ZenonT(40)
<1> QED
  BY <1>4, <1>6 DEF Net, w2

\* End e takes a packet off the wire and adopts the key of its message.
LEMMA NetKey ==
  ASSUME NEW w, NEW s, NEW m, NEW r, Net(w, s, m, r), NEW e \in Ends, w[e] # << >>,
         IsKey(s[Peer(e)][Head(w[e]).msg])
  PROVE  LET k == s[Peer(e)][Head(w[e]).msg].key
         IN  /\ r[e] <= k
             /\ Net([w EXCEPT ![e] = Tail(@)], s, m, [r EXCEPT ![e] = k])
<1> DEFINE w2 == [w EXCEPT ![e] = Tail(@)]
           k  == s[Peer(e)][Head(w[e]).msg].key
           r2 == [r EXCEPT ![e] = k]
<1>1. /\ w2[e] = Tail(w[e]) /\ w2[Peer(e)] = w[Peer(e)] /\ w2 = [f \in Ends |-> w2[f]]
      /\ r2[e] = k /\ r2[Peer(e)] = r[Peer(e)] /\ r2 = [f \in Ends |-> r2[f]]
  BY EndsFacts, ZenonT(40) DEF Net
<1>2. Link(w[e], s[Peer(e)], m[Peer(e)], m[e], r[e], r[Peer(e)])
  BY ZenonT(40) DEF Net
<1>3. r[e] <= k /\ Link(Tail(w[e]), s[Peer(e)], m[Peer(e)], m[e], k, r[Peer(e)])
  BY <1>2, LinkKey
<1>4. k \in 1..m[Peer(e)] /\ m[Peer(e)] \in Nat
  BY <1>3, ZenonT(40) DEF Link
<1> HIDE DEF w2, k, r2
<1>5. Link(w[Peer(e)], s[e], m[e], m[Peer(e)], r[Peer(e)], r[e])
  BY EndsFacts DEF Net
<1>6. m[Peer(e)] <= m[Peer(e)]
  BY <1>4
<1>7. Link(w[Peer(e)], s[e], m[e], m[Peer(e)], r[Peer(e)], k)
  BY <1>4, <1>5, <1>6, LinkMade, ZenonT(40)
<1>8. \A f \in Ends : Link(w2[f], s[Peer(f)], m[Peer(f)], m[f], r2[f], r2[Peer(f)])
  BY <1>1, <1>3, <1>7, EndsFacts, ZenonT(40)
<1>9. \A f \in Ends : w2[f] \in Seq(Packets) /\ r2[f] \in Nat \ {0}
  BY <1>8 DEF Link
<1>10. w2 \in [Ends -> Seq(Packets)] /\ r2 \in [Ends -> Nat \ {0}]
  BY <1>1, <1>9, Zenon
<1>11. Net(w2, s, m, r2)
  BY <1>8, <1>10 DEF Net
<1> QED
  BY <1>3, <1>11, ZenonT(40) DEF w2, r2, k

\* End e sends message x, encrypted to key k of its peer.
LEMMA NetPost ==
  ASSUME NEW w, NEW s, NEW m, NEW r, Net(w, s, m, r), NEW e \in Ends,
         NEW x \in Messages, NEW k \in 1..m[Peer(e)],
         NEW n \in {m[e], m[e] + 1},
         IsKey(x) => x.key = m[e] + 1 /\ n = m[e] + 1,
         NEW t \in Seq(Packets),
         \A i \in 1..Len(t) : t[i].msg = Len(s[e]) + 1 /\ t[i].to = k
  PROVE  Net([w EXCEPT ![Peer(e)] = @ \o t], [s EXCEPT ![e] = Append(@, x)],
             [m EXCEPT ![e] = n], r)
<1> DEFINE w2 == [w EXCEPT ![Peer(e)] = @ \o t]
           s2 == [s EXCEPT ![e] = Append(@, x)]
           m2 == [m EXCEPT ![e] = n]
<1>1. /\ w2[Peer(e)] = w[Peer(e)] \o t /\ w2[e] = w[e] /\ w2 = [f \in Ends |-> w2[f]]
      /\ s2[e] = Append(s[e], x) /\ s2[Peer(e)] = s[Peer(e)] /\ s2 = [f \in Ends |-> s2[f]]
      /\ m2[e] = n /\ m2[Peer(e)] = m[Peer(e)] /\ m2 = [f \in Ends |-> m2[f]]
  BY EndsFacts, ZenonT(40) DEF Net
<1> HIDE DEF w2, s2, m2
<1>2. /\ Link(w[Peer(e)], s[e], m[e], m[Peer(e)], r[Peer(e)], r[e])
      /\ Link(w[e], s[Peer(e)], m[Peer(e)], m[e], r[e], r[Peer(e)])
  BY EndsFacts DEF Net
<1>3. Link(w2[Peer(e)], s2[e], n, m[Peer(e)], r[Peer(e)], r[e])
  <2>1. Link(w[Peer(e)] \o t, Append(s[e], x), n, m[Peer(e)], r[Peer(e)], r[e])
    BY <1>2, LinkPost, ZenonT(40)
  <2> QED
    BY <1>1, <2>1
<1>4. m[e] \in Nat /\ n \in Nat /\ m[e] <= n /\ r[Peer(e)] \in 1..n
  BY <1>2, SMTT(40) DEF Link
<1>5. Link(w[e], s[Peer(e)], m[Peer(e)], n, r[e], r[Peer(e)])
  BY <1>2, <1>4, LinkMade, SMTT(40)
<1>6. \A f \in Ends : Link(w2[f], s2[Peer(f)], m2[Peer(f)], m2[f], r[f], r[Peer(f)])
  BY <1>1, <1>3, <1>5, EndsFacts, ZenonT(40)
<1>7. \A f \in Ends : w2[f] \in Seq(Packets) /\ s2[Peer(f)] \in Seq(Messages)
                      /\ m2[f] \in Nat \ {0}
  BY <1>6 DEF Link
<1>8. \A f \in Ends : s2[f] \in Seq(Messages)
  BY <1>7, EndsFacts
<1>9. /\ w2 \in [Ends -> Seq(Packets)] /\ s2 \in [Ends -> Seq(Messages)]
      /\ m2 \in [Ends -> Nat \ {0}]
  BY <1>1, <1>7, <1>8, Zenon
<1>10. Net(w2, s2, m2, r)
  BY <1>6, <1>9, ZenonT(40) DEF Net
<1> QED
  BY <1>10 DEF w2, s2, m2

\* The sizes the layout of a message is computed from.
LEMMA MessageSizes ==
  ASSUME NEW m \in Messages
  PROVE  m.length \in Nat /\ SegSize \in Nat \ {0} /\ Parity \in 0..SectSize - 1
<1>1. m.length \in {KeyLen} \cup Lengths
  BY DEF Messages
<1>2. Lengths \subseteq Nat /\ KeyLen \in Nat
  BY DispatcherAssumption
<1>3. SegSize \in Nat \ {0} /\ Parity \in 0..SectSize - 1
  <2>1. MTU \in Nat /\ SegSize \in 1..MTU /\ Parity \in 0..SectSize - 1
    BY DispatcherAssumption
  <2> QED
    BY <2>1
<1>4. m.length \in Nat
  BY <1>1, <1>2, Zenon
<1> QED
  BY <1>3, <1>4

\* What a shuffle of the packets of a message is.
LEMMA ShufflesType ==
  ASSUME NEW id \in Nat \ {0}, NEW m \in Messages, NEW k \in Nat \ {0},
         NEW t \in Shuffles(id, m, k)
  PROVE  /\ t \in Seq(Packets)
         /\ \A i \in 1..Len(t) : t[i].msg = id /\ t[i].to = k
<1> DEFINE S == SplitToPackets(m.length, SegSize, Parity)
<1>1. m.length \in Nat /\ SegSize \in Nat \ {0} /\ Parity \in 0..SectSize - 1
  BY MessageSizes
<1>2. S \subseteq Nat /\ IsFiniteSet(S)
  BY <1>1, SplitType
<1>3. PICK u \in SetToSeqs(S) : t = [i \in DOMAIN u |-> [msg |-> id, seq |-> u[i], to |-> k]]
  BY DEF Shuffles
<1> HIDE DEF S
<1>4. u \in Seq(S)
  BY <1>2, <1>3, SetToSeqsType
<1>5. DOMAIN u = 1..Len(u) /\ Len(u) \in Nat /\ \A i \in 1..Len(u) : u[i] \in Nat
  <2>1. DOMAIN u = 1..Len(u) /\ Len(u) \in Nat /\ \A i \in 1..Len(u) : u[i] \in S
    BY <1>4
  <2> QED
    BY <1>2, <2>1, ZenonT(40)
<1>6. t \in [1..Len(u) -> Packets]
  BY <1>3, <1>5 DEF Packets
<1> QED
  BY <1>3, <1>5, <1>6, SMTT(40)

-----------------------------------------------------------------------------
(* The invariant.                                                          *)

\* Every message with a receive record has its packets filed, finitely many.
Filed ==
  \A e \in Ends :
    /\ inbound[e] \subseteq DOMAIN partials[e]
    /\ \A id \in DOMAIN partials[e] : IsFiniteSet(partials[e][id].have)

\* The private keys are the generations in order, all but the newest while
\* NewDispatcher is about to store it.
Stored(e) == IF boot[e] = "store" THEN made[e] - 1 ELSE made[e]

PrvInOrder ==
  \A e \in Ends :
    made[e] <= MaxPrv =>
      Len(Prv[e]) = Stored(e) /\ \A i \in 1..Stored(e) : Prv[e][i] = i

IInv == TypeOK /\ Net(wire, sent, made, remoteKey) /\ Filed /\ PrvInOrder

\* Types that do not concern the connection.
LocalTypes ==
  /\ boot \in [Ends -> {"rekey", "store", "up"}]
  /\ dead \in [Ends -> BOOLEAN]
  /\ Prv \in [Ends -> Seq(Nat \ {0})]
  /\ inbound \in [Ends -> SUBSET (Nat \ {0})]
  /\ DOMAIN partials = Ends
  /\ \A e \in Ends :
       /\ DOMAIN partials[e] \subseteq Nat \ {0}
       /\ \A id \in DOMAIN partials[e] :
            /\ partials[e][id].size \in Nat
            /\ partials[e][id].have \subseteq Nat
  /\ received \in [Ends -> Seq([msg : Nat \ {0}, whole : BOOLEAN])]
  /\ volume \in [Ends -> Nat]
  /\ damaged \in Nat
  /\ now \in Nat

\* The types that are not part of what Net says of the wire and the keys.
LEMMA TypeSplit == Net(wire, sent, made, remoteKey) => (TypeOK <=> LocalTypes)
  BY ZenonT(40) DEF TypeOK, LocalTypes, Net

\* The inductive invariant holds when both dispatchers start.
LEMMA InitIInv == Init => IInv
<1> SUFFICES ASSUME Init PROVE IInv
  OBVIOUS
<1>1. Net(wire, sent, made, remoteKey)
  <2>1. Link(<< >>, << >>, 1, 1, 1, 1)
    BY DEF Link
  <2>2. \A e \in Ends : Link(wire[e], sent[Peer(e)], made[Peer(e)], made[e], remoteKey[e], remoteKey[Peer(e)])
    BY <2>1, EndsFacts, ZenonT(40) DEF Init
  <2> QED
    BY <2>2 DEF Net, Init
<1>2. LocalTypes
  BY DEF Init, LocalTypes
<1>3. Filed
  BY DEF Init, Filed
<1>4. PrvInOrder
  BY DEF Init, PrvInOrder, Stored
<1> QED
  BY <1>1, <1>2, <1>3, <1>4, TypeSplit, ZenonT(40) DEF IInv

\* Announcing a key over a connection in state w, r2.
LEMMA AnnounceNet ==
  ASSUME NEW w, NEW r2, Net(w, sent, made, r2), NEW e \in Ends,
         remoteKey[e] \in 1..made[Peer(e)], Announce(e, w)
  PROVE  /\ made' = [made EXCEPT ![e] = made[e] + 1]
         /\ Net(wire', sent', made', r2)
<1> DEFINE x  == NewKey(made[e] + 1)
           id == Len(sent[e]) + 1
<1>1. PICK t \in Shuffles(id, x, remoteKey[e]) :
        /\ made' = [made EXCEPT ![e] = made[e] + 1]
        /\ sent' = [sent EXCEPT ![e] = Append(@, x)]
        /\ wire' = [w EXCEPT ![Peer(e)] = @ \o t]
  BY ZenonT(40) DEF Announce
<1>2. made[e] \in Nat \ {0} /\ made[Peer(e)] \in Nat /\ sent[e] \in Seq(Messages)
  BY EndsFacts DEF Net
<1>3. x \in Messages /\ IsKey(x) /\ x.key = made[e] + 1
  BY <1>2 DEF NewKey, Messages, IsKey
<1>4. id \in Nat \ {0} /\ remoteKey[e] \in Nat \ {0}
  BY <1>2
<1> HIDE DEF x, id
<1>5. t \in Seq(Packets) /\ \A i \in 1..Len(t) : t[i].msg = id /\ t[i].to = remoteKey[e]
  BY <1>3, <1>4, ShufflesType
<1>6. Net([w EXCEPT ![Peer(e)] = @ \o t], [sent EXCEPT ![e] = Append(@, x)],
          [made EXCEPT ![e] = made[e] + 1], r2)
  BY <1>3, <1>5, NetPost, Zenon DEF id
<1> QED
  BY <1>1, <1>6, ZenonT(40)

\* Trimming the list of private keys leaves a list of keys.
LEMMA KeepKeysType ==
  ASSUME NEW s \in Seq(Nat \ {0})
  PROVE  KeepKeys(s) \in Seq(Nat \ {0})
<1>1. MaxPrv \in Nat \ {0}
  BY DispatcherAssumption
<1> QED
  BY <1>1 DEF KeepKeys

\* Storing the next generation at the end of a list that is in order.
LEMMA StoreKeyOrder ==
  ASSUME NEW s \in Seq(Nat \ {0}), NEW k \in Nat \ {0}, k <= MaxPrv,
         Len(s) = k - 1, \A i \in 1..k - 1 : s[i] = i
  PROVE  /\ Len(KeepKeys(Append(s, k))) = k
         /\ \A i \in 1..k : KeepKeys(Append(s, k))[i] = i
<1> DEFINE u == Append(s, k)
<1>1. Len(u) = k /\ \A i \in 1..k : u[i] = i
  BY AppendProperties
<1> HIDE DEF u
<1>2. MaxPrv \in Nat
  BY DispatcherAssumption
<1>3. KeepKeys(u) = u
  BY <1>1, <1>2, SMTT(40) DEF KeepKeys
<1> QED
  BY <1>1, <1>3 DEF u

\* The first key of a dispatcher is announced before it is stored.
LEMMA BootAnnounceStep ==
  ASSUME IInv, NEW e \in Ends, BootAnnounce(e)
  PROVE  IInv'
<1> USE DEF BootAnnounce
<1>1. remoteKey[e] \in 1..made[Peer(e)]
  BY DEF IInv, Net, Link
<1>2. made' = [made EXCEPT ![e] = made[e] + 1] /\ Net(wire', sent', made', remoteKey)
  BY <1>1, AnnounceNet, SMTT(40) DEF IInv
<1>3. Net(wire, sent, made, remoteKey)'
  BY <1>2, ZenonT(40)
<1>4. LocalTypes'
  BY TypeSplit, SMTT(40) DEF IInv, LocalTypes, rxVars
<1>5. Filed'
  BY DEF IInv, Filed, rxVars
<1>6. PrvInOrder'
  <2> SUFFICES ASSUME NEW f \in Ends, made'[f] <= MaxPrv
               PROVE  Len(Prv[f]) = Stored(f)' /\ \A i \in 1..Stored(f)' : Prv[f][i] = i
    BY SMTT(40) DEF PrvInOrder
  <2>1. made[f] \in Nat /\ MaxPrv \in Nat
    BY DispatcherAssumption, ZenonT(40) DEF IInv, TypeOK
  <2>2. made[f] <= MaxPrv /\ Stored(f)' = Stored(f)
    BY <1>2, <2>1, SMTT(40) DEF Stored, IInv, TypeOK
  <2> QED
    BY <2>2, SMTT(40) DEF IInv, PrvInOrder
<1> QED
  BY <1>3, <1>4, <1>5, <1>6, TypeSplit, PTL DEF IInv

\* The first key is stored.
LEMMA BootStoreStep ==
  ASSUME IInv, NEW e \in Ends, BootStore(e)
  PROVE  IInv'
<1> USE DEF BootStore
<1>1. Net(wire, sent, made, remoteKey)'
  BY DEF IInv
<1>2. made[e] \in Nat \ {0} /\ Prv[e] \in Seq(Nat \ {0})
  BY DEF IInv, TypeOK
<1>3. Prv' = [Prv EXCEPT ![e] = KeepKeys(Append(Prv[e], made[e]))]
  BY DEF StoreKey
<1>4. KeepKeys(Append(Prv[e], made[e])) \in Seq(Nat \ {0})
  BY <1>2, KeepKeysType, AppendProperties, ZenonT(40)
<1>5. LocalTypes'
  BY <1>3, <1>4, TypeSplit, ZenonT(40) DEF IInv, LocalTypes, rxVars
<1>6. Filed'
  BY DEF IInv, Filed, rxVars
<1>7. PrvInOrder'
  <2> SUFFICES ASSUME NEW f \in Ends, made[f] <= MaxPrv
               PROVE  Len(Prv'[f]) = Stored(f)' /\ \A i \in 1..Stored(f)' : Prv'[f][i] = i
    BY DEF PrvInOrder
  <2>1. CASE f = e
    <3>1. Stored(e)' = made[e] /\ Stored(e) = made[e] - 1
      BY SMTT(40) DEF Stored, IInv, TypeOK
    <3>2. Len(Prv[e]) = made[e] - 1 /\ \A i \in 1..made[e] - 1 : Prv[e][i] = i
      BY <2>1, <3>1, ZenonT(40) DEF IInv, PrvInOrder
    <3>3. Prv'[e] = KeepKeys(Append(Prv[e], made[e]))
      BY <1>3, ZenonT(40) DEF IInv, TypeOK
    <3> QED
      BY <1>2, <2>1, <3>1, <3>2, <3>3, StoreKeyOrder, SMTT(40)
  <2>2. CASE f # e
    <3>1. Stored(f)' = Stored(f) /\ Prv'[f] = Prv[f]
      BY <1>3, <2>2, SMTT(40) DEF Stored, IInv, TypeOK
    <3> QED
      BY <3>1, ZenonT(40) DEF IInv, PrvInOrder
  <2> QED
    BY <2>1, <2>2, SMTT(40)
<1> QED
  BY <1>1, <1>5, <1>6, <1>7, TypeSplit, PTL DEF IInv

\* A message is encrypted to the remote key and goes to the end of the wire.
LEMMA SendToConnStep ==
  ASSUME IInv, NEW e \in Ends, NEW n \in Lengths, SendToConn(e, n)
  PROVE  IInv'
<1> USE DEF SendToConn, keyVars, rxVars
<1>1. Net(wire, sent, made, remoteKey)'
  <2> DEFINE x  == Onion(n)
             id == Len(sent[e]) + 1
  <2>1. PICK t \in Shuffles(id, x, remoteKey[e]) : wire' = [wire EXCEPT ![Peer(e)] = @ \o t]
    BY ZenonT(40)
  <2>2. /\ made[e] \in Nat \ {0} /\ sent[e] \in Seq(Messages)
        /\ remoteKey[e] \in 1..made[Peer(e)] /\ made[Peer(e)] \in Nat
    BY ZenonT(40) DEF IInv, TypeOK, Net, Link
  <2>3. x \in Messages /\ ~IsKey(x)
    BY ZenonT(40) DEF Onion, Messages, IsKey
  <2>4. id \in Nat \ {0} /\ remoteKey[e] \in Nat \ {0}
    BY <2>2
  <2> HIDE DEF x, id, SendToConn, keyVars, rxVars
  <2>5. t \in Seq(Packets) /\ \A i \in 1..Len(t) : t[i].msg = id /\ t[i].to = remoteKey[e]
    <3> DEFINE k == remoteKey[e]
    <3>1. id \in Nat \ {0} /\ x \in Messages /\ k \in Nat \ {0} /\ t \in Shuffles(id, x, k)
      BY <2>3, <2>4
    <3> HIDE DEF k
    <3>2. t \in Seq(Packets) /\ \A i \in 1..Len(t) : t[i].msg = id /\ t[i].to = k
      BY ONLY <3>1, ShufflesType
    <3> QED
      BY <3>2 DEF k
  <2>6. Net([wire EXCEPT ![Peer(e)] = @ \o t], [sent EXCEPT ![e] = Append(@, x)],
            [made EXCEPT ![e] = made[e]], remoteKey)
    BY <2>2, <2>3, <2>5, NetPost, Zenon DEF id, IInv
  <2>7. [made EXCEPT ![e] = made[e]] = made
    BY ZenonT(40) DEF IInv, TypeOK
  <2> QED
    BY <2>1, <2>6, <2>7, ZenonT(40) DEF x, SendToConn, keyVars
<1>2. LocalTypes'
  BY TypeSplit, ZenonT(40) DEF IInv, LocalTypes
<1>3. Filed'
  BY ZenonT(40) DEF IInv, Filed
<1>4. PrvInOrder'
  BY DEF IInv, PrvInOrder, Stored
<1> QED
  BY <1>1, <1>2, <1>3, <1>4, TypeSplit, PTL DEF IInv

\* A damaged packet is taken off the wire.
LEMMA RecvDamagedStep ==
  ASSUME IInv, NEW e \in Ends, RecvDamaged(e)
  PROVE  IInv'
<1> USE DEF RecvDamaged, keyVars, rxVars
<1>1. Net(wire, sent, made, remoteKey)'
  BY NetPop, ZenonT(40) DEF IInv
<1>2. LocalTypes'
  <2>1. LocalTypes
    BY TypeSplit, ZenonT(40) DEF IInv
  <2>2. damaged' = damaged + 1 /\ damaged \in Nat
    BY <2>1, ZenonT(40) DEF LocalTypes
  <2>3. damaged' \in Nat
    BY ONLY <2>2
  <2> QED
    BY <2>1, <2>3, ZenonT(40) DEF LocalTypes
<1>3. Filed'
  BY DEF IInv, Filed
<1>4. PrvInOrder'
  BY DEF IInv, PrvInOrder, Stored
<1> QED
  BY <1>1, <1>2, <1>3, <1>4, TypeSplit, PTL DEF IInv

\* A packet for which there is no key is taken off the wire.
LEMMA RecvUnknownKeyStep ==
  ASSUME IInv, NEW e \in Ends, RecvUnknownKey(e)
  PROVE  IInv'
<1> USE DEF RecvUnknownKey, keyVars, rxVars
<1>1. Net(wire, sent, made, remoteKey)'
  BY NetPop, ZenonT(40) DEF IInv
<1>2. LocalTypes'
  BY TypeSplit DEF IInv, LocalTypes
<1>3. Filed'
  BY DEF IInv, Filed
<1>4. PrvInOrder'
  BY DEF IInv, PrvInOrder, Stored
<1> QED
  BY <1>1, <1>2, <1>3, <1>4, TypeSplit, PTL DEF IInv

\* The clock is no part of the invariant but for its type.
LEMMA TickStep ==
  ASSUME IInv, Tick
  PROVE  IInv'
<1> USE DEF Tick, keyVars, rxVars
<1>1. Net(wire, sent, made, remoteKey)'
  BY DEF IInv
<1>2. LocalTypes'
  BY TypeSplit, SMTT(40) DEF IInv, LocalTypes
<1>3. Filed' /\ PrvInOrder'
  BY DEF IInv, Filed, PrvInOrder, Stored
<1> QED
  BY <1>1, <1>2, <1>3, TypeSplit, PTL DEF IInv

\* Garbage collection takes messages away from Partials and PendingInbound
\* alike.
LEMMA RunGCStep ==
  ASSUME IInv, NEW e \in Ends, RunGC(e)
  PROVE  IInv'
<1> USE DEF RunGC, keyVars
<1>1. Net(wire, sent, made, remoteKey)'
  BY DEF IInv
<1>2. LocalTypes
  BY TypeSplit DEF IInv
<1> DEFINE keep == DOMAIN partials[e] \ Stale(e)
<1>3. /\ partials' = [partials EXCEPT ![e] = [id \in keep |-> partials[e][id]]]
      /\ inbound' = [inbound EXCEPT ![e] = @ \ Stale(e)]
      /\ dead' = [dead EXCEPT ![e] = Stale(e) # {}]
      /\ UNCHANGED <<boot, Prv, made, received, volume, damaged, now>>
  BY DEF Restrict
<1>4. keep \subseteq DOMAIN partials[e] /\ inbound[e] \ Stale(e) \subseteq keep
  BY DEF IInv, Filed
<1> HIDE DEF RunGC, keep
<1>5. ASSUME NEW f \in Ends
      PROVE  /\ DOMAIN partials'[f] \subseteq DOMAIN partials[f]
             /\ \A id \in DOMAIN partials'[f] : partials'[f][id] = partials[f][id]
             /\ inbound'[f] \subseteq DOMAIN partials'[f]
             /\ inbound'[f] \subseteq inbound[f]
  <2>1. CASE f = e
    <3>1. partials'[f] = [id \in keep |-> partials[f][id]] /\ inbound'[f] = inbound[f] \ Stale(e)
      BY <1>2, <1>3, <2>1, ZenonT(40) DEF LocalTypes
    <3> QED
      BY <1>4, <2>1, <3>1, ZenonT(40)
  <2>2. CASE f # e
    <3>1. partials'[f] = partials[f] /\ inbound'[f] = inbound[f]
      BY <1>2, <1>3, <2>2, SMTT(40) DEF LocalTypes
    <3> QED
      BY <3>1 DEF IInv, Filed
  <2> QED
    BY <2>1, <2>2, ZenonT(40)
<1>6. LocalTypes'
  <2>1. dead' \in [Ends -> BOOLEAN] /\ DOMAIN partials' = Ends
    BY <1>2, <1>3 DEF LocalTypes
  <2>2. inbound' \in [Ends -> SUBSET (Nat \ {0})]
    BY <1>2, <1>3, ZenonT(40) DEF LocalTypes
  <2>3. ASSUME NEW f \in Ends
        PROVE  /\ DOMAIN partials'[f] \subseteq Nat \ {0}
               /\ \A id \in DOMAIN partials'[f] :
                    /\ partials'[f][id].size \in Nat
                    /\ partials'[f][id].have \subseteq Nat
    BY <1>2, <1>5, ZenonT(40) DEF LocalTypes
  <2> QED
    BY <1>2, <1>3, <2>1, <2>2, <2>3, ZenonT(40) DEF LocalTypes
<1>7. Filed'
  BY <1>5 DEF IInv, Filed
<1>8. PrvInOrder'
  BY <1>3, SMTT(40) DEF IInv, PrvInOrder, Stored
<1> QED
  BY <1>1, <1>6, <1>7, <1>8, TypeSplit, PTL DEF IInv

\* What is gathered is typed, and finite.
LEMMA GatheredType ==
  ASSUME LocalTypes, Filed, NEW e \in Ends, NEW p \in Packets
  PROVE  /\ Gathered(e, p).size \in Nat
         /\ Gathered(e, p).have \subseteq Nat
         /\ IsFiniteSet(Gathered(e, p).have)
<1> DEFINE old == IF p.msg \in inbound[e] THEN partials[e][p.msg] ELSE NoPartial
<1>1. p.seq \in Nat
  BY SMTT(40) DEF Packets
<1>2. old.size \in Nat /\ old.have \subseteq Nat /\ IsFiniteSet(old.have)
  <2>1. CASE p.msg \in inbound[e]
    BY <2>1, SMTT(40) DEF LocalTypes, Filed
  <2>2. CASE p.msg \notin inbound[e]
    BY <2>2, FS_EmptySet, SMTT(40) DEF NoPartial
  <2> QED
    BY <2>1, <2>2, ZenonT(40)
<1>3. Gathered(e, p) = [size |-> old.size + 1, have |-> old.have \cup {p.seq}, newest |-> now]
  BY DEF Gathered
<1> HIDE DEF old
<1>4. IsFiniteSet(old.have \cup {p.seq})
  BY <1>2, FS_AddElement, ZenonT(40)
<1> QED
  BY <1>1, <1>2, <1>3, <1>4, SMTT(40)

\* What a join leaves of it is, too.
LEMMA AfterJoinType ==
  ASSUME NEW part, part.have \subseteq Nat, IsFiniteSet(part.have),
         part = [size |-> part.size, have |-> part.have, newest |-> part.newest],
         NEW m \in Messages, NEW o
  PROVE  /\ AfterJoin(part, m, o).size \in Nat
         /\ AfterJoin(part, m, o).have \subseteq Nat
         /\ IsFiniteSet(AfterJoin(part, m, o).have)
<1> DEFINE n == PacketCount(NewSegments(m.length, SegSize, Parity))
<1>1. n \in Nat
  BY MessageSizes, LayoutType
<1> HIDE DEF n
<1>2. AfterJoin(part, m, o) = IF o.kept THEN [part EXCEPT !.size = n] ELSE NoPartial
  BY DEF AfterJoin, n
<1>3. CASE o.kept
  <2>1. AfterJoin(part, m, o) = [size |-> n, have |-> part.have, newest |-> part.newest]
    BY <1>2, <1>3
  <2> QED
    BY <1>1, <2>1
<1>4. CASE ~o.kept
  BY <1>2, <1>4, FS_EmptySet, SMTT(40) DEF NoPartial
<1> QED
  BY <1>3, <1>4

\* A packet is taken off the wire, a key announced if it is due, the packet
\* filed and its message joined and handled.
LEMMA RecvFromConnStep ==
  ASSUME IInv, NEW e \in Ends, RecvFromConn(e)
  PROVE  IInv' /\ \A f \in Ends : remoteKey'[f] >= remoteKey[f]
<1> DEFINE p    == Head(wire[e])
           m    == sent[Peer(e)][p.msg]
           part == Gathered(e, p)
           join == part.size > JoinThreshold(m)
           o    == JoinPackets(Sorted(part.have), m.length, SegSize, Parity)
           due  == volume[e] + 1 > RekeyVolume
           w    == [wire EXCEPT ![e] = Tail(@)]
           n    == IF join /\ o.status = "ok" /\ o.kept THEN Cardinality(part.have) ELSE 0
           next == IF join THEN AfterJoin(part, m, o) ELSE part
<1>1. /\ wire[e] # << >> /\ boot[e] # "store"
      /\ IF due THEN Announce(e, w) /\ StoreKey(e, made[e] + 1)
                ELSE wire' = w /\ UNCHANGED <<sent, Prv, made>>
      /\ volume' = [volume EXCEPT ![e] = (IF due THEN 0 ELSE @ + 1) + n]
      /\ inbound' = [inbound EXCEPT ![e] = @ \cup {p.msg}]
      /\ partials' = [partials EXCEPT ![e] = File(@, p.msg, next)]
      /\ IF join THEN Handle(e, p.msg, m, o)
                 ELSE UNCHANGED <<dead, remoteKey, received>>
      /\ UNCHANGED <<boot, damaged, now>>
  BY ZenonT(40) DEF RecvFromConn, keyVars
<1>2. /\ Net(wire, sent, made, remoteKey) /\ LocalTypes /\ Filed
      /\ remoteKey[e] \in 1..made[Peer(e)]
      /\ remoteKey \in [Ends -> Nat \ {0}]
  BY TypeSplit, ZenonT(40) DEF IInv, Net, Link
<1>3. p \in Packets /\ p.msg \in Nat \ {0} /\ m \in Messages
  <2>1. Link(wire[e], sent[Peer(e)], made[Peer(e)], made[e], remoteKey[e], remoteKey[Peer(e)])
    BY <1>2 DEF Net
  <2>2. wire[e] \in Seq(Packets) /\ Len(wire[e]) \in Nat \ {0} /\ p = wire[e][1]
    <3>1. wire[e] \in Seq(Packets)
      BY <2>1 DEF Link
    <3>2. wire[e] # << >>
      BY <1>1, ZenonT(40)
    <3>3. Len(wire[e]) \in Nat \ {0} /\ Head(wire[e]) = wire[e][1]
      BY ONLY <3>1, <3>2
    <3> QED
      BY <3>1, <3>3, ZenonT(40)
  <2>3. p \in Packets /\ p.msg \in 1..Len(sent[Peer(e)]) /\ sent[Peer(e)] \in Seq(Messages)
    BY <2>1, <2>2, SMTT(40) DEF Link
  <2> QED
    BY <2>3, SMTT(40)
<1>4. /\ part.size \in Nat /\ part.have \subseteq Nat /\ IsFiniteSet(part.have)
      /\ part = [size |-> part.size, have |-> part.have, newest |-> part.newest]
  <2>1. part = [size |-> part.size, have |-> part.have, newest |-> part.newest]
    BY SMTT(40) DEF Gathered
  <2> QED
    BY <1>2, <1>3, <2>1, GatheredType, ZenonT(40)
<1>5. next.size \in Nat /\ next.have \subseteq Nat /\ IsFiniteSet(next.have)
  <2>1. CASE join
    <3> HIDE DEF part, o, m
    <3> QED
      BY <1>3, <1>4, <2>1, AfterJoinType, ZenonT(40)
  <2>2. CASE ~join
    BY <1>4, <2>2, SMTT(40)
  <2> QED
    BY <2>1, <2>2, ZenonT(40)
<1>6. n \in Nat
  <2> HIDE DEF part, o
  <2> QED
    BY <1>4, FS_CardinalityType, ZenonT(40)
<1> HIDE DEF p, part, join, o, due, n, next
<1>7. \/ remoteKey' = remoteKey
      \/ IsKey(m) /\ remoteKey' = [remoteKey EXCEPT ![e] = m.key]
  BY <1>1, ZenonT(40) DEF Handle, IsKey
<1>8. /\ Net(w, sent, made, remoteKey')
      /\ \A f \in Ends : remoteKey'[f] >= remoteKey[f]
  <2>1. CASE remoteKey' = remoteKey
    <3>1. Net(w, sent, made, remoteKey)
      BY <1>1, <1>2, NetPop, ZenonT(40)
    <3>2. \A f \in Ends : remoteKey[f] >= remoteKey[f]
      BY <1>2, SMTT(40)
    <3> QED
      BY <2>1, <3>1, <3>2, SMTT(40)
  <2>2. CASE IsKey(m) /\ remoteKey' = [remoteKey EXCEPT ![e] = m.key]
    <3>1. remoteKey[e] <= m.key /\ Net(w, sent, made, [remoteKey EXCEPT ![e] = m.key])
      BY <1>1, <1>2, <2>2, NetKey, ZenonT(40) DEF p
    <3>2. m.key \in Nat
      BY <1>3, ZenonT(40) DEF Messages
    <3>3. \A f \in Ends : remoteKey'[f] >= remoteKey[f]
      BY <1>2, <2>2, <3>1, <3>2, SMTT(40)
    <3> QED
      BY <2>2, <3>1, <3>3, ZenonT(40)
  <2> QED
    BY <1>7, <2>1, <2>2, ZenonT(40)
<1> HIDE DEF w, m
<1>9. Net(wire, sent, made, remoteKey)'
      /\ (due => made' = [made EXCEPT ![e] = made[e] + 1])
  <2>1. CASE due
    BY <1>1, <1>2, <1>8, <2>1, AnnounceNet, ZenonT(40)
  <2>2. CASE ~due
    BY <1>1, <1>8, <2>2, ZenonT(40)
  <2> QED
    BY <2>1, <2>2, SMTT(40)
<1>10. made[e] \in Nat \ {0} /\ Prv[e] \in Seq(Nat \ {0}) /\ made \in [Ends -> Nat \ {0}]
       /\ Prv \in [Ends -> Seq(Nat \ {0})] /\ MaxPrv \in Nat
  BY DispatcherAssumption, ZenonT(40) DEF IInv, TypeOK
<1>11. due => Prv' = [Prv EXCEPT ![e] = KeepKeys(Append(Prv[e], made[e] + 1))]
  BY <1>1, ZenonT(40) DEF StoreKey
<1>12. Prv' \in [Ends -> Seq(Nat \ {0})]
  <2>1. made[e] + 1 \in Nat \ {0}
    BY <1>10
  <2>2. KeepKeys(Append(Prv[e], made[e] + 1)) \in Seq(Nat \ {0})
    BY <1>10, <2>1, KeepKeysType, AppendProperties, ZenonT(40)
  <2> QED
    BY <1>1, <1>10, <1>11, <2>2, ZenonT(40)
<1>13. PrvInOrder'
  <2> SUFFICES ASSUME NEW f \in Ends, made'[f] <= MaxPrv
               PROVE  Len(Prv'[f]) = Stored(f)' /\ \A i \in 1..Stored(f)' : Prv'[f][i] = i
    BY DEF PrvInOrder
  <2>1. CASE due /\ f = e
    <3>1. made'[e] = made[e] + 1 /\ Stored(e)' = made[e] + 1 /\ Stored(e) = made[e]
      BY <1>1, <1>9, <1>10, <2>1, ZenonT(40) DEF Stored
    <3>2. made[e] <= MaxPrv /\ made[e] + 1 <= MaxPrv
      BY <1>10, <2>1, <3>1, SMTT(40)
    <3>3. Len(Prv[e]) = made[e] /\ \A i \in 1..made[e] : Prv[e][i] = i
      BY <3>1, <3>2 DEF IInv, PrvInOrder
    <3>4. Prv'[e] = KeepKeys(Append(Prv[e], made[e] + 1))
      BY <1>10, <1>11, <2>1, ZenonT(40)
    <3>5. made[e] + 1 \in Nat \ {0} /\ (made[e] + 1) - 1 = made[e]
      BY <1>10
    <3>6. /\ Len(KeepKeys(Append(Prv[e], made[e] + 1))) = made[e] + 1
          /\ \A i \in 1..made[e] + 1 : KeepKeys(Append(Prv[e], made[e] + 1))[i] = i
      BY <1>10, <3>2, <3>3, <3>5, StoreKeyOrder, ZenonT(40)
    <3> QED
      BY <2>1, <3>1, <3>4, <3>6, SMTT(40)
  <2>2. CASE ~(due /\ f = e)
    <3>1. made'[f] = made[f] /\ Prv'[f] = Prv[f] /\ boot' = boot
      BY <1>1, <1>9, <1>10, <1>11, <2>2, ZenonT(40)
    <3> QED
      BY <3>1 DEF IInv, PrvInOrder, Stored
  <2> QED
    BY <2>1, <2>2
<1>14. ASSUME NEW f \in Ends
       PROVE  /\ DOMAIN partials'[f] \subseteq Nat \ {0}
              /\ inbound'[f] \subseteq DOMAIN partials'[f]
              /\ \A id \in DOMAIN partials'[f] :
                   /\ partials'[f][id].size \in Nat
                   /\ partials'[f][id].have \subseteq Nat
                   /\ IsFiniteSet(partials'[f][id].have)
  <2>1. CASE f = e
    <3>1. /\ partials'[e] = File(partials[e], p.msg, next)
          /\ inbound'[e] = inbound[e] \cup {p.msg}
      BY <1>1, <1>2, ZenonT(40) DEF LocalTypes
    <3>2. /\ DOMAIN partials'[e] = {p.msg} \cup DOMAIN partials[e]
          /\ \A id \in DOMAIN partials'[e] :
               partials'[e][id] = IF id = p.msg THEN next ELSE partials[e][id]
      BY <3>1, ZenonT(40) DEF File
    <3>3. inbound'[e] \subseteq DOMAIN partials'[e]
      BY <1>2, <3>1, <3>2, ZenonT(40) DEF Filed
    <3> QED
      BY <1>2, <1>3, <1>5, <2>1, <3>2, <3>3, ZenonT(40) DEF LocalTypes, Filed
  <2>2. CASE f # e
    <3>1. partials'[f] = partials[f] /\ inbound'[f] = inbound[f]
      BY <1>1, <1>2, <2>2, ZenonT(40) DEF LocalTypes
    <3> QED
      BY <1>2, <3>1, SMTT(40) DEF LocalTypes, Filed
  <2> QED
    BY <2>1, <2>2, ZenonT(40)
<1>15. LocalTypes'
  <2>1. dead' \in [Ends -> BOOLEAN]
    BY <1>1, <1>2, ZenonT(40) DEF LocalTypes, Handle
  <2>2. received' \in [Ends -> Seq([msg : Nat \ {0}, whole : BOOLEAN])]
    <3> DEFINE T == [msg : Nat \ {0}, whole : BOOLEAN]
               x == [msg |-> p.msg, whole |-> o.status = "ok"]
    <3>1. x \in T
      BY <1>3, ZenonT(40)
    <3>2. received \in [Ends -> Seq(T)] /\ received[e] \in Seq(T)
      BY <1>2, ZenonT(40) DEF LocalTypes
    <3>3. received' = received \/ received' = [received EXCEPT ![e] = Append(received[e], x)]
      BY <1>1, ZenonT(40) DEF Handle
    <3> HIDE DEF T, x
    <3>4. Append(received[e], x) \in Seq(T)
      BY <3>1, <3>2, AppendProperties, SMTT(40)
    <3>5. received' \in [Ends -> Seq(T)]
      BY <3>2, <3>3, <3>4, ZenonT(40)
    <3> QED
      BY <3>5, SMTT(40) DEF T
  <2>3. volume' \in [Ends -> Nat]
    <3> DEFINE v == (IF due THEN 0 ELSE volume[e] + 1) + n
    <3>1. volume \in [Ends -> Nat] /\ volume' = [volume EXCEPT ![e] = v]
      BY <1>1, <1>2, ZenonT(40) DEF LocalTypes
    <3>2. v \in Nat
      <4> HIDE DEF n, due
      <4> QED
        BY ONLY <1>6, <3>1, e \in Ends DEF v
    <3> HIDE DEF v
    <3> QED
      BY ONLY <3>1, <3>2
  <2>4. inbound' \in [Ends -> SUBSET (Nat \ {0})] /\ DOMAIN partials' = Ends
    BY <1>1, <1>2, <1>3, ZenonT(40) DEF LocalTypes
  <2>5. boot' = boot /\ damaged' = damaged /\ now' = now
    BY <1>1, ZenonT(40)
  <2> QED
    BY <1>2, <1>12, <1>14, <2>1, <2>2, <2>3, <2>4, <2>5, ZenonT(40) DEF LocalTypes
<1>16. Filed'
  BY <1>14 DEF Filed
<1> QED
  BY <1>8, <1>9, <1>13, <1>15, <1>16, TypeSplit, PTL DEF IInv

\* IInv is inductive.
LEMMA StepIInv == IInv /\ [Next]_vars => IInv'
<1> SUFFICES ASSUME IInv, [Next]_vars PROVE IInv'
  BY SMTT(40)
<1>1. CASE UNCHANGED vars
  <2>1. Net(wire, sent, made, remoteKey)'
    BY <1>1 DEF IInv, vars
  <2> QED
    BY <1>1, <2>1, ZenonT(40) DEF IInv, vars, TypeOK, Filed, PrvInOrder, Stored
<1>2. ASSUME NEW e \in Ends, BootAnnounce(e) PROVE IInv'
  BY <1>2, BootAnnounceStep
<1>3. ASSUME NEW e \in Ends, BootStore(e) PROVE IInv'
  BY <1>3, BootStoreStep, SMTT(40)
<1>4. ASSUME NEW e \in Ends, RecvDamaged(e) PROVE IInv'
  BY <1>4, RecvDamagedStep
<1>5. ASSUME NEW e \in Ends, RecvUnknownKey(e) PROVE IInv'
  BY <1>5, RecvUnknownKeyStep
<1>6. ASSUME NEW e \in Ends, RecvFromConn(e) PROVE IInv'
  BY <1>6, RecvFromConnStep, SMTT(40)
<1>7. ASSUME NEW e \in Ends, RunGC(e) PROVE IInv'
  BY <1>7, RunGCStep
<1>8. ASSUME NEW e \in Ends, NEW n \in Lengths, SendToConn(e, n) PROVE IInv'
  BY <1>8, SendToConnStep, SMTT(40)
<1>9. CASE Tick
  BY <1>9, TickStep
<1> QED
  BY <1>1, <1>2, <1>3, <1>4, <1>5, <1>6, <1>7, <1>8, <1>9, SMTT(40) DEF Next

\* The invariant holds throughout.
THEOREM Invariance == Spec => []IInv
  BY InitIInv, StepIInv, PTL DEF Spec

\* Every variable of the two dispatchers keeps its type.
THEOREM TypeCorrect == Spec => []TypeOK
<1>1. IInv => TypeOK
  BY DEF IInv
<1> QED
  BY <1>1, Invariance, PTL

\* Once the first key is stored, and as long as no more keys were generated
\* than are kept, every packet on its way can be decrypted.
THEOREM KeysHeldTheorem == Spec => []KeysHeld
<1>1. IInv => KeysHeld
  <2> SUFFICES ASSUME IInv, NEW e \in Ends, boot[e] # "store", made[e] <= MaxPrv,
                      NEW i \in DOMAIN wire[e]
               PROVE  wire[e][i].to \in ToSet(Prv[e])
    BY SMTT(40) DEF KeysHeld
  <2>1. wire[e] \in Seq(Packets) /\ Prv[e] \in Seq(Nat \ {0})
    BY SMTT(40) DEF IInv, TypeOK
  <2>2. wire[e][i].to \in 1..made[e]
    <3>1. Link(wire[e], sent[Peer(e)], made[Peer(e)], made[e], remoteKey[e], remoteKey[Peer(e)])
      BY ZenonT(40) DEF IInv, Net
    <3>2. i \in 1..Len(wire[e])
      BY ONLY <2>1, i \in DOMAIN wire[e]
    <3> QED
      BY <3>1, <3>2, ZenonT(40) DEF Link
  <2>3. Len(Prv[e]) = made[e] /\ \A k \in 1..made[e] : Prv[e][k] = k
    BY DEF IInv, PrvInOrder, Stored
  <2>4. DOMAIN Prv[e] = 1..made[e]
    BY <2>1, <2>3
  <2> QED
    BY <2>2, <2>3, <2>4, ZenonT(40) DEF ToSet
<1> QED
  BY <1>1, Invariance, PTL

\* An end never goes back to an older key of its peer.
THEOREM RemoteKeyForwardTheorem == Spec => RemoteKeyForward
<1>1. IInv /\ [Next]_vars => [\A e \in Ends : remoteKey'[e] >= remoteKey[e]]_vars
  <2> SUFFICES ASSUME IInv, Next PROVE \A f \in Ends : remoteKey'[f] >= remoteKey[f]
    OBVIOUS
  <2>1. remoteKey \in [Ends -> Nat \ {0}]
    BY DEF IInv, TypeOK
  <2>2. CASE \E e \in Ends : RecvFromConn(e)
    BY <2>2, RecvFromConnStep, SMTT(40)
  <2>3. CASE ~(\E e \in Ends : RecvFromConn(e))
    <3>1. remoteKey' = remoteKey
      BY <2>3, ZenonT(40) DEF Next, BootAnnounce, BootStore, RecvDamaged, RecvUnknownKey, RunGC,
                  SendToConn, Tick
    <3> QED
      BY <2>1, <3>1, SMTT(40)
  <2> QED
    BY <2>2, <2>3, SMTT(40)
<1> QED
  BY <1>1, Invariance, PTL DEF Spec, RemoteKeyForward
=============================================================================

----------------------------- MODULE Dispatcher -----------------------------
(***************************************************************************)
(* Two dispatchers (pkg/engine/dispatcher) at the ends of one connection.  *)
(* Each splits messages into packets encrypted to the newest key its peer  *)
(* announced, gathers the packets it receives until a message can be       *)
(* joined, and from time to time announces a new key of its own.           *)
(*                                                                         *)
(* A message is named by its place in the log sent of its sender (the      *)
(* nonce.ID of the code); a packet carries the message, its Seq and the    *)
(* key it is encrypted to.  A key is named by its generation, from 1, the  *)
(* identity key.  The connection (Conn, a libp2p stream) is a FIFO queue   *)
(* in each direction; a packet whose checksum fails is dropped.            *)
(***************************************************************************)
EXTENDS Segments

CONSTANTS
  a, b,              \* the two ends
  MTU,               \* size of a packet on the wire
  SegSize,           \* payload bytes in a packet: MTU less the overhead
  Parity,            \* parity packets in a full section (64 of 256)
  KeyLen,            \* length of a NewKey message
  Lengths,           \* lengths of the messages the application sends
  MaxSend,           \* messages each end is given to send
  MaxDamaged,        \* packets that may be damaged on the way
  RekeyVolume,       \* DefaultDispatcherRekey, in packets
  MaxPrv,            \* private keys kept, 32 in the code
  Ping,              \* average round trip time
  TimeoutPingCount,  \* pings after which a transmission has failed
  MaxTime            \* bound on the clock

Ends == {a, b}
Peer(e) == IF e = a THEN b ELSE a

ASSUME DispatcherAssumption ==
  /\ a # b
  /\ MTU \in Nat \ {0} /\ SegSize \in 1..MTU /\ Parity \in 0..SectSize-1
  /\ KeyLen \in 1..SegSize-1
  /\ Lengths \subseteq {n \in Nat \ {0} : n % SegSize # 0}
  /\ MaxSend \in Nat /\ MaxDamaged \in Nat /\ MaxTime \in Nat
  /\ RekeyVolume \in Nat /\ MaxPrv \in Nat \ {0}
  /\ Ping \in Nat /\ TimeoutPingCount \in Nat

VARIABLES
  boot,        \* NewDispatcher's own thread: "rekey", "store", "up"
  dead,        \* the goroutine has panicked
  Prv,         \* private keys held, oldest first
  made,        \* generations of keys generated so far
  remoteKey,   \* Conn.RemoteKey: the key of the peer messages are sent to
  sent,        \* the messages sent, in order
  wire,        \* packets on their way to an end
  partials,    \* Partials: message -> packets received, and their newest time
  inbound,     \* PendingInbound: messages with a receive record
  received,    \* Duplex.Receiver: messages handed on, and if they were whole
  volume,      \* TotalReceived less lastRekey
  damaged,     \* packets damaged so far
  now          \* the clock

keyVars == <<Prv, made>>
rxVars  == <<partials, inbound, received>>
vars == <<boot, dead, Prv, made, remoteKey, sent, wire, partials, inbound,
          received, volume, damaged, now>>

-----------------------------------------------------------------------------
(* Messages and packets.                                                   *)

NewKey(k) == [kind |-> "newkey", key |-> k, length |-> KeyLen]
Onion(n)  == [kind |-> "onion", key |-> 0, length |-> n]
Messages  == [kind : {"newkey", "onion"}, key : Nat, length : {KeyLen} \cup Lengths]
Packets   == [msg : Nat \ {0}, seq : Nat, to : Nat \ {0}]

\* The packets of message id, encrypted to key k and shuffled: every order.
Shuffles(id, m, k) ==
  {[i \in DOMAIN s |-> [msg |-> id, seq |-> s[i], to |-> k]] :
     s \in SetToSeqs(SplitToPackets(m.length, SegSize, Parity))}

\* Variant that waits for one packet more.
JoinThreshold_Late(m) == (m.length + MTU - 1) \div MTU + 1

\* The number of packets after which a join is tried.
JoinThreshold(m) == (m.length + MTU - 1) \div MTU

NoPartial == [size |-> 0, have |-> {}, newest |-> 0]

TypeOK ==
  /\ boot \in [Ends -> {"rekey", "store", "up"}]
  /\ dead \in [Ends -> BOOLEAN]
  /\ Prv \in [Ends -> Seq(Nat \ {0})]
  /\ made \in [Ends -> Nat \ {0}]
  /\ remoteKey \in [Ends -> Nat \ {0}]
  /\ sent \in [Ends -> Seq(Messages)]
  /\ wire \in [Ends -> Seq(Packets)]
  /\ inbound \in [Ends -> SUBSET (Nat \ {0})]
  /\ DOMAIN partials = Ends
  /\ \A e \in Ends :
       /\ DOMAIN partials[e] \subseteq Nat \ {0}
       /\ \A id \in DOMAIN partials[e] :
            /\ partials[e][id].size \in Nat
            /\ partials[e][id].have \subseteq Nat
  /\ received \in [Ends -> Seq([msg : Nat \ {0}, whole : BOOLEAN])]
  /\ volume \in [Ends -> Nat]
  /\ damaged \in Nat
  /\ now \in Nat

Init ==
  /\ boot = [e \in Ends |-> "rekey"]
  /\ dead = [e \in Ends |-> FALSE]
  /\ Prv = [e \in Ends |-> <<1>>]
  /\ made = [e \in Ends |-> 1]
  /\ remoteKey = [e \in Ends |-> 1]
  /\ sent = [e \in Ends |-> << >>]
  /\ wire = [e \in Ends |-> << >>]
  /\ partials = [e \in Ends |-> << >>]
  /\ inbound = [e \in Ends |-> {}]
  /\ received = [e \in Ends |-> << >>]
  /\ volume = [e \in Ends |-> 0]
  /\ damaged = 0
  /\ now = 0

-----------------------------------------------------------------------------
(* Keys.                                                                   *)

\* Variant that keeps the newest key only.
KeepKeys_Newest(s) == <<s[Len(s)]>>

\* The keys kept of a list that has grown: the first MaxPrv of it.
KeepKeys(s) == IF Len(s) > MaxPrv THEN SubSeq(s, 1, MaxPrv) ELSE s

\* Variant that puts the announcement ahead of what is on the wire.
Announce_Ahead(e, w) ==
  LET k == made[e] + 1
      m == NewKey(k)
  IN  \E s \in Shuffles(Len(sent[e]) + 1, m, remoteKey[e]) :
        /\ made' = [made EXCEPT ![e] = k]
        /\ sent' = [sent EXCEPT ![e] = Append(@, m)]
        /\ wire' = [w EXCEPT ![Peer(e)] = s \o @]

\* The first part of ReKey: a new key is generated and announced, encrypted
\* to the peer's current key; w is the wire as it is before.
Announce(e, w) ==
  LET k == made[e] + 1
      m == NewKey(k)
  IN  \E s \in Shuffles(Len(sent[e]) + 1, m, remoteKey[e]) :
        /\ made' = [made EXCEPT ![e] = k]
        /\ sent' = [sent EXCEPT ![e] = Append(@, m)]
        /\ wire' = [w EXCEPT ![Peer(e)] = @ \o s]

\* The last part of ReKey: the private key goes to the end of the list.
StoreKey(e, k) == Prv' = [Prv EXCEPT ![e] = KeepKeys(Append(@, k))]

\* NewDispatcher starts the goroutine and then, in its own thread and with
\* the mutex held, runs ReKey: the announcement leaves before the key is
\* stored, and the goroutine looks keys up without that mutex.
BootAnnounce(e) ==
  /\ boot[e] = "rekey"
  /\ boot' = [boot EXCEPT ![e] = "store"]
  /\ volume' = [volume EXCEPT ![e] = 0]
  /\ Announce(e, wire)
  /\ UNCHANGED <<dead, Prv, remoteKey, rxVars, damaged, now>>

BootStore(e) ==
  /\ boot[e] = "store"
  /\ boot' = [boot EXCEPT ![e] = "up"]
  /\ StoreKey(e, made[e])
  /\ UNCHANGED <<dead, made, remoteKey, sent, wire, rxVars, volume, damaged, now>>

-----------------------------------------------------------------------------
(* Sending.                                                                *)

OnionsSent(e) == Cardinality({i \in DOMAIN sent[e] : sent[e][i].kind = "onion"})

\* A message taken from Duplex.Sender is split, shuffled and put on the wire.
SendToConn(e, n) ==
  /\ boot[e] = "up" /\ ~dead[e]
  /\ OnionsSent(e) < MaxSend
  /\ \E s \in Shuffles(Len(sent[e]) + 1, Onion(n), remoteKey[e]) :
       wire' = [wire EXCEPT ![Peer(e)] = @ \o s]
  /\ sent' = [sent EXCEPT ![e] = Append(@, Onion(n))]
  /\ UNCHANGED <<boot, dead, keyVars, remoteKey, rxVars, volume, damaged, now>>

-----------------------------------------------------------------------------
(* Receiving.                                                              *)

\* A packet whose checksum does not match is dropped before anything else.
RecvDamaged(e) ==
  /\ ~dead[e] /\ wire[e] # << >>
  /\ damaged < MaxDamaged
  /\ damaged' = damaged + 1
  /\ wire' = [wire EXCEPT ![e] = Tail(@)]
  /\ UNCHANGED <<boot, dead, keyVars, remoteKey, sent, rxVars, volume, now>>

\* A packet encrypted to a key that is not in the list: no private key is
\* found, and decoding with none panics.
RecvUnknownKey(e) ==
  /\ ~dead[e] /\ wire[e] # << >>
  /\ Head(wire[e]).to \notin ToSet(Prv[e])
  /\ dead' = [dead EXCEPT ![e] = TRUE]
  /\ wire' = [wire EXCEPT ![e] = Tail(@)]
  /\ UNCHANGED <<boot, keyVars, remoteKey, sent, rxVars, volume, damaged, now>>

\* Variant that starts anew with each packet.
Gathered_Anew(e, p) == [size |-> 1, have |-> {p.seq}, newest |-> now]

\* What is gathered of the message of packet p, with p.
Gathered(e, p) ==
  LET old == IF p.msg \in inbound[e] THEN partials[e][p.msg] ELSE NoPartial
  IN  [size |-> old.size + 1, have |-> old.have \cup {p.seq}, newest |-> now]

\* The map of partial messages with the entry of message id replaced.
File(map, id, part) ==
  [k \in DOMAIN map \cup {id} |-> IF k = id THEN part ELSE map[k]]

\* What is left of it after a join: the packets in their places, with gaps,
\* or nothing.
AfterJoin(part, m, o) ==
  IF o.kept
    THEN [part EXCEPT !.size = PacketCount(NewSegments(m.length, SegSize, Parity))]
    ELSE NoPartial

\* Variant that recognises a NewKey and forgets to use it.
Handle_OnionsOnly(e, id, m, o) ==
  /\ dead' = [dead EXCEPT ![e] = o.sections = 0]
  /\ received' = IF m.kind = "onion" /\ o.sections > 0
                   THEN [received EXCEPT ![e] =
                           Append(@, [msg |-> id, whole |-> o.status = "ok"])]
                   ELSE received
  /\ UNCHANGED remoteKey

\* Handle, called with whatever the join returned: no bytes at all panic, a
\* NewKey replaces the remote key, an Onion is handed on.
Handle(e, id, m, o) ==
  /\ dead' = [dead EXCEPT ![e] = o.sections = 0]
  /\ remoteKey' = IF m.kind = "newkey" /\ o.sections > 0
                    THEN [remoteKey EXCEPT ![e] = m.key] ELSE remoteKey
  /\ received' = IF m.kind = "onion" /\ o.sections > 0
                   THEN [received EXCEPT ![e] =
                           Append(@, [msg |-> id, whole |-> o.status = "ok"])]
                   ELSE received

\* RecvFromConn for a packet that can be decrypted.  ReKey, when it is due,
\* comes before the packet is filed, the join after; a successful join counts
\* the packets it kept a second time.
RecvFromConn(e) ==
  LET p    == Head(wire[e])
      m    == sent[Peer(e)][p.msg]
      part == Gathered(e, p)
      join == part.size > JoinThreshold(m)
      o    == JoinPackets(Sorted(part.have), m.length, SegSize, Parity)
      due  == volume[e] + 1 > RekeyVolume
      w    == [wire EXCEPT ![e] = Tail(@)]
  IN  /\ ~dead[e] /\ wire[e] # << >>
      /\ p.to \in ToSet(Prv[e])
      /\ boot[e] # "store"
      /\ IF due THEN Announce(e, w) /\ StoreKey(e, made[e] + 1)
                ELSE wire' = w /\ UNCHANGED <<sent, keyVars>>
      /\ volume' = [volume EXCEPT ![e] =
                      (IF due THEN 0 ELSE @ + 1)
                        + (IF join /\ o.status = "ok" /\ o.kept
                             THEN Cardinality(part.have) ELSE 0)]
      /\ inbound' = [inbound EXCEPT ![e] = @ \cup {p.msg}]
      /\ partials' = [partials EXCEPT ![e] =
                        File(@, p.msg, IF join THEN AfterJoin(part, m, o) ELSE part)]
      /\ IF join THEN Handle(e, p.msg, m, o)
                 ELSE UNCHANGED <<dead, remoteKey, received>>
      /\ UNCHANGED <<boot, damaged, now>>

-----------------------------------------------------------------------------
(* Garbage collection.                                                     *)

\* The transmissions RunGC takes for failed.  The age of the newest packet is
\* computed as newest.Sub(time.Now()).
Stale(e) ==
  {id \in DOMAIN partials[e] :
     /\ partials[e][id].have # {}
     /\ partials[e][id].newest - now > Ping * TimeoutPingCount}

\* RunGC forgets them and sends their records into Duplex.Sender, which only
\* this goroutine reads: with anything to send it would wait for itself.
RunGC(e) ==
  /\ boot[e] = "up" /\ ~dead[e]
  /\ partials' = [partials EXCEPT ![e] = Restrict(@, DOMAIN @ \ Stale(e))]
  /\ inbound' = [inbound EXCEPT ![e] = @ \ Stale(e)]
  /\ dead' = [dead EXCEPT ![e] = Stale(e) # {}]
  /\ UNCHANGED <<boot, keyVars, remoteKey, sent, wire, received, volume, damaged, now>>

Tick ==
  /\ now < MaxTime
  /\ now' = now + 1
  /\ UNCHANGED <<boot, dead, keyVars, remoteKey, sent, wire, rxVars, volume, damaged>>

Next ==
  \/ \E e \in Ends :
       \/ BootAnnounce(e) \/ BootStore(e)
       \/ RecvDamaged(e) \/ RecvUnknownKey(e) \/ RecvFromConn(e)
       \/ RunGC(e)
       \/ \E n \in Lengths : SendToConn(e, n)
  \/ Tick

Spec == Init /\ [][Next]_vars

\* Both ends have exchanged their first keys and are idle.
ReadyInit ==
  /\ boot = [e \in Ends |-> "up"]
  /\ dead = [e \in Ends |-> FALSE]
  /\ Prv = [e \in Ends |-> KeepKeys(<<1, 2>>)]
  /\ made = [e \in Ends |-> 2]
  /\ remoteKey = [e \in Ends |-> 2]
  /\ sent = [e \in Ends |-> <<NewKey(2)>>]
  /\ wire = [e \in Ends |-> << >>]
  /\ partials = [e \in Ends |-> [id \in {1} |-> NoPartial]]
  /\ inbound = [e \in Ends |-> {1}]
  /\ received = [e \in Ends |-> << >>]
  /\ volume = [e \in Ends |-> PacketCount(NewSegments(KeyLen, SegSize, Parity))]
  /\ damaged = 0
  /\ now = 0

\* The goroutine of a dispatcher keeps running while it has something to do,
\* and so does the clock; nothing makes an application send.
Fairness ==
  /\ \A e \in Ends : WF_vars(RecvFromConn(e)) /\ WF_vars(RunGC(e))
  /\ WF_vars(Tick)

ReadySpec == ReadyInit /\ [][Next]_vars /\ Fairness

-----------------------------------------------------------------------------
(* Properties.                                                             *)

Delivered(e, id) == \E i \in DOMAIN received[e] : received[e][i].msg = id

\* What came of message id: handed on, or its key in use.
Handled(e, id) ==
  LET m == sent[Peer(e)][id]
  IN  IF m.kind = "onion" THEN Delivered(e, id) ELSE remoteKey[e] >= m.key

Have(e, id) == IF id \in inbound[e] THEN partials[e][id].have ELSE {}

DataPackets(m) == DataShards(NewSegments(m.length, SegSize, Parity))

\* A message is handled when one packet more than it has data packets was
\* gathered, and an Onion is not handed on with fewer than its data packets,
\* however many were damaged and in whatever order they came, nor, if it has a
\* single section, with anything missing.
HandledWhenEnough ==
  \A e \in Ends : \A id \in DOMAIN sent[Peer(e)] :
    LET n == Cardinality(Have(e, id))
        d == DataPackets(sent[Peer(e)][id])
    IN  /\ n > d /\ ~dead[e] => Handled(e, id)
        /\ Delivered(e, id) => n = 0 \/ n >= d
        /\ \A i \in DOMAIN received[e] :
             received[e][i].msg = id /\ ~received[e][i].whole =>
               Len(NewSegments(sent[Peer(e)][id].length, SegSize, Parity)) > 1

\* No packet is forgotten: as long as none was damaged, each packet of a
\* message is on the wire or filed in Partials, until they have all come.
NoPacketForgotten ==
  damaged = 0 =>
    \A e \in Ends : \A id \in DOMAIN sent[e] :
      LET r     == Peer(e)
          all   == SplitToPackets(sent[e][id].length, SegSize, Parity)
          there == {wire[r][i].seq : i \in {j \in DOMAIN wire[r] : wire[r][j].msg = id}}
          filed == Have(r, id)
      IN  \/ dead[r]
          \/ there \cap filed = {} /\ there \cup filed = all
          \/ there = {} /\ filed = {}

\* A packet on its way to an end is encrypted to a key that end still holds,
\* so that "in case a transmission gets delayed extraordinarily long time it
\* can still be decrypted": once the first key is stored, and as long as no
\* more than MaxPrv keys were generated.
KeysHeld ==
  \A e \in Ends :
    (boot[e] # "store" /\ made[e] <= MaxPrv) =>
      \A i \in DOMAIN wire[e] : wire[e][i].to \in ToSet(Prv[e])

\* An end never goes back to an older key of its peer, although messages are
\* joined as soon as they can be and a message can be handled several times.
RemoteKeyForward ==
  [][\A e \in Ends : remoteKey'[e] >= remoteKey[e]]_vars

\* On a connection that damages nothing every message an application sends
\* reaches the application at the other end.
OnionsArrive ==
  \A e \in Ends :
    []<>(\A id \in DOMAIN sent[e] :
           sent[e][id].kind = "onion" => Delivered(Peer(e), id))

\* Both ends end up using the newest key of the other.
KeysSettle == \A e \in Ends : []<>(remoteKey[Peer(e)] = made[e])

\* A message is handed on once: a further packet of it is met with "Skip,
\* message has been dispatched".
DeliveredOnce ==
  \A e \in Ends : \A i, j \in DOMAIN received[e] :
    received[e][i].msg = received[e][j].msg => i = j

\* A packet for which there is no key is discarded ("did not find key for
\* packet, discarding") and a join is only tried on enough packets ("Enough
\* to attempt reconstruction"): neither stops the dispatcher.
KeepsRunning == \A e \in Ends : ~dead[e]
=============================================================================

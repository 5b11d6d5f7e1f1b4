------------------------------ MODULE AddrBook ------------------------------
(***************************************************************************)
(* What an address book promises, whichever of its two implementations is  *)
(* plugged into the peer store: the addresses of a peer that Addrs returns *)
(* now, with their expiry, and the sequence number of the signed record    *)
(* GetPeerRecord returns with them.  MemAddrBook and, for one caller at a  *)
(* time, DsAddrBook implement it.                                          *)
(***************************************************************************)
EXTENDS AddrEntries

CONSTANTS
  Peers,        \* peer IDs
  Addrs,        \* multiaddresses, without the /p2p suffix
  TTLs,         \* times to live in calls; 0 stands for ttl <= 0
  Seqs,         \* sequence numbers of signed records
  MaxTime       \* bound on the clock

VARIABLES
  now,          \* the clock
  book,         \* per peer and address the entry Addrs returns, or NoEntry
  signed        \* per peer the sequence number of its signed record, or 0

vars == <<now, book, signed>>

Nothing == [a \in Addrs |-> NoEntry]

Init ==
  /\ now = 0
  /\ book = [p \in Peers |-> Nothing]
  /\ signed = [p \in Peers |-> 0]

\* The signed records are those of s; that of a peer without an address may
\* be forgotten.
Remember(s) ==
  \E F \in SUBSET {p \in Peers : book'[p] = Nothing} :
    signed' = [p \in Peers |-> IF p \in F THEN 0 ELSE s[p]]

\* The entry of each address of p becomes one of Outcomes(address).
Change(p, Outcomes(_)) ==
  LET new == book'[p]
  IN  /\ \A a \in Addrs : new[a] \in Outcomes(a)
      /\ book' = [book EXCEPT ![p] = [a \in Addrs |-> new[a]]]

New(ttl) == IF ttl > 0 THEN NewEntry(ttl, now) ELSE NoEntry

\* An address that has expired is forgotten at no particular time, and may
\* still be known with its time to live.
Extensions(e, ttl) ==
  {Extended(old, ttl, now) : old \in IF e # NoEntry THEN {e} ELSE [ttl : TTLs, exp : {0}]}

\* Time passes and takes the addresses with it that expire.
Tick ==
  /\ now < MaxTime /\ now' = now + 1
  /\ book' = [p \in Peers |-> [a \in Addrs |->
                IF ExpiredBy(book[p][a], now + 1) THEN NoEntry ELSE book[p][a]]]
  /\ Remember(signed)

\* The addresses of A are added; none of them expires earlier than before.
Added(p, A, ttl) ==
  LET old == book[p]
  IN  Change(p, LAMBDA a : IF a \in A /\ ttl > 0 THEN Extensions(old[a], ttl) ELSE {old[a]})

AddAddrs(p, A, ttl) ==
  /\ UNCHANGED now
  /\ Added(p, A, ttl) /\ Remember(signed)

\* The addresses of A are given this time to live, or removed.
SetAddrs(p, A, ttl) ==
  /\ UNCHANGED now
  /\ LET old == book[p] IN Change(p, LAMBDA a : {IF a \in A THEN New(ttl) ELSE old[a]})
  /\ Remember(signed)

\* The addresses with one time to live are given another, and those with
\* others are not.
UpdateAddrs(p, oldTTL, newTTL) ==
  /\ UNCHANGED now
  /\ LET old == book[p]
     IN  Change(p, LAMBDA a : IF old[a] = NoEntry THEN {NoEntry, New(newTTL)}
                              ELSE {IF old[a].ttl = oldTTL THEN New(newTTL) ELSE old[a]})
  /\ Remember(signed)

\* A signed record is taken, with its addresses, unless a newer one is there
\* and the peer has addresses.
ConsumePeerRecord(p, seq, A, ttl) ==
  /\ UNCHANGED now
  /\ IF seq >= signed[p] \/ book[p] = Nothing
     THEN Added(p, A, ttl) /\ Remember([signed EXCEPT ![p] = seq])
     ELSE UNCHANGED book /\ Remember(signed)

\* All that is known of a peer is removed.
ClearAddrs(p) ==
  /\ UNCHANGED now
  /\ book' = [book EXCEPT ![p] = Nothing] /\ Remember([signed EXCEPT ![p] = 0])

\* What reading, garbage collection and restarts may do.
Forget == UNCHANGED <<now, book>> /\ Remember(signed)

Next ==
  \/ Tick \/ Forget
  \/ \E p \in Peers :
       \/ ClearAddrs(p)
       \/ \E A \in SUBSET Addrs, ttl \in TTLs :
            \/ AddAddrs(p, A, ttl)
            \/ SetAddrs(p, A, ttl)
            \/ \E seq \in Seqs : ConsumePeerRecord(p, seq, A, ttl)
       \/ \E old \in TTLs \ {0}, new \in TTLs : UpdateAddrs(p, old, new)

Spec == Init /\ [][Next]_vars
=============================================================================

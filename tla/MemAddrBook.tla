---------------------------- MODULE MemAddrBook -----------------------------
(***************************************************************************)
(* The address book in memory (pstoremem/addr_book.go).  Every operation   *)
(* on a peer holds the lock of the peer's segment and is one step; garbage *)
(* collection reads the clock once and then takes one segment at a time.   *)
(* Every peer is given a segment of its own, the finest interleaving.      *)
(***************************************************************************)
EXTENDS AddrEntries

CONSTANTS Peers, Addrs, TTLs, Seqs, MaxTime

ASSUME MemAddrBookAssumption ==
  /\ TTLs \subseteq Nat /\ 0 \in TTLs
  /\ Seqs \subseteq Nat \ {0}
  /\ MaxTime \in Nat

VARIABLES
  now,          \* clock.Now()
  addrs,        \* addrs of the segments: per peer and address the entry
  mapped,       \* the peers that have a map, if only an empty one
  signedPeerRecords,  \* per peer the Seq of its record, or 0
  gcTime,       \* clock when gc started
  gcTodo        \* the peers gc has still to visit

vars == <<now, addrs, mapped, signedPeerRecords, gcTime, gcTodo>>

Nothing == [a \in Addrs |-> NoEntry]

Init ==
  /\ now = 0
  /\ addrs = [p \in Peers |-> Nothing]
  /\ mapped = {}
  /\ signedPeerRecords = [p \in Peers |-> 0]
  /\ gcTime = 0 /\ gcTodo = {}

Tick ==
  /\ now < MaxTime /\ now' = now + 1
  /\ UNCHANGED <<addrs, mapped, signedPeerRecords, gcTime, gcTodo>>

\* addAddrsUnlocked: nothing at all for ttl <= 0, not even a map.
addAddrsUnlocked(p, A, ttl) ==
  IF ttl = 0 THEN UNCHANGED <<addrs, mapped>>
  ELSE /\ mapped' = mapped \cup {p}
       /\ addrs' = [addrs EXCEPT ![p] = [a \in Addrs |->
            IF a \in A THEN Extended(addrs[p][a], ttl, now) ELSE addrs[p][a]]]

AddAddrs(p, A, ttl) ==
  /\ addAddrsUnlocked(p, A, ttl)
  /\ UNCHANGED <<now, signedPeerRecords, gcTime, gcTodo>>

\* Variant without the test of the sequence number.
ConsumePeerRecord_AnySeq(p, seq, A, ttl) ==
  /\ signedPeerRecords' = [signedPeerRecords EXCEPT ![p] = seq]
  /\ addAddrsUnlocked(p, A, ttl)
  /\ UNCHANGED <<now, gcTime, gcTodo>>

\* A record older than the last is refused; an equal one extends the expiry.
ConsumePeerRecord(p, seq, A, ttl) ==
  /\ signedPeerRecords[p] <= seq
  /\ signedPeerRecords' = [signedPeerRecords EXCEPT ![p] = seq]
  /\ addAddrsUnlocked(p, A, ttl)
  /\ UNCHANGED <<now, gcTime, gcTodo>>

SetAddrs(p, A, ttl) ==
  /\ mapped' = mapped \cup {p}
  /\ addrs' = [addrs EXCEPT ![p] = [a \in Addrs |->
       IF a \notin A THEN addrs[p][a]
       ELSE IF ttl > 0 THEN NewEntry(ttl, now) ELSE NoEntry]]
  /\ UNCHANGED <<now, signedPeerRecords, gcTime, gcTodo>>

\* An address that has expired but not been collected is updated too.
UpdateAddrs(p, oldTTL, newTTL) ==
  /\ p \in mapped
  /\ addrs' = [addrs EXCEPT ![p] = [a \in Addrs |->
       IF addrs[p][a].ttl # oldTTL THEN addrs[p][a]
       ELSE IF newTTL > 0 THEN NewEntry(newTTL, now) ELSE NoEntry]]
  /\ UNCHANGED <<now, mapped, signedPeerRecords, gcTime, gcTodo>>

ClearAddrs(p) ==
  /\ mapped' = mapped \ {p}
  /\ addrs' = [addrs EXCEPT ![p] = Nothing]
  /\ signedPeerRecords' = [signedPeerRecords EXCEPT ![p] = 0]
  /\ UNCHANGED <<now, gcTime, gcTodo>>

\* The ticker of background fires.
StartGC ==
  /\ gcTodo = {} /\ gcTime' = now /\ gcTodo' = Peers
  /\ UNCHANGED <<now, addrs, mapped, signedPeerRecords>>

Survivors(p) ==
  [a \in Addrs |-> IF ExpiredBy(addrs[p][a], gcTime) THEN NoEntry ELSE addrs[p][a]]

\* Variant that leaves the signed record of a peer whose map it deletes.
gc_KeepRecord(p) ==
  /\ p \in gcTodo /\ gcTodo' = gcTodo \ {p}
  /\ addrs' = [addrs EXCEPT ![p] = Survivors(p)]
  /\ mapped' = IF Survivors(p) = Nothing THEN mapped \ {p} ELSE mapped
  /\ UNCHANGED <<now, signedPeerRecords, gcTime>>

\* One segment: expired addresses go, and with the last of them the map and
\* the signed record of the peer.
gc(p) ==
  /\ p \in gcTodo /\ gcTodo' = gcTodo \ {p}
  /\ LET empty == p \in mapped /\ Survivors(p) = Nothing
     IN  /\ addrs' = [addrs EXCEPT ![p] = Survivors(p)]
         /\ mapped' = IF empty THEN mapped \ {p} ELSE mapped
         /\ signedPeerRecords' = [signedPeerRecords EXCEPT ![p] = IF empty THEN 0 ELSE @]
  /\ UNCHANGED <<now, gcTime>>

Next ==
  \/ Tick \/ StartGC
  \/ \E p \in Peers :
       \/ gc(p)
       \/ ClearAddrs(p)
       \/ \E A \in SUBSET Addrs, ttl \in TTLs :
            \/ AddAddrs(p, A, ttl)
            \/ SetAddrs(p, A, ttl)
            \/ \E seq \in Seqs : ConsumePeerRecord(p, seq, A, ttl)
       \/ \E old \in TTLs \ {0}, new \in TTLs : UpdateAddrs(p, old, new)

Spec == Init /\ [][Next]_vars

\* The goroutine of the book runs until the book is closed.
FairSpec == Spec /\ WF_vars(StartGC) /\ \A p \in Peers : WF_vars(gc(p))
-----------------------------------------------------------------------------
\* An entry was made before t with a time to live callers use, or is none.
EntryOK(e, t) ==
  /\ e \in Entry /\ e.ttl \in TTLs
  /\ e.ttl = 0 => e = NoEntry
  /\ e.exp <= t + e.ttl

\* Every variable has its type; a peer without a map has no addresses.
TypeOK ==
  /\ now \in 0..MaxTime
  /\ addrs \in [Peers -> [Addrs -> Entry]]
  /\ \A p \in Peers, a \in Addrs : EntryOK(addrs[p][a], now)
  /\ \A p \in Peers \ mapped : addrs[p] = Nothing
  /\ mapped \subseteq Peers
  /\ signedPeerRecords \in [Peers -> Seqs \cup {0}]
  /\ gcTime \in 0..now /\ gcTodo \subseteq Peers

\* Addrs: what it returns for each peer.
validAddrs(p) ==
  [a \in Addrs |-> IF ExpiredBy(addrs[p][a], now) THEN NoEntry ELSE addrs[p][a]]

\* The book behaves as every address book promises.
Abstract == INSTANCE AddrBook WITH
  book <- [p \in Peers |-> validAddrs(p)], signed <- signedPeerRecords
ImplementsAddrBook == Abstract!Spec

\* "the signed record gets garbage collected when all addrs inside it are
\* expired": the map of a peer without a valid address, and its signed record
\* with it, goes in the end unless a valid address comes.
ExpiredCollected ==
  \A p \in Peers :
    (p \in mapped /\ validAddrs(p) = Nothing) ~>
      (signedPeerRecords[p] = 0 /\ p \notin mapped) \/ validAddrs(p) # Nothing
=============================================================================

----------------------------- MODULE DsAddrBook -----------------------------
(***************************************************************************)
(* The address book in a datastore (pstoreds/addr_book.go, addr_book_gc.go *)
(* and cyclic_batch.go), used by one caller at a time: every operation and *)
(* every pass of garbage collection is one step.  A record is read through *)
(* a cache that may drop it at any time; a restart loses the cache and     *)
(* keeps the store.                                                        *)
(***************************************************************************)
EXTENDS DsRecords

CONSTANTS
  Peers, Addrs, TTLs, Seqs, MaxTime,
  MayLoseCache, \* FALSE: no restart, and a cache with room for every peer
  Lookaheads    \* the values of Options.GCLookaheadInterval, 0 for full purges

ASSUME DsAddrBookAssumption ==
  /\ TTLs \subseteq Nat /\ 0 \in TTLs
  /\ Seqs \subseteq Nat \ {0}
  /\ MaxTime \in Nat /\ Lookaheads \subseteq Nat /\ MayLoseCache \in BOOLEAN

VARIABLES
  now,            \* clock.Now() in seconds
  store,          \* per peer its record in the datastore
  cached,         \* the peers in the cache
  cache,          \* their records
  GCLookaheadInterval,
  lookahead,      \* the keys <<time of next visit, peer>> in the datastore
  currWindowEnd

vars == <<now, store, cached, cache, GCLookaheadInterval, lookahead, currWindowEnd>>
records == <<store, cached, cache>>
gcVars  == <<GCLookaheadInterval, lookahead, currWindowEnd>>

Init ==
  /\ now = 0
  /\ store = [p \in Peers |-> NewRecord]
  /\ cached = {} /\ cache = [p \in Peers |-> NewRecord]
  /\ GCLookaheadInterval \in Lookaheads
  /\ lookahead = {} /\ currWindowEnd = 0

Tick ==
  /\ now < MaxTime /\ now' = now + 1
  /\ UNCHANGED <<records, gcVars>>

\* The cache is full and another peer needs the place.
Evict(p) ==
  /\ MayLoseCache
  /\ p \in cached /\ cached' = cached \ {p}
  /\ cache' = [cache EXCEPT ![p] = NewRecord]
  /\ UNCHANGED <<now, store, gcVars>>

Restart ==
  /\ MayLoseCache
  /\ cached' = {} /\ cache' = [p \in Peers |-> NewRecord]
  /\ currWindowEnd' = 0
  /\ UNCHANGED <<now, store, GCLookaheadInterval, lookahead>>

Current(p) == IF p \in cached THEN cache[p] ELSE store[p]

\* loadRecord: what it may return.  Loaded(p, r, update) is its effect with
\* the cache argument true.
loadRecord(p) == clean(Current(p), now)

Loaded(p, r, update) ==
  /\ cached' = cached \cup {p}
  /\ IF update /\ Chgd(Current(p), r)
     THEN /\ store' = [store EXCEPT ![p] = InStore(r)]
          /\ cache' = [cache EXCEPT ![p] = InMemory(r)]
     ELSE store' = store /\ cache' = [cache EXCEPT ![p] = r]

\* The record r of p has been changed in memory and is flushed.
Flushed(p, r) ==
  /\ store' = [store EXCEPT ![p] = InStore(r)]
  /\ cached' = cached \cup {p} /\ cache' = [cache EXCEPT ![p] = InMemory(r)]

Dirty(r, s) == [r EXCEPT !.addrs = s, !.dirty = TRUE]

\* setAddrs on the record r: what it may leave.
setAddrs(r, A, ttl, mode) ==
  IF A = {} THEN {r} ELSE clean(Dirty(r, SetEntries(r.addrs, A, ttl, now, mode)), now)

AddAddrs(p, A, ttl) ==
  /\ ttl > 0 /\ A # {}
  /\ \E r \in loadRecord(p) : \E c \in setAddrs(r, A, ttl, "extend") : Flushed(p, c)
  /\ UNCHANGED <<now, gcVars>>

\* deleteAddrs does not put the record in the cache.
deleteAddrs(p, A) ==
  \E r \in loadRecord(p) : \E c \in clean(Dirty(r, deleteInPlace(r.addrs, A)), now) :
    /\ store' = [store EXCEPT ![p] = InStore(c)]
    /\ cache' = IF p \in cached THEN [cache EXCEPT ![p] = InMemory(c)] ELSE cache
    /\ UNCHANGED cached

SetAddrs(p, A, ttl) ==
  /\ IF ttl = 0 THEN deleteAddrs(p, A)
     ELSE /\ A # {}
          /\ \E r \in loadRecord(p) : \E c \in setAddrs(r, A, ttl, "override") : Flushed(p, c)
  /\ UNCHANGED <<now, gcVars>>

UpdateAddrs(p, oldTTL, newTTL) ==
  /\ \E r \in loadRecord(p) :
       IF \E i \in DOMAIN r.addrs : r.addrs[i].ttl = oldTTL
       THEN \E c \in clean(Dirty(r, RetimedEntries(r.addrs, oldTTL, newTTL, now)), now) :
              Flushed(p, c)
       ELSE Loaded(p, r, FALSE)
  /\ UNCHANGED <<now, gcVars>>

latestPeerRecordSeq(r) == IF r.addrs = << >> THEN 0 ELSE r.cert

\* Variant without the test of the sequence number.
ConsumePeerRecord_AnySeq(p, seq, A, ttl) ==
  /\ \E r \in loadRecord(p) : \E c \in setAddrs(r, A, ttl, "extend") :
       Flushed(p, [c EXCEPT !.cert = seq])
  /\ UNCHANGED <<now, gcVars>>

\* The addresses of a signed record, and then the record itself; one that is
\* older than the last is refused.
ConsumePeerRecord(p, seq, A, ttl) ==
  /\ \E r \in loadRecord(p) :
       IF latestPeerRecordSeq(r) > seq THEN Loaded(p, r, FALSE)
       ELSE \E c \in setAddrs(r, A, ttl, "extend") : Flushed(p, [c EXCEPT !.cert = seq])
  /\ UNCHANGED <<now, gcVars>>

\* Reading changes the cache, and Addrs the store.
AddrsOf(p) ==
  /\ \E r \in loadRecord(p) : Loaded(p, r, TRUE)
  /\ UNCHANGED <<now, gcVars>>

GetPeerRecord(p) ==
  /\ \E r \in loadRecord(p) : Loaded(p, r, FALSE)
  /\ UNCHANGED <<now, gcVars>>

\* Variant that leaves the record in the cache.
ClearAddrs_StoreOnly(p) ==
  /\ store' = [store EXCEPT ![p] = NewRecord]
  /\ UNCHANGED <<now, cached, cache, gcVars>>

ClearAddrs(p) ==
  /\ cached' = cached \ {p} /\ cache' = [cache EXCEPT ![p] = NewRecord]
  /\ store' = [store EXCEPT ![p] = NewRecord]
  /\ UNCHANGED <<now, gcVars>>

\* Garbage collection meets no dirty record, so clean leaves but one.
Cleaned(r) == CHOOSE c \in clean(r, now) : TRUE

\* Variant that cleans the cache only.
purgeStore_CacheOnly ==
  /\ GCLookaheadInterval = 0
  /\ LET old == {p \in Peers : hasExpiredAddrs(store[p], now)}
     IN  /\ cached' = cached \ old
         /\ cache' = [p \in Peers |-> IF p \in old THEN NewRecord ELSE cache[p]]
  /\ UNCHANGED <<now, store, gcVars>>

\* A pass over the store.
purgeStore ==
  /\ GCLookaheadInterval = 0
  /\ LET old == {p \in Peers : Chgd(store[p], Cleaned(store[p]))}
     IN  /\ store' = [p \in Peers |-> IF p \in old THEN InStore(Cleaned(store[p])) ELSE store[p]]
         /\ cached' = cached \ old
         /\ cache' = [p \in Peers |-> IF p \in old THEN NewRecord ELSE cache[p]]
  /\ UNCHANGED <<now, gcVars>>

\* The key of the next visit to a record that has addresses.
NextVisit(p, r) == <<Head(r.addrs).exp, p>>

\* The keys that are due: the record is cleaned and the key dropped, or moved
\* when the next expiry is within the window.
purgeLookahead ==
  /\ GCLookaheadInterval > 0
  /\ LET due  == {k \in lookahead : k[1] <= now}
         seen == {k[2] : k \in due}
         left == [p \in Peers |-> IF p \in seen THEN Cleaned(Current(p)) ELSE Current(p)]
         write == {p \in seen : Chgd(Current(p), left[p])}
         again == {p \in seen : left[p].addrs # << >> /\ Head(left[p].addrs).exp <= currWindowEnd}
     IN  /\ store' = [p \in Peers |-> IF p \in write THEN InStore(left[p]) ELSE store[p]]
         /\ cache' = [p \in Peers |-> IF p \in cached THEN InMemory(left[p]) ELSE cache[p]]
         /\ lookahead' = (lookahead \ due) \cup {NextVisit(p, left[p]) : p \in again}
  /\ UNCHANGED <<now, cached, GCLookaheadInterval, currWindowEnd>>

\* Keys for the records whose first address expires within the window.
populateLookahead ==
  /\ GCLookaheadInterval > 0
  /\ LET until == now + GCLookaheadInterval
         soon  == {p \in Peers : /\ store[p] # NewRecord /\ Current(p).addrs # << >>
                                 /\ Head(Current(p).addrs).exp <= until}
     IN  /\ lookahead' = lookahead \cup {NextVisit(p, Current(p)) : p \in soon}
         /\ currWindowEnd' = until
  /\ UNCHANGED <<now, records, GCLookaheadInterval>>

Next ==
  \/ Tick \/ Restart \/ purgeStore \/ purgeLookahead \/ populateLookahead
  \/ \E p \in Peers :
       \/ Evict(p) \/ AddrsOf(p) \/ GetPeerRecord(p) \/ ClearAddrs(p)
       \/ \E A \in SUBSET Addrs, ttl \in TTLs :
            \/ AddAddrs(p, A, ttl)
            \/ SetAddrs(p, A, ttl)
            \/ \E seq \in Seqs : ConsumePeerRecord(p, seq, A, ttl)
       \/ \E old \in TTLs \ {0}, new \in TTLs : UpdateAddrs(p, old, new)

Spec == Init /\ [][Next]_vars

\* The tickers of background fire until the book is closed.
FairSpec ==
  Spec /\ WF_vars(purgeStore) /\ WF_vars(purgeLookahead) /\ WF_vars(populateLookahead)
-----------------------------------------------------------------------------
\* Records at rest: not dirty, no address twice, and sorted by expiry, which
\* hasExpiredAddrs and removeExpired rely on.
Records ==
  {r \in [addrs : Seq([addr : Addrs, ttl : TTLs \ {0}, exp : Nat]),
          cert : Seqs \cup {0}, dirty : {FALSE}] :
     /\ SortedByExpiry(r.addrs)
     /\ \A i, j \in DOMAIN r.addrs : r.addrs[i].addr = r.addrs[j].addr => i = j}

Valid(r) == {r.addrs[i] : i \in {j \in DOMAIN r.addrs : ~ExpiredBy(r.addrs[j], now)}}

\* "read/write-through ARC cache": whatever was cleaned in memory only, the
\* cache has the addresses that are valid in the store, and their signed
\* record, so nothing is lost when a record leaves the cache; and every
\* operation leaves both records at rest.
WriteThrough ==
  /\ \A p \in Peers : store[p] \in Records /\ cache[p] \in Records
  /\ \A p \in cached :
       /\ Valid(cache[p]) = Valid(store[p])
       /\ Valid(cache[p]) # {} => cache[p].cert = store[p].cert

\* The entries of a record that Addrs returns.
Entries(r) ==
  LET valid == Valid(r)
  IN  [a \in Addrs |->
         IF \E e \in valid : e.addr = a
         THEN LET e == CHOOSE e \in valid : e.addr = a IN [ttl |-> e.ttl, exp |-> e.exp]
         ELSE NoEntry]

\* "deletes addresses in place": SetAddrs with a ttl <= 0 removes the addresses
\* it is given and no other.
DeletesGiven ==
  \A p \in Peers, A \in SUBSET Addrs : \A r \in loadRecord(p) :
    Entries(Dirty(r, deleteInPlace(r.addrs, A))) =
      [a \in Addrs |-> IF a \in A THEN NoEntry ELSE Entries(r)[a]]

Abstract == INSTANCE AddrBook WITH
  book <- [p \in Peers |-> Entries(Current(p))], signed <- [p \in Peers |-> Current(p).cert]

\* "a drop-in replacement for pstoremem": the book behaves as every address
\* book promises, through evictions, restarts and garbage collection.
ImplementsAddrBook == Abstract!Spec

Expired(p) == \E i \in DOMAIN store[p].addrs : ExpiredBy(store[p].addrs[i], now)

\* "a GC procedure to purge expired entries": with full purges an expired
\* address leaves the store in the end.  With lookahead it need not: a reader
\* may have cleaned the record in the cache only, and the next visit then finds
\* nothing to write.
ExpiredPurged ==
  \A p \in Peers : (GCLookaheadInterval = 0 /\ Expired(p)) ~> ~Expired(p)
=============================================================================

------------------------- MODULE MemAddrBookProofs --------------------------
(***************************************************************************)
(* The address book in memory keeps its types and implements AddrBook, for *)
(* any peers, addresses, times to live and sequence numbers.               *)
(***************************************************************************)
EXTENDS MemAddrBook, TLAPS

\* Entries made or changed now are as they should be.
LEMMA EntryFacts ==
  ASSUME NEW t \in Nat
  PROVE  /\ EntryOK(NoEntry, t)
         /\ \A ttl \in TTLs \ {0} : EntryOK(NewEntry(ttl, t), t)
         /\ \A ttl \in TTLs \ {0} : \A e : EntryOK(e, t) => EntryOK(Extended(e, ttl, t), t)
         /\ \A e : EntryOK(e, t) => EntryOK(e, t + 1)
<1>1. EntryOK(NoEntry, t)
  BY MemAddrBookAssumption DEF EntryOK, NoEntry, Entry
<1>2. ASSUME NEW ttl \in TTLs \ {0}
      PROVE  EntryOK(NewEntry(ttl, t), t)
  BY <1>2, MemAddrBookAssumption DEF EntryOK, NewEntry, Entry
<1>3. ASSUME NEW ttl \in TTLs \ {0}, NEW e, EntryOK(e, t)
      PROVE  EntryOK(Extended(e, ttl, t), t)
  BY <1>3, MemAddrBookAssumption DEF EntryOK, Extended, Larger, Entry
<1>4. ASSUME NEW e, EntryOK(e, t)
      PROVE  EntryOK(e, t + 1)
  BY <1>4, MemAddrBookAssumption DEF EntryOK, Entry
<1> QED
  BY <1>1, <1>2, <1>3, <1>4

\* The addresses of one peer are replaced.
LEMMA ReplaceType ==
  ASSUME TypeOK, NEW p \in Peers, NEW f \in [Addrs -> Entry],
         \A a \in Addrs : EntryOK(f[a], now)
  PROVE  /\ [addrs EXCEPT ![p] = f] \in [Peers -> [Addrs -> Entry]]
         /\ \A q \in Peers, a \in Addrs : EntryOK([addrs EXCEPT ![p] = f][q][a], now)
         /\ \A q \in Peers \ (mapped \cup {p}) : [addrs EXCEPT ![p] = f][q] = Nothing
BY DEF TypeOK

\* What an operation makes of the addresses of a peer.
AddedTo(p, A, ttl) ==
  [a \in Addrs |-> IF a \in A THEN Extended(addrs[p][a], ttl, now) ELSE addrs[p][a]]
SetTo(p, A, ttl) ==
  [a \in Addrs |-> IF a \notin A THEN addrs[p][a]
                   ELSE IF ttl > 0 THEN NewEntry(ttl, now) ELSE NoEntry]
UpdatedTo(p, oldTTL, newTTL) ==
  [a \in Addrs |-> IF addrs[p][a].ttl # oldTTL THEN addrs[p][a]
                   ELSE IF newTTL > 0 THEN NewEntry(newTTL, now) ELSE NoEntry]

\* What each operation makes of the addresses of a peer are entries of the
\* book.
LEMMA ResultTypes ==
  ASSUME TypeOK, NEW p \in Peers, NEW A \in SUBSET Addrs, NEW ttl \in TTLs, NEW old \in TTLs
  PROVE  /\ ttl > 0 => /\ AddedTo(p, A, ttl) \in [Addrs -> Entry]
                       /\ \A a \in Addrs : EntryOK(AddedTo(p, A, ttl)[a], now)
         /\ SetTo(p, A, ttl) \in [Addrs -> Entry]
         /\ \A a \in Addrs : EntryOK(SetTo(p, A, ttl)[a], now)
         /\ UpdatedTo(p, old, ttl) \in [Addrs -> Entry]
         /\ \A a \in Addrs : EntryOK(UpdatedTo(p, old, ttl)[a], now)
         /\ Survivors(p) \in [Addrs -> Entry]
         /\ \A a \in Addrs : EntryOK(Survivors(p)[a], now)
         /\ Nothing \in [Addrs -> Entry]
         /\ \A a \in Addrs : EntryOK(Nothing[a], now)
<1>1. now \in Nat /\ \A a \in Addrs : EntryOK(addrs[p][a], now)
  BY MemAddrBookAssumption DEF TypeOK
<1>2. ttl \in Nat /\ (ttl > 0 => ttl \in TTLs \ {0})
  BY MemAddrBookAssumption
<1>3. ASSUME NEW a \in Addrs
      PROVE  /\ ttl > 0 => EntryOK(Extended(addrs[p][a], ttl, now), now)
             /\ ttl > 0 => EntryOK(NewEntry(ttl, now), now)
             /\ EntryOK(NoEntry, now) /\ EntryOK(addrs[p][a], now)
  BY <1>1, <1>2, EntryFacts
<1>4. \A e : EntryOK(e, now) => e \in Entry
  BY DEF EntryOK
<1>5. ttl > 0 => \A a \in Addrs : EntryOK(AddedTo(p, A, ttl)[a], now)
  BY <1>3 DEF AddedTo
<1>6. \A a \in Addrs : EntryOK(SetTo(p, A, ttl)[a], now)
  BY <1>3 DEF SetTo
<1>7. \A a \in Addrs : EntryOK(UpdatedTo(p, old, ttl)[a], now)
  BY <1>3 DEF UpdatedTo
<1>8. \A a \in Addrs : EntryOK(Survivors(p)[a], now)
  BY <1>3 DEF Survivors
<1>9. \A a \in Addrs : EntryOK(Nothing[a], now)
  BY <1>3 DEF Nothing
<1> QED
  BY <1>4, <1>5, <1>6, <1>7, <1>8, <1>9 DEF AddedTo, SetTo, UpdatedTo, Survivors, Nothing

\* addAddrsUnlocked in terms of AddedTo.
LEMMA addAddrsType ==
  ASSUME TypeOK, NEW p \in Peers, NEW A \in SUBSET Addrs, NEW ttl \in TTLs,
         addAddrsUnlocked(p, A, ttl), now' = now
  PROVE  /\ addrs' \in [Peers -> [Addrs -> Entry]]
         /\ \A q \in Peers, a \in Addrs : EntryOK(addrs'[q][a], now)
         /\ \A q \in Peers \ mapped' : addrs'[q] = Nothing
         /\ mapped' \subseteq Peers
<1>1. CASE ttl = 0
  BY <1>1 DEF addAddrsUnlocked, TypeOK
<1>2. CASE ttl # 0
  <2>1. mapped' = mapped \cup {p} /\ addrs' = [addrs EXCEPT ![p] = AddedTo(p, A, ttl)]
    BY <1>2 DEF addAddrsUnlocked, AddedTo
  <2>2. ttl > 0
    BY <1>2, MemAddrBookAssumption
  <2>3. AddedTo(p, A, ttl) \in [Addrs -> Entry] /\ \A a \in Addrs : EntryOK(AddedTo(p, A, ttl)[a], now)
    BY <2>2, ResultTypes
  <2>4. mapped \subseteq Peers
    BY DEF TypeOK
  <2> QED
    BY <2>1, <2>3, <2>4, ReplaceType
<1> QED
  BY <1>1, <1>2

\* Every step keeps the types.
LEMMA TypeStep ==
  ASSUME TypeOK, [Next]_vars
  PROVE  TypeOK'
<1>1. now \in Nat /\ MaxTime \in Nat /\ gcTime \in 0..now
  BY MemAddrBookAssumption DEF TypeOK
<1>2. CASE Tick
  <2>1. \A p \in Peers, a \in Addrs : EntryOK(addrs[p][a], now + 1)
    BY <1>1, EntryFacts DEF TypeOK
  <2>2. now + 1 \in 0..MaxTime /\ gcTime \in 0..now + 1
    BY <1>1, <1>2 DEF Tick, TypeOK
  <2>3. /\ now' = now + 1 /\ addrs' = addrs /\ mapped' = mapped /\ gcTime' = gcTime
        /\ signedPeerRecords' = signedPeerRecords /\ gcTodo' = gcTodo
    BY <1>2 DEF Tick
  <2> QED
    BY <2>1, <2>2, <2>3 DEF TypeOK, Nothing
<1>3. CASE StartGC
  BY <1>1, <1>3 DEF StartGC, TypeOK, Nothing
<1>4. ASSUME NEW p \in Peers, gc(p)
      PROVE  TypeOK'
  <2>1. /\ addrs' = [addrs EXCEPT ![p] = Survivors(p)]
        /\ mapped' = IF p \in mapped /\ Survivors(p) = Nothing THEN mapped \ {p} ELSE mapped
        /\ signedPeerRecords' \in [Peers -> Seqs \cup {0}]
        /\ now' = now /\ gcTime' = gcTime /\ gcTodo' \subseteq Peers
    BY <1>4 DEF gc, TypeOK
  <2>2. /\ addrs' \in [Peers -> [Addrs -> Entry]]
        /\ \A q \in Peers, a \in Addrs : EntryOK(addrs'[q][a], now)
        /\ \A q \in Peers \ (mapped \cup {p}) : addrs'[q] = Nothing
    <3>1. Survivors(p) \in [Addrs -> Entry] /\ \A a \in Addrs : EntryOK(Survivors(p)[a], now)
      BY MemAddrBookAssumption, ResultTypes
    <3> QED
      BY <2>1, <3>1, ReplaceType
  <2>3. ~(p \in mapped) => Survivors(p) = Nothing
    BY DEF TypeOK, Survivors, Nothing
  <2>4. addrs'[p] = Survivors(p)
    BY <2>1 DEF TypeOK
  <2>5. \A q \in Peers \ mapped' : addrs'[q] = Nothing
    BY <2>1, <2>2, <2>3, <2>4
  <2> QED
    BY <2>1, <2>2, <2>5 DEF TypeOK, Nothing
<1>5. ASSUME NEW p \in Peers, ClearAddrs(p)
      PROVE  TypeOK'
  <2>1. /\ addrs' = [addrs EXCEPT ![p] = Nothing] /\ mapped' = mapped \ {p}
        /\ signedPeerRecords' \in [Peers -> Seqs \cup {0}]
        /\ now' = now /\ gcTime' = gcTime /\ gcTodo' = gcTodo
    BY <1>5 DEF ClearAddrs, TypeOK
  <2>2. /\ addrs' \in [Peers -> [Addrs -> Entry]]
        /\ \A q \in Peers, a \in Addrs : EntryOK(addrs'[q][a], now)
        /\ \A q \in Peers \ (mapped \cup {p}) : addrs'[q] = Nothing
    <3>1. Nothing \in [Addrs -> Entry] /\ \A a \in Addrs : EntryOK(Nothing[a], now)
      BY MemAddrBookAssumption, ResultTypes
    <3> QED
      BY <2>1, <3>1, ReplaceType
  <2>3. addrs'[p] = Nothing
    BY <2>1 DEF TypeOK
  <2>4. \A q \in Peers \ mapped' : addrs'[q] = Nothing
    BY <2>1, <2>2, <2>3
  <2> QED
    BY <2>1, <2>2, <2>4 DEF TypeOK, Nothing
<1>6. ASSUME NEW p \in Peers, NEW A \in SUBSET Addrs, NEW ttl \in TTLs,
             AddAddrs(p, A, ttl) \/ \E seq \in Seqs : ConsumePeerRecord(p, seq, A, ttl)
      PROVE  TypeOK'
  <2>1. /\ addAddrsUnlocked(p, A, ttl) /\ now' = now
        /\ signedPeerRecords' \in [Peers -> Seqs \cup {0}]
        /\ gcTime' = gcTime /\ gcTodo' = gcTodo
    BY <1>6 DEF AddAddrs, ConsumePeerRecord, TypeOK
  <2>2. /\ addrs' \in [Peers -> [Addrs -> Entry]]
        /\ \A q \in Peers, a \in Addrs : EntryOK(addrs'[q][a], now)
        /\ \A q \in Peers \ mapped' : addrs'[q] = Nothing
        /\ mapped' \subseteq Peers
    BY <2>1, addAddrsType
  <2> QED
    BY <2>1, <2>2 DEF TypeOK, Nothing
<1>7. ASSUME NEW p \in Peers, NEW A \in SUBSET Addrs, NEW ttl \in TTLs, SetAddrs(p, A, ttl)
      PROVE  TypeOK'
  <2>1. /\ addrs' = [addrs EXCEPT ![p] = SetTo(p, A, ttl)] /\ mapped' = mapped \cup {p}
        /\ signedPeerRecords' = signedPeerRecords
        /\ now' = now /\ gcTime' = gcTime /\ gcTodo' = gcTodo
    BY <1>7 DEF SetAddrs, SetTo
  <2>2. /\ addrs' \in [Peers -> [Addrs -> Entry]]
        /\ \A q \in Peers, a \in Addrs : EntryOK(addrs'[q][a], now)
        /\ \A q \in Peers \ (mapped \cup {p}) : addrs'[q] = Nothing
    <3>1. SetTo(p, A, ttl) \in [Addrs -> Entry] /\ \A a \in Addrs : EntryOK(SetTo(p, A, ttl)[a], now)
      BY ResultTypes
    <3> QED
      BY <2>1, <3>1, ReplaceType
  <2> QED
    BY <2>1, <2>2 DEF TypeOK, Nothing
<1>8. ASSUME NEW p \in Peers, NEW old \in TTLs \ {0}, NEW new \in TTLs, UpdateAddrs(p, old, new)
      PROVE  TypeOK'
  <2>1. /\ addrs' = [addrs EXCEPT ![p] = UpdatedTo(p, old, new)] /\ mapped' = mapped
        /\ p \in mapped /\ signedPeerRecords' = signedPeerRecords
        /\ now' = now /\ gcTime' = gcTime /\ gcTodo' = gcTodo
    BY <1>8 DEF UpdateAddrs, UpdatedTo
  <2>2. /\ addrs' \in [Peers -> [Addrs -> Entry]]
        /\ \A q \in Peers, a \in Addrs : EntryOK(addrs'[q][a], now)
        /\ \A q \in Peers \ (mapped \cup {p}) : addrs'[q] = Nothing
    <3>1. UpdatedTo(p, old, new) \in [Addrs -> Entry] /\ \A a \in Addrs : EntryOK(UpdatedTo(p, old, new)[a], now)
      BY ResultTypes
    <3> QED
      BY <2>1, <3>1, ReplaceType
  <2>3. Peers \ (mapped \cup {p}) = Peers \ mapped
    BY <2>1
  <2> QED
    BY <2>1, <2>2, <2>3 DEF TypeOK, Nothing
<1>9. CASE UNCHANGED vars
  BY <1>9 DEF vars, TypeOK, Nothing
<1> QED
  BY <1>2, <1>3, <1>4, <1>5, <1>6, <1>7, <1>8, <1>9 DEF Next

\* Every variable of the address book in memory keeps its type, and a peer
\* without a map has no addresses, for any peers, addresses and times.
THEOREM TypeCorrect == Spec => []TypeOK
<1>1. Init => TypeOK
  <2> SUFFICES ASSUME Init PROVE TypeOK
    OBVIOUS
  <2>1. now = 0 /\ now \in 0..MaxTime
    BY MemAddrBookAssumption DEF Init
  <2>2. EntryOK(NoEntry, now) /\ NoEntry \in Entry
    BY <2>1, EntryFacts DEF EntryOK
  <2> QED
    BY <2>1, <2>2 DEF Init, TypeOK, Nothing
<1>2. TypeOK /\ [Next]_vars => TypeOK'
  BY TypeStep
<1> QED
  BY <1>1, <1>2, PTL DEF Spec

\* What Addrs returns of an entry, and of the addresses of a peer.
Val(e) == IF ExpiredBy(e, now) THEN NoEntry ELSE e
Vals(f) == [a \in Addrs |-> Val(f[a])]
Books == [p \in Peers |-> validAddrs(p)]

\* Replacing the addresses of a peer replaces what Addrs returns of them.
LEMMA BookReplaced ==
  ASSUME TypeOK, NEW p \in Peers, NEW f \in [Addrs -> Entry], now' = now,
         addrs' = [addrs EXCEPT ![p] = f]
  PROVE  Books' = [Books EXCEPT ![p] = Vals(f)]
<1>1. \A q \in Peers : addrs'[q] = IF q = p THEN f ELSE addrs[q]
  BY DEF TypeOK
<1>2. \A q \in Peers : validAddrs(q)' = IF q = p THEN Vals(f) ELSE validAddrs(q)
  BY <1>1 DEF validAddrs, Vals, Val
<1> QED
  BY <1>2 DEF Books

\* The entries an operation makes are those AddrBook makes of what Addrs
\* returned before.
LEMMA ValFacts ==
  ASSUME TypeOK, NEW e, EntryOK(e, now), NEW ttl \in TTLs \ {0}
  PROVE  /\ Val(NoEntry) = NoEntry
         /\ Val(NewEntry(ttl, now)) = NewEntry(ttl, now)
         /\ Val(Extended(e, ttl, now)) \in Abstract!Extensions(Val(e), ttl)
         /\ Val(e) # NoEntry => Val(e) = e
         /\ ExpiredBy(e, gcTime) => Val(e) = NoEntry
<1>1. now \in Nat /\ ttl \in Nat /\ ttl > 0 /\ gcTime \in 0..now
  BY MemAddrBookAssumption DEF TypeOK
<1>2. e.ttl \in TTLs /\ e.ttl \in Nat /\ e.exp \in Nat /\ e = [ttl |-> e.ttl, exp |-> e.exp]
  BY MemAddrBookAssumption DEF EntryOK, Entry
<1>3. Val(NoEntry) = NoEntry /\ Val(NewEntry(ttl, now)) = NewEntry(ttl, now)
  BY <1>1 DEF Val, ExpiredBy, NoEntry, NewEntry
<1>4. Val(Extended(e, ttl, now)) = Extended(e, ttl, now)
  BY <1>1, <1>2 DEF Val, ExpiredBy, Extended, Larger
<1>5. CASE ExpiredBy(e, now)
  <2>1. Val(e) = NoEntry
    BY <1>5 DEF Val
  <2>2. Extended(e, ttl, now) = Abstract!Extended([ttl |-> e.ttl, exp |-> 0], ttl, now)
    BY <1>1, <1>2, <1>5 DEF ExpiredBy, Extended, Larger, Abstract!Extended, Abstract!Larger
  <2>3. [ttl |-> e.ttl, exp |-> 0] \in [ttl : TTLs, exp : {0}]
    BY <1>2
  <2>4. Extended(e, ttl, now) \in Abstract!Extensions(NoEntry, ttl)
    BY <2>2, <2>3 DEF Abstract!Extensions, Abstract!NoEntry, NoEntry
  <2> QED
    BY <1>3, <1>4, <2>1, <2>4
<1>6. CASE ~ExpiredBy(e, now)
  <2>1. Val(e) = e /\ e # NoEntry
    BY <1>1, <1>2, <1>6 DEF Val, ExpiredBy, NoEntry
  <2>2. ~ExpiredBy(e, gcTime)
    BY <1>1, <1>2, <1>6 DEF ExpiredBy
  <2>3. Extended(e, ttl, now) \in Abstract!Extensions(e, ttl)
    BY <2>1 DEF Abstract!Extensions, Abstract!NoEntry, NoEntry, Extended, Larger, Abstract!Extended, Abstract!Larger
  <2> QED
    BY <1>3, <1>4, <2>1, <2>2, <2>3
<1> QED
  BY <1>5, <1>6

\* No signed record is forgotten.
LEMMA RememberAll ==
  ASSUME NEW s, s = [p \in Peers |-> s[p]], signedPeerRecords' = s
  PROVE  Abstract!Remember(s)
<1>1. {} \in SUBSET {p \in Peers : Books'[p] = Abstract!Nothing}
  OBVIOUS
<1>2. signedPeerRecords' = [p \in Peers |-> IF p \in {} THEN 0 ELSE s[p]]
  OBVIOUS
<1> QED
  BY <1>1, <1>2 DEF Abstract!Remember, Books

\* SetAddrs does what AddrBook says.
LEMMA SetStep ==
  ASSUME TypeOK, NEW p \in Peers, NEW A \in SUBSET Addrs, NEW ttl \in TTLs, SetAddrs(p, A, ttl)
  PROVE  Abstract!SetAddrs(p, A, ttl)
<1> DEFINE f == SetTo(p, A, ttl)
<1>1. now' = now /\ addrs' = [addrs EXCEPT ![p] = f] /\ signedPeerRecords' = signedPeerRecords
  BY DEF SetAddrs, SetTo
<1>2. f \in [Addrs -> Entry]
  BY ResultTypes
<1>3. Books' = [Books EXCEPT ![p] = Vals(f)]
  BY <1>1, <1>2, BookReplaced
<1>4. ASSUME NEW a \in Addrs
      PROVE  Vals(f)[a] = IF a \in A THEN Abstract!New(ttl) ELSE Books[p][a]
  BY MemAddrBookAssumption, ValFacts
     DEF TypeOK, SetTo, Vals, Val, Books, validAddrs, Abstract!New, Abstract!NewEntry, NewEntry,
         Abstract!NoEntry, NoEntry
<1>5. Abstract!Remember(signedPeerRecords)
  BY <1>1, RememberAll DEF TypeOK
<1>6. Books'[p] = [a \in Addrs |-> Vals(f)[a]] /\ Books'[p] = Vals(f)
  BY <1>3 DEF Books, Vals
<1> QED
  BY <1>1, <1>3, <1>4, <1>5, <1>6 DEF Abstract!SetAddrs, Abstract!Change, Books

\* UpdateAddrs does what AddrBook says, which leaves open whether an expired
\* address that is not yet collected is given the new time to live.
LEMMA UpdateStep ==
  ASSUME TypeOK, NEW p \in Peers, NEW old \in TTLs \ {0}, NEW new \in TTLs,
         UpdateAddrs(p, old, new)
  PROVE  Abstract!UpdateAddrs(p, old, new)
<1> DEFINE f == UpdatedTo(p, old, new)
<1>1. now' = now /\ addrs' = [addrs EXCEPT ![p] = f] /\ signedPeerRecords' = signedPeerRecords
  BY DEF UpdateAddrs, UpdatedTo
<1>2. f \in [Addrs -> Entry]
  BY ResultTypes
<1>3. Books' = [Books EXCEPT ![p] = Vals(f)]
  BY <1>1, <1>2, BookReplaced
<1>4. ASSUME NEW a \in Addrs
      PROVE  Vals(f)[a] \in IF Books[p][a] = Abstract!NoEntry
                            THEN {Abstract!NoEntry, Abstract!New(new)}
                            ELSE {IF Books[p][a].ttl = old THEN Abstract!New(new) ELSE Books[p][a]}
  <2> DEFINE e == addrs[p][a]
  <2>1. EntryOK(e, now) /\ Books[p][a] = Val(e)
    BY DEF TypeOK, Books, validAddrs, Val
  <2>2. Abstract!New(new) = IF new > 0 THEN NewEntry(new, now) ELSE NoEntry
    BY DEF Abstract!New, Abstract!NewEntry, NewEntry, Abstract!NoEntry, NoEntry
  <2>3. Val(Abstract!New(new)) = Abstract!New(new)
    BY <2>1, <2>2, MemAddrBookAssumption, ValFacts
  <2>4. Val(e) # NoEntry => Val(e) = e
    BY <2>1, ValFacts
  <2>5. Vals(f)[a] = IF e.ttl = old THEN Abstract!New(new) ELSE Val(e)
    BY <2>2, <2>3 DEF Vals, UpdatedTo
  <2> QED
    BY <2>1, <2>4, <2>5 DEF Abstract!NoEntry, NoEntry
<1>5. Abstract!Remember(signedPeerRecords)
  BY <1>1, RememberAll DEF TypeOK
<1>6. Books'[p] = [a \in Addrs |-> Vals(f)[a]] /\ Books'[p] = Vals(f)
  BY <1>3 DEF Books, Vals
<1> QED
  BY <1>1, <1>3, <1>4, <1>5, <1>6 DEF Abstract!UpdateAddrs, Abstract!Change, Books

\* addAddrsUnlocked extends the addresses as AddrBook says.
LEMMA AddedStep ==
  ASSUME TypeOK, NEW p \in Peers, NEW A \in SUBSET Addrs, NEW ttl \in TTLs,
         addAddrsUnlocked(p, A, ttl), now' = now
  PROVE  Abstract!Added(p, A, ttl)
<1> DEFINE f == IF ttl > 0 THEN AddedTo(p, A, ttl) ELSE addrs[p]
<1>1. addrs' = [addrs EXCEPT ![p] = f] /\ f \in [Addrs -> Entry]
  <2>1. ttl \in Nat /\ addrs \in [Peers -> [Addrs -> Entry]]
    BY MemAddrBookAssumption DEF TypeOK
  <2>2. CASE ttl > 0
    <3>1. AddedTo(p, A, ttl) \in [Addrs -> Entry]
      BY <2>2, ResultTypes
    <3> QED
      BY <2>2, <3>1 DEF addAddrsUnlocked, AddedTo
  <2>3. CASE ~(ttl > 0)
    <3>1. addrs' = addrs
      BY <2>1, <2>3 DEF addAddrsUnlocked
    <3> QED
      BY <2>1, <2>3, <3>1
  <2> QED
    BY <2>2, <2>3
<1>2. Books' = [Books EXCEPT ![p] = Vals(f)]
  BY <1>1, BookReplaced
<1>3. ASSUME NEW a \in Addrs
      PROVE  Vals(f)[a] \in IF a \in A /\ ttl > 0 THEN Abstract!Extensions(Books[p][a], ttl)
                            ELSE {Books[p][a]}
  <2> DEFINE e == addrs[p][a]
  <2>1. EntryOK(e, now) /\ Books[p][a] = Val(e)
    BY DEF TypeOK, Books, validAddrs, Val
  <2>2. ttl > 0 => Val(Extended(e, ttl, now)) \in Abstract!Extensions(Val(e), ttl)
    BY <2>1, MemAddrBookAssumption, ValFacts
  <2>3. Vals(f)[a] = IF a \in A /\ ttl > 0 THEN Val(Extended(e, ttl, now)) ELSE Val(e)
    BY DEF Vals, AddedTo
  <2> QED
    BY <2>1, <2>2, <2>3
<1> HIDE DEF f
<1>4. Books'[p] = [a \in Addrs |-> Vals(f)[a]] /\ Books'[p] = Vals(f)
  BY <1>2 DEF Books, Vals
<1> QED
  BY <1>2, <1>3, <1>4 DEF Abstract!Added, Abstract!Change, Books

\* Garbage collection takes nothing away that Addrs returns, and a signed
\* record only when the peer has no addresses.
LEMMA GCStep ==
  ASSUME TypeOK, NEW p \in Peers, gc(p)
  PROVE  Abstract!Forget
<1> DEFINE f == Survivors(p)
           empty == p \in mapped /\ f = Nothing
<1>1. /\ now' = now /\ addrs' = [addrs EXCEPT ![p] = f]
      /\ signedPeerRecords' = [signedPeerRecords EXCEPT ![p] = IF empty THEN 0 ELSE @]
  BY DEF gc
<1>2. f \in [Addrs -> Entry]
  BY MemAddrBookAssumption, ResultTypes
<1>3. Books' = [Books EXCEPT ![p] = Vals(f)]
  BY <1>1, <1>2, BookReplaced
<1>4. ASSUME NEW a \in Addrs
      PROVE  Vals(f)[a] = Books[p][a]
  <2> DEFINE e == addrs[p][a]
  <2>1. EntryOK(e, now) /\ Books[p][a] = Val(e)
    BY DEF TypeOK, Books, validAddrs, Val
  <2>2. now \in Nat /\ NoEntry.exp = 0
    BY DEF TypeOK, NoEntry
  <2>3. Val(NoEntry) = NoEntry
    BY <2>2 DEF Val, ExpiredBy
  <2>4. ExpiredBy(e, gcTime) => Val(e) = NoEntry
    BY <2>1 DEF Val, ExpiredBy, TypeOK, EntryOK, Entry
  <2> QED
    BY <2>1, <2>3, <2>4 DEF Vals, Survivors
<1>5. Vals(f) = Books[p] /\ Books' = Books
  <2>1. Books[p] = [a \in Addrs |-> Books[p][a]] /\ Books = [q \in Peers |-> Books[q]]
    BY DEF Books, validAddrs
  <2>2. Vals(f) = [a \in Addrs |-> Vals(f)[a]]
    BY DEF Vals
  <2> HIDE DEF f
  <2>3. Vals(f) = Books[p]
    BY ONLY <1>4, <2>1, <2>2
  <2> QED
    BY ONLY <1>3, <2>1, <2>3
<1>6. empty => Books[p] = Abstract!Nothing
  <2>1. now \in Nat /\ NoEntry.exp = 0
    BY DEF TypeOK, NoEntry
  <2>2. Vals(Nothing) = Abstract!Nothing
    BY <2>1 DEF Vals, Val, Nothing, ExpiredBy, Abstract!Nothing, Abstract!NoEntry, NoEntry
  <2> QED
    BY <1>5, <2>2
<1> DEFINE F == IF empty THEN {p} ELSE {}
<1>7. F \in SUBSET {q \in Peers : Books'[q] = Abstract!Nothing}
  BY <1>5, <1>6
<1>8. signedPeerRecords' = [q \in Peers |-> IF q \in F THEN 0 ELSE signedPeerRecords[q]]
  BY <1>1 DEF TypeOK
<1> HIDE DEF F
<1> QED
  BY <1>1, <1>5, <1>7, <1>8 DEF Abstract!Forget, Abstract!Remember, Books

\* Time takes away what expires, and nothing else.
LEMMA TickStep ==
  ASSUME TypeOK, Tick
  PROVE  Abstract!Tick
<1>1. now < MaxTime /\ now' = now + 1 /\ addrs' = addrs /\ signedPeerRecords' = signedPeerRecords
  BY DEF Tick
<1>2. ASSUME NEW p \in Peers, NEW a \in Addrs
      PROVE  validAddrs(p)'[a] = IF Abstract!ExpiredBy(Books[p][a], now + 1)
                                 THEN Abstract!NoEntry ELSE Books[p][a]
  <2> DEFINE e == addrs[p][a]
  <2>1. now \in Nat /\ e.exp \in Nat
    BY DEF TypeOK, EntryOK, Entry
  <2>2. /\ validAddrs(p)'[a] = IF e.exp <= now + 1 THEN NoEntry ELSE e
        /\ Books[p][a] = IF e.exp <= now THEN NoEntry ELSE e
    BY <1>1 DEF validAddrs, Books, ExpiredBy
  <2> QED
    BY <2>1, <2>2 DEF Abstract!ExpiredBy, Abstract!NoEntry, NoEntry
<1>3. Books' = [p \in Peers |-> [a \in Addrs |->
                  IF Abstract!ExpiredBy(Books[p][a], now + 1)
                  THEN Abstract!NoEntry ELSE Books[p][a]]]
  BY <1>2 DEF Books, validAddrs
<1>4. Abstract!Remember(signedPeerRecords)
  BY <1>1, RememberAll DEF TypeOK
<1> QED
  BY <1>1, <1>3, <1>4 DEF Abstract!Tick, Books

\* Adding addresses and taking a signed record.  The record in memory is
\* refused only when a newer one is there, so it is always taken in AddrBook.
LEMMA AddStep ==
  ASSUME TypeOK, NEW p \in Peers, NEW A \in SUBSET Addrs, NEW ttl \in TTLs
  PROVE  /\ AddAddrs(p, A, ttl) => Abstract!AddAddrs(p, A, ttl)
         /\ \A seq \in Seqs :
              ConsumePeerRecord(p, seq, A, ttl) => Abstract!ConsumePeerRecord(p, seq, A, ttl)
<1>1. ASSUME AddAddrs(p, A, ttl)
      PROVE  Abstract!AddAddrs(p, A, ttl)
  <2>1. now' = now /\ addAddrsUnlocked(p, A, ttl) /\ signedPeerRecords' = signedPeerRecords
    BY <1>1 DEF AddAddrs
  <2>2. Abstract!Added(p, A, ttl)
    BY <2>1, AddedStep
  <2>3. Abstract!Remember(signedPeerRecords)
    BY <2>1, RememberAll DEF TypeOK
  <2> QED
    BY <2>1, <2>2, <2>3 DEF Abstract!AddAddrs
<1>2. ASSUME NEW seq \in Seqs, ConsumePeerRecord(p, seq, A, ttl)
      PROVE  Abstract!ConsumePeerRecord(p, seq, A, ttl)
  <2> DEFINE s == [signedPeerRecords EXCEPT ![p] = seq]
  <2>1. now' = now /\ addAddrsUnlocked(p, A, ttl) /\ signedPeerRecords' = s
    BY <1>2 DEF ConsumePeerRecord
  <2>2. signedPeerRecords[p] \in Nat /\ seq \in Nat /\ signedPeerRecords[p] <= seq
    BY <1>2, MemAddrBookAssumption DEF ConsumePeerRecord, TypeOK
  <2>3. Abstract!Added(p, A, ttl)
    BY <2>1, AddedStep
  <2>4. s = [q \in Peers |-> s[q]]
    BY DEF TypeOK
  <2> HIDE DEF s
  <2>5. Abstract!Remember(s)
    BY <2>1, <2>4, RememberAll
  <2>6. seq >= signedPeerRecords[p]
    BY <2>2
  <2> QED
    BY <2>1, <2>3, <2>5, <2>6 DEF Abstract!ConsumePeerRecord, s
<1> QED
  BY <1>1, <1>2

\* ClearAddrs does what AddrBook says.
LEMMA ClearStep ==
  ASSUME TypeOK, NEW p \in Peers, ClearAddrs(p)
  PROVE  Abstract!ClearAddrs(p)
<1> DEFINE s == [signedPeerRecords EXCEPT ![p] = 0]
<1>1. now' = now /\ addrs' = [addrs EXCEPT ![p] = Nothing] /\ signedPeerRecords' = s
  BY DEF ClearAddrs
<1>2. Nothing \in [Addrs -> Entry]
  <2>1. NoEntry \in Entry
    BY DEF NoEntry, Entry
  <2> QED
    BY <2>1 DEF Nothing
<1>3. Books' = [Books EXCEPT ![p] = Vals(Nothing)]
  BY <1>1, <1>2, BookReplaced
<1>4. Vals(Nothing) = Abstract!Nothing
  <2>1. now \in Nat /\ NoEntry.exp = 0
    BY DEF TypeOK, NoEntry
  <2> QED
    BY <2>1 DEF Vals, Val, Nothing, ExpiredBy, Abstract!Nothing, Abstract!NoEntry, NoEntry
<1>5. s = [q \in Peers |-> s[q]]
  BY DEF TypeOK
<1>6. Abstract!Remember(s)
  BY <1>1, <1>5, RememberAll
<1> QED
  BY <1>1, <1>3, <1>4, <1>6 DEF Abstract!ClearAddrs, Books

\* Every step of the book in memory is a step of AddrBook or leaves what
\* Addrs and GetPeerRecord return as it is.
LEMMA StepRefines == TypeOK /\ [Next]_vars => [Abstract!Next]_(Abstract!vars)
<1> SUFFICES ASSUME TypeOK, [Next]_vars
             PROVE  Abstract!Next \/ UNCHANGED Abstract!vars
  BY DEF Abstract!vars
<1>1. CASE Tick
  BY <1>1, TickStep DEF Abstract!Next
<1>2. CASE StartGC \/ UNCHANGED vars
  BY <1>2 DEF StartGC, vars, Abstract!vars, validAddrs
<1>3. ASSUME NEW p \in Peers, gc(p)
      PROVE  Abstract!Next
  BY <1>3, GCStep DEF Abstract!Next
<1>4. ASSUME NEW p \in Peers, ClearAddrs(p)
      PROVE  Abstract!Next
  BY <1>4, ClearStep DEF Abstract!Next
<1>5. ASSUME NEW p \in Peers, NEW A \in SUBSET Addrs, NEW ttl \in TTLs,
             \/ AddAddrs(p, A, ttl) \/ SetAddrs(p, A, ttl)
             \/ \E seq \in Seqs : ConsumePeerRecord(p, seq, A, ttl)
      PROVE  Abstract!Next
  BY <1>5, AddStep, SetStep DEF Abstract!Next
<1>6. ASSUME NEW p \in Peers, NEW old \in TTLs \ {0}, NEW new \in TTLs, UpdateAddrs(p, old, new)
      PROVE  Abstract!Next
  BY <1>6, UpdateStep DEF Abstract!Next
<1> QED
  BY <1>1, <1>2, <1>3, <1>4, <1>5, <1>6 DEF Next

\* The address book in memory implements the address book: whatever the order
\* of calls, clock and garbage collection, Addrs and GetPeerRecord return what
\* AddrBook promises.
THEOREM Implementation == Spec => ImplementsAddrBook
<1>1. Init => Abstract!Init
  <2> SUFFICES ASSUME Init PROVE Abstract!Init
    OBVIOUS
  <2>1. \A p \in Peers : validAddrs(p) = Abstract!Nothing
    BY DEF Init, validAddrs, Nothing, ExpiredBy, NoEntry, Abstract!Nothing, Abstract!NoEntry
  <2> QED
    BY <2>1 DEF Init, Abstract!Init
<1>2. TypeOK /\ [Next]_vars => [Abstract!Next]_(Abstract!vars)
  BY StepRefines
<1> QED
  BY <1>1, <1>2, TypeCorrect, PTL DEF Spec, ImplementsAddrBook, Abstract!Spec
=============================================================================

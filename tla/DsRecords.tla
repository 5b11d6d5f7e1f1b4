----------------------------- MODULE DsRecords ------------------------------
(***************************************************************************)
(* The record the datastore keeps for a peer (pstoreds/addr_book.go): its  *)
(* addresses, soonest expiring first, and the signed record they came      *)
(* with.  Addresses in a record are distinct.                              *)
(***************************************************************************)
EXTENDS AddrEntries, Sequences, FiniteSets, SequencesExt

\* A record as loadRecord makes it for a peer the store does not know.  The
\* store never holds a record without addresses, so this also stands for no
\* record.
NewRecord == [addrs |-> << >>, cert |-> 0, dirty |-> FALSE]

AddrEntry(a, e) == [addr |-> a, ttl |-> e.ttl, exp |-> e.exp]

SortedByExpiry(s) == \A i, j \in DOMAIN s : i < j => s[i].exp <= s[j].exp

\* sort.Slice may return entries of equal expiry in any order.
Sorts(s) == {t \in SetToSeqs(ToSet(s)) : SortedByExpiry(t)}

hasExpiredAddrs(r, t) == r.addrs # << >> /\ ExpiredBy(Head(r.addrs), t)

\* The entries from the first survivor on.
removeExpired(s, t) ==
  LET first == SelectInSeq(s, LAMBDA e : ~ExpiredBy(e, t))
  IN  IF first = 0 THEN << >> ELSE SubSeq(s, first, Len(s))

\* What clean may leave of r at time t.
clean(r, t) ==
  IF ~r.dirty /\ ~hasExpiredAddrs(r, t) THEN {r}
  ELSE {[r EXCEPT !.addrs = removeExpired(s, t)] :
          s \in IF r.dirty THEN Sorts(r.addrs) ELSE {r.addrs}}

\* What clean returns when it leaves c of r.
Chgd(r, c) == r.dirty \/ Len(c.addrs) # Len(r.addrs)

\* flush: what is in the store, and what in memory, when c has been written.
InStore(c)  == IF c.addrs = << >> THEN NewRecord ELSE [c EXCEPT !.dirty = FALSE]
InMemory(c) == [c EXCEPT !.dirty = FALSE]

Known(s, A) == {a \in A : \E i \in DOMAIN s : s[i].addr = a}

\* setAddrs in memory: entries there are changed, new ones appended.
SetEntries(s, A, ttl, t, mode) ==
  [i \in DOMAIN s |->
     IF s[i].addr \notin A THEN s[i]
     ELSE AddrEntry(s[i].addr, IF mode = "override" THEN NewEntry(ttl, t)
                               ELSE Extended(s[i], ttl, t))]
    \o [i \in 1..Cardinality(A \ Known(s, A)) |->
          AddrEntry(SetToSeq(A \ Known(s, A))[i], NewEntry(ttl, t))]

\* UpdateAddrs in memory.
RetimedEntries(s, oldTTL, newTTL, t) ==
  [i \in DOMAIN s |-> IF s[i].ttl # oldTTL THEN s[i]
                      ELSE AddrEntry(s[i].addr, NewEntry(newTTL, t))]


\* deleteInPlace: a deleted entry is overwritten with the last of those that
\* survive so far, which is not looked at again; the loop also visits the
\* entries beyond the survivors, and ends when none survives.
deleteInPlace(s, A) ==
  LET Visit(acc, i) ==
        IF acc.survived = 0 \/ acc.s[i].addr \notin A THEN acc
        ELSE [survived |-> acc.survived - 1,
              s |-> IF acc.survived = 1 THEN acc.s
                    ELSE [acc.s EXCEPT ![i] = acc.s[acc.survived]]]
      end == FoldLeft(Visit, [survived |-> Len(s), s |-> s], [i \in 1..Len(s) |-> i])
  IN  SubSeq(end.s, 1, end.survived)
=============================================================================

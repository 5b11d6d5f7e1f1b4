---------------------------- MODULE AddrEntries -----------------------------
(***************************************************************************)
(* Entries of an address book: a time to live and the time of expiry.      *)
(***************************************************************************)
EXTENDS Integers

Entry == [ttl : Nat, exp : Nat]

\* No entry for an address; real entries have a positive time to live.
NoEntry == [ttl |-> 0, exp |-> 0]

NewEntry(ttl, t) == [ttl |-> ttl, exp |-> t + ttl]

ExpiredBy(e, t) == e.exp <= t

Larger(m, n) == IF m >= n THEN m ELSE n

\* The larger of the times to live and of the expiries.
Extended(e, ttl, t) ==
  [ttl |-> Larger(ttl, e.ttl), exp |-> Larger(t + ttl, e.exp)]
=============================================================================

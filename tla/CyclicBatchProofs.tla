-------------------------- MODULE CyclicBatchProofs -------------------------
(***************************************************************************)
(* The cyclic batch loses no write, for every number of writes and of      *)
(* failures of the datastore.                                              *)
(***************************************************************************)
EXTENDS CyclicBatch, TLAPS

(***************************************************************************)
(* The invariant: writes are in one of two places, in order, and a batch   *)
(* that is closed is empty.                                                *)
(***************************************************************************)
Batches == [open : BOOLEAN, threshold : Int, pending : Int, batch : Seq(Int)]

Held ==
    /\ cb \in Batches
    /\ committed \in Seq(Int) /\ accepted \in Seq(Int)
    /\ ~cb.open => cb.batch = <<>>
    /\ NoWriteLost

\* A change of the batch's writes changes nothing else of it.
LEMMA SetBatch ==
    \A c \in Batches, s \in Seq(Int) :
      LET d == [c EXCEPT !.batch = s] IN d \in Batches /\ d.batch = s /\ d.open = c.open
  BY DEF Batches

\* A change of the count of pending writes leaves the writes.
LEMMA SetPending ==
    \A c \in Batches, n \in Int :
      LET d == [c EXCEPT !.pending = n] IN d \in Batches /\ d.batch = c.batch /\ d.open = c.open
  BY DEF Batches

\* Closing a batch leaves its writes.
LEMMA SetOpen ==
    \A c \in Batches, o \in BOOLEAN :
      LET d == [c EXCEPT !.open = o] IN d \in Batches /\ d.batch = c.batch /\ d.open = o
  BY DEF Batches

\* The batch after a Put that cycle let through.
LEMMA Written ==
    ASSUME NEW c \in Batches, NEW w \in Int
    PROVE  LET d == [c EXCEPT !.pending = @ + 1, !.batch = Append(@, w)]
           IN  d \in Batches /\ d.batch = Append(c.batch, w) /\ d.open = c.open
<1>1. c.pending + 1 \in Int /\ Append(c.batch, w) \in Seq(Int)
  BY DEF Batches
<1>2. PICK d \in Batches :
        d = [c EXCEPT !.pending = c.pending + 1] /\ d.batch = c.batch /\ d.open = c.open
  BY <1>1, SetPending
<1>3. [c EXCEPT !.pending = @ + 1, !.batch = Append(@, w)] = [d EXCEPT !.batch = Append(c.batch, w)]
  BY <1>2
<1> QED
  BY <1>1, <1>2, <1>3, SetBatch

\* The batch after a renewal that failed.
LEMMA NotRenewed ==
    ASSUME NEW c \in Batches
    PROVE  LET d == [c EXCEPT !.batch = <<>>, !.open = FALSE]
           IN  d \in Batches /\ d.batch = <<>> /\ d.open = FALSE
<1>1. PICK d \in Batches : d = [c EXCEPT !.batch = <<>>] /\ d.batch = <<>>
  <2>1. <<>> \in Seq(Int)
    OBVIOUS
  <2> QED
    BY <2>1, SetBatch
<1>2. [c EXCEPT !.batch = <<>>, !.open = FALSE] = [d EXCEPT !.open = FALSE]
  BY <1>1
<1> QED
  BY <1>1, <1>2, SetOpen

\* The batch after a Commit that succeeded.
LEMMA Committed ==
    ASSUME NEW c \in Batches
    PROVE  LET d == [c EXCEPT !.open = FALSE, !.pending = 0, !.batch = <<>>]
           IN  d \in Batches /\ d.batch = <<>> /\ d.open = FALSE
<1>1. PICK d \in Batches : d = [c EXCEPT !.open = FALSE] /\ d.open = FALSE
  BY SetOpen
<1>2. PICK e \in Batches : e = [d EXCEPT !.pending = 0] /\ e.open = FALSE
  <2>1. [d EXCEPT !.pending = 0] \in Batches /\ [d EXCEPT !.pending = 0].open = d.open
    BY ONLY d \in Batches, SetPending
  <2> QED
    BY <1>1, <2>1
<1>3. [c EXCEPT !.open = FALSE, !.pending = 0, !.batch = <<>>] = [e EXCEPT !.batch = <<>>]
  BY <1>1, <1>2
<1>4. LET f == [e EXCEPT !.batch = <<>>]
      IN  f \in Batches /\ f.batch = <<>> /\ f.open = e.open
  <2>1. <<>> \in Seq(Int)
    OBVIOUS
  <2> QED
    BY ONLY e \in Batches, <2>1, SetBatch
<1> QED
  BY ONLY <1>2, <1>3, <1>4, Zenon

\* The empty batch has lost nothing.
LEMMA HeldInit == BatchInit => Held
<1> SUFFICES ASSUME BatchInit PROVE Held
  OBVIOUS
<1>1. <<>> \in Seq(Int) /\ <<>> \o <<>> = <<>>
  OBVIOUS
<1> QED
  BY <1>1 DEF BatchInit, newCyclicBatch, Held, NoWriteLost, Batches

\* What cycle returns: all that was in the batch is flushed, or is still there.
LEMMA CycleKeeps ==
    ASSUME Held, cb.open, NEW r \in cycle
    PROVE  /\ r.cb \in Batches
           /\ r.flushed \in Seq(Int) /\ r.ok \in BOOLEAN
           /\ \/ r.flushed = <<>> /\ r.cb.batch = cb.batch /\ r.cb.open
              \/ r.flushed = cb.batch /\ r.cb.batch = <<>> /\ (r.ok => r.cb.open)
<1>1. <<>> \in Seq(Int) /\ cb \in Batches /\ cb.batch \in Seq(Int)
  BY DEF Held, Batches
<1>2. CASE r = [cb |-> cb, flushed |-> <<>>, ok |-> TRUE, fails |-> FALSE]
  BY <1>1, <1>2
<1>3. CASE r = [cb |-> cb, flushed |-> <<>>, ok |-> FALSE, fails |-> TRUE]
  BY <1>1, <1>3
<1>4. CASE r = [cb |-> [cb EXCEPT !.batch = <<>>], flushed |-> cb.batch,
                ok |-> TRUE, fails |-> FALSE]
  <2>1. r.cb = [cb EXCEPT !.batch = <<>>] /\ r.flushed = cb.batch /\ r.ok = TRUE
    BY <1>4
  <2> QED
    BY <1>1, <2>1, SetBatch
<1>5. CASE r = [cb |-> [cb EXCEPT !.batch = <<>>, !.open = FALSE], flushed |-> cb.batch,
                ok |-> FALSE, fails |-> TRUE]
  <2>1. r.cb = [cb EXCEPT !.batch = <<>>, !.open = FALSE] /\ r.flushed = cb.batch /\ r.ok = FALSE
    BY <1>5
  <2> QED
    BY <1>1, <2>1, NotRenewed
<1> QED
  BY <1>2, <1>3, <1>4, <1>5 DEF cycle

\* A Put keeps every write, whichever way cycle goes.
LEMMA PutHeld == ASSUME Held, NEW w \in Int, Put(w) PROVE Held'
<1>1. PICK r \in cycle :
        /\ committed' = committed \o r.flushed
        /\ IF r.ok
           THEN /\ cb' = [r.cb EXCEPT !.pending = @ + 1, !.batch = Append(@, w)]
                /\ accepted' = Append(accepted, w)
           ELSE cb' = r.cb /\ UNCHANGED accepted
  BY DEF Put
<1>2. cb.open
  BY DEF Put
<1>3. /\ r.cb \in Batches
      /\ r.flushed \in Seq(Int) /\ r.ok \in BOOLEAN
      /\ \/ r.flushed = <<>> /\ r.cb.batch = cb.batch /\ r.cb.open
         \/ r.flushed = cb.batch /\ r.cb.batch = <<>> /\ (r.ok => r.cb.open)
  BY <1>2, CycleKeeps
<1>4. /\ committed \in Seq(Int) /\ accepted \in Seq(Int) /\ cb.batch \in Seq(Int)
      /\ r.cb.batch \in Seq(Int) /\ committed \o cb.batch = accepted
  BY <1>3 DEF Held, NoWriteLost, Batches
<1>5. /\ committed' = committed \o r.flushed
      /\ committed' \in Seq(Int) /\ Append(r.cb.batch, w) \in Seq(Int)
      /\ (committed \o r.flushed) \o r.cb.batch = accepted
      /\ (committed \o r.flushed) \o Append(r.cb.batch, w) = Append(accepted, w)
  <2>1. committed' = committed \o r.flushed
    BY <1>1
  <2>2. \/ r.flushed = <<>> /\ r.cb.batch = cb.batch
        \/ r.flushed = cb.batch /\ r.cb.batch = <<>>
    BY <1>3
  <2>3. /\ committed \o r.flushed \in Seq(Int) /\ Append(r.cb.batch, w) \in Seq(Int)
        /\ (committed \o r.flushed) \o r.cb.batch = committed \o cb.batch
        /\ (committed \o r.flushed) \o Append(r.cb.batch, w) = Append(committed \o cb.batch, w)
    <3>1. r.flushed \in Seq(Int)
      BY <1>3
    <3> DEFINE C == committed  B == cb.batch  F == r.flushed  L == r.cb.batch
    <3>2. C \in Seq(Int) /\ B \in Seq(Int) /\ F \in Seq(Int) /\ L \in Seq(Int)
      BY <1>4, <3>1
    <3>3. (F = <<>> /\ L = B) \/ (F = B /\ L = <<>>)
      BY <2>2
    <3> HIDE DEF C, B, F, L
    <3>4. /\ C \o F \in Seq(Int) /\ Append(L, w) \in Seq(Int)
          /\ (C \o F) \o L = C \o B
          /\ (C \o F) \o Append(L, w) = Append(C \o B, w)
      <4>1. CASE F = <<>> /\ L = B
        BY ONLY <3>2, <4>1, w \in Int
      <4>2. CASE F = B /\ L = <<>>
        BY ONLY <3>2, <4>2, w \in Int
      <4> QED
        BY <3>3, <4>1, <4>2
    <3> QED
      BY <3>4 DEF C, B, F, L
  <2> QED
    BY ONLY <1>4, <2>1, <2>3
<1>6. CASE r.ok
  <2>1. /\ cb' \in Batches /\ cb'.batch = Append(r.cb.batch, w) /\ cb'.open
        /\ accepted' = Append(accepted, w) /\ accepted' \in Seq(Int)
    <3>1. cb' = [r.cb EXCEPT !.pending = @ + 1, !.batch = Append(@, w)]
      BY <1>1, <1>6
    <3>2. cb' \in Batches /\ cb'.batch = Append(r.cb.batch, w) /\ cb'.open = r.cb.open
      BY <1>3, <3>1, Written
    <3>3. accepted' = Append(accepted, w)
      BY <1>1, <1>6
    <3> QED
      BY ONLY <1>3, <1>4, <1>6, <3>2, <3>3
  <2> QED
    BY ONLY <1>5, <2>1 DEF Held, NoWriteLost
<1>7. CASE ~r.ok
  <2>1. cb' = r.cb /\ accepted' = accepted
    BY <1>1, <1>7
  <2> QED
    BY ONLY <1>3, <1>4, <1>5, <2>1 DEF Held, NoWriteLost
<1> QED
  BY <1>6, <1>7

\* A Commit that succeeds empties the batch into the datastore, and one that
\* fails changes nothing.
LEMMA CommitHeld == ASSUME Held, Commit PROVE Held'
<1>1. /\ committed \in Seq(Int) /\ accepted \in Seq(Int) /\ cb.batch \in Seq(Int)
      /\ cb \in Batches /\ committed \o cb.batch = accepted
  BY DEF Held, NoWriteLost, Batches
<1>2. CASE /\ committed' = committed \o cb.batch
           /\ cb' = [cb EXCEPT !.open = FALSE, !.pending = 0, !.batch = <<>>]
           /\ accepted' = accepted
  <2>1. cb' \in Batches /\ cb'.batch = <<>>
    BY <1>1, <1>2, Committed
  <2>2. committed' = accepted /\ accepted' = accepted
    BY <1>1, <1>2
  <2>3. accepted \o <<>> = accepted
    BY <1>1
  <2> QED
    BY ONLY <1>1, <2>1, <2>2, <2>3 DEF Held, NoWriteLost
<1>3. CASE UNCHANGED <<cb, committed, accepted>>
  BY <1>3 DEF Held, NoWriteLost
<1> QED
  BY <1>2, <1>3 DEF Commit

\* Every step keeps every write.
LEMMA HeldStep == ASSUME Held, [BatchNext]_batchVars PROVE Held'
<1>1. CASE Commit
  BY <1>1, CommitHeld
<1>2. ASSUME NEW w \in Int, Put(w) PROVE Held'
  BY <1>2, PutHeld
<1>3. ASSUME NEW w \in Int, Delete(w) PROVE Held'
  BY <1>2, <1>3 DEF Delete
<1>4. CASE UNCHANGED batchVars
  BY <1>4 DEF batchVars, Held, NoWriteLost
<1>5. Len(accepted) + 1 \in Int
  BY DEF Held
<1> QED
  BY <1>1, <1>2, <1>3, <1>4, <1>5 DEF BatchNext

\* A write that Put or Delete accepted is in the datastore or in the batch, in
\* the order of the calls, whatever fails in cycle or Commit, and a batch that
\* Commit or a failed renewal has closed holds nothing back.
THEOREM WritesKeptTheorem == BatchSpec => []WritesKept
<1>1. Held => NoWriteLost
  BY DEF Held
<1>2. Held => ClosedIsWritten
  <2>1. committed \in Seq(Int) => committed \o <<>> = committed
    OBVIOUS
  <2> QED
    BY <2>1 DEF Held, ClosedIsWritten, NoWriteLost
<1>3. Held => WritesKept
  BY <1>1, <1>2 DEF WritesKept
<1> QED
  BY <1>3, HeldInit, HeldStep, PTL DEF BatchSpec
=============================================================================

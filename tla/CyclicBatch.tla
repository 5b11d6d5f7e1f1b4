----------------------------- MODULE CyclicBatch ----------------------------
(***************************************************************************)
(* The batch the datastore address book writes through                     *)
(* (src/pkg/engine/transport/pstoreds/cyclic_batch.go): it buffers writes, *)
(* commits and renews its batch once `threshold` of them are pending, and  *)
(* is closed by Commit.  newCyclicBatch leaves the threshold it is given   *)
(* out of the batch it makes, so that the threshold is zero and every      *)
(* write after the first commits the one before it; `pending` is only      *)
(* reset by Commit.  A batch of the datastore is written whole or not.     *)
(***************************************************************************)
EXTENDS Integers, Sequences

CONSTANTS
    Given,      \* the threshold newCyclicBatch is called with
    MaxWrites,  \* bound on the writes asked for
    MaxFailures \* bound on the calls of the datastore that fail

VARIABLES cb, committed, accepted, failures

batchVars == <<cb, committed, accepted, failures>>

newCyclicBatch(given) == [open |-> TRUE, threshold |-> 0, pending |-> 0, batch |-> <<>>]

BatchInit ==
    /\ cb = newCyclicBatch(Given)
    /\ committed = <<>>   \* the writes the datastore has
    /\ accepted = <<>>    \* the writes Put and Delete returned no error for
    /\ failures = 0

Failure == failures < MaxFailures /\ failures' = failures + 1

(***************************************************************************)
(* What cycle leaves: the batch, what it committed, and whether the write  *)
(* that called it may go on.  A commit may fail, and so may the renewal,   *)
(* which leaves no batch.                                                  *)
(***************************************************************************)
cycle_Renew ==
    IF cb.pending < cb.threshold
    THEN {[cb |-> cb, flushed |-> <<>>, ok |-> TRUE, fails |-> FALSE]}
    ELSE {[cb |-> [cb EXCEPT !.batch = <<>>], flushed |-> <<>>, ok |-> TRUE, fails |-> FALSE],
          [cb |-> [cb EXCEPT !.batch = <<>>, !.open = FALSE], flushed |-> cb.batch,
           ok |-> FALSE, fails |-> TRUE]}

cycle ==
    IF cb.pending < cb.threshold
    THEN {[cb |-> cb, flushed |-> <<>>, ok |-> TRUE, fails |-> FALSE]}
    ELSE {[cb |-> [cb EXCEPT !.batch = <<>>], flushed |-> cb.batch, ok |-> TRUE, fails |-> FALSE],
          [cb |-> cb, flushed |-> <<>>, ok |-> FALSE, fails |-> TRUE],
          [cb |-> [cb EXCEPT !.batch = <<>>, !.open = FALSE], flushed |-> cb.batch,
           ok |-> FALSE, fails |-> TRUE]}

(* Put, or Delete, of the next write. *)
Put(w) ==
    /\ cb.open
    /\ \E r \in cycle :
          /\ committed' = committed \o r.flushed
          /\ IF r.ok
             THEN /\ cb' = [r.cb EXCEPT !.pending = @ + 1, !.batch = Append(@, w)]
                  /\ accepted' = Append(accepted, w)
             ELSE cb' = r.cb /\ UNCHANGED accepted
          /\ IF r.fails THEN Failure ELSE UNCHANGED failures

Delete(w) == Put(-w)

Commit ==
    /\ cb.open
    /\ \/ /\ committed' = committed \o cb.batch
          /\ cb' = [cb EXCEPT !.open = FALSE, !.pending = 0, !.batch = <<>>]
          /\ UNCHANGED failures
       \/ Failure /\ UNCHANGED <<cb, committed>>
    /\ UNCHANGED accepted

BatchNext ==
    \/ Commit
    \/ /\ Len(accepted) < MaxWrites
       /\ LET w == Len(accepted) + 1 IN Put(w) \/ Delete(w)

BatchSpec == BatchInit /\ [][BatchNext]_batchVars
-----------------------------------------------------------------------------
(***************************************************************************)
(* Whatever call of the datastore fails, in cycle or in Commit: a write    *)
(* that was accepted is in the datastore or still in the batch, in the     *)
(* order it was given; and a closed batch, by Commit or by a renewal that  *)
(* failed, holds none back.                                                *)
(***************************************************************************)
NoWriteLost == committed \o cb.batch = accepted
ClosedIsWritten == ~cb.open => committed = accepted

WritesKept == NoWriteLost /\ ClosedIsWritten
=============================================================================

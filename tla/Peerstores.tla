----------------------------- MODULE Peerstores -----------------------------
(***************************************************************************)
(* The peer stores: the address book in memory (MemAddrBook) and the       *)
(* protocols, keys and metadata beside it (MemPeerBooks), the latter in a  *)
(* datastore (DsPeerBooks) and the batch garbage collection writes through *)
(* there (CyclicBatch).  The books of a peer store share no state, and a   *)
(* behaviour is one of the book that is chosen at the start.               *)
(***************************************************************************)
EXTENDS MemAddrBook, MemPeerBooks, CyclicBatch

CONSTANT MaxFaults

VARIABLES part,
          store, busy, faults

dsVars == <<store, busy, faults>>

D == INSTANCE DsPeerBooks WITH
        Peers <- IDs, Protos <- {"x", "y"}, MaxProtos <- 1, Names <- {"protocols", "agent"}

PeerstoresInit ==
  /\ part \in {"addresses", "memory", "datastore", "batch"}
  /\ Init /\ MemBooksInit /\ D!DsBooksInit /\ BatchInit
PeerstoresNext ==
  \/ part = "addresses" /\ Next /\ UNCHANGED <<part, memVars, dsVars, batchVars>>
  \/ part = "memory" /\ MemBooksNext /\ UNCHANGED <<part, vars, dsVars, batchVars>>
  \/ part = "datastore" /\ D!DsBooksNext /\ UNCHANGED <<part, vars, memVars, batchVars>>
  \/ part = "batch" /\ BatchNext /\ UNCHANGED <<part, vars, memVars, dsVars>>
PeerstoresSpec ==
  /\ PeerstoresInit
  /\ [][PeerstoresNext]_<<part, vars, memVars, dsVars, batchVars>>
  /\ WF_vars(part = "addresses" /\ StartGC)
  /\ \A p \in Peers : WF_vars(part = "addresses" /\ gc(p))

-----------------------------------------------------------------------------
\* The operations on the books in a datastore have the effect they are asked
\* for, among those of other callers and with calls that fail.
DsChangesAreWhole == D!DsChangesAreWhole
=============================================================================

----------------------------- MODULE ProtoBook ------------------------------
(***************************************************************************)
(* What a protocol book promises its callers, whatever keeps it: a set of  *)
(* protocols for every peer, changed by whole operations, and no set ever  *)
(* larger than the book was told to keep.                                  *)
(***************************************************************************)
EXTENDS Naturals

CONSTANTS Peers, Protos, MaxProtos,
          Size(_)     \* the number of protocols in a set

VARIABLE book

ProtoBookInit == book = [p \in Peers |-> {}]

SetTo(p, ps) ==
    /\ Size(ps) <= MaxProtos
    /\ book' = [book EXCEPT ![p] = ps]

AddTo(p, ps) ==
    /\ Size(book[p]) + Size(ps) <= MaxProtos
    /\ book' = [book EXCEPT ![p] = @ \cup ps]

TakeFrom(p, ps) == book' = [book EXCEPT ![p] = @ \ ps]

Forget(p) == book' = [book EXCEPT ![p] = {}]

ProtoBookNext ==
    \E p \in Peers :
        \/ Forget(p)
        \/ \E ps \in SUBSET Protos : SetTo(p, ps) \/ AddTo(p, ps) \/ TakeFrom(p, ps)

ProtoBookSpec == ProtoBookInit /\ [][ProtoBookNext]_book
=============================================================================

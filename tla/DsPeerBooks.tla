----------------------------- MODULE DsPeerBooks ----------------------------
(***************************************************************************)
(* The protocol, key and metadata books a datastore keeps                  *)
(* (src/pkg/engine/transport/pstoreds).  A call of the datastore is one    *)
(* step and may fail; the protocols of a peer are a metadata entry, read   *)
(* and written back under the lock of the peer's segment.  Removing a peer *)
(* takes no lock.  An entry is <<kind, peer, name>>; the value of an entry *)
(* that is not a protocol map says nothing here.                           *)
(***************************************************************************)
EXTENDS FiniteSets, Functions, Naturals, SequencesExt

CONSTANTS Callers, Peers, Protos, MaxProtos, Names, InlineKeys, MaxFaults

VARIABLES
    store,   \* the datastore: entry -> value
    busy,    \* what each caller is in the middle of
    faults   \* the calls of the datastore that have failed

dsBookVars == <<store, busy, faults>>

NotAMap == {"not a map"}
Resting == [op |-> "none", p |-> "none", protos |-> {}, todo |-> {}, quiet |-> TRUE]

Protocols(p) == <<"metadata", p, "protocols">>
Pub(p) == <<"keys", p, "pub">>
Priv(p) == <<"keys", p, "priv">>

DsBooksInit == store = <<>> /\ busy = [c \in Callers |-> Resting] /\ faults = 0

Idle(c) == busy[c].op = "none"

Holding == {"add", "remove"}

(* The lock of the segment of p is free: no caller is between Get and Put. *)
Free(p) == \A c \in Callers : ~(busy[c].op \in Holding /\ busy[c].p = p)

(***************************************************************************)
(* `quiet` is no state of the code: nothing that a caller's lock does not  *)
(* keep out was stored or deleted for its peer since it began, and none of *)
(* its own calls of the datastore failed.                                  *)
(***************************************************************************)
Noted(p, locked) ==
    [d \in Callers |->
        IF busy[d].p = p /\ ~(locked /\ busy[d].op \in Holding)
        THEN [busy[d] EXCEPT !.quiet = FALSE] ELSE busy[d]]

Stored(k, v) ==
    store' = [e \in DOMAIN store \cup {k} |-> IF e = k THEN v ELSE store[e]]

Fault == faults < MaxFaults /\ faults' = faults + 1

(* One Put of the datastore, at the end of an operation of c on p. *)
FinalPut(c, p, k, v, locked) ==
    \/ /\ Stored(k, v)
       /\ busy' = [Noted(p, locked) EXCEPT ![c] = Resting]
       /\ UNCHANGED faults
    \/ /\ Fault
       /\ busy' = [busy EXCEPT ![c] = Resting]
       /\ UNCHANGED store

(***************************************************************************)
(* The metadata: Put and Get of one entry.  The books' own entry is one of *)
(* the names a caller of Put may use.                                      *)
(***************************************************************************)
Put(c, p, name) ==
    /\ Idle(c)
    /\ FinalPut(c, p, <<"metadata", p, name>>,
                IF name = "protocols" THEN NotAMap ELSE {}, FALSE)

getProtocolMap(p) ==
    IF Protocols(p) \in DOMAIN store THEN store[Protocols(p)] ELSE {}

(***************************************************************************)
(* The protocol book.                                                      *)
(***************************************************************************)
SetProtocols(c, p, ps) ==
    /\ Idle(c)
    /\ Cardinality(ps) <= MaxProtos
    /\ Free(p)
    /\ FinalPut(c, p, Protocols(p), ps, TRUE)

Holds(c, op, p, ps) ==
    busy' = [busy EXCEPT ![c] = [Resting EXCEPT !.op = op, !.p = p, !.protos = ps,
                                                !.todo = getProtocolMap(p)]]

AddProtocols_NoLock(c, p, ps) ==
    /\ Idle(c)
    /\ getProtocolMap(p) # NotAMap
    /\ Cardinality(getProtocolMap(p)) + Cardinality(ps) <= MaxProtos
    /\ Holds(c, "add", p, ps)
    /\ UNCHANGED <<store, faults>>

AddProtocols(c, p, ps) ==
    /\ Idle(c)
    /\ Free(p)
    /\ getProtocolMap(p) # NotAMap
    /\ Cardinality(getProtocolMap(p)) + Cardinality(ps) <= MaxProtos
    /\ Holds(c, "add", p, ps)
    /\ UNCHANGED <<store, faults>>

AddProtocols_Put(c) ==
    /\ busy[c].op = "add"
    /\ FinalPut(c, busy[c].p, Protocols(busy[c].p), busy[c].todo \cup busy[c].protos, TRUE)

RemoveProtocols(c, p, ps) ==
    /\ Idle(c)
    /\ Free(p)
    /\ getProtocolMap(p) \notin {NotAMap, {}}
    /\ Holds(c, "remove", p, ps)
    /\ UNCHANGED <<store, faults>>

RemoveProtocols_Put(c) ==
    /\ busy[c].op = "remove"
    /\ FinalPut(c, busy[c].p, Protocols(busy[c].p), busy[c].todo \ busy[c].protos, TRUE)

(***************************************************************************)
(* The key book.  A public key that is not stored is taken from the ID and *)
(* stored.  AddPrivKey reports success although its Put has failed.        *)
(***************************************************************************)
PubKey(c, p) ==
    /\ Idle(c)
    /\ Pub(p) \notin DOMAIN store
    /\ p \in InlineKeys
    /\ busy' = [busy EXCEPT ![c] = [Resting EXCEPT !.op = "pub", !.p = p]]
    /\ UNCHANGED <<store, faults>>

PubKey_Put(c) ==
    /\ busy[c].op = "pub"
    /\ FinalPut(c, busy[c].p, Pub(busy[c].p), {}, FALSE)

AddPubKey(c, p, key) == Idle(c) /\ key = p /\ FinalPut(c, p, Pub(p), {}, FALSE)

AddPrivKey(c, p, key) == Idle(c) /\ key = p /\ FinalPut(c, p, Priv(p), {}, FALSE)

uniquePeerIds(prefix) == {e[2] : e \in {e \in DOMAIN store : e[1] = prefix}}

PeersWithKeys == uniquePeerIds("keys")

(***************************************************************************)
(* RemovePeer of the peer store: the private and the public key, then the  *)
(* metadata twice, for the protocol book and for the metadata itself.  The *)
(* metadata entries are listed first and deleted one by one; an error is   *)
(* ignored, and one of the listing ends that round.                        *)
(***************************************************************************)
Delete(c, k, after) ==
    \/ /\ store' = Restrict(store, DOMAIN store \ {k})
       /\ busy' = [Noted(k[2], FALSE) EXCEPT ![c] = after]
       /\ UNCHANGED faults
    \/ /\ Fault
       /\ busy' = [busy EXCEPT ![c] = [after EXCEPT !.quiet = FALSE]]
       /\ UNCHANGED store

RemovePeer(c, p) ==
    /\ Idle(c)
    /\ Delete(c, Priv(p), [Resting EXCEPT !.op = "delete pub", !.p = p])

RemovePeer_Pub(c) ==
    /\ busy[c].op = "delete pub"
    /\ Delete(c, Pub(busy[c].p), [busy[c] EXCEPT !.op = "list"])

(* What follows a round over the metadata entries. *)
NextRound(b) == CASE b.op \in {"list", "delete"} -> [b EXCEPT !.op = "list again"]
                  [] OTHER -> Resting

RemovePeer_List(c) ==
    /\ busy[c].op \in {"list", "list again"}
    /\ \/ LET found == {e \in DOMAIN store : e[1] = "metadata" /\ e[2] = busy[c].p}
              then == IF busy[c].op = "list" THEN "delete" ELSE "delete again"
          IN  /\ busy' = [busy EXCEPT ![c] = IF found = {} THEN NextRound(@)
                                             ELSE [@ EXCEPT !.op = then, !.todo = found]]
              /\ UNCHANGED faults
       \/ /\ Fault
          /\ busy' = [busy EXCEPT ![c] = NextRound([@ EXCEPT !.quiet = FALSE])]
    /\ UNCHANGED store

RemovePeer_Delete(c) ==
    /\ busy[c].op \in {"delete", "delete again"}
    /\ \E e \in busy[c].todo :
          LET left == [busy[c] EXCEPT !.todo = @ \ {e}]
          IN  Delete(c, e, IF left.todo = {} THEN NextRound(left) ELSE left)

DsBooksNext ==
    \E c \in Callers :
        \/ AddProtocols_Put(c) \/ RemoveProtocols_Put(c) \/ PubKey_Put(c)
        \/ RemovePeer_Pub(c) \/ RemovePeer_List(c) \/ RemovePeer_Delete(c)
        \/ \E p \in Peers :
              \/ PubKey(c, p) \/ RemovePeer(c, p)
              \/ \E key \in Peers : AddPubKey(c, p, key) \/ AddPrivKey(c, p, key)
              \/ \E name \in Names : Put(c, p, name)
              \/ \E ps \in SUBSET Protos :
                    \/ SetProtocols(c, p, ps)
                    \/ AddProtocols(c, p, ps)
                    \/ RemoveProtocols(c, p, ps)

DsBooksSpec == DsBooksInit /\ [][DsBooksNext]_dsBookVars
-----------------------------------------------------------------------------
(***************************************************************************)
(* AddProtocols and RemoveProtocols read the map, change it and write it   *)
(* back.  The lock makes that one change of what is stored: an addition    *)
(* takes nothing away and a removal takes no more than it was asked, as    *)
(* long as the peer was not removed meanwhile, which takes no lock, nor    *)
(* the entry overwritten as metadata.                                      *)
(***************************************************************************)
ChangesAreWhole ==
       \A c \in Callers, p \in Peers, ps \in SUBSET Protos :
           /\ busy[c].op \in Holding /\ busy'[c].op = "none"
           /\ busy[c].p = p /\ busy[c].protos = ps /\ busy[c].quiet
           /\ faults' = faults
           => getProtocolMap(p)' = IF busy[c].op = "add" THEN getProtocolMap(p) \cup ps
                                   ELSE getProtocolMap(p) \ ps

(***************************************************************************)
(* RemovePeer, for all that its deletions interleave with other callers:   *)
(* when it is done, no call of its own has failed and nothing was stored   *)
(* for the peer meanwhile, the datastore has no entry of the peer.         *)
(***************************************************************************)
RemovesThePeer ==
       \A c \in Callers :
           /\ busy[c].op \in {"list again", "delete again"}
           /\ busy'[c].op = "none"
           /\ busy[c].quiet
           /\ faults' = faults
           => \A e \in DOMAIN store' : e[2] # busy[c].p

(***************************************************************************)
(* An operation of several steps, among those of other callers, has the    *)
(* effect it is asked for.                                                 *)
(***************************************************************************)
DsChangesAreWhole == [][ChangesAreWhole /\ RemovesThePeer]_dsBookVars
=============================================================================

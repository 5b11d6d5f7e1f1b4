---------------------------- MODULE MemPeerBooks ----------------------------
(***************************************************************************)
(* The in-memory protocol, key and metadata books of a peer store          *)
(* (src/pkg/engine/transport/pstoremem).  Every book has locks of its own, *)
(* and an operation that takes several of them, or takes one twice, is     *)
(* several steps of its caller here.  The key stored for a peer is the one *)
(* its ID matches, so a key book is the set of peers it has a key for; the *)
(* IDs of InlineKeys carry their public key.                               *)
(***************************************************************************)
EXTENDS FiniteSets, Functions, Naturals, SequencesExt

CONSTANTS Callers,
          IDs,    \* of the peers
          Protos, MaxProtos, Names, Values, InlineKeys

VARIABLES
    protocols,  \* peer -> its protocols, for the peers with an entry
    interned,   \* the protocols the book keeps one copy of
    pks, sks,   \* the peers with a public, a private key
    metadata,   \* peer -> name -> value
    call        \* what each caller is in the middle of

memVars == <<protocols, interned, pks, sks, metadata, call>>

Resting == [op |-> "none", p |-> "none", protos |-> {}, quiet |-> TRUE]

MemBooksInit ==
    /\ protocols = <<>>
    /\ interned = {}
    /\ pks = {} /\ sks = {}
    /\ metadata = <<>>
    /\ call = [c \in Callers |-> Resting]

Without(f, x) == Restrict(f, DOMAIN f \ {x})

With(f, x, y) == [z \in DOMAIN f \cup {x} |-> IF z = x THEN y ELSE f[z]]

ProtocolsOf(p) == IF p \in DOMAIN protocols THEN protocols[p] ELSE {}

(***************************************************************************)
(* `quiet` is no state of the code: it tells of a removal under way that   *)
(* nothing was stored for its peer meanwhile.                              *)
(***************************************************************************)
Disturb(p) == [d \in Callers |-> IF call[d].p = p THEN [call[d] EXCEPT !.quiet = FALSE]
                                                  ELSE call[d]]

Idle(c) == call[c].op = "none"

Begin(c, op, p, ps) ==
    call' = [call EXCEPT ![c] = [op |-> op, p |-> p, protos |-> ps, quiet |-> TRUE]]

(***************************************************************************)
(* The protocol book.  A set of protocols is interned before the segment   *)
(* of the peer is locked and stored after it.                              *)
(***************************************************************************)
internProtocol(ps) == interned' = interned \cup ps

SetProtocols(c, p, ps) ==
    /\ Idle(c)
    /\ Cardinality(ps) <= MaxProtos
    /\ internProtocol(ps)
    /\ Begin(c, "set", p, ps)
    /\ UNCHANGED <<protocols, pks, sks, metadata>>

SetProtocols_Store(c) ==
    /\ call[c].op = "set"
    /\ protocols' = With(protocols, call[c].p, call[c].protos)
    /\ call' = [Disturb(call[c].p) EXCEPT ![c] = Resting]
    /\ UNCHANGED <<interned, pks, sks, metadata>>

(***************************************************************************)
(* A refused addition leaves the entry it made, with no protocol in it.    *)
(***************************************************************************)
AddProtocols_NewOnly(c, p, ps) ==
    /\ Idle(c)
    /\ IF Cardinality(ps) <= MaxProtos
       THEN /\ protocols' = With(protocols, p, ProtocolsOf(p) \cup ps)
            /\ internProtocol(ps)
       ELSE /\ protocols' = With(protocols, p, ProtocolsOf(p))
            /\ UNCHANGED interned
    /\ call' = Disturb(p)
    /\ UNCHANGED <<pks, sks, metadata>>

AddProtocols(c, p, ps) ==
    /\ Idle(c)
    /\ IF Cardinality(ProtocolsOf(p)) + Cardinality(ps) <= MaxProtos
       THEN /\ protocols' = With(protocols, p, ProtocolsOf(p) \cup ps)
            /\ internProtocol(ps)
       ELSE /\ protocols' = With(protocols, p, ProtocolsOf(p))
            /\ UNCHANGED interned
    /\ call' = Disturb(p)
    /\ UNCHANGED <<pks, sks, metadata>>

RemoveProtocols(c, p, ps) ==
    /\ Idle(c)
    /\ p \in DOMAIN protocols
    /\ protocols' = [protocols EXCEPT ![p] = @ \ ps]
    /\ internProtocol(ps)
    /\ UNCHANGED <<pks, sks, metadata, call>>

(***************************************************************************)
(* The key book.  Asking for a public key looks under the read lock, and   *)
(* takes the write lock to store what the ID itself carries.               *)
(***************************************************************************)
PubKey(c, p) ==
    /\ Idle(c)
    /\ p \notin pks
    /\ p \in InlineKeys
    /\ Begin(c, "pub", p, {})
    /\ UNCHANGED <<protocols, interned, pks, sks, metadata>>

PubKey_Store(c) ==
    /\ call[c].op = "pub"
    /\ pks' = pks \cup {call[c].p}
    /\ call' = [Disturb(call[c].p) EXCEPT ![c] = Resting]
    /\ UNCHANGED <<protocols, interned, sks, metadata>>

AddPubKey(c, p, key) ==
    /\ Idle(c)
    /\ key = p
    /\ pks' = pks \cup {p}
    /\ call' = Disturb(p)
    /\ UNCHANGED <<protocols, interned, sks, metadata>>

AddPrivKey(c, p, key) ==
    /\ Idle(c)
    /\ key = p
    /\ sks' = sks \cup {p}
    /\ call' = Disturb(p)
    /\ UNCHANGED <<protocols, interned, pks, metadata>>

PeersWithKeys == pks \cup {p \in sks : p \notin pks}

(***************************************************************************)
(* The metadata.                                                           *)
(***************************************************************************)
PutMetadata(c, p, name, value) ==
    /\ Idle(c)
    /\ LET m == IF p \in DOMAIN metadata THEN metadata[p] ELSE <<>>
       IN  metadata' = With(metadata, p, With(m, name, value))
    /\ call' = Disturb(p)
    /\ UNCHANGED <<protocols, interned, pks, sks>>

(***************************************************************************)
(* RemovePeer of the peer store: the key book, the protocol book and the   *)
(* metadata in turn, each under its own lock.  The addresses stay.         *)
(***************************************************************************)
RemovePeer_Private(c, p) ==
    /\ Idle(c)
    /\ sks' = sks \ {p}
    /\ pks' = pks
    /\ Begin(c, "remove protocols", p, {})
    /\ UNCHANGED <<protocols, interned, metadata>>

RemovePeer(c, p) ==
    /\ Idle(c)
    /\ sks' = sks \ {p}
    /\ pks' = pks \ {p}
    /\ Begin(c, "remove protocols", p, {})
    /\ UNCHANGED <<protocols, interned, metadata>>

RemovePeer_Protocols(c) ==
    /\ call[c].op = "remove protocols"
    /\ protocols' = Without(protocols, call[c].p)
    /\ call' = [call EXCEPT ![c].op = "remove metadata"]
    /\ UNCHANGED <<interned, pks, sks, metadata>>

RemovePeer_Metadata(c) ==
    /\ call[c].op = "remove metadata"
    /\ metadata' = Without(metadata, call[c].p)
    /\ call' = [call EXCEPT ![c] = Resting]
    /\ UNCHANGED <<protocols, interned, pks, sks>>

MemBooksNext ==
    \E c \in Callers :
        \/ SetProtocols_Store(c) \/ PubKey_Store(c)
        \/ RemovePeer_Protocols(c) \/ RemovePeer_Metadata(c)
        \/ \E p \in IDs :
              \/ PubKey(c, p) \/ RemovePeer(c, p)
              \/ \E key \in IDs : AddPubKey(c, p, key) \/ AddPrivKey(c, p, key)
              \/ \E name \in Names, value \in Values : PutMetadata(c, p, name, value)
              \/ \E ps \in SUBSET Protos :
                    \/ SetProtocols(c, p, ps)
                    \/ AddProtocols(c, p, ps)
                    \/ RemoveProtocols(c, p, ps)

MemBooksSpec == MemBooksInit /\ [][MemBooksNext]_memVars
-----------------------------------------------------------------------------
(***************************************************************************)
(* The type invariant.  A stored protocol is always one the book has       *)
(* interned, which is what keeps one copy of its text (internProtocol).    *)
(***************************************************************************)
MemBooksTypeOK ==
    /\ DOMAIN protocols \subseteq IDs
    /\ \A p \in DOMAIN protocols : protocols[p] \subseteq interned
    /\ interned \subseteq Protos
    /\ pks \subseteq IDs
    /\ sks \subseteq IDs
    /\ DOMAIN metadata \subseteq IDs
    /\ \A c \in Callers : call[c].op = "set" => call[c].protos \subseteq interned

(***************************************************************************)
(* The protocol book the callers of this one may think of: the locks make  *)
(* every operation whole although SetProtocols works outside of them, and  *)
(* the limit on additions counts what is already there.                    *)
(***************************************************************************)
Book == INSTANCE ProtoBook WITH
    Peers <- IDs, book <- [p \in IDs |-> ProtocolsOf(p)], Size <- Cardinality
IsAProtoBook == Book!ProtoBookSpec

(***************************************************************************)
(* RemovePeer, for all that its three steps interleave with other callers: *)
(* when it is done and nothing was stored for the peer meanwhile, no book  *)
(* has the peer any more.  A question for its public key is a store.       *)
(***************************************************************************)
MemRemovesThePeer ==
    [][\A c \in Callers :
           call[c].op = "remove metadata" /\ call'[c].op = "none" /\ call[c].quiet =>
               /\ call[c].p \notin PeersWithKeys'
               /\ call[c].p \notin DOMAIN protocols'
               /\ call[c].p \notin DOMAIN metadata']_memVars

=============================================================================

------------------------- MODULE MemPeerBooksProofs -------------------------
(***************************************************************************)
(* The books in memory intern what they store, are a ProtoBook to their    *)
(* callers, and forget a peer that is removed, for any number of callers,  *)
(* peers and protocols.                                                    *)
(***************************************************************************)
EXTENDS MemPeerBooks, TLAPS

Ops == {"none", "set", "pub", "remove protocols", "remove metadata"}

Calls == [op : Ops, p : IDs \cup {"none"}, protos : SUBSET Protos, quiet : BOOLEAN]

(***************************************************************************)
(* The invariant.  What SetProtocols carries from its check to its store   *)
(* is still interned and within the limit; and a removal that was not      *)
(* disturbed finds what it removed earlier still gone.                     *)
(***************************************************************************)
CallsOK ==
    /\ call \in [Callers -> Calls]
    /\ \A c \in Callers : call[c].op # "none" => call[c].p \in IDs
    /\ \A c \in Callers : call[c].op = "set" => Cardinality(call[c].protos) <= MaxProtos

StillGone ==
    \A c \in Callers :
        call[c].quiet =>
            /\ call[c].op \in {"remove protocols", "remove metadata"} =>
                   call[c].p \notin pks \cup sks
            /\ call[c].op = "remove metadata" => call[c].p \notin DOMAIN protocols

BooksInv == MemBooksTypeOK /\ CallsOK /\ StillGone

\* To disturb a peer's removals changes nothing of a call but its quiet.
LEMMA Disturbed ==
    ASSUME CallsOK, NEW p
    PROVE  /\ Disturb(p) \in [Callers -> Calls]
           /\ \A d \in Callers :
                /\ Disturb(p)[d].op = call[d].op /\ Disturb(p)[d].p = call[d].p
                /\ Disturb(p)[d].protos = call[d].protos
                /\ Disturb(p)[d].quiet = (call[d].quiet /\ call[d].p # p)
<1> SUFFICES ASSUME NEW d \in Callers
             PROVE  /\ Disturb(p)[d] \in Calls
                    /\ Disturb(p)[d].op = call[d].op /\ Disturb(p)[d].p = call[d].p
                    /\ Disturb(p)[d].protos = call[d].protos
                    /\ Disturb(p)[d].quiet = (call[d].quiet /\ call[d].p # p)
  BY DEF Disturb
<1>1. call[d] \in Calls
  BY DEF CallsOK
<1>2. CASE call[d].p = p
  BY <1>1, <1>2 DEF Disturb, Calls
<1>3. CASE call[d].p # p
  BY <1>1, <1>3 DEF Disturb, Calls
<1> QED
  BY <1>2, <1>3

\* A caller at rest.
LEMMA RestingCall == Resting \in Calls /\ Resting.op = "none"
  BY DEF Resting, Calls, Ops

\* The empty books.
LEMMA BooksInvInit == MemBooksInit => BooksInv
<1> SUFFICES ASSUME MemBooksInit PROVE BooksInv
  OBVIOUS
<1>1. DOMAIN protocols = {} /\ DOMAIN metadata = {}
  BY DEF MemBooksInit
<1>2. call = [c \in Callers |-> Resting]
  BY DEF MemBooksInit
<1>3. CallsOK
  BY <1>2, RestingCall DEF CallsOK
<1>4. MemBooksTypeOK
  BY <1>1, <1>2, RestingCall DEF MemBooksInit, MemBooksTypeOK
<1>5. StillGone
  BY <1>1, <1>2, RestingCall DEF StillGone
<1> QED
  BY <1>3, <1>4, <1>5 DEF BooksInv

\* The calls after one of them has begun an operation.
LEMMA Begun ==
    ASSUME CallsOK, NEW c \in Callers, NEW op \in Ops, NEW p \in IDs,
           NEW ps \in SUBSET Protos, Begin(c, op, p, ps)
    PROVE  /\ call' \in [Callers -> Calls]
           /\ call'[c].op = op /\ call'[c].p = p /\ call'[c].protos = ps /\ call'[c].quiet
           /\ \A d \in Callers \ {c} : call'[d] = call[d]
<1>1. [op |-> op, p |-> p, protos |-> ps, quiet |-> TRUE] \in Calls
  BY DEF Calls
<1> QED
  BY <1>1 DEF Begin, CallsOK

\* The calls after one of them has stored something for p and ended.
LEMMA StoredAndEnded ==
    ASSUME CallsOK, NEW c \in Callers, NEW p, call' = [Disturb(p) EXCEPT ![c] = Resting]
    PROVE  /\ call' \in [Callers -> Calls] /\ call'[c].op = "none"
           /\ \A d \in Callers \ {c} : call'[d] = Disturb(p)[d]
  BY Disturbed, RestingCall

\* SetProtocols interns what it will store, and has checked the limit.
LEMMA SetProtocolsInv ==
    ASSUME BooksInv, NEW c \in Callers, NEW p \in IDs, NEW ps \in SUBSET Protos,
           SetProtocols(c, p, ps)
    PROVE  BooksInv'
<1>1. /\ call' \in [Callers -> Calls]
      /\ call'[c].op = "set" /\ call'[c].p = p /\ call'[c].protos = ps
      /\ \A d \in Callers \ {c} : call'[d] = call[d]
  BY Begun DEF SetProtocols, BooksInv, Ops
<1>2. /\ interned' = interned \cup ps /\ Cardinality(ps) <= MaxProtos
      /\ UNCHANGED <<protocols, pks, sks, metadata>>
  BY DEF SetProtocols, internProtocol
<1>3. CallsOK'
  BY <1>1, <1>2 DEF BooksInv, CallsOK
<1>4. MemBooksTypeOK'
  BY <1>1, <1>2 DEF BooksInv, MemBooksTypeOK
<1>5. StillGone'
  BY <1>1, <1>2 DEF BooksInv, StillGone
<1> QED
  BY <1>3, <1>4, <1>5 DEF BooksInv

\* Its store finds its protocols interned.
LEMMA SetProtocolsStoreInv ==
    ASSUME BooksInv, NEW c \in Callers, SetProtocols_Store(c) PROVE BooksInv'
<1> DEFINE p == call[c].p
<1>1. /\ call[c].op = "set" /\ p \in IDs /\ call[c].protos \subseteq interned
      /\ protocols' = With(protocols, p, call[c].protos)
      /\ call' = [Disturb(p) EXCEPT ![c] = Resting]
      /\ UNCHANGED <<interned, pks, sks, metadata>>
  BY DEF SetProtocols_Store, BooksInv, CallsOK, MemBooksTypeOK
<1> HIDE DEF p
<1>2. /\ call' \in [Callers -> Calls] /\ call'[c].op = "none"
      /\ \A d \in Callers \ {c} : call'[d] = Disturb(p)[d]
  BY <1>1, StoredAndEnded DEF BooksInv
<1>3. \A d \in Callers \ {c} :
        /\ call'[d].op = call[d].op /\ call'[d].p = call[d].p
        /\ call'[d].protos = call[d].protos
        /\ call'[d].quiet = (call[d].quiet /\ call[d].p # p)
  BY <1>2, Disturbed DEF BooksInv
<1>4. /\ DOMAIN protocols' = DOMAIN protocols \cup {p} /\ protocols'[p] = call[c].protos
      /\ \A z \in DOMAIN protocols \ {p} : protocols'[z] = protocols[z]
  BY <1>1 DEF With
<1>5. CallsOK'
  BY <1>2, <1>3 DEF BooksInv, CallsOK
<1>6. MemBooksTypeOK'
  <2>1. ASSUME NEW q \in DOMAIN protocols' PROVE q \in IDs /\ protocols'[q] \subseteq interned'
    <3>1. CASE q = p
      BY <1>1, <1>4, <3>1
    <3>2. CASE q # p
      BY <1>1, <1>4, <3>2 DEF BooksInv, MemBooksTypeOK
    <3> QED
      BY <3>1, <3>2
  <2>2. \A d \in Callers : call'[d].op = "set" => call'[d].protos \subseteq interned'
    BY <1>1, <1>2, <1>3 DEF BooksInv, MemBooksTypeOK
  <2> QED
    BY <1>1, <2>1, <2>2 DEF BooksInv, MemBooksTypeOK
<1>7. StillGone'
  <2>1. UNCHANGED <<pks, sks>> /\ DOMAIN protocols' = DOMAIN protocols \cup {p}
    BY <1>1, <1>4
  <2> SUFFICES ASSUME NEW d \in Callers, d # c
               PROVE  call'[d].quiet =>
                        /\ call'[d].op \in {"remove protocols", "remove metadata"} =>
                               call'[d].p \notin pks' \cup sks'
                        /\ call'[d].op = "remove metadata" => call'[d].p \notin DOMAIN protocols'
    BY <1>2 DEF StillGone
  <2> QED
    BY ONLY BooksInv, <1>3, <2>1, d \in Callers, d # c DEF BooksInv, StillGone
<1> QED
  BY <1>5, <1>6, <1>7 DEF BooksInv

\* AddProtocols, whether it is refused or not.
LEMMA AddProtocolsInv ==
    ASSUME BooksInv, NEW c \in Callers, NEW p \in IDs, NEW ps \in SUBSET Protos,
           AddProtocols(c, p, ps)
    PROVE  BooksInv'
<1>1. PICK new :
        /\ protocols' = With(protocols, p, new)
        /\ new \subseteq interned' /\ interned \subseteq interned' /\ interned' \subseteq Protos
        /\ call' = Disturb(p) /\ UNCHANGED <<pks, sks, metadata>>
  <2>1. ProtocolsOf(p) \subseteq interned
    BY DEF BooksInv, MemBooksTypeOK, ProtocolsOf
  <2> QED
    BY <2>1 DEF AddProtocols, internProtocol, BooksInv, MemBooksTypeOK
<1>2. /\ call' \in [Callers -> Calls]
      /\ \A d \in Callers :
           /\ call'[d].op = call[d].op /\ call'[d].p = call[d].p
           /\ call'[d].protos = call[d].protos
           /\ call'[d].quiet = (call[d].quiet /\ call[d].p # p)
  BY <1>1, Disturbed DEF BooksInv
<1>3. /\ DOMAIN protocols' = DOMAIN protocols \cup {p} /\ protocols'[p] = new
      /\ \A z \in DOMAIN protocols \ {p} : protocols'[z] = protocols[z]
  BY <1>1 DEF With
<1>4. CallsOK'
  BY <1>2 DEF BooksInv, CallsOK
<1>5. MemBooksTypeOK'
  <2>1. ASSUME NEW q \in DOMAIN protocols' PROVE q \in IDs /\ protocols'[q] \subseteq interned'
    <3>1. CASE q = p
      BY <1>1, <1>3, <3>1
    <3>2. CASE q # p
      BY <1>1, <1>3, <3>2 DEF BooksInv, MemBooksTypeOK
    <3> QED
      BY <3>1, <3>2
  <2>2. \A d \in Callers : call'[d].op = "set" => call'[d].protos \subseteq interned'
    BY <1>1, <1>2 DEF BooksInv, MemBooksTypeOK
  <2> QED
    BY <1>1, <2>1, <2>2 DEF BooksInv, MemBooksTypeOK
<1>6. StillGone'
  BY <1>1, <1>2, <1>3 DEF BooksInv, StillGone
<1> QED
  BY <1>4, <1>5, <1>6 DEF BooksInv

\* RemoveProtocols keeps the entry of the peer.
LEMMA RemoveProtocolsInv ==
    ASSUME BooksInv, NEW c \in Callers, NEW p \in IDs, NEW ps \in SUBSET Protos,
           RemoveProtocols(c, p, ps)
    PROVE  BooksInv'
<1>1. /\ DOMAIN protocols' = DOMAIN protocols
      /\ \A q \in DOMAIN protocols : protocols'[q] \subseteq protocols[q]
      /\ interned' = interned \cup ps /\ UNCHANGED <<pks, sks, metadata, call>>
  BY DEF RemoveProtocols, internProtocol
<1>2. MemBooksTypeOK'
  BY <1>1 DEF BooksInv, MemBooksTypeOK
<1>3. CallsOK' /\ StillGone'
  BY <1>1 DEF BooksInv, CallsOK, StillGone
<1> QED
  BY <1>2, <1>3 DEF BooksInv

\* A question for a public key before it stores what it found in the ID.
LEMMA PubKeyInv ==
    ASSUME BooksInv, NEW c \in Callers, NEW p \in IDs, PubKey(c, p) PROVE BooksInv'
<1>1. /\ call' \in [Callers -> Calls] /\ call'[c].op = "pub" /\ call'[c].p = p
      /\ \A d \in Callers \ {c} : call'[d] = call[d]
      /\ UNCHANGED <<protocols, interned, pks, sks, metadata>>
  <2>1. "pub" \in Ops /\ {} \in SUBSET Protos /\ Begin(c, "pub", p, {})
    BY DEF Ops, PubKey
  <2> QED
    BY <2>1, Begun DEF PubKey, BooksInv
<1>2. CallsOK'
  BY <1>1 DEF BooksInv, CallsOK
<1>3. MemBooksTypeOK'
  BY <1>1 DEF BooksInv, MemBooksTypeOK
<1>4. StillGone'
  BY <1>1 DEF BooksInv, StillGone
<1> QED
  BY <1>2, <1>3, <1>4 DEF BooksInv

\* A step that stores for p, keys or metadata, and disturbs its removals.
LEMMA StoreInv ==
    ASSUME BooksInv, NEW p \in IDs,
           UNCHANGED <<protocols, interned>>, DOMAIN metadata' \subseteq IDs,
           pks' \subseteq pks \cup {p}, sks' \subseteq sks \cup {p},
           call' \in [Callers -> Calls],
           \A d \in Callers :
             \/ call'[d].op = "none"
             \/ /\ call'[d].op = call[d].op /\ call'[d].p = call[d].p
                /\ call'[d].protos = call[d].protos
                /\ call'[d].quiet = (call[d].quiet /\ call[d].p # p)
    PROVE  BooksInv'
<1>1. CallsOK'
  BY DEF BooksInv, CallsOK
<1>2. MemBooksTypeOK'
  BY DEF BooksInv, MemBooksTypeOK
<1>3. StillGone'
  BY DEF BooksInv, StillGone
<1> QED
  BY <1>1, <1>2, <1>3 DEF BooksInv

\* The store of a public key, by PubKey or AddPubKey, of a private key and of
\* metadata.
LEMMA StoresInv ==
    ASSUME BooksInv, NEW c \in Callers, NEW p \in IDs,
           \/ PubKey_Store(c)
           \/ \E key \in IDs : AddPubKey(c, p, key) \/ AddPrivKey(c, p, key)
           \/ \E name \in Names, value \in Values : PutMetadata(c, p, name, value)
    PROVE  BooksInv'
<1>1. CASE PubKey_Store(c)
  <2> DEFINE q == call[c].p
  <2>1. /\ q \in IDs /\ pks' = pks \cup {q} /\ call' = [Disturb(q) EXCEPT ![c] = Resting]
        /\ UNCHANGED <<protocols, interned, sks, metadata>>
    BY <1>1 DEF PubKey_Store, BooksInv, CallsOK
  <2> HIDE DEF q
  <2>2. /\ call' \in [Callers -> Calls] /\ call'[c].op = "none"
        /\ \A d \in Callers \ {c} : call'[d] = Disturb(q)[d]
    BY <2>1, StoredAndEnded DEF BooksInv
  <2>3. \A d \in Callers \ {c} :
          /\ call'[d].op = call[d].op /\ call'[d].p = call[d].p
          /\ call'[d].protos = call[d].protos
          /\ call'[d].quiet = (call[d].quiet /\ call[d].p # q)
    BY <2>2, Disturbed DEF BooksInv
  <2> QED
    BY <2>1, <2>2, <2>3, StoreInv DEF BooksInv, MemBooksTypeOK
<1>2. CASE \/ \E key \in IDs : AddPubKey(c, p, key) \/ AddPrivKey(c, p, key)
           \/ \E name \in Names, value \in Values : PutMetadata(c, p, name, value)
  <2>1. call' = Disturb(p) /\ UNCHANGED <<protocols, interned>>
    BY <1>2 DEF AddPubKey, AddPrivKey, PutMetadata
  <2>2. pks' \subseteq pks \cup {p} /\ sks' \subseteq sks \cup {p}
    BY <1>2 DEF AddPubKey, AddPrivKey, PutMetadata
  <2>3. DOMAIN metadata' \subseteq DOMAIN metadata \cup {p}
    BY <1>2 DEF AddPubKey, AddPrivKey, PutMetadata, With
  <2>4. /\ call' \in [Callers -> Calls]
        /\ \A d \in Callers :
             /\ call'[d].op = call[d].op /\ call'[d].p = call[d].p
             /\ call'[d].protos = call[d].protos
             /\ call'[d].quiet = (call[d].quiet /\ call[d].p # p)
    BY <2>1, Disturbed DEF BooksInv
  <2>5. DOMAIN metadata' \subseteq IDs
    BY <2>3 DEF BooksInv, MemBooksTypeOK
  <2> QED
    BY <2>1, <2>2, <2>4, <2>5, StoreInv
<1> QED
  BY <1>1, <1>2

\* RemovePeer takes the keys, and what it has taken is gone.
LEMMA RemovePeerInv ==
    ASSUME BooksInv, NEW c \in Callers, NEW p \in IDs, RemovePeer(c, p) PROVE BooksInv'
<1>1. /\ call' \in [Callers -> Calls]
      /\ call'[c].op = "remove protocols" /\ call'[c].p = p
      /\ \A d \in Callers \ {c} : call'[d] = call[d]
  <2>1. "remove protocols" \in Ops /\ {} \in SUBSET Protos /\ Begin(c, "remove protocols", p, {})
    BY DEF Ops, RemovePeer
  <2> QED
    BY <2>1, Begun DEF BooksInv
<1>2. /\ pks' = pks \ {p} /\ sks' = sks \ {p}
      /\ UNCHANGED <<protocols, interned, metadata>>
  BY DEF RemovePeer
<1>3. CallsOK'
  BY <1>1 DEF BooksInv, CallsOK
<1>4. MemBooksTypeOK'
  BY <1>1, <1>2 DEF BooksInv, MemBooksTypeOK
<1>5. StillGone'
  BY <1>1, <1>2 DEF BooksInv, StillGone
<1> QED
  BY <1>3, <1>4, <1>5 DEF BooksInv

\* The removal of the peer from the protocol book.
LEMMA RemovePeerProtocolsInv ==
    ASSUME BooksInv, NEW c \in Callers, RemovePeer_Protocols(c) PROVE BooksInv'
<1>1. /\ call[c] \in Calls /\ call[c].op = "remove protocols" /\ call[c].p \in IDs
      /\ UNCHANGED <<interned, pks, sks, metadata>>
  BY DEF RemovePeer_Protocols, BooksInv, CallsOK
<1>2. /\ call' \in [Callers -> Calls]
      /\ call'[c].op = "remove metadata" /\ call'[c].p = call[c].p
      /\ call'[c].quiet = call[c].quiet
      /\ \A d \in Callers \ {c} : call'[d] = call[d]
  <2>1. [call[c] EXCEPT !.op = "remove metadata"] \in Calls
    BY <1>1 DEF Calls, Ops
  <2>2. call' = [call EXCEPT ![c] = [call[c] EXCEPT !.op = "remove metadata"]]
    BY DEF RemovePeer_Protocols
  <2>3. call'[c] = [call[c] EXCEPT !.op = "remove metadata"]
    BY <2>2 DEF BooksInv, CallsOK
  <2> QED
    BY <1>1, <2>1, <2>2, <2>3 DEF BooksInv, CallsOK, Calls
<1>3. /\ DOMAIN protocols' = DOMAIN protocols \ {call[c].p}
      /\ \A q \in DOMAIN protocols' : protocols'[q] = protocols[q]
  BY DEF RemovePeer_Protocols, Without, Restrict
<1>4. CallsOK'
  BY <1>1, <1>2 DEF BooksInv, CallsOK
<1>5. MemBooksTypeOK'
  BY <1>1, <1>2, <1>3 DEF BooksInv, MemBooksTypeOK
<1>6. StillGone'
  BY <1>1, <1>2, <1>3 DEF BooksInv, StillGone
<1> QED
  BY <1>4, <1>5, <1>6 DEF BooksInv

\* The removal of the metadata, which ends the call.
LEMMA RemovePeerMetadataInv ==
    ASSUME BooksInv, NEW c \in Callers, RemovePeer_Metadata(c) PROVE BooksInv'
<1>1. /\ call' = [call EXCEPT ![c] = Resting]
      /\ DOMAIN metadata' = DOMAIN metadata \ {call[c].p}
      /\ UNCHANGED <<protocols, interned, pks, sks>>
  BY DEF RemovePeer_Metadata, Without, Restrict
<1>2. /\ call' \in [Callers -> Calls] /\ call'[c].op = "none"
      /\ \A d \in Callers \ {c} : call'[d] = call[d]
  BY <1>1, RestingCall DEF BooksInv, CallsOK
<1>3. CallsOK'
  BY <1>2 DEF BooksInv, CallsOK
<1>4. MemBooksTypeOK'
  BY <1>1, <1>2 DEF BooksInv, MemBooksTypeOK
<1>5. StillGone'
  BY <1>1, <1>2 DEF BooksInv, StillGone
<1> QED
  BY <1>3, <1>4, <1>5 DEF BooksInv

\* Every step of every caller keeps the invariant.
LEMMA BooksInvStep == ASSUME BooksInv, [MemBooksNext]_memVars PROVE BooksInv'
<1>1. CASE UNCHANGED memVars
  BY <1>1 DEF memVars, BooksInv, MemBooksTypeOK, CallsOK, StillGone
<1>2. ASSUME NEW c \in Callers,
             \/ SetProtocols_Store(c) \/ PubKey_Store(c)
             \/ RemovePeer_Protocols(c) \/ RemovePeer_Metadata(c)
      PROVE  BooksInv'
  <2>1. PubKey_Store(c) => call[c].p \in IDs
    BY DEF PubKey_Store, BooksInv, CallsOK
  <2> QED
    BY <1>2, <2>1, SetProtocolsStoreInv, StoresInv, RemovePeerProtocolsInv, RemovePeerMetadataInv
<1>3. ASSUME NEW c \in Callers, NEW p \in IDs, PubKey(c, p) \/ RemovePeer(c, p)
      PROVE  BooksInv'
  BY <1>3, PubKeyInv, RemovePeerInv
<1>4. ASSUME NEW c \in Callers, NEW p \in IDs,
             \/ \E key \in IDs : AddPubKey(c, p, key) \/ AddPrivKey(c, p, key)
             \/ \E name \in Names, value \in Values : PutMetadata(c, p, name, value)
      PROVE  BooksInv'
  BY <1>4, StoresInv
<1>5. ASSUME NEW c \in Callers, NEW p \in IDs, NEW ps \in SUBSET Protos,
             SetProtocols(c, p, ps) \/ AddProtocols(c, p, ps) \/ RemoveProtocols(c, p, ps)
      PROVE  BooksInv'
  BY <1>5, SetProtocolsInv, AddProtocolsInv, RemoveProtocolsInv
<1> QED
  BY <1>1, <1>2, <1>3, <1>4, <1>5 DEF MemBooksNext

\* Every protocol the book has stored, or is about to, is interned, and the
\* books know none but the peers they were told of.
THEOREM MemBooksTypeCorrect == MemBooksSpec => []MemBooksTypeOK
<1>1. BooksInv => MemBooksTypeOK
  BY DEF BooksInv
<1> QED
  BY <1>1, BooksInvInit, BooksInvStep, PTL DEF MemBooksSpec

\* Only the last step of a removal ends it.
LEMMA EndsByItself ==
    ASSUME BooksInv, MemBooksNext, NEW c \in Callers,
           call[c].op = "remove metadata", call'[c].op = "none"
    PROVE  RemovePeer_Metadata(c)
<1>1. CallsOK
  BY DEF BooksInv
<1>2. ASSUME NEW p, call' = Disturb(p) PROVE FALSE
  <2>1. call'[c].op = call[c].op
    BY <1>1, <1>2, Disturbed
  <2> QED
    BY <2>1
<1>3. ASSUME NEW d \in Callers, NEW p, call[d].op # "remove metadata",
             call' = [Disturb(p) EXCEPT ![d] = Resting]
      PROVE  FALSE
  <2>1. call'[c] = Disturb(p)[c]
    BY <1>1, <1>3, StoredAndEnded
  <2>2. Disturb(p)[c].op = call[c].op
    BY <1>1, Disturbed
  <2> QED
    BY <2>1, <2>2
<1>4. ASSUME NEW d \in Callers, NEW r, call[d].op # "remove metadata",
             call' = [call EXCEPT ![d] = r]
      PROVE  FALSE
  BY <1>1, <1>4 DEF CallsOK
<1>5. PICK d \in Callers :
        \/ SetProtocols_Store(d) \/ PubKey_Store(d)
        \/ RemovePeer_Protocols(d) \/ RemovePeer_Metadata(d)
        \/ \E p \in IDs :
              \/ PubKey(d, p) \/ RemovePeer(d, p)
              \/ \E key \in IDs : AddPubKey(d, p, key) \/ AddPrivKey(d, p, key)
              \/ \E name \in Names, value \in Values : PutMetadata(d, p, name, value)
              \/ \E ps \in SUBSET Protos :
                    SetProtocols(d, p, ps) \/ AddProtocols(d, p, ps) \/ RemoveProtocols(d, p, ps)
  BY DEF MemBooksNext
<1>6. CASE SetProtocols_Store(d) \/ PubKey_Store(d)
  BY <1>3, <1>6 DEF SetProtocols_Store, PubKey_Store
<1>7. CASE RemovePeer_Protocols(d)
  BY <1>4, <1>7 DEF RemovePeer_Protocols
<1>8. CASE RemovePeer_Metadata(d)
  BY <1>1, <1>8 DEF RemovePeer_Metadata, CallsOK
<1>9. ASSUME NEW p \in IDs, PubKey(d, p) \/ RemovePeer(d, p) PROVE FALSE
  BY <1>4, <1>9 DEF PubKey, RemovePeer, Begin, Idle
<1>10. ASSUME NEW p \in IDs,
              \/ \E key \in IDs : AddPubKey(d, p, key) \/ AddPrivKey(d, p, key)
              \/ \E name \in Names, value \in Values : PutMetadata(d, p, name, value)
       PROVE  FALSE
  BY <1>2, <1>10 DEF AddPubKey, AddPrivKey, PutMetadata
<1>11. ASSUME NEW p \in IDs, NEW ps \in SUBSET Protos,
              SetProtocols(d, p, ps) \/ AddProtocols(d, p, ps) \/ RemoveProtocols(d, p, ps)
       PROVE  FALSE
  <2>1. CASE SetProtocols(d, p, ps)
    BY <1>4, <2>1 DEF SetProtocols, Begin, Idle
  <2>2. CASE AddProtocols(d, p, ps)
    BY <1>2, <2>2 DEF AddProtocols
  <2>3. CASE RemoveProtocols(d, p, ps)
    BY <2>3 DEF RemoveProtocols
  <2> QED
    BY <1>11, <2>1, <2>2, <2>3
<1> QED
  BY <1>5, <1>6, <1>7, <1>8, <1>9, <1>10, <1>11

\* RemovePeer leaves nothing of a peer for which nothing was stored meanwhile,
\* although it takes the locks of the three books one after the other.
THEOREM MemRemovesThePeerTheorem == MemBooksSpec => MemRemovesThePeer
<1>1. ASSUME BooksInv, MemBooksNext, NEW c \in Callers,
             call[c].op = "remove metadata", call'[c].op = "none", call[c].quiet
      PROVE  /\ call[c].p \notin PeersWithKeys'
             /\ call[c].p \notin DOMAIN protocols'
             /\ call[c].p \notin DOMAIN metadata'
  <2>1. RemovePeer_Metadata(c)
    BY <1>1, EndsByItself
  <2>2. /\ DOMAIN metadata' = DOMAIN metadata \ {call[c].p}
        /\ UNCHANGED <<protocols, pks, sks>>
    BY <2>1 DEF RemovePeer_Metadata, Without, Restrict
  <2>3. call[c].p \notin pks \cup sks /\ call[c].p \notin DOMAIN protocols
    BY <1>1 DEF BooksInv, StillGone
  <2> QED
    BY <2>2, <2>3 DEF PeersWithKeys
<1>2. BooksInv /\ [MemBooksNext]_memVars =>
        [\A c \in Callers :
           call[c].op = "remove metadata" /\ call'[c].op = "none" /\ call[c].quiet =>
               /\ call[c].p \notin PeersWithKeys'
               /\ call[c].p \notin DOMAIN protocols'
               /\ call[c].p \notin DOMAIN metadata']_memVars
  BY <1>1
<1> QED
  BY <1>2, BooksInvInit, BooksInvStep, PTL DEF MemBooksSpec, MemRemovesThePeer

\* Every step is one of ProtoBook or changes nothing its callers see: an
\* addition that is refused leaves an entry without protocols, and the store of
\* SetProtocols has its check behind it.
LEMMA BookStep ==
    ASSUME BooksInv, [MemBooksNext]_memVars
    PROVE  [Book!ProtoBookNext]_([p \in IDs |-> ProtocolsOf(p)])
<1> DEFINE book == [p \in IDs |-> ProtocolsOf(p)]
<1>1. CASE protocols' = protocols
  <2>1. book' = book
    BY <1>1 DEF ProtocolsOf
  <2> QED
    BY <2>1
<1>2. ASSUME NEW c \in Callers, SetProtocols_Store(c) PROVE Book!ProtoBookNext
  <2>1. PICK p \in IDs, ps \in SUBSET Protos :
          Cardinality(ps) <= MaxProtos /\ protocols' = With(protocols, p, ps)
    <3>1. /\ call[c].p \in IDs /\ call[c].protos \in SUBSET Protos
          /\ Cardinality(call[c].protos) <= MaxProtos
          /\ protocols' = With(protocols, call[c].p, call[c].protos)
      BY <1>2 DEF SetProtocols_Store, BooksInv, CallsOK, Calls
    <3> QED
      BY ONLY <3>1, Zenon
  <2>2. /\ ProtocolsOf(p)' = ps
        /\ \A q \in IDs \ {p} : ProtocolsOf(q)' = ProtocolsOf(q)
    BY <2>1 DEF ProtocolsOf, With
  <2>3. book' = [book EXCEPT ![p] = ps]
    BY <2>2
  <2>4. Book!SetTo(p, ps)
    BY <2>1, <2>3 DEF Book!SetTo
  <2> QED
    BY <2>4 DEF Book!ProtoBookNext
<1>3. ASSUME NEW c \in Callers, RemovePeer_Protocols(c) PROVE Book!ProtoBookNext
  <2>1. PICK p \in IDs : protocols' = Without(protocols, p)
    BY <1>3 DEF RemovePeer_Protocols, BooksInv, CallsOK
  <2>2. /\ ProtocolsOf(p)' = {}
        /\ \A q \in IDs \ {p} : ProtocolsOf(q)' = ProtocolsOf(q)
    BY <2>1 DEF ProtocolsOf, Without, Restrict
  <2>3. book' = [book EXCEPT ![p] = {}]
    BY <2>2
  <2> QED
    BY <2>1, <2>3 DEF Book!ProtoBookNext, Book!Forget
<1>4. ASSUME NEW c \in Callers, NEW p \in IDs, NEW ps \in SUBSET Protos,
             AddProtocols(c, p, ps)
      PROVE  Book!ProtoBookNext \/ book' = book
  <2>1. CASE ~(Cardinality(ProtocolsOf(p)) + Cardinality(ps) <= MaxProtos)
    <3>1. protocols' = With(protocols, p, ProtocolsOf(p))
      BY <1>4, <2>1 DEF AddProtocols
    <3>2. \A q \in IDs : ProtocolsOf(q)' = ProtocolsOf(q)
      BY <3>1 DEF ProtocolsOf, With
    <3> QED
      BY <3>2
  <2>2. CASE Cardinality(ProtocolsOf(p)) + Cardinality(ps) <= MaxProtos
    <3>1. protocols' = With(protocols, p, ProtocolsOf(p) \cup ps)
      BY <1>4, <2>2 DEF AddProtocols
    <3>2. /\ ProtocolsOf(p)' = ProtocolsOf(p) \cup ps
          /\ \A q \in IDs \ {p} : ProtocolsOf(q)' = ProtocolsOf(q)
      BY <3>1 DEF ProtocolsOf, With
    <3>3. book' = [book EXCEPT ![p] = @ \cup ps]
      BY <3>2
    <3>4. book[p] = ProtocolsOf(p)
      OBVIOUS
    <3>5. Book!AddTo(p, ps)
      BY <2>2, <3>3, <3>4 DEF Book!AddTo
    <3> QED
      BY <3>5 DEF Book!ProtoBookNext
  <2> QED
    BY <2>1, <2>2
<1>5. ASSUME NEW c \in Callers, NEW p \in IDs, NEW ps \in SUBSET Protos,
             RemoveProtocols(c, p, ps)
      PROVE  Book!ProtoBookNext
  <2>1. /\ ProtocolsOf(p)' = ProtocolsOf(p) \ ps
        /\ \A q \in IDs \ {p} : ProtocolsOf(q)' = ProtocolsOf(q)
    BY <1>5 DEF RemoveProtocols, ProtocolsOf
  <2>2. book' = [book EXCEPT ![p] = @ \ ps]
    BY <2>1
  <2> QED
    BY <2>2 DEF Book!ProtoBookNext, Book!TakeFrom
<1>6. ASSUME NEW c \in Callers, NEW p \in IDs,
             \/ PubKey_Store(c) \/ RemovePeer_Metadata(c) \/ PubKey(c, p) \/ RemovePeer(c, p)
             \/ \E key \in IDs : AddPubKey(c, p, key) \/ AddPrivKey(c, p, key)
             \/ \E name \in Names, value \in Values : PutMetadata(c, p, name, value)
             \/ \E ps \in SUBSET Protos : SetProtocols(c, p, ps)
      PROVE  protocols' = protocols
  BY <1>6 DEF PubKey_Store, RemovePeer_Metadata, PubKey, RemovePeer, AddPubKey, AddPrivKey, PutMetadata,
              SetProtocols
<1> QED
  BY <1>1, <1>2, <1>3, <1>4, <1>5, <1>6 DEF MemBooksNext, memVars

\* The protocol book in memory is a ProtoBook to its callers: each operation
\* takes effect at once, and the limit on protocols is kept, although
\* SetProtocols checks it long before it takes the lock.
THEOREM IsAProtoBookTheorem == MemBooksSpec => IsAProtoBook
<1>1. MemBooksInit => Book!ProtoBookInit
  BY DEF MemBooksInit, Book!ProtoBookInit, ProtocolsOf
<1> QED
  BY <1>1, BooksInvInit, BooksInvStep, BookStep, PTL
  DEF MemBooksSpec, IsAProtoBook, Book!ProtoBookSpec
=============================================================================

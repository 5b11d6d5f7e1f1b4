---------------------------- MODULE SessionTable ----------------------------
(***************************************************************************)
(* The tables of a session manager: the nodes it knows, the sessions it    *)
(* has, and the index of sessions by node and hop.  Every method locks the *)
(* manager for its whole length, so each is one step.  A session is the    *)
(* header key that names it; Home gives the node and the hop it is for.    *)
(* Hop CircuitLen marks a session for answers to ourselves.                *)
(***************************************************************************)
EXTENDS Naturals, Sequences, SequencesExt

CONSTANTS Keys,        \* header keys of sessions
          Nodes, Local,
          Home,        \* for each key, [node |-> ..., hop |-> ...]
          CircuitLen,  \* hops of a circuit, 5 in the code
          NoKey        \* an empty place for a session

VARIABLES nodes,       \* the nodes, the manager's own first
          sessions,    \* the sessions in the order they came
          cache,       \* the CircuitCache: for some nodes, a session per hop
          result,      \* what the last selection returned
          halt         \* "" while the manager works
tableVars == <<nodes, sessions, cache, result, halt>>

Hops == 0..(CircuitLen - 1)
HopOf(k) == Home[k].hop
NodeOf(k) == Home[k].node
EmptyCircuit == [h \in Hops |-> NoKey]
Nothing == [op |-> "none"]

ReturnSessions == SetToSeq({k \in Keys : HopOf(k) = CircuitLen})

\* New gives the manager its own node twice: NewSessionManager puts it first,
\* and AddNodes adds it again in front of the others.  It adds the sessions for
\* answers before the engine runs.
TableInit ==
  /\ nodes = <<Local, Local>> \o SetToSeq(Nodes \ {Local})
  /\ sessions = ReturnSessions /\ cache = <<>> /\ result = Nothing /\ halt = ""

-----------------------------------------------------------------------------
(* Adding. *)

CacheAdd(c, k) ==
  LET n == NodeOf(k)
      old == IF n \in DOMAIN c THEN c[n] ELSE EmptyCircuit
  IN  (n :> [old EXCEPT ![HopOf(k)] = k]) @@ c

\* A session whose header key is known is refused.
AddSession(k) ==
  /\ sessions' = IF k \in ToSet(sessions) THEN sessions ELSE Append(sessions, k)
  /\ cache' = IF k \in ToSet(sessions) \/ HopOf(k) = CircuitLen THEN cache
              ELSE CacheAdd(cache, k)
  /\ result' = Nothing /\ UNCHANGED <<nodes, halt>>

AddNodes(n) ==
  /\ n \notin ToSet(nodes)
  /\ nodes' = Append(nodes, n)
  /\ result' = Nothing /\ UNCHANGED <<sessions, cache, halt>>

\* Every node gets an entry, and every session is put in its place again.  A
\* session of an unknown node, or one for answers, has no place: a panic.
UpdateSessionCache ==
  LET all == [n \in ToSet(nodes) \cup DOMAIN cache |->
                IF n \in DOMAIN cache THEN cache[n] ELSE EmptyCircuit]
      fits == \A k \in ToSet(sessions) : NodeOf(k) \in DOMAIN all /\ HopOf(k) \in Hops
  IN  /\ IF fits THEN cache' = FoldLeft(CacheAdd, all, sessions) /\ halt' = halt
         ELSE cache' = all /\ halt' = "panic"
      /\ result' = Nothing /\ UNCHANGED <<nodes, sessions>>

-----------------------------------------------------------------------------
(* Deleting. *)

\* The index of the first place of node n in nodes.
PlaceOf(n) == CHOOSE i \in 1..Len(nodes) : nodes[i] = n /\ \A j \in 1..(i - 1) : nodes[j] # n
WithoutFirst(n) == IF n \in ToSet(nodes) THEN RemoveAt(nodes, PlaceOf(n)) ELSE nodes

\* A session is kept when the list of found places has one that is not its own.
Kept(found) ==
  [i \in 1..Len(sessions) |-> \E j \in found : i # j]
KeptSessions(found) ==
  LET idx == SelectSeq([i \in 1..Len(sessions) |-> i], LAMBDA i : Kept(found)[i])
  IN  [x \in 1..Len(idx) |-> sessions[idx[x]]]

DeleteNodeAndSessions(n) ==
  /\ n \in DOMAIN cache
  /\ cache' = [m \in DOMAIN cache \ {n} |-> cache[m]]
  /\ nodes' = WithoutFirst(n)
  /\ sessions' = KeptSessions({i \in 1..Len(sessions) : NodeOf(sessions[i]) = n})
  /\ result' = [op |-> "deleted", node |-> n] /\ UNCHANGED halt

\* DeleteNodeByID takes a node from the list alone.  DeleteNodeByAddrPort would
\* as well, but compares the form of a multiaddr with that of an address and
\* port, which are never equal: it deletes nothing.
DeleteNodeByID(n) ==
  /\ n \in ToSet(nodes)
  /\ nodes' = WithoutFirst(n)
  /\ result' = Nothing /\ UNCHANGED <<sessions, cache, halt>>
DeleteNodeByAddrPort(n) == result' = [op |-> "notfound", node |-> n] /\ UNCHANGED <<nodes, sessions, cache, halt>>

\* All but the first session are forgotten, and the cache is not told.
ClearSessions ==
  /\ IF sessions = <<>> THEN halt' = "panic" /\ UNCHANGED sessions
     ELSE sessions' = <<Head(sessions)>> /\ UNCHANGED halt
  /\ result' = [op |-> "cleared"] /\ UNCHANGED <<nodes, cache>>

\* Mutant: the place in the cache is left.
DeleteSession_KeepsPlace(k) ==
  /\ k \in ToSet(sessions)
  /\ sessions' = SelectSeq(sessions, LAMBDA x : x # k)
  /\ result' = Nothing /\ UNCHANGED <<nodes, cache, halt>>

\* The slice is shortened while it is being ranged over at its old length: the
\* last index is out of range unless the last session was the one to delete.
\* A session without a place in the cache is a panic as well, before that.
DeleteSession(k) ==
  /\ k \in ToSet(sessions)
  /\ LET i == CHOOSE j \in 1..Len(sessions) : sessions[j] = k
         placed == NodeOf(k) \in DOMAIN cache /\ HopOf(k) \in Hops
     IN  IF placed
         THEN /\ cache' = [cache EXCEPT ![NodeOf(k)][HopOf(k)] = NoKey]
              /\ sessions' = RemoveAt(sessions, i)
              /\ halt' = IF i = Len(sessions) THEN halt ELSE "panic"
         ELSE halt' = "panic" /\ UNCHANGED <<cache, sessions>>
  /\ result' = Nothing /\ UNCHANGED nodes

-----------------------------------------------------------------------------
(* Selecting. *)

StandardCircuit == [i \in 1..(CircuitLen + 1) |-> i - 1]

\* Mutant: takes the first session left, whatever its hop.
Stop_AnyHop(ws, so, i, hop) ==
  LET left == {c \in 1..Len(ws) : ws[c] # NoKey}
      first(S) == CHOOSE c \in S : \A d \in S : c <= d
      as(how) == [how |-> how, at |-> 0]
  IN  CASE left = {} -> as("panic")
        [] left # {} /\ so[i] # NoKey -> as("given")
        [] OTHER -> [how |-> "taken", at |-> first(left)]

\* One round of the loop over hops: the place in ws the cursor stops at, or the
\* way the loop ends when it never does.  The cursor steps over used places
\* without going back to the start, and over others with.
Stop(ws, so, i, hop) ==
  LET left == {c \in 1..Len(ws) : ws[c] # NoKey}
      fit == {c \in left : HopOf(ws[c]) = hop}
      first(S) == CHOOSE c \in S : \A d \in S : c <= d
      as(how) == [how |-> how, at |-> 0]
  IN  CASE left = {} -> as("panic")
        [] left # {} /\ so[i] # NoKey -> as("given")
        [] left # {} /\ so[i] = NoKey /\ fit # {} -> [how |-> "taken", at |-> first(fit)]
        [] OTHER -> as(IF ws[Len(ws)] = NoKey THEN "panic" ELSE "spin")

Selection(hops, have, ws) ==
  LET after[i \in 0..Len(hops)] ==
        IF i = 0 THEN [so |-> have, ws |-> ws, end |-> ""]
        ELSE LET p == after[i - 1]
                 s == Stop(p.ws, p.so, i, hops[i])
             IN  CASE p.end # "" \/ s.how = "given" -> p
                   [] p.end = "" /\ s.how \in {"panic", "spin"} -> [p EXCEPT !.end = s.how]
                   [] OTHER -> [so |-> [p.so EXCEPT ![i] = p.ws[s.at]],
                                ws |-> [p.ws EXCEPT ![s.at] = NoKey], end |-> ""]
  IN  after[Len(hops)]

\* The candidates are shuffled, and each hop takes the first that fits.
SelectHops(hops, have) ==
  LET cands == ToSet(sessions) \ ToSet(have)
  IN  /\ \E ws \in SetToSeqs(cands) :
           LET sel == Selection(hops, have, ws)
           IN  /\ halt' = sel.end
               /\ result' = IF sel.end # "" THEN Nothing
                            ELSE [op |-> "hops", hops |-> hops, have |-> have, so |-> sel.so]
      /\ UNCHANGED <<nodes, sessions, cache>>

\* One pass over the cache in some order: each node visited fills the next hop
\* if its place there is empty and it is in the list.
Pass(c, order, with, list) ==
  FoldLeft(LAMBDA acc, n :
             IF Len(acc) < CircuitLen /\ with[n][Len(acc)] = NoKey /\ n \in list
             THEN Append(acc, n) ELSE acc, c, order)

\* Passes repeat until every hop has a node, for ever if some hop has none.  The
\* nodes listed get an entry in the cache first.
SelectUnusedCircuit ==
  LET list == ToSet(Tail(nodes))
      with == [n \in DOMAIN cache \cup list |->
                 IF n \in DOMAIN cache THEN cache[n] ELSE EmptyCircuit]
      circuits[i \in 0..CircuitLen] ==
        IF i = 0 THEN {<<>>}
        ELSE {Pass(c, order, with, list) : c \in circuits[i - 1], order \in SetToSeqs(DOMAIN with)}
  IN  /\ cache' = with
      /\ IF \A h \in Hops : \E n \in list : with[n][h] = NoKey
         THEN /\ \E c \in circuits[CircuitLen] :
                   result' = [op |-> "circuit", nodes |-> c]
              /\ halt' = halt
         ELSE result' = Nothing /\ halt' = "spin"
      /\ UNCHANGED <<nodes, sessions>>

GetSessionsAtHop(hop) == {k \in ToSet(sessions) : HopOf(k) = hop}

\* BuyNewSessions then takes any session for answers, and needs one.
PickReturn ==
  /\ IF GetSessionsAtHop(CircuitLen) = {} THEN halt' = "panic" /\ result' = Nothing
     ELSE /\ \E k \in GetSessionsAtHop(CircuitLen) : result' = [op |-> "return", key |-> k]
          /\ UNCHANGED halt
  /\ UNCHANGED <<nodes, sessions, cache>>

\* Send goes to the first node, other than the one in front, that a random
\* choice among its addresses matches; a node with several may be passed over.
Send(n) ==
  /\ \E sent \in {x \in {n, NoKey} : x = n => n \in ToSet(Tail(nodes))} :
       result' = [op |-> "sent", to |-> sent]
  /\ UNCHANGED <<nodes, sessions, cache, halt>>

-----------------------------------------------------------------------------
\* The senders choose the session in the middle, the one for the answer, or none.
Given == {have \in [1..(CircuitLen + 1) -> ToSet(sessions) \cup {NoKey}] :
            \A i \in DOMAIN have : have[i] # NoKey =>
              HopOf(have[i]) = i - 1 /\ i \in {CircuitLen \div 2 + 1, CircuitLen + 1}}

TableNext ==
  /\ halt = ""
  /\ \/ \E k \in Keys : AddSession(k) \/ DeleteSession(k)
     \/ \E n \in Nodes \ {Local} : AddNodes(n) \/ DeleteNodeAndSessions(n)
                                   \/ DeleteNodeByID(n) \/ DeleteNodeByAddrPort(n)
     \/ \E n \in Nodes : Send(n)
     \/ UpdateSessionCache \/ ClearSessions \/ PickReturn
     \/ \E have \in Given : SelectHops(StandardCircuit, have)
     \/ SelectUnusedCircuit
TableSpec == TableInit /\ [][TableNext]_tableVars

-----------------------------------------------------------------------------
CacheHeld ==
  \A n \in DOMAIN cache, h \in Hops :
    LET k == cache[n][h]
    IN  k # NoKey => NodeOf(k) = n /\ HopOf(k) = h /\ k \in ToSet(sessions)

\* The index never falls behind: each of its places holds a session of that node
\* and hop that the manager still has.  Two operations break it: ClearSessions,
\* kept for debugging, and deleting a node that has a place in the index and no
\* session, which drops every session of every node and leaves the index of the
\* others.
CacheKeepsUp ==
    (CacheHeld => \/ CacheHeld' \/ result'.op = "cleared"
                  \/ /\ result'.op = "deleted"
                     /\ \A k \in ToSet(sessions) : NodeOf(k) # result'.node)

\* Deleting a node that has one session deletes that session and no other.
DeletesItsSession ==
     LET own == {i \in 1..Len(sessions) : NodeOf(sessions[i]) = result'.node}
     IN  result'.op = "deleted" /\ (\E i \in own : own = {i}) =>
           sessions' = SelectSeq(sessions, LAMBDA k : NodeOf(k) # result'.node)

\* Sessions and index stay in step through every operation of the manager.
TablesKeepUp == [][CacheKeepsUp /\ DeletesItsSession]_tableVars

\* A circuit has for every hop a session bought for that hop, never the same one
\* twice, and keeps the sessions the caller had chosen.
SelectedFit ==
  result.op = "hops" =>
    /\ \A i \in DOMAIN result.hops :
         /\ result.so[i] \in ToSet(sessions) /\ HopOf(result.so[i]) = result.hops[i]
         /\ result.have[i] # NoKey => result.so[i] = result.have[i]
    /\ \A i, j \in DOMAIN result.so : result.so[i] = result.so[j] => i = j

\* New sessions are bought from nodes that have none for that hop, known and
\* not yet deleted.
UnusedIsUnused ==
  result.op = "circuit" =>
    /\ Len(result.nodes) = CircuitLen
    /\ \A h \in Hops : /\ cache[result.nodes[h + 1]][h] = NoKey
                        /\ result.nodes[h + 1] \in ToSet(nodes)

\* Whatever was added, deleted and cleared before, a selection fits.
SelectionsFit == SelectedFit /\ UnusedIsUnused
=============================================================================

-------------------------------- MODULE Node --------------------------------
(***************************************************************************)
(* The parts of a node that keep its tables: the nodes and sessions of the *)
(* client (SessionTable), hidden services (HiddenServices), the local node *)
(* (LocalNode), its connections (Connections) and gossip (Gossip).  They   *)
(* share no state: a behaviour is one of the part that is chosen at the    *)
(* start.                                                                  *)
(***************************************************************************)
EXTENDS Naturals, Sequences

CONSTANTS Keys, Nodes, Local, CircuitLen, NoKey,
          ServiceKeys, MaxListed,
          Callers, Ports, Addresses, ServiceBufs, MaxNodeCalls,
          Streams, Addrs, Messages, ConnBufs, MaxConns,
          Engines, MaxRuns, MaxTime

VARIABLES part,
          nodes, sessions, cache, result, halt,
          hidden, myIntros, announced, mail, crashed,
          services, queue, mgrLock, nodeLock, caller, addresses, local,
          connections, conns, newConns, handler, connCrashed,
          now, engine, inbox, stored

tableVars == <<nodes, sessions, cache, result, halt>>
hidVars == <<hidden, myIntros, announced, mail, crashed>>
localVars == <<services, queue, mgrLock, nodeLock, caller, addresses, local>>
connVars == <<connections, conns, newConns, handler, connCrashed>>
gossipVars == <<now, engine, inbox, stored>>
clientVars == <<tableVars, hidVars, localVars>>
netVars == <<connVars, gossipVars>>

\* A return session, two sessions of one node and hop, and one of another.
MCHome ==
  [r |-> [node |-> "me", hop |-> 2], a0 |-> [node |-> "a", hop |-> 0],
   a0b |-> [node |-> "a", hop |-> 0], b1 |-> [node |-> "b", hop |-> 1]]

\* Two introductions to one service.
MCIntroKey == [i1 |-> "k1", i2 |-> "k1"]

\* An ad that is renewed and one that outlives the run.
MCLifetime == [load |-> 1, peer |-> 2]

T == INSTANCE SessionTable WITH Home <- MCHome
H == INSTANCE HiddenServices WITH
        services <- hidden, IntroKey <- MCIntroKey, Engines <- {"host", "intro"}
N == INSTANCE LocalNode
C == INSTANCE Connections WITH crashed <- connCrashed
G == INSTANCE Gossip WITH Lifetime <- MCLifetime

NodeInit ==
  /\ part \in {"table", "hidden", "local", "connections", "gossip"}
  /\ T!TableInit /\ H!HiddenInit /\ N!NodeInit /\ C!ConnectionsInit
  /\ G!GossipInit

Client ==
  \/ part = "table" /\ T!TableNext /\ UNCHANGED <<hidVars, localVars>>
  \/ part = "hidden" /\ H!HiddenNext /\ UNCHANGED <<tableVars, localVars>>
  \/ part = "local" /\ N!NodeNext /\ UNCHANGED <<tableVars, hidVars>>
Net ==
  \/ part = "connections" /\ C!ConnectionsNext /\ UNCHANGED gossipVars
  \/ part = "gossip" /\ G!GossipNext /\ UNCHANGED connVars
NodeNext ==
  \/ Client /\ UNCHANGED <<part, netVars>>
  \/ Net /\ UNCHANGED <<part, clientVars>>
NodeSpec ==
  /\ NodeInit /\ [][NodeNext]_<<part, clientVars, netVars>>
  /\ WF_localVars(part = "local" /\ N!Goes)

-----------------------------------------------------------------------------
\* The index of sessions never falls behind the sessions, and deleting a node
\* deletes its own session.
TablesKeepUp == T!TablesKeepUp

\* A circuit has for each hop a session bought for it, and none twice; new
\* sessions are bought from nodes that have none for that hop.
SelectionsFit == T!SelectionsFit



\* Every message of a stream is passed on once and in order, over a connection
\* that is known to a caller or will be.
MessagesPassedOn == C!MessagesPassedOn

=============================================================================

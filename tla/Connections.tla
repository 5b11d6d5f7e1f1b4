----------------------------- MODULE Connections ----------------------------
(***************************************************************************)
(* The connections of a Listener (src/pkg/engine/transport/listener.go):   *)
(* every stream that a peer opens has a handler, which reads a message,    *)
(* looks up the connection to the peer's first address, or dials it, and   *)
(* passes the message to whoever accepts the connection.  A look-up, the   *)
(* registration in Dial and the one in AddConn hold the lock one by one.   *)
(* The address of a peer that comes first, and whether a stream to it can  *)
(* be opened, are external.                                                *)
(***************************************************************************)
EXTENDS FiniteSets, Functions, Integers, SequencesExt

CONSTANTS
    Streams,     \* the streams that peers have opened
    Addrs,       \* the addresses a peer is found under
    Messages,    \* how many messages arrive on a stream
    ConnBufs,    \* room of newConns and of a connection's Receiver
    MaxConns     \* bound on the connections dialled

VARIABLES
    connections,  \* address -> connection, for those registered
    conns,        \* the connections made: address, received, closed, known
    newConns,     \* the channel of connections to accept
    handler,      \* what the handler of a stream is doing
    crashed       \* DelConn found no connection

connVars == <<connections, conns, newConns, handler, crashed>>

ConnectionsInit ==
    /\ connections = <<>>
    /\ conns = <<>>
    /\ newConns = <<>>
    /\ handler = [s \in Streams |-> [at |-> "read", addr |-> "none", conn |-> 0,
                                     read |-> 0, failed |-> 0]]
    /\ crashed = FALSE

FindConn(a) == IF a \in DOMAIN connections THEN connections[a] ELSE 0

Registered(a, d) ==
    [b \in DOMAIN connections \cup {a} |-> IF b = a THEN d ELSE connections[b]]

(* `known`: the connection was handed to a caller, of Dial or of Accept. *)
NewConn(a, known) == [addr |-> a, received |-> <<>>, closed |-> FALSE, known |-> known]

(***************************************************************************)
(* Dial registers what it makes in the place of what was there.            *)
(***************************************************************************)
Dial(a, known) ==
    /\ Len(conns) < MaxConns
    /\ conns' = Append(conns, NewConn(a, known))
    /\ connections' = Registered(a, Len(conns) + 1)

(***************************************************************************)
(* handle: read, find or dial, announce and register, pass on.  A message  *)
(* whose sender cannot be dialled is dropped.                              *)
(***************************************************************************)
handle(s, a) ==
    /\ handler[s].at = "read"
    /\ handler[s].read < Messages
    /\ handler' = [handler EXCEPT
                      ![s].read = @ + 1, ![s].addr = a, ![s].conn = FindConn(a),
                      ![s].at = IF FindConn(a) = 0 THEN "dial" ELSE "send"]
    /\ UNCHANGED <<connections, conns, newConns, crashed>>

handle_Dial(s) ==
    /\ handler[s].at = "dial"
    /\ \/ /\ Dial(handler[s].addr, FALSE)
          /\ handler' = [handler EXCEPT ![s].at = "add", ![s].conn = Len(conns) + 1]
       \/ /\ handler' = [handler EXCEPT ![s].at = "read", ![s].failed = @ + 1]
          /\ UNCHANGED <<connections, conns>>
    /\ UNCHANGED <<newConns, crashed>>

AddConn(s) ==
    /\ handler[s].at = "add"
    /\ Len(newConns) < ConnBufs
    /\ newConns' = Append(newConns, handler[s].conn)
    /\ handler' = [handler EXCEPT ![s].at = "register"]
    /\ UNCHANGED <<connections, conns, crashed>>

AddConn_Register_Next(s) ==
    /\ handler[s].at = "register"
    /\ connections' = Registered(handler[s].addr, handler[s].conn)
    /\ handler' = [handler EXCEPT ![s].at = "read"]
    /\ UNCHANGED <<conns, newConns, crashed>>

AddConn_Register(s) ==
    /\ handler[s].at = "register"
    /\ connections' = Registered(handler[s].addr, handler[s].conn)
    /\ handler' = [handler EXCEPT ![s].at = "send"]
    /\ UNCHANGED <<conns, newConns, crashed>>

handle_Send(s) ==
    /\ handler[s].at = "send"
    /\ LET d == handler[s].conn
       IN  /\ Len(conns[d].received) < ConnBufs
           /\ conns' = [conns EXCEPT ![d].received = Append(@, <<s, handler[s].read>>)]
    /\ handler' = [handler EXCEPT ![s].at = "read"]
    /\ UNCHANGED <<connections, newConns, crashed>>

(***************************************************************************)
(* The callers: they dial, accept what is announced, and delete a          *)
(* connection they know.  DelConn closes whatever is registered at the     *)
(* connection's address by then, and crashes if nothing is.                *)
(***************************************************************************)
DialOut(a) == Dial(a, TRUE) /\ UNCHANGED <<newConns, handler, crashed>>

Accept ==
    /\ newConns # <<>>
    /\ conns' = [conns EXCEPT ![newConns[1]].known = TRUE]
    /\ newConns' = Tail(newConns)
    /\ UNCHANGED <<connections, handler, crashed>>

DelConn(d) ==
    /\ conns[d].known
    /\ LET a == conns[d].addr
       IN  IF FindConn(a) = 0
           THEN crashed' = TRUE /\ UNCHANGED <<connections, conns>>
           ELSE /\ conns' = [conns EXCEPT ![FindConn(a)].closed = TRUE]
                /\ connections' = Restrict(connections, DOMAIN connections \ {a})
                /\ UNCHANGED crashed
    /\ UNCHANGED <<newConns, handler>>

ConnectionsNext ==
    /\ ~crashed
    /\ \/ Accept
       \/ \E a \in Addrs : DialOut(a)
       \/ \E d \in DOMAIN conns : DelConn(d)
       \/ \E s \in Streams :
             \/ handle_Dial(s) \/ AddConn(s) \/ AddConn_Register(s) \/ handle_Send(s)
             \/ \E a \in Addrs : handle(s, a)

ConnectionsSpec == ConnectionsInit /\ [][ConnectionsNext]_connVars
-----------------------------------------------------------------------------
(***************************************************************************)
(* A connection that messages were passed to, or that a look-up finds, is  *)
(* known to a caller or about to be: it waits in newConns, or the handler  *)
(* that dialled it has yet to announce it.  A second handler may find it   *)
(* before that, and may replace it, and the messages are still heard of.   *)
(***************************************************************************)
ReceiversAreKnown ==
    \A d \in DOMAIN conns :
        \/ conns[d].known
        \/ d \in ToSet(newConns)
        \/ \E s \in Streams : handler[s].at = "add" /\ handler[s].conn = d

(***************************************************************************)
(* Every message a handler has read was passed on once and in the order of *)
(* its stream, is in the hand of its handler, or its sender could not be   *)
(* dialled; whatever is dialled, replaced or deleted meanwhile.  And what  *)
(* was passed on is heard of.                                              *)
(***************************************************************************)
Passed(s) == {m \in UNION {ToSet(conns[d].received) : d \in DOMAIN conns} : m[1] = s}
MessagesPassedOn ==
  /\ ReceiversAreKnown
  /\ \A s \in Streams :
        /\ Cardinality(Passed(s)) + handler[s].failed + (IF handler[s].at = "read" THEN 0 ELSE 1)
              = handler[s].read
        /\ \A d \in DOMAIN conns :
              LET mine == SelectSeq(conns[d].received, LAMBDA m : m[1] = s)
              IN  \A i, j \in DOMAIN mine : i < j => mine[i][2] < mine[j][2]
=============================================================================

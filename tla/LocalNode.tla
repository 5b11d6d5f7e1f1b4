------------------------------ MODULE LocalNode -----------------------------
(***************************************************************************)
(* The local node of the session manager                                   *)
(* (src/pkg/engine/node/node.go, src/pkg/engine/sess/sessionmanager.go):   *)
(* its services, each the channel of a port, and its addresses.  A message *)
(* to a service is sent on that channel with the manager's lock and the    *)
(* node's lock held, until the service has room for it.                    *)
(***************************************************************************)
EXTENDS FiniteSets, Naturals, SequencesExt

CONSTANTS
    Callers, Ports, Addresses,
    ServiceBufs,    \* room of a service's channel
    MaxNodeCalls    \* bound on the calls of the manager

VARIABLES
    services,   \* the services of the node, in order: port and number
    queue,      \* what waits in the channel of each service ever added
    mgrLock, nodeLock,
    caller,     \* what each caller is doing, and for which port
    addresses,  \* Addresses of the node; "nil" is an empty entry
    local       \* calls made, and whether one has crashed

nodeVars == <<services, queue, mgrLock, nodeLock, caller, addresses, local>>

Resting == [op |-> "none", port |-> 0, service |-> 0]

NodeInit ==
    /\ services = <<>>
    /\ queue = <<>>
    /\ mgrLock = "free" /\ nodeLock = "free"
    /\ caller = [c \in Callers |-> Resting]
    /\ addresses = <<>>
    /\ local = [calls |-> 0, crashed |-> FALSE]

NewCall(c) ==
    /\ caller[c].op = "none"
    /\ local.calls < MaxNodeCalls

Counted == [local EXCEPT !.calls = @ + 1]

(***************************************************************************)
(* AddService, DeleteService and FindService hold the node's lock.         *)
(***************************************************************************)
FindService(port) == {i \in DOMAIN services : services[i].port = port}

AddService(c, port) ==
    /\ NewCall(c)
    /\ nodeLock = "free"
    /\ FindService(port) = {}
    /\ queue' = Append(queue, 0)
    /\ services' = Append(services, [port |-> port, id |-> Len(queue) + 1])
    /\ local' = Counted
    /\ UNCHANGED <<mgrLock, nodeLock, caller, addresses>>

DeleteService(c, port) ==
    /\ NewCall(c)
    /\ nodeLock = "free"
    /\ \E i \in FindService(port) :
          /\ \A j \in FindService(port) : i <= j
          /\ services' = RemoveAt(services, i)
    /\ local' = Counted
    /\ UNCHANGED <<queue, mgrLock, nodeLock, caller, addresses>>

(***************************************************************************)
(* SendFromLocalNode takes the manager's lock, SendTo the node's, and both *)
(* are held while the send waits.                                          *)
(***************************************************************************)
SendFromLocalNode(c, port) ==
    /\ NewCall(c)
    /\ mgrLock = "free"
    /\ mgrLock' = c
    /\ caller' = [caller EXCEPT ![c] = [op |-> "find", port |-> port, service |-> 0]]
    /\ local' = Counted
    /\ UNCHANGED <<services, queue, nodeLock, addresses>>


SendTo(c) ==
    /\ caller[c].op = "find"
    /\ nodeLock = "free"
    /\ LET found == FindService(caller[c].port)
       IN  IF found = {}
           THEN mgrLock' = "free" /\ caller' = [caller EXCEPT ![c] = Resting] /\ UNCHANGED nodeLock
           ELSE /\ nodeLock' = c
                /\ caller' = [caller EXCEPT ![c].op = "send",
                                 ![c].service = services[CHOOSE i \in found : \A j \in found : i <= j].id]
                /\ UNCHANGED mgrLock
    /\ UNCHANGED <<services, queue, addresses, local>>

SendTo_Send(c) ==
    /\ caller[c].op = "send"
    /\ queue[caller[c].service] < ServiceBufs
    /\ queue' = [queue EXCEPT ![caller[c].service] = @ + 1]
    /\ mgrLock' = "free" /\ nodeLock' = "free"
    /\ caller' = [caller EXCEPT ![c] = Resting]
    /\ UNCHANGED <<services, addresses, local>>

(* The service itself, which has its channel since it was made: external. *)
ServiceReads(s) ==
    /\ queue[s] > 0
    /\ queue' = [queue EXCEPT ![s] = @ - 1]
    /\ UNCHANGED <<services, mgrLock, nodeLock, caller, addresses, local>>

(***************************************************************************)
(* The addresses.  RemoveLocalNodeAddress makes a list of as many empty    *)
(* entries as there were addresses, and adds the entries that are equal to *)
(* the one to remove; comparing with an empty entry crashes.               *)
(***************************************************************************)
AddLocalNodeAddresses(c, as) ==
    /\ NewCall(c)
    /\ mgrLock = "free"
    /\ addresses' = addresses \o as
    /\ local' = Counted
    /\ UNCHANGED <<services, queue, mgrLock, nodeLock, caller>>

Compared == "nil" \in ToSet(addresses)

RemoveLocalNodeAddress(c, a) ==
    /\ NewCall(c)
    /\ mgrLock = "free"
    /\ addresses' = IF Compared THEN addresses
                    ELSE [i \in 1 .. Len(addresses) |-> "nil"]
                         \o SelectSeq(addresses, LAMBDA v : v = a)
    /\ local' = [Counted EXCEPT !.crashed = Compared]
    /\ UNCHANGED <<services, queue, mgrLock, nodeLock, caller>>

(* It takes no lock, and stops at the first address that is equal. *)
MatchesLocalNodeAddress(c, a) ==
    /\ NewCall(c)
    /\ LET empty == {i \in DOMAIN addresses : addresses[i] = "nil"}
           same == {i \in DOMAIN addresses : addresses[i] = a}
       IN  local' = [Counted EXCEPT !.crashed = \E i \in empty : \A j \in same : i < j]
    /\ UNCHANGED <<services, queue, mgrLock, nodeLock, caller, addresses>>

NodeNext ==
    /\ ~local.crashed
    /\ \/ \E s \in DOMAIN queue : ServiceReads(s)
       \/ \E c \in Callers :
             \/ SendTo(c) \/ SendTo_Send(c)
             \/ \E port \in Ports : \/ AddService(c, port) \/ DeleteService(c, port)
                                    \/ SendFromLocalNode(c, port)
             \/ \E a \in Addresses : \/ AddLocalNodeAddresses(c, <<a>>)
                                     \/ RemoveLocalNodeAddress(c, a)
                                     \/ MatchesLocalNodeAddress(c, a)

(***************************************************************************)
(* Fairness: a service goes on reading its channel, and a call goes on.    *)
(***************************************************************************)
Goes ==
    /\ ~local.crashed
    /\ \/ \E s \in DOMAIN queue : ServiceReads(s)
       \/ \E c \in Callers : SendTo(c) \/ SendTo_Send(c)

NodeSpec == NodeInit /\ [][NodeNext]_nodeVars /\ WF_nodeVars(Goes)
-----------------------------------------------------------------------------
=============================================================================

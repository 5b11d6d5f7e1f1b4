------------------------------ MODULE Interrupt -----------------------------
(***************************************************************************)
(* The shutdown of a process (src/pkg/interrupt): goroutines register      *)
(* handlers, the first of them starts the Listener, and a signal or a      *)
(* Request makes the Listener run the handlers, last registered first.     *)
(* Neither the test for the first AddHandler nor the one for the first     *)
(* Request is atomic with what follows it, so that each is a step of its   *)
(* own.  A goroutine of Adders registers one handler and a signal channel, *)
(* a Listener and a handler are named for the goroutine they come from.    *)
(***************************************************************************)
EXTENDS FiniteSets, Naturals, SequencesExt

CONSTANTS
    Adders,       \* goroutines that call AddHandler
    Requesters,   \* goroutines that call Request ...
    Restarters,   \* ... those of them that call RequestRestart
    MaxSignals    \* bound on the signals the process is sent

VARIABLES
    ch,          \* the signal channel, "nil" before the first AddHandler
    callbacks,   \* interruptCallbacks
    listener,    \* where every Listener is
    adder,       \* where every AddHandler call is
    requester,   \* where every Request call is
    flags,       \* requested, Restart, and which channels are closed
    ran,         \* the handlers that were run, in order
    signals,     \* the signals sent so far
    process      \* "running", "panicked" or "restarted"

intVars == <<ch, callbacks, listener, adder, requester, flags, ran, signals, process>>

NotStarted == [at |-> "none", on |-> "nil", i |-> 0, n |-> 0]

InterruptInit ==
    /\ ch = "nil"
    /\ callbacks = <<>>
    /\ listener = [a \in Adders |-> NotStarted]
    /\ adder = [a \in Adders |-> "none"]
    /\ requester = [r \in Requesters |-> "none"]
    /\ flags = [requested |-> FALSE, restart |-> FALSE, asked |-> FALSE, done |-> FALSE]
    /\ ran = <<>>
    /\ signals = 0
    /\ process = "running"

(***************************************************************************)
(* AddHandler: the test, the making of the channel and the Listener, and   *)
(* the send on addHandlerChan, which a Listener in its select receives.    *)
(***************************************************************************)
AddHandler(a) ==
    /\ adder[a] = "none"
    /\ adder' = [adder EXCEPT ![a] = IF ch = "nil" THEN "make" ELSE "send"]
    /\ UNCHANGED <<ch, callbacks, listener, requester, flags, ran, signals, process>>

AddHandler_Make(a) ==
    /\ adder[a] = "make"
    /\ ch' = a
    /\ listener' = [listener EXCEPT ![a].at = "loop"]
    /\ adder' = [adder EXCEPT ![a] = "send"]
    /\ UNCHANGED <<callbacks, requester, flags, ran, signals, process>>

Listener_AddHandler_Once(l, a) ==
    /\ listener[l].at = "select"
    /\ adder[a] = "send"
    /\ callbacks' = Append(callbacks, a)
    /\ adder' = [adder EXCEPT ![a] = "done"]
    /\ listener' = [listener EXCEPT ![l].at = "out"]
    /\ UNCHANGED <<ch, requester, flags, ran, signals, process>>

Listener_AddHandler(l, a) ==
    /\ listener[l].at = "select"
    /\ adder[a] = "send"
    /\ callbacks' = Append(callbacks, a)
    /\ adder' = [adder EXCEPT ![a] = "done"]
    /\ listener' = [listener EXCEPT ![l].at = "loop"]
    /\ UNCHANGED <<ch, requester, flags, ran, signals, process>>

(***************************************************************************)
(* The Listener: it enters its select on the channel `ch` is by then, and  *)
(* leaves its loop for a signal, a request or another's HandlersDone.  A   *)
(* signal is lost on a channel no Listener waits on.                       *)
(***************************************************************************)
Listener_Select(l) ==
    /\ listener[l].at = "loop"
    /\ listener' = [listener EXCEPT ![l].at = "select", ![l].on = ch]
    /\ UNCHANGED <<ch, callbacks, adder, requester, flags, ran, signals, process>>

Calling(l) == [listener[l] EXCEPT !.at = "calling", !.i = 0, !.n = Len(callbacks)]

Signal ==
    /\ signals < MaxSignals
    /\ signals' = signals + 1
    /\ \E L \in SUBSET {l \in Adders : listener[l].at = "select"} :
          /\ {listener[l].on : l \in L} =
                {listener[l].on : l \in {l \in Adders : listener[l].at = "select"}}
          /\ \A l, m \in L : listener[l].on = listener[m].on => l = m
          /\ listener' = [l \in Adders |-> IF l \in L THEN Calling(l) ELSE listener[l]]
          /\ flags' = [flags EXCEPT !.requested = @ \/ L # {}]
    /\ UNCHANGED <<ch, callbacks, adder, requester, ran, process>>

Listener_Shutdown(l) ==
    /\ listener[l].at = "select"
    /\ flags.asked
    /\ flags' = [flags EXCEPT !.requested = TRUE]
    /\ listener' = [listener EXCEPT ![l] = Calling(l)]
    /\ UNCHANGED <<ch, callbacks, adder, requester, ran, signals, process>>

Listener_Done(l) ==
    /\ listener[l].at = "select"
    /\ flags.done
    /\ listener' = [listener EXCEPT ![l].at = "out"]
    /\ UNCHANGED <<ch, callbacks, adder, requester, flags, ran, signals, process>>


invokeCallbacks(l) ==
    /\ listener[l].at = "calling"
    /\ listener[l].i < listener[l].n
    /\ ran' = Append(ran, callbacks[Len(callbacks) - listener[l].i])
    /\ listener' = [listener EXCEPT ![l].i = @ + 1]
    /\ UNCHANGED <<ch, callbacks, adder, requester, flags, signals, process>>

invokeCallbacks_Close(l) ==
    /\ listener[l].at = "calling"
    /\ listener[l].i = listener[l].n
    /\ \/ /\ flags.done
          /\ process' = "panicked"
          /\ UNCHANGED <<flags, listener>>
       \/ /\ ~flags.done
          /\ flags' = [flags EXCEPT !.done = TRUE]
          /\ listener' = [listener EXCEPT ![l].at = "out"]
          /\ \/ flags.restart /\ process' = "restarted"
             \/ process' = process
    /\ UNCHANGED <<ch, callbacks, adder, requester, ran, signals>>

(***************************************************************************)
(* Request and RequestRestart.  The receive that follows the closing finds *)
(* the channel closed, so that it is not closed again.                     *)
(***************************************************************************)
Request(r) ==
    /\ requester[r] = "none"
    /\ requester' = [requester EXCEPT ![r] = IF flags.requested THEN "done" ELSE "close"]
    /\ flags' = [flags EXCEPT !.restart = @ \/ r \in Restarters]
    /\ UNCHANGED <<ch, callbacks, listener, adder, ran, signals, process>>

Request_Close(r) ==
    /\ requester[r] = "close"
    /\ requester' = [requester EXCEPT ![r] = "done"]
    /\ IF flags.asked
       THEN /\ process' = "panicked"
            /\ flags' = [flags EXCEPT !.requested = TRUE]
       ELSE /\ flags' = [flags EXCEPT !.asked = TRUE, !.requested = TRUE]
            /\ UNCHANGED process
    /\ UNCHANGED <<ch, callbacks, listener, adder, ran, signals>>

InterruptNext ==
    /\ process = "running"
    /\ \/ Signal
       \/ \E r \in Requesters : Request(r) \/ Request_Close(r)
       \/ \E a \in Adders :
             \/ AddHandler(a) \/ AddHandler_Make(a)
             \/ Listener_Select(a) \/ Listener_Shutdown(a) \/ Listener_Done(a)
             \/ invokeCallbacks(a) \/ invokeCallbacks_Close(a)
             \/ \E l \in Adders : Listener_AddHandler(l, a)

(* What the goroutines of the process do by themselves. *)
Goes ==
    /\ process = "running"
    /\ \/ \E r \in Requesters : Request_Close(r)
       \/ \E a \in Adders :
             \/ AddHandler_Make(a)
             \/ Listener_Select(a) \/ Listener_Shutdown(a) \/ Listener_Done(a)
             \/ invokeCallbacks(a) \/ invokeCallbacks_Close(a)
             \/ \E l \in Adders : Listener_AddHandler(l, a)

InterruptSpec == InterruptInit /\ [][InterruptNext]_intVars /\ WF_intVars(Goes)
-----------------------------------------------------------------------------
Started == {l \in Adders : listener[l].at # "none"}

(***************************************************************************)
(* A handler is run once, and the handlers in the reverse of the order     *)
(* they were registered in ("run handlers in LIFO order"), each before     *)
(* HandlersDone is closed.  That needs one Listener: with the two that two *)
(* first calls of AddHandler at once may start, it does not hold.          *)
(***************************************************************************)
HandlersInTurn ==
    Cardinality(Started) = 1 =>
        /\ IsPrefix(ran, Reverse(callbacks))
        /\ flags.done => ran = Reverse(callbacks)

(***************************************************************************)
(* The process panics of its shutdown only when two goroutines were in     *)
(* AddHandler or in Request for the first time at once: otherwise neither  *)
(* HandlersDone nor ShutdownRequestChan is closed twice.  Requested, which *)
(* the rest of the program asks, is true before the channel is closed.     *)
(***************************************************************************)
PanicsOfRaces ==
    /\ process = "panicked" =>
          Cardinality(Started) > 1 \/ Cardinality({r \in Requesters : requester[r] # "none"}) > 1
    /\ flags.asked => flags.requested


(***************************************************************************)
(* Every AddHandler returns and every shutdown asked for is finished, but  *)
(* not both: a goroutine that registers its handler while the Listener has *)
(* been told to stop waits for ever.                                       *)
(***************************************************************************)
Finishes ==
    \/ process # "running"
    \/ /\ \A r \in Requesters : requester[r] # "close"
       /\ IF flags.requested /\ Started # {}
          THEN flags.done
          ELSE \A a \in Adders : adder[a] \in {"none", "done"}
AddersOrShutdown == []<>Finishes
=============================================================================

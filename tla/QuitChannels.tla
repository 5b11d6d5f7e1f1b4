---------------------------- MODULE QuitChannels ----------------------------
(***************************************************************************)
(* The quit and trigger channels (src/pkg/util/qu): made by T and Ts, sent *)
(* on by Signal, closed by Q, and listed for a look at which are open.     *)
(* Whether a channel is closed is found out by receiving from it, which    *)
(* takes a signal that is there and answers "closed".  A goroutine that    *)
(* sends or receives waits as Go's channels make it; one that panics ends  *)
(* the process.                                                            *)
(***************************************************************************)
EXTENDS Naturals, Sequences

CONSTANTS
    Chans, Capacity,   \* the channels that may be made, and the room each has
    Users,             \* the goroutines that call
    MaxCalls           \* bound on the calls

VARIABLES
    chan,     \* channel -> its state, see NotMade
    listed,   \* createdChannels
    mx,       \* the user that holds the lock, or "free"
    user,     \* what each user is doing, and to which channel
    calls,    \* the calls made so far
    panic     \* "none", or the message of the panic

quVars == <<chan, listed, mx, user, calls, panic>>

Resting == [op |-> "none", c |-> "none"]

(***************************************************************************)
(* `taken` and `quit` are no state of the code: a test for closing has     *)
(* received a signal, and a call of Q has returned.                        *)
(***************************************************************************)
NotMade == [made |-> FALSE, closed |-> FALSE, buf |-> 0, senders |-> <<>>,
            taken |-> FALSE, quit |-> FALSE]

QuInit ==
    /\ chan = [c \in Chans |-> NotMade]
    /\ listed = {}
    /\ mx = "free"
    /\ user = [u \in Users |-> Resting]
    /\ calls = 0
    /\ panic = "none"

Calls(u) ==
    /\ user[u].op = "none"
    /\ \A c \in Chans : \A i \in 1 .. Len(chan[c].senders) : chan[c].senders[i] # u
    /\ calls < MaxCalls
    /\ calls' = calls + 1

(* T and Ts: a channel without room, or with room for Capacity[c] signals. *)
T(u, c) ==
    /\ Calls(u)
    /\ mx = "free"
    /\ ~chan[c].made
    /\ chan' = [chan EXCEPT ![c].made = TRUE]
    /\ listed' = listed \cup {c}
    /\ UNCHANGED <<mx, user, panic>>

(***************************************************************************)
(* Signal: a send.  It panics on a closed channel; without room, it waits  *)
(* for a receiver behind those that wait already.                          *)
(***************************************************************************)
Signal(u, c) ==
    /\ Calls(u)
    /\ chan[c].made
    /\ IF chan[c].closed
       THEN panic' = "send on closed channel" /\ UNCHANGED chan
       ELSE /\ chan' = IF chan[c].buf < Capacity[c] THEN [chan EXCEPT ![c].buf = @ + 1]
                       ELSE [chan EXCEPT ![c].senders = Append(@, u)]
            /\ UNCHANGED panic
    /\ UNCHANGED <<listed, mx, user>>

(* A receive from h would not wait, and what it leaves of h. *)
Ready(h) == h.closed \/ h.buf > 0 \/ h.senders # <<>>

Received(h) ==
    IF h.senders # <<>> THEN [h EXCEPT !.senders = Tail(@)]
    ELSE IF h.buf > 0 THEN [h EXCEPT !.buf = @ - 1]
    ELSE h

(* A receive from Wait, by whoever selects on it. *)
Wait(u, c) ==
    /\ Calls(u)
    /\ chan[c].made
    /\ Ready(chan[c])
    /\ chan' = [chan EXCEPT ![c] = Received(@)]
    /\ UNCHANGED <<listed, mx, user, panic>>

(***************************************************************************)
(* testChanIsClosed: the answer is Ready, and a signal that was there is   *)
(* gone.                                                                   *)
(***************************************************************************)
testChanIsClosed(h) ==
    IF Ready(h) THEN [Received(h) EXCEPT !.taken = @ \/ Received(h) # h] ELSE h

(* Variant: tests and closes without the lock. *)
Q_NoLock(u, c) ==
    /\ Calls(u)
    /\ chan[c].made
    /\ chan' = [chan EXCEPT ![c] = [testChanIsClosed(@) EXCEPT !.quit = @ \/ Ready(chan[c])]]
    /\ user' = IF Ready(chan[c]) THEN user
               ELSE [user EXCEPT ![u] = [op |-> "close", c |-> c]]
    /\ UNCHANGED <<listed, mx, panic>>

Q(u, c) ==
    /\ Calls(u)
    /\ chan[c].made
    /\ mx = "free"
    /\ LET t == testChanIsClosed(chan[c])
       IN  chan' = [chan EXCEPT ![c] = [t EXCEPT !.quit = t.quit \/ Ready(chan[c])]]
    /\ IF Ready(chan[c]) THEN UNCHANGED <<mx, user>>
       ELSE mx' = u /\ user' = [user EXCEPT ![u] = [op |-> "close", c |-> c]]
    /\ UNCHANGED <<listed, panic>>

Q_Close(u) ==
    /\ user[u].op = "close"
    /\ LET c == user[u].c
       IN  /\ panic' = IF chan[c].closed THEN "close of closed channel"
                       ELSE IF chan[c].senders # <<>> THEN "send on closed channel" ELSE panic
           /\ chan' = [chan EXCEPT ![c].closed = TRUE, ![c].quit = TRUE]
    /\ mx' = "free"
    /\ user' = [user EXCEPT ![u] = Resting]
    /\ UNCHANGED <<listed, calls>>

(***************************************************************************)
(* GetOpenChanCount and PrintChanState test every listed channel, and so   *)
(* does the cleaning every minute, which keeps the open ones.              *)
(***************************************************************************)
TestAll == [c \in Chans |-> IF c \in listed THEN testChanIsClosed(chan[c]) ELSE chan[c]]

GetOpenChanCount(u) ==
    /\ Calls(u)
    /\ mx = "free"
    /\ chan' = TestAll
    /\ UNCHANGED <<listed, mx, user, panic>>

CleanUp ==
    /\ calls < MaxCalls /\ calls' = calls + 1
    /\ mx = "free"
    /\ chan' = TestAll
    /\ listed' = {c \in listed : ~Ready(chan[c])}
    /\ UNCHANGED <<mx, user, panic>>

QuNext ==
    /\ panic = "none"
    /\ \/ CleanUp
       \/ \E u \in Users :
             \/ Q_Close(u) \/ GetOpenChanCount(u)
             \/ \E c \in Chans : T(u, c) \/ Signal(u, c) \/ Wait(u, c) \/ Q(u, c)

QuSpec == QuInit /\ [][QuNext]_quVars
-----------------------------------------------------------------------------
(***************************************************************************)
(* Q "forgive[s] common errors like closing closed channels": however many *)
(* goroutines quit a channel at once, none panics of closing it again.     *)
(* (Signal forgives nothing: on a closed channel it panics.)               *)
(***************************************************************************)
QuitForgives == panic # "close of closed channel"

(***************************************************************************)
(* Once Q has returned, the channel is closed, and every later select on   *)
(* it is ready, unless a test for closing took a signal for the closing.   *)
(***************************************************************************)
QuitCloses == \A c \in Chans : chan[c].quit => chan[c].closed \/ chan[c].taken

(***************************************************************************)
(* The cleaning forgets no channel that is open, but for one whose signal  *)
(* a test for closing took.                                                *)
(***************************************************************************)
OpenIsListed ==
    \A c \in Chans : chan[c].made /\ c \notin listed => chan[c].closed \/ chan[c].taken

(***************************************************************************)
(* What a program may count on when several of its goroutines quit, signal *)
(* and look at the same channels: all three of these.                      *)
(***************************************************************************)
QuitSafe == QuitForgives /\ QuitCloses /\ OpenIsListed
=============================================================================

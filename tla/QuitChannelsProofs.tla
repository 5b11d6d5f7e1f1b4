------------------------- MODULE QuitChannelsProofs -------------------------
(***************************************************************************)
(* What Q promises, for any number of channels and of goroutines, any room *)
(* in the channels and any number of calls.                                *)
(***************************************************************************)
EXTENDS QuitChannels, TLAPS

(***************************************************************************)
(* No goroutine is called as the lock is that nobody holds.                *)
(***************************************************************************)
NamesDiffer == "free" \notin Users

Channels == [made : BOOLEAN, closed : BOOLEAN, buf : Nat, senders : Seq(Users),
             taken : BOOLEAN, quit : BOOLEAN]

QuTypes ==
    /\ chan \in [Chans -> Channels]
    /\ user \in [Users -> [op : {"none", "close"}, c : Chans \cup {"none"}]]

(***************************************************************************)
(* The invariant: a goroutine between its test and its close has the lock, *)
(* and the channel it is about to close is still open.                     *)
(***************************************************************************)
Closing ==
    \A u \in Users :
        user[u].op = "close" => user[u].c \in Chans /\ mx = u /\ ~chan[user[u].c].closed

QuInv ==
    /\ NamesDiffer /\ QuTypes /\ Closing
    /\ QuitForgives /\ QuitCloses /\ OpenIsListed

\* A step that only moves signals: every channel stays made, closed and quit as
\* it was.
SameBut(h, g) ==
    /\ g \in Channels
    /\ g.made = h.made /\ g.closed = h.closed /\ g.quit = h.quit /\ (h.taken => g.taken)

\* A receive takes a signal, if one is there, and nothing else of the channel.
LEMMA ReceivedFacts ==
    ASSUME NEW h \in Channels
    PROVE  /\ SameBut(h, Received(h)) /\ Received(h).taken = h.taken
           /\ Ready(h) => h.closed \/ Received(h) # h
<1>1. CASE h.senders # <<>>
  <2>1. /\ Tail(h.senders) \in Seq(Users) /\ Tail(h.senders) # h.senders
    <3>1. h.senders \in Seq(Users)
      BY DEF Channels
    <3>2. Len(Tail(h.senders)) = Len(h.senders) - 1 /\ Len(h.senders) \in Nat
      BY <1>1, <3>1
    <3>3. Tail(h.senders) \in Seq(Users)
      BY <1>1, <3>1
    <3>4. Len(Tail(h.senders)) # Len(h.senders)
      BY <3>2
    <3> QED
      BY <3>3, <3>4, Zenon
  <2>2. Received(h) = [h EXCEPT !.senders = Tail(h.senders)]
    BY <1>1 DEF Received
  <2>3. Received(h).senders = Tail(h.senders)
    BY <2>2 DEF Channels
  <2> QED
    BY <2>1, <2>2, <2>3 DEF Channels, SameBut
<1>2. CASE h.senders = <<>> /\ h.buf > 0
  <2>1. h.buf - 1 \in Nat /\ h.buf - 1 # h.buf
    BY <1>2 DEF Channels
  <2>2. Received(h) = [h EXCEPT !.buf = h.buf - 1]
    BY <1>2 DEF Received
  <2>3. Received(h).buf = h.buf - 1
    BY <2>2 DEF Channels
  <2> QED
    BY <2>1, <2>2, <2>3 DEF Channels, SameBut
<1>3. CASE h.senders = <<>> /\ ~(h.buf > 0)
  BY <1>3 DEF Received, Ready, SameBut
<1> QED
  BY <1>1, <1>2, <1>3

\* A test for closing that finds a channel ready leaves it closed, or has taken
\* a signal.
LEMMA TestFacts ==
    ASSUME NEW h \in Channels
    PROVE  /\ SameBut(h, testChanIsClosed(h))
           /\ Ready(h) => testChanIsClosed(h).closed \/ testChanIsClosed(h).taken
           /\ ~Ready(h) => testChanIsClosed(h) = h
<1>1. CASE Ready(h)
  <2> DEFINE g == Received(h)
             t == (g.taken \/ g # h)
  <2>1. /\ g \in Channels /\ g.made = h.made /\ g.closed = h.closed /\ g.quit = h.quit
        /\ g.taken = h.taken /\ (h.closed \/ g # h)
    BY <1>1, ReceivedFacts DEF SameBut
  <2>2. testChanIsClosed(h) = [g EXCEPT !.taken = t]
    BY <1>1 DEF testChanIsClosed
  <2>3. t \in BOOLEAN
    OBVIOUS
  <2> HIDE DEF g
  <2>4. /\ [g EXCEPT !.taken = t] \in Channels
        /\ [g EXCEPT !.taken = t].made = g.made /\ [g EXCEPT !.taken = t].closed = g.closed
        /\ [g EXCEPT !.taken = t].quit = g.quit /\ [g EXCEPT !.taken = t].taken = t
    BY <2>1, <2>3 DEF Channels
  <2> QED
    BY <1>1, <2>1, <2>2, <2>4 DEF SameBut
<1>2. CASE ~Ready(h)
  BY <1>2 DEF testChanIsClosed, SameBut
<1> QED
  BY <1>1, <1>2

\* A step that only moves signals, or makes channels that are listed, and lets
\* every goroutine go on as it was.
LEMMA SignalsMove ==
    ASSUME QuInv, chan' \in [Chans -> Channels], UNCHANGED <<user, mx>>, QuitForgives',
           \A d \in Chans :
             /\ chan'[d].closed = chan[d].closed /\ chan'[d].quit = chan[d].quit
             /\ chan[d].taken => chan'[d].taken
             /\ chan'[d].made /\ d \notin listed' =>
                  chan[d].made /\ (d \notin listed \/ chan'[d].closed \/ chan'[d].taken)
    PROVE  QuInv'
<1>1. Closing'
  BY DEF QuInv, Closing
<1>2. QuitCloses' /\ OpenIsListed'
  BY DEF QuInv, QuitCloses, OpenIsListed
<1> QED
  BY <1>1, <1>2 DEF QuInv, QuTypes, NamesDiffer

\* One channel is changed.
LEMMA OneChannel ==
    ASSUME chan \in [Chans -> Channels], NEW c \in Chans, NEW g \in Channels,
           chan' = [chan EXCEPT ![c] = g]
    PROVE  /\ chan' \in [Chans -> Channels] /\ chan'[c] = g
           /\ \A d \in Chans \ {c} : chan'[d] = chan[d]
  OBVIOUS

\* T makes a channel and lists it.
LEMMA TInv == ASSUME QuInv, NEW u \in Users, NEW c \in Chans, T(u, c) PROVE QuInv'
<1> DEFINE g == [chan[c] EXCEPT !.made = TRUE]
<1>1. chan[c] \in Channels /\ chan \in [Chans -> Channels]
  BY DEF QuInv, QuTypes
<1>2. /\ g \in Channels /\ g.closed = chan[c].closed
      /\ g.quit = chan[c].quit /\ g.taken = chan[c].taken
  BY <1>1 DEF Channels
<1>3. chan' = [chan EXCEPT ![c] = g]
  BY DEF T
<1> HIDE DEF g
<1>4. /\ chan' \in [Chans -> Channels] /\ chan'[c] = g
      /\ \A d \in Chans \ {c} : chan'[d] = chan[d]
  BY <1>1, <1>2, <1>3, OneChannel
<1>5. listed' = listed \cup {c} /\ UNCHANGED <<mx, user, panic>>
  BY DEF T
<1>6. QuitForgives'
  BY <1>5 DEF QuInv, QuitForgives
<1> QED
  BY <1>2, <1>4, <1>5, <1>6, SignalsMove

\* Signal, which never panics of closing.
LEMMA SignalInv == ASSUME QuInv, NEW u \in Users, NEW c \in Chans, Signal(u, c) PROVE QuInv'
<1>1. chan[c] \in Channels /\ chan \in [Chans -> Channels]
  BY DEF QuInv, QuTypes
<1>2. UNCHANGED <<listed, mx, user>> /\ QuitForgives'
  BY DEF Signal, QuInv, QuitForgives
<1>3. CASE chan' = chan
  BY <1>1, <1>2, <1>3, SignalsMove
<1>4. ASSUME NEW g \in Channels, chan' = [chan EXCEPT ![c] = g],
             g.made = chan[c].made, g.closed = chan[c].closed,
             g.quit = chan[c].quit, g.taken = chan[c].taken
      PROVE  QuInv'
  <2>1. /\ chan' \in [Chans -> Channels] /\ chan'[c] = g
        /\ \A d \in Chans \ {c} : chan'[d] = chan[d]
    BY <1>1, <1>4, OneChannel
  <2> QED
    BY <1>2, <1>4, <2>1, SignalsMove
<1>5. CASE chan' = [chan EXCEPT ![c].buf = @ + 1]
  <2> DEFINE g == [chan[c] EXCEPT !.buf = chan[c].buf + 1]
  <2>1. /\ g \in Channels /\ g.made = chan[c].made /\ g.closed = chan[c].closed
        /\ g.quit = chan[c].quit /\ g.taken = chan[c].taken
    <3>1. chan[c].buf + 1 \in Nat
      BY <1>1 DEF Channels
    <3> QED
      BY <1>1, <3>1 DEF Channels
  <2>2. chan' = [chan EXCEPT ![c] = g]
    BY <1>5
  <2> HIDE DEF g
  <2> QED
    BY <1>4, <2>1, <2>2
<1>6. CASE chan' = [chan EXCEPT ![c].senders = Append(@, u)]
  <2> DEFINE g == [chan[c] EXCEPT !.senders = Append(chan[c].senders, u)]
  <2>1. /\ g \in Channels /\ g.made = chan[c].made /\ g.closed = chan[c].closed
        /\ g.quit = chan[c].quit /\ g.taken = chan[c].taken
    <3>1. Append(chan[c].senders, u) \in Seq(Users)
      BY <1>1 DEF Channels
    <3> QED
      BY <1>1, <3>1 DEF Channels
  <2>2. chan' = [chan EXCEPT ![c] = g]
    BY <1>6
  <2> HIDE DEF g
  <2> QED
    BY <1>4, <2>1, <2>2
<1> QED
  BY <1>3, <1>5, <1>6 DEF Signal

\* A receive from Wait.
LEMMA WaitInv == ASSUME QuInv, NEW u \in Users, NEW c \in Chans, Wait(u, c) PROVE QuInv'
<1> DEFINE g == Received(chan[c])
<1>1. chan[c] \in Channels /\ chan \in [Chans -> Channels]
  BY DEF QuInv, QuTypes
<1>2. SameBut(chan[c], g) /\ g.taken = chan[c].taken
  BY <1>1, ReceivedFacts
<1>3. chan' = [chan EXCEPT ![c] = g] /\ UNCHANGED <<listed, mx, user, panic>>
  BY DEF Wait
<1> HIDE DEF g
<1>4. /\ chan' \in [Chans -> Channels] /\ chan'[c] = g
      /\ \A d \in Chans \ {c} : chan'[d] = chan[d]
  BY <1>1, <1>2, <1>3, OneChannel DEF SameBut
<1>5. QuitForgives'
  BY <1>3 DEF QuInv, QuitForgives
<1> QED
  BY <1>2, <1>3, <1>4, <1>5, SignalsMove DEF SameBut

\* The functions that test every listed channel: one that is forgotten was
\* found ready.
LEMMA TestAllInv ==
    ASSUME QuInv, chan' = TestAll, UNCHANGED <<mx, user, panic>>,
           listed' = listed \/ listed' = {c \in listed : ~Ready(chan[c])}
    PROVE  QuInv'
<1>1. chan \in [Chans -> Channels]
  BY DEF QuInv, QuTypes
<1>2. ASSUME NEW d \in Chans
      PROVE  /\ chan'[d] \in Channels
             /\ chan'[d].made = chan[d].made /\ chan'[d].closed = chan[d].closed
             /\ chan'[d].quit = chan[d].quit /\ (chan[d].taken => chan'[d].taken)
             /\ d \in listed /\ Ready(chan[d]) => chan'[d].closed \/ chan'[d].taken
  <2>1. CASE d \in listed
    <3>1. chan'[d] = testChanIsClosed(chan[d]) /\ chan[d] \in Channels
      BY <1>1, <2>1 DEF TestAll
    <3> QED
      BY <3>1, TestFacts DEF SameBut
  <2>2. CASE d \notin listed
    <3>1. chan'[d] = chan[d] /\ chan[d] \in Channels
      BY <1>1, <2>2 DEF TestAll
    <3> QED
      BY <2>2, <3>1
  <2> QED
    BY <2>1, <2>2
<1>3. chan' \in [Chans -> Channels]
  BY <1>2 DEF TestAll
<1>4. QuitForgives'
  BY DEF QuInv, QuitForgives
<1> QED
  BY <1>2, <1>3, <1>4, SignalsMove

\* Q: the goroutine that finds the channel open keeps the lock for its close,
\* and to the others the channel is closed already.
LEMMA QInv == ASSUME QuInv, NEW u \in Users, NEW c \in Chans, Q(u, c) PROVE QuInv'
<1> DEFINE h == chan[c]
           t == testChanIsClosed(chan[c])
           q == (t.quit \/ Ready(chan[c]))
           g == [t EXCEPT !.quit = q]
<1>1. h \in Channels /\ chan \in [Chans -> Channels]
  BY DEF QuInv, QuTypes
<1>2. /\ SameBut(h, t) /\ (Ready(h) => t.closed \/ t.taken) /\ (~Ready(h) => t = h)
  BY <1>1, TestFacts
<1>3. /\ mx = "free" /\ UNCHANGED <<listed, panic>>
      /\ IF Ready(h) THEN UNCHANGED <<mx, user>>
         ELSE mx' = u /\ user' = [user EXCEPT ![u] = [op |-> "close", c |-> c]]
  BY DEF Q
<1>13. chan' = [chan EXCEPT ![c] = g]
  BY DEF Q
<1>4. q \in BOOLEAN
  BY DEF Ready
<1>5. /\ g \in Channels /\ g.made = h.made /\ g.closed = h.closed
      /\ g.quit = q /\ g.taken = t.taken /\ (h.taken => g.taken)
  <2> HIDE DEF t, q
  <2> QED
    BY <1>2, <1>4 DEF SameBut, Channels
<1>6. g.quit => g.closed \/ g.taken
  <2>1. h.quit => h.closed \/ h.taken
    BY DEF QuInv, QuitCloses
  <2>2. t.quit = h.quit /\ t.closed = h.closed /\ (h.taken => t.taken)
    BY <1>2 DEF SameBut
  <2> HIDE DEF t, g
  <2> QED
    BY <1>2, <1>5, <2>1, <2>2
<1>7. Ready(h) \/ ~h.closed
  BY DEF Ready
<1> HIDE DEF g, t, q
<1>8. /\ chan' \in [Chans -> Channels] /\ chan'[c] = g
      /\ \A d \in Chans \ {c} : chan'[d] = chan[d]
  BY <1>1, <1>5, <1>13, OneChannel
<1>9. QuTypes'
  BY <1>3, <1>8 DEF QuInv, QuTypes
<1>10. \A v \in Users : user[v].op # "close"
  BY <1>3 DEF QuInv, Closing, NamesDiffer
<1>11. Closing'
  <2>1. CASE Ready(h)
    BY <1>3, <1>10, <2>1 DEF Closing
  <2>2. CASE ~Ready(h)
    <3>1. /\ mx' = u /\ user'[u].op = "close" /\ user'[u].c = c
          /\ \A v \in Users \ {u} : user'[v] = user[v]
      BY <1>3, <2>2 DEF QuInv, QuTypes
    <3> QED
      BY <1>5, <1>7, <1>8, <1>10, <2>2, <3>1 DEF Closing
  <2> QED
    BY <2>1, <2>2
<1>12. QuitCloses' /\ OpenIsListed' /\ QuitForgives'
  BY <1>3, <1>5, <1>6, <1>8 DEF QuInv, QuitCloses, OpenIsListed, QuitForgives
<1> QED
  BY <1>9, <1>11, <1>12 DEF QuInv, NamesDiffer

\* The close itself finds the channel open.
LEMMA QCloseInv == ASSUME QuInv, NEW u \in Users, Q_Close(u) PROVE QuInv'
<1>1. PICK c \in Chans : c = user[u].c /\ mx = u /\ ~chan[c].closed
  BY DEF Q_Close, QuInv, Closing
<1> DEFINE h == [chan[c] EXCEPT !.closed = TRUE]
           g == [h EXCEPT !.quit = TRUE]
<1>2. chan[c] \in Channels /\ chan \in [Chans -> Channels]
  BY DEF QuInv, QuTypes
<1>3. h \in Channels /\ h.closed /\ h.made = chan[c].made /\ h.taken = chan[c].taken
  BY <1>2 DEF Channels
<1>4. g \in Channels /\ g.closed /\ g.made = chan[c].made
  <2> HIDE DEF h
  <2> QED
    BY <1>3 DEF Channels
<1>5. chan' = [chan EXCEPT ![c] = g]
  BY <1>1, <1>2 DEF Q_Close
<1>6. /\ user' = [user EXCEPT ![u] = Resting] /\ UNCHANGED listed
      /\ panic' = IF chan[c].senders # <<>> THEN "send on closed channel" ELSE panic
  BY <1>1 DEF Q_Close
<1> HIDE DEF g
<1>7. /\ chan' \in [Chans -> Channels] /\ chan'[c] = g
      /\ \A d \in Chans \ {c} : chan'[d] = chan[d]
  BY <1>2, <1>4, <1>5, OneChannel
<1>8. /\ user' \in [Users -> [op : {"none", "close"}, c : Chans \cup {"none"}]]
      /\ user'[u].op = "none" /\ \A v \in Users \ {u} : user'[v] = user[v]
  BY <1>6 DEF Resting, QuInv, QuTypes
<1>9. Closing'
  BY <1>1, <1>8 DEF QuInv, Closing
<1>10. QuitForgives'
  BY <1>6 DEF QuInv, QuitForgives
<1>11. QuitCloses' /\ OpenIsListed'
  BY <1>4, <1>6, <1>7 DEF QuInv, QuitCloses, OpenIsListed
<1> QED
  BY <1>7, <1>8, <1>9, <1>10, <1>11 DEF QuInv, QuTypes, NamesDiffer

LEMMA QuInvInit == NamesDiffer /\ QuInit => QuInv
<1> SUFFICES ASSUME NamesDiffer, QuInit PROVE QuInv
  OBVIOUS
<1>1. NotMade \in Channels /\ ~NotMade.made /\ ~NotMade.quit
  <2>1. <<>> \in Seq(Users)
    OBVIOUS
  <2> QED
    BY <2>1 DEF NotMade, Channels
<1>2. Resting \in [op : {"none", "close"}, c : Chans \cup {"none"}] /\ Resting.op = "none"
  BY DEF Resting
<1>3. \A c \in Chans : chan[c] = NotMade
  BY DEF QuInit
<1>4. QuTypes
  BY <1>1, <1>2 DEF QuInit, QuTypes
<1>5. Closing
  BY <1>2 DEF QuInit, Closing
<1>6. QuitForgives
  BY DEF QuInit, QuitForgives
<1>7. QuitCloses /\ OpenIsListed
  BY <1>1, <1>3 DEF QuitCloses, OpenIsListed
<1> QED
  BY <1>4, <1>5, <1>6, <1>7 DEF QuInv

LEMMA QuInvStep == QuInv /\ [QuNext]_quVars => QuInv'
<1> SUFFICES ASSUME QuInv, [QuNext]_quVars PROVE QuInv'
  OBVIOUS
<1>1. ASSUME NEW u \in Users, NEW c \in Chans, T(u, c) PROVE QuInv'
  BY <1>1, TInv
<1>2. ASSUME NEW u \in Users, NEW c \in Chans, Signal(u, c) PROVE QuInv'
  BY <1>2, SignalInv
<1>3. ASSUME NEW u \in Users, NEW c \in Chans, Wait(u, c) PROVE QuInv'
  BY <1>3, WaitInv
<1>4. ASSUME NEW u \in Users, NEW c \in Chans, Q(u, c) PROVE QuInv'
  BY <1>4, QInv
<1>5. ASSUME NEW u \in Users, Q_Close(u) PROVE QuInv'
  BY <1>5, QCloseInv
<1>6. ASSUME NEW u \in Users, GetOpenChanCount(u) PROVE QuInv'
  BY <1>6, TestAllInv DEF GetOpenChanCount
<1>7. CASE CleanUp
  BY <1>7, TestAllInv DEF CleanUp
<1>8. CASE UNCHANGED quVars
  BY <1>8 DEF quVars, QuInv, QuTypes, Closing, NamesDiffer, QuitForgives, QuitCloses, OpenIsListed
<1> QED
  BY <1>1, <1>2, <1>3, <1>4, <1>5, <1>6, <1>7, <1>8 DEF QuNext

LEMMA QuInvariant == NamesDiffer /\ QuSpec => []QuInv
<1>1. NamesDiffer /\ QuInit => QuInv
  BY QuInvInit
<1>2. QuInv /\ [QuNext]_quVars => QuInv'
  BY QuInvStep
<1> QED
  BY <1>1, <1>2, PTL DEF QuSpec

(***************************************************************************)
(* However many goroutines quit a channel at once, none panics of closing  *)
(* it again, since the test and the close are under the one lock; once Q   *)
(* has returned the channel is closed, and the cleaning of the list        *)
(* forgets no open channel, unless a test for closing took a signal for    *)
(* the closing.                                                            *)
(***************************************************************************)
THEOREM QuitSafeTheorem == NamesDiffer /\ QuSpec => []QuitSafe
<1>1. QuInv => QuitSafe
  BY DEF QuInv, QuitSafe
<1> QED
  BY <1>1, QuInvariant, PTL
=============================================================================

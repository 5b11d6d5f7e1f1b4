------------------------------ MODULE Payments ------------------------------
(***************************************************************************)
(* Buying sessions.  A payer sends one payment to each relay of its        *)
(* circuit over that relay's payment channel, waits until all of them are  *)
(* confirmed, and sends the session keys in one onion that goes from relay *)
(* to relay and comes back as a confirmation.  A payer that tops a session *)
(* up sends a single payment.  Each relay handles payments and messages in *)
(* one loop and waits there for its payer to take the confirmation.  A     *)
(* payment and a session are the same key (the preimage); every payment is *)
(* of one unit, and every message relayed costs one.  The network may lose *)
(* or repeat an onion.                                                     *)
(***************************************************************************)
EXTENDS Naturals, Sequences, SequencesExt, FiniteSets

CONSTANTS Payers,
          Buys,      \* for each payer, the keys of the sessions it pays for
          TopUps,    \* the payers that only pay, for a session of another
          Relays,
          RelayOf,   \* for each key, the relay it is for
          PayBuf,    \* PaymentChanBuffers, 8 in the code
          MaxPause,  \* times a relay is paused
          MaxSpent   \* for each key, the messages relayed on the session

VARIABLES payer,     \* for each payer, where it is in BuyNewSessions
          payChan,   \* for each relay, the payments in its channel
          handler,   \* for each relay, where its loop is
          pending,   \* for each relay, its PendingPayments
          remaining, \* for each relay, the sessions it has and their balance
          onions,    \* onions on their way: a payer's keys, and how far
          recorded,    \* the sessions the payers have recorded
          paid, spent, twice, dropped, pauses
payVars == <<payer, payChan, handler, pending, remaining, onions, recorded,
             paid, spent, twice, dropped, pauses>>

Keys == DOMAIN RelayOf

\* Every payer pays for sessions that are known, each with one of the relays.
ASSUME PaymentsAssumption ==
  Buys \in [Payers -> Seq(Keys)] /\ RelayOf \in [Keys -> Relays]

Payment(p, k) == [by |-> p, preimage |-> k]
Occurs(s, k) == Cardinality({i \in 1..Len(s) : s[i].preimage = k})
FindPreimage(s, k) == \E i \in 1..Len(s) : s[i].preimage = k

NothingPaid ==
  /\ payChan = [r \in Relays |-> <<>>]
  /\ handler = [r \in Relays |-> [at |-> "select"]]
  /\ pending = [r \in Relays |-> <<>>]
  /\ remaining = [r \in Relays |-> [k \in {} |-> 0]]
  /\ onions = {} /\ recorded = {}
  /\ paid = [k \in Keys |-> 0] /\ spent = [k \in Keys |-> 0]
  /\ twice = {} /\ dropped = {}
PaymentsInit ==
  /\ payer = [p \in Payers |-> [at |-> "pay", next |-> 1, left |-> Len(Buys[p])]]
  /\ pauses = 0 /\ NothingPaid

-----------------------------------------------------------------------------
(* The payer. *)

\* PayChan.Send blocks while the relay's channel is full.
Pay(p) ==
  /\ payer[p].at = "pay"
  /\ LET k == Buys[p][payer[p].next]
         r == RelayOf[k]
     IN  /\ Len(payChan[r]) < PayBuf
         /\ payChan' = [payChan EXCEPT ![r] = Append(@, Payment(p, k))]
         /\ paid' = [paid EXCEPT ![k] = @ + 1]
         /\ payer' = [payer EXCEPT ![p].next = @ + 1,
                                   ![p].at = IF payer[p].next = Len(Buys[p]) THEN "confirm" ELSE @]
  /\ UNCHANGED <<handler, pending, remaining, onions, recorded, spent, twice, dropped, pauses>>

\* The relay's loop hands the confirmation over once the payer is waiting.
TakeConfirm(p) ==
  /\ payer[p].at = "confirm"
  /\ \E r \in Relays :
       /\ handler[r].at = "confirm" /\ handler[r].to = p
       /\ handler' = [handler EXCEPT ![r] = [at |-> "select"]]
  /\ payer' = [payer EXCEPT ![p].left = @ - 1,
                            ![p].at = IF payer[p].left > 1 THEN @
                                      ELSE IF p \in TopUps THEN "done" ELSE "send"]
  /\ UNCHANGED <<payChan, pending, remaining, onions, recorded, paid, spent, twice, dropped, pauses>>

\* Mutant: the sessions are recorded as soon as their onion is sent.
SendSessions_Records(p) ==
  /\ payer[p].at = "send"
  /\ payer' = [payer EXCEPT ![p].at = "sent"]
  /\ onions' = onions \cup {[of |-> p, hop |-> 1]}
  /\ recorded' = recorded \cup ToSet(Buys[p])
  /\ UNCHANGED <<payChan, handler, pending, remaining, paid, spent, twice, dropped, pauses>>

\* All are confirmed: the session onion goes to the first relay.
SendSessions(p) ==
  /\ payer[p].at = "send"
  /\ payer' = [payer EXCEPT ![p].at = "sent"]
  /\ onions' = onions \cup {[of |-> p, hop |-> 1]}
  /\ UNCHANGED <<payChan, handler, pending, remaining, recorded, paid, spent, twice, dropped, pauses>>

\* The confirmation is back: the hook that waits for it runs once, and records
\* all the sessions.  A second one finds no hook.
Confirmed(p) ==
  /\ [of |-> p, hop |-> Len(Buys[p]) + 1] \in onions
  /\ \E again \in BOOLEAN : /\ again => payer[p].at = "sent"
                           /\ onions' = IF again THEN onions ELSE onions \ {[of |-> p, hop |-> Len(Buys[p]) + 1]}
  /\ recorded' = IF payer[p].at = "sent" THEN recorded \cup ToSet(Buys[p]) ELSE recorded
  /\ payer' = [payer EXCEPT ![p].at = "done"]
  /\ UNCHANGED <<payChan, handler, pending, remaining, paid, spent, twice, dropped, pauses>>

-----------------------------------------------------------------------------
(* The relay. *)


\* A payment for a session the relay has tops it up; another waits for its
\* session.  The loop then stays until the payer takes the confirmation.
HandlePayment(r) ==
  /\ handler[r].at = "select" /\ payChan[r] # <<>>
  /\ LET x == Head(payChan[r])
         k == x.preimage
         known == k \in DOMAIN remaining[r]
     IN  /\ payChan' = [payChan EXCEPT ![r] = Tail(@)]
         /\ remaining' = IF known THEN [remaining EXCEPT ![r][k] = @ + 1] ELSE remaining
         /\ pending' = IF known THEN pending ELSE [pending EXCEPT ![r] = Append(@, x)]
         /\ twice' = IF ~known /\ FindPreimage(pending[r], k) THEN twice \cup {k} ELSE twice
         /\ handler' = [handler EXCEPT ![r] = [at |-> "confirm", to |-> x.by]]
  /\ UNCHANGED <<payer, onions, recorded, paid, spent, dropped, pauses>>

\* Mutant: deletes nothing.
Delete_Nothing(s, k) == s

\* Delete moves the rest down in the same array while it ranges over the old
\* length, and the last match decides what is returned: of two payments with
\* the preimage one stays.
Delete(s, k) ==
  LET n == Len(s)
      step(a, i) ==
        IF a.arr[i].preimage # k THEN a
        ELSE LET arr == IF i = n THEN a.arr ELSE RemoveAt(a.arr, i) \o <<a.arr[n]>>
             IN  [arr |-> arr, out |-> SubSeq(arr, 1, n - 1)]
  IN  FoldLeft(step, [arr |-> s, out |-> s], [i \in 1..n |-> i]).out

\* The sessions of a relay with one more, paid for once.
AddSession(sessions, k) ==
  [j \in DOMAIN sessions \cup {k} |-> IF j = k THEN 1 ELSE sessions[j]]

\* Session.Handle: with a payment waiting, the payment goes, the session is
\* added unless its header key is known, and the rest of the onion goes on to
\* the next hop.  Without one the whole onion is dropped.
HandleSession(r) ==
  /\ handler[r].at = "select"
  /\ \E o \in onions :
       /\ o.hop <= Len(Buys[o.of]) /\ RelayOf[Buys[o.of][o.hop]] = r
       /\ LET k == Buys[o.of][o.hop]
              has == FindPreimage(pending[r], k)
          IN  /\ pending' = [pending EXCEPT ![r] = IF has THEN Delete(@, k) ELSE @]
              /\ remaining' = IF has /\ k \notin DOMAIN remaining[r]
                              THEN [remaining EXCEPT ![r] = AddSession(@, k)] ELSE remaining
              /\ \E again \in BOOLEAN :
                   onions' = (IF again THEN onions ELSE onions \ {o})
                               \cup (IF has THEN {[o EXCEPT !.hop = @ + 1]} ELSE {})
  /\ UNCHANGED <<payer, payChan, handler, recorded, paid, spent, twice, dropped, pauses>>

\* A message relayed on a session costs it one, if it has one left.
Charge(r) ==
  /\ handler[r].at = "select"
  /\ \E k \in DOMAIN remaining[r] :
       /\ remaining[r][k] >= 1 /\ spent[k] < MaxSpent[k]
       /\ remaining' = [remaining EXCEPT ![r][k] = @ - 1]
       /\ spent' = [spent EXCEPT ![k] = @ + 1]
  /\ UNCHANGED <<payer, payChan, handler, pending, onions, recorded, paid, twice, dropped, pauses>>

Pause(r) ==
  /\ handler[r].at = "select" /\ pauses < MaxPause
  /\ handler' = [handler EXCEPT ![r] = [at |-> "paused"]]
  /\ pauses' = pauses + 1
  /\ UNCHANGED <<payer, payChan, pending, remaining, onions, recorded, paid, spent, twice, dropped>>

\* A paused relay throws payments away and confirms none of them.
DiscardPayment(r) ==
  /\ handler[r].at = "paused" /\ payChan[r] # <<>>
  /\ payChan' = [payChan EXCEPT ![r] = Tail(@)]
  /\ dropped' = dropped \cup {Head(payChan[r]).preimage}
  /\ UNCHANGED <<payer, handler, pending, remaining, onions, recorded, paid, spent, twice, pauses>>

\* It throws messages away as well, and the network may lose them anywhere.
DiscardMessage ==
  /\ \E o \in onions : onions' = onions \ {o}
  /\ UNCHANGED <<payer, payChan, handler, pending, remaining, recorded, paid, spent, twice, dropped, pauses>>

Unpause(r) ==
  /\ handler[r].at = "paused"
  /\ handler' = [handler EXCEPT ![r] = [at |-> "select"]]
  /\ UNCHANGED <<payer, payChan, pending, remaining, onions, recorded, paid, spent, twice, dropped, pauses>>

-----------------------------------------------------------------------------
PayerStep(p) == Pay(p) \/ TakeConfirm(p) \/ SendSessions(p) \/ Confirmed(p)
RelayStep(r) ==
  \/ HandlePayment(r) \/ HandleSession(r) \/ Charge(r)
  \/ Pause(r) \/ DiscardPayment(r) \/ Unpause(r)
PaymentsNext ==
  (\E p \in Payers : PayerStep(p)) \/ (\E r \in Relays : RelayStep(r)) \/ DiscardMessage

\* A goroutine that can go on does.  A select that finds a payment ready again
\* and again takes it some time, and a pause ends.
PaymentsFairness ==
  /\ WF_payVars(\E p \in Payers : Pay(p) \/ TakeConfirm(p))
  /\ SF_payVars(\E r \in Relays : HandlePayment(r))
  /\ WF_payVars(\E r \in Relays : Unpause(r))
PaymentsSpec == PaymentsInit /\ [][PaymentsNext]_payVars /\ PaymentsFairness

-----------------------------------------------------------------------------
\* What a relay holds of the payments for key k: in its channel, pending, left
\* on the session and spent.
Held(k) ==
  LET r == RelayOf[k]
  IN  Occurs(payChan[r], k) + Occurs(pending[r], k) + spent[k]
        + (IF k \in DOMAIN remaining[r] THEN remaining[r][k] ELSE 0)

\* No payment is credited twice, however often the session onion arrives, and
\* none is lost: Session.Handle deletes the payment before it adds the session
\* "in case somehow two such messages arrive at the same time".  Lost are only
\* payments thrown away in a pause, and the second of two that both came before
\* their session.
PaymentsAccounted ==
  \A k \in Keys : /\ Held(k) <= paid[k]
                  /\ k \notin twice \cup dropped => Held(k) = paid[k]

\* A payer records a session only when the relay has it too: the confirmation
\* comes back only through relays that each found its payment.
ClientBacked == \A k \in recorded : k \in DOMAIN remaining[RelayOf[k]]

=============================================================================

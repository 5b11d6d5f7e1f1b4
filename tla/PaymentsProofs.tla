--------------------------- MODULE PaymentsProofs ---------------------------
(***************************************************************************)
(* What a client records of its purchases is there at the relays, for any  *)
(* number of payers, relays and sessions, and however onions are lost and  *)
(* repeated.                                                               *)
(***************************************************************************)
EXTENDS Payments, TLAPS

Has(k) == k \in DOMAIN remaining[RelayOf[k]]

(***************************************************************************)
(* The invariant: the relays an onion has passed have its sessions, so     *)
(* that one that has passed them all is a confirmation.                    *)
(***************************************************************************)
Passed ==
  \A o \in onions : \A i \in 1..Len(Buys[o.of]) : i < o.hop => Has(Buys[o.of][i])

PayInv ==
  /\ onions \subseteq [of : Payers, hop : Nat]
  /\ DOMAIN remaining = Relays /\ recorded \subseteq Keys
  /\ Passed /\ ClientBacked

\* The keys of a payer, and their relays.
LEMMA Bought ==
  ASSUME NEW p \in Payers
  PROVE  /\ Len(Buys[p]) \in Nat
         /\ \A i \in 1..Len(Buys[p]) : Buys[p][i] \in Keys /\ RelayOf[Buys[p][i]] \in Relays
  BY PaymentsAssumption

\* Sessions stay: what the relays had they have after every step.
Stay == DOMAIN remaining' = Relays /\ \A k \in Keys : Has(k) => Has(k)'

LEMMA StayKeeps ==
  ASSUME PayInv, Stay, recorded' = recorded, onions' \subseteq onions
  PROVE  PayInv'
<1>1. Passed'
  <2> SUFFICES ASSUME NEW o \in onions', NEW i \in 1..Len(Buys[o.of]), i < o.hop
               PROVE  Has(Buys[o.of][i])'
    BY DEF Passed
  <2>1. o \in onions /\ o.of \in Payers
    BY DEF PayInv
  <2>2. Buys[o.of][i] \in Keys /\ Has(Buys[o.of][i])
    BY <2>1, Bought DEF PayInv, Passed
  <2> QED
    BY <2>2 DEF Stay
<1>2. ClientBacked'
  BY DEF PayInv, ClientBacked, Stay, Has
<1> QED
  BY <1>1, <1>2 DEF PayInv, Stay

\* A step that leaves the sessions of the relays alone.
LEMMA SameSessions ==
  ASSUME PayInv, remaining' = remaining PROVE Stay
  BY DEF PayInv, Stay, Has

LEMMA SendSessionsInv ==
  ASSUME PayInv, NEW p \in Payers, SendSessions(p) PROVE PayInv'
<1>1. /\ onions' = onions \cup {[of |-> p, hop |-> 1]}
      /\ UNCHANGED <<remaining, recorded>>
  BY DEF SendSessions
<1>2. Passed'
  <2> SUFFICES ASSUME NEW o \in onions', NEW i \in 1..Len(Buys[o.of]), i < o.hop
               PROVE  Has(Buys[o.of][i])
    BY <1>1 DEF Passed, Has
  <2>1. o # [of |-> p, hop |-> 1]
    BY Bought
  <2> QED
    BY <1>1, <2>1 DEF PayInv, Passed
<1> QED
  BY <1>1, <1>2 DEF PayInv, ClientBacked

\* What a confirmation records, the relays it has passed have.
LEMMA ConfirmedInv ==
  ASSUME PayInv, NEW p \in Payers, Confirmed(p) PROVE PayInv'
<1> DEFINE o == [of |-> p, hop |-> Len(Buys[p]) + 1]
<1>1. /\ o \in onions /\ onions' \subseteq onions /\ remaining' = remaining
      /\ recorded' \subseteq recorded \cup ToSet(Buys[p])
  BY DEF Confirmed
<1>2. \A k \in ToSet(Buys[p]) : k \in Keys /\ Has(k)
  <2> SUFFICES ASSUME NEW i \in 1..Len(Buys[p]) PROVE Buys[p][i] \in Keys /\ Has(Buys[p][i])
    BY Bought, PaymentsAssumption DEF ToSet
  <2>1. i < Len(Buys[p]) + 1
    BY Bought
  <2> QED
    BY <1>1, <2>1, Bought DEF PayInv, Passed
<1>3. onions' \subseteq [of : Payers, hop : Nat] /\ DOMAIN remaining' = Relays
  BY <1>1 DEF PayInv
<1>4. recorded' \subseteq Keys /\ ClientBacked'
  BY <1>1, <1>2 DEF PayInv, ClientBacked, Has
<1>5. Passed'
  BY <1>1 DEF PayInv, Passed, Has
<1> QED
  BY <1>3, <1>4, <1>5 DEF PayInv

\* A session that is added is one more.
LEMMA AddSessionFacts ==
  ASSUME NEW f, NEW k PROVE DOMAIN AddSession(f, k) = DOMAIN f \cup {k}
  BY DEF AddSession

\* The onion goes on only from a relay that has found its payment, and that
\* relay then has the session, if it had not before.
LEMMA HandleSessionInv ==
  ASSUME PayInv, NEW r \in Relays, HandleSession(r) PROVE PayInv'
<1>1. PICK o \in onions :
        /\ o.hop <= Len(Buys[o.of]) /\ RelayOf[Buys[o.of][o.hop]] = r
        /\ LET k == Buys[o.of][o.hop]
               has == FindPreimage(pending[r], k)
           IN  /\ remaining' = IF has /\ k \notin DOMAIN remaining[r]
                               THEN [remaining EXCEPT ![r] = AddSession(@, k)] ELSE remaining
               /\ onions' \subseteq onions \cup (IF has THEN {[o EXCEPT !.hop = @ + 1]} ELSE {})
  <2>1. PICK o \in onions :
        /\ o.hop <= Len(Buys[o.of]) /\ RelayOf[Buys[o.of][o.hop]] = r
        /\ LET k == Buys[o.of][o.hop]
               has == FindPreimage(pending[r], k)
           IN  /\ pending' = [pending EXCEPT ![r] = IF has THEN Delete(@, k) ELSE @]
               /\ remaining' = IF has /\ k \notin DOMAIN remaining[r]
                               THEN [remaining EXCEPT ![r] = AddSession(@, k)] ELSE remaining
               /\ \E again \in BOOLEAN :
                    onions' = (IF again THEN onions ELSE onions \ {o})
                                \cup (IF has THEN {[o EXCEPT !.hop = @ + 1]} ELSE {})
    BY DEF HandleSession
  <2> QED
    BY <2>1
<1> DEFINE k == Buys[o.of][o.hop]
           has == FindPreimage(pending[r], k)
           next == [o EXCEPT !.hop = @ + 1]
<1>2. o.of \in Payers /\ o.hop \in Nat /\ o = [of |-> o.of, hop |-> o.hop]
  BY DEF PayInv
<1>3. /\ remaining' = IF has /\ k \notin DOMAIN remaining[r]
                      THEN [remaining EXCEPT ![r] = AddSession(@, k)] ELSE remaining
      /\ onions' \subseteq onions \cup (IF has THEN {next} ELSE {})
      /\ RelayOf[k] = r /\ o.hop <= Len(Buys[o.of])
  BY <1>1
<1>4. recorded' = recorded
  BY DEF HandleSession
<1>5. next = [of |-> o.of, hop |-> o.hop + 1]
  BY <1>2
<1> HIDE DEF k, has, next
<1>6. Stay /\ (has => k \in DOMAIN remaining'[r])
  <2>1. CASE has /\ k \notin DOMAIN remaining[r]
    <3>1. remaining' = [remaining EXCEPT ![r] = AddSession(remaining[r], k)]
      BY <1>3, <2>1
    <3>2. DOMAIN remaining' = Relays /\ DOMAIN remaining'[r] = DOMAIN remaining[r] \cup {k}
      BY <3>1, AddSessionFacts DEF PayInv
    <3>3. \A q \in Relays : DOMAIN remaining[q] \subseteq DOMAIN remaining'[q]
      BY <3>1, <3>2 DEF PayInv
    <3>4. \A j \in Keys : RelayOf[j] \in Relays
      BY PaymentsAssumption
    <3> QED
      BY <3>2, <3>3, <3>4 DEF Stay, Has
  <2>2. CASE ~(has /\ k \notin DOMAIN remaining[r])
    BY <1>3, <2>2, SameSessions
  <2> QED
    BY <2>1, <2>2
<1>7. Passed'
  <2> SUFFICES ASSUME NEW x \in onions', NEW i \in 1..Len(Buys[x.of]), i < x.hop
               PROVE  Has(Buys[x.of][i])'
    BY DEF Passed
  <2>1. CASE x \in onions
    <3>1. x.of \in Payers
      BY <2>1 DEF PayInv
    <3>2. Buys[x.of][i] \in Keys /\ Has(Buys[x.of][i])
      BY <2>1, <3>1, Bought DEF PayInv, Passed
    <3> QED
      BY <3>2, <1>6 DEF Stay
  <2>2. CASE x \notin onions
    <3>1. has /\ x = next
      BY <1>3, <2>2
    <3>2. x.of = o.of /\ x.hop = o.hop + 1
      BY <1>5, <3>1
    <3>3. i \in Nat /\ Len(Buys[o.of]) \in Nat
      BY <3>2, <1>2, Bought
    <3>4. CASE i = o.hop
      BY <1>3, <1>6, <3>1, <3>2, <3>4 DEF Has, k
    <3>5. CASE i # o.hop
      <4>1. i < o.hop /\ i \in 1..Len(Buys[o.of])
        BY <1>2, <3>2, <3>3, <3>5
      <4>2. Buys[o.of][i] \in Keys /\ Has(Buys[o.of][i])
        BY <1>2, <4>1, Bought DEF PayInv, Passed
      <4> QED
        BY <1>6, <3>2, <4>2 DEF Stay
    <3> QED
      BY <3>4, <3>5
  <2> QED
    BY <2>1, <2>2
<1>8. onions' \subseteq [of : Payers, hop : Nat]
  BY <1>2, <1>3, <1>5 DEF PayInv
<1>9. ClientBacked'
  BY <1>4, <1>6 DEF PayInv, ClientBacked, Stay, Has
<1> QED
  BY <1>4, <1>6, <1>7, <1>8, <1>9 DEF PayInv, Stay

\* The other steps of a relay: a top-up and a charge change the balance of a
\* session the relay has.
LEMMA BalanceStays ==
  ASSUME PayInv, NEW r \in Relays, HandlePayment(r) \/ Charge(r)
  PROVE  Stay /\ onions' = onions /\ recorded' = recorded
<1>1. onions' = onions /\ recorded' = recorded
  BY DEF HandlePayment, Charge
<1>2. CASE remaining' = remaining
  BY <1>1, <1>2, SameSessions
<1>3. CASE \E f : /\ remaining' = [remaining EXCEPT ![r] = f] /\ DOMAIN f = DOMAIN remaining[r]
  <2>1. DOMAIN remaining' = Relays /\ \A q \in Relays : DOMAIN remaining'[q] = DOMAIN remaining[q]
    BY <1>3 DEF PayInv
  <2>2. \A j \in Keys : RelayOf[j] \in Relays
    BY PaymentsAssumption
  <2> QED
    BY <1>1, <2>1, <2>2 DEF Stay, Has
<1>4. CASE HandlePayment(r)
  <2> DEFINE k == Head(payChan[r]).preimage
  <2>1. remaining' = IF k \in DOMAIN remaining[r] THEN [remaining EXCEPT ![r][k] = @ + 1] ELSE remaining
    BY <1>4 DEF HandlePayment
  <2>2. CASE k \in DOMAIN remaining[r]
    <3> DEFINE f == [remaining[r] EXCEPT ![k] = remaining[r][k] + 1]
    <3>1. remaining' = [remaining EXCEPT ![r] = f] /\ DOMAIN f = DOMAIN remaining[r]
      BY <2>1, <2>2
    <3> QED
      BY <1>3, <3>1
  <2> QED
    BY <1>2, <2>1, <2>2
<1>5. CASE Charge(r)
  <2>1. PICK k \in DOMAIN remaining[r] : remaining' = [remaining EXCEPT ![r][k] = @ - 1]
    BY <1>5 DEF Charge
  <2> DEFINE f == [remaining[r] EXCEPT ![k] = remaining[r][k] - 1]
  <2>2. remaining' = [remaining EXCEPT ![r] = f] /\ DOMAIN f = DOMAIN remaining[r]
    BY <2>1
  <2> QED
    BY <1>3, <2>2
<1> QED
  BY <1>4, <1>5

LEMMA PayInvInit == PaymentsInit => PayInv
  BY DEF PaymentsInit, NothingPaid, PayInv, Passed, ClientBacked

LEMMA PayInvStep == ASSUME PayInv, [PaymentsNext]_payVars PROVE PayInv'
<1>1. ASSUME NEW p \in Payers, Pay(p) \/ TakeConfirm(p) PROVE PayInv'
  <2>1. UNCHANGED <<onions, remaining, recorded>>
    BY <1>1 DEF Pay, TakeConfirm
  <2> QED
    BY <2>1, SameSessions, StayKeeps
<1>2. ASSUME NEW r \in Relays, Pause(r) \/ DiscardPayment(r) \/ Unpause(r) PROVE PayInv'
  <2>1. UNCHANGED <<onions, remaining, recorded>>
    BY <1>2 DEF Pause, DiscardPayment, Unpause
  <2> QED
    BY <2>1, SameSessions, StayKeeps
<1>3. ASSUME NEW r \in Relays, HandlePayment(r) \/ Charge(r) PROVE PayInv'
  BY <1>3, BalanceStays, StayKeeps
<1>4. CASE DiscardMessage
  <2>1. onions' \subseteq onions /\ UNCHANGED <<remaining, recorded>>
    BY <1>4 DEF DiscardMessage
  <2> QED
    BY <2>1, SameSessions, StayKeeps
<1>5. CASE UNCHANGED payVars
  <2>1. UNCHANGED <<onions, remaining, recorded>>
    BY <1>5 DEF payVars
  <2> QED
    BY <2>1, SameSessions, StayKeeps
<1> QED
  BY <1>1, <1>2, <1>3, <1>4, <1>5, SendSessionsInv, ConfirmedInv, HandleSessionInv
  DEF PaymentsNext, PayerStep, RelayStep

\* A session a payer has recorded is there at its relay: the confirmation comes
\* back only through relays that each found its payment, and none of them gives
\* a session up.
THEOREM ClientBackedTheorem == PaymentsSpec => []ClientBacked
<1>1. PayInv => ClientBacked
  BY DEF PayInv
<1> QED
  BY <1>1, PayInvInit, PayInvStep, PTL DEF PaymentsSpec
=============================================================================

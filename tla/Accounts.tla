------------------------------ MODULE Accounts ------------------------------
(***************************************************************************)
(* The money of a circuit: buying and topping up its sessions (Payments),  *)
(* or spending them on requests (Exchange).  A behaviour is one of either. *)
(***************************************************************************)
EXTENDS Payments

CONSTANTS RelayRate, ServiceRate, ReqLen, RepLen, PadLen, Unit, Start,
          SvcBuf, MaxRepeats

VARIABLES msgs, hooks, relay, client, waiting, svcIn, svcOut, called,
          todo, repeats, lost, late, short, mixed
exchangeVars == <<msgs, hooks, relay, client, waiting, svcIn, svcOut, called,
                  todo, repeats, lost, late, short, mixed>>

\* Two circuits that meet at both relays in opposite order, and a top-up.
MCBuys == [b1 |-> <<"k1", "k2">>, b2 |-> <<"k3", "k4">>, t |-> <<"k1">>]
MCRelayOf == [k1 |-> "r1", k2 |-> "r2", k3 |-> "r2", k4 |-> "r1"]
MCMaxSpent == [k1 |-> 2, k2 |-> 0, k3 |-> 0, k4 |-> 0]

\* SendGetBalance asks with the ID of session 5; 2 is the one it means.
MCRequests ==
  [e1 |-> [kind |-> "exit", ask |-> 0], e2 |-> [kind |-> "exit", ask |-> 0],
   b |-> [kind |-> "getb", ask |-> 2], b5 |-> [kind |-> "getb", ask |-> 5],
   p |-> [kind |-> "ping", ask |-> 0], q |-> [kind |-> "intq", ask |-> 0]]

MCPlans == {{}, {"e1", "e2"}, {"e1", "b"}, {"p", "q"}, {"b5"}}

X == INSTANCE Exchange WITH Requests <- MCRequests, Plans <- MCPlans

NoPayments ==
  /\ payer = [p \in Payers |-> [at |-> "done", next |-> 1, left |-> 0]]
  /\ pauses = MaxPause /\ NothingPaid
AccountsInit == \/ PaymentsInit /\ X!ExchangeInit /\ todo = {}
                \/ NoPayments /\ X!ExchangeInit /\ todo # {}
AccountsNext == \/ PaymentsNext /\ UNCHANGED exchangeVars
                \/ X!ExchangeNext /\ UNCHANGED payVars
AccountsSpec ==
  /\ AccountsInit /\ [][AccountsNext]_<<payVars, exchangeVars>>
  /\ PaymentsFairness /\ X!ExchangeFairness

\* Each relay can read its own layer of a message and no other, and where the
\* message ends every cipher has come off.
OnlyItsOwnLayer == X!OnlyItsOwnLayer

\* The client never thinks a session has less left than its relay does, but for
\* a refused charge and a balance that crosses another request.
ClientNotBehind == X!ClientNotBehind

\* A callback runs at most once, with the answer to its own request as long as
\* no exit has timed out.
AnswersMatch == X!AnswersMatch

=============================================================================

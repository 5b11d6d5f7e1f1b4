------------------------------ MODULE Exchange ------------------------------
(***************************************************************************)
(* A client's requests over one circuit: sessions 0 and 1 lead to session  *)
(* 2, whose relay does the work, and 3 and 4 lead back to session 5, the   *)
(* client's own.  A request for the exit, for a balance or for an intro is *)
(* a routing header of three segments and a payload, each under several    *)
(* ciphers; the reply is built the same way from a header that came in the *)
(* request.  A ping is a plain onion through all six.  Each relay charges  *)
(* the session it relays for, and the client charges its own copy of all   *)
(* of them when the answer is there.  Enciphering twice with one key takes *)
(* the cipher off, so a part of a message is the set of keys it is under.  *)
(***************************************************************************)
EXTENDS Integers, Sequences, SequencesExt, FiniteSets

CONSTANTS Requests,    \* for each ID, [kind |-> ..., ask |-> ...]
          Plans,       \* sets of IDs, one of which the client uses
          RelayRate, ServiceRate,
          ReqLen, RepLen, PadLen,   \* bytes of a request, of a reply, and of a
                                    \* balance reply after padding
          Unit,        \* mSat of a rate times bytes: 1024 * 1024 in the code
          Start,       \* what every session has at first
          SvcBuf,      \* places in the channel to the service
          MaxRepeats   \* messages the network delivers twice

VARIABLES msgs,        \* messages on their way
          hooks,     \* the client's Pending responses, in the order of Add
          relay, client,    \* Remaining of each session, at the relay and here
          waiting,     \* the request the exit is waiting with, or none
          svcIn, svcOut,    \* the channels to and from the service
          called,      \* for each ID, what its callback was given, in order
          todo, repeats, lost, late, short, mixed
exVars == <<msgs, hooks, relay, client, waiting, svcIn, svcOut, called,
            todo, repeats, lost, late, short, mixed>>

IDs == DOMAIN Requests
Sessions == 0..5
None == [id |-> "none"]

-----------------------------------------------------------------------------
(* Ciphers. *)

\* XOR with the stream of a key, on bytes that begin where the stream does.
Encipher(keys, k) == IF k \in keys THEN keys \ {k} ELSE keys \cup {k}
HeaderKey(s) == <<"header", s>>
PayloadKey(s) == <<"payload", s>>

Noise == [to |-> 6, keys |-> {}]
Readable(seg) == seg # Noise /\ seg.keys = {}

\* Mutant: the payload is left as it is.
CryptEncode_HeaderOnly(m, i) ==
  [m EXCEPT !.hdr = [j \in 1..3 |->
      IF j > i THEN [m.hdr[j] EXCEPT !.keys = Encipher(@, HeaderKey(m.hdr[i].to))] ELSE m.hdr[j]]]

\* Crypt.Encode of segment i, at Depth 4 - i: its header key is on the segments
\* after it, its payload key on what comes after the header.
CryptEncode(m, i) ==
  LET s == m.hdr[i].to
  IN  [m EXCEPT !.hdr = [j \in 1..3 |->
                           IF j > i THEN [m.hdr[j] EXCEPT !.keys = Encipher(@, HeaderKey(s))]
                           ELSE m.hdr[j]],
                !.keys = Encipher(@, PayloadKey(s))]

\* The layers are encoded from the inside out.
RoutingHeader(m, path) ==
  LET plain == [m EXCEPT !.hdr = [j \in 1..3 |-> [to |-> path[j], keys |-> {}]]]
  IN  CryptEncode(CryptEncode(CryptEncode(plain, 3), 2), 1)

\* The ciphers in a request are the payload keys of the way back.  A header at
\* the end of a message has nothing after it to encipher.
FormatReply(m, path, ciphers) ==
  LET header == RoutingHeader(m, path).hdr
  IN  [m EXCEPT !.hdr = header, !.keys = FoldLeft(Encipher, {}, ciphers)]

\* GetHeaders: the way there ends with bob, the way back with alice.
\* SendIntroQuery hands the two over the other way round.
ForwardPath(kind) == IF kind = "intq" THEN <<0, 1, 5>> ELSE <<0, 1, 2>>
ReturnPath(kind) == IF kind = "intq" THEN <<3, 4, 2>> ELSE <<3, 4, 5>>
Ciphers(kind) == [i \in 1..3 |-> PayloadKey(ReturnPath(kind)[i])]

-----------------------------------------------------------------------------
(* Accounts. *)

Half(x) == x \div 2

\* DecSats refuses what the session does not have.  No caller looks.
Dec(have, cost) == IF have < cost \div Unit THEN have ELSE have - cost \div Unit
Refused(have, cost) == have < cost \div Unit

ChargeRelay(s, cost) ==
  /\ relay' = [relay EXCEPT ![s] = Dec(@, cost)]
  /\ short' = IF Refused(relay[s], cost) THEN short \cup {s} ELSE short

\* The ID that the answer will carry: a balance is asked for by session.
SessionID(s) == <<"session", s>>
AnswerID(id) == IF Requests[id].kind = "getb" THEN SessionID(Requests[id].ask) ELSE <<id>>
Hook(id) == [of |-> id, id |-> AnswerID(id)]
HooksFor(a) == {i \in 1..Len(hooks) : hooks[i].id = a}
FirstHook(a) == CHOOSE i \in HooksFor(a) : \A j \in HooksFor(a) : i <= j

Sent(id) == called[id] # <<>> \/ \E i \in 1..Len(hooks) : hooks[i].of = id

\* The charges PostAcctOnion keeps with a hook.  Forward.Account: a ping pays
\* every relay for the way to the next.  Exit.Account: the way to the service.
ForwardAccount(s) == IF s < 5 THEN RelayRate * ReqLen ELSE 0
ExitAccount(s) == IF s = 2 THEN Half(ServiceRate * ReqLen) ELSE 0
PostAcct(id, s) ==
  CASE Requests[id].kind = "ping" -> ForwardAccount(s)
    [] Requests[id].kind = "exit" -> ExitAccount(s)
    [] OTHER -> 0

\* Mutant: the hook stays.
ProcessAndDelete_Keeps(a, accounts, answer) ==
  LET id == hooks[FirstHook(a)].of
  IN  /\ client' = [s \in Sessions |-> Dec(accounts[s], PostAcct(id, s))]
      /\ called' = [called EXCEPT ![id] = Append(@, answer)]
      /\ hooks' = hooks

\* ProcessAndDelete: the charges kept with the first hook of that ID, its
\* callback, and it is gone.
ProcessAndDelete(a, accounts, answer) ==
  LET id == hooks[FirstHook(a)].of
  IN  /\ client' = [s \in Sessions |-> Dec(accounts[s], PostAcct(id, s))]
      /\ called' = [called EXCEPT ![id] = Append(@, answer)]
      /\ hooks' = RemoveAt(hooks, FirstHook(a))

-----------------------------------------------------------------------------
(* The client sends. *)

Blank(id, body) == [id |-> id, body |-> body, answer |-> "none", amount |-> 0, hdr |-> <<>>,
                    keys |-> {}, len |-> ReqLen]

\* SendWithOneHook keeps the hook, and only then sends.
SendWithOneHook(id, m) ==
  /\ id \in todo /\ todo' = todo \ {id}
  /\ hooks' = Append(hooks, Hook(id))
  /\ msgs' = msgs \cup {m}
  /\ UNCHANGED <<relay, client, waiting, svcIn, svcOut, called, repeats, lost, late, short, mixed>>

Kind(id) == Requests[id].kind
SendExit(id) ==
  Kind(id) = "exit" /\ SendWithOneHook(id, RoutingHeader(Blank(id, "exit"), ForwardPath("exit")))
SendGetBalance(id) ==
  Kind(id) = "getb" /\ SendWithOneHook(id, RoutingHeader(Blank(id, "getb"), ForwardPath("getb")))
SendIntroQuery(id) ==
  Kind(id) = "intq" /\ SendWithOneHook(id, RoutingHeader(Blank(id, "intq"), ForwardPath("intq")))
SendPing(id) ==
  Kind(id) = "ping" /\ SendWithOneHook(id, [id |-> id, body |-> "ping", left |-> <<0, 1, 2, 3, 4, 5>>])

-----------------------------------------------------------------------------
(* On the way. *)

\* The session whose relay has a message next.  The relay of session 2 takes no
\* message while it waits for the service.
At(m) == IF m.body = "ping" THEN Head(m.left) ELSE m.hdr[1].to
Received(m) == At(m) = 2 => waiting = None
Without(m) == msgs \ {m}

\* Crypt.Handle takes the layer of its session off and goes on with the rest.
Peeled(m) == [m EXCEPT !.left = Tail(@)]

\* Forward.Handle: the rest of a ping goes to the next hop.
HandleForward(m) ==
  /\ m.body = "ping" /\ At(m) < 5 /\ Received(m)
  /\ msgs' = Without(m) \cup {Peeled(m)}
  /\ ChargeRelay(At(m), RelayRate * ReqLen)
  /\ UNCHANGED <<hooks, client, waiting, svcIn, svcOut, called, mixed>>

\* Reverse.Handle takes the ciphers of its session off the next two segments
\* and off the payload, moves the segments up and puts noise in the last.
Unwrapped(m) ==
  LET s == m.hdr[1].to
      off(seg) == IF seg = Noise THEN Noise ELSE [seg EXCEPT !.keys = Encipher(@, HeaderKey(s))]
  IN  [m EXCEPT !.hdr = <<off(m.hdr[2]), off(m.hdr[3]), Noise>>,
                !.keys = Encipher(@, PayloadKey(s))]
Opened(m) == Received(m) /\ Readable(m.hdr[1])
ForUs(m) == ~Readable(Unwrapped(m).hdr[1])

\* With another segment in front the session pays, and the message goes on.
HandleReverse(m) ==
  /\ m.body # "ping" /\ Opened(m) /\ ~ForUs(m)
  /\ msgs' = Without(m) \cup {Unwrapped(m)}
  /\ ChargeRelay(At(m), RelayRate * m.len)
  /\ UNCHANGED <<hooks, client, waiting, svcIn, svcOut, called, mixed>>

-----------------------------------------------------------------------------
(* The relay of session 2. *)

\* Exit.Handle hands the payload to the service, and waits.
HandleExit(m) ==
  /\ m.body = "exit" /\ Opened(m) /\ ForUs(m)
  /\ Len(svcIn) < SvcBuf
  /\ svcIn' = Append(svcIn, m.id) /\ waiting' = Unwrapped(m) /\ msgs' = Without(m)
  /\ UNCHANGED <<relay, short, hooks, client, svcOut, called, mixed>>

\* The service is not part of the engine.
Serve ==
  /\ svcIn # <<>>
  /\ svcIn' = Tail(svcIn) /\ svcOut' = Append(svcOut, Head(svcIn))
  /\ UNCHANGED <<msgs, hooks, relay, client, waiting, called, todo, repeats, lost, late, short, mixed>>

\* The rest of Exit.Handle: the first answer in the channel, or none after five
\* seconds, goes back, and the session pays for both directions at once.
Reply(m, answer) ==
  /\ msgs' = msgs \cup {FormatReply([m EXCEPT !.body = "resp", !.answer = answer, !.len = RepLen],
                                    ReturnPath("exit"), Ciphers("exit"))}
  /\ ChargeRelay(2, Half(ServiceRate * ReqLen) + Half(ServiceRate * RepLen))
  /\ waiting' = None
ExitAnswer ==
  /\ waiting # None /\ svcOut # <<>>
  /\ Reply(waiting, Head(svcOut)) /\ svcOut' = Tail(svcOut)
  /\ UNCHANGED <<hooks, client, svcIn, called, todo, repeats, lost, late, mixed>>

ExitTimeout ==
  /\ waiting # None
  /\ Reply(waiting, "none") /\ late' = TRUE
  /\ UNCHANGED <<hooks, client, svcIn, svcOut, called, todo, repeats, lost, mixed>>

\* GetBalance.Handle looks for the session with the ID in the message, charges
\* for a padded reply, and reads the balance again.  SendGetBalance asks with
\* the ID of session 5, which the relay does not know: the message is dropped.
HandleGetBalance(m) ==
  /\ m.body = "getb" /\ Opened(m) /\ ForUs(m)
  /\ IF Requests[m.id].ask = 2
     THEN /\ ChargeRelay(2, Half(RelayRate * ReqLen) + Half(RelayRate * PadLen))
          /\ msgs' = Without(m) \cup
               {FormatReply([Unwrapped(m) EXCEPT !.body = "bala", !.amount = relay'[2], !.len = RepLen],
                            ReturnPath("getb"), Ciphers("getb"))}
     ELSE msgs' = Without(m) /\ UNCHANGED <<relay, short>>
  /\ UNCHANGED <<hooks, client, waiting, svcIn, svcOut, called, mixed>>

\* IntroQuery.Handle: no intro is ever put in KnownIntros, and a query for one
\* that is not there gets no answer.  It arrives at the client itself.
HandleIntroQuery(m) ==
  /\ m.body = "intq" /\ Opened(m) /\ ForUs(m)
  /\ msgs' = Without(m)
  /\ UNCHANGED <<relay, short, hooks, client, waiting, svcIn, svcOut, called, mixed>>

-----------------------------------------------------------------------------
(* Back at the client. *)

\* Mutant: the service's rate is not halved.
ResponseCost_Whole(s, m) ==
  CASE s \in {0, 1} -> RelayRate * ReqLen
    [] s = 2 -> ServiceRate * m.len
    [] OTHER -> RelayRate * m.len

\* Response.Handle charges every session that Billable lists.
ResponseCost(s, m) ==
  CASE s \in {0, 1} -> RelayRate * ReqLen
    [] s = 2 -> Half(ServiceRate) * m.len
    [] OTHER -> RelayRate * m.len
HandleResponse(m) ==
  /\ m.body = "resp" /\ Opened(m) /\ ForUs(m)
  /\ msgs' = Without(m)
  /\ IF HooksFor(AnswerID(m.id)) = {} THEN UNCHANGED <<client, called, hooks>>
     ELSE ProcessAndDelete(AnswerID(m.id),
                           [s \in Sessions |-> Dec(client[s], ResponseCost(s, m))], m.answer)
  /\ UNCHANGED <<relay, short, waiting, svcIn, svcOut, mixed>>

\* Balance.Handle charges, and then puts what the relay said in place of what
\* it has for the session.
BalanceCost(s, m) ==
  CASE s \in {0, 1} -> RelayRate * ReqLen
    [] s = 2 -> Half(RelayRate * ReqLen + RelayRate * m.len)
    [] OTHER -> RelayRate * m.len
HandleBalance(m) ==
  /\ m.body = "bala" /\ Opened(m) /\ ForUs(m)
  /\ msgs' = Without(m)
  /\ LET a == Requests[m.id].ask
     IN  IF HooksFor(SessionID(a)) = {} THEN UNCHANGED <<client, called, hooks, mixed>>
         ELSE /\ ProcessAndDelete(SessionID(a),
                                  [[s \in Sessions |-> Dec(client[s], BalanceCost(s, m))]
                                     EXCEPT ![a] = m.amount], "balance")
              /\ mixed' = (mixed \/ Len(hooks) > 1)
  /\ UNCHANGED <<relay, short, waiting, svcIn, svcOut>>

\* Confirmation.Handle of a ping: its hook charges the five relays.
HandleConfirmation(m) ==
  /\ m.body = "ping" /\ At(m) = 5
  /\ msgs' = Without(m)
  /\ IF HooksFor(AnswerID(m.id)) = {} THEN UNCHANGED <<client, called, hooks>>
     ELSE ProcessAndDelete(AnswerID(m.id), client, "pong")
  /\ UNCHANGED <<relay, short, waiting, svcIn, svcOut, mixed>>

-----------------------------------------------------------------------------
(* The network. *)

\* A message may be lost anywhere, and the first of a request to the exit may
\* reach its relay a second time, at any later moment.
Lose ==
  /\ \E m \in msgs : msgs' = Without(m) /\ lost' = lost \cup {m.id}
  /\ UNCHANGED <<hooks, relay, client, waiting, svcIn, svcOut, called, todo, repeats, late, short, mixed>>
Repeat ==
  /\ repeats < MaxRepeats /\ repeats' = repeats + 1
  /\ \E id \in IDs :
       /\ Requests[id].kind = "exit" /\ Sent(id)
       /\ msgs' = msgs \cup {RoutingHeader(Blank(id, "exit"), ForwardPath("exit"))}
  /\ UNCHANGED <<hooks, relay, client, waiting, svcIn, svcOut, called, todo, lost, late, short, mixed>>

HandleMessage ==
  /\ UNCHANGED <<todo, repeats, lost, late>>
  /\ \E m \in msgs :
       \/ HandleForward(m) \/ HandleReverse(m)
       \/ HandleExit(m) \/ HandleGetBalance(m) \/ HandleIntroQuery(m)
       \/ HandleResponse(m) \/ HandleBalance(m) \/ HandleConfirmation(m)
ExchangeNext ==
  \/ \E id \in IDs : SendExit(id) \/ SendGetBalance(id) \/ SendIntroQuery(id) \/ SendPing(id)
  \/ HandleMessage
  \/ Serve \/ ExitAnswer \/ ExitTimeout \/ Lose \/ Repeat

ExchangeInit ==
  /\ msgs = {} /\ hooks = <<>> /\ waiting = None /\ svcIn = <<>> /\ svcOut = <<>>
  /\ relay = [s \in 0..4 |-> Start]
  /\ client = [s \in Sessions |-> IF s = 5 THEN 0 ELSE Start]
  /\ called = [id \in IDs |-> <<>>]
  /\ todo \in Plans /\ repeats = 0 /\ lost = {} /\ late = FALSE /\ short = {} /\ mixed = FALSE

\* A message that has reached a node is handled, the service reads its channel,
\* and the timer of the exit fires.
ExchangeFairness ==
  /\ WF_exVars(HandleMessage)
  /\ WF_exVars(Serve) /\ WF_exVars(ExitTimeout)
ExchangeSpec == ExchangeInit /\ [][ExchangeNext]_exVars /\ ExchangeFairness

-----------------------------------------------------------------------------
\* Each relay on the way can read its own segment of the header and no other,
\* and the payload stays under a cipher between all of them; where a message
\* ends, every cipher has come off.
OnlyItsOwnLayer ==
  \A m \in msgs : m.body # "ping" =>
    /\ Readable(m.hdr[1]) /\ ~Readable(m.hdr[2]) /\ ~Readable(m.hdr[3])
    /\ m.keys # {}
    /\ ForUs(m) => Unwrapped(m).keys = {}

\* The client never thinks a session has less left than its relay does, through
\* losses, repeats and timeouts.  Two things undo it: a relay that refused a
\* charge the session could not pay, and a balance that arrived while another
\* request was under way, which the client then pays for twice.
ClientNotBehind ==
  \A s \in 0..4 : s \notin short /\ ~(s = 2 /\ mixed) => client[s] >= relay[s]

\* A callback runs at most once, and an answer from the service goes to the
\* request that asked for it.  After a timeout the answer that comes late is
\* still in the channel, and goes to the next request.
AnswersMatch ==
  \A id \in IDs :
    /\ Len(called[id]) <= 1
    /\ Requests[id].kind = "exit" /\ called[id] # <<>> /\ ~late => called[id][1] = id

=============================================================================

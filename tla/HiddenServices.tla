--------------------------- MODULE HiddenServices ---------------------------
(***************************************************************************)
(* Hidden services: the tables each engine keeps, and the messages that    *)
(* fill and read them.  A host makes an intro for its service, lists it,   *)
(* and sends it to an introducer, which keeps the first it gets for a key. *)
(* A client sends a route request to the relay it knows.  Every change of  *)
(* a table is under the engine's lock.  A third table, KnownIntros, is     *)
(* never written and stays empty.  An intro is the ID its host gave it;    *)
(* IntroKey says which service it is for.                                  *)
(***************************************************************************)
EXTENDS Naturals, Sequences, SequencesExt

CONSTANTS Engines, ServiceKeys, IntroKey,
          MaxListed    \* intros a service is given one by one

VARIABLES services,    \* Services: for each engine, its services and their intros
          myIntros,    \* MyIntros: the intros an engine was given to hand out
          announced,   \* the intros made so far, with the engine that made each
          mail,        \* messages under way
          crashed      \* engines that a handler has brought down
hidVars == <<services, myIntros, announced, mail, crashed>>

Intros == DOMAIN IntroKey
Put(f, k, v) == (k :> v) @@ f
Drop(f, k) == [x \in DOMAIN f \ {k} |-> f[x]]

HiddenInit ==
  /\ services = [n \in Engines |-> <<>>]
  /\ myIntros = [n \in Engines |-> <<>>]
  /\ announced = {} /\ mail = {} /\ crashed = {}

\* AddHiddenService puts a new record in place of one the key already had: the
\* intros listed there are gone.
AddHiddenService(n, k, id) == services' = [services EXCEPT ![n] = Put(@, k, <<id>>)]

\* SendHiddenService lists the service before the message is out.
SendHiddenService(n, id, to) ==
  /\ \A a \in announced : a.id # id
  /\ AddHiddenService(n, IntroKey[id], id)
  /\ announced' = announced \cup {[id |-> id, by |-> n]}
  /\ mail' = mail \cup {[is |-> "hids", id |-> id, to |-> to]}
  /\ UNCHANGED <<myIntros, crashed>>

\* An intro more for a service, listed as often as it is given.  A service that
\* is not there is a nil pointer.
AddIntroToHiddenService(n, k, id) ==
  /\ \E a \in announced : a.id = id /\ a.by = n /\ k = IntroKey[id]
  /\ IF k \notin DOMAIN services[n] THEN crashed' = crashed \cup {n} /\ UNCHANGED services
     ELSE /\ Len(services[n][k]) < MaxListed
          /\ services' = [services EXCEPT ![n][k] = Append(@, id)] /\ UNCHANGED crashed
  /\ UNCHANGED <<myIntros, announced, mail>>


\* The first intro for a key stays.
AddIntro(n, k, id) ==
  myIntros' = IF k \in DOMAIN myIntros[n] THEN myIntros
              ELSE [myIntros EXCEPT ![n] = Put(@, k, id)]

\* The message may come again.
HandleHiddenService(n) ==
  /\ \E m \in mail :
       /\ m.is = "hids" /\ m.to = n
       /\ AddIntro(n, IntroKey[m.id], m.id)
       /\ \E again \in BOOLEAN : mail' = IF again THEN mail ELSE mail \ {m}
  /\ UNCHANGED <<services, announced, crashed>>

\* SendRoute to a relay for which there is a session.
SendRoute(k, to) ==
  /\ mail' = mail \cup {[is |-> "rout", id |-> k, to |-> to]}
  /\ UNCHANGED <<services, myIntros, announced, crashed>>

\* FindCloakedHiddenService looks through the intros and the services.
FindCloakedHiddenService(n, k) ==
  k \in DOMAIN myIntros[n] \cup DOMAIN services[n]

\* Route.Handle goes on only at the host of the service: an introducer finds
\* the key and does nothing.  The host logs its first intro, which is out of
\* range when it has none, and then asks for a fourth of three sessions: either
\* brings the engine down.
HandleRoute(n) ==
  /\ \E m \in mail :
       /\ m.is = "rout" /\ m.to = n /\ mail' = mail \ {m}
       /\ crashed' = IF FindCloakedHiddenService(n, m.id) /\ m.id \in DOMAIN services[n]
                     THEN crashed \cup {n} ELSE crashed
  /\ UNCHANGED <<services, myIntros, announced>>

\* Delete gives up an intro for a key.
Delete(n, k) ==
  /\ k \in DOMAIN myIntros[n]
  /\ myIntros' = [myIntros EXCEPT ![n] = Drop(@, k)]
  /\ UNCHANGED <<services, announced, mail, crashed>>

\* The first service that lists the intro loses it.
DeleteIntroByID(n, id) ==
  /\ \E k \in DOMAIN services[n] :
       /\ id \in ToSet(services[n][k])
       /\ services' = [services EXCEPT ![n][k] =
                         RemoveAt(@, CHOOSE j \in 1..Len(@) : @[j] = id /\ \A h \in 1..(j - 1) : @[h] # id)]
  /\ UNCHANGED <<myIntros, announced, mail, crashed>>

Lose ==
  /\ \E m \in mail : mail' = mail \ {m}
  /\ UNCHANGED <<services, myIntros, announced, crashed>>

EngineStep(n) ==
  \/ HandleHiddenService(n) \/ HandleRoute(n)
  \/ \E k \in ServiceKeys :
       \/ Delete(n, k)
       \/ \E to \in Engines : SendRoute(k, to)
       \/ \E id \in Intros : AddIntroToHiddenService(n, k, id)
  \/ \E id \in Intros :
       DeleteIntroByID(n, id) \/ \E to \in Engines : SendHiddenService(n, id, to)
HiddenNext == Lose \/ \E n \in Engines \ crashed : EngineStep(n)
HiddenSpec == HiddenInit /\ [][HiddenNext]_hidVars

-----------------------------------------------------------------------------
=============================================================================

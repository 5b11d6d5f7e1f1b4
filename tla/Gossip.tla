-------------------------------- MODULE Gossip ------------------------------
(***************************************************************************)
(* How the engines tell each other what they are: the advertisements each  *)
(* makes and signs when it starts (src/pkg/engine/engine.go, ads), their   *)
(* publication, and what a receiver puts in its peer store                 *)
(* (src/pkg/engine/peerstore.go).  The pubsub network is external: it      *)
(* hands a published message to some of the engines that are subscribed,   *)
(* late and in any order.  An ad carries what its engine was in the run    *)
(* that made it.                                                           *)
(***************************************************************************)
EXTENDS Naturals, Sequences

CONSTANTS
    Engines,
    Lifetime,   \* kind of ad -> how long it is valid
    MaxRuns,    \* bound on the starts of an engine
    MaxTime     \* bound on the clock

VARIABLES
    now,
    engine,   \* what runs of an engine, see Off
    inbox,    \* the messages pubsub will hand to an engine
    stored    \* the ads in its peer store: <<owner, kind>> -> ad

gossipVars == <<now, engine, inbox, stored>>

Off == [up |-> FALSE, run |-> 0, ads |-> <<>>, gossip |-> "none", handler |-> "none",
        cancelled |-> FALSE]

GossipInit ==
    /\ now = 0
    /\ engine = [e \in Engines |-> Off]
    /\ inbox = [e \in Engines |-> {}]
    /\ stored = [e \in Engines |-> <<>>]

(* GetAsCerts: the ads in the order they are sent, of the kinds that are given. *)
GetAsCerts ==
    SelectSeq(<<"address", "load", "peer", "services">>, LAMBDA k : k \in DOMAIN Lifetime)

(***************************************************************************)
(* GenerateAds and the signing in New: the load ad expires early, the      *)
(* others late, and all of them are only made again by the next run.       *)
(***************************************************************************)
GenerateAds(e, run) ==
    [i \in 1 .. Len(GetAsCerts) |->
        [owner |-> e, kind |-> GetAsCerts[i], run |-> run,
         expiry |-> now + Lifetime[GetAsCerts[i]]]]

Expired(ad) == ad.expiry < now

Validate(ad) == ad.expiry > now

Subscribed == {e \in Engines : engine[e].up /\ ~engine[e].cancelled}

(* Publish of some ads: each reaches some of the engines that listen. *)
Reached(e, ads, why) ==
    \E to \in SUBSET (Subscribed \ {e}) :
        inbox' = [r \in Engines |->
                     IF r \in to THEN inbox[r] \cup {[ad |-> ads[i], why |-> why] : i \in DOMAIN ads}
                     ELSE inbox[r]]

(***************************************************************************)
(* New: subscribe, make the ads, and send them for the first time; Start:  *)
(* the handler of what others send, and gossip, which sends them again.    *)
(***************************************************************************)
New(e) ==
    /\ ~engine[e].up
    /\ engine[e].run < MaxRuns
    /\ LET run == engine[e].run + 1
       IN  /\ engine' = [engine EXCEPT ![e] = [Off EXCEPT !.up = TRUE, !.run = run,
                                               !.ads = GenerateAds(e, run)]]
           /\ Reached(e, GenerateAds(e, run), "first")
    /\ UNCHANGED <<now, stored>>

Start(e) ==
    /\ engine[e].up
    /\ engine[e].handler = "none"
    /\ engine' = [engine EXCEPT ![e].handler = "running", ![e].gossip = "first"]
    /\ UNCHANGED <<now, inbox, stored>>

(* Publish may fail once the context is cancelled. *)
SendAds(e) ==
    /\ engine[e].gossip = "first"
    /\ engine' = [engine EXCEPT ![e].gossip = "check"]
    /\ \/ Reached(e, engine[e].ads, "first")
       \/ engine[e].cancelled /\ UNCHANGED inbox
    /\ UNCHANGED <<now, stored>>


gossip(e) ==
    /\ engine[e].gossip = "check"
    /\ LET due == SelectSeq(engine[e].ads, Expired)
       IN  \/ Reached(e, due, "tick") /\ engine' = [engine EXCEPT ![e].gossip = "wait"]
           \/ /\ due # <<>>
              /\ engine[e].cancelled
              /\ engine' = [engine EXCEPT ![e].gossip = "ended"]
              /\ UNCHANGED inbox
    /\ UNCHANGED <<now, stored>>

(* The select between the ticker and the context. *)
gossip_Tick(e) ==
    /\ engine[e].gossip = "wait"
    /\ engine' = [engine EXCEPT ![e].gossip = "check"]
    /\ UNCHANGED <<now, inbox, stored>>

gossip_Done(e) ==
    /\ engine[e].gossip = "wait"
    /\ engine[e].cancelled
    /\ engine' = [engine EXCEPT ![e].gossip = "ended"]
    /\ UNCHANGED <<now, inbox, stored>>

(***************************************************************************)
(* RunAdHandler and HandleAd: the next message, one of its own senders'    *)
(* aside; an ad that does not validate is refused, any other is stored in  *)
(* the place of the one before it, be that newer or not.  When the context *)
(* is cancelled the handler gets only errors, and asks again for ever.     *)
(***************************************************************************)
HandleAd(e, m) ==
    /\ engine[e].handler = "running"
    /\ ~engine[e].cancelled
    /\ m \in inbox[e]
    /\ inbox' = [inbox EXCEPT ![e] = @ \ {m}]
    /\ stored' = IF ~Validate(m.ad) THEN stored
                 ELSE [stored EXCEPT ![e] =
                          [k \in DOMAIN @ \cup {<<m.ad.owner, m.ad.kind>>} |->
                              IF k = <<m.ad.owner, m.ad.kind>> THEN m.ad ELSE @[k]]]
    /\ UNCHANGED <<now, engine>>

(* Shutdown cancels the context; the process may end at any time after it. *)
Shutdown(e) ==
    /\ engine[e].up
    /\ ~engine[e].cancelled
    /\ engine' = [engine EXCEPT ![e].cancelled = TRUE]
    /\ UNCHANGED <<now, inbox, stored>>

Exit(e) ==
    /\ engine[e].cancelled
    /\ engine' = [engine EXCEPT ![e] = [Off EXCEPT !.run = engine[e].run]]
    /\ inbox' = [inbox EXCEPT ![e] = {}]
    /\ UNCHANGED <<now, stored>>

Tick == now < MaxTime /\ now' = now + 1 /\ UNCHANGED <<engine, inbox, stored>>

GossipNext ==
    \/ Tick
    \/ \E e \in Engines :
          \/ New(e) \/ Start(e) \/ SendAds(e) \/ gossip(e)
          \/ gossip_Tick(e) \/ gossip_Done(e) \/ Shutdown(e) \/ Exit(e)
          \/ \E m \in inbox[e] : HandleAd(e, m)

GossipSpec == GossipInit /\ [][GossipNext]_gossipVars
-----------------------------------------------------------------------------

=============================================================================

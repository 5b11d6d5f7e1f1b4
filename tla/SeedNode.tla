------------------------------ MODULE SeedNode ------------------------------
(***************************************************************************)
(* Starting and stopping a seed node.  The seed starts storage, then the   *)
(* p2p service, then the rpc server, each in a goroutine of its own that   *)
(* answers on channels with room for one signal.  Storage that is given no *)
(* key runs the same rpc server first, with a service to unlock it.  The   *)
(* operator may interrupt the process at any time, and start it again with *)
(* what the last one left on disk.  proc is all of a process's memory.     *)
(***************************************************************************)
EXTENDS Naturals

CONSTANTS Starts,   \* ways to start: [key |-> "k", "bad", "none" or another, tun |-> BOOLEAN]
          Clients,  \* the unlock requests, each a key
          MaxRuns,  \* processes, one after the other
          Fails     \* whether listening may fail

VARIABLES proc, disk, runs
seedVars == <<proc, disk, runs>>

Signals == {"locked", "unlocked", "storeReady", "configured", "rpcReady", "p2pReady"}
Errors == {"storeErr", "rpcErr", "seedErr"}
Servers == {"unlock", "chat"}
Callers == {"store", "seed"}

\* The globals of the packages, and where each goroutine is.
Process(s) ==
  [seed |-> "storage", store |-> "configure", p2p |-> "off",
   with |-> [w \in Servers |-> "off"],        \* rpc.RunWith and start
   down |-> [c \in Callers |-> "off"],        \* rpc.Shutdown
   unlock |-> [c \in Clients |-> "off"],      \* Service.Unlock
   ch |-> [c \in Signals \cup Errors |-> 0],
   key |-> "zero", noKey |-> FALSE, db |-> "nil", held |-> FALSE,
   inUse |-> FALSE, running |-> FALSE, serving |-> "none", port |-> "null",
   tunPort |-> "null", id |-> "none", tunKey |-> "none",
   start |-> s, cancelled |-> FALSE, fault |-> FALSE, end |-> ""]

Room(c) == proc.ch[c] = 0
Pending(c) == proc.ch[c] > 0
Stays == UNCHANGED <<disk, runs>>

-----------------------------------------------------------------------------
(* Storage. *)

\* configureKey and configureFile.  A key file that is not there is reported,
\* and the start goes on without a key.
Configure ==
  /\ proc.store = "configure"
  /\ LET k == proc.start.key
         new == disk.key = "absent"
     IN  proc' = [proc EXCEPT !.store = "run", !.noKey = (k = "none" /\ ~new),
                    !.key = CASE k = "bad" \/ (k = "none" /\ ~new) -> "zero"
                              [] k = "none" /\ new -> "generated"
                              [] OTHER -> k,
                    !.ch["storeErr"] = IF k = "bad" THEN @ + 1 ELSE @]
  /\ Stays

\* badger.Open: a new database takes any key, and one database is opened once.
Opens(k) == ~proc.held /\ disk.key \in {"absent", k}
attempt_unlock(p, k) ==
  [p EXCEPT !.db = IF Opens(k) THEN "open" ELSE "nil", !.held = @ \/ Opens(k)]
DiskAfter(k) == [disk EXCEPT !.key = IF Opens(k) THEN k ELSE @]

\* Mutant: an attempt that failed gives no signal at all.
Run_Silent ==
  /\ proc.store = "run" /\ UNCHANGED runs
  /\ IF proc.noKey
     THEN proc' = [proc EXCEPT !.store = "select", !.ch["locked"] = 1] /\ UNCHANGED disk
     ELSE /\ proc' = [attempt_unlock(proc, proc.key) EXCEPT !.store = "select",
                        !.ch["unlocked"] = IF Opens(proc.key) THEN 1 ELSE 0]
          /\ disk' = DiskAfter(proc.key)

\* run says it is unlocked after a failed attempt as well, once it has reported it.
Run ==
  /\ proc.store = "run" /\ UNCHANGED runs
  /\ IF proc.noKey
     THEN proc' = [proc EXCEPT !.store = "select", !.ch["locked"] = 1] /\ UNCHANGED disk
     ELSE /\ proc' = [attempt_unlock(proc, proc.key) EXCEPT !.store = "select",
                        !.ch["unlocked"] = 1,
                        !.ch["storeErr"] = IF Opens(proc.key) THEN @ ELSE @ + 1]
          /\ disk' = DiskAfter(proc.key)

\* The loop over signals takes any that is there.
StoreSelect ==
  /\ proc.store = "select" /\ Stays
  /\ \/ /\ Pending("rpcErr")
        /\ proc' = [proc EXCEPT !.store = "off", !.ch["rpcErr"] = @ - 1, !.ch["storeErr"] = @ + 1]
     \/ /\ Pending("unlocked")
        /\ proc' = [proc EXCEPT !.store = "ready", !.ch["unlocked"] = 0, !.down["store"] = "check"]
     \/ /\ Pending("locked")
        /\ proc' = [proc EXCEPT !.ch["locked"] = 0, !.with["unlock"] = "lock"]
     \/ /\ Pending("rpcReady")
        /\ proc' = [proc EXCEPT !.ch["rpcReady"] = 0]

\* The rest of storage.Run uses the database, which must be there.
StoreReady ==
  /\ proc.store = "ready" /\ proc.down["store"] = "done" /\ Stays
  /\ proc' = IF proc.db = "nil" THEN [proc EXCEPT !.end = "panic"]
             ELSE [proc EXCEPT !.store = "off", !.ch["storeReady"] = 1]

\* A request to unlock: the key goes to a global, and from there to badger.
Unlock(c) ==
  /\ UNCHANGED runs
  /\ \/ /\ proc.unlock[c] = "off" /\ proc.serving = "unlock"
        /\ proc' = [proc EXCEPT !.unlock[c] = "open", !.key = c] /\ UNCHANGED disk
     \/ /\ proc.unlock[c] = "open"
        /\ proc' = [attempt_unlock(proc, proc.key) EXCEPT
                      !.unlock[c] = IF Opens(proc.key) THEN "tell" ELSE "done"]
        /\ disk' = DiskAfter(proc.key)
     \/ /\ proc.unlock[c] = "tell" /\ Room("unlocked")
        /\ proc' = [proc EXCEPT !.unlock[c] = "done", !.ch["unlocked"] = 1] /\ UNCHANGED disk

-----------------------------------------------------------------------------
(* The rpc server. *)

\* Without a database there is no item to take the key from: a nil pointer.
GetKey == CASE proc.db # "open" -> "panic" [] disk.tun -> "stored" [] OTHER -> "missing"

\* The key of the tunnel comes from the database, or is put there.
configureTunnelKey == IF GetKey = "stored" THEN "stored" ELSE "new"

\* No port is configured, and one is drawn.
configureTunnelPort == "random"

\* RunWith: one server at a time, and only the seed's has a tunnel.
RunWith(w) ==
  /\ proc.with[w] = "lock" /\ UNCHANGED runs
  /\ LET tun == w = "chat" /\ proc.start.tun
     IN  IF proc.inUse THEN proc' = [proc EXCEPT !.with[w] = "off"] /\ UNCHANGED disk
         ELSE IF tun /\ GetKey = "panic"
         THEN proc' = [proc EXCEPT !.end = "panic"] /\ UNCHANGED disk
         ELSE /\ proc' = [proc EXCEPT !.with[w] = "configured", !.inUse = TRUE,
                            !.port = IF tun THEN configureTunnelPort ELSE "null",
                            !.tunKey = IF tun THEN configureTunnelKey ELSE @]
              /\ disk' = [disk EXCEPT !.tun = @ \/ tun]
RunWithRest(w) ==
  /\ proc.with[w] = "configured" /\ Room("configured") /\ Stays
  /\ proc' = [proc EXCEPT !.with[w] = "listen", !.ch["configured"] = 1]


\* start: requests are served from the moment the socket is there.
Start(w) ==
  /\ Stays
  /\ \/ /\ proc.with[w] = "listen"
        /\ \/ proc' = [proc EXCEPT !.with[w] = "running", !.serving = w]
           \/ /\ Fails
              /\ \E n \in 1..2 :
                   proc' = [proc EXCEPT !.with[w] = "off", !.fault = TRUE, !.ch["rpcErr"] = @ + n]
     \/ /\ proc.with[w] = "running"
        /\ proc' = [proc EXCEPT !.with[w] = "ready", !.running = TRUE]
     \/ /\ proc.with[w] = "ready" /\ Room("rpcReady")
        /\ proc' = [proc EXCEPT !.with[w] = "off", !.ch["rpcReady"] = 1]

\* rpc.Shutdown: nothing to do unless it is marked as running.  GracefulStop
\* takes no more requests and waits for those it has.
Shutdown(c) ==
  /\ Stays
  /\ \/ /\ proc.down[c] = "check"
        /\ proc' = [proc EXCEPT !.down[c] = IF proc.running THEN "stop" ELSE "done"]
     \/ /\ proc.down[c] = "stop"
        /\ proc' = [proc EXCEPT !.down[c] = "drain", !.serving = "none"]
     \/ /\ proc.down[c] = "drain" /\ \A k \in Clients : proc.unlock[k] \in {"off", "done"}
        /\ proc' = IF proc.inUse THEN [proc EXCEPT !.down[c] = "done", !.running = FALSE, !.inUse = FALSE]
                   ELSE [proc EXCEPT !.end = "panic"]

-----------------------------------------------------------------------------
(* The p2p service. *)

\* configureKey: a new identity only when the database says there is none.  When
\* it cannot be read the key stays zero.
configureKey ==
  CASE proc.db = "closed" -> "zero"
    [] proc.db = "open" /\ disk.id -> "stored"
    [] OTHER -> "new"
P2PConfigure ==
  /\ proc.p2p = "configure" /\ UNCHANGED runs
  /\ IF proc.db = "nil" THEN proc' = [proc EXCEPT !.end = "panic"] /\ UNCHANGED disk
     ELSE /\ proc' = [proc EXCEPT !.p2p = "listen", !.id = configureKey]
          /\ disk' = [disk EXCEPT !.id = @ \/ proc.db = "open"]

\* The peer store is encrypted with a secret drawn at random for this process:
\* one that is on disk already cannot be opened.
BadgerStore == ~disk.peers

\* No store is a panic.  So is an error of the listener.
P2PListen ==
  /\ proc.p2p = "listen" /\ UNCHANGED runs
  /\ \/ /\ BadgerStore /\ disk' = [disk EXCEPT !.peers = TRUE]
        /\ proc' = [proc EXCEPT !.p2p = "up", !.ch["p2pReady"] = 1]
     \/ /\ ~BadgerStore \/ Fails
        /\ proc' = [proc EXCEPT !.end = "panic", !.fault = ~disk.peers] /\ UNCHANGED disk

-----------------------------------------------------------------------------
(* The seed. *)

Fail(err) == /\ Pending(err)
             /\ proc' = [proc EXCEPT !.seed = "off", !.ch[err] = @ - 1, !.ch["seedErr"] = @ + 1]

\* Run goes from one service to the next as each says it is ready.
SeedRun ==
  /\ Stays
  /\ \/ /\ proc.seed = "storage" /\ Pending("storeReady")
        /\ proc' = [proc EXCEPT !.seed = "p2p", !.ch["storeReady"] = 0, !.p2p = "configure"]
     \/ proc.seed = "storage" /\ Fail("storeErr")
     \/ /\ proc.seed = "p2p" /\ Pending("p2pReady")
        /\ proc' = [proc EXCEPT !.seed = "rpc", !.ch["p2pReady"] = 0, !.with["chat"] = "lock"]
     \/ /\ proc.seed = "rpc" /\ Pending("configured")
        /\ proc' = [proc EXCEPT !.ch["configured"] = 0, !.tunPort = proc.port]
     \/ proc.seed = "rpc" /\ Fail("rpcErr")
     \/ /\ proc.seed = "rpc" /\ Pending("rpcReady")
        /\ proc' = [proc EXCEPT !.seed = "ready", !.ch["rpcReady"] = 0]

\* Each of its waits ends when the context is cancelled.
SeedShutdown ==
  /\ proc.cancelled /\ proc.seed \in {"storage", "p2p", "rpc", "ready"} /\ Stays
  /\ proc' = [proc EXCEPT !.seed = "closing", !.down["seed"] = "check",
                          !.p2p = IF @ = "up" THEN "off" ELSE @]

\* storage.Shutdown, after rpc.Shutdown: there may be no database yet.
StorageShutdown ==
  /\ proc.seed = "closing" /\ proc.down["seed"] = "done" /\ Stays
  /\ proc' = [proc EXCEPT !.seed = "stopped", !.db = IF @ = "open" THEN "closed" ELSE @,
                          !.held = IF proc.db = "open" THEN FALSE ELSE @]

\* The command ends when the seed has failed or is shut down.
Serve ==
  /\ Stays
  /\ \/ Pending("seedErr") /\ proc' = [proc EXCEPT !.end = "failed"]
     \/ proc.seed = "stopped" /\ proc' = [proc EXCEPT !.end = "stopped"]

Cancel == ~proc.cancelled /\ proc' = [proc EXCEPT !.cancelled = TRUE] /\ Stays
Restart ==
  /\ proc.end # "" /\ runs < MaxRuns /\ runs' = runs + 1 /\ UNCHANGED disk
  /\ \E s \in Starts : proc' = Process(s)

-----------------------------------------------------------------------------
Goroutines ==
  \/ Configure \/ Run \/ StoreSelect \/ StoreReady
  \/ \E w \in Servers : RunWith(w) \/ RunWithRest(w) \/ Start(w)
  \/ \E c \in Callers : Shutdown(c)
  \/ P2PConfigure \/ P2PListen \/ SeedRun \/ SeedShutdown \/ StorageShutdown \/ Serve
SeedNext ==
  \/ proc.end = "" /\ (Goroutines \/ Cancel \/ \E c \in Clients : Unlock(c))
  \/ Restart

\* A first process, with or without a database from an earlier version.
SeedInit ==
  /\ runs = 1 /\ \E s \in Starts : proc = Process(s)
  /\ \E k \in {"absent", "k"} : disk = [key |-> k, id |-> FALSE, tun |-> FALSE, peers |-> FALSE]

\* Every goroutine that can go on does.
SeedFairness == WF_seedVars(proc.end = "" /\ Goroutines)
SeedSpec == SeedInit /\ [][SeedNext]_seedVars /\ SeedFairness

-----------------------------------------------------------------------------
Unlocking == \E c \in Clients : proc.unlock[c] # "off"

\* A seed that says it is ready has its database open with the key on disk, its
\* host up and its own rpc server running.  It need not after an unlock request
\* that came between the socket and the signals of the server it came to.
ReadyServes ==
  proc.seed = "ready" /\ ~Unlocking =>
    /\ proc.db = "open" /\ disk.key = proc.key /\ proc.p2p = "up"
    /\ proc.running /\ proc.serving = "chat"

\* The process goes down with a panic only when the key was wrong, when several
\* requests were unlocking it, when it was interrupted while it started, when it
\* found the peer store of an earlier process, or when it could not listen.
PanicsExplained ==
  proc.end = "panic" =>
    \/ proc.db = "nil" /\ (proc.ch["storeErr"] + proc.ch["seedErr"] > 0 \/ Unlocking)
    \/ proc.cancelled \/ proc.fault \/ (disk.peers /\ proc.p2p = "listen")

\* A process that stops after its storage was ready has closed the database.  A
\* server that was missed by the shutdown can open it again for a late request.
ClosedWhenStopped ==
  proc.end = "stopped" /\ proc.id # "none" /\ ~Unlocking => proc.db = "closed" /\ ~proc.held


\* With a key to start from, the seed becomes ready or says why it cannot: no
\* signal that it waits for is lost.
StartSettles ==
  [](proc.start.key # "none" /\ proc.seed = "storage" =>
       <>(proc.seed \in {"ready", "closing"} \/ proc.end # ""))
=============================================================================

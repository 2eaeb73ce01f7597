---------------------------- MODULE CacheCluster ----------------------------
(***************************************************************************)
(* A cluster of GeeCache nodes (GeeCache/geecache/geecache.go, http.go,    *)
(* cache.go, with the wiring of GeeCache/main.go): Group.Get of a client   *)
(* goroutine of a node's API server, and of the goroutines net/http starts *)
(* for the requests of other nodes.  Each node has one group; its loader   *)
(* is SingleFlight, here for all nodes at once, with (node, key) pairs as  *)
(* keys; its mainCache is an LruCache; its HTTPPool holds a hash ring.     *)
(*                                                                         *)
(* A Get goes through the stages                                           *)
(*   idle -> do -> wait | pick -> rpc -> local -> wait -> answer           *)
(* where a goroutine in pick, rpc or local is running the fn of load.  The *)
(* lookup in mainCache is part of the step that starts a Get: a request    *)
(* that has not reached it yet is one that has not been made.              *)
(***************************************************************************)
EXTENDS LruCache, ConsistentHash, FiniteSets

CONSTANTS
  Nodes, Keys,
  EmptyKey,             \* ""
  Clients, NodeOf,      \* goroutines of API servers; the node of each
  ClientKeys,           \* ClientKeys[p]: keys client p asks for
  Handlers,             \* goroutines net/http may start for peers
  NoNode, NoProc,
  Wire,                 \* Wire[k]: k as the peer's ServeHTTP reads it
  Source, Missing,      \* Source[k]: what getter.Get returns; Missing: an error
  MaxFaults,            \* bound on network errors and crashes
  CallIds, NoCall, NoKey, NoResult

ASSUME KeyAssumption ==
  /\ EmptyKey \in Keys
  /\ \A p \in Clients : ClientKeys[p] \subseteq Keys
  /\ Source[EmptyKey] = Missing

(* Where the URL changes a key, the source has nothing, or the same value, *)
(* under the changed name.  http.go:104 would otherwise answer a Get of    *)
(* one key with the value of another.                                      *)
ASSUME WireAssumption ==
  \A k \in Keys : Wire[k] \in Keys /\ Source[Wire[k]] \in {Source[k], Missing}

ASSUME ProcAssumption ==
  /\ Clients \cap Handlers = {} /\ NoProc \notin Clients \cup Handlers
  /\ NodeOf \in [Clients -> Nodes]
  /\ IsFiniteSet(Nodes) /\ NoNode \notin Nodes

ASSUME NilAssumption ==
  /\ NoCall \notin CallIds /\ NoKey \notin Keys \cup (Nodes \X Keys)
  /\ NoResult \notin {Source[k] : k \in Keys}

ASSUME RingAssumption == Peers = Nodes /\ RingKeys = Keys /\ NoPeer \notin Nodes

VARIABLES
  m, wg, val, pc, arg, ca,  \* the loaders, see SingleFlight
  cache,       \* cache[n]: mainCache of node n
  ring,        \* ring[n]: the peers of node n's HTTPPool
  at,          \* at[p]: the node p runs on
  stage,       \* how far p's Get is
  key,         \* its argument
  res,         \* what it returns, in stage answer
  caller,      \* caller[h]: the goroutine that waits for handler h's answer
  faults

loaders == <<m, wg, val, pc, arg, ca>>
vars == <<loaders, cache, ring, at, stage, key, res, caller, faults>>

Procs == Clients \cup Handlers

SF == INSTANCE SingleFlight
        WITH Keys <- Nodes \X Keys, PanicKeys <- {},
             Outcomes <- [f \in Nodes \X Keys |-> {Source[k] : k \in Keys}]

(* main.go collects the addresses from a map, whose order Go leaves open. *)
AddrOrders == SetToSeqs(Nodes)

(* The nodes that have called RegisterPeers and serve peers. *)
registered == {n \in Nodes : ring[n].keys # << >>}

Owner(n, k) == RingGet(ring[n], k)

Stages == {"idle", "do", "wait", "pick", "rpc", "local", "answer"}

TypeOK ==
  /\ SF!TypeOK
  /\ \A n \in Nodes : Cached(cache[n]) \subseteq Keys
  /\ DOMAIN ring = Nodes
  /\ at \in [Procs -> Nodes \cup {NoNode}]
  /\ stage \in [Procs -> Stages]
  /\ key \in [Procs -> Keys \cup {NoKey}]
  /\ res \in [Procs -> {Source[k] : k \in Keys} \cup {NoResult}]
  /\ caller \in [Handlers -> Procs \cup {NoProc}]
  /\ faults \in 0..MaxFaults
  /\ \A p \in Procs : (stage[p] = "answer") = (res[p] # NoResult)

(* The cluster is up; a node that is not serving yet is one that crashed.   *)
Init ==
  /\ SF!Init
  /\ cache = [n \in Nodes |-> EmptyLru]
  /\ ring \in [Nodes -> {RingAdd(EmptyRing, addrs) : addrs \in AddrOrders}]
  /\ at = [p \in Procs |-> IF p \in Clients THEN NodeOf[p] ELSE NoNode]
  /\ stage = [p \in Procs |-> "idle"]
  /\ key = [p \in Procs |-> NoKey]
  /\ res = [p \in Procs |-> NoResult]
  /\ caller = [h \in Handlers |-> NoProc]
  /\ faults = 0

Goto(p, s) == stage' = [stage EXCEPT ![p] = s]

Answer(p, r) ==
  /\ Goto(p, "answer")
  /\ res' = [res EXCEPT ![p] = r]

-----------------------------------------------------------------------------
(* startCacheServer of a node started again: Set, RegisterPeers, then      *)
(* ListenAndServe.  The API server of the node runs before that.           *)
Register(n) ==
  /\ n \notin registered
  /\ \E addrs \in AddrOrders :
       ring' = [ring EXCEPT ![n] = RingAdd(EmptyRing, addrs)]
  /\ UNCHANGED <<loaders, cache, at, stage, key, res, caller, faults>>

(* Get of p on node n up to load: an empty key is refused, a cached one is *)
(* answered by mainCache.get (under the cache's mutex).                    *)
Get(p, n, k) ==
  /\ stage[p] = "idle"
  /\ key' = [key EXCEPT ![p] = k]
  /\ LET c == cache[n]
     IN \/ /\ k = EmptyKey
           /\ Answer(p, Missing)
           /\ UNCHANGED cache
        \/ /\ k # EmptyKey /\ k \in Cached(c)
           /\ cache' = [cache EXCEPT ![n] = LruGet(c, k)]
           /\ Answer(p, c.cache[k])
        \/ /\ k # EmptyKey /\ k \notin Cached(c)
           /\ Goto(p, "do")
           /\ UNCHANGED <<cache, res>>

(* A client's request for k reaches its node. *)
Ask(p, k) ==
  /\ p \in Clients
  /\ Get(p, NodeOf[p], k)
  /\ UNCHANGED <<loaders, ring, at, caller, faults>>

(* loader.Do: wait for the call of this key, or lead one. *)
Do(p) ==
  /\ stage[p] = "do"
  /\ \/ SF!Join(p, <<at[p], key[p]>>) /\ Goto(p, "wait")
     \/ SF!Lead(p, <<at[p], key[p]>>) /\ Goto(p, "pick")
  /\ UNCHANGED <<cache, ring, at, key, res, caller, faults>>

(* Mutant of PickPeer: http.go:160 without peer != pool.self. *)
PickSelfToo(p) ==
  /\ stage[p] = "pick"
  /\ Goto(p, IF at[p] \in registered THEN "rpc" ELSE "local")
  /\ UNCHANGED <<loaders, cache, ring, at, key, res, caller, faults>>

(* fn: a peer is asked unless none is registered or the ring gives self. *)
PickPeer(p) ==
  /\ stage[p] = "pick"
  /\ Goto(p, IF at[p] \in registered /\ Owner(at[p], key[p]) # at[p]
             THEN "rpc" ELSE "local")
  /\ UNCHANGED <<loaders, cache, ring, at, key, res, caller, faults>>

Called(p) == \E h \in Handlers : caller[h] = p

(* httpGetter.Get: the peer's server starts a goroutine for the request,   *)
(* whose ServeHTTP gets the key the URL carried.                           *)
Request(p, h) ==
  /\ stage[p] = "rpc"
  /\ ~Called(p)
  /\ LET n == Owner(at[p], key[p])
     IN /\ n \in registered
        /\ at' = [at EXCEPT ![h] = n]
        /\ Get(h, n, Wire[key[p]])
  /\ caller' = [caller EXCEPT ![h] = p]
  /\ UNCHANGED <<loaders, ring, faults>>

(* The peer's server is not listening: connection refused. *)
Refused(p) ==
  /\ stage[p] = "rpc"
  /\ ~Called(p)
  /\ Owner(at[p], key[p]) \notin registered
  /\ Goto(p, "local")
  /\ UNCHANGED <<loaders, cache, ring, at, key, res, caller, faults>>

(* The request or its response is lost; a handler that runs goes on.       *)
(* http.Get has no timeout: only such an error ends the wait.              *)
NetworkError(p) ==
  /\ stage[p] = "rpc"
  /\ faults < MaxFaults
  /\ faults' = faults + 1
  /\ Goto(p, "local")
  /\ caller' = [h \in Handlers |-> IF caller[h] = p THEN NoProc ELSE caller[h]]
  /\ UNCHANGED <<loaders, cache, ring, at, key, res>>

(* getLocally: the getter, populateCache unless it failed, and fn returns. *)
LoadLocally(p) ==
  /\ stage[p] = "local"
  /\ SF!FnReturn(p, Source[key[p]])
  /\ cache' = IF Source[key[p]] = Missing THEN cache
              ELSE [cache EXCEPT ![at[p]] = LruSet(@, key[p], Source[key[p]])]
  /\ Goto(p, "wait")
  /\ UNCHANGED <<ring, at, key, res, caller, faults>>

(* wg.Done of the leader. *)
Done(p) ==
  /\ SF!Done(p)
  /\ UNCHANGED <<cache, ring, at, stage, key, res, caller, faults>>

(* Do returns to its leader, or to a goroutine that waited. *)
Return(p) ==
  /\ stage[p] = "wait"
  /\ SF!Forget(p) \/ SF!Wake(p)
  /\ Answer(p, val[ca[p]])
  /\ UNCHANGED <<cache, ring, at, key, caller, faults>>

(* A client's Get is over. *)
Finish(p) ==
  /\ p \in Clients
  /\ stage[p] = "answer"
  /\ Goto(p, "idle")
  /\ key' = [key EXCEPT ![p] = NoKey]
  /\ res' = [res EXCEPT ![p] = NoResult]
  /\ UNCHANGED <<loaders, cache, ring, at, caller, faults>>

EndHandler(h) ==
  /\ key' = [key EXCEPT ![h] = NoKey]
  /\ res' = [res EXCEPT ![h] = NoResult]
  /\ at' = [at EXCEPT ![h] = NoNode]
  /\ caller' = [caller EXCEPT ![h] = NoProc]

(* Mutants of Reply: the status code is not looked at (http.go:113-115);   *)
(* what the peer answered is cached.                                       *)
ReplyAnyStatus(h) ==
  /\ h \in Handlers
  /\ stage[h] = "answer"
  /\ LET p == caller[h]
     IN \/ /\ p = NoProc
           /\ Goto(h, "idle")
           /\ UNCHANGED loaders
        \/ /\ p # NoProc
           /\ SF!FnReturn(p, res[h])
           /\ stage' = [stage EXCEPT ![p] = "wait", ![h] = "idle"]
  /\ EndHandler(h)
  /\ UNCHANGED <<cache, ring, faults>>

ReplyAndCache(h) ==
  /\ h \in Handlers
  /\ stage[h] = "answer"
  /\ caller[h] # NoProc
  /\ LET p == caller[h]
     IN /\ SF!FnReturn(p, res[h])
        /\ stage' = [stage EXCEPT ![p] = "wait", ![h] = "idle"]
        /\ cache' = [cache EXCEPT ![at[p]] = LruSet(@, key[p], res[h])]
  /\ EndHandler(h)
  /\ UNCHANGED <<ring, faults>>

(* ServeHTTP answers: 200 with the value is fn's result at the caller, an  *)
(* error (status 500) sends it to getLocally; a lost caller gets nothing.  *)
Reply(h) ==
  /\ h \in Handlers
  /\ stage[h] = "answer"
  /\ LET p == caller[h]
     IN \/ /\ p = NoProc
           /\ Goto(h, "idle")
           /\ UNCHANGED loaders
        \/ /\ p # NoProc /\ res[h] # Missing
           /\ SF!FnReturn(p, res[h])
           /\ stage' = [stage EXCEPT ![p] = "wait", ![h] = "idle"]
        \/ /\ p # NoProc /\ res[h] = Missing
           /\ stage' = [stage EXCEPT ![p] = "local", ![h] = "idle"]
           /\ UNCHANGED loaders
  /\ EndHandler(h)
  /\ UNCHANGED <<cache, ring, faults>>

(* The process of node n dies and is started again: its goroutines, its    *)
(* cache and its flights are gone, and its callers get an error.           *)
Crash(n) ==
  LET dead(p) == at[p] = n
      orphan(p) == \E h \in Handlers : dead(h) /\ caller[h] = p
  IN /\ n \in registered
     /\ faults < MaxFaults
     /\ faults' = faults + 1
     /\ ring' = [ring EXCEPT ![n] = EmptyRing]
     /\ cache' = [cache EXCEPT ![n] = EmptyLru]
     /\ m' = [f \in Nodes \X Keys |-> IF f[1] = n THEN NoCall ELSE m[f]]
     /\ pc' = [p \in Procs |-> IF dead(p) THEN "out" ELSE pc[p]]
     /\ arg' = [p \in Procs |-> IF dead(p) THEN NoKey ELSE arg[p]]
     /\ ca' = [p \in Procs |-> IF dead(p) THEN NoCall ELSE ca[p]]
     /\ wg' = [c \in CallIds |-> IF SF!Referenced(c)' THEN wg[c] ELSE 0]
     /\ val' = [c \in CallIds |-> IF SF!Referenced(c)' THEN val[c] ELSE NoResult]
     /\ stage' = [p \in Procs |-> IF dead(p) THEN "idle"
                                  ELSE IF orphan(p) THEN "local" ELSE stage[p]]
     /\ key' = [p \in Procs |-> IF dead(p) THEN NoKey ELSE key[p]]
     /\ res' = [p \in Procs |-> IF dead(p) THEN NoResult ELSE res[p]]
     /\ at' = [p \in Procs |-> IF dead(p) /\ p \in Handlers THEN NoNode ELSE at[p]]
     /\ caller' = [h \in Handlers |->
                     IF dead(h) \/ (caller[h] # NoProc /\ dead(caller[h]))
                     THEN NoProc ELSE caller[h]]

Step(p) ==
  \/ Do(p)
  \/ PickPeer(p)
  \/ \E h \in Handlers : Request(p, h)
  \/ Refused(p)
  \/ LoadLocally(p)
  \/ Done(p)
  \/ Return(p)
  \/ Finish(p)
  \/ Reply(p)

Next ==
  \/ \E n \in Nodes : Register(n) \/ Crash(n)
  \/ \E p \in Clients : \E k \in ClientKeys[p] : Ask(p, k)
  \/ \E p \in Procs : Step(p) \/ NetworkError(p)

(* Goroutines are scheduled, the getter returns and a peer that is up      *)
(* answers; nothing makes clients ask, the network fail or nodes start.    *)
Spec == Init /\ [][Next]_vars /\ \A p \in Procs : WF_vars(Step(p))
-----------------------------------------------------------------------------
(* Every Get answers what the data source holds for the key it was given,  *)
(* whichever way of geecache.go:13-19 it took: cache, peer, getter, a      *)
(* flight it joined, or the fallback after a network error or a crash.     *)
AnswersSource ==
  \A p \in Procs : stage[p] = "answer" => res[p] = Source[key[p]]

(* Nothing but a source value is ever cached: neither an error nor what a  *)
(* peer answered for another key.                                          *)
CachesSource ==
  \A n \in Nodes : \A k \in Cached(cache[n]) :
    cache[n].cache[k] = Source[k] /\ Source[k] # Missing

(* In a cluster that is up and saw no failure since its first request,     *)
(* only its owner caches a key: what a peer answered is not cached again   *)
(* (geecache.go:130-133).  A key the URL changes is the exception: the     *)
(* owner refuses it and the node that asked loads and caches it.           *)
OnlyOwnerCaches ==
  faults = 0 =>
    \A n \in Nodes : \A k \in Cached(cache[n]) : Owner(n, k) = n \/ Wire[k] # k

(* What clients and caches see of the data source. *)
OnlySourceValues == AnswersSource /\ CachesSource

(* Whatever order its addresses came in, and however often a node was      *)
(* started again, its ring gives the peer next to the key on the circle,   *)
(* so that no two nodes take each other for the owner of a key.            *)
OwnerIsNext ==
  \A n \in registered, k \in Keys : Owner(n, k) = NextPeer[k]

(* Every Get ends: no cycle of goroutines waiting for each other's flights *)
(* and requests, although neither Do nor http.Get has a timeout.           *)
GetReturns ==
  \A p \in Clients : (stage[p] # "idle") ~> (stage[p] = "idle")
=============================================================================

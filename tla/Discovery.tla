------------------------------ MODULE Discovery ------------------------------
(***************************************************************************)
(* Service discovery of GeeRPC: the registry (registry/registry.go), the   *)
(* Heartbeat of each server, and the GeeRegistryDiscovery of one client    *)
(* process (xclient/discover_registry.go, discover.go), whose goroutines   *)
(* call Get.                                                               *)
(*                                                                         *)
(* Time advances in units.  A runnable goroutine runs before it does, and  *)
(* a message or its answer takes at most MaxDelay; everything else may     *)
(* happen in any order.  Ages are kept, not times, so time has no bound.   *)
(***************************************************************************)
EXTENDS Integers, FiniteSets

CONSTANTS
  Addresses,      \* of servers
  Clients,        \* goroutines that call Get of the discovery
  Registry, NoProc,
  Timeout,        \* timeout of the registry
  Period,         \* duration of the heartbeats
  UpdateTimeout,  \* timeout of the discovery
  MaxDelay,       \* longest way of a message
  MaxFailing      \* bound on the number of servers and registries that fail

ASSUME TimeAssumption ==
  /\ {Timeout, Period, UpdateTimeout} \subseteq Nat \ {0}
  /\ {MaxDelay, MaxFailing} \subseteq Nat
  /\ Period + 2 * MaxDelay < Timeout

ASSUME NameAssumption == Registry \notin Addresses /\ NoProc \notin Clients

VARIABLES
  up, since,     \* which servers run, and for how long each has or has not
  beat,          \* where Heartbeat of each server is
  ticker, tick,  \* its ticker: the age of the last tick (-1: none), ticks in t.C
  post, sent,    \* its POST on the way, and for how long it has been
  regUp, start,  \* the registry: running; registry.servers with ages of start
  getting,       \* where Get of each client is
  mu,            \* who holds discovery.mu across steps
  fetched, wait, \* the servers in the answer on its way, its age
  list, updated, \* discovery.servers, the age of lastUpdate
  failed         \* what has failed so far

serverVars == <<up, since, beat, ticker, tick, post, sent>>
registryVars == <<regUp, start>>
getVars == <<getting, mu, fetched, wait, list, updated>>
discoveryVars == <<serverVars, registryVars, getVars, failed>>

\* A server that has been down for so long is chosen no more.
Vanished == Timeout + UpdateTimeout + 2 * MaxDelay

\* A server that has been up for so long is in the list.
Settled == UpdateTimeout + 2 * MaxDelay

DiscoveryTypeOK ==
  /\ up \subseteq Addresses
  /\ since \in [Addresses -> 0..Vanished]
  /\ beat \in [Addresses -> {"off", "calling", "waiting", "stopped"}]
  /\ ticker \in [Addresses -> -1..(Period - 1)]
  /\ tick \in [Addresses -> 0..1]
  /\ post \in [Addresses -> {"none", "request", "response"}]
  /\ sent \in [Addresses -> 0..MaxDelay]
  /\ regUp \in BOOLEAN
  /\ DOMAIN start \subseteq Addresses
  /\ \A s \in DOMAIN start : start[s] \in 0..Timeout
  /\ getting \in [Clients -> {"idle", "refresh", "fetch", "answer", "choose"}]
  /\ mu \in Clients \cup {NoProc}
  /\ fetched \subseteq Addresses /\ list \subseteq Addresses
  /\ wait \in 0..MaxDelay
  /\ updated \in 0..UpdateTimeout
  /\ failed \subseteq Addresses \cup {Registry}

DiscoveryInit ==
  /\ up = {} /\ since = [s \in Addresses |-> Vanished]
  /\ beat = [s \in Addresses |-> "off"]
  /\ ticker = [s \in Addresses |-> -1] /\ tick = [s \in Addresses |-> 0]
  /\ post = [s \in Addresses |-> "none"] /\ sent = [s \in Addresses |-> 0]
  /\ regUp = TRUE /\ start = [s \in {} |-> 0]
  /\ getting = [c \in Clients |-> "idle"]
  /\ mu = NoProc /\ fetched = {} /\ wait = 0
  /\ list = {} /\ updated = UpdateTimeout
  /\ failed = {}

Fails(x) ==
  /\ x \in failed \/ Cardinality(failed) < MaxFailing
  /\ failed' = failed \cup {x}

-----------------------------------------------------------------------------
(* sendHeartbeat writes its request. *)
Post(s) ==
  /\ post' = [post EXCEPT ![s] = "request"]
  /\ sent' = [sent EXCEPT ![s] = 0]
  /\ beat' = [beat EXCEPT ![s] = "calling"]

(* The server starts, and calls Heartbeat. *)
StartServer(s) ==
  /\ s \notin up /\ post[s] = "none"
  /\ up' = up \cup {s}
  /\ since' = [since EXCEPT ![s] = 0]
  /\ Post(s)
  /\ UNCHANGED <<ticker, tick, registryVars, getVars, failed>>

CrashServer(s) ==
  /\ s \in up
  /\ Fails(s)
  /\ up' = up \ {s}
  /\ since' = [since EXCEPT ![s] = 0]
  /\ beat' = [beat EXCEPT ![s] = "off"]
  /\ ticker' = [ticker EXCEPT ![s] = -1]
  /\ tick' = [tick EXCEPT ![s] = 0]
  /\ UNCHANGED <<post, sent, registryVars, getVars>>

(* Mutant of PutServer: a server that is known keeps its start time. *)
PutServerOnce(s) ==
  /\ post[s] = "request" /\ regUp
  /\ start' = [t \in DOMAIN start \cup {s} |-> IF t \in DOMAIN start THEN start[t] ELSE 0]
  /\ post' = [post EXCEPT ![s] = IF s \in up THEN "response" ELSE "none"]
  /\ UNCHANGED <<up, since, beat, ticker, tick, sent, regUp, getVars, failed>>

(* The registry gets a POST: putServer. *)
PutServer(s) ==
  /\ post[s] = "request" /\ regUp
  /\ start' = [t \in DOMAIN start \cup {s} |-> IF t = s THEN 0 ELSE start[t]]
  /\ post' = [post EXCEPT ![s] = IF s \in up THEN "response" ELSE "none"]
  /\ UNCHANGED <<up, since, beat, ticker, tick, sent, regUp, getVars, failed>>

(* sendHeartbeat returns nil.  After the first one the ticker is made.     *)
Beaten(s) ==
  /\ post[s] = "response" /\ beat[s] = "calling"
  /\ post' = [post EXCEPT ![s] = "none"]
  /\ beat' = [beat EXCEPT ![s] = "waiting"]
  /\ ticker' = [ticker EXCEPT ![s] = IF @ = -1 THEN 0 ELSE @]
  /\ UNCHANGED <<up, since, tick, sent, registryVars, getVars, failed>>

(* The request or its response is lost, or the registry is not there:      *)
(* sendHeartbeat returns an error and the loop ends for good.              *)
BeatFails(s) ==
  /\ post[s] # "none"
  /\ \/ Fails(s)
     \/ post[s] = "request" /\ ~regUp /\ UNCHANGED failed
  /\ post' = [post EXCEPT ![s] = "none"]
  /\ beat' = [beat EXCEPT ![s] = IF s \in up THEN "stopped" ELSE "off"]
  /\ UNCHANGED <<up, since, ticker, tick, sent, registryVars, getVars>>

(* Mutant of Beat: registry.go:127 left out. *)
BeatSkipped(s) ==
  /\ beat[s] = "waiting" /\ tick[s] = 1
  /\ tick' = [tick EXCEPT ![s] = 0]
  /\ UNCHANGED <<up, since, beat, ticker, post, sent, registryVars, getVars, failed>>

(* <-t.C, then the next heartbeat. *)
Beat(s) ==
  /\ beat[s] = "waiting" /\ tick[s] = 1
  /\ tick' = [tick EXCEPT ![s] = 0]
  /\ Post(s)
  /\ UNCHANGED <<up, since, ticker, registryVars, getVars, failed>>

CrashRegistry ==
  /\ regUp
  /\ Fails(Registry)
  /\ regUp' = FALSE
  /\ start' = [s \in {} |-> 0]
  /\ UNCHANGED <<serverVars, getVars>>

StartRegistry ==
  /\ ~regUp
  /\ regUp' = TRUE
  /\ UNCHANGED <<start, serverVars, getVars, failed>>

-----------------------------------------------------------------------------
(* A goroutine calls Get of the discovery. *)
Call(c) ==
  /\ getting[c] = "idle"
  /\ getting' = [getting EXCEPT ![c] = "refresh"]
  /\ UNCHANGED <<serverVars, registryVars, mu, fetched, wait, list, updated, failed>>

(* Refresh: the list is still good, or the registry is asked for it with   *)
(* mu locked.                                                              *)
Refresh(c) ==
  /\ getting[c] = "refresh" /\ mu = NoProc
  /\ \/ /\ updated < UpdateTimeout
        /\ getting' = [getting EXCEPT ![c] = "choose"]
        /\ UNCHANGED <<mu, wait>>
     \/ /\ updated = UpdateTimeout
        /\ getting' = [getting EXCEPT ![c] = "fetch"]
        /\ mu' = c /\ wait' = 0
  /\ UNCHANGED <<serverVars, registryVars, fetched, list, updated, failed>>

(* Mutant of AliveServer: nobody expires. *)
AliveServerAll(c) ==
  /\ getting[c] = "fetch" /\ regUp
  /\ fetched' = DOMAIN start
  /\ start' = start
  /\ getting' = [getting EXCEPT ![c] = "answer"]
  /\ UNCHANGED <<serverVars, regUp, mu, wait, list, updated, failed>>

(* The registry gets the GET: aliveServer drops who expired. *)
AliveServer(c) ==
  /\ getting[c] = "fetch" /\ regUp
  /\ fetched' = {s \in DOMAIN start : start[s] < Timeout}
  /\ start' = [s \in fetched' |-> start[s]]
  /\ getting' = [getting EXCEPT ![c] = "answer"]
  /\ UNCHANGED <<serverVars, regUp, mu, wait, list, updated, failed>>

(* The answer is there: the list is replaced. *)
Install(c) ==
  /\ getting[c] = "answer"
  /\ list' = fetched /\ updated' = 0
  /\ mu' = NoProc /\ fetched' = {} /\ wait' = 0
  /\ getting' = [getting EXCEPT ![c] = "choose"]
  /\ UNCHANGED <<serverVars, registryVars, failed>>

(* http.Get fails: Get returns the error, the list stays as it was. *)
RefreshFails(c) ==
  /\ \/ getting[c] \in {"fetch", "answer"} /\ Fails(Registry)
     \/ getting[c] = "fetch" /\ ~regUp /\ UNCHANGED failed
  /\ mu' = NoProc /\ fetched' = {} /\ wait' = 0
  /\ getting' = [getting EXCEPT ![c] = "idle"]
  /\ UNCHANGED <<serverVars, registryVars, list, updated>>

(* MultiServerDiscovery.Get: some server of the list, by either mode, or   *)
(* an error if there is none.                                              *)
Choose(c) ==
  /\ getting[c] = "choose" /\ mu = NoProc
  /\ getting' = [getting EXCEPT ![c] = "idle"]
  /\ UNCHANGED <<serverVars, registryVars, mu, fetched, wait, list, updated, failed>>

-----------------------------------------------------------------------------
Older(age, limit) == IF age < limit THEN age + 1 ELSE age

(* A tick that finds t.C full is dropped. *)
NextTick(s) ==
  IF ticker[s] = Period - 1 THEN 1 ELSE tick[s]

(* One unit of time goes by: nobody can run and nothing is overdue. *)
Tick ==
  /\ \A s \in Addresses :
       /\ post[s] # "none" => sent[s] < MaxDelay
       /\ ~(beat[s] = "waiting" /\ tick[s] = 1)
  /\ IF mu = NoProc THEN \A c \in Clients : getting[c] = "idle" ELSE wait < MaxDelay
  /\ since' = [s \in Addresses |->
                 Older(since[s], IF s \in up THEN Settled ELSE Vanished)]
  /\ tick' = [s \in Addresses |-> NextTick(s)]
  /\ ticker' = [s \in Addresses |-> IF ticker[s] = -1 THEN -1
                                  ELSE (ticker[s] + 1) % Period]
  /\ sent' = [s \in Addresses |-> IF post[s] = "none" THEN 0 ELSE sent[s] + 1]
  /\ start' = [s \in DOMAIN start |-> Older(start[s], Timeout)]
  /\ wait' = IF mu = NoProc THEN 0 ELSE wait + 1
  /\ updated' = Older(updated, UpdateTimeout)
  /\ UNCHANGED <<up, beat, post, regUp, getting, mu, fetched, list, failed>>

Heartbeat(s) == PutServer(s) \/ Beaten(s) \/ BeatFails(s) \/ Beat(s)

Get(c) == Refresh(c) \/ AliveServer(c) \/ Install(c) \/ RefreshFails(c) \/ Choose(c)

DiscoveryNext ==
  \/ \E s \in Addresses : StartServer(s) \/ CrashServer(s) \/ Heartbeat(s)
  \/ CrashRegistry \/ StartRegistry
  \/ \E c \in Clients : Call(c) \/ Get(c)
  \/ Tick

(* Time goes on for ever, however many steps are made in a unit of it;     *)
(* messages arrive, goroutines run, and a registry that crashed is started *)
(* again.  Nothing makes a server start, or a client call.                 *)
DiscoverySpec ==
  /\ DiscoveryInit /\ [][DiscoveryNext]_discoveryVars
  /\ []<><<Tick>>_discoveryVars /\ WF_discoveryVars(StartRegistry)
  /\ \A s \in Addresses : WF_discoveryVars(Heartbeat(s))
  /\ \A c \in Clients : WF_discoveryVars(Get(c))

-----------------------------------------------------------------------------
Chosen(c) == getting[c] = "choose" /\ getting'[c] = "idle"

(* A server that died is not chosen any more once the registry has let it  *)
(* expire and the client has refreshed: its last heartbeat, a list already *)
(* on its way and a list still cached do not bring it back.                *)
DeadVanish ==
  [][\A c \in Clients, s \in Addresses :
       Chosen(c) /\ s \notin up /\ since[s] = Vanished => s \notin list]_discoveryVars

(* A server that runs is in the list, from one refresh after its start on, *)
(* and stays there as long as no message of it was lost and the registry   *)
(* did not fail: the heartbeat comes before the entry expires              *)
(* (registry.go:115).                                                      *)
LiveListed ==
  [][\A c \in Clients, s \in up :
       /\ Chosen(c) /\ since[s] >= Settled
       /\ {s, Registry} \cap failed = {}
       => s \in list]_discoveryVars

(* Whatever the registry lost in a crash, it learns again from the next    *)
(* heartbeat of each server whose Heartbeat goes on, unless it crashes     *)
(* again before.                                                           *)
HeartbeatsRelist ==
  \A s \in Addresses :
    regUp ~> (s \in DOMAIN start \/ beat[s] \in {"off", "stopped"} \/ ~regUp)

=============================================================================

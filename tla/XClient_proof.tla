---------------------------- MODULE XClient_proof ----------------------------
(***************************************************************************)
(* Proofs about the two parts of package xclient, for any servers, callers *)
(* and clients.                                                            *)
(*                                                                         *)
(* About XClient: an inductive invariant of its mutex, its connections and *)
(* the errors of a Broadcast.  About Discovery: what a goroutine that gets *)
(* a server may and must be given.                                         *)
(***************************************************************************)
EXTENDS XClient, Discovery, FiniteSetTheorems, TLAPS

(***************************************************************************)
(* XClient.                                                                *)
(***************************************************************************)
(* A caller has workers from its start to its return, a Call only one.     *)
WorkInv ==
  /\ \A w \in Workers :
       /\ pc[w[1]] = "idle" => stage[w] = "none"
       /\ pc[w[1]] = "returned" => stage[w] \in {"none", "done"}
  /\ \A v, w \in Workers :
       v[1] = w[1] /\ w[1] \in Singles /\ stage[v] # "none" /\ stage[w] # "none" => v = w

(* XClient.mutex is held from Lock to the end of dial, and by one worker.  *)
(* Who dials has found no connection, and nobody else makes one.           *)
DialInv ==
  \A w \in Workers :
    /\ stage[w] \in {"locked", "dialing"} <=> mutex = w
    /\ stage[w] = "dialing" => conn[w[2]] = "none"

(* A context is canceled by an error only, and only a canceled context     *)
(* makes a call return that it was.                                        *)
CauseInv ==
  /\ \A c \in Callers : ctx[c] = "canceled" => c \in Broadcasters /\ e[c] # "nil"
  /\ \A w \in Workers : err[w] = "canceled" => ctx[w[1]] = "canceled"

(* Who gives a call up that is still being decoded does so with an error,  *)
(* and the error of a worker makes its caller return one.                  *)
HalfInv ==
  \A w \in Workers :
    /\ stage[w] \in {"none", "dial", "locked", "dialing", "call"} => call[w] = "none"
    /\ stage[w] = "removing" => err[w] # "nil"
    /\ stage[w] \in {"finish", "done"} /\ call[w] = "half" => err[w] # "nil"
    /\ stage[w] = "done" /\ err[w] # "nil" => e[w[1]] # "nil"

XInv ==
  /\ TypeOK /\ WorkInv /\ DialInv /\ OneConnection
  /\ CauseInv /\ ErrorIsCause /\ HalfInv

-----------------------------------------------------------------------------
LEMMA WorkerParts ==
  ASSUME NEW w \in Workers
  PROVE  w[1] \in Callers /\ w[2] \in Servers /\ w = <<w[1], w[2]>>
BY DEF Workers

LEMMA InitInv == ASSUME Init PROVE XInv
<1>1. TypeOK
  BY XClientAssumption DEF Init, TypeOK, Errors
<1>2. WorkInv /\ DialInv /\ OneConnection
  BY WorkerParts, XClientAssumption DEF Init, WorkInv, DialInv, OneConnection
<1>3. CauseInv /\ ErrorIsCause /\ HalfInv
  BY WorkerParts DEF Init, CauseInv, ErrorIsCause, HalfInv
<1> QED  BY <1>1, <1>2, <1>3 DEF XInv

-----------------------------------------------------------------------------
(* The steps of a caller.                                                  *)

LEMMA StartStep ==
  ASSUME XInv, NEW c \in Callers, NEW servers \in SUBSET Servers, Start(c, servers)
  PROVE  XInv'
<1> USE WorkerParts DEF XInv
<1>1. /\ pc' = [pc EXCEPT ![c] = "called"]
      /\ \A w \in Workers :
           stage'[w] = IF w[1] = c /\ w[2] \in servers THEN "dial" ELSE stage[w]
      /\ \A w \in Workers : w[1] = c => stage[w] = "none"
      /\ UNCHANGED <<ctx, e, replyDone, reply, call, err, clientVars>>
  BY DEF Start, Workers, WorkInv
<1>2. TypeOK'
  BY DEF Start, TypeOK, clientVars
<1>3. WorkInv'
  <2>1. ASSUME NEW w \in Workers
        PROVE  /\ pc'[w[1]] = "idle" => stage'[w] = "none"
               /\ pc'[w[1]] = "returned" => stage'[w] \in {"none", "done"}
    BY <1>1 DEF WorkInv, TypeOK
  <2>2. ASSUME NEW v \in Workers, NEW w \in Workers, v[1] = w[1], w[1] \in Singles,
               stage'[v] # "none", stage'[w] # "none"
        PROVE  v = w
    <3>1. CASE w[1] = c
      <4>1. v[2] \in servers /\ w[2] \in servers
        BY <1>1, <2>2, <3>1
      <4>2. PICK s : servers = {s}
        BY <2>2, <3>1, XClientAssumption, FS_Subset, FS_Singleton DEF Start
      <4> QED  BY <2>2, <4>1, <4>2
    <3> QED  BY <1>1, <2>2, <3>1 DEF WorkInv
  <2> QED  BY <2>1, <2>2 DEF WorkInv
<1>4. DialInv' /\ OneConnection' /\ CauseInv' /\ ErrorIsCause' /\ HalfInv'
  BY <1>1 DEF DialInv, OneConnection, CauseInv, ErrorIsCause, HalfInv, clientVars
<1> QED  BY <1>2, <1>3, <1>4

LEMMA CallerStep ==
  ASSUME XInv, NEW c \in Callers, StartFails(c) \/ Wait(c) \/ Deadline(c)
  PROVE  XInv'
<1> USE WorkerParts DEF XInv, clientVars, workerVars
<1>1. CASE StartFails(c)
  BY <1>1 DEF StartFails, TypeOK, Errors, WorkInv, DialInv, OneConnection, CauseInv,
              ErrorIsCause, HalfInv
<1>2. CASE Wait(c)
  BY <1>2 DEF Wait, Of, TypeOK, WorkInv, DialInv, OneConnection, CauseInv,
              ErrorIsCause, HalfInv
<1>3. CASE Deadline(c)
  BY <1>3 DEF Deadline, TypeOK, WorkInv, DialInv, OneConnection, CauseInv,
              ErrorIsCause, HalfInv
<1> QED  BY <1>1, <1>2, <1>3

-----------------------------------------------------------------------------
(* A worker's way to its call.                                             *)

LEMMA DialStep ==
  ASSUME XInv, NEW w \in Workers, Lock(w) \/ Lookup(w) \/ Dialed(w) \/ Send(w)
  PROVE  XInv'
<1> USE WorkerParts DEF XInv, callerVars, clientVars, Goto
<1>1. CASE Lock(w)
  BY <1>1, XClientAssumption
     DEF Lock, TypeOK, WorkInv, DialInv, OneConnection, CauseInv, ErrorIsCause, HalfInv
<1>2. CASE Lookup(w)
  <2> DEFINE s == w[2]
  <2>1. /\ stage[w] = "locked" /\ mutex = w /\ s \in Servers
        /\ opened[s] = IF conn[s] = "none" THEN 0 ELSE 1
    BY <1>2 DEF Lookup, DialInv, OneConnection
  <2>2. conn[s] \in {"none", "live", "dead"}
    BY <1>2, <2>1 DEF Lookup, TypeOK
  <2>3. /\ \E place \in {"call", "dialing"} : stage' = [stage EXCEPT ![w] = place]
        /\ UNCHANGED <<pc, ctx, e, replyDone, reply, call, err, owed, losses>>
    BY <1>2 DEF Lookup
  <2>4. TypeOK'
    <3>1. mutex' \in Workers \cup {NoOne} /\ conn' \in [Servers -> {"none", "live", "ending", "dead"}]
      BY <1>2, <2>1 DEF Lookup, TypeOK
    <3>2. opened' \in [Servers -> Nat]
      <4>1. opened \in [Servers -> Nat]
        BY DEF TypeOK
      <4>2. opened' = opened \/ opened' = [opened EXCEPT ![s] = IF conn[s] = "dead" THEN @ - 1 ELSE @]
        BY <1>2 DEF Lookup
      <4>3. (IF conn[s] = "dead" THEN opened[s] - 1 ELSE opened[s]) \in Nat
        BY <2>1
      <4> QED  BY <4>1, <4>2, <4>3
    <3> QED  BY <2>3, <3>1, <3>2 DEF TypeOK
  <2>7. WorkInv' /\ CauseInv' /\ ErrorIsCause' /\ HalfInv'
    BY <2>1, <2>3 DEF TypeOK, WorkInv, CauseInv, ErrorIsCause, HalfInv
  <2>5. OneConnection'
    BY <1>2, <2>1, <2>2 DEF Lookup, TypeOK, OneConnection
  <2>6. DialInv'
    BY <1>2, <2>1, <2>2, XClientAssumption DEF Lookup, TypeOK, DialInv
  <2> QED  BY <2>4, <2>5, <2>6, <2>7
<1>3. CASE Dialed(w)
  <2> DEFINE s == w[2]
  <2>1. /\ stage[w] = "dialing" /\ mutex = w /\ s \in Servers
        /\ conn[s] = "none" /\ opened[s] = 0
    BY <1>3 DEF Dialed, DialInv, OneConnection
  <2>2. /\ mutex' = NoOne
        /\ UNCHANGED <<pc, ctx, e, replyDone, reply, call, owed, losses>>
    BY <1>3 DEF Dialed
  <2>3. CASE /\ stage' = [stage EXCEPT ![w] = "call"] /\ err' = err
             /\ conn' = [conn EXCEPT ![s] = "live"]
             /\ opened' = [opened EXCEPT ![s] = @ + 1]
    <3>1. opened' = [opened EXCEPT ![s] = 1]
      BY <2>1, <2>3
    <3>2. TypeOK'
      BY <2>2, <2>3, <3>1 DEF TypeOK
    <3>3. WorkInv'
      BY <2>1, <2>2, <2>3 DEF TypeOK, WorkInv
    <3>4. OneConnection'
      BY <2>1, <2>3, <3>1 DEF TypeOK, OneConnection
    <3>5. DialInv'
      BY <2>1, <2>2, <2>3, XClientAssumption DEF TypeOK, DialInv
    <3>6. CauseInv' /\ ErrorIsCause' /\ HalfInv'
      BY <2>1, <2>2, <2>3 DEF TypeOK, CauseInv, ErrorIsCause, HalfInv
    <3> QED  BY <3>2, <3>3, <3>4, <3>5, <3>6
  <2>4. CASE /\ stage' = [stage EXCEPT ![w] = "finish"]
             /\ err' = [err EXCEPT ![w] = "fail"]
             /\ conn' = conn /\ opened' = opened
    <3>1. TypeOK'
      BY <2>2, <2>4 DEF TypeOK, Errors
    <3>2. WorkInv' /\ OneConnection'
      BY <2>1, <2>2, <2>4 DEF TypeOK, WorkInv, OneConnection
    <3>3. DialInv'
      BY <2>1, <2>2, <2>4, XClientAssumption DEF TypeOK, DialInv
    <3>4. CauseInv' /\ ErrorIsCause' /\ HalfInv'
      BY <2>1, <2>2, <2>4 DEF TypeOK, CauseInv, ErrorIsCause, HalfInv
    <3> QED  BY <3>1, <3>2, <3>3, <3>4
  <2> QED  BY <1>3, <2>3, <2>4 DEF Dialed, Finished
<1>4. CASE Send(w)
  BY <1>4
     DEF Send, TypeOK, WorkInv, DialInv, OneConnection, CauseInv, ErrorIsCause, HalfInv
<1> QED  BY <1>1, <1>2, <1>3, <1>4

-----------------------------------------------------------------------------
(* What happens to the call, and how the worker leaves it.                 *)

LEMMA CallStep ==
  ASSUME XInv, NEW w \in Workers,
         Answer(w) \/ Decoded(w) \/ Return(w) \/ Cancelled(w) \/ Removed(w)
  PROVE  XInv'
<1> USE WorkerParts DEF XInv, callerVars, clientVars, Goto
<1>1. CASE Answer(w)
  <2>1. /\ stage[w] \in {"wait", "removing"}
        /\ \/ call' = [call EXCEPT ![w] = "fail"]
           \/ call' = [call EXCEPT ![w] = "half"]
        /\ UNCHANGED <<pc, ctx, e, replyDone, stage, err, clientVars>>
    BY <1>1 DEF Answer, Pending
  <2>2. reply' \in [Callers -> [Fields -> Servers \cup {Zero}]]
    BY <1>1 DEF Answer, TypeOK, Fields
  <2>3. TypeOK'
    BY <2>1, <2>2 DEF TypeOK
  <2>4. WorkInv' /\ DialInv' /\ OneConnection' /\ CauseInv' /\ ErrorIsCause'
    BY <2>1 DEF WorkInv, DialInv, OneConnection, CauseInv, ErrorIsCause
  <2>5. HalfInv'
    BY <2>1 DEF TypeOK, HalfInv
  <2> QED  BY <2>3, <2>4, <2>5
<1>2. CASE Decoded(w)
  BY <1>2
     DEF Decoded, TypeOK, Fields, WorkInv, DialInv, OneConnection, CauseInv, ErrorIsCause, HalfInv
<1>3. CASE Return(w)
  BY <1>3
     DEF Return, Finished, TypeOK, Errors, WorkInv, DialInv, OneConnection, CauseInv,
         ErrorIsCause, HalfInv
<1>4. CASE Cancelled(w)
  BY <1>4
     DEF Cancelled, TypeOK, Errors, WorkInv, DialInv, OneConnection, CauseInv, ErrorIsCause,
         HalfInv
<1>5. CASE Removed(w)
  BY <1>5
     DEF Removed, TypeOK, WorkInv, DialInv, OneConnection, CauseInv, ErrorIsCause, HalfInv
<1> QED  BY <1>1, <1>2, <1>3, <1>4, <1>5

(* The end of a worker, and with a Call that of its caller.                *)
LEMMA EndStep ==
  ASSUME XInv, NEW w \in Workers, Finish(w) \/ ReturnSingle(w)
  PROVE  XInv'
<1> USE WorkerParts DEF XInv, clientVars, Goto
<1>1. CASE Finish(w)
  <2>1. TypeOK'
    <3>1. ctx' \in [Callers -> {"live", "canceled", "deadline"}] /\ e' \in [Callers -> Errors]
      BY <1>1 DEF Finish, TypeOK, Errors
    <3>2. /\ reply' \in [Callers -> [Fields -> Servers \cup {Zero}]]
          /\ replyDone' \in [Callers -> BOOLEAN]
      <4>1. CASE err[w] = "nil" /\ ~replyDone[w[1]]
        <5>1. /\ reply \in [Callers -> [Fields -> Servers \cup {Zero}]]
              /\ replyDone \in [Callers -> BOOLEAN]
          BY DEF TypeOK
        <5>2. /\ reply' = [reply EXCEPT ![w[1]] = [f \in Fields |-> Zero]]
              /\ replyDone' = [replyDone EXCEPT ![w[1]] = TRUE]
          BY <1>1, <4>1 DEF Finish
        <5> QED  BY <5>1, <5>2
      <4>2. CASE ~(err[w] = "nil" /\ ~replyDone[w[1]])
        BY <1>1, <4>2 DEF Finish, TypeOK
      <4> QED  BY <4>1, <4>2
    <3>3. /\ stage' = [stage EXCEPT ![w] = "done"]
          /\ UNCHANGED <<pc, call, err, mutex, conn, opened, owed, losses>>
      BY <1>1 DEF Finish
    <3> QED  BY <3>1, <3>2, <3>3 DEF TypeOK
  <2>2. WorkInv' /\ DialInv' /\ OneConnection'
    BY <1>1, XClientAssumption DEF Finish, TypeOK, WorkInv, DialInv, OneConnection
  <2>3. CauseInv' /\ ErrorIsCause'
    BY <1>1 DEF Finish, TypeOK, CauseInv, ErrorIsCause
  <2>4. HalfInv'
    BY <1>1 DEF Finish, TypeOK, HalfInv
  <2> QED  BY <2>1, <2>2, <2>3, <2>4
<1>2. CASE ReturnSingle(w)
  BY <1>2, XClientAssumption
     DEF ReturnSingle, TypeOK, Errors, WorkInv, DialInv, OneConnection, CauseInv,
         ErrorIsCause, HalfInv
<1> QED  BY <1>1, <1>2

-----------------------------------------------------------------------------
(* The connections.                                                        *)
LEMMA ConnStep ==
  ASSUME XInv, NEW s \in Servers, Lose(s) \/ Terminated(s)
  PROVE  XInv'
<1> USE WorkerParts DEF XInv, callerVars, clientVars
<1>1. CASE Lose(s)
  BY <1>1, XClientAssumption
     DEF Lose, Pending, At, TypeOK, WorkInv, DialInv, OneConnection, CauseInv, ErrorIsCause,
         HalfInv
<1>2. CASE Terminated(s)
  BY <1>2
     DEF Terminated, Pending, At, TypeOK, WorkInv, DialInv, OneConnection, CauseInv,
         ErrorIsCause, HalfInv
<1> QED  BY <1>1, <1>2

LEMMA CloseStep == ASSUME XInv, Close \/ UNCHANGED vars PROVE XInv'
<1> USE WorkerParts DEF XInv, callerVars, workerVars
<1>1. CASE Close
  BY <1>1
     DEF Close, TypeOK, WorkInv, DialInv, OneConnection, CauseInv, ErrorIsCause, HalfInv
<1>2. CASE UNCHANGED vars
  BY <1>2
     DEF vars, clientVars, TypeOK, WorkInv, DialInv, OneConnection, CauseInv,
         ErrorIsCause, HalfInv
<1> QED  BY <1>1, <1>2

-----------------------------------------------------------------------------
(* XInv holds in every reachable state, whatever is called, lost or        *)
(* cancelled (xclient.go:47-136).                                          *)
THEOREM Invariance == Spec => []XInv
<1>1. XInv /\ [Next]_vars => XInv'
  BY StartStep, CallerStep, DialStep, CallStep, EndStep, ConnStep, CloseStep DEF Next, Work
<1> QED  BY <1>1, InitInv, PTL DEF Spec

(* The types of XClient, e and the maps of its workers included.           *)
THEOREM TypeCorrect == Spec => []TypeOK
<1>1. XInv => TypeOK
  BY DEF XInv
<1> QED  BY <1>1, Invariance, PTL

(* The error of a Broadcast is the one that came first, never the          *)
(* cancellation it led to (xclient.go:121-126), whatever the servers, the  *)
(* caller's context and the connections do.                                *)
THEOREM ErrorsAreCauses == Spec => []ErrorIsCause
<1>1. XInv => ErrorIsCause
  BY DEF XInv
<1> QED  BY <1>1, Invariance, PTL

(* No two goroutines dial one server at a time, and a client that is shut  *)
(* down is closed before another takes its place (xclient.go:47-69): each  *)
(* open connection is the one of a cached client.                          *)
THEOREM ConnectionsAreKept == Spec => []OneConnection
<1>1. XInv => OneConnection
  BY DEF XInv
<1> QED  BY <1>1, Invariance, PTL

-----------------------------------------------------------------------------
(* A reply is filled for a worker whose caller is not gone, or whose own   *)
(* error makes the caller return one.                                      *)
LEMMA Fillers ==
  ASSUME XInv, NEW w \in Workers, Answer(w) \/ Decoded(w) \/ Finish(w)
  PROVE  pc[w[1]] # "returned" \/ e[w[1]] # "nil"
<1> USE WorkerParts DEF XInv
<1>1. CASE Answer(w)
  BY <1>1 DEF Answer, Pending, At, WorkInv
<1>2. CASE Decoded(w)
  <2>1. call[w] = "half"
    BY <1>2 DEF Decoded
  <2>2. CASE pc[w[1]] = "returned"
    BY <2>1, <2>2 DEF WorkInv, HalfInv
  <2> QED  BY <2>2
<1>3. CASE Finish(w)
  BY <1>3 DEF Finish, WorkInv
<1> QED  BY <1>1, <1>2, <1>3

(* A reply changes in these steps only, and it is the caller's of the worker. *)
LEMMA FilledBy ==
  ASSUME XInv, Next, NEW c \in Callers, reply'[c] # reply[c]
  PROVE  \E w \in Workers : w[1] = c /\ (Answer(w) \/ Decoded(w) \/ Finish(w))
<1> USE WorkerParts DEF XInv
<1>1. reply \in [Callers -> [Fields -> Servers \cup {Zero}]]
  BY DEF TypeOK
<1>2. reply' # reply
  OBVIOUS
<1>3. ASSUME NEW w \in Workers, Answer(w) \/ Decoded(w) \/ Finish(w)
      PROVE  w[1] = c
  BY <1>1, <1>3 DEF Answer, Decoded, Finish
<1>4. \E w \in Workers : Answer(w) \/ Decoded(w) \/ Finish(w)
  <2>1. CASE \E b \in Callers : (\E servers \in SUBSET Servers : Start(b, servers))
                                 \/ StartFails(b) \/ Wait(b) \/ Deadline(b)
    BY <1>2, <2>1 DEF Start, StartFails, Wait, Deadline
  <2>2. CASE \E w \in Workers : Lock(w) \/ Lookup(w) \/ Dialed(w) \/ Send(w)
                                 \/ Return(w) \/ Cancelled(w) \/ Removed(w) \/ ReturnSingle(w)
    BY <1>2, <2>2 DEF Lock, Lookup, Dialed, Send, Return, Cancelled, Removed,
                      ReturnSingle, callerVars
  <2>3. CASE Close \/ \E s \in Servers : Lose(s) \/ Terminated(s)
    BY <1>2, <2>3 DEF Close, Lose, Terminated, callerVars
  <2> QED  BY <2>1, <2>2, <2>3 DEF Next, Work
<1> QED  BY <1>3, <1>4

(* Once Broadcast or Call has returned nil, its caller has the reply for   *)
(* itself: a call that was given up in the middle of its answer is one     *)
(* whose error was returned (client.go:315-320, xclient.go:119-136).       *)
THEOREM RepliesSettle == Spec => SettledReply
<1>1. ASSUME XInv, [Next]_vars
      PROVE  [\A c \in Callers :
                pc[c] = "returned" /\ e[c] = "nil" => reply'[c] = reply[c]]_vars
  BY <1>1, FilledBy, Fillers
<1> QED  BY <1>1, Invariance, PTL DEF Spec, SettledReply

(***************************************************************************)
(* Discovery.                                                              *)
(***************************************************************************)
(* Who asks the registry has mu, and the list has expired.  While it is    *)
(* good, nobody asks, and time stops until all have chosen.                *)
MutexInv ==
  /\ \A c \in Clients :
       /\ getting[c] \in {"fetch", "answer"} <=> mu = c
       /\ getting[c] = "choose" => mu = NoProc /\ updated < UpdateTimeout
  /\ mu # NoProc => updated = UpdateTimeout

(* The registry has answered a client.                                     *)
Answering == \E c \in Clients : getting[c] = "answer"

(* How long ago a server has died that is still in a message, the registry, *)
(* an answer or the list.                                                  *)
DeadInv ==
  \A s \in Addresses \ up :
    /\ beat[s] = "off"
    /\ post[s] = "request" => since[s] <= sent[s]
    /\ s \in DOMAIN start => since[s] <= start[s] + MaxDelay \/ start[s] = Timeout
    /\ Answering /\ s \in fetched => since[s] < Timeout + MaxDelay + wait
    /\ s \in list => since[s] < Timeout + 2 * MaxDelay + updated \/ updated = UpdateTimeout

(* No message of s was lost, and the registry did not fail.                *)
Good(s) == s \in up /\ {s, Registry} \cap failed = {}

(* The Heartbeat of such a server goes on, and its entry is renewed before *)
(* it expires.  One that has not run yet is not in the registry.           *)
BeatInv ==
  /\ Registry \notin failed => regUp
  /\ \A s \in Addresses \ (up \cup failed) : s \notin DOMAIN start /\ post[s] = "none"
  /\ \A s \in Addresses : Good(s) =>
       \/ /\ beat[s] = "calling" /\ post[s] = "request"
          /\ IF s \in DOMAIN start THEN start[s] <= MaxDelay + Period + sent[s]
             ELSE since[s] <= sent[s]
       \/ /\ beat[s] = "calling" /\ post[s] = "response"
          /\ s \in DOMAIN start /\ start[s] <= sent[s]
       \/ /\ beat[s] = "waiting" /\ post[s] = "none" /\ ticker[s] # -1
          /\ s \in DOMAIN start
          /\ start[s] <= MaxDelay + (IF tick[s] = 1 THEN Period ELSE ticker[s])

(* For how long such a server runs that is not yet in an answer or in the  *)
(* list.                                                                   *)
LiveInv ==
  \A s \in Addresses : Good(s) =>
    /\ Answering /\ s \notin fetched =>
         since[s] <= MaxDelay + wait
    /\ s \notin list => since[s] <= 2 * MaxDelay + updated \/ updated = UpdateTimeout

DInv == DiscoveryTypeOK /\ MutexInv /\ DeadInv /\ BeatInv /\ LiveInv

-----------------------------------------------------------------------------
LEMMA DiscoveryInitInv == ASSUME DiscoveryInit PROVE DInv
<1> USE TimeAssumption, NameAssumption DEF DiscoveryInit
<1>1. DiscoveryTypeOK
  BY DEF DiscoveryTypeOK, Vanished
<1>2. MutexInv /\ DeadInv
  BY DEF MutexInv, DeadInv, Answering
<1>3. BeatInv /\ LiveInv
  BY DEF BeatInv, LiveInv, Good
<1> QED  BY <1>1, <1>2, <1>3 DEF DInv

(* Who starts, and what fails. *)
LEMMA FailureStep ==
  ASSUME DInv, NEW s \in Addresses, StartServer(s) \/ CrashServer(s) \/ BeatFails(s)
  PROVE  DInv'
<1> USE TimeAssumption, NameAssumption DEF DInv, serverVars, registryVars, getVars
<1>1. CASE StartServer(s)
  <2> USE <1>1 DEF StartServer, Post
  <2>1. DiscoveryTypeOK'
    BY DEF DiscoveryTypeOK, Vanished
  <2>2. MutexInv'
    BY DEF DiscoveryTypeOK, MutexInv
  <2>3. DeadInv'
    BY DEF DiscoveryTypeOK, MutexInv, DeadInv, Answering
  <2>4. BeatInv'
    BY DEF DiscoveryTypeOK, BeatInv, Good
  <2>5. LiveInv'
    BY DEF DiscoveryTypeOK, MutexInv, BeatInv, LiveInv, Good, Answering
  <2> QED  BY <2>1, <2>2, <2>3, <2>4, <2>5
<1>2. CASE CrashServer(s)
  <2> USE <1>2 DEF CrashServer, Fails
  <2>1. DiscoveryTypeOK'
    BY DEF DiscoveryTypeOK, Vanished
  <2>2. MutexInv'
    BY DEF DiscoveryTypeOK, MutexInv
  <2>3. DeadInv'
    BY DEF DiscoveryTypeOK, MutexInv, DeadInv, Answering
  <2>4. BeatInv'
    BY DEF DiscoveryTypeOK, BeatInv, Good
  <2>5. LiveInv'
    BY DEF DiscoveryTypeOK, MutexInv, BeatInv, LiveInv, Good, Answering
  <2> QED  BY <2>1, <2>2, <2>3, <2>4, <2>5
<1>3. CASE BeatFails(s)
  <2> USE <1>3 DEF BeatFails, Fails
  <2>1. DiscoveryTypeOK'
    BY DEF DiscoveryTypeOK
  <2>2. MutexInv'
    BY DEF DiscoveryTypeOK, MutexInv
  <2>3. DeadInv'
    BY DEF DiscoveryTypeOK, MutexInv, DeadInv, Answering
  <2>4. BeatInv'
    BY DEF DiscoveryTypeOK, BeatInv, Good
  <2>5. LiveInv'
    BY DEF DiscoveryTypeOK, MutexInv, BeatInv, LiveInv, Good, Answering
  <2> QED  BY <2>1, <2>2, <2>3, <2>4, <2>5
<1> QED  BY <1>1, <1>2, <1>3

LEMMA RegistryStep == ASSUME DInv, CrashRegistry \/ StartRegistry PROVE DInv'
<1> USE TimeAssumption, NameAssumption DEF DInv, serverVars, registryVars, getVars
<1>1. CASE CrashRegistry
  <2> USE <1>1 DEF CrashRegistry, Fails
  <2>1. DiscoveryTypeOK'
    BY DEF DiscoveryTypeOK
  <2>2. MutexInv'
    BY DEF DiscoveryTypeOK, MutexInv
  <2>3. DeadInv'
    BY DEF DiscoveryTypeOK, MutexInv, DeadInv, Answering
  <2>4. BeatInv'
    BY DEF DiscoveryTypeOK, BeatInv, Good
  <2>5. LiveInv'
    BY DEF DiscoveryTypeOK, MutexInv, BeatInv, LiveInv, Good, Answering
  <2> QED  BY <2>1, <2>2, <2>3, <2>4, <2>5
<1>2. CASE StartRegistry
  <2> USE <1>2 DEF StartRegistry
  <2>1. DiscoveryTypeOK'
    BY DEF DiscoveryTypeOK
  <2>2. MutexInv'
    BY DEF DiscoveryTypeOK, MutexInv
  <2>3. DeadInv'
    BY DEF DiscoveryTypeOK, MutexInv, DeadInv, Answering
  <2>4. BeatInv'
    BY DEF DiscoveryTypeOK, BeatInv, Good
  <2>5. LiveInv'
    BY DEF DiscoveryTypeOK, MutexInv, BeatInv, LiveInv, Good, Answering
  <2> QED  BY <2>1, <2>2, <2>3, <2>4, <2>5
<1> QED  BY <1>1, <1>2

(* A heartbeat that arrives. *)
LEMMA HeartbeatStep ==
  ASSUME DInv, NEW s \in Addresses, PutServer(s) \/ Beaten(s) \/ Beat(s)
  PROVE  DInv'
<1> USE TimeAssumption, NameAssumption DEF DInv, serverVars, registryVars, getVars
<1>1. CASE PutServer(s)
  <2> USE <1>1 DEF PutServer
  <2>1. DiscoveryTypeOK'
    BY DEF DiscoveryTypeOK
  <2>2. MutexInv'
    BY DEF DiscoveryTypeOK, MutexInv
  <2>3. DeadInv'
    BY DEF DiscoveryTypeOK, MutexInv, DeadInv, Answering
  <2>4. BeatInv'
    BY DEF DiscoveryTypeOK, BeatInv, Good
  <2>5. LiveInv'
    BY DEF DiscoveryTypeOK, MutexInv, BeatInv, LiveInv, Good, Answering
  <2> QED  BY <2>1, <2>2, <2>3, <2>4, <2>5
<1>2. CASE Beaten(s)
  <2> USE <1>2 DEF Beaten
  <2>1. DiscoveryTypeOK'
    BY DEF DiscoveryTypeOK
  <2>2. MutexInv'
    BY DEF DiscoveryTypeOK, MutexInv
  <2>3. DeadInv'
    BY DEF DiscoveryTypeOK, MutexInv, DeadInv, Answering
  <2>4. BeatInv'
    BY DEF DiscoveryTypeOK, BeatInv, Good
  <2>5. LiveInv'
    BY DEF DiscoveryTypeOK, MutexInv, BeatInv, LiveInv, Good, Answering
  <2> QED  BY <2>1, <2>2, <2>3, <2>4, <2>5
<1>3. CASE Beat(s)
  <2> USE <1>3 DEF Beat, Post
  <2>6. s \in up
    BY DEF DeadInv
  <2>1. DiscoveryTypeOK'
    BY DEF DiscoveryTypeOK
  <2>2. MutexInv'
    BY DEF DiscoveryTypeOK, MutexInv
  <2>3. DeadInv'
    BY DEF DiscoveryTypeOK, MutexInv, DeadInv, Answering
  <2>4. BeatInv'
    BY <2>6 DEF DiscoveryTypeOK, BeatInv, Good
  <2>5. LiveInv'
    BY DEF DiscoveryTypeOK, MutexInv, BeatInv, LiveInv, Good, Answering
  <2> QED  BY <2>1, <2>2, <2>3, <2>4, <2>5
<1> QED  BY <1>1, <1>2, <1>3

(* Get of a client. *)
LEMMA ClientStep ==
  ASSUME DInv, NEW c \in Clients, Call(c) \/ Refresh(c) \/ AliveServer(c) \/ Install(c) \/ RefreshFails(c) \/ Choose(c)
  PROVE  DInv'
<1> USE TimeAssumption, NameAssumption DEF DInv, serverVars, registryVars, getVars
<1>1. CASE Call(c)
  <2> USE <1>1 DEF Call
  <2>1. DiscoveryTypeOK'
    BY DEF DiscoveryTypeOK
  <2>2. MutexInv'
    BY DEF DiscoveryTypeOK, MutexInv
  <2>3. DeadInv'
    BY DEF DiscoveryTypeOK, MutexInv, DeadInv, Answering
  <2>4. BeatInv'
    BY DEF DiscoveryTypeOK, BeatInv, Good
  <2>5. LiveInv'
    BY DEF DiscoveryTypeOK, MutexInv, BeatInv, LiveInv, Good, Answering
  <2> QED  BY <2>1, <2>2, <2>3, <2>4, <2>5
<1>2. CASE Refresh(c)
  <2> USE <1>2 DEF Refresh
  <2>1. DiscoveryTypeOK'
    BY DEF DiscoveryTypeOK
  <2>2. MutexInv'
    BY DEF DiscoveryTypeOK, MutexInv
  <2>3. DeadInv'
    BY DEF DiscoveryTypeOK, MutexInv, DeadInv, Answering
  <2>4. BeatInv'
    BY DEF DiscoveryTypeOK, BeatInv, Good
  <2>5. LiveInv'
    BY DEF DiscoveryTypeOK, MutexInv, BeatInv, LiveInv, Good, Answering
  <2> QED  BY <2>1, <2>2, <2>3, <2>4, <2>5
<1>3. CASE AliveServer(c)
  <2> USE <1>3 DEF AliveServer
  <2>1. DiscoveryTypeOK'
    BY DEF DiscoveryTypeOK
  <2>2. MutexInv'
    BY DEF DiscoveryTypeOK, MutexInv
  <2>3. DeadInv'
    BY DEF DiscoveryTypeOK, MutexInv, DeadInv, Answering
  <2>4. BeatInv'
    BY DEF DiscoveryTypeOK, BeatInv, Good
  <2>5. LiveInv'
    BY DEF DiscoveryTypeOK, MutexInv, BeatInv, LiveInv, Good, Answering
  <2> QED  BY <2>1, <2>2, <2>3, <2>4, <2>5
<1>4. CASE Install(c)
  <2> USE <1>4 DEF Install
  <2>1. DiscoveryTypeOK'
    BY DEF DiscoveryTypeOK
  <2>2. MutexInv'
    BY DEF DiscoveryTypeOK, MutexInv
  <2>3. DeadInv'
    BY DEF DiscoveryTypeOK, MutexInv, DeadInv, Answering
  <2>4. BeatInv'
    BY DEF DiscoveryTypeOK, BeatInv, Good
  <2>5. LiveInv'
    BY DEF DiscoveryTypeOK, MutexInv, BeatInv, LiveInv, Good, Answering
  <2> QED  BY <2>1, <2>2, <2>3, <2>4, <2>5
<1>5. CASE RefreshFails(c)
  <2> USE <1>5 DEF RefreshFails, Fails
  <2>1. DiscoveryTypeOK'
    BY DEF DiscoveryTypeOK
  <2>2. MutexInv'
    BY DEF DiscoveryTypeOK, MutexInv
  <2>3. DeadInv'
    BY DEF DiscoveryTypeOK, MutexInv, DeadInv, Answering
  <2>4. BeatInv'
    BY DEF DiscoveryTypeOK, BeatInv, Good
  <2>5. LiveInv'
    BY DEF DiscoveryTypeOK, MutexInv, BeatInv, LiveInv, Good, Answering
  <2> QED  BY <2>1, <2>2, <2>3, <2>4, <2>5
<1>6. CASE Choose(c)
  <2> USE <1>6 DEF Choose
  <2>1. DiscoveryTypeOK'
    BY DEF DiscoveryTypeOK
  <2>2. MutexInv'
    BY DEF DiscoveryTypeOK, MutexInv
  <2>3. DeadInv'
    BY DEF DiscoveryTypeOK, MutexInv, DeadInv, Answering
  <2>4. BeatInv'
    BY DEF DiscoveryTypeOK, BeatInv, Good
  <2>5. LiveInv'
    BY DEF DiscoveryTypeOK, MutexInv, BeatInv, LiveInv, Good, Answering
  <2> QED  BY <2>1, <2>2, <2>3, <2>4, <2>5
<1> QED  BY <1>1, <1>2, <1>3, <1>4, <1>5, <1>6

(* Time goes by. *)
LEMMA TickStep == ASSUME DInv, Tick PROVE DInv'
<1> USE TimeAssumption, NameAssumption DEF DInv
<1>1. /\ UNCHANGED <<up, beat, post, regUp, getting, mu, fetched, list, failed>>
      /\ DOMAIN start' = DOMAIN start
  BY DEF Tick
<1>2. ASSUME NEW s \in Addresses
      PROVE  /\ ~(beat[s] = "waiting" /\ tick[s] = 1)
             /\ since'[s] \in 0 .. Vanished /\ since[s] \in 0 .. Vanished
             /\ since'[s] <= since[s] + 1
             /\ tick'[s] = IF ticker[s] = Period - 1 THEN 1 ELSE tick[s]
             /\ ticker'[s] = IF ticker[s] = -1 THEN -1
                             ELSE IF ticker[s] = Period - 1 THEN 0 ELSE ticker[s] + 1
             /\ post[s] # "none" => sent'[s] = sent[s] + 1 /\ sent[s] < MaxDelay
             /\ sent'[s] \in 0 .. MaxDelay /\ sent[s] \in 0 .. MaxDelay
  <2>1. /\ ~(beat[s] = "waiting" /\ tick[s] = 1)
        /\ tick'[s] = IF ticker[s] = Period - 1 THEN 1 ELSE tick[s]
    BY DEF Tick, NextTick
  <2>2. /\ since'[s] \in 0 .. Vanished /\ since[s] \in 0 .. Vanished
        /\ since'[s] <= since[s] + 1
    BY DEF Tick, DiscoveryTypeOK, Older, Settled, Vanished
  <2>3. ticker'[s] = IF ticker[s] = -1 THEN -1
                     ELSE IF ticker[s] = Period - 1 THEN 0 ELSE ticker[s] + 1
    <3>1. ticker[s] \in -1 .. Period - 1
      BY DEF DiscoveryTypeOK
    <3>2. ticker'[s] = IF ticker[s] = -1 THEN -1 ELSE (ticker[s] + 1) % Period
      BY DEF Tick
    <3>3. ticker[s] \in 0 .. Period - 1 =>
            (ticker[s] + 1) % Period = IF ticker[s] = Period - 1 THEN 0 ELSE ticker[s] + 1
      OBVIOUS
    <3> QED  BY <3>1, <3>2, <3>3
  <2>4. /\ post[s] # "none" => sent'[s] = sent[s] + 1 /\ sent[s] < MaxDelay
        /\ sent'[s] \in 0 .. MaxDelay /\ sent[s] \in 0 .. MaxDelay
    BY DEF Tick, DiscoveryTypeOK
  <2> QED  BY <2>1, <2>2, <2>3, <2>4
<1>3. ASSUME NEW s \in DOMAIN start
      PROVE  /\ start[s] \in 0 .. Timeout /\ start'[s] \in 0 .. Timeout
             /\ start'[s] = IF start[s] < Timeout THEN start[s] + 1 ELSE start[s]
  BY DEF Tick, DiscoveryTypeOK, Older
<1>4. /\ mu = NoProc => \A c \in Clients : getting[c] = "idle"
      /\ mu # NoProc => wait' = wait + 1 /\ wait < MaxDelay
      /\ wait \in 0 .. MaxDelay /\ wait' \in 0 .. MaxDelay
      /\ updated \in 0 .. UpdateTimeout /\ updated' \in 0 .. UpdateTimeout
      /\ updated' = IF updated < UpdateTimeout THEN updated + 1 ELSE updated
  BY DEF Tick, DiscoveryTypeOK, Older
<1>5. DiscoveryTypeOK'
  <2>1. /\ since' \in [Addresses -> 0 .. Vanished] /\ sent' \in [Addresses -> 0 .. MaxDelay]
        /\ tick' \in [Addresses -> 0 .. 1] /\ ticker' \in [Addresses -> -1 .. (Period - 1)]
    <3>1. /\ since' = [s \in Addresses |-> since'[s]] /\ sent' = [s \in Addresses |-> sent'[s]]
          /\ tick' = [s \in Addresses |-> tick'[s]] /\ ticker' = [s \in Addresses |-> ticker'[s]]
      BY DEF Tick
    <3>2. \A s \in Addresses : tick'[s] \in 0 .. 1 /\ ticker'[s] \in -1 .. (Period - 1)
      BY <1>2 DEF DiscoveryTypeOK
    <3> QED  BY <1>2, <3>1, <3>2
  <2> QED  BY <1>1, <1>3, <1>4, <2>1 DEF DiscoveryTypeOK
<1>6. MutexInv'
  BY <1>1, <1>4 DEF MutexInv
<1>7. DeadInv'
  BY <1>1, <1>2, <1>3, <1>4 DEF MutexInv, DeadInv, Answering
<1>8. BeatInv'
  BY <1>1, <1>2, <1>3 DEF DiscoveryTypeOK, BeatInv, Good
<1>9. LiveInv'
  BY <1>1, <1>2, <1>4 DEF MutexInv, LiveInv, Good, Answering
<1> QED  BY <1>5, <1>6, <1>7, <1>8, <1>9

LEMMA StutterStep == ASSUME DInv, UNCHANGED discoveryVars PROVE DInv'
<1> USE DEF DInv, discoveryVars, serverVars, registryVars, getVars
<1>1. DiscoveryTypeOK' /\ MutexInv'
  BY DEF DiscoveryTypeOK, MutexInv
<1>2. DeadInv' /\ BeatInv' /\ LiveInv'
  BY DEF DeadInv, BeatInv, LiveInv, Good, Answering
<1> QED  BY <1>1, <1>2

-----------------------------------------------------------------------------
(* DInv holds in every reachable state, however heartbeats, requests and   *)
(* crashes fall (registry.go, discover_registry.go).                       *)
THEOREM DiscoveryInvariance == DiscoverySpec => []DInv
<1>1. DInv /\ [DiscoveryNext]_discoveryVars => DInv'
  BY FailureStep, RegistryStep, HeartbeatStep, ClientStep, TickStep, StutterStep DEF DiscoveryNext, Heartbeat, Get
<1> QED  BY <1>1, DiscoveryInitInv, PTL DEF DiscoverySpec

(* The types of Discovery: no age passes the largest value that the code   *)
(* compares it with.                                                       *)
THEOREM DiscoveryTypes == DiscoverySpec => []DiscoveryTypeOK
<1>1. DInv => DiscoveryTypeOK
  BY DEF DInv
<1> QED  BY <1>1, DiscoveryInvariance, PTL

(* A server that has been dead for the time-outs of the registry and of    *)
(* the discovery, and for two messages, is chosen by no client             *)
(* (registry.go:65-71, discover_registry.go:47-67), however the heartbeats *)
(* and requests are interleaved with its death.                            *)
THEOREM DeadVanishes == DiscoverySpec => DeadVanish
<1>1. ASSUME DInv, [DiscoveryNext]_discoveryVars,
             NEW c \in Clients, NEW s \in Addresses,
             Chosen(c), s \notin up, since[s] = Vanished
      PROVE  s \notin list
  <2>1. updated < UpdateTimeout
    BY <1>1 DEF DInv, MutexInv, Chosen
  <2>2. s \in list => since[s] < Timeout + 2 * MaxDelay + updated
    BY <1>1, <2>1, TimeAssumption DEF DInv, DiscoveryTypeOK, DeadInv
  <2>3. Timeout \in Nat /\ UpdateTimeout \in Nat /\ MaxDelay \in Nat /\ updated \in Nat
    BY <1>1, TimeAssumption DEF DInv, DiscoveryTypeOK
  <2> QED  BY <1>1, <2>1, <2>2, <2>3 DEF Vanished
<1>2. DInv /\ [DiscoveryNext]_discoveryVars =>
        [\A c \in Clients, s \in Addresses :
           Chosen(c) /\ s \notin up /\ since[s] = Vanished => s \notin list]_discoveryVars
  BY <1>1
<1> QED  BY <1>2, DiscoveryInvariance, PTL DEF DiscoverySpec, DeadVanish

(* With heartbeats that come a message's way and back before the entry     *)
(* expires (registry.go:113-116), a server that runs is chosen from one    *)
(* refresh after its start on, as long as no message of it is lost and the *)
(* registry does not fail.                                                 *)
THEOREM LiveAreListed == DiscoverySpec => LiveListed
<1>1. ASSUME DInv, [DiscoveryNext]_discoveryVars, NEW c \in Clients, NEW s \in up,
             Chosen(c), since[s] >= Settled, {s, Registry} \cap failed = {}
      PROVE  s \in list
  <2>1. updated < UpdateTimeout /\ s \in Addresses
    BY <1>1 DEF DInv, MutexInv, Chosen, DiscoveryTypeOK
  <2>2. s \notin list => since[s] <= 2 * MaxDelay + updated
    BY <1>1, <2>1, TimeAssumption DEF DInv, DiscoveryTypeOK, LiveInv, Good
  <2>3. UpdateTimeout \in Nat /\ MaxDelay \in Nat /\ updated \in Nat /\ since[s] \in Nat
    BY <1>1, <2>1, TimeAssumption DEF DInv, DiscoveryTypeOK
  <2> QED  BY <1>1, <2>1, <2>2, <2>3 DEF Settled
<1>2. DInv /\ [DiscoveryNext]_discoveryVars =>
        [\A c \in Clients, s \in up :
           /\ Chosen(c) /\ since[s] >= Settled
           /\ {s, Registry} \cap failed = {}
           => s \in list]_discoveryVars
  BY <1>1
<1> QED  BY <1>2, DiscoveryInvariance, PTL DEF DiscoverySpec, LiveListed
=============================================================================

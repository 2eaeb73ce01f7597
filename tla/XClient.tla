------------------------------- MODULE XClient -------------------------------
(***************************************************************************)
(* The XClient of GeeRPC (xclient/xclient.go): goroutines that call Call   *)
(* or Broadcast once, and the cached client of each server, of which only  *)
(* what module RpcClient shows is kept: who waits for an answer, and that  *)
(* terminateCalls keeps the client's mutexes while a channel is full.      *)
(*                                                                         *)
(* A goroutine of a Broadcast is a pair of its caller and a server; a Call *)
(* is such a pair too.                                                     *)
(***************************************************************************)
EXTENDS Integers, FiniteSets

CONSTANTS
  Servers,       \* addresses of servers
  Broadcasters,  \* goroutines that call Broadcast
  Singles,       \* goroutines that call Call
  Deadlines,     \* callers whose own context may end
  Zero,          \* the zero value of a field of a reply
  NoOne,
  MaxLosses      \* bound on the number of connections that are lost

Callers == Broadcasters \cup Singles
Workers == Callers \X Servers
Fields == 1..2   \* a reply has two fields, so that it can be torn

ASSUME XClientAssumption ==
  /\ IsFiniteSet(Servers)
  /\ Broadcasters \cap Singles = {}
  /\ Deadlines \subseteq Callers
  /\ Zero \notin Servers /\ NoOne \notin Workers
  /\ MaxLosses \in Nat

VARIABLES
  pc,        \* where each caller is
  ctx,       \* its context (of Broadcast: the one with cancel)
  e,         \* the error it returns
  replyDone, \* Broadcast's replyDone
  reply,     \* the server each field of *reply is from
  stage,     \* where each worker is
  call,      \* its Call struct: "none", being decoded, or Call.Error when done
  err,       \* what its call returned
  mutex,     \* who holds XClient.mutex across steps
  conn,      \* XClient.clients: the connection of each server's client
  opened,    \* connections to each server that are not closed
  owed,      \* workers whose channel was full when their connection was lost
  losses

callerVars == <<pc, ctx, e, replyDone, reply>>
workerVars == <<stage, call, err>>
clientVars == <<mutex, conn, opened, owed, losses>>
vars == <<callerVars, workerVars, clientVars>>

Errors == {"nil", "fail", "canceled", "deadline"}

TypeOK ==
  /\ pc \in [Callers -> {"idle", "called", "returned"}]
  /\ ctx \in [Callers -> {"live", "canceled", "deadline"}]
  /\ e \in [Callers -> Errors]
  /\ replyDone \in [Callers -> BOOLEAN]
  /\ reply \in [Callers -> [Fields -> Servers \cup {Zero}]]
  /\ stage \in [Workers -> {"none", "dial", "locked", "dialing", "call", "wait",
                            "removing", "finish", "done"}]
  /\ call \in [Workers -> {"none", "half", "nil", "fail"}]
  /\ err \in [Workers -> Errors]
  /\ mutex \in Workers \cup {NoOne}
  /\ conn \in [Servers -> {"none", "live", "ending", "dead"}]
  /\ opened \in [Servers -> Nat]
  /\ owed \subseteq Workers
  /\ losses \in 0..MaxLosses

Init ==
  /\ pc = [c \in Callers |-> "idle"]
  /\ ctx = [c \in Callers |-> "live"]
  /\ e = [c \in Callers |-> "nil"]
  /\ replyDone = [c \in Callers |-> FALSE]
  /\ reply = [c \in Callers |-> [f \in Fields |-> Zero]]
  /\ stage = [w \in Workers |-> "none"]
  /\ call = [w \in Workers |-> "none"]
  /\ err = [w \in Workers |-> "nil"]
  /\ mutex = NoOne
  /\ conn = [s \in Servers |-> "none"]
  /\ opened = [s \in Servers |-> 0]
  /\ owed = {} /\ losses = 0

Of(c) == {w \in Workers : w[1] = c}
At(s) == {w \in Workers : w[2] = s}

\* The calls of the client's pending map.
Pending(s) == {w \in At(s) : stage[w] \in {"wait", "removing"}}

\* terminateCalls waits for a worker that waits for a mutex it holds.
Wedged(s) ==
  conn[s] = "ending" /\ \E w \in At(s) \cap owed : stage[w] = "removing"

Goto(w, place) == stage' = [stage EXCEPT ![w] = place]

Finished(w, error) ==
  /\ Goto(w, "finish")
  /\ err' = [err EXCEPT ![w] = error]

-----------------------------------------------------------------------------
(* Broadcast takes a list of servers from the discovery and starts a       *)
(* goroutine for each; Call takes one server.                              *)
Start(c, list) ==
  /\ pc[c] = "idle"
  /\ c \in Singles => Cardinality(list) = 1
  /\ pc' = [pc EXCEPT ![c] = "called"]
  /\ stage' = [w \in Workers |->
                 IF w \in {c} \X list THEN "dial" ELSE stage[w]]
  /\ UNCHANGED <<ctx, e, replyDone, reply, call, err, clientVars>>

(* The discovery has no list. *)
StartFails(c) ==
  /\ pc[c] = "idle"
  /\ pc' = [pc EXCEPT ![c] = "returned"]
  /\ e' = [e EXCEPT ![c] = "fail"]
  /\ UNCHANGED <<ctx, replyDone, reply, workerVars, clientVars>>

(* Mutant of Lock: xclient.go:48 left out. *)
LockNothing(w) ==
  /\ stage[w] = "dial"
  /\ Goto(w, "locked")
  /\ UNCHANGED <<callerVars, call, err, clientVars>>

(* dial locks XClient.mutex. *)
Lock(w) ==
  /\ stage[w] = "dial" /\ mutex = NoOne
  /\ Goto(w, "locked") /\ mutex' = w
  /\ UNCHANGED <<callerVars, call, err, conn, opened, owed, losses>>

(* A client that works is used.  One that is shut down is closed, and a    *)
(* new one is dialed.  IsAvailable waits while the client is in            *)
(* terminateCalls.                                                         *)
Lookup(w) ==
  LET s == w[2] IN
  /\ stage[w] = "locked" /\ conn[s] # "ending"
  /\ IF conn[s] = "live"
     THEN /\ Goto(w, "call") /\ mutex' = NoOne
          /\ UNCHANGED <<conn, opened>>
     ELSE /\ Goto(w, "dialing")
          /\ conn' = [conn EXCEPT ![s] = "none"]
          /\ opened' = [opened EXCEPT ![s] = IF conn[s] = "dead" THEN @ - 1 ELSE @]
          /\ UNCHANGED mutex
  /\ UNCHANGED <<callerVars, call, err, owed, losses>>

(* SDial returns a client, which is kept, or an error. *)
Dialed(w) ==
  LET s == w[2] IN
  /\ stage[w] = "dialing"
  /\ mutex' = NoOne
  /\ \/ /\ Goto(w, "call")
        /\ conn' = [conn EXCEPT ![s] = "live"]
        /\ opened' = [opened EXCEPT ![s] = @ + 1]
        /\ UNCHANGED err
     \/ Finished(w, "fail") /\ UNCHANGED <<conn, opened>>
  /\ UNCHANGED <<callerVars, call, owed, losses>>

(* Client.Call registers the call and sends it. *)
Send(w) ==
  /\ stage[w] = "call" /\ conn[w[2]] = "live"
  /\ Goto(w, "wait")
  /\ UNCHANGED <<callerVars, call, err, clientVars>>

-----------------------------------------------------------------------------
(* receive takes the answer to a call that is still pending: an error, or  *)
(* a reply, whose fields it decodes into the caller's reply one by one.    *)
Answer(w) ==
  LET c == w[1]  s == w[2] IN
  /\ w \in Pending(s) /\ call[w] = "none" /\ conn[s] = "live"
  /\ \A v \in At(s) : call[v] # "half"
  /\ \/ call' = [call EXCEPT ![w] = "fail"] /\ UNCHANGED reply
     \/ /\ call' = [call EXCEPT ![w] = "half"]
        /\ reply' = [reply EXCEPT ![c][1] = s]
  /\ UNCHANGED <<pc, ctx, e, replyDone, stage, err, clientVars>>

(* The rest of the reply, though the caller may have gone; done().         *)
Decoded(w) ==
  LET c == w[1]  s == w[2] IN
  /\ call[w] = "half"
  /\ call' = [call EXCEPT ![w] = "nil"]
  /\ reply' = [reply EXCEPT ![c][2] = s]
  /\ UNCHANGED <<pc, ctx, e, replyDone, stage, err, clientVars>>

(* The connection is lost: terminateCalls sets the error of every pending  *)
(* call to nil, the shadowed err, and tells it.  It stops at the first     *)
(* call whose channel is full until that is taken, so only some are told.  *)
Lose(s) ==
  /\ conn[s] = "live" /\ losses < MaxLosses
  /\ \A w \in At(s) : call[w] # "half"
  /\ losses' = losses + 1
  /\ conn' = [conn EXCEPT ![s] = "ending"]
  /\ owed' = owed \cup {w \in Pending(s) : call[w] # "none"}
  /\ \E told \in SUBSET Pending(s) :
       call' = [w \in Workers |-> IF w \in told THEN "nil" ELSE call[w]]
  /\ UNCHANGED <<callerVars, stage, err, mutex, opened>>

(* terminateCalls has told everyone.  Who comes later gets errShutdown.    *)
Terminated(s) ==
  /\ conn[s] = "ending"
  /\ owed \cap Pending(s) = {}
  /\ conn' = [conn EXCEPT ![s] = "dead"]
  /\ call' = [w \in Workers |->
                CASE w \in At(s) /\ stage[w] = "call" -> "fail"
                  [] w \in Pending(s) /\ call[w] = "none" -> "nil"
                  [] OTHER -> call[w]]
  /\ stage' = [w \in Workers |->
                 IF w \in At(s) /\ stage[w] = "call" THEN "wait" ELSE stage[w]]
  /\ owed' = owed \ At(s)
  /\ UNCHANGED <<callerVars, err, mutex, opened, losses>>

(* The select of Client.Call takes the call from its channel. *)
Return(w) ==
  /\ stage[w] = "wait" /\ call[w] \in {"nil", "fail"}
  /\ Finished(w, call[w])
  /\ UNCHANGED <<callerVars, call, clientVars>>

(* It takes ctx.Done instead. *)
Cancelled(w) ==
  /\ stage[w] = "wait" /\ ctx[w[1]] # "live"
  /\ Goto(w, "removing")
  /\ err' = [err EXCEPT ![w] = ctx[w[1]]]
  /\ UNCHANGED <<callerVars, call, clientVars>>

(* removeCall, unless terminateCalls has the mutex. *)
Removed(w) ==
  /\ stage[w] = "removing" /\ conn[w[2]] # "ending"
  /\ Goto(w, "finish")
  /\ UNCHANGED <<callerVars, call, err, clientVars>>

(* Mutant of Finish: an error cancels nobody. *)
FinishNoCancel(w) ==
  LET c == w[1] IN
  /\ stage[w] = "finish" /\ c \in Broadcasters
  /\ Goto(w, "done")
  /\ e' = [e EXCEPT ![c] = IF @ = "nil" THEN err[w] ELSE @]
  /\ UNCHANGED <<pc, ctx, replyDone, reply, call, err, clientVars>>

(* Mutant of Finish: the last error wins. *)
FinishLastError(w) ==
  LET c == w[1] IN
  /\ stage[w] = "finish" /\ c \in Broadcasters
  /\ Goto(w, "done")
  /\ e' = [e EXCEPT ![c] = IF err[w] # "nil" THEN err[w] ELSE @]
  /\ ctx' = [ctx EXCEPT ![c] = IF @ = "live" /\ err[w] # "nil" THEN "canceled" ELSE @]
  /\ UNCHANGED <<pc, replyDone, reply, call, err, clientVars>>

(* The end of a worker of Broadcast, under its mutex: the first error is   *)
(* kept and cancels the others; the first success copies its clone, which  *)
(* the call did not fill, over the reply.                                  *)
Finish(w) ==
  LET c == w[1]  first == err[w] # "nil" /\ e[c] = "nil" IN
  /\ stage[w] = "finish" /\ c \in Broadcasters
  /\ Goto(w, "done")
  /\ e' = [e EXCEPT ![c] = IF first THEN err[w] ELSE @]
  /\ ctx' = [ctx EXCEPT ![c] = IF first /\ @ = "live" THEN "canceled" ELSE @]
  /\ IF err[w] = "nil" /\ ~replyDone[c]
     THEN /\ reply' = [reply EXCEPT ![c] = [f \in Fields |-> Zero]]
          /\ replyDone' = [replyDone EXCEPT ![c] = TRUE]
     ELSE UNCHANGED <<reply, replyDone>>
  /\ UNCHANGED <<pc, call, err, clientVars>>

(* Mutant of Wait: the workers count themselves, too late. *)
WaitSome(c) ==
  /\ c \in Broadcasters /\ pc[c] = "called"
  /\ \A w \in Of(c) : stage[w] \in {"none", "dial", "done"}
  /\ pc' = [pc EXCEPT ![c] = "returned"]
  /\ UNCHANGED <<ctx, e, replyDone, reply, workerVars, clientVars>>

(* wg.Wait, and Broadcast returns. *)
Wait(c) ==
  /\ c \in Broadcasters /\ pc[c] = "called"
  /\ \A w \in Of(c) : stage[w] \in {"none", "done"}
  /\ pc' = [pc EXCEPT ![c] = "returned"]
  /\ UNCHANGED <<ctx, e, replyDone, reply, workerVars, clientVars>>

(* Call returns what its call returned. *)
ReturnSingle(w) ==
  LET c == w[1] IN
  /\ stage[w] = "finish" /\ c \in Singles
  /\ Goto(w, "done")
  /\ e' = [e EXCEPT ![c] = err[w]]
  /\ pc' = [pc EXCEPT ![c] = "returned"]
  /\ UNCHANGED <<ctx, replyDone, reply, call, err, clientVars>>

(* The context given to Broadcast or Call ends. *)
Deadline(c) ==
  /\ c \in Deadlines /\ ctx[c] = "live"
  /\ ctx' = [ctx EXCEPT ![c] = "deadline"]
  /\ UNCHANGED <<pc, e, replyDone, reply, workerVars, clientVars>>

(* XClient.Close, which comes when all callers have returned (main.go);    *)
(* Client.Close needs the mutex of each client.                            *)
Close ==
  /\ mutex = NoOne /\ \A c \in Callers : pc[c] = "returned"
  /\ \A s \in Servers : conn[s] # "ending"
  /\ conn' = [s \in Servers |-> "none"]
  /\ opened' = [s \in Servers |-> IF conn[s] = "none" THEN opened[s] ELSE opened[s] - 1]
  /\ UNCHANGED <<callerVars, workerVars, mutex, owed, losses>>

-----------------------------------------------------------------------------
Work(w) ==
  \/ Lock(w) \/ Lookup(w) \/ Dialed(w) \/ Send(w) \/ Decoded(w) \/ Return(w)
  \/ Cancelled(w) \/ Removed(w) \/ Finish(w) \/ ReturnSingle(w)

Next ==
  \/ \E c \in Callers :
       \/ \E list \in SUBSET Servers : Start(c, list)
       \/ StartFails(c) \/ Wait(c) \/ Deadline(c)
  \/ \E w \in Workers : Work(w) \/ Answer(w)
  \/ \E s \in Servers : Lose(s) \/ Terminated(s)
  \/ Close

(* Goroutines run, a dial comes to an end (ConnectTimeout), and receive    *)
(* goes on.  Nothing makes a server answer or a context end.               *)
Spec ==
  /\ Init /\ [][Next]_vars
  /\ \A w \in Workers : WF_vars(Work(w))
  /\ \A c \in Callers : WF_vars(Wait(c))
  /\ \A s \in Servers : WF_vars(Terminated(s))

-----------------------------------------------------------------------------
(* The error of a Broadcast is a cause: never the cancellation that        *)
(* another error led to (line 125).                                        *)
ErrorIsCause == \A c \in Callers : e[c] # "canceled"

(* Every connection that is open is the one of the cached client: two      *)
(* goroutines that find none, or a dead one, do not dial two               *)
(* (lines 51-69).                                                          *)
OneConnection ==
  \A s \in Servers : opened[s] = IF conn[s] = "none" THEN 0 ELSE 1

(* Once Broadcast or Call has returned nil its caller may use the reply:   *)
(* no answer that is late is decoded into it.                              *)
SettledReply ==
  [][\A c \in Callers :
       pc[c] = "returned" /\ e[c] = "nil" => reply'[c] = reply[c]]_vars

(* An error of one server, or the end of the context, ends the call, even  *)
(* if other servers never answer; unless a client is wedged in             *)
(* terminateCalls.                                                         *)
ErrorEndsCall ==
  \A c \in Callers :
    (pc[c] = "called" /\ (ctx[c] # "live" \/ e[c] # "nil"))
      ~> (pc[c] = "returned" \/ \E s \in Servers : Wedged(s))

=============================================================================

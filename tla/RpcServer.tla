------------------------------ MODULE RpcServer ------------------------------
(***************************************************************************)
(* One connection of GeeRPC/server/server.go: the loop of serveCodec, and  *)
(* for each request a goroutine of handleRequest with the worker it starts *)
(* (they meet on the unbuffered channels called and sent).  All of them    *)
(* write responses to the one codec under the mutex sending; a response is *)
(* a header and a body, encoded one after the other (codec/gob.go:48-67).  *)
(***************************************************************************)
EXTENDS Integers, Sequences, FiniteSets

CONSTANTS
  Reqs,         \* requests of the client, by sequence number
  Invalid,      \* those findService or ReadBody refuses
  Unencodable,  \* those whose reply gob cannot encode
  Nobody

ASSUME RequestAssumption == Invalid \cup Unencodable \subseteq Reqs

Goroutines == {"loop", "handler", "worker"}
Writers == Reqs \X Goroutines

ASSUME NobodyAssumption == Nobody \notin Writers \cup Reqs

VARIABLES
  unread,    \* requests the loop has not read
  loop,      \* where serveCodec is
  rejected,  \* the request the loop refuses
  handler,   \* handler[r]: where handleRequest of r is
  worker,    \* worker[r]: where its worker is
  outcome,   \* outcome[r]: what the response of r says
  sending,   \* who holds sending
  out,       \* what the codec has encoded: parts of responses
  connOpen,  \* neither ServeConn nor a failed Write has closed the connection
  peerGone   \* the client has closed it

vars == <<unread, loop, rejected, handler, worker, outcome, sending, out, connOpen,
          peerGone>>

Outcomes == {"reply", "error", "timeout", "none"}

TypeOK ==
  /\ unread \subseteq Reqs
  /\ loop \in {"read", "reject", "exited"}
  /\ rejected \in Reqs \cup {Nobody}
  /\ handler \in [Reqs -> {"none", "select", "timedOut", "waitSent", "done"}]
  /\ worker \in [Reqs -> {"none", "call", "called", "send", "sent", "done"}]
  /\ outcome \in [Reqs -> Outcomes]
  /\ sending \in Writers \cup {Nobody}
  /\ out \in Seq(Reqs \X {"header", "body"} \X Outcomes)
  /\ connOpen \in BOOLEAN /\ peerGone \in BOOLEAN
  /\ \A r \in Reqs : handler[r] = "waitSent" => worker[r] \in {"send", "sent"}

Init ==
  /\ unread = Reqs
  /\ loop = "read" /\ rejected = Nobody
  /\ handler = [r \in Reqs |-> "none"]
  /\ worker = [r \in Reqs |-> "none"]
  /\ outcome = [r \in Reqs |-> "none"]
  /\ sending = Nobody
  /\ out = <<>>
  /\ connOpen = TRUE /\ peerGone = FALSE

Alive == connOpen /\ ~peerGone

Emit(r, part) == out' = IF Alive THEN Append(out, <<r, part, outcome[r]>>) ELSE out

-----------------------------------------------------------------------------
(* readRequest succeeds: handleRequest is started, and starts the worker.  *)
Read(r) ==
  /\ loop = "read" /\ Alive
  /\ r \in unread \ Invalid
  /\ unread' = unread \ {r}
  /\ handler' = [handler EXCEPT ![r] = "select"]
  /\ worker' = [worker EXCEPT ![r] = "call"]
  /\ UNCHANGED <<loop, rejected, outcome, sending, out, connOpen, peerGone>>

(* readRequest returns a request and an error. *)
ReadInvalid(r) ==
  /\ loop = "read" /\ Alive
  /\ r \in unread \cap Invalid
  /\ unread' = unread \ {r}
  /\ loop' = "reject" /\ rejected' = r
  /\ outcome' = [outcome EXCEPT ![r] = "error"]
  /\ UNCHANGED <<handler, worker, sending, out, connOpen, peerGone>>

(* The header cannot be read: serveCodec ends and ServeConn closes. *)
ReadNothing ==
  /\ loop = "read" /\ ~Alive
  /\ loop' = "exited"
  /\ connOpen' = FALSE
  /\ UNCHANGED <<unread, rejected, handler, worker, outcome, sending, out, peerGone>>

(* The service's method returns. *)
MethodReturns(r) ==
  /\ worker[r] = "call"
  /\ worker' = [worker EXCEPT ![r] = "called"]
  /\ UNCHANGED <<unread, loop, rejected, handler, outcome, sending, out, connOpen,
                 peerGone>>

(* Mutants of Called: called is buffered; handleRequest returns at once.   *)
CalledBuffered(r, result) ==
  /\ worker[r] = "called"
  /\ worker' = [worker EXCEPT ![r] = "send"]
  /\ outcome' = [outcome EXCEPT ![r] = result]
  /\ UNCHANGED <<unread, loop, rejected, handler, sending, out, connOpen, peerGone>>

CalledAndDone(r, result) ==
  /\ worker[r] = "called" /\ handler[r] = "select"
  /\ worker' = [worker EXCEPT ![r] = "send"]
  /\ handler' = [handler EXCEPT ![r] = "done"]
  /\ outcome' = [outcome EXCEPT ![r] = result]
  /\ UNCHANGED <<unread, loop, rejected, sending, out, connOpen, peerGone>>

(* called <- struct{}{} meets case <-called: the worker goes on to respond *)
(* with what the method returned, a reply or an error.                     *)
Called(r, result) ==
  /\ worker[r] = "called" /\ handler[r] = "select"
  /\ worker' = [worker EXCEPT ![r] = "send"]
  /\ handler' = [handler EXCEPT ![r] = "waitSent"]
  /\ outcome' = [outcome EXCEPT ![r] = result]
  /\ UNCHANGED <<unread, loop, rejected, sending, out, connOpen, peerGone>>

(* Mutant of Timeout: server.go:269 left out. *)
TimeoutUnanswered(r) ==
  /\ handler[r] = "select"
  /\ handler' = [handler EXCEPT ![r] = "done"]
  /\ outcome' = [outcome EXCEPT ![r] = "timeout"]
  /\ UNCHANGED <<unread, loop, rejected, worker, sending, out, connOpen, peerGone>>

(* case <-time.After(timeout) *)
Timeout(r) ==
  /\ handler[r] = "select"
  /\ handler' = [handler EXCEPT ![r] = "timedOut"]
  /\ outcome' = [outcome EXCEPT ![r] = "timeout"]
  /\ UNCHANGED <<unread, loop, rejected, worker, sending, out, connOpen, peerGone>>

(* sent <- struct{}{} meets <-sent, and handleRequest returns. *)
Sent(r) ==
  /\ worker[r] = "sent" /\ handler[r] = "waitSent"
  /\ worker' = [worker EXCEPT ![r] = "done"]
  /\ handler' = [handler EXCEPT ![r] = "done"]
  /\ UNCHANGED <<unread, loop, rejected, outcome, sending, out, connOpen, peerGone>>

-----------------------------------------------------------------------------
InSendResponse(r, g) ==
  \/ g = "worker" /\ worker[r] = "send"
  \/ g = "handler" /\ handler[r] = "timedOut"
  \/ g = "loop" /\ loop = "reject" /\ rejected = r

(* Mutant of WriteHeader: sending is not locked. *)
WriteHeaderUnlocked(r, g) ==
  /\ sending # <<r, g>>
  /\ InSendResponse(r, g)
  /\ sending' = <<r, g>>
  /\ Emit(r, "header")
  /\ UNCHANGED <<unread, loop, rejected, handler, worker, outcome, connOpen, peerGone>>

(* sendResponse: sending is locked and the header encoded. *)
WriteHeader(r, g) ==
  /\ InSendResponse(r, g)
  /\ sending = Nobody
  /\ sending' = <<r, g>>
  /\ Emit(r, "header")
  /\ UNCHANGED <<unread, loop, rejected, handler, worker, outcome, connOpen, peerGone>>

(* Mutant of AfterResponse: the worker does not wait on sent. *)
AfterResponseNoSent(r, g) ==
  /\ worker' = IF g = "worker" THEN [worker EXCEPT ![r] = "done"] ELSE worker
  /\ handler' = IF g = "handler" THEN [handler EXCEPT ![r] = "done"] ELSE handler
  /\ loop' = IF g = "loop" THEN "exited" ELSE loop

(* What follows sendResponse: the worker offers sent, handleRequest ends,  *)
(* or serveCodec returns and ServeConn closes the connection.              *)
AfterResponse(r, g) ==
  /\ worker' = IF g = "worker" THEN [worker EXCEPT ![r] = "sent"] ELSE worker
  /\ handler' = IF g = "handler" THEN [handler EXCEPT ![r] = "done"] ELSE handler
  /\ loop' = IF g = "loop" THEN "exited" ELSE loop

(* The body is encoded, the buffer flushed and sending unlocked.  A body   *)
(* gob cannot encode makes Write close the connection.                     *)
WriteBody(r, g) ==
  /\ sending = <<r, g>>
  /\ sending' = Nobody
  /\ \/ /\ r \in Unencodable /\ outcome[r] = "reply"
        /\ connOpen' = FALSE
        /\ UNCHANGED out
     \/ /\ ~(r \in Unencodable /\ outcome[r] = "reply")
        /\ Emit(r, "body")
        /\ connOpen' = (connOpen /\ g # "loop")
  /\ AfterResponse(r, g)
  /\ UNCHANGED <<unread, rejected, outcome, peerGone>>

PeerClose ==
  /\ ~peerGone
  /\ peerGone' = TRUE
  /\ UNCHANGED <<unread, loop, rejected, handler, worker, outcome, sending, out,
                 connOpen>>

Write(r) ==
  \E g \in Goroutines : WriteHeader(r, g) \/ WriteBody(r, g)

Handle(r) ==
  \/ \E result \in {"reply", "error"} : Called(r, result)
  \/ Timeout(r) \/ Sent(r) \/ Write(r)

Next ==
  \/ \E r \in Reqs : Read(r) \/ ReadInvalid(r) \/ MethodReturns(r) \/ Handle(r)
  \/ ReadNothing
  \/ PeerClose

(* Goroutines are scheduled and timers fire; a method may never return,    *)
(* and nothing makes the client send or close.                             *)
Spec == Init /\ [][Next]_vars /\ \A r \in Reqs : WF_vars(Handle(r))

-----------------------------------------------------------------------------
Headers(r) == {i \in DOMAIN out : out[i][1] = r /\ out[i][2] = "header"}

Answered(r) == \E i \in DOMAIN out : out[i][1] = r /\ out[i][2] = "body"

(* A request gets at most one response, its own or the timeout's: a worker *)
(* that returns after the timeout stays blocked on called (server.go:247). *)
OneResponse == \A r \in Reqs : Cardinality(Headers(r)) <= 1

(* Responses are complete (server.go:153): the parts of two responses are  *)
(* never mixed, whichever goroutines write at the same time.               *)
WholeResponses ==
  \A i \in DOMAIN out :
    IF i % 2 = 1 THEN out[i][2] = "header"
    ELSE out[i][2] = "body" /\ out[i][1] = out[i - 1][1] /\ out[i][3] = out[i - 1][3]

(* handleRequest returns, and does wg.Done, only after the response of its *)
(* request was written, unless the connection is gone.                     *)
DoneMeansAnswered ==
  \A r \in Reqs : handler[r] = "done" /\ Alive => Answered(r)

(* Every request that was read is answered, even when its method hangs, as *)
(* long as the connection lasts.                                           *)
ReadMeansAnswered ==
  \A r \in Reqs : (handler[r] # "none") ~> (Answered(r) \/ ~Alive)
=============================================================================

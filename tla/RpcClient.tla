------------------------------ MODULE RpcClient ------------------------------
(***************************************************************************)
(* One Client of GeeRPC/client/client.go over a connection with the codec  *)
(* of GeeRPC/codec/gob.go: goroutines that each make one Call, the         *)
(* goroutine of receive, and calls of Close.  The server is the            *)
(* environment: it answers each request it got at most once, in any order, *)
(* with the header's sequence number, and may close the connection.        *)
(*                                                                         *)
(* A section under client.mutex is one step, except that terminateCalls    *)
(* keeps sending and mutex locked while it notifies call after call.       *)
(***************************************************************************)
EXTENDS Integers, Sequences, FiniteSets

CONSTANTS
  Calls,        \* the Call structs, and the goroutine of each
  Cancellable,  \* calls whose context may end
  BadArgs,      \* calls whose arguments gob cannot encode
  BadReply,     \* calls whose reply has not the type of the result
  NoCall,       \* the nil pointer
  Receiver      \* the goroutine of receive

ASSUME CallAssumption ==
  /\ IsFiniteSet(Calls)
  /\ NoCall \notin Calls /\ Receiver \notin Calls \cup {NoCall}
  /\ Cancellable \cup BadArgs \cup BadReply \subseteq Calls

VARIABLES
  closing, shutdown,  \* as in Client
  seq,                \* client.seq
  pending,            \* client.pending: a function from sequence numbers
  header,             \* client.header.Seq
  sending,            \* who holds client.sending
  pc,                 \* where each Call is
  callSeq,            \* call.Seq; 0 before it is registered
  err, reply,         \* call.Error; the call whose result call.Reply holds
  chan,               \* tokens in call.Done, whose capacity is 1
  result,             \* what Call returned
  rpc,                \* where receive is
  cur,                \* the response receive is at, and its call
  recvErr,            \* receive's err
  toNotify,           \* pending calls terminateCalls has not come to
  connClosed,         \* codec.Close was called
  flushFailed,        \* the codec's bufio.Writer has failed
  peerClosed,         \* the server closed the connection
  reqs,               \* requests the server has to answer
  inbox               \* responses on their way

callVars == <<pc, callSeq, err, reply, chan, result>>
recvVars == <<rpc, cur, recvErr, toNotify>>
connVars == <<connClosed, flushFailed, peerClosed, reqs, inbox>>
vars == <<closing, shutdown, seq, pending, header, sending,
          callVars, recvVars, connVars>>

Seqs == 1..Cardinality(Calls)

\* nil, an error of the service, errShutdown, an error of Write, of ReadBody
Errors == {"nil", "service", "shutdown", "write", "body"}

Response == [seq : Seqs, call : Calls, kind : {"ok", "error"}]

TypeOK ==
  /\ closing \in BOOLEAN /\ shutdown \in BOOLEAN
  /\ seq \in 1..(Cardinality(Calls) + 1)
  /\ DOMAIN pending \subseteq Seqs
  /\ \A s \in DOMAIN pending : pending[s] \in Calls
  /\ header \in Seqs \cup {0}
  /\ sending \in Calls \cup {NoCall, Receiver}
  /\ pc \in [Calls -> {"idle", "calling", "sending", "selecting", "cancelled",
                       "got", "returned"}]
  /\ callSeq \in [Calls -> Seqs \cup {0}]
  /\ err \in [Calls -> Errors]
  /\ reply \in [Calls -> Calls \cup {NoCall}]
  /\ chan \in [Calls -> 0..1]
  /\ result \in [Calls -> Errors \cup {"context", "unset"}]
  /\ rpc \in {"read", "deliver", "terminate", "notify", "push", "exited"}
  /\ cur \in [resp : Response \cup {<<>>}, call : Calls \cup {NoCall}]
  /\ recvErr \in {"nil", "body"}
  /\ toNotify \subseteq Calls
  /\ connClosed \in BOOLEAN /\ flushFailed \in BOOLEAN /\ peerClosed \in BOOLEAN
  /\ reqs \subseteq [seq : Seqs, call : Calls]
  /\ inbox \in Seq(Response)

NoCur == [resp |-> <<>>, call |-> NoCall]

Init ==
  /\ closing = FALSE /\ shutdown = FALSE
  /\ seq = 1
  /\ pending = <<>>
  /\ header = 0
  /\ sending = NoCall
  /\ pc = [c \in Calls |-> "idle"]
  /\ callSeq = [c \in Calls |-> 0]
  /\ err = [c \in Calls |-> "nil"]
  /\ reply = [c \in Calls |-> NoCall]
  /\ chan = [c \in Calls |-> 0]
  /\ result = [c \in Calls |-> "unset"]
  /\ rpc = "read" /\ cur = NoCur /\ recvErr = "nil" /\ toNotify = {}
  /\ connClosed = FALSE /\ flushFailed = FALSE /\ peerClosed = FALSE
  /\ reqs = {} /\ inbox = <<>>

Lost == connClosed \/ peerClosed

MutexFree == rpc \notin {"notify", "push"}

Remove(s) == [t \in DOMAIN pending \ {s} |-> pending[t]]

Pending(s) == IF s \in DOMAIN pending THEN pending[s] ELSE NoCall

(* call.Error = e, then call.done(), which blocks while the channel is full *)
Finish(c, e) ==
  /\ chan[c] = 0
  /\ chan' = [chan EXCEPT ![c] = @ + 1]
  /\ err' = [err EXCEPT ![c] = e]

-----------------------------------------------------------------------------
(* A goroutine enters Call, Go and send. *)
Start(c) ==
  /\ pc[c] = "idle"
  /\ pc' = [pc EXCEPT ![c] = "calling"]
  /\ UNCHANGED <<closing, shutdown, seq, pending, header, sending, callSeq, err,
                 reply, chan, result, recvVars, connVars>>

(* Mutant of RegisterCall: client.go:89 left out. *)
RegisterSameSeq(c) ==
  /\ pc[c] = "calling"
  /\ sending = NoCall
  /\ MutexFree
  /\ ~closing /\ ~shutdown
  /\ callSeq' = [callSeq EXCEPT ![c] = seq]
  /\ pending' = [s \in DOMAIN pending \cup {seq} |->
                   IF s = seq THEN c ELSE pending[s]]
  /\ header' = seq
  /\ sending' = c
  /\ pc' = [pc EXCEPT ![c] = "sending"]
  /\ UNCHANGED <<closing, shutdown, seq, err, chan, reply, result, recvVars, connVars>>

(* send: sending is locked; registerCall refuses, or the header is filled in. *)
RegisterCall(c) ==
  /\ pc[c] = "calling"
  /\ sending = NoCall
  /\ MutexFree
  /\ \/ /\ closing \/ shutdown
        /\ Finish(c, "shutdown")
        /\ pc' = [pc EXCEPT ![c] = "selecting"]
        /\ UNCHANGED <<seq, pending, header, sending, callSeq>>
     \/ /\ ~closing /\ ~shutdown
        /\ callSeq' = [callSeq EXCEPT ![c] = seq]
        /\ pending' = [s \in DOMAIN pending \cup {seq} |->
                         IF s = seq THEN c ELSE pending[s]]
        /\ seq' = seq + 1
        /\ header' = seq
        /\ sending' = c
        /\ pc' = [pc EXCEPT ![c] = "sending"]
        /\ UNCHANGED <<err, chan>>
  /\ UNCHANGED <<closing, shutdown, reply, result, recvVars, connVars>>

(* cc.Write fails when gob cannot encode or the buffer failed before: the  *)
(* codec is closed and the call finished.  A Flush that fails is ignored,  *)
(* the request is then lost without an error.                              *)
Write(c) ==
  /\ pc[c] = "sending"
  /\ \/ /\ c \in BadArgs \/ flushFailed
        /\ connClosed' = TRUE
        /\ flushFailed' = (flushFailed \/ connClosed)
        /\ pending' = Remove(callSeq[c])
        /\ LET call == Pending(callSeq[c])
           IN IF call = NoCall THEN UNCHANGED <<err, chan>> ELSE Finish(call, "write")
        /\ UNCHANGED reqs
     \/ /\ c \notin BadArgs /\ ~flushFailed /\ Lost
        /\ flushFailed' \in (IF connClosed THEN {TRUE} ELSE BOOLEAN)
        /\ UNCHANGED <<pending, err, chan, connClosed, reqs>>
     \/ /\ c \notin BadArgs /\ ~flushFailed /\ ~Lost
        /\ reqs' = reqs \cup {[seq |-> header, call |-> c]}
        /\ UNCHANGED <<pending, err, chan, connClosed, flushFailed>>
  /\ sending' = NoCall
  /\ pc' = [pc EXCEPT ![c] = "selecting"]
  /\ UNCHANGED <<closing, shutdown, seq, header, callSeq, reply, result, recvVars,
                 peerClosed, inbox>>

(* ca := <-call.Done, then return ca.Error. *)
Take(c) ==
  /\ pc[c] = "selecting"
  /\ chan[c] = 1
  /\ chan' = [chan EXCEPT ![c] = 0]
  /\ pc' = [pc EXCEPT ![c] = "got"]
  /\ UNCHANGED <<closing, shutdown, seq, pending, header, sending, callSeq, err,
                 reply, result, recvVars, connVars>>

Return(c) ==
  /\ pc[c] = "got"
  /\ result' = [result EXCEPT ![c] = err[c]]
  /\ pc' = [pc EXCEPT ![c] = "returned"]
  /\ UNCHANGED <<closing, shutdown, seq, pending, header, sending, callSeq, err,
                 reply, chan, recvVars, connVars>>

(* The context ended, and select took that branch, Done ready or not. *)
Cancel(c) ==
  /\ pc[c] = "selecting"
  /\ c \in Cancellable
  /\ pc' = [pc EXCEPT ![c] = "cancelled"]
  /\ UNCHANGED <<closing, shutdown, seq, pending, header, sending, callSeq, err,
                 reply, chan, result, recvVars, connVars>>

RemoveCancelled(c) ==
  /\ pc[c] = "cancelled"
  /\ MutexFree
  /\ pending' = Remove(callSeq[c])
  /\ result' = [result EXCEPT ![c] = "context"]
  /\ pc' = [pc EXCEPT ![c] = "returned"]
  /\ UNCHANGED <<closing, shutdown, seq, header, sending, callSeq, err, reply, chan,
                 recvVars, connVars>>

(* The first Close; a later one only returns errShutdown. *)
Close ==
  /\ MutexFree
  /\ ~closing
  /\ closing' = TRUE
  /\ connClosed' = TRUE
  /\ UNCHANGED <<shutdown, seq, pending, header, sending, callVars, recvVars,
                 flushFailed, peerClosed, reqs, inbox>>

-----------------------------------------------------------------------------
(* Some goroutine may be writing the map that receive reads without mutex. *)
Racing ==
  \E c \in Calls :
    \/ pc[c] \in {"calling", "cancelled"}
    \/ pc[c] = "sending" /\ (c \in BadArgs \/ flushFailed)

(* receive: a header arrived.  client.pending is read without the mutex,   *)
(* so the entry may be missed while another goroutine writes the map.      *)
ReadHeader ==
  /\ rpc = "read"
  /\ inbox # <<>>
  /\ inbox' = Tail(inbox)
  /\ \E call \in {Pending(Head(inbox).seq)} \cup (IF Racing THEN {NoCall} ELSE {}) :
       cur' = [resp |-> Head(inbox), call |-> call]
  /\ rpc' = "deliver"
  /\ UNCHANGED <<closing, shutdown, seq, pending, header, sending, callVars,
                 recvErr, toNotify, connClosed, flushFailed, peerClosed, reqs>>

(* Mutant of Break: receive returns without terminateCalls. *)
BreakAtOnce ==
  /\ rpc = "read"
  /\ Lost
  /\ rpc' = "exited"
  /\ UNCHANGED <<closing, shutdown, seq, pending, header, sending, callVars,
                 cur, recvErr, toNotify, connVars>>

(* ReadHeader failed: its error is a variable of the loop's body, and the  *)
(* err that terminateCalls gets is still nil.                              *)
Break ==
  /\ rpc = "read"
  /\ Lost
  /\ rpc' = "terminate"
  /\ UNCHANGED <<closing, shutdown, seq, pending, header, sending, callVars,
                 cur, recvErr, toNotify, connVars>>

(* ReadBody may fail on a lost connection, and does on a reply that cannot *)
(* take the result.                                                        *)
BodyError == {e \in {"nil", "body"} :
  LET mismatch == cur.call \in BadReply /\ cur.resp.kind = "ok"
  IN (mismatch => e = "body") /\ (~mismatch /\ ~Lost => e = "nil")}

(* Mutant of Deliver: client.go:138 left out. *)
DeliverNoError ==
  /\ rpc = "deliver"
  /\ \E e \in BodyError :
       /\ \/ /\ cur.call = NoCall
             /\ UNCHANGED <<err, chan, reply>>
          \/ /\ cur.call # NoCall
             /\ Finish(cur.call, err[cur.call])
             /\ reply' = IF cur.resp.kind = "error" THEN reply
                         ELSE [reply EXCEPT ![cur.call] = cur.resp.call]
       /\ recvErr' = e
       /\ rpc' = IF e = "nil" THEN "read" ELSE "terminate"
  /\ cur' = NoCur
  /\ UNCHANGED <<closing, shutdown, seq, pending, header, sending, pc, callSeq,
                 result, toNotify, connVars>>

(* The three cases of receive. *)
Deliver ==
  /\ rpc = "deliver"
  /\ \E e \in BodyError :
       /\ \/ /\ cur.call = NoCall
             /\ UNCHANGED <<err, chan, reply>>
          \/ /\ cur.call # NoCall /\ cur.resp.kind = "error"
             /\ Finish(cur.call, "service")
             /\ UNCHANGED reply
          \/ /\ cur.call # NoCall /\ cur.resp.kind = "ok" /\ e = "nil"
             /\ reply' = [reply EXCEPT ![cur.call] = cur.resp.call]
             /\ Finish(cur.call, err[cur.call])
          \/ /\ cur.call # NoCall /\ cur.resp.kind = "ok" /\ e = "body"
             /\ Finish(cur.call, "body")
             /\ UNCHANGED reply
       /\ recvErr' = e
       /\ rpc' = IF e = "nil" THEN "read" ELSE "terminate"
  /\ cur' = NoCur
  /\ UNCHANGED <<closing, shutdown, seq, pending, header, sending, pc, callSeq,
                 result, toNotify, connVars>>

(* Mutant of Terminate: client.go:109 left out. *)
TerminateOpen ==
  /\ rpc = "terminate"
  /\ sending = NoCall
  /\ sending' = Receiver
  /\ toNotify' = {pending[s] : s \in DOMAIN pending}
  /\ rpc' = "notify"
  /\ UNCHANGED <<closing, shutdown, seq, pending, header, callVars, cur, recvErr,
                 connVars>>

(* terminateCalls: both locks, then every call that is in pending. *)
Terminate ==
  /\ rpc = "terminate"
  /\ sending = NoCall
  /\ sending' = Receiver
  /\ shutdown' = TRUE
  /\ toNotify' = {pending[s] : s \in DOMAIN pending}
  /\ rpc' = "notify"
  /\ UNCHANGED <<closing, seq, pending, header, callVars, cur, recvErr, connVars>>

(* call.Error = err *)
SetError(c) ==
  /\ rpc = "notify"
  /\ c \in toNotify
  /\ err' = [err EXCEPT ![c] = recvErr]
  /\ cur' = [NoCur EXCEPT !.call = c]
  /\ rpc' = "push"
  /\ UNCHANGED <<closing, shutdown, seq, pending, header, sending, pc, callSeq,
                 reply, chan, result, recvErr, toNotify, connVars>>

(* Mutant of Push: the channel of Call has room for more than one token. *)
PushMore ==
  /\ rpc = "push"
  /\ chan' = [chan EXCEPT ![cur.call] = @ + 1]
  /\ toNotify' = toNotify \ {cur.call}
  /\ cur' = NoCur
  /\ rpc' = "notify"
  /\ UNCHANGED <<closing, shutdown, seq, pending, header, sending, pc, callSeq,
                 err, reply, result, recvErr, connVars>>

(* call.done() *)
Push ==
  /\ rpc = "push"
  /\ chan[cur.call] = 0
  /\ chan' = [chan EXCEPT ![cur.call] = @ + 1]
  /\ toNotify' = toNotify \ {cur.call}
  /\ cur' = NoCur
  /\ rpc' = "notify"
  /\ UNCHANGED <<closing, shutdown, seq, pending, header, sending, pc, callSeq,
                 err, reply, result, recvErr, connVars>>

Exit ==
  /\ rpc = "notify"
  /\ toNotify = {}
  /\ sending' = NoCall
  /\ rpc' = "exited"
  /\ UNCHANGED <<closing, shutdown, seq, pending, header, callVars, cur, recvErr,
                 toNotify, connVars>>

-----------------------------------------------------------------------------
(* The server answers r, with the sequence number of its header. *)
Respond(r, kind) ==
  /\ r \in reqs
  /\ ~Lost /\ rpc # "exited"
  /\ reqs' = reqs \ {r}
  /\ inbox' = Append(inbox, [seq |-> r.seq, call |-> r.call, kind |-> kind])
  /\ UNCHANGED <<closing, shutdown, seq, pending, header, sending, callVars,
                 recvVars, connClosed, flushFailed, peerClosed>>

PeerClose ==
  /\ ~peerClosed
  /\ peerClosed' = TRUE
  /\ UNCHANGED <<closing, shutdown, seq, pending, header, sending, callVars,
                 recvVars, connClosed, flushFailed, reqs, inbox>>

CallStep(c) ==
  RegisterCall(c) \/ Write(c) \/ Take(c) \/ Return(c) \/ RemoveCancelled(c)

Receive ==
  \/ ReadHeader \/ Break \/ Deliver \/ Terminate
  \/ \E c \in Calls : SetError(c)
  \/ Push \/ Exit

Next ==
  \/ \E c \in Calls : Start(c) \/ Cancel(c) \/ CallStep(c)
  \/ Receive
  \/ Close
  \/ \E r \in reqs, kind \in {"ok", "error"} : Respond(r, kind)
  \/ PeerClose

(* Goroutines are scheduled and locks are handed over; nothing makes a     *)
(* context end, a caller start, a side close or the server answer.         *)
Spec ==
  /\ Init /\ [][Next]_vars
  /\ \A c \in Calls : WF_vars(CallStep(c))
  /\ WF_vars(Receive)

-----------------------------------------------------------------------------
(* A call gets the result of its own request and of no other one, although *)
(* calls share the connection, the header struct and the sequence counter. *)
ReplyMatch == \A c \in Calls : reply[c] \in {c, NoCall}

(* When receive is gone nobody is left waiting without a token: whoever    *)
(* registered before terminateCalls was notified, and whoever came later   *)
(* was refused.                                                            *)
NoCallStranded ==
  rpc = "exited" => \A c \in Calls : pc[c] = "selecting" => chan[c] = 1

(* As long as no connection was lost, Call returns nil only with the reply *)
(* in place, and the service's error when there was one.                   *)
NilMeansReplied ==
  \A c \in Calls : result[c] = "nil" /\ ~shutdown => reply[c] = c

(* Once a side has closed the connection every Call returns, those that    *)
(* start later included, or receive is stuck for good in done() of a call  *)
(* that was cancelled with its channel full.                               *)
Wedged == rpc = "push" /\ chan[cur.call] = 1 /\ pc[cur.call] = "cancelled"

LossEndsCalls ==
  \A c \in Calls :
    (Lost /\ pc[c] \notin {"idle", "returned"}) ~> (pc[c] = "returned" \/ Wedged)

=============================================================================

-------------------------- MODULE RpcClient_proof --------------------------
(***************************************************************************)
(* Proofs about RpcClient for any number of calls: an inductive invariant, *)
(* and from it every safety property its run checks.                       *)
(***************************************************************************)
EXTENDS RpcClient, FiniteSetTheorems, SequenceTheorems, TLAPS

Registered == {c \in Calls : callSeq[c] # 0}

(* Sequence numbers are given once, and pending is keyed by them.          *)
SeqInv ==
  /\ \A c \in Calls : callSeq[c] < seq
  /\ \A c, d \in Calls : callSeq[c] = callSeq[d] /\ callSeq[c] # 0 => c = d
  /\ \A s \in DOMAIN pending : callSeq[pending[s]] = s
  /\ \A c \in Calls : pc[c] \in {"idle", "calling"} => callSeq[c] = 0
  /\ Cardinality(Registered) = seq - 1

(* The header is that of the call that holds sending.                      *)
LockInv ==
  /\ \A c \in Calls : /\ pc[c] = "sending" <=> sending = c
                      /\ sending = c => header = callSeq[c] /\ callSeq[c] # 0
  /\ sending = Receiver <=> rpc \in {"notify", "push"}

Of(msg) == callSeq[msg.call] = msg.seq

(* Messages carry the sequence number of their call, and receive finds     *)
(* that call or none.                                                      *)
WireInv ==
  /\ \A r \in reqs : Of(r)
  /\ \A i \in DOMAIN inbox : Of(inbox[i])
  /\ rpc = "deliver" => /\ cur.resp \in Response /\ Of(cur.resp)
                        /\ cur.call # NoCall => cur.call = cur.resp.call
  /\ rpc = "push" => cur.call \in toNotify
  /\ rpc \in {"notify", "push", "exited"} => shutdown

(* Until terminateCalls a call that is done has an error or its reply.     *)
TokenInv ==
  \A c \in Calls :
    (chan[c] = 1 \/ pc[c] = "got") /\ err[c] = "nil" /\ ~shutdown => reply[c] = c

IsPending(c) == callSeq[c] \in DOMAIN pending /\ pending[callSeq[c]] = c

(* Who waits without a token is in pending, and terminateCalls has yet to  *)
(* come to it.                                                             *)
WaitInv ==
  \A c \in Calls :
    /\ pc[c] = "sending" => IsPending(c) /\ rpc # "exited"
    /\ pc[c] = "selecting" /\ chan[c] = 0 =>
         /\ IsPending(c)
         /\ rpc \in {"notify", "push"} => c \in toNotify
         /\ rpc # "exited"

RCInv ==
  /\ TypeOK /\ SeqInv /\ LockInv /\ WireInv /\ TokenInv /\ WaitInv
  /\ ReplyMatch /\ NilMeansReplied

-----------------------------------------------------------------------------
LEMMA InitInv == ASSUME Init PROVE RCInv
<1>1. Registered = {} /\ Cardinality(Registered) = 0
  BY FS_EmptySet DEF Init, Registered
<1>2. TypeOK
  <2>1. Cardinality(Calls) \in Nat
    BY CallAssumption, FS_CardinalityType
  <2>2. cur \in [resp : Response \cup {<<>>}, call : Calls \cup {NoCall}]
    BY DEF Init, NoCur
  <2>3. inbox \in Seq(Response)
    BY DEF Init
  <2>4. /\ closing \in BOOLEAN /\ shutdown \in BOOLEAN
        /\ connClosed \in BOOLEAN /\ flushFailed \in BOOLEAN /\ peerClosed \in BOOLEAN
    BY DEF Init
  <2>5. QED  BY <2>1, <2>2, <2>4 DEF Init, TypeOK, Errors
<1>3. SeqInv
  BY <1>1 DEF Init, SeqInv
<1>4. LockInv
  BY CallAssumption DEF Init, LockInv
<1>5. WireInv /\ TokenInv /\ WaitInv /\ ReplyMatch /\ NilMeansReplied
  BY DEF Init, WireInv, TokenInv, WaitInv, ReplyMatch, NilMeansReplied
<1>6. QED  BY <1>2, <1>3, <1>4, <1>5 DEF RCInv

(* There is a number for every call.                                       *)
LEMMA SeqBound ==
  ASSUME TypeOK, SeqInv, NEW c \in Calls, callSeq[c] = 0
  PROVE  seq \in Seqs
<1>1. c \notin Registered /\ Registered \subseteq Calls
  BY DEF Registered
<1>2. /\ Cardinality(Registered) \in Nat /\ Cardinality(Calls) \in Nat
      /\ Cardinality(Registered) <= Cardinality(Calls)
      /\ Cardinality(Registered) # Cardinality(Calls)
  BY <1>1, CallAssumption, FS_Subset, FS_CardinalityType
<1>3. QED  BY <1>2 DEF TypeOK, SeqInv, Seqs

LEMMA TypeStep ==
  ASSUME TypeOK, SeqInv, LockInv, WireInv, [Next]_vars
  PROVE  TypeOK'
<1>1. ASSUME NEW c \in Calls, Start(c) PROVE TypeOK'
  BY <1>1 DEF TypeOK, Start, recvVars, connVars
<1>2. ASSUME NEW c \in Calls, Cancel(c) PROVE TypeOK'
  BY <1>2 DEF TypeOK, Cancel, recvVars, connVars
<1>3. ASSUME NEW c \in Calls, RegisterCall(c) PROVE TypeOK'
  <2>1. seq \in Seqs \/ closing \/ shutdown
    BY <1>3, SeqBound DEF RegisterCall, SeqInv
  <2>2. /\ seq' \in 1..(Cardinality(Calls) + 1)
        /\ DOMAIN pending' \subseteq Seqs /\ \A s \in DOMAIN pending' : pending'[s] \in Calls
        /\ header' \in Seqs \cup {0} /\ callSeq' \in [Calls -> Seqs \cup {0}]
    <3>1. CASE closing \/ shutdown
      BY <1>3, <3>1 DEF RegisterCall, TypeOK
    <3>2. CASE ~(closing \/ shutdown)
      <4>1. Cardinality(Calls) \in Nat
        BY CallAssumption, FS_CardinalityType
      <4>2. seq + 1 \in 1..(Cardinality(Calls) + 1) /\ seq \in Seqs
        BY <2>1, <3>2, <4>1 DEF Seqs
      <4>3. QED  BY <1>3, <4>2 DEF RegisterCall, TypeOK
    <3>3. QED  BY <3>1, <3>2
  <2>3. err' \in [Calls -> Errors] /\ chan' \in [Calls -> 0..1]
    BY <1>3 DEF RegisterCall, Finish, TypeOK, Errors
  <2>4. QED  BY <1>3, <2>2, <2>3 DEF RegisterCall, TypeOK, recvVars, connVars
<1>4. ASSUME NEW c \in Calls, Write(c) PROVE TypeOK'
  <2>1. header \in Seqs /\ [seq |-> header, call |-> c] \in [seq : Seqs, call : Calls]
    BY <1>4 DEF Write, TypeOK, LockInv
  <2>2. DOMAIN pending' \subseteq Seqs /\ \A s \in DOMAIN pending' : pending'[s] \in Calls
    BY <1>4 DEF Write, Remove, TypeOK
  <2>3. err' \in [Calls -> Errors] /\ chan' \in [Calls -> 0..1]
    <3>1. CASE UNCHANGED <<err, chan>>
      BY <3>1 DEF TypeOK
    <3>2. CASE \E call \in Calls : Finish(call, "write")
      BY <3>2 DEF Finish, TypeOK, Errors
    <3>3. Pending(callSeq[c]) \in Calls \cup {NoCall}
      BY DEF Pending, TypeOK
    <3>4. QED  BY <1>4, <3>1, <3>2, <3>3 DEF Write
  <2>4. connClosed' \in BOOLEAN /\ flushFailed' \in BOOLEAN
    BY <1>4 DEF Write, TypeOK
  <2>5. reqs' \subseteq [seq : Seqs, call : Calls]
    BY <1>4, <2>1 DEF Write, TypeOK
  <2>6. QED  BY <1>4, <2>2, <2>3, <2>4, <2>5 DEF Write, TypeOK, recvVars
<1>5. ASSUME NEW c \in Calls, Take(c) PROVE TypeOK'
  BY <1>5 DEF TypeOK, Take, recvVars, connVars
<1>6. ASSUME NEW c \in Calls, Return(c) PROVE TypeOK'
  BY <1>6 DEF TypeOK, Return, recvVars, connVars
<1>7. ASSUME NEW c \in Calls, RemoveCancelled(c) PROVE TypeOK'
  BY <1>7 DEF TypeOK, RemoveCancelled, Remove, recvVars, connVars
<1>8. CASE ReadHeader
  BY <1>8 DEF TypeOK, ReadHeader, Pending, callVars
<1>9. CASE Break
  BY <1>9 DEF TypeOK, Break, callVars, connVars
<1>10. CASE Deliver
  <2>1. /\ err' \in [Calls -> Errors] /\ chan' \in [Calls -> 0..1]
        /\ reply' \in [Calls -> Calls \cup {NoCall}]
    BY <1>10 DEF Deliver, Finish, TypeOK, Errors, WireInv
  <2>2. recvErr' \in {"nil", "body"} /\ rpc' \in {"read", "terminate"}
    BY <1>10 DEF Deliver, BodyError
  <2>3. cur' \in [resp : Response \cup {<<>>}, call : Calls \cup {NoCall}]
    BY <1>10 DEF Deliver, NoCur
  <2>4. QED  BY <1>10, <2>1, <2>2, <2>3 DEF Deliver, TypeOK, connVars
<1>11. CASE Terminate
  BY <1>11 DEF TypeOK, Terminate, callVars, connVars
<1>12. ASSUME NEW c \in Calls, SetError(c) PROVE TypeOK'
  <2>1. err' \in [Calls -> Errors]
    BY <1>12 DEF SetError, TypeOK, Errors
  <2>2. cur' \in [resp : Response \cup {<<>>}, call : Calls \cup {NoCall}]
    BY <1>12 DEF SetError, NoCur
  <2>3. QED  BY <1>12, <2>1, <2>2 DEF SetError, TypeOK, connVars
<1>13. CASE Push
  BY <1>13 DEF TypeOK, WireInv, Push, NoCur, connVars
<1>14. CASE Exit
  BY <1>14 DEF TypeOK, Exit, callVars, connVars
<1>15. CASE Close
  BY <1>15 DEF TypeOK, Close, callVars, recvVars
<1>16. ASSUME NEW r \in reqs, NEW kind \in {"ok", "error"}, Respond(r, kind)
       PROVE  TypeOK'
  <2>1. [seq |-> r.seq, call |-> r.call, kind |-> kind] \in Response
    BY DEF TypeOK, Response
  <2>2. inbox' \in Seq(Response)
    BY <1>16, <2>1 DEF Respond, TypeOK
  <2>3. QED  BY <1>16, <2>2 DEF Respond, TypeOK, callVars, recvVars
<1>17. CASE PeerClose
  BY <1>17 DEF TypeOK, PeerClose, callVars, recvVars
<1>18. CASE UNCHANGED vars
  BY <1>18 DEF TypeOK, vars, callVars, recvVars, connVars
<1>19. QED
  BY <1>1, <1>2, <1>3, <1>4, <1>5, <1>6, <1>7, <1>8, <1>9, <1>10, <1>11,
     <1>12, <1>13, <1>14, <1>15, <1>16, <1>17, <1>18 DEF Next, CallStep,
     Receive

LEMMA SeqStep ==
  ASSUME TypeOK, SeqInv, LockInv, [Next]_vars
  PROVE  SeqInv'
<1>1. ASSUME NEW c \in Calls, Start(c) PROVE SeqInv'
  BY <1>1 DEF SeqInv, Registered, Start
<1>2. ASSUME NEW c \in Calls, Cancel(c) PROVE SeqInv'
  BY <1>2 DEF SeqInv, Registered, Cancel
<1>3. ASSUME NEW c \in Calls, RegisterCall(c) PROVE SeqInv'
  <2>1. CASE closing \/ shutdown
    <3>1. UNCHANGED <<seq, callSeq, pending>> /\ pc' = [pc EXCEPT ![c] = "selecting"]
      BY <1>3, <2>1 DEF RegisterCall
    <3>2. QED  BY <3>1 DEF SeqInv, Registered
  <2>2. CASE ~(closing \/ shutdown)
    <3>1. /\ callSeq' = [callSeq EXCEPT ![c] = seq] /\ seq' = seq + 1 /\ seq \in Nat \ {0}
          /\ pending' = [s \in DOMAIN pending \cup {seq} |-> IF s = seq THEN c ELSE pending[s]]
          /\ pc' = [pc EXCEPT ![c] = "sending"] /\ callSeq[c] = 0
      BY <1>3, <2>2 DEF RegisterCall, TypeOK, SeqInv
    <3>2. Cardinality(Registered') = seq' - 1
      <4>1. c \notin Registered /\ Registered' = Registered \cup {c}
        BY <3>1 DEF Registered, TypeOK
      <4>2. IsFiniteSet(Registered)
        BY CallAssumption, FS_Subset DEF Registered
      <4>3. Cardinality(Registered') = Cardinality(Registered) + 1
        BY <4>1, <4>2, FS_AddElement
      <4>4. QED  BY <3>1, <4>3 DEF SeqInv
    <3>3. /\ \A d \in Calls : callSeq[d] \in Nat /\ callSeq[d] < seq
          /\ \A s \in DOMAIN pending : pending[s] \in Calls
      BY DEF TypeOK, SeqInv, Seqs
    <3>4. \A s \in DOMAIN pending' : callSeq'[pending'[s]] = s
      <4>1. \A s \in DOMAIN pending : pending[s] # c
        <5>1. \A s \in DOMAIN pending : s # 0
          BY DEF TypeOK, Seqs
        <5>2. QED  BY <3>1, <5>1 DEF SeqInv
      <4>2. QED  BY <3>1, <4>1 DEF TypeOK, SeqInv
    <3>5. /\ \A d \in Calls : callSeq'[d] < seq'
          /\ \A d, e \in Calls : callSeq'[d] = callSeq'[e] /\ callSeq'[d] # 0 => d = e
          /\ \A d \in Calls : pc'[d] \in {"idle", "calling"} => callSeq'[d] = 0
      BY <3>1, <3>3 DEF TypeOK, SeqInv
    <3>6. QED  BY <3>2, <3>4, <3>5 DEF SeqInv
  <2>3. QED  BY <2>1, <2>2
<1>4. ASSUME NEW c \in Calls, Write(c) PROVE SeqInv'
  <2>1. /\ UNCHANGED <<seq, callSeq>> /\ pc' = [pc EXCEPT ![c] = "selecting"]
        /\ DOMAIN pending' \subseteq DOMAIN pending
        /\ \A s \in DOMAIN pending' : pending'[s] = pending[s]
    BY <1>4 DEF Write, Remove
  <2>2. Registered' = Registered
    BY <2>1 DEF Registered
  <2>3. QED  BY <2>1, <2>2 DEF SeqInv
<1>5. ASSUME NEW c \in Calls, Take(c) PROVE SeqInv'
  BY <1>5 DEF SeqInv, Registered, Take
<1>6. ASSUME NEW c \in Calls, Return(c) PROVE SeqInv'
  BY <1>6 DEF SeqInv, Registered, Return
<1>7. ASSUME NEW c \in Calls, RemoveCancelled(c) PROVE SeqInv'
  BY <1>7 DEF SeqInv, Registered, RemoveCancelled, Remove
<1>8. CASE ReadHeader
  BY <1>8 DEF SeqInv, Registered, ReadHeader, callVars
<1>9. CASE Break
  BY <1>9 DEF SeqInv, Registered, Break, callVars
<1>10. CASE Deliver
  BY <1>10 DEF SeqInv, Registered, Deliver
<1>11. CASE Terminate
  BY <1>11 DEF SeqInv, Registered, Terminate, callVars
<1>12. ASSUME NEW c \in Calls, SetError(c) PROVE SeqInv'
  BY <1>12 DEF SeqInv, Registered, SetError
<1>13. CASE Push
  BY <1>13 DEF SeqInv, Registered, Push
<1>14. CASE Exit
  BY <1>14 DEF SeqInv, Registered, Exit, callVars
<1>15. CASE Close
  BY <1>15 DEF SeqInv, Registered, Close, callVars
<1>16. ASSUME NEW r \in reqs, NEW kind \in {"ok", "error"}, Respond(r, kind)
       PROVE  SeqInv'
  BY <1>16 DEF SeqInv, Registered, Respond, callVars
<1>17. CASE PeerClose
  BY <1>17 DEF SeqInv, Registered, PeerClose, callVars
<1>18. CASE UNCHANGED vars
  BY <1>18 DEF SeqInv, Registered, vars, callVars
<1>19. QED
  BY <1>1, <1>2, <1>3, <1>4, <1>5, <1>6, <1>7, <1>8, <1>9, <1>10, <1>11,
     <1>12, <1>13, <1>14, <1>15, <1>16, <1>17, <1>18 DEF Next, CallStep,
     Receive

LEMMA LockStep ==
  ASSUME TypeOK, SeqInv, LockInv, [Next]_vars
  PROVE  LockInv'
<1>1. ASSUME NEW c \in Calls, Start(c) PROVE LockInv'
  BY <1>1 DEF LockInv, Start, recvVars
<1>2. ASSUME NEW c \in Calls, Cancel(c) PROVE LockInv'
  BY <1>2 DEF LockInv, Cancel, recvVars
<1>3. ASSUME NEW c \in Calls, RegisterCall(c) PROVE LockInv'
  BY <1>3, CallAssumption DEF TypeOK, LockInv, RegisterCall, recvVars
<1>4. ASSUME NEW c \in Calls, Write(c) PROVE LockInv'
  BY <1>4, CallAssumption DEF TypeOK, LockInv, Write, recvVars
<1>5. ASSUME NEW c \in Calls, Take(c) PROVE LockInv'
  BY <1>5 DEF LockInv, Take, recvVars
<1>6. ASSUME NEW c \in Calls, Return(c) PROVE LockInv'
  BY <1>6 DEF LockInv, Return, recvVars
<1>7. ASSUME NEW c \in Calls, RemoveCancelled(c) PROVE LockInv'
  BY <1>7 DEF LockInv, RemoveCancelled, recvVars
<1>8. CASE ReadHeader
  BY <1>8 DEF LockInv, ReadHeader, callVars
<1>9. CASE Break
  BY <1>9 DEF LockInv, Break, callVars
<1>10. CASE Deliver
  BY <1>10 DEF LockInv, Deliver
<1>11. CASE Terminate
  BY <1>11, CallAssumption DEF LockInv, Terminate, callVars
<1>12. ASSUME NEW c \in Calls, SetError(c) PROVE LockInv'
  BY <1>12 DEF LockInv, SetError
<1>13. CASE Push
  BY <1>13 DEF LockInv, Push
<1>14. CASE Exit
  BY <1>14, CallAssumption DEF LockInv, Exit, callVars
<1>15. CASE Close
  BY <1>15 DEF LockInv, Close, callVars, recvVars
<1>16. ASSUME NEW r \in reqs, NEW kind \in {"ok", "error"}, Respond(r, kind)
       PROVE  LockInv'
  BY <1>16 DEF LockInv, Respond, callVars, recvVars
<1>17. CASE PeerClose
  BY <1>17 DEF LockInv, PeerClose, callVars, recvVars
<1>18. CASE UNCHANGED vars
  BY <1>18 DEF LockInv, vars, callVars, recvVars
<1>19. QED
  BY <1>1, <1>2, <1>3, <1>4, <1>5, <1>6, <1>7, <1>8, <1>9, <1>10, <1>11,
     <1>12, <1>13, <1>14, <1>15, <1>16, <1>17, <1>18 DEF Next, CallStep,
     Receive

LEMMA WireStep ==
  ASSUME TypeOK, SeqInv, LockInv, WireInv, [Next]_vars
  PROVE  WireInv'
<1>1. ASSUME NEW c \in Calls, Start(c) PROVE WireInv'
  BY <1>1 DEF WireInv, Of, Start, recvVars, connVars
<1>2. ASSUME NEW c \in Calls, Cancel(c) PROVE WireInv'
  BY <1>2 DEF WireInv, Of, Cancel, recvVars, connVars
<1>3. ASSUME NEW c \in Calls, RegisterCall(c) PROVE WireInv'
  <2>1. /\ UNCHANGED <<reqs, inbox, rpc, cur, toNotify>>
        /\ rpc \notin {"notify", "push"} /\ shutdown' = shutdown
    BY <1>3 DEF RegisterCall, MutexFree, recvVars, connVars
  <2>2. \A msg : msg.call \in Calls /\ msg.seq \in Seqs /\ Of(msg) => Of(msg)'
    <3>1. callSeq[c] = 0
      BY <1>3 DEF RegisterCall, SeqInv
    <3>2. \A d \in Calls : d # c => callSeq'[d] = callSeq[d]
      BY <1>3 DEF RegisterCall, TypeOK
    <3>3. 0 \notin Seqs
      BY DEF Seqs
    <3>4. QED  BY <3>1, <3>2, <3>3 DEF Of
  <2>3. \A r \in reqs : r.call \in Calls /\ r.seq \in Seqs
    BY DEF TypeOK
  <2>4. \A i \in DOMAIN inbox : inbox[i].call \in Calls /\ inbox[i].seq \in Seqs
    <3>1. inbox \in Seq(Response)
      BY DEF TypeOK
    <3>2. \A i \in DOMAIN inbox : inbox[i] \in Response
      BY <3>1
    <3>3. QED  BY <3>2 DEF Response
  <2>5. cur.resp \in Response => cur.resp.call \in Calls /\ cur.resp.seq \in Seqs
    BY DEF Response
  <2>6. QED  BY <2>1, <2>2, <2>3, <2>4, <2>5 DEF WireInv
<1>4. ASSUME NEW c \in Calls, Write(c) PROVE WireInv'
  <2>1. UNCHANGED <<callSeq, inbox, rpc, cur, toNotify, shutdown>>
    BY <1>4 DEF Write, recvVars
  <2>2. \A r \in reqs' : r \in reqs \/ r = [seq |-> header, call |-> c]
    BY <1>4 DEF Write
  <2>3. header = callSeq[c]
    BY <1>4 DEF Write, LockInv
  <2>4. QED  BY <2>1, <2>2, <2>3 DEF WireInv, Of
<1>5. ASSUME NEW c \in Calls, Take(c) PROVE WireInv'
  BY <1>5 DEF WireInv, Of, Take, recvVars, connVars
<1>6. ASSUME NEW c \in Calls, Return(c) PROVE WireInv'
  BY <1>6 DEF WireInv, Of, Return, recvVars, connVars
<1>7. ASSUME NEW c \in Calls, RemoveCancelled(c) PROVE WireInv'
  BY <1>7 DEF WireInv, Of, RemoveCancelled, recvVars, connVars
<1>8. CASE ReadHeader
  <2>1. UNCHANGED <<callSeq, reqs, toNotify, shutdown>> /\ inbox' = Tail(inbox) /\ rpc' = "deliver"
    BY <1>8 DEF ReadHeader, callVars
  <2>2. inbox # <<>> /\ inbox \in Seq(Response)
    BY <1>8 DEF ReadHeader, TypeOK
  <2>3. Head(inbox) \in Response /\ Of(Head(inbox))
    BY <2>2 DEF WireInv
  <2>4. (\A i \in DOMAIN inbox : Of(inbox[i]))'
    <3>1. Tail(inbox) \in Seq(Response) /\ Len(Tail(inbox)) = Len(inbox) - 1
      BY <2>2
    <3>2. \A i \in 1..Len(Tail(inbox)) : Tail(inbox)[i] = inbox[i + 1]
      BY <2>2
    <3>3. \A i \in 1..Len(Tail(inbox)) : i + 1 \in 1..Len(inbox)
      <4>1. Len(inbox) \in Nat
        BY <2>2
      <4>2. QED  BY <3>1
    <3>4. /\ DOMAIN Tail(inbox) = 1..Len(Tail(inbox))
          /\ DOMAIN inbox = 1..Len(inbox)
      BY <2>2
    <3>5. ASSUME NEW i \in DOMAIN Tail(inbox) PROVE Of(Tail(inbox)[i])
      <4>1. i + 1 \in DOMAIN inbox /\ Tail(inbox)[i] = inbox[i + 1]
        BY <3>2
      <4>2. \A j \in DOMAIN inbox : Of(inbox[j])
        BY DEF WireInv
      <4>3. Of(inbox[i + 1])
        BY <4>2
      <4>4. QED  BY <4>3
    <3>6. QED  BY <2>1, <3>5 DEF Of
  <2>5. cur'.resp = Head(inbox) /\ cur'.call \in {Pending(Head(inbox).seq), NoCall}
    BY <1>8 DEF ReadHeader
  <2>6. cur'.call # NoCall => cur'.call = cur'.resp.call
    <3>1. Pending(Head(inbox).seq) # NoCall =>
            Pending(Head(inbox).seq) \in Calls /\ callSeq[Pending(Head(inbox).seq)] = Head(inbox).seq
      BY DEF Pending, TypeOK, SeqInv
    <3>2. Head(inbox).call \in Calls /\ Head(inbox).seq # 0 /\ callSeq[Head(inbox).call] = Head(inbox).seq
      BY <2>3 DEF Response, Of, Seqs
    <3>3. QED  BY <2>5, <3>1, <3>2 DEF SeqInv
  <2>7. QED  BY <2>1, <2>3, <2>5, <2>6 DEF WireInv, Of
<1>9. CASE Break
  BY <1>9 DEF WireInv, Of, Break, callVars, connVars
<1>10. CASE Deliver
  BY <1>10 DEF WireInv, Of, Deliver, connVars
<1>11. CASE Terminate
  BY <1>11 DEF WireInv, Of, Terminate, callVars, connVars
<1>12. ASSUME NEW c \in Calls, SetError(c) PROVE WireInv'
  BY <1>12 DEF WireInv, Of, SetError, connVars
<1>13. CASE Push
  BY <1>13 DEF WireInv, Of, Push, connVars
<1>14. CASE Exit
  BY <1>14 DEF WireInv, Of, Exit, callVars, connVars
<1>15. CASE Close
  BY <1>15 DEF WireInv, Of, Close, callVars, recvVars
<1>16. ASSUME NEW r \in reqs, NEW kind \in {"ok", "error"}, Respond(r, kind)
       PROVE  WireInv'
  BY <1>16 DEF WireInv, Of, Respond, callVars, recvVars
<1>17. CASE PeerClose
  BY <1>17 DEF WireInv, Of, PeerClose, callVars, recvVars
<1>18. CASE UNCHANGED vars
  BY <1>18 DEF WireInv, Of, vars, callVars, recvVars, connVars
<1>19. QED
  BY <1>1, <1>2, <1>3, <1>4, <1>5, <1>6, <1>7, <1>8, <1>9, <1>10, <1>11,
     <1>12, <1>13, <1>14, <1>15, <1>16, <1>17, <1>18 DEF Next, CallStep,
     Receive

LEMMA TokenStep ==
  ASSUME TypeOK, WireInv, TokenInv, [Next]_vars
  PROVE  TokenInv'
<1>1. ASSUME NEW c \in Calls, Start(c) PROVE TokenInv'
  BY <1>1 DEF TokenInv, Start
<1>2. ASSUME NEW c \in Calls, Cancel(c) PROVE TokenInv'
  BY <1>2 DEF TokenInv, Cancel
<1>3. ASSUME NEW c \in Calls, RegisterCall(c) PROVE TokenInv'
  BY <1>3 DEF TypeOK, TokenInv, RegisterCall, Finish
<1>4. ASSUME NEW c \in Calls, Write(c) PROVE TokenInv'
  BY <1>4 DEF TypeOK, TokenInv, Write, Finish
<1>5. ASSUME NEW c \in Calls, Take(c) PROVE TokenInv'
  BY <1>5 DEF TokenInv, Take
<1>6. ASSUME NEW c \in Calls, Return(c) PROVE TokenInv'
  BY <1>6 DEF TokenInv, Return
<1>7. ASSUME NEW c \in Calls, RemoveCancelled(c) PROVE TokenInv'
  BY <1>7 DEF TokenInv, RemoveCancelled
<1>8. CASE ReadHeader
  BY <1>8 DEF TokenInv, ReadHeader, callVars
<1>9. CASE Break
  BY <1>9 DEF TokenInv, Break, callVars
<1>10. CASE Deliver
  BY <1>10 DEF TypeOK, WireInv, TokenInv, Deliver, Finish
<1>11. CASE Terminate
  BY <1>11 DEF TokenInv, Terminate
<1>12. ASSUME NEW c \in Calls, SetError(c) PROVE TokenInv'
  BY <1>12 DEF WireInv, TokenInv, SetError
<1>13. CASE Push
  BY <1>13 DEF WireInv, TokenInv, Push
<1>14. CASE Exit
  BY <1>14 DEF WireInv, TokenInv, Exit
<1>15. CASE Close
  BY <1>15 DEF TokenInv, Close, callVars
<1>16. ASSUME NEW r \in reqs, NEW kind \in {"ok", "error"}, Respond(r, kind)
       PROVE  TokenInv'
  BY <1>16 DEF TokenInv, Respond, callVars
<1>17. CASE PeerClose
  BY <1>17 DEF TokenInv, PeerClose, callVars
<1>18. CASE UNCHANGED vars
  BY <1>18 DEF TokenInv, vars, callVars
<1>19. QED
  BY <1>1, <1>2, <1>3, <1>4, <1>5, <1>6, <1>7, <1>8, <1>9, <1>10, <1>11,
     <1>12, <1>13, <1>14, <1>15, <1>16, <1>17, <1>18 DEF Next, CallStep,
     Receive

LEMMA WaitStep ==
  ASSUME TypeOK, SeqInv, LockInv, WireInv, WaitInv, [Next]_vars
  PROVE  WaitInv'
<1>1. ASSUME NEW c \in Calls, Start(c) PROVE WaitInv'
  BY <1>1 DEF WaitInv, IsPending, Start, recvVars
<1>2. ASSUME NEW c \in Calls, Cancel(c) PROVE WaitInv'
  BY <1>2 DEF WaitInv, IsPending, Cancel, recvVars
<1>3. ASSUME NEW c \in Calls, RegisterCall(c) PROVE WaitInv'
  BY <1>3 DEF TypeOK, SeqInv, WireInv, WaitInv, IsPending, RegisterCall,
     Finish, recvVars
<1>4. ASSUME NEW c \in Calls, Write(c) PROVE WaitInv'
  <2>1. /\ UNCHANGED <<callSeq, rpc, toNotify>> /\ pc' = [pc EXCEPT ![c] = "selecting"]
        /\ pc[c] = "sending"
    BY <1>4 DEF Write, recvVars
  <2>2. IsPending(c) /\ rpc \notin {"notify", "push", "exited"}
    BY <2>1, CallAssumption DEF LockInv, WaitInv
  <2>3. \/ pending' = pending
        \/ pending' = Remove(callSeq[c]) /\ Finish(c, "write")
    BY <1>4, <2>2, CallAssumption DEF Write, Pending, IsPending
  <2>4. ASSUME NEW d \in Calls, d # c, IsPending(d) PROVE IsPending(d)'
    <3>1. callSeq[d] # callSeq[c]
      BY <2>2, <2>4 DEF IsPending
    <3>2. QED  BY <2>1, <2>3, <2>4, <3>1 DEF IsPending, Remove
  <2>5. \A d \in Calls : d # c => pc'[d] = pc[d] /\ (chan'[d] = 0 => chan[d] = 0)
    <3>1. chan' = chan \/ chan' = [chan EXCEPT ![c] = chan[c] + 1]
      BY <1>4, <2>2 DEF Write, Finish, Pending, IsPending
    <3>2. QED  BY <2>1, <3>1 DEF TypeOK
  <2>6. IsPending(c)' \/ chan'[c] = 1
    BY <2>1, <2>2, <2>3 DEF Finish, IsPending, TypeOK
  <2>7. QED  BY <2>1, <2>2, <2>4, <2>5, <2>6 DEF WaitInv, TypeOK
<1>5. ASSUME NEW c \in Calls, Take(c) PROVE WaitInv'
  BY <1>5 DEF TypeOK, WaitInv, IsPending, Take, recvVars
<1>6. ASSUME NEW c \in Calls, Return(c) PROVE WaitInv'
  BY <1>6 DEF WaitInv, IsPending, Return, recvVars
<1>7. ASSUME NEW c \in Calls, RemoveCancelled(c) PROVE WaitInv'
  <2>1. /\ UNCHANGED <<callSeq, rpc, toNotify, chan>> /\ pc' = [pc EXCEPT ![c] = "returned"]
    BY <1>7 DEF RemoveCancelled, recvVars
  <2>2. \A d \in Calls : d # c /\ IsPending(d) => IsPending(d)'
    <3>1. \A d \in Calls : IsPending(d) => callSeq[d] # 0
      BY DEF IsPending, TypeOK, Seqs
    <3>2. QED  BY <1>7, <3>1 DEF RemoveCancelled, Remove, IsPending, SeqInv
  <2>3. QED  BY <2>1, <2>2 DEF WaitInv, TypeOK
<1>8. CASE ReadHeader
  BY <1>8 DEF WaitInv, IsPending, ReadHeader, callVars
<1>9. CASE Break
  BY <1>9 DEF WaitInv, IsPending, Break, callVars
<1>10. CASE Deliver
  BY <1>10 DEF TypeOK, WaitInv, IsPending, Deliver, Finish
<1>11. CASE Terminate
  BY <1>11 DEF WaitInv, IsPending, Terminate, callVars
<1>12. ASSUME NEW c \in Calls, SetError(c) PROVE WaitInv'
  BY <1>12 DEF WaitInv, IsPending, SetError
<1>13. CASE Push
  BY <1>13 DEF TypeOK, WaitInv, IsPending, Push
<1>14. CASE Exit
  BY <1>14, CallAssumption DEF LockInv, WaitInv, Exit, callVars
<1>15. CASE Close
  BY <1>15 DEF WaitInv, IsPending, Close, callVars, recvVars
<1>16. ASSUME NEW r \in reqs, NEW kind \in {"ok", "error"}, Respond(r, kind)
       PROVE  WaitInv'
  BY <1>16 DEF WaitInv, IsPending, Respond, callVars, recvVars
<1>17. CASE PeerClose
  BY <1>17 DEF WaitInv, IsPending, PeerClose, callVars, recvVars
<1>18. CASE UNCHANGED vars
  BY <1>18 DEF WaitInv, IsPending, vars, callVars, recvVars
<1>19. QED
  BY <1>1, <1>2, <1>3, <1>4, <1>5, <1>6, <1>7, <1>8, <1>9, <1>10, <1>11,
     <1>12, <1>13, <1>14, <1>15, <1>16, <1>17, <1>18 DEF Next, CallStep,
     Receive

LEMMA MatchStep ==
  ASSUME TypeOK, WireInv, ReplyMatch, [Next]_vars
  PROVE  ReplyMatch'
<1>1. ASSUME NEW c \in Calls, Start(c) PROVE ReplyMatch'
  BY <1>1 DEF ReplyMatch, Start
<1>2. ASSUME NEW c \in Calls, Cancel(c) PROVE ReplyMatch'
  BY <1>2 DEF ReplyMatch, Cancel
<1>3. ASSUME NEW c \in Calls, RegisterCall(c) PROVE ReplyMatch'
  BY <1>3 DEF ReplyMatch, RegisterCall
<1>4. ASSUME NEW c \in Calls, Write(c) PROVE ReplyMatch'
  BY <1>4 DEF ReplyMatch, Write
<1>5. ASSUME NEW c \in Calls, Take(c) PROVE ReplyMatch'
  BY <1>5 DEF ReplyMatch, Take
<1>6. ASSUME NEW c \in Calls, Return(c) PROVE ReplyMatch'
  BY <1>6 DEF ReplyMatch, Return
<1>7. ASSUME NEW c \in Calls, RemoveCancelled(c) PROVE ReplyMatch'
  BY <1>7 DEF ReplyMatch, RemoveCancelled
<1>8. CASE ReadHeader
  BY <1>8 DEF ReplyMatch, ReadHeader, callVars
<1>9. CASE Break
  BY <1>9 DEF ReplyMatch, Break, callVars
<1>10. CASE Deliver
  BY <1>10 DEF TypeOK, WireInv, ReplyMatch, Deliver
<1>11. CASE Terminate
  BY <1>11 DEF ReplyMatch, Terminate, callVars
<1>12. ASSUME NEW c \in Calls, SetError(c) PROVE ReplyMatch'
  BY <1>12 DEF ReplyMatch, SetError
<1>13. CASE Push
  BY <1>13 DEF ReplyMatch, Push
<1>14. CASE Exit
  BY <1>14 DEF ReplyMatch, Exit, callVars
<1>15. CASE Close
  BY <1>15 DEF ReplyMatch, Close, callVars
<1>16. ASSUME NEW r \in reqs, NEW kind \in {"ok", "error"}, Respond(r, kind)
       PROVE  ReplyMatch'
  BY <1>16 DEF ReplyMatch, Respond, callVars
<1>17. CASE PeerClose
  BY <1>17 DEF ReplyMatch, PeerClose, callVars
<1>18. CASE UNCHANGED vars
  BY <1>18 DEF ReplyMatch, vars, callVars
<1>19. QED
  BY <1>1, <1>2, <1>3, <1>4, <1>5, <1>6, <1>7, <1>8, <1>9, <1>10, <1>11,
     <1>12, <1>13, <1>14, <1>15, <1>16, <1>17, <1>18 DEF Next, CallStep,
     Receive

LEMMA NilStep ==
  ASSUME TypeOK, WireInv, TokenInv, NilMeansReplied, [Next]_vars
  PROVE  NilMeansReplied'
<1>1. ASSUME NEW c \in Calls, Start(c) PROVE NilMeansReplied'
  BY <1>1 DEF NilMeansReplied, Start
<1>2. ASSUME NEW c \in Calls, Cancel(c) PROVE NilMeansReplied'
  BY <1>2 DEF NilMeansReplied, Cancel
<1>3. ASSUME NEW c \in Calls, RegisterCall(c) PROVE NilMeansReplied'
  BY <1>3 DEF NilMeansReplied, RegisterCall
<1>4. ASSUME NEW c \in Calls, Write(c) PROVE NilMeansReplied'
  BY <1>4 DEF NilMeansReplied, Write
<1>5. ASSUME NEW c \in Calls, Take(c) PROVE NilMeansReplied'
  BY <1>5 DEF NilMeansReplied, Take
<1>6. ASSUME NEW c \in Calls, Return(c) PROVE NilMeansReplied'
  BY <1>6 DEF TokenInv, NilMeansReplied, Return
<1>7. ASSUME NEW c \in Calls, RemoveCancelled(c) PROVE NilMeansReplied'
  BY <1>7 DEF NilMeansReplied, RemoveCancelled
<1>8. CASE ReadHeader
  BY <1>8 DEF NilMeansReplied, ReadHeader, callVars
<1>9. CASE Break
  BY <1>9 DEF NilMeansReplied, Break, callVars
<1>10. CASE Deliver
  BY <1>10 DEF TypeOK, WireInv, NilMeansReplied, Deliver
<1>11. CASE Terminate
  BY <1>11 DEF NilMeansReplied, Terminate
<1>12. ASSUME NEW c \in Calls, SetError(c) PROVE NilMeansReplied'
  BY <1>12 DEF NilMeansReplied, SetError
<1>13. CASE Push
  BY <1>13 DEF NilMeansReplied, Push
<1>14. CASE Exit
  BY <1>14 DEF WireInv, NilMeansReplied, Exit
<1>15. CASE Close
  BY <1>15 DEF NilMeansReplied, Close, callVars
<1>16. ASSUME NEW r \in reqs, NEW kind \in {"ok", "error"}, Respond(r, kind)
       PROVE  NilMeansReplied'
  BY <1>16 DEF NilMeansReplied, Respond, callVars
<1>17. CASE PeerClose
  BY <1>17 DEF NilMeansReplied, PeerClose, callVars
<1>18. CASE UNCHANGED vars
  BY <1>18 DEF NilMeansReplied, vars, callVars
<1>19. QED
  BY <1>1, <1>2, <1>3, <1>4, <1>5, <1>6, <1>7, <1>8, <1>9, <1>10, <1>11,
     <1>12, <1>13, <1>14, <1>15, <1>16, <1>17, <1>18 DEF Next, CallStep,
     Receive

-----------------------------------------------------------------------------
LEMMA RCInvariant == Spec => []RCInv
<1>1. RCInv /\ [Next]_vars => RCInv'
  BY TypeStep, SeqStep, LockStep, WireStep, TokenStep, WaitStep, MatchStep,
     NilStep DEF RCInv
<1>2. QED  BY InitInv, <1>1, PTL DEF Spec

(* The types of RpcClient; in particular the channel of a Call never holds *)
(* two tokens, and sequence numbers stay below the number of calls.        *)
THEOREM TypeCorrect == Spec => []TypeOK
<1>1. RCInv => TypeOK
  BY DEF RCInv
<1>2. QED  BY RCInvariant, <1>1, PTL

(* The reply of a call is that of its own request, for any number of calls *)
(* on the connection, in any order of answers, cancellations and losses.   *)
THEOREM RepliesMatch == Spec => []ReplyMatch
<1>1. RCInv => ReplyMatch
  BY DEF RCInv
<1>2. QED  BY RCInvariant, <1>1, PTL

(* No call waits without a token when receive has ended.                   *)
THEOREM NobodyStranded == Spec => []NoCallStranded
<1>1. RCInv => NoCallStranded
  BY DEF RCInv, TypeOK, WaitInv, NoCallStranded
<1>2. QED  BY RCInvariant, <1>1, PTL

(* Before a loss of the connection Call returns nil only with a reply.     *)
THEOREM NilIsReply == Spec => []NilMeansReplied
<1>1. RCInv => NilMeansReplied
  BY DEF RCInv
<1>2. QED  BY RCInvariant, <1>1, PTL
=============================================================================

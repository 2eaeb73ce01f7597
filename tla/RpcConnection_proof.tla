------------------------ MODULE RpcConnection_proof -------------------------
(***************************************************************************)
(* Proofs about the two ends of a GeeRPC connection.                       *)
(*                                                                         *)
(* About RpcDial, for any codecs, options and number of requests: the      *)
(* connection of a Dial is open exactly as long as somebody has its        *)
(* client, and what a server reads of it starts with the first request.    *)
(* About RpcServer, for any number of requests: every safety property its  *)
(* run checks.                                                             *)
(***************************************************************************)
EXTENDS RpcDial, RpcServer, FiniteSetTheorems, SequenceTheorems, TLAPS

(***************************************************************************)
(* RpcDial.                                                                *)
(***************************************************************************)
DialType ==
  /\ main \in {"start", "select", "returned"}
  /\ result \in {"none", "client", "error"}
  /\ inner \in {"none", "connect", "response", "option", "send", "done"}
  /\ made \in {"none", "client", "error"}
  /\ conn \in {"none", "open", "closed"}
  /\ userClosed \in BOOLEAN

(* Nothing has begun. *)
StartInv ==
  main = "start" =>
    inner = "none" /\ result = "none" /\ conn = "none" /\ ~userClosed

(* What f has made is a client on an open connection, or an error. *)
SelectInv ==
  main = "select" =>
    /\ inner \notin {"none", "done"} /\ result = "none" /\ ~userClosed
    /\ conn # "none"
    /\ inner = "send" => made # "none"
    /\ inner = "send" /\ made = "client" => conn = "open"

(* A goroutine that gave its client away does nothing any more; one whose  *)
(* caller has gone works on a closed connection.                           *)
ReturnedInv ==
  main = "returned" =>
    \/ result = "client" /\ inner = "done" /\ conn # "none" /\ (conn = "open") = ~userClosed
    \/ result = "error" /\ conn # "open" /\ ~userClosed

DInv == DialType /\ StartInv /\ SelectInv /\ ReturnedInv

LEMMA DialInitInv == ASSUME DialInit PROVE DInv
BY DEF DialInit, DInv, DialType, StartInv, SelectInv, ReturnedInv

-----------------------------------------------------------------------------
LEMMA DialStep ==
  ASSUME DInv, NotConnected \/ Connect \/ Receive \/ DialTimeout PROVE DInv'
<1> USE DEF DInv, DialType, StartInv, SelectInv, ReturnedInv
<1>1. CASE NotConnected
  BY <1>1 DEF NotConnected, Return, requests
<1>2. CASE Connect
  BY <1>2 DEF Connect, requests
<1>3. CASE Receive
  BY <1>3 DEF Receive, Return, requests
<1>4. CASE DialTimeout
  BY <1>4 DEF DialTimeout, Return, requests
<1> QED  BY <1>1, <1>2, <1>3, <1>4

LEMMA InnerStep == ASSUME DInv, Inner PROVE DInv'
<1> USE DEF DInv, DialType, StartInv, SelectInv, ReturnedInv
<1>1. CASE WriteConnect
  BY <1>1 DEF WriteConnect, requests
<1>2. CASE ReadResponse
  BY <1>2 DEF ReadResponse, Made, requests
<1>3. CASE WriteOption
  BY <1>3 DEF WriteOption, Made, requests
<1> QED  BY <1>1, <1>2, <1>3 DEF Inner

LEMMA UserStep == ASSUME DInv, Request \/ Close PROVE DInv'
<1> USE DEF DInv, DialType, StartInv, SelectInv, ReturnedInv
<1>1. CASE Request
  BY <1>1 DEF Request, dial
<1>2. CASE Close
  BY <1>2 DEF Close, dial
<1> QED  BY <1>1, <1>2

(* The server, and a step that is none, leave the client's side alone.     *)
LEMMA ServerStep ==
  ASSUME DInv, Accept \/ Server \/ UNCHANGED dialVars PROVE DInv'
<1>1. UNCHANGED <<dial, conn, userClosed>>
  <2>1. CASE Accept
    BY <2>1 DEF Accept, requests
  <2>2. CASE Server
    BY <2>2 DEF Server, ServeHTTP, ReadOption, ReadRequest, EndOfFile, requests
  <2>3. CASE UNCHANGED dialVars
    BY <2>3 DEF dialVars, requests
  <2> QED  BY <2>1, <2>2, <2>3
<1> QED
  BY <1>1 DEF dial, DInv, DialType, StartInv, SelectInv, ReturnedInv

-----------------------------------------------------------------------------
(* DInv holds in every reachable state of dialTimeout and its goroutine    *)
(* (client.go).                                                            *)
THEOREM DialInvariance == DialSpec => []DInv
<1>1. DInv /\ [DialNext]_dialVars => DInv'
  BY DialStep, InnerStep, UserStep, ServerStep DEF DialNext
<1> QED  BY <1>1, DialInitInv, PTL DEF DialSpec

(* dialTimeout hands out clients on open connections only, and closes the  *)
(* connection (client.go:219-223) whenever it returns none, also when the  *)
(* timer fires while f is at work or has just made a client.               *)
THEOREM ConnOfClient == DialSpec => []ConnGoesWithClient
<1>1. DInv => ConnGoesWithClient
  BY DEF DInv, DialType, ReturnedInv, ConnGoesWithClient
<1> QED  BY <1>1, DialInvariance, PTL
-----------------------------------------------------------------------------
(* What is on the wire.                                                    *)

Messages == {"connect", "option", "request"}
Answers == {"200", "400"}

StreamType ==
  /\ toServer \in Seq(Messages)
  /\ toClient \in Seq(Answers)
  /\ server \in {"none", "http", "option", "serving", "ended"}
  /\ sent \in Nat /\ served \in Seq(Nat)

(* A client that was made has sent its Option.                             *)
MadeInv ==
  /\ inner \in {"none", "connect", "response", "option"} => made = "none"
  /\ result = "client" => made = "client"
  /\ made # "client" => sent = 0

(* What the server has not begun to serve starts with the CONNECT, or with *)
(* the Option and every request behind it.  While f is at work there is no *)
(* more than the CONNECT, and nothing once that is answered.               *)
WaitingInv ==
  server \in {"none", "http", "option"} =>
    /\ served = << >> /\ swallowed = {}
    /\ IF made = "client"
       THEN /\ Len(toServer) = sent + 1 /\ toServer[1] = "option"
            /\ \A i \in 2 .. Len(toServer) : toServer[i] = "request"
       ELSE toServer \in {<< >>, <<"connect">>}
    /\ inner \in {"none", "connect"} => toServer = << >> /\ toClient = << >>
    /\ inner = "response" /\ toClient # << >> => toServer = << >>
    /\ inner = "option" => toServer = << >>

(* Who serves has read the Option.  Unless some are swallowed, the requests *)
(* that are not served are all there.                                      *)
ServingInv ==
  server = "serving" =>
    /\ made = "client"
    /\ \A i \in 1 .. Len(toServer) : toServer[i] = "request"
    /\ swallowed = {} => Len(served) + Len(toServer) = sent

WInv == StreamType /\ MadeInv /\ WaitingInv /\ ServingInv /\ FromTheFirst
-----------------------------------------------------------------------------
LEMMA InitStream == ASSUME DialInit PROVE WInv
BY DEF DialInit, WInv, StreamType, MadeInv, WaitingInv, ServingInv, FromTheFirst

LEMMA DialStream ==
  ASSUME DInv, WInv, NotConnected \/ Connect \/ Receive \/ DialTimeout PROVE WInv'
<1> USE DEF WInv, StreamType, MadeInv, WaitingInv, ServingInv, FromTheFirst, wires, requests
<1>1. CASE NotConnected
  BY <1>1 DEF NotConnected, Return
<1>2. CASE Connect
  BY <1>2 DEF Connect, DInv, StartInv
<1>3. CASE Receive
  BY <1>3 DEF Receive, Return
<1>4. CASE DialTimeout
  BY <1>4 DEF DialTimeout, Return
<1> QED  BY <1>1, <1>2, <1>3, <1>4

LEMMA InnerStream == ASSUME WInv, Inner PROVE WInv'
<1> USE DEF WInv, StreamType, requests
<1>1. UNCHANGED <<result, server, sent, served, swallowed>> /\ FromTheFirst'
  BY DEF Inner, WriteConnect, ReadResponse, WriteOption, FromTheFirst
<1>2. /\ inner \in {"connect", "response", "option"}
      /\ made = "none" /\ result # "client" /\ sent = 0
  BY DEF Inner, WriteConnect, ReadResponse, WriteOption, MadeInv
<1>3. server # "serving"
  BY <1>2 DEF ServingInv
<1>4. CASE WriteConnect
  <2>1. /\ inner = "connect" /\ inner' = "response" /\ UNCHANGED <<made, toClient>>
        /\ toServer' \in {toServer, Append(toServer, "connect")}
    BY <1>4 DEF WriteConnect
  <2>2. toServer' \in Seq(Messages)
    BY <2>1, AppendProperties, "connect" \in Messages DEF Messages
  <2>3. toServer = << >> => toServer' \in {<< >>, <<"connect">>}
    BY <2>1
  <2>4. WaitingInv'
    BY <1>1, <1>2, <2>1, <2>3 DEF WaitingInv
  <2> QED  BY <1>1, <1>2, <1>3, <2>1, <2>2, <2>4 DEF MadeInv, ServingInv
<1>5. CASE ReadResponse
  <2>1. /\ inner = "response" /\ toServer' = toServer
        /\ \/ /\ toClient # << >> /\ toClient' = Tail(toClient)
              /\ inner' = "option" /\ made' = made
           \/ /\ toClient' \in {toClient, Tail(toClient)}
              /\ toClient # << >> \/ toClient' = toClient
              /\ inner' = "send" /\ made' = "error"
    BY <1>5 DEF ReadResponse, Made
  <2>2. toClient' \in Seq(Answers)
    BY <2>1, HeadTailProperties
  <2> QED  BY <1>1, <1>2, <1>3, <2>1, <2>2 DEF MadeInv, WaitingInv, ServingInv
<1>6. CASE WriteOption
  <2>1. /\ inner = "option" /\ inner' = "send" /\ UNCHANGED toClient
        /\ \/ made' = "error" /\ toServer' = toServer
           \/ made' = "client" /\ toServer' = Append(toServer, "option")
    BY <1>6 DEF WriteOption, Made
  <2>2. toServer' \in Seq(Messages)
    BY <2>1, AppendProperties, "option" \in Messages DEF Messages
  <2>3. toServer = << >> /\ made' = "client" => toServer' = <<"option">>
    BY <2>1
  <2> QED  BY <1>1, <1>2, <1>3, <2>1, <2>2, <2>3 DEF MadeInv, WaitingInv, ServingInv
<1> QED  BY <1>4, <1>5, <1>6 DEF Inner

LEMMA UserStream == ASSUME WInv, Request \/ Close \/ Accept \/ UNCHANGED dialVars PROVE WInv'
<1> USE DEF WInv, StreamType, MadeInv, WaitingInv, ServingInv, FromTheFirst, dial, wires, requests
<1>1. CASE Request
  <2>1. /\ result = "client" /\ made = "client" /\ sent' = sent + 1
        /\ toServer' = Append(toServer, "request")
        /\ UNCHANGED <<result, inner, made, toClient, server, served, swallowed>>
    BY <1>1 DEF Request
  <2>2. /\ toServer' \in Seq(Messages)
        /\ Len(toServer') = Len(toServer) + 1 /\ toServer'[Len(toServer')] = "request"
        /\ \A i \in 1 .. Len(toServer) : toServer'[i] = toServer[i]
    BY <2>1, AppendProperties, "request" \in Messages DEF Messages
  <2>3. WaitingInv'
    BY <2>1, <2>2
  <2>4. ServingInv'
    <3>1. Len(toServer) \in Nat /\ Len(served) \in Nat
      OBVIOUS
    <3>2. ASSUME server = "serving"
          PROVE  /\ \A i \in 1 .. Len(toServer') : toServer'[i] = "request"
                 /\ swallowed = {} => Len(served) + Len(toServer') = sent + 1
      <4>1. /\ \A i \in 1 .. Len(toServer) : toServer[i] = "request"
            /\ swallowed = {} => Len(served) + Len(toServer) = sent
        BY <3>2
      <4>2. sent \in Nat
        OBVIOUS
      <4> HIDE DEF WInv, StreamType, WaitingInv, ServingInv
      <4>3. \A i \in 1 .. Len(toServer') : toServer'[i] = "request"
        BY <2>2, <3>1, <4>1
      <4>4. swallowed = {} => Len(served) + Len(toServer') = sent + 1
        BY <2>2, <3>1, <4>1, <4>2
      <4> QED  BY <4>3, <4>4
    <3> QED  BY <2>1, <3>2
  <2> QED  BY <2>1, <2>2, <2>3, <2>4
<1>2. CASE Close
  BY <1>2 DEF Close
<1>3. CASE Accept
  BY <1>3 DEF Accept
<1>4. CASE UNCHANGED dialVars
  BY <1>4 DEF dialVars
<1> QED  BY <1>1, <1>2, <1>3, <1>4

-----------------------------------------------------------------------------
(* When all that is on its way are requests, the next one is the first of  *)
(* as many as there are.                                                   *)
LEMMA NextNumber ==
  ASSUME toServer \in Seq(Messages), sent \in Nat,
         \A i \in 1 .. Len(toServer) : toServer[i] = "request"
  PROVE  NumberOf(1) = sent - Len(toServer) + 1
<1>1. {i \in DOMAIN toServer : toServer[i] = "request"} = 1 .. Len(toServer)
  OBVIOUS
<1>2. Len(toServer) \in Nat
  OBVIOUS
<1>3. Cardinality(1 .. Len(toServer)) = Len(toServer)
  BY <1>2, FS_Interval
<1> QED  BY <1>1, <1>2, <1>3 DEF NumberOf

LEMMA OptionStream == ASSUME WInv, ReadOption PROVE WInv'
<1> USE DEF WInv, StreamType, requests
<1>1. UNCHANGED <<made, inner, result, toClient, sent, served>>
  BY DEF ReadOption, dial
<1>2. /\ server = "option" /\ toServer # << >>
      /\ served = << >> /\ swallowed = {}
  BY DEF ReadOption, WaitingInv
<1>3. CASE server' = "ended" /\ toServer' = toServer /\ swallowed' = swallowed
  BY <1>1, <1>2, <1>3 DEF MadeInv, WaitingInv, ServingInv, FromTheFirst
<1>4. CASE server' = "serving"
  <2>1. /\ toServer[1] = "option"
        /\ \E n \in 0 .. Len(toServer) - 1 : \E torn \in BOOLEAN :
             /\ toServer' = SubSeq(toServer, n + 2, Len(toServer))
             /\ swallowed' = {NumberOf(i) : i \in 1 .. (IF torn THEN n + 1 ELSE n)}
    BY <1>2, <1>4 DEF ReadOption
  <2>2. /\ made = "client" /\ Len(toServer) = sent + 1
        /\ \A i \in 2 .. Len(toServer) : toServer[i] = "request"
    BY <1>2, <2>1 DEF WaitingInv
  <2>3. PICK n \in 0 .. Len(toServer) - 1, torn \in BOOLEAN :
          /\ toServer' = SubSeq(toServer, n + 2, Len(toServer))
          /\ swallowed' = {NumberOf(i) : i \in 1 .. (IF torn THEN n + 1 ELSE n)}
    BY <2>1
  <2>4. /\ toServer' \in Seq(Messages)
        /\ Len(toServer') = sent - n
        /\ \A i \in 1 .. Len(toServer') : toServer'[i] = "request"
    BY <2>2, <2>3
  <2>5. swallowed' = {} => n = 0
    <3>1. n # 0 => 1 \in 1 .. (IF torn THEN n + 1 ELSE n)
      OBVIOUS
    <3> QED  BY <2>3, <3>1
  <2>6. swallowed' = {} => Len(served') + Len(toServer') = sent'
    BY <1>1, <1>2, <2>4, <2>5
  <2>7. StreamType' /\ ServingInv'
    BY <1>1, <1>4, <2>2, <2>4, <2>6 DEF ServingInv
  <2>8. MadeInv' /\ WaitingInv' /\ FromTheFirst'
    BY <1>1, <1>2, <1>4 DEF MadeInv, WaitingInv, FromTheFirst
  <2> QED  BY <2>7, <2>8
<1> QED  BY <1>3, <1>4 DEF ReadOption

LEMMA RequestStream == ASSUME WInv, ReadRequest PROVE WInv'
<1> USE DEF WInv, StreamType, requests
<1>1. UNCHANGED <<made, inner, result, toClient, sent>>
  BY DEF ReadRequest, dial
<1>2. /\ server = "serving" /\ toServer # << >> /\ made = "client"
      /\ \A i \in 1 .. Len(toServer) : toServer[i] = "request"
  BY DEF ReadRequest, ServingInv
<1>3. CASE /\ swallowed = {} /\ served' = Append(served, NumberOf(1))
           /\ toServer' = Tail(toServer) /\ UNCHANGED <<server, swallowed>>
  <2>1. NumberOf(1) = Len(served) + 1
    BY <1>2, <1>3, NextNumber DEF ServingInv
  <2>2. /\ served' \in Seq(Nat) /\ Len(served') = Len(served) + 1
        /\ served' = [i \in 1 .. Len(served') |-> i]
    <3>1. served' = Append(served, Len(served) + 1)
      BY <1>3, <2>1
    <3>2. /\ served' \in Seq(Nat) /\ Len(served') = Len(served) + 1
          /\ DOMAIN served' = 1 .. Len(served')
      BY <3>1
    <3>3. \A i \in 1 .. Len(served) : served[i] = i
      BY DEF FromTheFirst
    <3>4. \A i \in 1 .. Len(served') : served'[i] = i
      BY <3>1, <3>3
    <3> QED  BY <3>2, <3>4
  <2>3. /\ toServer' \in Seq(Messages)
        /\ Len(toServer') = Len(toServer) - 1
        /\ \A i \in 1 .. Len(toServer') : toServer'[i] = "request"
    BY <1>2, <1>3
  <2>4. StreamType' /\ ServingInv'
    <3>1. Len(served) + Len(toServer) = sent /\ Len(served) \in Nat /\ Len(toServer) \in Nat
      BY <1>2, <1>3 DEF ServingInv
    <3>2. Len(served') + Len(toServer') = sent'
      <4>1. sent' = sent /\ Len(served') = Len(served) + 1 /\ Len(toServer') = Len(toServer) - 1
        BY <1>1, <2>2, <2>3
      <4> HIDE DEF WInv, StreamType
      <4> QED  BY <3>1, <4>1
    <3>3. StreamType'
      BY <1>1, <1>3, <2>2, <2>3
    <3> QED  BY <1>1, <1>2, <1>3, <2>3, <3>2, <3>3 DEF ServingInv
  <2>5. MadeInv' /\ WaitingInv' /\ FromTheFirst'
    BY <1>1, <1>2, <1>3, <2>2 DEF MadeInv, WaitingInv, FromTheFirst
  <2> QED  BY <2>4, <2>5
<1>4. CASE server' = "ended" /\ UNCHANGED <<served, toServer, swallowed>>
  BY <1>1, <1>4 DEF MadeInv, WaitingInv, ServingInv, FromTheFirst
<1>5. CASE /\ swallowed # {} /\ swallowed' = swallowed \cup {NumberOf(1)}
           /\ toServer' = Tail(toServer) /\ UNCHANGED <<server, served>>
  <2>1. swallowed' # {}
    BY <1>5
  <2>2. /\ toServer' \in Seq(Messages)
        /\ \A i \in 1 .. Len(toServer') : toServer'[i] = "request"
    BY <1>2, <1>5
  <2> QED
    BY <1>1, <1>2, <1>5, <2>1, <2>2 DEF MadeInv, WaitingInv, ServingInv, FromTheFirst
<1> QED  BY <1>3, <1>4, <1>5 DEF ReadRequest

LEMMA ServerStream == ASSUME WInv, Server PROVE WInv'
<1>1. CASE ServeHTTP
  <2> USE DEF WInv, StreamType, requests
  <2>1. /\ server = "http" /\ toServer # << >> /\ toServer' = Tail(toServer)
        /\ UNCHANGED <<inner, result, made, sent, served, swallowed>>
        /\ \/ /\ toServer[1] = "connect" /\ server' = "option"
              /\ toClient' = Append(toClient, "200")
           \/ server' = "ended" /\ toClient' = Append(toClient, "400")
    BY <1>1 DEF ServeHTTP, dial
  <2>2. toServer' \in Seq(Messages)
    BY <2>1, HeadTailProperties
  <2>5. toClient' \in Seq(Answers)
    <3>1. "200" \in Answers /\ "400" \in Answers
      BY DEF Answers
    <3>2. Append(toClient, "200") \in Seq(Answers) /\ Append(toClient, "400") \in Seq(Answers)
      BY <3>1, AppendProperties
    <3> QED BY <2>1, <3>2
  <2>3. ASSUME toServer[1] = "connect" PROVE made # "client" /\ toServer' = << >>
    <3>1. made # "client" /\ toServer = <<"connect">>
      BY <2>1, <2>3 DEF WaitingInv
    <3>2. Tail(<<"connect">>) = << >>
      OBVIOUS
    <3> QED BY <2>1, <3>1, <3>2
  <2>4. inner \notin {"none", "connect"}
    BY <2>1 DEF WaitingInv
  <2> QED
    BY <2>1, <2>2, <2>3, <2>4, <2>5 DEF MadeInv, WaitingInv, ServingInv, FromTheFirst
<1>2. CASE EndOfFile
  BY <1>2 DEF EndOfFile, WInv, StreamType, MadeInv, WaitingInv, ServingInv, FromTheFirst,
              dial, wires, requests
<1> QED  BY <1>1, <1>2, OptionStream, RequestStream DEF Server

-----------------------------------------------------------------------------
(* What a server reads of a connection are its requests from the first one *)
(* on, or nothing at all (server.go:131, 149: the Option's decoder may keep *)
(* what followed it), for any number of requests and however they arrive.  *)
THEOREM ReadFromTheFirst == DialSpec => []FromTheFirst
<1>1. DInv /\ WInv /\ [DialNext]_dialVars => WInv'
  BY DialStream, InnerStream, UserStream, ServerStream DEF DialNext
<1>2. WInv => FromTheFirst
  BY DEF WInv
<1> QED  BY <1>1, <1>2, InitStream, DialInvariance, PTL DEF DialSpec

(***************************************************************************)
(* RpcServer.                                                              *)
(***************************************************************************)
(* The response of r is over; nobody will write another one.               *)
Finished(r) ==
  \/ handler[r] = "done"
  \/ worker[r] = "sent"
  \/ loop = "exited" /\ rejected = r

(* A request is unread, refused by the loop, or handled; handler and worker *)
(* respond for it one at a time.                                           *)
StageInv ==
  \A r \in Reqs :
    /\ r \in unread \/ r = rejected => handler[r] = "none"
    /\ ~(r \in unread /\ r = rejected)
    /\ handler[r] = "none" => worker[r] = "none"
    /\ handler[r] = "waitSent" <=> worker[r] \in {"send", "sent"}
    /\ loop = "read" => rejected = Nobody

(* Who holds sending is in sendResponse.                                   *)
LockInv ==
  \A r \in Reqs, g \in Goroutines : sending = <<r, g>> => InSendResponse(r, g)

(* A request with a header on the wire is being answered or is over, and   *)
(* has no other header.                                                    *)
HeaderInv ==
  \A r \in Reqs : \A i \in Headers(r) :
    /\ Finished(r) \/ \E g \in Goroutines : sending = <<r, g>>
    /\ \A j \in Headers(r) : i = j

(* The wire ends in a whole response, or in the header of who holds sending. *)
OutInv ==
  Alive =>
    IF sending = Nobody THEN Len(out) % 2 = 0
    ELSE /\ Len(out) % 2 = 1
         /\ out[Len(out)] = <<sending[1], "header", outcome[sending[1]]>>

DoneInv ==
  \A r \in Reqs : (handler[r] = "done" \/ worker[r] = "sent") /\ Alive => Answered(r)

RSInv ==
  TypeOK /\ StageInv /\ LockInv /\ HeaderInv /\ OutInv /\ WholeResponses /\ DoneInv

-----------------------------------------------------------------------------
LEMMA InitInv == ASSUME Init PROVE RSInv
<1>1. TypeOK
  <2>1. "none" \in Outcomes
    BY DEF Outcomes
  <2>2. connOpen \in BOOLEAN /\ peerGone \in BOOLEAN
    BY DEF Init
  <2>3. out \in Seq(Reqs \X {"header", "body"} \X Outcomes)
    BY DEF Init
  <2>4. QED  BY <2>1, <2>2 DEF Init, TypeOK
<1>2. StageInv
  BY NobodyAssumption DEF Init, StageInv
<1>3. LockInv
  BY NobodyAssumption DEF Init, LockInv, Writers
<1>4. HeaderInv /\ OutInv /\ WholeResponses
  BY DEF Init, HeaderInv, OutInv, WholeResponses, Headers
<1>5. DoneInv
  BY DEF Init, DoneInv
<1>6. QED  BY <1>1, <1>2, <1>3, <1>4, <1>5 DEF RSInv

(* The steps that do not write, and those that do.                         *)
Quiet ==
  \/ \E r \in Reqs : Read(r) \/ ReadInvalid(r) \/ MethodReturns(r) \/ Timeout(r)
       \/ Sent(r) \/ \E res \in {"reply", "error"} : Called(r, res)
  \/ ReadNothing \/ PeerClose \/ UNCHANGED vars

LEMMA Steps ==
  ASSUME [Next]_vars
  PROVE  Quiet \/ \E r \in Reqs, g \in Goroutines : WriteHeader(r, g) \/ WriteBody(r, g)
  BY DEF Next, Handle, Write, Quiet

LEMMA QuietType == ASSUME TypeOK, StageInv, Quiet PROVE TypeOK'
<1>1. /\ unread' \subseteq Reqs
      /\ loop' \in {"read", "reject", "exited"} /\ rejected' \in Reqs \cup {Nobody}
  BY DEF TypeOK, Quiet, Read, ReadInvalid, MethodReturns, Timeout, Sent,
     Called, ReadNothing, PeerClose, vars
<1>2. handler' \in [Reqs -> {"none", "select", "timedOut", "waitSent", "done"}]
  BY DEF TypeOK, Quiet, Read, ReadInvalid, MethodReturns, Timeout, Sent,
     Called, ReadNothing, PeerClose, vars
<1>3. worker' \in [Reqs -> {"none", "call", "called", "send", "sent", "done"}]
  BY DEF TypeOK, Quiet, Read, ReadInvalid, MethodReturns, Timeout, Sent,
     Called, ReadNothing, PeerClose, vars
<1>4. outcome' \in [Reqs -> Outcomes]
  BY DEF TypeOK, Quiet, Read, ReadInvalid, MethodReturns, Timeout, Sent,
     Called, ReadNothing, PeerClose, vars, Outcomes
<1>5. sending' = sending /\ out' = out /\ connOpen' \in BOOLEAN /\ peerGone' \in BOOLEAN
  BY DEF TypeOK, Quiet, Read, ReadInvalid, MethodReturns, Timeout, Sent,
     Called, ReadNothing, PeerClose, vars
<1>6. \A r \in Reqs : handler'[r] = "waitSent" => worker'[r] \in {"send", "sent"}
  BY DEF TypeOK, Quiet, Read, ReadInvalid, MethodReturns, Timeout, Sent,
     Called, ReadNothing, PeerClose, vars
<1>7. QED  BY <1>1, <1>2, <1>3, <1>4, <1>5, <1>6 DEF TypeOK

LEMMA QuietStage == ASSUME TypeOK, StageInv, Quiet PROVE StageInv'
  BY DEF TypeOK, StageInv, Quiet, Read, ReadInvalid, MethodReturns, Timeout,
     Sent, Called, ReadNothing, PeerClose, vars

LEMMA QuietLock == ASSUME TypeOK, StageInv, LockInv, Quiet PROVE LockInv'
  BY DEF TypeOK, StageInv, LockInv, InSendResponse, Quiet, Read, ReadInvalid,
     MethodReturns, Timeout, Sent, Called, ReadNothing, PeerClose, vars

LEMMA QuietFinished ==
  ASSUME TypeOK, StageInv, Quiet, NEW r \in Reqs, Finished(r) PROVE Finished(r)'
  BY DEF TypeOK, StageInv, Finished, Quiet, Read, ReadInvalid, MethodReturns,
     Timeout, Sent, Called, ReadNothing, PeerClose, vars

LEMMA QuietInv == ASSUME RSInv, Quiet PROVE RSInv'
<1>1. TypeOK' /\ StageInv' /\ LockInv'
  BY QuietType, QuietStage, QuietLock DEF RSInv
<1>2. /\ out' = out /\ sending' = sending
      /\ Alive' => Alive
  BY DEF Alive, Quiet, Read, ReadInvalid, MethodReturns, Timeout, Sent,
     Called, ReadNothing, PeerClose, vars
<1>3. HeaderInv'
  BY <1>2, QuietFinished DEF RSInv, HeaderInv, Headers
<1>4. OutInv'
  <2>1. ASSUME NEW r \in Reqs, NEW g \in Goroutines, sending = <<r, g>>
        PROVE  outcome'[r] = outcome[r]
    <3>1. InSendResponse(r, g)
      BY <2>1 DEF RSInv, LockInv
    <3>2. handler[r] # "select" /\ r \notin unread
      BY <3>1 DEF InSendResponse, RSInv, StageInv
    <3>3. QED
      BY <3>2 DEF RSInv, TypeOK, Quiet, Read, ReadInvalid, MethodReturns,
         Timeout, Sent, Called, ReadNothing, PeerClose, vars
  <2>2. sending # Nobody => \E r \in Reqs, g \in Goroutines : sending = <<r, g>>
    BY DEF RSInv, TypeOK, Writers
  <2>3. QED  BY <1>2, <2>1, <2>2 DEF RSInv, OutInv
<1>5. WholeResponses'
  BY <1>2 DEF RSInv, WholeResponses
<1>6. DoneInv'
  <2>1. ASSUME NEW r \in Reqs, handler'[r] = "done" \/ worker'[r] = "sent"
        PROVE  handler[r] = "done" \/ worker[r] = "sent"
    BY <2>1 DEF RSInv, TypeOK, Quiet, Read, ReadInvalid, MethodReturns,
       Timeout, Sent, Called, ReadNothing, PeerClose, vars
  <2>2. QED  BY <1>2, <2>1 DEF RSInv, DoneInv, Answered
<1>7. QED  BY <1>1, <1>3, <1>4, <1>5, <1>6 DEF RSInv

-----------------------------------------------------------------------------
(* In sendResponse for r there is one goroutine, and r is not over.        *)
LEMMA Responding ==
  ASSUME TypeOK, StageInv, NEW r \in Reqs, NEW g \in Goroutines, InSendResponse(r, g)
  PROVE  /\ ~Finished(r) /\ outcome[r] \in Outcomes
         /\ \A h \in Goroutines : InSendResponse(r, h) => h = g
  BY DEF TypeOK, StageInv, InSendResponse, Finished

LEMMA HeaderStep ==
  ASSUME RSInv, NEW r \in Reqs, NEW g \in Goroutines, WriteHeader(r, g)
  PROVE  RSInv'
<1>1. /\ UNCHANGED <<unread, loop, rejected, handler, worker, outcome, connOpen, peerGone>>
      /\ sending = Nobody /\ sending' = <<r, g>> /\ InSendResponse(r, g)
      /\ out' = IF Alive THEN Append(out, <<r, "header", outcome[r]>>) ELSE out
  BY DEF WriteHeader, Emit
<1>2. ~Finished(r) /\ outcome[r] \in Outcomes /\ out \in Seq(Reqs \X {"header", "body"} \X Outcomes)
  BY <1>1, Responding DEF RSInv, TypeOK
<1>3. out' \in Seq(Reqs \X {"header", "body"} \X Outcomes)
  BY <1>1, <1>2
<1>4. TypeOK'
  BY <1>1 DEF RSInv, TypeOK, Writers
<1>5. StageInv'
  BY <1>1 DEF RSInv, StageInv
<1>6. LockInv'
  BY <1>1 DEF LockInv, InSendResponse
<1>7. HeaderInv'
  <2>1. Headers(r) = {}
    BY <1>1, <1>2, NobodyAssumption DEF RSInv, HeaderInv, Writers
  <2>2. \A q \in Reqs : Finished(q)' = Finished(q)
    BY <1>1 DEF Finished
  <2>3. ASSUME NEW q \in Reqs, q # r PROVE Headers(q)' = Headers(q)
    BY <1>1, <2>3 DEF Headers
  <2>4. Headers(r)' \subseteq {Len(out) + 1}
    BY <1>1, <2>1 DEF Headers
  <2>5. ASSUME NEW q \in Reqs, q # r, NEW i \in Headers(q) PROVE Finished(q)
    BY <1>1, NobodyAssumption DEF RSInv, HeaderInv, Writers
  <2>6. QED  BY <1>1, <2>2, <2>3, <2>4, <2>5 DEF RSInv, HeaderInv
<1>8. OutInv' /\ WholeResponses'
  <2>1. CASE ~Alive
    BY <1>1, <2>1 DEF RSInv, OutInv, WholeResponses, Alive
  <2>2. CASE Alive
    <3>1. Len(out) \in Nat /\ Len(out) % 2 = 0
      BY <1>1, <2>2 DEF RSInv, OutInv
    <3>2. /\ Len(out') = Len(out) + 1 /\ out'[Len(out) + 1] = <<r, "header", outcome[r]>>
          /\ \A i \in 1..Len(out) : out'[i] = out[i]
      BY <1>1, <2>2
    <3>3. OutInv'
      <4>1. sending' # Nobody /\ sending'[1] = r
        BY <1>1, NobodyAssumption DEF Writers
      <4>2. Len(out') % 2 = 1
        BY <3>1, <3>2
      <4>3. out'[Len(out')] = <<sending'[1], "header", outcome'[sending'[1]]>>
        BY <1>1, <3>2
      <4>4. QED  BY <4>1, <4>2, <4>3 DEF OutInv
    <3>4. WholeResponses'
      <4>1. ASSUME NEW i \in 1..Len(out)
            PROVE  i - 1 \in 1..Len(out) \/ i % 2 = 1
        BY <3>1
      <4>2. DOMAIN out = 1..Len(out) /\ DOMAIN out' = 1..(Len(out) + 1)
        BY <3>2
      <4>3. (Len(out) + 1) % 2 = 1
        BY <3>1
      <4>4. ASSUME NEW i \in 1..Len(out)
            PROVE  IF i % 2 = 1 THEN out'[i][2] = "header"
                   ELSE out'[i][2] = "body" /\ out'[i][1] = out'[i - 1][1]
                        /\ out'[i][3] = out'[i - 1][3]
        BY <3>2, <4>1, <4>2 DEF RSInv, WholeResponses
      <4>5. out'[Len(out) + 1][2] = "header"
        BY <3>2
      <4>6. \A i \in DOMAIN out' : i \in 1..Len(out) \/ i = Len(out) + 1
        BY <4>2
      <4>7. QED  BY <4>3, <4>4, <4>5, <4>6 DEF WholeResponses
    <3>5. QED  BY <3>3, <3>4
  <2>3. QED  BY <2>1, <2>2
<1>9. DoneInv'
  <2>1. Alive' = Alive
    BY <1>1 DEF Alive
  <2>2. \A q \in Reqs : Answered(q) => Answered(q)'
    BY <1>1 DEF Answered
  <2>3. QED  BY <1>1, <2>1, <2>2 DEF RSInv, DoneInv
<1>10. QED  BY <1>4, <1>5, <1>6, <1>7, <1>8, <1>9 DEF RSInv

(* What AfterResponse does to the request, and to the others: nothing.     *)
LEMMA Responded ==
  ASSUME TypeOK, StageInv, NEW r \in Reqs, NEW g \in Goroutines, InSendResponse(r, g),
         AfterResponse(r, g), UNCHANGED <<unread, rejected>>
  PROVE  /\ StageInv' /\ Finished(r)'
         /\ \A q \in Reqs : Finished(q) => Finished(q)'
         /\ \A q \in Reqs \ {r} : handler'[q] = handler[q] /\ worker'[q] = worker[q]
         /\ loop' \in {"read", "reject", "exited"}
         /\ handler' \in [Reqs -> {"none", "select", "timedOut", "waitSent", "done"}]
         /\ worker' \in [Reqs -> {"none", "call", "called", "send", "sent", "done"}]
<1>1. CASE g = "worker"
  BY DEF TypeOK, StageInv, InSendResponse, AfterResponse, Finished
<1>2. CASE g = "handler"
  BY DEF TypeOK, StageInv, InSendResponse, AfterResponse, Finished
<1>3. CASE g = "loop"
  BY DEF TypeOK, StageInv, InSendResponse, AfterResponse, Finished
<1>4. QED  BY <1>1, <1>2, <1>3 DEF Goroutines

LEMMA BodyStep ==
  ASSUME RSInv, NEW r \in Reqs, NEW g \in Goroutines, WriteBody(r, g)
  PROVE  RSInv'
<1> DEFINE Parts == Reqs \X {"header", "body"} \X Outcomes
<1>1. /\ UNCHANGED <<unread, rejected, outcome, peerGone>>
      /\ sending = <<r, g>> /\ sending' = Nobody /\ AfterResponse(r, g)
  BY DEF WriteBody
<1>2. InSendResponse(r, g) /\ outcome[r] \in Outcomes /\ out \in Seq(Parts) /\ sending # Nobody
  BY <1>1, NobodyAssumption DEF RSInv, LockInv, TypeOK, Writers
<1>3. \/ out' = out /\ ~Alive'
      \/ Alive /\ out' = Append(out, <<r, "body", outcome[r]>>)
  BY DEF WriteBody, Emit, Alive
<1>4. (Alive' => Alive) /\ connOpen' \in BOOLEAN
  BY DEF WriteBody, Alive
<1>5. out' \in Seq(Parts)
  <2>1. <<r, "body", outcome[r]>> \in Parts
    BY <1>2
  <2>2. CASE out' = out
    BY <1>2, <2>2
  <2>3. CASE out' = Append(out, <<r, "body", outcome[r]>>)
    BY <1>2, <2>3
  <2>4. QED  BY <1>3, <2>2, <2>3
<1>6. /\ StageInv' /\ Finished(r)'
      /\ \A q \in Reqs : Finished(q) => Finished(q)'
      /\ \A q \in Reqs \ {r} : handler'[q] = handler[q] /\ worker'[q] = worker[q]
      /\ loop' \in {"read", "reject", "exited"}
      /\ handler' \in [Reqs -> {"none", "select", "timedOut", "waitSent", "done"}]
      /\ worker' \in [Reqs -> {"none", "call", "called", "send", "sent", "done"}]
  BY <1>1, <1>2, Responded DEF RSInv
<1>7. TypeOK'
  <2>1. \A q \in Reqs : handler'[q] = "waitSent" => worker'[q] \in {"send", "sent"}
    BY <1>6 DEF StageInv
  <2>2. QED  BY <1>1, <1>4, <1>5, <1>6, <2>1 DEF RSInv, TypeOK
<1>8. LockInv'
  BY <1>1, NobodyAssumption DEF LockInv, Writers
<1>9. HeaderInv'
  <2>1. \A q \in Reqs : Headers(q)' = Headers(q)
    <3>1. CASE out' = out
      BY <3>1 DEF Headers
    <3>2. CASE out' = Append(out, <<r, "body", outcome[r]>>)
      BY <3>2 DEF Headers
    <3>3. QED  BY <1>3, <3>1, <3>2
  <2>2. ASSUME NEW q \in Reqs, q # r, NEW i \in Headers(q) PROVE Finished(q)
    BY <1>1, <2>2 DEF RSInv, HeaderInv
  <2>3. QED  BY <1>6, <2>1, <2>2 DEF RSInv, HeaderInv
<1>10. OutInv' /\ WholeResponses' /\ DoneInv'
  <2>1. CASE out' = out /\ ~Alive'
    BY <2>1 DEF RSInv, OutInv, WholeResponses, DoneInv
  <2>2. CASE Alive /\ out' = Append(out, <<r, "body", outcome[r]>>)
    <3>1. /\ Len(out) \in Nat \ {0} /\ Len(out) % 2 = 1
          /\ out[Len(out)] = <<r, "header", outcome[r]>>
      BY <1>1, <1>2, <2>2 DEF RSInv, OutInv
    <3>2. /\ Len(out') = Len(out) + 1 /\ out'[Len(out) + 1] = <<r, "body", outcome[r]>>
          /\ \A i \in 1..Len(out) : out'[i] = out[i]
          /\ DOMAIN out = 1..Len(out) /\ DOMAIN out' = 1..(Len(out) + 1)
      BY <2>2
    <3>3. OutInv'
      <4>1. Len(out') % 2 = 0
        BY <3>1, <3>2
      <4>2. QED  BY <1>1, <4>1 DEF OutInv
    <3>4. WholeResponses'
      <4>1. ASSUME NEW i \in 1..Len(out)
            PROVE  i - 1 \in 1..Len(out) \/ i % 2 = 1
        BY <3>1
      <4>2. ASSUME NEW i \in 1..Len(out)
            PROVE  IF i % 2 = 1 THEN out'[i][2] = "header"
                   ELSE out'[i][2] = "body" /\ out'[i][1] = out'[i - 1][1]
                        /\ out'[i][3] = out'[i - 1][3]
        BY <3>2, <4>1 DEF RSInv, WholeResponses
      <4>3. (Len(out) + 1) % 2 # 1 /\ Len(out) \in 1..Len(out) /\ (Len(out) + 1) - 1 = Len(out)
        BY <3>1
      <4>4. out'[Len(out)] = <<r, "header", outcome[r]>>
        BY <3>1, <3>2
      <4>5. \A i \in DOMAIN out' : i \in 1..Len(out) \/ i = Len(out) + 1
        BY <3>2
      <4>6. QED  BY <3>2, <4>2, <4>3, <4>4 DEF WholeResponses
    <3>5. DoneInv'
      <4>1. Answered(r)'
        BY <3>2 DEF Answered
      <4>2. \A q \in Reqs : Answered(q) => Answered(q)'
        BY <3>2 DEF Answered
      <4>3. QED  BY <1>4, <1>6, <4>1, <4>2 DEF RSInv, DoneInv
    <3>6. QED  BY <3>3, <3>4, <3>5
  <2>3. QED  BY <1>3, <2>1, <2>2
<1>11. QED  BY <1>6, <1>7, <1>8, <1>9, <1>10 DEF RSInv

-----------------------------------------------------------------------------
LEMMA RSInvariant == Spec => []RSInv
<1>1. RSInv /\ [Next]_vars => RSInv'
  BY Steps, QuietInv, HeaderStep, BodyStep
<1>2. QED  BY InitInv, <1>1, PTL DEF Spec

(* The types of RpcServer.                                                 *)
THEOREM TypeCorrect == Spec => []TypeOK
<1>1. RSInv => TypeOK
  BY DEF RSInv
<1>2. QED  BY RSInvariant, <1>1, PTL

(* No request ever gets a second response: not from the worker that comes  *)
(* back after the timeout, and not from the loop.                          *)
THEOREM OneResponseEach == Spec => []OneResponse
<1>1. RSInv => OneResponse
  <2>1. ASSUME RSInv, NEW r \in Reqs PROVE Cardinality(Headers(r)) <= 1
    <3>1. CASE Headers(r) = {}
      BY <3>1, FS_EmptySet
    <3>2. CASE Headers(r) # {}
      <4>1. PICK i \in Headers(r) : Headers(r) = {i}
        BY <2>1, <3>2 DEF RSInv, HeaderInv
      <4>2. Cardinality(Headers(r)) = 1
        BY <4>1, FS_Singleton
      <4>3. QED  BY <4>2
    <3>3. QED  BY <3>1, <3>2
  <2>2. QED  BY <2>1 DEF OneResponse
<1>2. QED  BY RSInvariant, <1>1, PTL

(* Header and body of one response follow each other on the connection,    *)
(* for any number of goroutines that respond at the same time.             *)
THEOREM ResponsesNeverMix == Spec => []WholeResponses
<1>1. RSInv => WholeResponses
  BY DEF RSInv
<1>2. QED  BY RSInvariant, <1>1, PTL

(* handleRequest ends after its response is written, while the connection  *)
(* lasts.                                                                  *)
THEOREM DoneAfterAnswer == Spec => []DoneMeansAnswered
<1>1. RSInv => DoneMeansAnswered
  BY DEF RSInv, DoneInv, DoneMeansAnswered
<1>2. QED  BY RSInvariant, <1>1, PTL
=============================================================================

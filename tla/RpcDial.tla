------------------------------ MODULE RpcDial -------------------------------
(***************************************************************************)
(* How a GeeRPC connection begins (GeeRPC/client/client.go: dialTimeout,   *)
(* NewClient, NewHTTPClient; GeeRPC/server/server.go: Accept, ServeHTTP,   *)
(* ServeConn): one Dial, the goroutine it starts, the user of the client   *)
(* that it returns, and the server's goroutine of the connection.          *)
(*                                                                         *)
(* What follows the Option on the wire are the requests; RpcClient and     *)
(* RpcServer take them from there.                                         *)
(***************************************************************************)
EXTENDS Integers, Sequences, FiniteSets

CONSTANTS
  Codecs,         \* the types a client may ask for
  ClientCodecs, ServerCodecs,   \* those in NewCodecFuncMap of each program
  MaxRequests     \* bound on the requests of the user

ASSUME CodecAssumption == ClientCodecs \subseteq Codecs /\ ServerCodecs \subseteq Codecs

Transports == {"tcp", "http"}

VARIABLES
  dialing,    \* Dial or DialHTTP
  listening,  \* Accept, or an http.Server with HandleHTTP
  codecType, timeLimit,  \* of the Option: ConnectTimeout is not 0
  main,       \* the caller of dialTimeout: start, select or returned
  result,     \* what it returned: none, client or error
  inner,      \* the goroutine that runs f
  made,       \* what f returned
  conn,       \* the client's end: none, open or closed
  toServer, toClient,    \* what was written and not read yet
  server,     \* none, http, option, serving or ended
  sent,       \* requests written
  served,     \* requests the server has read, in order
  swallowed,  \* requests of which bytes stayed in the json.Decoder
  userClosed

options == <<dialing, listening, codecType, timeLimit>>
dial == <<main, result, inner, made>>
wires == <<toServer, toClient>>
requests == <<sent, served, swallowed, userClosed>>
dialVars == <<options, dial, conn, wires, server, requests>>

DialInit ==
  /\ dialing \in Transports /\ listening \in Transports
  /\ codecType \in Codecs /\ timeLimit \in BOOLEAN
  /\ main = "start" /\ result = "none"
  /\ inner = "none" /\ made = "none"
  /\ conn = "none"
  /\ toServer = << >> /\ toClient = << >>
  /\ server = "none"
  /\ sent = 0 /\ served = << >> /\ swallowed = {} /\ userClosed = FALSE

-----------------------------------------------------------------------------
(* dialTimeout.                                                            *)

(* Mutant of Return: client.go:219-223 left out. *)
ReturnOnly(r) ==
  /\ main' = "returned" /\ result' = r
  /\ UNCHANGED conn

(* The deferred function closes the connection if there is no client. *)
Return(r) ==
  /\ main' = "returned" /\ result' = r
  /\ conn' = IF r = "client" \/ conn = "none" THEN conn ELSE "closed"

(* More than one Option, or nobody listens. *)
NotConnected ==
  /\ main = "start"
  /\ Return("error")
  /\ UNCHANGED <<options, inner, made, wires, server, requests>>

Connect ==
  /\ main = "start"
  /\ main' = "select"
  /\ conn' = "open"
  /\ inner' = IF dialing = "http" THEN "connect" ELSE "option"
  /\ UNCHANGED <<options, result, made, wires, server, requests>>

(* The goroutine gives its result to whoever still waits for it.           *)
Receive ==
  /\ main = "select" /\ inner = "send"
  /\ inner' = "done"
  /\ Return(made)
  /\ UNCHANGED <<options, made, wires, server, requests>>

(* Mutant of DialTimeout: the result is received before the select. *)
TimeoutAfterResult ==
  /\ main = "select" /\ timeLimit /\ inner = "send"
  /\ Return("error")
  /\ UNCHANGED <<options, inner, made, wires, server, requests>>

(* time.After; ch has no buffer, so that the goroutine waits for ever.     *)
DialTimeout ==
  /\ main = "select" /\ timeLimit
  /\ Return("error")
  /\ UNCHANGED <<options, inner, made, wires, server, requests>>

-----------------------------------------------------------------------------
(* f: NewClient, after NewHTTPClient's part of it.                         *)

Made(r) == inner' = "send" /\ made' = r

(* The error of the write is dropped. *)
WriteConnect ==
  /\ inner = "connect"
  /\ toServer' = IF conn = "open" THEN Append(toServer, "connect") ELSE toServer
  /\ inner' = "response"
  /\ UNCHANGED <<options, main, result, made, conn, toClient, server, requests>>

ReadResponse ==
  /\ inner = "response"
  /\ \/ /\ conn = "open" /\ toClient # << >>
        /\ toClient' = Tail(toClient)
        /\ IF Head(toClient) = "200"
           THEN inner' = "option" /\ UNCHANGED made
           ELSE Made("error")
     \/ /\ conn = "closed" \/ (server = "ended" /\ toClient = << >>)
        /\ Made("error")
        /\ UNCHANGED toClient
  /\ UNCHANGED <<options, main, result, conn, toServer, server, requests>>

(* An unknown codec is an error before anything is written.  A write to a  *)
(* connection the server has closed may still succeed.                     *)
WriteOption ==
  /\ inner = "option"
  /\ \/ /\ codecType \notin ClientCodecs
        /\ Made("error")
        /\ UNCHANGED <<conn, toServer>>
     \/ /\ codecType \in ClientCodecs /\ conn = "open"
        /\ Made("client")
        /\ toServer' = Append(toServer, "option")
        /\ UNCHANGED conn
     \/ /\ codecType \in ClientCodecs /\ (conn = "closed" \/ server = "ended")
        /\ Made("error")
        /\ conn' = "closed"
        /\ UNCHANGED toServer
  /\ UNCHANGED <<options, main, result, toClient, server, requests>>

-----------------------------------------------------------------------------
(* The user of the client.                                                 *)

Request ==
  /\ result = "client" /\ conn = "open" /\ sent < MaxRequests
  /\ sent' = sent + 1
  /\ toServer' = Append(toServer, "request")
  /\ UNCHANGED <<options, dial, conn, toClient, server, served, swallowed, userClosed>>

Close ==
  /\ result = "client" /\ conn = "open"
  /\ conn' = "closed" /\ userClosed' = TRUE
  /\ UNCHANGED <<options, dial, wires, server, sent, served, swallowed>>

-----------------------------------------------------------------------------
(* The server.                                                             *)

Accept ==
  /\ conn # "none" /\ server = "none"
  /\ server' = IF listening = "http" THEN "http" ELSE "option"
  /\ UNCHANGED <<options, dial, conn, wires, requests>>

(* http.Server and ServeHTTP: what is not a CONNECT is not HTTP either.    *)
ServeHTTP ==
  /\ server = "http" /\ toServer # << >>
  /\ toServer' = Tail(toServer)
  /\ IF Head(toServer) = "connect"
     THEN toClient' = Append(toClient, "200") /\ server' = "option"
     ELSE toClient' = Append(toClient, "400") /\ server' = "ended"
  /\ UNCHANGED <<options, dial, conn, requests>>

\* The number of the request that is n-th of those not read.
NumberOf(n) == sent - Cardinality({i \in DOMAIN toServer : toServer[i] = "request"}) + n

(* ServeConn: the json.Decoder reads what there is, the Option and as much *)
(* of what follows it as has arrived: whole requests, and a part of one,   *)
(* whose rest is left for the codec.                                       *)
ReadOption ==
  /\ server = "option" /\ toServer # << >>
  /\ IF Head(toServer) = "option" /\ codecType \in ServerCodecs
     THEN /\ server' = "serving"
          /\ \E n \in 0 .. Len(toServer) - 1 : \E torn \in BOOLEAN :
               /\ torn => n < Len(toServer) - 1
               /\ toServer' = SubSeq(toServer, n + 2, Len(toServer))
               /\ swallowed' = {NumberOf(i) : i \in 1 .. (IF torn THEN n + 1 ELSE n)}
     ELSE /\ server' = "ended"
          /\ UNCHANGED <<toServer, swallowed>>
  /\ UNCHANGED <<options, dial, conn, toClient, sent, served, userClosed>>

(* Mutant of ReadRequest: the damage of the stream goes unnoticed. *)
ReadAnyRequest ==
  /\ server = "serving" /\ toServer # << >>
  /\ served' = Append(served, NumberOf(1))
  /\ toServer' = Tail(toServer)
  /\ UNCHANGED <<options, dial, conn, toClient, server, sent, swallowed, userClosed>>

(* serveCodec: gob has sent its type definitions with what is lost, and    *)
(* without them it reads nothing any more: the connection is closed, or    *)
(* the rest is taken for a part of a longer message.                       *)
ReadRequest ==
  /\ server = "serving" /\ toServer # << >>
  /\ \/ /\ swallowed = {}
        /\ served' = Append(served, NumberOf(1))
        /\ toServer' = Tail(toServer)
        /\ UNCHANGED <<server, swallowed>>
     \/ /\ swallowed # {}
        /\ server' = "ended"
        /\ UNCHANGED <<served, toServer, swallowed>>
     \/ /\ swallowed # {}
        /\ swallowed' = swallowed \cup {NumberOf(1)}
        /\ toServer' = Tail(toServer)
        /\ UNCHANGED <<server, served>>
  /\ UNCHANGED <<options, dial, conn, toClient, sent, userClosed>>

EndOfFile ==
  /\ server \in {"http", "option", "serving"}
  /\ toServer = << >> /\ conn = "closed"
  /\ server' = "ended"
  /\ UNCHANGED <<options, dial, conn, wires, requests>>

Inner == WriteConnect \/ ReadResponse \/ WriteOption
Server == ServeHTTP \/ ReadOption \/ ReadRequest \/ EndOfFile

DialNext ==
  \/ NotConnected \/ Connect \/ Receive \/ DialTimeout
  \/ Inner \/ Request \/ Close \/ Accept \/ Server

(* Goroutines go on, timers fire and select chooses what is ready; a       *)
(* server need not accept.                                                 *)
DialSpec ==
  /\ DialInit /\ [][DialNext]_dialVars
  /\ WF_dialVars(Receive \/ DialTimeout) /\ WF_dialVars(Inner) /\ WF_dialVars(Server)
-----------------------------------------------------------------------------
(* dialTimeout returns a client on a connection that is open until its     *)
(* user closes it, or the connection is closed: also when the timer fires  *)
(* while f is at work, succeeds, or fails.                                 *)
ConnGoesWithClient ==
  main = "returned" =>
    IF result = "client" THEN (conn = "open") = ~userClosed ELSE conn # "open"

(* The server reads the requests of a connection from the first one on,    *)
(* each once and in order, or none of them, whatever it has swallowed.     *)
FromTheFirst ==
  /\ served = [i \in 1 .. Len(served) |-> i]
  /\ swallowed # {} => served = << >>

(* With a ConnectTimeout dialTimeout returns although the server does not  *)
(* answer, or does not speak its protocol; and neither a Dial that failed  *)
(* nor a client that was closed keeps a goroutine of the server.           *)
DialEnds ==
  /\ (timeLimit /\ main = "select") ~> (main = "returned")
  /\ (result = "error" \/ userClosed) ~> (server \in {"none", "ended"})

(* server.go:25-26: after the Option come Header1, Body1, Header2 and so   *)
(* on: what a client writes behind its Option are requests to the server.  *)
NothingSwallowed == swallowed = {}
=============================================================================

-------------------------------- MODULE Gee ---------------------------------
(* An Engine of Gee (Gee/gee/gee.go, routerGroup.go, context.go,           *)
(* recovery.go, logger.go): the program sets up groups, middlewares and    *)
(* routes, then serves requests.  Requests share nothing that serving      *)
(* changes, so one at a time is served here.                               *)
(*                                                                         *)
(* The functions of a request call each other through ctx.Next: stack has  *)
(* the positions in ctx.middlewares of those that run, innermost first.    *)
(* Logger, Recovery and the handler of Static are the code's; the other    *)
(* middlewares and handlers are the user's and do what a Context allows.   *)
EXTENDS GeeRouter

CONSTANTS
  Methods,
  GroupPrefixes,        \* what Group is called with
  Patterns,        \* what Get and Post are called with
  Directories,     \* the relativePath Static is called with
  FilePath,        \* the segment `*filepath'
  LongerSegments,  \* pairs of segments, the first a proper prefix of the second
  Requests,        \* methods and paths of requests
  Paths,           \* paths RoutesAgree looks up
  MaxGroups, MaxRoutes,
  MaxServed,       \* groups and routes of an engine that serves
  MaxActs          \* routes, and what the functions of a request do, besides returning

(* What Group and AddRoute are called with, and paths, are strings. *)
ASSUME SequencesAssumption ==
  \A s \in GroupPrefixes \cup Patterns \cup Directories \cup Paths : s \in Seq(Range(s))

ASSUME EngineAssumption ==
  /\ FilePath \in Stars
  /\ Empty \notin UNION {Range(p) : p \in Directories}
  /\ Requests \subseteq Methods \X Paths

(* Status codes: one of success, one with which net/http refuses a body,   *)
(* those of the code, and none.                                            *)
OK == 200
NoContent == 204
Forbidden == 403
NotFound == 404
InternalError == 500
NoStatus == 0

VARIABLES
  groups,      \* engine.groups: prefix, parent and middlewares
  roots,       \* router.roots
  handlers,    \* router.handlers
  registered,  \* what was registered, in order
  phase,       \* setup, ready, busy, or dead when the process has died
  request,     \* method and path
  chain,       \* ctx.middlewares
  index,       \* ctx.index
  status,      \* ctx.StatusCode
  wire,        \* the status line that was sent
  stack,       \* the functions of the chain that run
  panicking,   \* they are being unwound
  guarded,     \* Recovery was on the stack when the panic began
  started,     \* positions of the chain, in the order they were called
  acts,
  outcome      \* of the last request: answered or aborted

table == <<groups, roots, handlers, registered>>
ctx == <<request, chain, index>>
response == <<status, wire>>
vars == <<table, phase, ctx, response, stack, panicking, guarded, started,
          acts, outcome>>

Func(kind, of) == [kind |-> kind, of |-> of]
Logger == Func("logger", 0)
Recovery == Func("recovery", 0)
NotFoundHandler == Func("notFound", 0)

Engine == [prefix |-> << >>, parent |-> 0, middlewares |-> << >>]

(* New, and Default, which uses Logger and Recovery. *)
Init ==
  /\ groups \in {<<Engine>>,
                 <<[Engine EXCEPT !.middlewares = <<Logger, Recovery>>]>>}
  /\ roots = [method \in Methods |-> EmptyTrie]
  /\ handlers = << >>
  /\ registered = << >>
  /\ phase = "setup"
  /\ request = <<"", << >>>> /\ chain = << >> /\ index = -1
  /\ status = NoStatus /\ wire = NoStatus
  /\ stack = << >> /\ panicking = FALSE /\ guarded = FALSE
  /\ started = << >> /\ acts = 0 /\ outcome = "none"

-----------------------------------------------------------------------------
(* Setting up.                                                             *)

requestState == <<ctx, response, stack, panicking, guarded, started, acts, outcome>>

Group(g, prefix) ==
  /\ phase = "setup"
  /\ Len(groups) < MaxGroups
  /\ groups' = Append(groups, [prefix      |-> groups[g].prefix \o prefix,
                               parent      |-> g,
                               middlewares |-> << >>])
  /\ UNCHANGED <<roots, handlers, registered, phase, requestState>>

(* Use of a middleware of the user's: one for each group is enough. *)
Use(g) ==
  /\ phase = "setup"
  /\ Func("user", g) \notin Range(groups[g].middlewares)
  /\ groups' = [groups EXCEPT ![g].middlewares = Append(@, Func("user", g))]
  /\ UNCHANGED <<roots, handlers, registered, phase, requestState>>

(* Mutant of CompositionPattern: routerGroup.go:39 without the prefix. *)
BarePattern(g, pattern) == pattern

CompositionPattern(g, pattern) == groups[g].prefix \o pattern

AddRoute(g, method, pattern, kind) ==
  LET compositionPattern == CompositionPattern(g, pattern)
      handler == Func(kind, Len(registered) + 1)
  IN /\ phase = "setup"
     /\ Len(registered) < MaxRoutes
     /\ roots' = [roots EXCEPT ![method] = Insert(@, compositionPattern)]
     /\ handlers' = Put(handlers, <<method, compositionPattern>>, handler)
     /\ registered' = Append(registered, [method  |-> method, group |-> g,
                                          pattern |-> compositionPattern])
     /\ UNCHANGED <<groups, phase, requestState>>

(* Get and Post of a group, or of the engine, which is the first group. *)
Route(g, method, pattern) == AddRoute(g, method, pattern, "route")

Static(g, relativePath) ==
  AddRoute(g, "GET", Append(relativePath, FilePath), "static")

(* Run: the engine serves from now on. *)
Run ==
  /\ phase = "setup"
  /\ Len(groups) + Len(registered) <= MaxServed
  /\ phase' = "ready"
  /\ UNCHANGED <<table, requestState>>

-----------------------------------------------------------------------------
(* Serving.                                                                *)

(* strings.HasPrefix on sequences of segments. *)
HasPrefix(path, prefix) ==
  LET n == Len(prefix)
  IN /\ n <= Len(path)
     /\ \A i \in 1 .. n - 1 : path[i] = prefix[i]
     /\ n > 0 => \/ prefix[n] \in {path[n], Empty}
                 \/ <<prefix[n], path[n]>> \in LongerSegments

Middlewares(path) ==
  LET upTo[n \in 0 .. Len(groups)] ==
        IF n = 0 THEN << >>
        ELSE IF HasPrefix(path, groups[n].prefix)
             THEN upTo[n - 1] \o groups[n].middlewares
             ELSE upTo[n - 1]
  IN upTo[Len(groups)]

Handler(method, path) ==
  LET pattern == GetRoute(roots[method], path)
  IN IF pattern = << >> THEN NotFoundHandler ELSE handlers[<<method, pattern>>]

(* ServeHTTP and Router.handler, up to the first function of the chain. *)
ServeHTTP(r) ==
  /\ phase = "ready"
  /\ phase' = "busy"
  /\ request' = r
  /\ chain' = Append(Middlewares(r[2]), Handler(r[1], r[2]))
  /\ index' = 0
  /\ stack' = <<1>> /\ started' = <<1>>
  /\ status' = NoStatus /\ wire' = NoStatus
  /\ panicking' = FALSE /\ guarded' = FALSE /\ acts' = 0 /\ outcome' = "none"
  /\ UNCHANGED table

Top == chain[Head(stack)]
Running(kinds) == phase = "busy" /\ ~panicking /\ stack # << >> /\ Top.kind \in kinds
OnStack(f) == \E i \in DOMAIN stack : chain[stack[i]] = f
Act == acts + Len(registered) < MaxActs /\ acts' = acts + 1

Panic ==
  /\ panicking' = TRUE
  /\ guarded' = OnStack(Recovery)

(* The function on top calls Next, which does not look at the length. *)
CallNext ==
  /\ index' = index + 1
  /\ IF index' < Len(chain)
     THEN /\ stack' = <<index' + 1>> \o stack
          /\ started' = Append(started, index' + 1)
          /\ UNCHANGED <<panicking, guarded>>
     ELSE Panic /\ UNCHANGED <<stack, started>>
  /\ UNCHANGED <<request, chain, response, phase, outcome, table>>

(* Logger and Recovery call Next once. *)
CallsNext == Head(stack) = Last(started)

MiddlewareNext ==
  /\ Running({"logger", "recovery"})
  /\ CallsNext
  /\ CallNext
  /\ UNCHANGED acts

UserNext == Running({"user", "route"}) /\ Act /\ CallNext

(* Status: the first WriteHeader counts. *)
Sent(code) == IF wire = NoStatus THEN code ELSE wire

Status(code) == status' = code /\ wire' = Sent(code)

(* Mutant of Fatal: ctx.index stays where it is. *)
FatalGoOn(first, code) ==
  LET endless == Sent(first) = NoContent
  IN /\ index' = index
     /\ wire' = Sent(first)
     /\ status' = IF endless THEN InternalError ELSE code
     /\ phase' = IF endless THEN "dead" ELSE phase

(* Fatal(code), or a JSON or HTML that began with the status first and     *)
(* failed.  When no body may be written Fatal's JSON fails too and calls   *)
(* Fatal again, until the stack overflows, which no recover stops.         *)
Fatal(first, code) ==
  LET endless == Sent(first) = NoContent
  IN /\ index' = Len(chain)
     /\ wire' = Sent(first)
     /\ status' = IF endless THEN InternalError ELSE code
     /\ phase' = IF endless THEN "dead" ELSE phase

(* Status, String and Data. *)
Write(code) ==
  /\ Running({"user", "route"}) /\ Act
  /\ Status(code)
  /\ UNCHANGED <<ctx, phase, stack, panicking, guarded, started, outcome, table>>

(* JSON and HTML, of a value or template that can be encoded or not.       *)
Encode(code, encodable) ==
  /\ Running({"user", "route"}) /\ Act
  /\ IF encodable /\ Sent(code) # NoContent
     THEN Status(code) /\ UNCHANGED <<index, phase>>
     ELSE Fatal(code, InternalError)
  /\ UNCHANGED <<request, chain, stack, panicking, guarded, started, outcome, table>>

UserFatal ==
  /\ Running({"user", "route"}) /\ Act
  /\ Fatal(Forbidden, Forbidden)
  /\ UNCHANGED <<request, chain, stack, panicking, guarded, started, outcome, table>>

UserPanic ==
  /\ Running({"user", "route"}) /\ Act
  /\ Panic
  /\ UNCHANGED <<ctx, response, phase, stack, started, outcome, table>>

Return ==
  /\ \/ Running({"user", "route"})
     \/ Running({"logger", "recovery"}) /\ ~CallsNext
  /\ stack' = Tail(stack)
  /\ UNCHANGED <<ctx, response, phase, panicking, guarded, started, acts, outcome, table>>

(* The handler of Static: no such file, or what http.FileServer answers,   *)
(* which it does not tell the Context.                                     *)
ServeFile ==
  /\ Running({"static"})
  /\ \/ Status(NotFound)
     \/ wire' = Sent(OK) /\ UNCHANGED status
  /\ stack' = Tail(stack)
  /\ UNCHANGED <<ctx, phase, panicking, guarded, started, acts, outcome, table>>

ServeNotFound ==
  /\ Running({"notFound"})
  /\ Fatal(NotFound, NotFound)
  /\ stack' = Tail(stack)
  /\ UNCHANGED <<request, chain, panicking, guarded, started, acts, outcome, table>>

(* Mutant of Unwind: Recovery calls recover after Next, without defer.     *)
UnwindAll ==
  /\ phase = "busy" /\ panicking /\ stack # << >>
  /\ stack' = Tail(stack)
  /\ UNCHANGED <<ctx, response, phase, panicking, guarded, started, acts, outcome, table>>

(* A panic leaves a function; Recovery's deferred function stops it, ends  *)
(* the chain and answers 500, and Recovery returns to its caller.          *)
Unwind ==
  /\ phase = "busy" /\ panicking /\ stack # << >>
  /\ stack' = Tail(stack)
  /\ IF Top = Recovery
     THEN panicking' = FALSE /\ Fatal(InternalError, InternalError)
     ELSE UNCHANGED <<index, response, phase, panicking>>
  /\ UNCHANGED <<request, chain, guarded, started, acts, outcome, table>>

(* ServeHTTP is over: net/http answers 200 if nothing else was said, or    *)
(* recovers the panic and closes the connection.                           *)
Finish ==
  /\ phase = "busy" /\ stack = << >>
  /\ phase' = "ready"
  /\ outcome' = IF panicking THEN "aborted" ELSE "answered"
  /\ wire' = IF panicking THEN wire ELSE Sent(OK)
  /\ panicking' = FALSE
  /\ UNCHANGED <<table, ctx, status, stack, guarded, started, acts>>

-----------------------------------------------------------------------------
Setup ==
  \/ \E g \in DOMAIN groups :
       \/ \E prefix \in GroupPrefixes : Group(g, prefix)
       \/ Use(g)
       \/ \E method \in Methods, pattern \in Patterns : Route(g, method, pattern)
       \/ \E relativePath \in Directories : Static(g, relativePath)
  \/ Run

User ==
  \/ UserNext \/ UserFatal \/ UserPanic
  \/ \E code \in {OK, NoContent} :
       Write(code) \/ \E encodable \in BOOLEAN : Encode(code, encodable)

Serve ==
  \/ \E r \in Requests : ServeHTTP(r)
  \/ MiddlewareNext \/ User \/ Return \/ ServeFile \/ ServeNotFound
  \/ Unwind \/ Finish

Next == Setup \/ Serve

Spec == Init /\ [][Next]_vars
-----------------------------------------------------------------------------
PatternsOf(method) ==
  LET mine == Filter(registered, {r \in Range(registered) : r.method = method})
  IN [i \in DOMAIN mine |-> mine[i].pattern]

(* Unless a registration is diverted into a wildcard that was there before *)
(* it, the trie finds what the patterns mean: of those that fit a path the *)
(* most specific one, the last registered of its kind, with the parts its  *)
(* wildcards stand for unless two have one name (router.go:84-95), and     *)
(* calls the handler it was registered with last.                          *)
(* Diverted or not, no wildcard lies outside the path (router.go:86-95)    *)
(* and the pattern has a handler (router.go:108-111).                      *)
RoutesAgree ==
  phase = "setup" =>
    \A method \in Methods :
      LET patterns == PatternsOf(method)
          noneDiverted == NoneDiverted(patterns)
      IN \A path \in Paths :
           LET found == GetRoute(roots[method], path)
           IN /\ found # << >> =>
                   /\ Len(ParsePattern(found)) <= Len(ParsePattern(path))
                   /\ <<method, found>> \in DOMAIN handlers
              /\ noneDiverted =>
                   /\ found = BestRoute(patterns, path)
                   /\ found # << >> =>
                        /\ NamedOnce(found) =>
                             Filled(found, GetParams(found, path)) = ParsePattern(path)
                        /\ handlers[<<method, found>>].of =
                             SelectLastInSeq(registered, LAMBDA r :
                               r.method = method /\ r.pattern = found)

Lineage ==
  LET up[g \in 0 .. Len(groups)] == IF g = 0 THEN {} ELSE {g} \cup up[groups[g].parent]
  IN up

(* No segment but the last is empty. *)
CleanPath(path) == \A i \in 1 .. Len(path) - 1 : path[i] # Empty

StaticPrefix(g) ==
  \A i \in DOMAIN groups[g].prefix :
    groups[g].prefix[i] # Empty /\ ~IsWild(groups[g].prefix[i])

(* A handler that a group registered starts after the middlewares of the   *)
(* group and of those around it, although ServeHTTP finds them by the text *)
(* of the path and the handler by its parts.  A path with `//' in it, a    *)
(* prefix with a wildcard, and a registration that was diverted into one,  *)
(* which answers paths outside of its group, are where the two differ.     *)
GroupMiddlewareFirst ==
  (phase = "busy" /\ CleanPath(request[2]) /\ NoneDiverted(PatternsOf(request[1]))) =>
    \A j \in DOMAIN started :
      LET f == chain[started[j]]
          g == registered[f.of].group
      IN f.kind \in {"route", "static"} /\ StaticPrefix(g) =>
           \A up \in Lineage[g] : \A mw \in Range(groups[up].middlewares) :
             \E i \in 1 .. j - 1 : chain[started[i]] = mw

(* Once Fatal has answered or set an error, whether a middleware called    *)
(* it, an encoder that failed or Recovery, no function of the chain        *)
(* starts, whatever those that run still do.                               *)
Errors == {Forbidden, NotFound, InternalError}

FatalEndsChain ==
  [][phase = "busy" /\ phase' = "busy" /\ {status, wire} \cap Errors # {}
       => started' = started]_vars

(* A panic under Recovery is answered, with 500 unless a response had      *)
(* begun, and the connection is closed only by a panic that Recovery was   *)
(* not there for.  The one way to lose the process is a status that allows *)
(* no body.                                                                *)
RecoveryAnswers ==
  [][/\ panicking /\ ~panicking' /\ phase' = "busy"
         => wire' = Sent(InternalError) /\ index' = Len(chain)
     /\ outcome' = "aborted" => ~guarded
     /\ phase' = "dead" => wire' = NoContent]_vars
=============================================================================

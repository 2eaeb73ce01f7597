---------------------------- MODULE SingleFlight ----------------------------
(***************************************************************************)
(* Group.Do of GeeCache/geecache/singleflight/singleflight.go: goroutines  *)
(* that ask for one key while a call of fn for it is registered share that *)
(* call.  A section of Do under group.mutex is one step; fn runs outside   *)
(* the mutex and may return, or panic when its key is in PanicKeys: the    *)
(* goroutine then leaves Do through net/http's recover, past wg.Done and   *)
(* past the delete.  A `call' struct is an element of CallIds; it is       *)
(* collected, and may be allocated again, once neither a goroutine nor the *)
(* map refers to it.                                                       *)
(***************************************************************************)
EXTENDS Integers

CONSTANTS
  Procs,      \* goroutines that call Do
  Keys,       \* keys of the map m
  PanicKeys,  \* keys for which fn may panic
  Outcomes,   \* Outcomes[k]: what fn may return for k (a value or an error)
  CallIds,    \* addresses of call structs
  NoCall,     \* the nil pointer
  NoKey,      \* the argument of a goroutine that is not in Do
  NoResult    \* val and err of a call that fn has not set yet

ASSUME NilAssumption == NoCall \notin CallIds /\ NoKey \notin Keys

ASSUME PanicAssumption == PanicKeys \subseteq Keys

ASSUME OutcomeAssumption ==
  /\ DOMAIN Outcomes = Keys
  /\ \A k \in Keys : NoResult \notin Outcomes[k]

VARIABLES
  m,      \* group.m: the registered call of each key
  wg,     \* wg[c]: the counter of c.wg, a panic below zero
  val,    \* val[c]: c.val and c.err
  pc,     \* where each goroutine is in Do
  arg,    \* the key it asked for
  ca      \* its local variable ca

sfVars == <<m, wg, val, pc, arg, ca>>

Results == UNION {Outcomes[k] : k \in Keys}

TypeOK ==
  /\ m \in [Keys -> CallIds \cup {NoCall}]
  /\ wg \in [CallIds -> {0, 1}]
  /\ val \in [CallIds -> Results \cup {NoResult}]
  /\ pc \in [Procs -> {"out", "wait", "fn", "done", "forget"}]
  /\ arg \in [Procs -> Keys \cup {NoKey}]
  /\ ca \in [Procs -> CallIds \cup {NoCall}]

Init ==
  /\ m = [k \in Keys |-> NoCall]
  /\ wg = [c \in CallIds |-> 0]
  /\ val = [c \in CallIds |-> NoResult]
  /\ pc = [p \in Procs |-> "out"]
  /\ arg = [p \in Procs |-> NoKey]
  /\ ca = [p \in Procs |-> NoCall]

Referenced(c) == (\E p \in Procs : ca[p] = c) \/ (\E k \in Keys : m[k] = c)

Free == {c \in CallIds : ~Referenced(c)}

(* new(call): addresses are opaque, so any free one stands for all. *)
NewCall == CHOOSE c \in Free : TRUE

(* p leaves Do; the call it held is collected when that was the last use. *)
Leave(p) ==
  /\ pc' = [pc EXCEPT ![p] = "out"]
  /\ arg' = [arg EXCEPT ![p] = NoKey]
  /\ ca' = [ca EXCEPT ![p] = NoCall]
  /\ val' = [c \in CallIds |-> IF Referenced(c)' THEN val[c] ELSE NoResult]

-----------------------------------------------------------------------------
(* The call of k is registered: unlock and wait for it. *)
Join(p, k) ==
  /\ pc[p] = "out"
  /\ m[k] # NoCall
  /\ ca' = [ca EXCEPT ![p] = m[k]]
  /\ arg' = [arg EXCEPT ![p] = k]
  /\ pc' = [pc EXCEPT ![p] = "wait"]
  /\ UNCHANGED <<m, wg, val>>

(* Mutants of Lead: singleflight.go:38 left out, then line 40. *)
LeadWithoutAdd(p, k) ==
  /\ pc[p] = "out"
  /\ m[k] = NoCall
  /\ Free # {}
  /\ LET c == NewCall IN
       /\ ca' = [ca EXCEPT ![p] = c]
       /\ m' = [m EXCEPT ![k] = c]
  /\ arg' = [arg EXCEPT ![p] = k]
  /\ pc' = [pc EXCEPT ![p] = "fn"]
  /\ UNCHANGED <<val, wg>>

LeadUnregistered(p, k) ==
  /\ pc[p] = "out"
  /\ m[k] = NoCall
  /\ Free # {}
  /\ LET c == NewCall IN
       /\ ca' = [ca EXCEPT ![p] = c]
       /\ wg' = [wg EXCEPT ![c] = @ + 1]
  /\ arg' = [arg EXCEPT ![p] = k]
  /\ pc' = [pc EXCEPT ![p] = "fn"]
  /\ UNCHANGED <<val, m>>

(* Register a call of our own, then run fn. *)
Lead(p, k) ==
  /\ pc[p] = "out"
  /\ m[k] = NoCall
  /\ Free # {}
  /\ LET c == NewCall IN
       /\ ca' = [ca EXCEPT ![p] = c]
       /\ m' = [m EXCEPT ![k] = c]
       /\ wg' = [wg EXCEPT ![c] = @ + 1]
  /\ arg' = [arg EXCEPT ![p] = k]
  /\ pc' = [pc EXCEPT ![p] = "fn"]
  /\ UNCHANGED val

(* ca.val, ca.err = fn() *)
FnReturn(p, r) ==
  /\ pc[p] = "fn"
  /\ r \in Outcomes[arg[p]]
  /\ val' = [val EXCEPT ![ca[p]] = r]
  /\ pc' = [pc EXCEPT ![p] = "done"]
  /\ UNCHANGED <<m, wg, arg, ca>>

(* fn panics: Do is unwound and nothing after the call of fn runs. *)
FnPanic(p) ==
  /\ pc[p] = "fn"
  /\ arg[p] \in PanicKeys
  /\ UNCHANGED <<m, wg>>
  /\ Leave(p)

(* Mutant of Done: wg.Done is never called. *)
NeverDone(p) ==
  /\ pc[p] = "done"
  /\ pc' = [pc EXCEPT ![p] = "forget"]
  /\ UNCHANGED <<m, wg, val, arg, ca>>

(* ca.wg.Done() *)
Done(p) ==
  /\ pc[p] = "done"
  /\ wg' = [wg EXCEPT ![ca[p]] = @ - 1]
  /\ pc' = [pc EXCEPT ![p] = "forget"]
  /\ UNCHANGED <<m, val, arg, ca>>

(* Mutant of Forget: the call stays in the map. *)
NeverForget(p) ==
  /\ pc[p] = "forget"
  /\ UNCHANGED <<m, wg>>
  /\ Leave(p)

(* delete(group.m, key), and return val[ca[p]]. *)
Forget(p) ==
  /\ pc[p] = "forget"
  /\ m' = [m EXCEPT ![arg[p]] = NoCall]
  /\ UNCHANGED wg
  /\ Leave(p)

(* Mutant of Wake: the call's fields are read without waiting. *)
WakeAtOnce(p) ==
  /\ pc[p] = "wait"
  /\ UNCHANGED <<m, wg>>
  /\ Leave(p)

(* ca.wg.Wait() returns, and Do returns val[ca[p]]. *)
Wake(p) ==
  /\ pc[p] = "wait"
  /\ wg[ca[p]] = 0
  /\ UNCHANGED <<m, wg>>
  /\ Leave(p)

Next ==
  \E p \in Procs :
    \/ \E k \in Keys : Join(p, k) \/ Lead(p, k)
    \/ \E r \in Results : FnReturn(p, r)
    \/ FnPanic(p)
    \/ Done(p)
    \/ Forget(p)
    \/ Wake(p)

Spec == Init /\ [][Next]_sfVars

(* What p does once it is in Do: the scheduler runs every runnable         *)
(* goroutine, the mutex is held for a few statements only, and fn ends.    *)
Advance(p) ==
  \/ \E r \in Results : FnReturn(p, r)
  \/ FnPanic(p)
  \/ Done(p)
  \/ Forget(p)
  \/ Wake(p)

FairSpec == Spec /\ \A p \in Procs : WF_sfVars(Advance(p))

-----------------------------------------------------------------------------
Leading(p) == pc[p] \in {"fn", "done", "forget"}

(* Two goroutines never run fn for one key at the same time, nor does a    *)
(* second one start before the first has deleted its call: the reason      *)
(* singleflight.go:37 gives for registering the call before fn.            *)
OneFlight ==
  \A p, q \in Procs : Leading(p) /\ Leading(q) /\ arg[p] = arg[q] => p = q

(* The call a key is registered with is the one its leader will finish and *)
(* delete, unless fn panicked under it: no entry of the map outlives its   *)
(* leader, so a later Do can always start a fresh call.                    *)
EntryHasLeader ==
  \A k \in Keys :
    m[k] # NoCall =>
      \/ \E p \in Procs : Leading(p) /\ arg[p] = k /\ ca[p] = m[k]
      \/ k \in PanicKeys

(* A goroutine waits in wg.Wait only for a call whose leader has not done  *)
(* wg.Done yet, or that is finished already (singleflight.go:31, 46):      *)
(* nobody waits for a call that no one will finish, a panic of fn aside.   *)
WaiterHasLeader ==
  \A p \in Procs :
    pc[p] = "wait" /\ wg[ca[p]] > 0 =>
      \/ \E q \in Procs : pc[q] \in {"fn", "done"} /\ ca[q] = ca[p]
      \/ arg[p] \in PanicKeys

(* Every flight, in the map or waited for, has the one goroutine that ends *)
(* it, unless fn panicked.                                                 *)
FlightsHaveLeaders == EntryHasLeader /\ WaiterHasLeader

(* Do returns to leader and waiters alike a result fn produced for the key *)
(* each of them asked for: never that of another key's flight, of a        *)
(* recycled call struct, or of a call fn has not finished (a waiter reads  *)
(* ca.val at singleflight.go:32 with no lock).                             *)
ReturnsOutcome ==
  [][\A p \in Procs :
       (pc[p] \in {"wait", "forget"} /\ pc'[p] = "out")
         => val[ca[p]] \in Outcomes[arg[p]]]_sfVars

(* Every Do on a key whose fn does not panic returns. *)
DoReturns ==
  \A p \in Procs, k \in Keys \ PanicKeys :
    (pc[p] # "out" /\ arg[p] = k) ~> (pc[p] = "out")
=============================================================================

------------------------- MODULE SingleFlight_proof -------------------------
(***************************************************************************)
(* Proofs about SingleFlight for any number of goroutines and keys: an     *)
(* inductive invariant, and from it every safety property its run checks.  *)
(***************************************************************************)
EXTENDS SingleFlight, TLAPS

(* A goroutine in Do holds a call and the key it asked for.  Whoever holds *)
(* or registers one call is there for one key.                             *)
HoldsCall ==
  \A p \in Procs :
    /\ pc[p] # "out" => ca[p] \in CallIds /\ arg[p] \in Keys
    /\ pc[p] = "out" => ca[p] = NoCall

OneKeyPerCall ==
  /\ \A p, q \in Procs : ca[p] = ca[q] /\ ca[p] # NoCall => arg[p] = arg[q]
  /\ \A p \in Procs, k \in Keys : ca[p] = m[k] /\ ca[p] # NoCall => arg[p] = k
  /\ \A k, l \in Keys : m[k] = m[l] /\ m[k] # NoCall => k = l

(* A leader's call is the registered one; its counter is up until wg.Done, *)
(* its result is there from the end of fn on.                              *)
LeaderInv ==
  \A p \in Procs :
    /\ Leading(p) => m[arg[p]] = ca[p]
    /\ pc[p] \in {"fn", "done"} => wg[ca[p]] = 1
    /\ pc[p] = "forget" => wg[ca[p]] = 0
    /\ pc[p] \in {"done", "forget"} => val[ca[p]] \in Outcomes[arg[p]]

(* A registered call has a leader, or fn panicked and its counter is up.   *)
EntryInv ==
  \A k \in Keys :
    m[k] # NoCall =>
      \/ \E p \in Procs : Leading(p) /\ arg[p] = k /\ ca[p] = m[k]
      \/ k \in PanicKeys /\ wg[m[k]] = 1

(* A counter that is up has someone to bring it down, or fn panicked.      *)
CounterInv ==
  \A c \in CallIds :
    wg[c] = 1 =>
      \/ \E p \in Procs : pc[p] \in {"fn", "done"} /\ ca[p] = c
      \/ \E k \in PanicKeys : m[k] = c

(* A goroutine waits for a result, or the result is there.                 *)
WaiterInv ==
  \A p \in Procs :
    pc[p] = "wait" /\ wg[ca[p]] = 0 => val[ca[p]] \in Outcomes[arg[p]]

SFInv ==
  /\ TypeOK /\ HoldsCall /\ OneKeyPerCall /\ OneFlight
  /\ LeaderInv /\ EntryInv /\ CounterInv /\ WaiterInv

-----------------------------------------------------------------------------
LEMMA NewCallFree == ASSUME Free # {} PROVE NewCall \in Free
  BY DEF NewCall

LEMMA InitInv == ASSUME Init PROVE SFInv
  BY NilAssumption DEF Init, SFInv, TypeOK, HoldsCall, OneKeyPerCall,
     OneFlight,
     LeaderInv, EntryInv, CounterInv, WaiterInv, Leading

LEMMA JoinInv ==
  ASSUME SFInv, NEW p \in Procs, NEW k \in Keys, Join(p, k)
  PROVE  SFInv'
<1> USE NilAssumption, PanicAssumption, OutcomeAssumption DEF SFInv, Join
<1>1. TypeOK'
  BY DEF TypeOK
<1>2. HoldsCall'
  BY DEF TypeOK, HoldsCall
<1>3. OneKeyPerCall'
  BY DEF TypeOK, OneKeyPerCall
<1>4. OneFlight'
  BY DEF OneFlight, Leading
<1>5. LeaderInv'
  BY DEF LeaderInv, Leading
<1>6. EntryInv'
  BY DEF EntryInv, Leading
<1>7. CounterInv'
  BY DEF CounterInv
<1>8. WaiterInv'
  BY DEF TypeOK, LeaderInv, EntryInv, WaiterInv, Leading
<1> QED
  BY <1>1, <1>2, <1>3, <1>4, <1>5, <1>6, <1>7, <1>8

LEMMA LeadInv ==
  ASSUME SFInv, NEW p \in Procs, NEW k \in Keys, Lead(p, k)
  PROVE  SFInv'
<1> USE NilAssumption, PanicAssumption, OutcomeAssumption DEF SFInv
<1> DEFINE c == NewCall
<1>1. c \in CallIds /\ ~Referenced(c)
  BY NewCallFree DEF Lead, Free
<1>2. wg[c] = 0
  BY <1>1 DEF TypeOK, CounterInv, Referenced
<1>3. /\ pc[p] = "out" /\ m[k] = NoCall
      /\ ca' = [ca EXCEPT ![p] = c]
      /\ m' = [m EXCEPT ![k] = c]
      /\ wg' = [wg EXCEPT ![c] = 1]
      /\ arg' = [arg EXCEPT ![p] = k]
      /\ pc' = [pc EXCEPT ![p] = "fn"]
      /\ val' = val
  BY <1>2 DEF Lead
<1> HIDE DEF c
<1>4. TypeOK'
  BY <1>1, <1>3 DEF TypeOK
<1>5. HoldsCall'
  BY <1>1, <1>3 DEF TypeOK, HoldsCall
<1>6. OneKeyPerCall'
  BY <1>1, <1>3 DEF TypeOK, OneKeyPerCall, Referenced
<1>7. OneFlight'
  BY <1>3 DEF TypeOK, HoldsCall, OneFlight, LeaderInv, Leading
<1>8. LeaderInv'
  BY <1>1, <1>3 DEF TypeOK, HoldsCall, LeaderInv, Leading, Referenced
<1>9. EntryInv'
  BY <1>3 DEF TypeOK, EntryInv, Leading
<1>10. CounterInv'
  BY <1>3 DEF TypeOK, CounterInv
<1>11. WaiterInv'
  BY <1>3 DEF WaiterInv
<1> QED
  BY <1>4, <1>5, <1>6, <1>7, <1>8, <1>9, <1>10, <1>11

LEMMA FnReturnInv ==
  ASSUME SFInv, NEW p \in Procs, NEW r \in Results, FnReturn(p, r)
  PROVE  SFInv'
<1> USE NilAssumption, PanicAssumption, OutcomeAssumption DEF SFInv, FnReturn
<1>1. TypeOK'
  BY DEF TypeOK
<1>2. HoldsCall'
  BY DEF HoldsCall
<1>3. OneKeyPerCall'
  BY DEF OneKeyPerCall
<1>4. OneFlight'
  BY DEF OneFlight, Leading
<1>5. LeaderInv'
  BY DEF TypeOK, HoldsCall, OneKeyPerCall, LeaderInv, Leading
<1>6. EntryInv'
  BY DEF EntryInv, Leading
<1>7. CounterInv'
  BY DEF CounterInv
<1>8. WaiterInv'
  BY DEF LeaderInv, WaiterInv
<1> QED
  BY <1>1, <1>2, <1>3, <1>4, <1>5, <1>6, <1>7, <1>8

LEMMA FnPanicInv ==
  ASSUME SFInv, NEW p \in Procs, FnPanic(p)
  PROVE  SFInv'
<1> USE NilAssumption, PanicAssumption, OutcomeAssumption DEF SFInv, FnPanic,
     Leave
<1>1. TypeOK'
  BY DEF TypeOK
<1>2. HoldsCall'
  BY DEF TypeOK, HoldsCall
<1>3. OneKeyPerCall'
  BY DEF TypeOK, OneKeyPerCall
<1>4. OneFlight'
  BY DEF HoldsCall, OneFlight, Leading
<1>5. LeaderInv'
  BY DEF TypeOK, HoldsCall, LeaderInv, Leading, Referenced
<1>6. EntryInv'
  BY DEF LeaderInv, EntryInv, Leading
<1>7. CounterInv'
  BY DEF LeaderInv, CounterInv, Leading
<1>8. WaiterInv'
  BY DEF HoldsCall, WaiterInv, Referenced
<1> QED
  BY <1>1, <1>2, <1>3, <1>4, <1>5, <1>6, <1>7, <1>8

LEMMA DoneInv ==
  ASSUME SFInv, NEW p \in Procs, Done(p)
  PROVE  SFInv'
<1> USE NilAssumption, PanicAssumption, OutcomeAssumption DEF SFInv, Done
<1>1. TypeOK'
  BY DEF TypeOK, HoldsCall, LeaderInv
<1>2. HoldsCall'
  BY DEF HoldsCall
<1>3. OneKeyPerCall'
  BY DEF OneKeyPerCall
<1>4. OneFlight'
  BY DEF OneFlight, Leading
<1>5. LeaderInv'
  BY DEF TypeOK, HoldsCall, OneKeyPerCall, OneFlight, LeaderInv, Leading
<1>6. EntryInv'
  BY DEF OneKeyPerCall, EntryInv, Leading
<1>7. CounterInv'
  BY DEF TypeOK, CounterInv
<1>8. WaiterInv'
  BY DEF HoldsCall, OneKeyPerCall, LeaderInv, WaiterInv
<1> QED
  BY <1>1, <1>2, <1>3, <1>4, <1>5, <1>6, <1>7, <1>8

LEMMA ForgetInv ==
  ASSUME SFInv, NEW p \in Procs, Forget(p)
  PROVE  SFInv'
<1> USE NilAssumption, PanicAssumption, OutcomeAssumption DEF SFInv, Forget,
     Leave
<1>1. TypeOK'
  BY DEF TypeOK
<1>2. HoldsCall'
  BY DEF TypeOK, HoldsCall
<1>3. OneKeyPerCall'
  BY DEF TypeOK, OneKeyPerCall
<1>4. OneFlight'
  BY DEF HoldsCall, OneFlight, Leading
<1>5. LeaderInv'
  BY DEF TypeOK, HoldsCall, OneFlight, LeaderInv, Leading, Referenced
<1>6. EntryInv'
  BY DEF TypeOK, EntryInv, Leading
<1>7. CounterInv'
  BY DEF LeaderInv, CounterInv, Leading
<1>8. WaiterInv'
  BY DEF HoldsCall, WaiterInv, Referenced
<1> QED
  BY <1>1, <1>2, <1>3, <1>4, <1>5, <1>6, <1>7, <1>8

LEMMA WakeInv ==
  ASSUME SFInv, NEW p \in Procs, Wake(p)
  PROVE  SFInv'
<1> USE NilAssumption, PanicAssumption, OutcomeAssumption DEF SFInv, Wake,
     Leave
<1>1. TypeOK'
  BY DEF TypeOK
<1>2. HoldsCall'
  BY DEF TypeOK, HoldsCall
<1>3. OneKeyPerCall'
  BY DEF TypeOK, OneKeyPerCall
<1>4. OneFlight'
  BY DEF OneFlight, Leading
<1>5. LeaderInv'
  BY DEF HoldsCall, LeaderInv, Leading, Referenced
<1>6. EntryInv'
  BY DEF EntryInv, Leading
<1>7. CounterInv'
  BY DEF CounterInv
<1>8. WaiterInv'
  BY DEF TypeOK, HoldsCall, WaiterInv, Referenced
<1> QED
  BY <1>1, <1>2, <1>3, <1>4, <1>5, <1>6, <1>7, <1>8

-----------------------------------------------------------------------------
LEMMA StepInv == ASSUME SFInv, [Next]_sfVars PROVE SFInv'
<1>1. CASE UNCHANGED sfVars
  BY <1>1 DEF sfVars, SFInv, TypeOK, HoldsCall, OneKeyPerCall, OneFlight,
     LeaderInv, EntryInv, CounterInv, WaiterInv, Leading
<1>2. ASSUME NEW p \in Procs, NEW k \in Keys, Join(p, k) \/ Lead(p, k)
      PROVE  SFInv'
  BY <1>2, JoinInv, LeadInv
<1>3. ASSUME NEW p \in Procs, NEW r \in Results, FnReturn(p, r)
      PROVE  SFInv'
  BY <1>3, FnReturnInv
<1>4. ASSUME NEW p \in Procs, FnPanic(p) \/ Done(p) \/ Forget(p) \/ Wake(p)
      PROVE  SFInv'
  BY <1>4, FnPanicInv, DoneInv, ForgetInv, WakeInv
<1> QED
  BY <1>1, <1>2, <1>3, <1>4 DEF Next

(* The strengthening is an invariant. *)
THEOREM Invariance == Spec => []SFInv
<1>1. Init => SFInv
  BY InitInv
<1>2. SFInv /\ [Next]_sfVars => SFInv'
  BY StepInv
<1> QED
  BY <1>1, <1>2, PTL DEF Spec

(* Every variable keeps its type: no wg.Done brings a counter below zero,  *)
(* which would panic (singleflight.go:38, 46).                             *)
THEOREM TypeCorrect == Spec => []TypeOK
<1>1. SFInv => TypeOK
  BY DEF SFInv
<1> QED
  BY <1>1, Invariance, PTL

(* At most one goroutine at a time runs fn for a key (singleflight.go:37). *)
THEOREM OneFlightAtATime == Spec => []OneFlight
<1>1. SFInv => OneFlight
  BY DEF SFInv
<1> QED
  BY <1>1, Invariance, PTL

(* An entry of the map has a leader that will delete it (line 50), unless  *)
(* fn panicked.                                                            *)
THEOREM EntriesHaveLeaders == Spec => []EntryHasLeader
<1>1. SFInv => EntryHasLeader
  BY DEF SFInv, EntryInv, EntryHasLeader
<1> QED
  BY <1>1, Invariance, PTL

(* Whoever waits (line 31) waits for a leader that will do wg.Done, unless *)
(* fn panicked.                                                            *)
THEOREM WaitersHaveLeaders == Spec => []WaiterHasLeader
<1>1. ASSUME SFInv, NEW p \in Procs, pc[p] = "wait", wg[ca[p]] > 0
      PROVE  \/ \E q \in Procs : pc[q] \in {"fn", "done"} /\ ca[q] = ca[p]
             \/ arg[p] \in PanicKeys
  <2>1. ca[p] \in CallIds /\ ca[p] # NoCall
    BY <1>1, NilAssumption DEF SFInv, HoldsCall
  <2>2. wg[ca[p]] = 1
    BY <1>1, <2>1 DEF SFInv, TypeOK
  <2>3. ASSUME NEW k \in PanicKeys, m[k] = ca[p]
        PROVE  arg[p] \in PanicKeys
    BY <1>1, <2>1, <2>3, PanicAssumption DEF SFInv, OneKeyPerCall
  <2> QED
    BY <1>1, <2>1, <2>2, <2>3 DEF SFInv, CounterInv
<1>2. SFInv => WaiterHasLeader
  BY <1>1 DEF WaiterHasLeader
<1> QED
  BY <1>2, Invariance, PTL

(* No flight, registered or waited for, is without the goroutine that ends *)
(* it, however many goroutines and keys there are.                         *)
THEOREM FlightsLed == Spec => []FlightsHaveLeaders
BY EntriesHaveLeaders, WaitersHaveLeaders, PTL DEF FlightsHaveLeaders

(* Do returns only results of fn for its own key (lines 32 and 53).        *)
THEOREM ResultsAreOutcomes == Spec => ReturnsOutcome
<1>1. ASSUME SFInv, Next, NEW p \in Procs, pc[p] \in {"wait", "forget"},
     pc'[p] = "out"
      PROVE  val[ca[p]] \in Outcomes[arg[p]]
  <2>1. CASE pc[p] = "forget"
    BY <1>1, <2>1 DEF SFInv, LeaderInv
  <2>2. CASE pc[p] = "wait"
    <3>1. Wake(p)
      BY <1>1, <2>2 DEF Next, Join, Lead, FnReturn, FnPanic, Done, Forget,
     Wake, Leave, SFInv, TypeOK
    <3> QED
      BY <1>1, <3>1 DEF Wake, SFInv, WaiterInv
  <2> QED
    BY <1>1, <2>1, <2>2
<1>2. SFInv /\ [Next]_sfVars =>
        [\A p \in Procs : (pc[p] \in {"wait", "forget"} /\ pc'[p] = "out")
                            => val[ca[p]] \in Outcomes[arg[p]]]_sfVars
  BY <1>1
<1> QED
  BY <1>2, Invariance, PTL DEF Spec, ReturnsOutcome
=============================================================================

-------------------------- MODULE OrmSession_proof --------------------------
(***************************************************************************)
(* Proofs about OrmSession for any tables, sessions and scripts: an        *)
(* inductive invariant, that Transaction leaves no lock behind, and that   *)
(* the sessions implement OrmAtomic.                                       *)
(***************************************************************************)
EXTENDS OrmSession, FiniteSetTheorems, SequenceTheorems, WellFoundedInduction,
        TLAPS

Answers == Rows \cup Nat \cup {Failed}

Types ==
  /\ db \in Databases
  /\ writer \in {None} \cup Managed
  /\ IF writer = None THEN pending = None ELSE pending \in Databases
  /\ reading \subseteq Sessions
  /\ leaked \in BOOLEAN
  /\ tx \in [Sessions -> {"none", "open", "done"}]
  /\ refTable \in [Sessions -> Tables \cup {None}]
  /\ where \in [Sessions -> SUBSET Ids]
  /\ limit \in [Sessions -> BOOLEAN]
  /\ cursor \in [Sessions -> Statements \cup {None}]
  /\ pc \in [Sessions -> {"begin", "call", "hook", "exec", "rows", "end", "returned"}]
  /\ script \in [Sessions -> Seq(Statements)]
  /\ results \in [Sessions -> Seq(Answers)]
  /\ fn \in [Sessions -> {"none", "nil", "error", "panic"}]
  /\ outcome \in [Sessions -> {"none", "nil", "error", "panic"}]

(* From the first part of a statement to its end there is a call, and what *)
(* the session keeps for it is what the call asks for.                     *)
ClauseInv(s) ==
  /\ Len(results[s]) <= Len(script[s])
  /\ pc[s] \in {"begin", "call", "rows"} => where[s] = Ids /\ limit[s] = FALSE
  /\ pc[s] \in {"hook", "exec"} =>
       /\ Len(results[s]) < Len(script[s])
       /\ HasCondition(Call(s)) => where[s] = Call(s).where
       /\ Call(s).op = "find" => limit[s] = Call(s).limit
       /\ Call(s).op \notin {"insert", "find"} => refTable[s] = Call(s).table
  /\ pc[s] = "rows" =>
       /\ Len(results[s]) < Len(script[s])
       /\ Call(s).op = "find" /\ cursor[s] = Call(s)
       /\ ~Refused(View(s), Call(s))
  /\ pc[s] # "rows" => cursor[s] = None

(* Which locks go with which session.                                      *)
LockInv(s) ==
  /\ writer = s => s \in reading
  /\ pc[s] = "rows" => s \in reading
  /\ s \in Managed => (tx[s] = "open" <=> pc[s] \notin {"begin", "returned"})
  /\ s \in Managed /\ s \in reading => tx[s] = "open"
  /\ s \in Plain => tx[s] = "none" /\ pc[s] \notin {"begin", "returned"}
  /\ s \in Plain /\ s \in reading => pc[s] = "rows"

EndInv(s) ==
  /\ outcome[s] = "none" <=> pc[s] # "returned"
  /\ fn[s] = "nil" => s \in Managed /\ pc[s] \in {"end", "returned"}
                      /\ Len(results[s]) = Len(script[s])

State(d, rs) == [db |-> d, results |-> rs, possible |-> TRUE]

\* f is the history of the first n calls on d.
RunOf(f, d, calls, n, reported) ==
  f = [i \in 0..n |-> IF i = 0 THEN State(d, <<>>)
                      ELSE Atomic!Step(f[i - 1], calls[i], i \in reported)]

(* One after another on the database d, some of them failing, the calls    *)
(* can have had the results rs and the effect v.                           *)
Ran(d, calls, v, rs) ==
  \E reported, f :
    /\ reported \in SUBSET (1..Len(rs))
    /\ RunOf(f, d, calls, Len(rs), reported)
    /\ f[Len(rs)] = State(v, rs)

(* A transaction is at any time a run of its own on what is committed.  As *)
(* long as it has no lock, it may be one on any database.                  *)
TxInv(s) ==
  s \in Managed /\ pc[s] # "returned" =>
    IF s \in reading THEN Ran(db, script[s], View(s), results[s])
    ELSE \A d \in Databases : Ran(d, script[s], d, results[s])

SessionInv(s) == ClauseInv(s) /\ LockInv(s) /\ EndInv(s) /\ TxInv(s)

SInv == Types /\ \A s \in Sessions : SessionInv(s)

-----------------------------------------------------------------------------
(* Runs.                                                                   *)

LEMMA Least ==
  ASSUME NEW T, T \subseteq Nat, T # {}
  PROVE  \E n \in T : \A m \in T : n <= m
<1> DEFINE R == OpToRel(<, Nat)
<1>1. IsWellFoundedOn(R, Nat)
  BY NatLessThanWellFounded
<1> HIDE DEF R
<1>2. PICK n \in T : \A m \in T : ~ (<<m, n>> \in R)
  BY <1>1, WFMin
<1>3. ASSUME NEW m \in T PROVE n <= m
  <2>1. ~ (<<m, n>> \in R)
    BY <1>2
  <2>2. ~ (m < n)
    BY <2>1 DEF R, OpToRel
  <2> QED BY <2>2
<1> QED BY <1>3

(* Run is what any history says, since there is only one: at the first     *)
(* difference of two the step before would have had to differ.             *)
LEMMA RunIs ==
  ASSUME NEW calls, NEW reported, NEW f, Len(calls) \in Nat,
         RunOf(f, db, calls, Len(calls), reported)
  PROVE  Atomic!Run(calls, reported) = f[Len(calls)]
<1> DEFINE Def(g) == [n \in 0..Len(calls) |->
                        IF n = 0 THEN State(db, <<>>)
                        ELSE Atomic!Step(g[n - 1], calls[n], n \in reported)]
           g0 == CHOOSE g : g = Def(g)
<1>0. f = Def(f)
  BY DEF RunOf
<1>1. g0 = Def(g0)
  <2> HIDE DEF Def
  <2> QED BY <1>0
<1>2. Atomic!Run(calls, reported) = g0[Len(calls)]
  BY DEF Atomic!Run, State
<1> HIDE DEF g0
<1> DEFINE T == {n \in 0..Len(calls) : f[n] # g0[n]}
<1>3. T = {}
  <2> SUFFICES ASSUME T # {} PROVE FALSE
    OBVIOUS
  <2>0. T \subseteq Nat
    OBVIOUS
  <2>1. PICK n \in T : \A m \in T : n <= m
    <3> HIDE DEF T
    <3> QED BY <2>0, Least
  <2>2. n # 0
    BY <2>1, <1>0, <1>1
  <2>3. f[n-1] = g0[n-1]
    BY <2>1, <2>2
  <2> QED BY <2>1, <2>2, <2>3, <1>0, <1>1
<1>4. Len(calls) \in 0..Len(calls)
  OBVIOUS
<1> QED BY <1>2, <1>3, <1>4

LEMMA RunGrows ==
  ASSUME NEW d, NEW calls, NEW n \in Nat, NEW reported \in SUBSET (1..n), NEW f,
         RunOf(f, d, calls, n, reported), NEW failed \in BOOLEAN
  PROVE  \E more \in SUBSET (1..n + 1) : \E g :
           /\ RunOf(g, d, calls, n + 1, more)
           /\ g[n + 1] = Atomic!Step(f[n], calls[n + 1], failed)
<1> DEFINE more == IF failed THEN reported \cup {n + 1} ELSE reported
           last == Atomic!Step(f[n], calls[n + 1], failed)
           g == [i \in 0..n + 1 |-> IF i <= n THEN f[i] ELSE last]
<1>1. more \in SUBSET (1..n + 1) /\ (n + 1 \in more <=> failed)
  OBVIOUS
<1>2. \A i \in 1..n : i \in more <=> i \in reported
  OBVIOUS
<1>3. \A i \in 0..n : f[i] = IF i = 0 THEN State(d, <<>>)
                      ELSE Atomic!Step(f[i - 1], calls[i], i \in reported)
  BY DEF RunOf
<1> HIDE DEF more
<1>4. ASSUME NEW i \in 0..n + 1
      PROVE  g[i] = IF i = 0 THEN State(d, <<>>)
                    ELSE Atomic!Step(g[i - 1], calls[i], i \in more)
  <2>1. CASE i = 0
    BY <2>1, <1>3
  <2>2. CASE i \in 1..n
    <3>1. i \in more <=> i \in reported
      BY <2>2, <1>2
    <3>2. g[i] = f[i] /\ g[i - 1] = f[i - 1]
      BY <2>2
    <3>3. CASE i \in reported
      BY <2>2, <3>1, <3>2, <3>3, <1>3
    <3>4. CASE i \notin reported
      BY <2>2, <3>1, <3>2, <3>4, <1>3
    <3> QED BY <3>3, <3>4
  <2>3. CASE i = n + 1
    <3>1. g[i] = last /\ g[i - 1] = f[n] /\ i # 0
      BY <2>3
    <3> QED BY <2>3, <3>1, <1>1
  <2> QED BY <2>1, <2>2, <2>3
<1>5. RunOf(g, d, calls, n + 1, more)
  <2> DEFINE h == [i \in 0..n + 1 |-> IF i = 0 THEN State(d, <<>>)
                      ELSE Atomic!Step(g[i - 1], calls[i], i \in more)]
  <2>1. g = h
    BY <1>4
  <2> QED BY <2>1 DEF RunOf
<1>6. g[n + 1] = last
  OBVIOUS
<1> HIDE DEF g
<1> QED BY <1>1, <1>5, <1>6

(* OrmAtomic has its database from OrmData, too. *)
LEMMA SameRefused ==
  ASSUME NEW v, NEW st  PROVE  Atomic!Refused(v, st) <=> Refused(v, st)
BY DEF Atomic!Refused, Refused

LEMMA SameEffect ==
  ASSUME NEW v, NEW st  PROVE  Atomic!Effect(v, st) = Effect(v, st)
BY DEF Atomic!Effect, Effect, Atomic!Only, Only

LEMMA SameResult ==
  ASSUME NEW v, NEW st  PROVE  Atomic!Result(v, st) = Result(v, st)
<1>1. \A S : Atomic!Cardinality(S) = Cardinality(S)
  BY DEF Atomic!Cardinality, Cardinality
<1> QED
  BY <1>1 DEF Atomic!Result, Result, Atomic!First, First, Atomic!Only, Only

LEMMA RanNothing ==
  ASSUME NEW d, NEW calls
  PROVE  Ran(d, calls, d, <<>>)
<1> DEFINE f == [i \in 0..0 |-> State(d, <<>>)]
<1>1. RunOf(f, d, calls, 0, {}) /\ f[0] = State(d, <<>>)
  BY DEF RunOf
<1> HIDE DEF f
<1>2. {} \in SUBSET (1..Len(<<>>)) /\ Len(<<>>) = 0
  BY EmptySeq
<1> QED BY <1>1, <1>2 DEF Ran

LEMMA RanFails ==
  ASSUME NEW d, NEW calls, NEW v, NEW rs \in Seq(Answers), Ran(d, calls, v, rs),
         NEW st, st = calls[Len(rs) + 1],
         NEW r \in Answers, r = IF st.op = "has" THEN 0 ELSE Failed
  PROVE  Ran(d, calls, v, Append(rs, r))
<1>1. PICK reported, f :
        /\ reported \in SUBSET (1..Len(rs))
        /\ RunOf(f, d, calls, Len(rs), reported) /\ f[Len(rs)] = State(v, rs)
  BY DEF Ran
<1>2. Len(rs) \in Nat /\ Len(Append(rs, r)) = Len(rs) + 1
  BY LenProperties, AppendProperties
<1> DEFINE n == Len(rs)
<1> HIDE DEF n
<1>n. n \in Nat /\ reported \in SUBSET (1..n) /\ RunOf(f, d, calls, n, reported)
  BY <1>1, <1>2 DEF n
<1>b. \A failed \in BOOLEAN : \E more \in SUBSET (1..n + 1) : \E g :
        /\ RunOf(g, d, calls, n + 1, more)
        /\ g[n + 1] = Atomic!Step(f[n], calls[n + 1], failed)
  BY ONLY <1>n, RunGrows
<1>3. PICK more, g :
        /\ more \in SUBSET (1..n + 1)
        /\ RunOf(g, d, calls, n + 1, more)
        /\ g[n + 1] = Atomic!Step(f[n], calls[n + 1], TRUE)
  BY ONLY <1>b, Zenon
<1>4. Atomic!Step(State(v, rs), st, TRUE) = State(v, Append(rs, r))
  BY DEF Atomic!Step, Atomic!Unanswered, State
<1> QED BY <1>1, <1>2, <1>3, <1>4 DEF Ran, n

LEMMA RanAnswers ==
  ASSUME NEW d, NEW calls, NEW v, NEW rs \in Seq(Answers), Ran(d, calls, v, rs),
         NEW st, st = calls[Len(rs) + 1], ~Refused(v, st),
         NEW r \in Answers, r = Result(v, st)
  PROVE  Ran(d, calls, Effect(v, st), Append(rs, r))
<1>1. PICK reported, f :
        /\ reported \in SUBSET (1..Len(rs))
        /\ RunOf(f, d, calls, Len(rs), reported) /\ f[Len(rs)] = State(v, rs)
  BY DEF Ran
<1>2. Len(rs) \in Nat /\ Len(Append(rs, r)) = Len(rs) + 1
  BY LenProperties, AppendProperties
<1> DEFINE n == Len(rs)
<1> HIDE DEF n
<1>n. n \in Nat /\ reported \in SUBSET (1..n) /\ RunOf(f, d, calls, n, reported)
  BY <1>1, <1>2 DEF n
<1>b. \A failed \in BOOLEAN : \E more \in SUBSET (1..n + 1) : \E g :
        /\ RunOf(g, d, calls, n + 1, more)
        /\ g[n + 1] = Atomic!Step(f[n], calls[n + 1], failed)
  BY ONLY <1>n, RunGrows
<1>3. PICK more, g :
        /\ more \in SUBSET (1..n + 1)
        /\ RunOf(g, d, calls, n + 1, more)
        /\ g[n + 1] = Atomic!Step(f[n], calls[n + 1], FALSE)
  BY ONLY <1>b, Zenon
<1>4. Atomic!Step(State(v, rs), st, FALSE) = State(Effect(v, st), Append(rs, r))
  <2>1. /\ Atomic!Refused(v, st) <=> Refused(v, st)
        /\ Atomic!Effect(v, st) = Effect(v, st)
        /\ Atomic!Result(v, st) = Result(v, st)
    BY SameRefused, SameEffect, SameResult
  <2>2. Atomic!Step(State(v, rs), st, FALSE) =
          [State(v, rs) EXCEPT !.db = Effect(v, st), !.results = Append(@, r)]
    BY <2>1 DEF Atomic!Step, State
  <2> QED BY <2>2 DEF State
<1> QED BY <1>1, <1>2, <1>3, <1>4 DEF Ran, n

-----------------------------------------------------------------------------
(* Statements.                                                             *)

LEMMA StatementType ==
  ASSUME NEW st \in Statements
  PROVE  /\ st.op \in {"insert", "update", "delete", "find", "count", "has",
                        "create", "drop"}
         /\ st.table \in Tables
         /\ st.op = "insert" => st.id \in Ids
         /\ st.op \in {"insert", "update"} => st.val \in Vals
         /\ HasCondition(st) => st.where \in SUBSET Ids
         /\ st.op = "find" => st.limit \in BOOLEAN
BY DEF Statements, HasCondition

LEMMA SameStatement ==
  ASSUME NEW st \in Statements
  PROVE  /\ [st EXCEPT !.table = st.table] = st
         /\ HasCondition(st) => [st EXCEPT !.table = st.table, !.where = st.where] = st
         /\ st.op = "find" => [st EXCEPT !.where = st.where, !.limit = st.limit] = st
BY DEF Statements, HasCondition

LEMMA RowsType ==
  ASSUME NEW r  PROVE  r \in Rows <=> DOMAIN r \in SUBSET Ids /\ r \in [DOMAIN r -> Vals]
BY DEF Rows

LEMMA OnlyType ==
  ASSUME NEW r \in Rows, NEW I
  PROVE  Only(r, I) \in Rows
<1>1. DOMAIN Only(r, I) = DOMAIN r \cap I
  BY DEF Only
<1> QED BY <1>1, RowsType DEF Only

LEMMA EmptyTable == <<>> \in Rows
<1>1. <<>> \in [1..0 -> Vals] /\ 1..0 = {}
  BY EmptySeq, LenProperties
<1> QED BY <1>1 DEF Rows

LEMMA EffectType ==
  ASSUME NEW d \in Databases, NEW st \in Statements, ~Refused(d, st)
  PROVE  Effect(d, st) \in Databases
<1> DEFINE r == d[st.table]
<1>1. st.table \in Tables /\ r \in Rows \cup {Missing}
  BY StatementType DEF Databases
<1>2. ASSUME NEW new \in Rows \cup {Missing}
      PROVE  [d EXCEPT ![st.table] = new] \in Databases
  BY <1>1 DEF Databases
<1>3. CASE st.op = "insert"
  <2> DEFINE new == [i \in DOMAIN r \cup {st.id} |-> IF i = st.id THEN st.val ELSE r[i]]
  <2>1. r \in Rows /\ st.id \in Ids /\ st.val \in Vals
    BY <1>1, <1>3, StatementType DEF Refused
  <2>2. DOMAIN new = DOMAIN r \cup {st.id}
    OBVIOUS
  <2>3. new \in Rows
    BY <2>1, <2>2, RowsType
  <2>4. Effect(d, st) = [d EXCEPT ![st.table] = new]
    BY <1>3 DEF Effect
  <2> QED BY <1>2, <2>3, <2>4
<1>4. CASE st.op = "update"
  <2> DEFINE new == [i \in DOMAIN r |-> IF i \in st.where THEN st.val ELSE r[i]]
  <2>1. r \in Rows /\ st.val \in Vals
    BY <1>1, <1>4, StatementType DEF Refused
  <2>2. DOMAIN new = DOMAIN r
    OBVIOUS
  <2>3. new \in Rows
    BY <2>1, <2>2, RowsType
  <2>4. Effect(d, st) = [d EXCEPT ![st.table] = new]
    BY <1>4 DEF Effect
  <2> QED BY <1>2, <2>3, <2>4
<1>5. CASE st.op = "delete"
  <2>1. r \in Rows
    BY <1>1, <1>5 DEF Refused
  <2>2. Effect(d, st) = [d EXCEPT ![st.table] = Only(r, Ids \ st.where)]
    BY <1>5 DEF Effect
  <2> QED BY <1>2, <2>1, <2>2, OnlyType
<1>6. CASE st.op = "create"
  BY <1>2, <1>6, EmptyTable DEF Effect
<1>7. CASE st.op = "drop"
  BY <1>2, <1>7 DEF Effect
<1>8. CASE st.op \in {"find", "count", "has"}
  BY <1>8 DEF Effect
<1> QED BY <1>3, <1>4, <1>5, <1>6, <1>7, <1>8, StatementType

LEMMA ReadsKeep ==
  ASSUME NEW d, NEW st, ~IsWrite(st)
  PROVE  Effect(d, st) = d
BY DEF IsWrite, Effect

LEMMA SizeType ==
  ASSUME NEW r \in Rows, NEW I
  PROVE  Cardinality(DOMAIN r \cap I) \in Nat /\ Cardinality(DOMAIN r) \in Nat
<1>1. DOMAIN r \in SUBSET Ids /\ IsFiniteSet(Ids)
  BY RowsType, DataAssumption
<1>2. IsFiniteSet(DOMAIN r) /\ IsFiniteSet(DOMAIN r \cap I)
  BY <1>1, FS_Subset
<1> QED BY <1>2, FS_CardinalityType

LEMMA ResultType ==
  ASSUME NEW d \in Databases, NEW st \in Statements, ~Refused(d, st)
  PROVE  Result(d, st) \in Answers
<1> DEFINE r == d[st.table]
<1>1. st.table \in Tables /\ r \in Rows \cup {Missing}
  BY StatementType DEF Databases
<1>2. CASE st.op = "find"
  <2>1. r \in Rows
    BY <1>1, <1>2 DEF Refused
  <2>2. Only(r, st.where) \in Rows
    BY <2>1, OnlyType
  <2>3. First(Only(r, st.where)) \in Rows
    BY <2>2, OnlyType DEF First
  <2> QED BY <1>2, <2>2, <2>3 DEF Result, Answers
<1>3. CASE st.op \in {"count", "update", "delete"}
  <2>1. r \in Rows
    BY <1>1, <1>3 DEF Refused
  <2>2. Result(d, st) \in {Cardinality(DOMAIN r), Cardinality(DOMAIN r \cap st.where)}
    BY <1>3 DEF Result
  <2> QED BY <2>1, <2>2, SizeType DEF Answers
<1>4. CASE st.op \in {"has", "insert", "create", "drop"}
  BY <1>4 DEF Result, Answers
<1> QED BY <1>2, <1>3, <1>4, StatementType

-----------------------------------------------------------------------------
(* The invariant.                                                          *)

LEMMA CallType ==
  ASSUME Types, NEW s \in Sessions, Len(results[s]) < Len(script[s])
  PROVE  Call(s) \in Statements
<1>1. results[s] \in Seq(Answers) /\ script[s] \in Seq(Statements)
  BY DEF Types
<1>2. Len(results[s]) \in Nat /\ Len(script[s]) \in Nat
  BY <1>1, LenProperties
<1>3. Len(results[s]) + 1 \in 1..Len(script[s])
  BY <1>2
<1> QED BY <1>1, <1>3, ElementOfSeq DEF Call

LEMMA BuiltIsCall ==
  ASSUME SInv, NEW s \in Sessions, pc[s] = "exec"
  PROVE  Built(s) = Call(s) /\ Call(s) \in Statements
<1>1. ClauseInv(s) /\ Types
  BY DEF SInv, SessionInv
<1>2. Call(s) \in Statements
  BY <1>1, CallType DEF ClauseInv
<1> DEFINE st == Call(s)
<1> HIDE DEF st
<1>3. /\ HasCondition(st) => where[s] = st.where
      /\ st.op = "find" => limit[s] = st.limit
      /\ st.op \notin {"insert", "find"} => refTable[s] = st.table
  BY <1>1 DEF ClauseInv, st
<1>4. Built(s) = CASE st.op = "find" -> [st EXCEPT !.where = where[s], !.limit = limit[s]]
                   [] st.op \in {"update", "delete"} ->
                        [st EXCEPT !.table = refTable[s], !.where = where[s]]
                   [] OTHER -> [st EXCEPT !.table =
                                  IF st.op \in {"insert", "find"} THEN st.table
                                  ELSE refTable[s]]
  BY DEF Built, st
<1>5. CASE st.op = "find"
  BY <1>2, <1>3, <1>4, <1>5, SameStatement DEF st, HasCondition
<1>6. CASE st.op \in {"update", "delete"}
  BY <1>2, <1>3, <1>4, <1>6, SameStatement DEF st, HasCondition
<1>7. CASE st.op \notin {"find", "update", "delete"}
  <2>1. Built(s) = [st EXCEPT !.table = IF st.op = "insert" THEN st.table ELSE refTable[s]]
    BY <1>4, <1>7
  <2>2. (IF st.op = "insert" THEN st.table ELSE refTable[s]) = st.table
    BY <1>3, <1>7
  <2> QED BY <1>2, <2>1, <2>2, SameStatement DEF st
<1> QED BY <1>2, <1>5, <1>6, <1>7 DEF st

LEMMA ViewType ==
  ASSUME Types, NEW s \in Sessions
  PROVE  View(s) \in Databases
BY SessionsAssumption DEF Types, View

(* Nothing of t changes.                                                   *)
Kept(t) ==
  /\ pc'[t] = pc[t] /\ tx'[t] = tx[t] /\ refTable'[t] = refTable[t]
  /\ where'[t] = where[t] /\ limit'[t] = limit[t] /\ cursor'[t] = cursor[t]
  /\ script'[t] = script[t] /\ results'[t] = results[t]
  /\ fn'[t] = fn[t] /\ outcome'[t] = outcome[t]
  /\ t \in reading' <=> t \in reading
  /\ writer' = t <=> writer = t
  /\ t \in reading => db' = db /\ View(t)' = View(t)

LEMMA KeptStays ==
  ASSUME SInv, NEW t \in Sessions, Kept(t)
  PROVE  SessionInv(t)'
<1>1. SessionInv(t)
  BY DEF SInv
<1>2. Call(t)' = Call(t)
  BY DEF Kept, Call
<1>3. ClauseInv(t)'
  <2>1. pc[t] = "rows" => View(t)' = View(t)
    BY <1>1 DEF SessionInv, LockInv, Kept
  <2> QED BY <1>1, <1>2, <2>1 DEF SessionInv, ClauseInv, Kept
<1>4. LockInv(t)' /\ EndInv(t)'
  BY <1>1 DEF SessionInv, LockInv, EndInv, Kept
<1>5. TxInv(t)'
  BY <1>1 DEF SessionInv, TxInv, Kept
<1> QED BY <1>3, <1>4, <1>5 DEF SessionInv

LEMMA Joined ==
  ASSUME SInv, NEW s \in Sessions, Types', SessionInv(s)',
         \A t \in Sessions : t # s => Kept(t)
  PROVE  SInv'
<1>1. ASSUME NEW t \in Sessions PROVE SessionInv(t)'
  <2>1. CASE t = s
    BY <2>1
  <2>2. CASE t # s
    BY <2>2, KeptStays
  <2> QED BY <2>1, <2>2
<1> QED BY <1>1 DEF SInv

LEMMA InitHolds == Init => SInv
<1> SUFFICES ASSUME Init PROVE SInv
  OBVIOUS
<1> USE SessionsAssumption
<1>1. ASSUME NEW s \in Sessions
      PROVE  /\ results[s] = <<>> /\ script[s] \in Seq(Statements)
             /\ pc[s] = IF s \in Managed THEN "begin" ELSE "call"
             /\ where[s] = Ids /\ limit[s] = FALSE /\ cursor[s] = None
             /\ tx[s] = "none" /\ fn[s] = "none" /\ outcome[s] = "none"
             /\ s \notin reading /\ writer # s
  BY DEF Init, Sessions
<1>2. Types
  <2>1. db \in Databases /\ script \in [Sessions -> Seq(Statements)]
    BY <1>1 DEF Init
  <2>2. results \in [Sessions -> Seq(Answers)]
    <3>1. <<>> \in Seq(Answers)
      BY EmptySeq
    <3> QED BY <3>1 DEF Init
  <2> QED BY <2>1, <2>2 DEF Init, Types
<1>3. ASSUME NEW s \in Sessions PROVE SessionInv(s)
  <2>1. Len(results[s]) = 0 /\ Len(script[s]) \in Nat
    BY <1>1, EmptySeq, LenProperties
  <2>2. ClauseInv(s)
    <3>1. pc[s] \in {"begin", "call"}
      BY <1>1
    <3>2. Len(results[s]) <= Len(script[s])
      BY <2>1
    <3>3. where[s] = Ids /\ limit[s] = FALSE /\ cursor[s] = None
      BY <1>1
    <3> QED BY <3>1, <3>2, <3>3 DEF ClauseInv
  <2>3. LockInv(s)
    <3>1. s \in Managed => pc[s] = "begin" /\ tx[s] = "none"
      BY <1>1
    <3>2. s \in Plain => pc[s] = "call" /\ tx[s] = "none"
      BY <1>1
    <3> QED BY <1>1, <3>1, <3>2 DEF LockInv, Sessions
  <2>4. EndInv(s)
    BY <1>1 DEF EndInv
  <2>5. TxInv(s)
    BY <1>1, RanNothing DEF TxInv
  <2> QED BY <2>2, <2>3, <2>4, <2>5 DEF SessionInv
<1> QED BY <1>2, <1>3 DEF SInv

LEMMA BeginKeeps ==
  ASSUME SInv, NEW s \in Sessions, Begin(s)
  PROVE  SInv'
<1> USE DEF Begin
<1>1. Types /\ SessionInv(s)
  BY DEF SInv
<1>2. Types'
  BY <1>1 DEF Types, locks, clauses
<1>3. ASSUME NEW t \in Sessions, t # s PROVE Kept(t)
  BY <1>1, <1>3 DEF Types, Kept, View, InTx, locks, clauses
<1>4. s \in Managed /\ s \notin reading
  BY <1>1 DEF SessionInv, LockInv, Types, Sessions
<1>5. Call(s)' = Call(s)
  BY DEF Call
<1>6. ClauseInv(s)'
  BY <1>1 DEF Types, SessionInv, ClauseInv, clauses
<1>7. LockInv(s)'
  BY <1>1, <1>4, SessionsAssumption DEF Types, SessionInv, LockInv, locks
<1>8. EndInv(s)'
  BY <1>1 DEF Types, SessionInv, EndInv
<1>9. TxInv(s)'
  BY <1>1, <1>4 DEF Types, SessionInv, TxInv, locks
<1> QED BY <1>2, <1>3, <1>6, <1>7, <1>8, <1>9, Joined DEF SessionInv

LEMMA ChainKeeps ==
  ASSUME SInv, NEW s \in Sessions, Chain(s)
  PROVE  SInv'
<1>1. Types /\ SessionInv(s)
  BY DEF SInv
<1> DEFINE st == Call(s)
<1>2. pc[s] = "call" /\ Len(results[s]) < Len(script[s]) /\ st \in Statements
  BY <1>1, CallType DEF Chain, Ready
<1> HIDE DEF st
<1>3. /\ refTable' \in {[refTable EXCEPT ![s] = st.table], refTable}
      /\ st.op \notin {"insert", "find"} => refTable' = [refTable EXCEPT ![s] = st.table]
      /\ where' = IF HasCondition(st) /\ st.where # Ids
                  THEN [where EXCEPT ![s] = st.where] ELSE where
      /\ limit' = IF st.op = "find" /\ st.limit
                  THEN [limit EXCEPT ![s] = TRUE] ELSE limit
      /\ pc' \in {[pc EXCEPT ![s] = "exec"], [pc EXCEPT ![s] = "hook"]}
      /\ UNCHANGED <<db, pending, writer, reading, leaked, tx, cursor, script,
                     results, fn, outcome>>
  BY DEF Chain, st, locks, ends
<1>4. Types'
  <2>1. st.table \in Tables /\ (HasCondition(st) => st.where \in SUBSET Ids)
    BY <1>2, StatementType
  <2>2. /\ refTable' \in [Sessions -> Tables \cup {None}]
        /\ where' \in [Sessions -> SUBSET Ids]
        /\ limit' \in [Sessions -> BOOLEAN]
    BY <1>1, <1>3, <2>1 DEF Types
  <2>3. pc' \in [Sessions -> {"begin", "call", "hook", "exec", "rows", "end", "returned"}]
    BY <1>1, <1>3 DEF Types
  <2> QED BY <1>1, <1>3, <2>2, <2>3 DEF Types
<1>5. ASSUME NEW t \in Sessions, t # s PROVE Kept(t)
  BY <1>1, <1>3, <1>5 DEF Types, Kept, View, InTx
<1>6. pc'[s] \in {"hook", "exec"}
  BY <1>1, <1>3 DEF Types
<1>7. Call(s)' = st
  BY <1>3 DEF Call, st
<1>8. ClauseInv(s)'
  <2>1. where[s] = Ids /\ limit[s] = FALSE /\ cursor[s] = None
    BY <1>1, <1>2 DEF SessionInv, ClauseInv
  <2>2. HasCondition(st) => where'[s] = st.where
    BY <1>1, <1>3, <2>1 DEF Types
  <2>3. st.op = "find" => limit'[s] = st.limit
    BY <1>1, <1>2, <1>3, <2>1, StatementType DEF Types
  <2>4. st.op \notin {"insert", "find"} => refTable'[s] = st.table
    BY <1>1, <1>3 DEF Types
  <2>5. Len(results[s]) <= Len(script[s])
    BY <1>1 DEF SessionInv, ClauseInv
  <2> QED BY <1>2, <1>3, <1>6, <1>7, <2>1, <2>2, <2>3, <2>4, <2>5 DEF ClauseInv
<1>9. LockInv(s)' /\ EndInv(s)' /\ TxInv(s)'
  <2>1. View(s)' = View(s)
    BY <1>3 DEF View, InTx
  <2> QED BY <1>1, <1>2, <1>3, <1>6, <2>1
          DEF SessionInv, LockInv, EndInv, TxInv
<1> QED BY <1>4, <1>5, <1>8, <1>9, Joined DEF SessionInv

LEMMA CallHookKeeps ==
  ASSUME SInv, NEW s \in Sessions, CallHook(s)
  PROVE  SInv'
<1>1. Types /\ SessionInv(s)
  BY DEF SInv
<1>2. pc[s] = "hook" /\ UNCHANGED <<db, pending, writer, leaked, tx, refTable, cursor,
                                    script, results, outcome>>
  BY DEF CallHook
<1>3. /\ fn' \in {fn, [fn EXCEPT ![s] = "panic"]}
      /\ pc' \in {[pc EXCEPT ![s] = "exec"], [pc EXCEPT ![s] = "end"]}
      /\ \/ reading' = reading
         \/ InTx(s) /\ reading' = reading \cup {s}
      /\ \/ UNCHANGED <<where, limit>>
         \/ /\ Call(s).op = "insert"
            /\ where' = [where EXCEPT ![s] = Ids]
            /\ limit' = [limit EXCEPT ![s] = FALSE]
  BY <1>1, HookAssumption DEF CallHook, Clear, clauses, Types
<1>4. pc'[s] \in {"exec", "end"}
  BY <1>1, <1>3 DEF Types
<1>5. Types'
  <2>1. /\ where' \in [Sessions -> SUBSET Ids]
        /\ limit' \in [Sessions -> BOOLEAN]
    BY <1>1, <1>3 DEF Types
  <2>2. pc' \in [Sessions -> {"begin", "call", "hook", "exec", "rows", "end", "returned"}]
    BY <1>1, <1>3 DEF Types
  <2>3. reading' \subseteq Sessions /\ fn' \in [Sessions -> {"none", "nil", "error", "panic"}]
    BY <1>1, <1>3 DEF Types
  <2> QED BY <1>1, <1>2, <2>1, <2>2, <2>3 DEF Types
<1>6. ASSUME NEW t \in Sessions, t # s PROVE Kept(t)
  <2>1. where'[t] = where[t] /\ limit'[t] = limit[t] /\ pc'[t] = pc[t] /\ fn'[t] = fn[t]
    BY <1>1, <1>3, <1>6 DEF Types
  <2>2. t \in reading' <=> t \in reading
    BY <1>3, <1>6
  <2> QED BY <1>2, <2>1, <2>2 DEF Kept, View, InTx
<1>7. Call(s)' = Call(s) /\ View(s)' = View(s)
  BY <1>2 DEF Call, View, InTx
<1>8. ClauseInv(s)'
  <2>1. HasCondition(Call(s)) => where'[s] = where[s]
    BY <1>3 DEF HasCondition
  <2>2. Call(s).op = "find" => limit'[s] = limit[s]
    BY <1>3
  <2>3. /\ Len(results[s]) < Len(script[s])
        /\ HasCondition(Call(s)) => where'[s] = Call(s).where
        /\ Call(s).op = "find" => limit'[s] = Call(s).limit
        /\ Call(s).op \notin {"insert", "find"} => refTable[s] = Call(s).table
    BY <1>1, <1>2, <2>1, <2>2 DEF SessionInv, ClauseInv
  <2>4. Len(results[s]) <= Len(script[s]) /\ cursor[s] = None
    BY <1>1, <1>2 DEF SessionInv, ClauseInv
  <2> QED BY <1>2, <1>4, <1>7, <2>3, <2>4 DEF ClauseInv
<1>9. LockInv(s)'
  <2>1. s \in reading' /\ s \notin reading => InTx(s)
    BY <1>3
  <2>2. s \in reading => s \in reading'
    BY <1>3
  <2> QED BY <1>1, <1>2, <1>4, <2>1, <2>2 DEF SessionInv, LockInv, InTx, Sessions
<1>10. EndInv(s)'
  BY <1>1, <1>2, <1>3, <1>4 DEF SessionInv, EndInv, Types
<1>11. TxInv(s)'
  <2>1. s \in Managed /\ s \notin reading => View(s) = db
    BY <1>1 DEF SessionInv, LockInv, View
  <2>2. s \in Managed => Ran(db, script[s], View(s), results[s])
    BY <1>1, <1>2, <2>1 DEF SessionInv, TxInv, Types
  <2>3. s \notin reading' => s \notin reading
    BY <1>3
  <2> QED BY <1>1, <1>2, <1>7, <2>2, <2>3 DEF SessionInv, TxInv
<1> QED BY <1>5, <1>6, <1>8, <1>9, <1>10, <1>11, Joined DEF SessionInv

(* Before a statement a transaction has run its calls on what is committed.*)
LEMMA RanSoFar ==
  ASSUME SInv, NEW s \in Managed, pc[s] # "returned"
  PROVE  Ran(db, script[s], View(s), results[s])
<1>1. Types /\ SessionInv(s) /\ s \in Sessions
  BY DEF SInv, Sessions
<1>2. s \notin reading => View(s) = db
  BY <1>1 DEF SessionInv, LockInv, View
<1> QED BY <1>1, <1>2 DEF SessionInv, TxInv, Types

(* What an answer to the call of s leaves of the invariant to show.        *)
LEMMA Answered ==
  ASSUME SInv, NEW s \in Sessions, NEW r \in Answers, Answer(s, r),
         Len(results[s]) < Len(script[s]), script' = script
  PROVE  /\ results' \in [Sessions -> Seq(Answers)]
         /\ results'[s] = Append(results[s], r)
         /\ \A t \in Sessions : t # s => results'[t] = results[t]
         /\ Len(results'[s]) <= Len(script'[s])
<1>1. results \in [Sessions -> Seq(Answers)] /\ script \in [Sessions -> Seq(Statements)]
  BY DEF SInv, Types
<1>2. results'[s] = Append(results[s], r)
  BY <1>1 DEF Answer
<1>3. /\ Append(results[s], r) \in Seq(Answers)
      /\ Len(Append(results[s], r)) = Len(results[s]) + 1
  BY <1>1, AppendProperties
<1>4. Len(results[s]) \in Nat /\ Len(script[s]) \in Nat
  BY <1>1, LenProperties
<1>5. results' \in [Sessions -> Seq(Answers)]
  BY <1>1, <1>3 DEF Answer
<1>6. \A t \in Sessions : t # s => results'[t] = results[t]
  BY <1>1 DEF Answer
<1>7. Len(results'[s]) <= Len(script'[s])
  BY <1>2, <1>3, <1>4
<1> QED BY <1>2, <1>5, <1>6, <1>7

(* The locks of a statement.                                               *)
LEMMA WriteLocks ==
  ASSUME SInv, NEW s \in Sessions, NEW st \in Statements, pc[s] = "exec",
         ~Refused(View(s), st), Write(s, st), tx' = tx
  PROVE  /\ db' \in Databases
         /\ writer' \in {None} \cup Managed
         /\ IF writer' = None THEN pending' = None ELSE pending' \in Databases
         /\ reading' \in {reading, reading \cup {s}}
         /\ s \in Managed => s \in reading' /\ db' = db
         /\ s \in Plain => s \notin reading'
         /\ View(s)' = Effect(View(s), st)
         /\ writer' = s => s \in reading'
         /\ \A t \in Sessions : t # s =>
              /\ t \in reading' <=> t \in reading
              /\ writer' = t <=> writer = t
              /\ t \in reading => db' = db /\ View(t)' = View(t)
<1>1. Types /\ LockInv(s) /\ View(s) \in Databases
  BY ViewType DEF SInv, SessionInv
<1>2. Effect(View(s), st) \in Databases
  BY <1>1, EffectType
<1>3. s \in Managed <=> InTx(s)
  BY <1>1, SessionsAssumption DEF LockInv, InTx, Sessions
<1>4. s # None /\ (s \in Managed <=> s \notin Plain)
  BY SessionsAssumption DEF Sessions
<1>5. CASE InTx(s)
  <2>1. /\ writer \in {None, s} /\ writer' = s /\ reading' = reading \cup {s} /\ db' = db
        /\ pending' = Effect(View(s), st)
    BY <1>5 DEF Write
  <2>2. View(s)' = pending'
    BY <1>5, <2>1 DEF View, InTx
  <2>3. \A t \in Sessions : t # s => View(t)' = View(t) /\ writer # t /\ t # None
    BY <2>1, SessionsAssumption DEF View, InTx
  <2> QED BY <1>1, <1>2, <1>3, <1>4, <1>5, <2>1, <2>2, <2>3 DEF Types
<1>6. CASE ~InTx(s)
  <2>1. /\ writer = None /\ reading = {} /\ db' = Effect(db, st)
        /\ UNCHANGED <<writer, pending, reading>>
    BY <1>6 DEF Write
  <2>2. View(s) = db /\ View(s)' = db'
    BY <1>4, <1>6, <2>1 DEF View, InTx
  <2> QED BY <1>1, <1>2, <1>3, <1>4, <1>6, <2>1, <2>2 DEF Types
<1> QED BY <1>5, <1>6

LEMMA ReadLocks ==
  ASSUME SInv, NEW s \in Sessions, NEW st \in Statements, pc[s] = "exec",
         Read(s, st), tx' = tx, ~IsWrite(st)
  PROVE  /\ db' = db /\ pending' = pending /\ writer' = writer
         /\ reading' \in {reading, reading \cup {s}}
         /\ s \in Managed \/ st.op = "find" => s \in reading'
         /\ s \in Plain /\ st.op # "find" => s \notin reading'
         /\ writer' = s => s \in reading'
         /\ View(s)' = Effect(View(s), st)
         /\ \A t \in Sessions : t # s =>
              /\ t \in reading' <=> t \in reading
              /\ View(t)' = View(t)
<1>1. LockInv(s)
  BY DEF SInv, SessionInv
<1>2. s \in Managed <=> InTx(s)
  BY <1>1, SessionsAssumption DEF LockInv, InTx, Sessions
<1>3. s \in Plain => s \notin reading /\ ~InTx(s)
  BY <1>1 DEF LockInv, InTx
<1>4. UNCHANGED <<db, pending, writer>>
  BY DEF Read
<1>5. \A t \in Sessions : View(t)' = View(t)
  BY <1>4 DEF View, InTx
<1> QED BY <1>1, <1>2, <1>3, <1>4, <1>5, ReadsKeep DEF Read, LockInv

(* SetModel and Clear, at the end of a statement.                          *)
LEMMA Cleared ==
  ASSUME Types, NEW s \in Sessions, Call(s) \in Statements, SetModel(s), Clear(s)
  PROVE  /\ refTable' \in [Sessions -> Tables \cup {None}]
         /\ where' \in [Sessions -> SUBSET Ids] /\ where'[s] = Ids
         /\ limit' \in [Sessions -> BOOLEAN] /\ limit'[s] = FALSE
         /\ \A t \in Sessions : t # s =>
              refTable'[t] = refTable[t] /\ where'[t] = where[t] /\ limit'[t] = limit[t]
<1>1. Call(s).table \in Tables
  BY StatementType
<1>2. refTable' \in [Sessions -> Tables \cup {None}]
  BY <1>1 DEF Types, SetModel
<1> QED BY <1>2 DEF Types, SetModel, Clear

LEMMA ExecKeeps ==
  ASSUME SInv, NEW s \in Sessions, Exec(s)
  PROVE  SInv'
<1> DEFINE st == Call(s)
<1>1. Types /\ SessionInv(s) /\ View(s) \in Databases
  BY ViewType DEF SInv
<1>2. pc[s] = "exec" /\ st \in Statements /\ Built(s) = st /\ Len(results[s]) < Len(script[s])
  BY <1>1, BuiltIsCall DEF Exec, SessionInv, ClauseInv
<1> HIDE DEF st
<1>3. /\ ~Refused(View(s), st)
      /\ IF IsWrite(st) THEN Write(s, st) ELSE Read(s, st)
      /\ SetModel(s) /\ Clear(s)
      /\ UNCHANGED <<leaked, tx, script, fn, outcome>>
      /\ \/ /\ st.op = "find" /\ UNCHANGED results
            /\ cursor' = [cursor EXCEPT ![s] = st]
            /\ pc' = [pc EXCEPT ![s] = "rows"]
         \/ /\ st.op # "find" /\ Answer(s, Result(View(s), st))
            /\ pc' = [pc EXCEPT ![s] = "call"]
            /\ UNCHANGED cursor
  BY <1>2 DEF Exec, ends
<1>4. /\ db' \in Databases
      /\ writer' \in {None} \cup Managed
      /\ IF writer' = None THEN pending' = None ELSE pending' \in Databases
      /\ reading' \subseteq Sessions
      /\ s \in Managed => s \in reading' /\ db' = db
      /\ st.op = "find" => s \in reading'
      /\ s \in Plain /\ st.op # "find" => s \notin reading'
      /\ View(s)' = Effect(View(s), st)
      /\ writer' = s => s \in reading'
      /\ \A t \in Sessions : t # s =>
           /\ t \in reading' <=> t \in reading
           /\ writer' = t <=> writer = t
           /\ t \in reading => db' = db /\ View(t)' = View(t)
  <2>1. CASE IsWrite(st)
    <3>1. st.op # "find"
      BY <2>1 DEF IsWrite
    <3>2. Write(s, st) /\ tx' = tx
      BY <1>3, <2>1
    <3>3. /\ db' \in Databases
          /\ writer' \in {None} \cup Managed
          /\ IF writer' = None THEN pending' = None ELSE pending' \in Databases
          /\ reading' \in {reading, reading \cup {s}}
          /\ s \in Managed => s \in reading' /\ db' = db
          /\ s \in Plain => s \notin reading'
          /\ View(s)' = Effect(View(s), st)
          /\ writer' = s => s \in reading'
          /\ \A t \in Sessions : t # s =>
               /\ t \in reading' <=> t \in reading
               /\ writer' = t <=> writer = t
               /\ t \in reading => db' = db /\ View(t)' = View(t)
      BY <1>2, <1>3, <3>2, WriteLocks
    <3>4. reading' \subseteq Sessions
      BY <1>1, <3>3 DEF Types
    <3> QED BY <3>1, <3>3, <3>4
  <2>2. CASE ~IsWrite(st)
    <3>1. Read(s, st) /\ tx' = tx
      BY <1>3, <2>2
    <3>2. /\ db' = db /\ pending' = pending /\ writer' = writer
          /\ reading' \in {reading, reading \cup {s}}
          /\ s \in Managed \/ st.op = "find" => s \in reading'
          /\ s \in Plain /\ st.op # "find" => s \notin reading'
          /\ writer' = s => s \in reading'
          /\ View(s)' = Effect(View(s), st)
          /\ \A t \in Sessions : t # s =>
               /\ t \in reading' <=> t \in reading
               /\ View(t)' = View(t)
      BY <1>2, <2>2, <3>1, ReadLocks
    <3>3. /\ db' \in Databases /\ writer' \in {None} \cup Managed
          /\ IF writer' = None THEN pending' = None ELSE pending' \in Databases
          /\ reading' \subseteq Sessions
      BY <1>1, <3>2 DEF Types
    <3> QED BY <3>2, <3>3
  <2> QED BY <2>1, <2>2
<1>5. /\ refTable' \in [Sessions -> Tables \cup {None}]
      /\ where' \in [Sessions -> SUBSET Ids] /\ where'[s] = Ids
      /\ limit' \in [Sessions -> BOOLEAN] /\ limit'[s] = FALSE
      /\ \A t \in Sessions : t # s =>
           refTable'[t] = refTable[t] /\ where'[t] = where[t] /\ limit'[t] = limit[t]
  BY <1>1, <1>2, <1>3, Cleared DEF st
<1>6. /\ cursor' \in [Sessions -> Statements \cup {None}]
      /\ pc' \in [Sessions -> {"begin", "call", "hook", "exec", "rows", "end", "returned"}]
      /\ \A t \in Sessions : t # s => cursor'[t] = cursor[t] /\ pc'[t] = pc[t]
      /\ st.op = "find" => pc'[s] = "rows" /\ cursor'[s] = st
      /\ st.op # "find" => pc'[s] = "call" /\ cursor'[s] = None
  BY <1>1, <1>2, <1>3 DEF Types, SessionInv, ClauseInv
<1>7. /\ results' \in [Sessions -> Seq(Answers)]
      /\ \A t \in Sessions : t # s => results'[t] = results[t]
      /\ Len(results'[s]) <= Len(script'[s])
      /\ st.op = "find" => results'[s] = results[s]
      /\ st.op # "find" => results'[s] = Append(results[s], Result(View(s), st))
  <2>1. CASE st.op = "find"
    BY <1>1, <1>3, <2>1 DEF Types, SessionInv, ClauseInv
  <2>2. CASE st.op # "find"
    BY <1>1, <1>2, <1>3, <2>2, ResultType, Answered
  <2> QED BY <2>1, <2>2
<1>8. Types'
  BY <1>1, <1>3, <1>4, <1>5, <1>6, <1>7 DEF Types
<1>9. ASSUME NEW t \in Sessions, t # s PROVE Kept(t)
  BY <1>3, <1>4, <1>5, <1>6, <1>7, <1>9 DEF Kept
<1>10. ClauseInv(s)'
  <2>1. CASE st.op = "find"
    <3>1. Call(s)' = st
      BY <1>3, <2>1 DEF Call, st
    <3>2. View(s)' = View(s) /\ ~Refused(View(s)', st)
      BY <1>3, <1>4, <2>1, ReadsKeep DEF IsWrite
    <3>3. pc'[s] = "rows" /\ cursor'[s] = st
      BY <1>6, <2>1
    <3>4. Len(results'[s]) < Len(script'[s])
      BY <1>2, <1>3, <2>1
    <3> QED BY <1>5, <1>7, <2>1, <3>1, <3>2, <3>3, <3>4 DEF ClauseInv
  <2>2. CASE st.op # "find"
    BY <1>5, <1>6, <1>7, <2>2 DEF ClauseInv
  <2> QED BY <2>1, <2>2
<1>11. LockInv(s)'
  BY <1>1, <1>2, <1>3, <1>4, <1>6 DEF SessionInv, LockInv
<1>12. EndInv(s)'
  BY <1>1, <1>2, <1>3, <1>6 DEF SessionInv, EndInv
<1>13. TxInv(s)'
  <2> SUFFICES ASSUME s \in Managed
               PROVE  Ran(db', script'[s], View(s)', results'[s])
    BY <1>4 DEF TxInv
  <2>1. Ran(db, script[s], View(s), results[s])
    BY <1>2, RanSoFar
  <2>2. CASE st.op = "find"
    BY <1>3, <1>4, <1>7, <2>1, <2>2, ReadsKeep DEF IsWrite
  <2>3. CASE st.op # "find"
    <3>1. Result(View(s), st) \in Answers /\ results[s] \in Seq(Answers)
      BY <1>1, <1>2, <1>3, ResultType DEF Types
    <3>2. Ran(db, script[s], Effect(View(s), st), Append(results[s], Result(View(s), st)))
      BY <1>3, <2>1, <3>1, RanAnswers DEF st, Call
    <3> QED BY <1>3, <1>4, <1>7, <2>3, <3>2
  <2> QED BY <2>2, <2>3
<1> QED BY <1>8, <1>9, <1>10, <1>11, <1>12, <1>13, Joined DEF SessionInv

LEMMA ExecFailsKeeps ==
  ASSUME SInv, NEW s \in Sessions, ExecFails(s)
  PROVE  SInv'
<1> DEFINE st == Call(s)
           r == IF st.op = "has" THEN 0 ELSE Failed
<1>1. Types /\ SessionInv(s) /\ View(s) \in Databases
  BY ViewType DEF SInv
<1>2. pc[s] = "exec" /\ st \in Statements /\ Len(results[s]) < Len(script[s])
  BY <1>1, BuiltIsCall DEF ExecFails, SessionInv, ClauseInv
<1> HIDE DEF st
<1>3. /\ \/ UNCHANGED <<writer, pending, reading>>
         \/ /\ InTx(s) /\ writer \in {None, s}
            /\ writer' = s /\ pending' = View(s) /\ reading' = reading \cup {s}
      /\ Answer(s, r) /\ SetModel(s) /\ Clear(s)
      /\ pc' = [pc EXCEPT ![s] = "call"]
      /\ UNCHANGED <<db, leaked, tx, cursor, script, fn, outcome>>
  BY DEF ExecFails, ends, st
<1>4. /\ s \in Managed <=> InTx(s)
      /\ None \notin Sessions
  <2>1. None \notin Sessions /\ (s \in Managed \/ s \in Plain)
    BY SessionsAssumption DEF Sessions
  <2>2. s \in Managed => InTx(s)
    BY <1>1, <1>2 DEF SessionInv, LockInv, InTx
  <2>3. s \in Plain => ~InTx(s) /\ s \notin Managed
    BY <1>1, SessionsAssumption DEF SessionInv, LockInv, InTx
  <2> QED BY <2>1, <2>2, <2>3
<1>5. /\ writer' \in {None} \cup Managed
      /\ IF writer' = None THEN pending' = None ELSE pending' \in Databases
      /\ reading' \subseteq Sessions
      /\ s \in reading => s \in reading'
      /\ s \in reading' => s \in reading \/ s \in Managed
      /\ writer' = s => s \in reading'
      /\ View(s)' = View(s)
      /\ \A t \in Sessions : t # s =>
           /\ t \in reading' <=> t \in reading
           /\ writer' = t <=> writer = t
           /\ View(t)' = View(t)
  <2>1. CASE UNCHANGED <<writer, pending, reading>>
    BY <1>1, <1>3, <2>1 DEF Types, SessionInv, LockInv, View, InTx
  <2>2. CASE /\ InTx(s) /\ writer \in {None, s}
             /\ writer' = s /\ pending' = View(s) /\ reading' = reading \cup {s}
    <3>1. View(s)' = View(s)
      BY <1>3, <2>2 DEF View, InTx
    <3>2. ASSUME NEW t \in Sessions, t # s PROVE View(t)' = View(t) /\ writer # t
      BY <1>3, <1>4, <2>2, <3>2 DEF View, InTx
    <3> QED BY <1>1, <1>4, <2>2, <3>1, <3>2 DEF Types
  <2> QED BY <1>3, <2>1, <2>2
<1>6. /\ refTable' \in [Sessions -> Tables \cup {None}]
      /\ where' \in [Sessions -> SUBSET Ids] /\ where'[s] = Ids
      /\ limit' \in [Sessions -> BOOLEAN] /\ limit'[s] = FALSE
      /\ \A t \in Sessions : t # s =>
           refTable'[t] = refTable[t] /\ where'[t] = where[t] /\ limit'[t] = limit[t]
  BY <1>1, <1>2, <1>3, Cleared DEF st
<1>7. /\ pc' \in [Sessions -> {"begin", "call", "hook", "exec", "rows", "end", "returned"}]
      /\ pc'[s] = "call" /\ cursor[s] = None
      /\ \A t \in Sessions : t # s => pc'[t] = pc[t]
  BY <1>1, <1>2, <1>3 DEF Types, SessionInv, ClauseInv
<1>8. r \in Answers
  BY DEF Answers
<1>9. /\ results' \in [Sessions -> Seq(Answers)]
      /\ results'[s] = Append(results[s], r)
      /\ \A t \in Sessions : t # s => results'[t] = results[t]
      /\ Len(results'[s]) <= Len(script'[s])
  BY <1>2, <1>3, <1>8, Answered
<1> HIDE DEF r
<1>10. Types'
  BY <1>1, <1>3, <1>5, <1>6, <1>7, <1>9 DEF Types
<1>11. ASSUME NEW t \in Sessions, t # s PROVE Kept(t)
  BY <1>3, <1>5, <1>6, <1>7, <1>9, <1>11 DEF Kept
<1>12. ClauseInv(s)'
  BY <1>3, <1>6, <1>7, <1>9 DEF ClauseInv
<1>13. LockInv(s)'
  BY <1>1, <1>2, <1>3, <1>4, <1>5, <1>7 DEF SessionInv, LockInv
<1>14. EndInv(s)'
  BY <1>1, <1>2, <1>3, <1>7 DEF SessionInv, EndInv
<1>15. TxInv(s)'
  <2>1. ASSUME NEW d, NEW v, Ran(d, script[s], v, results[s])
        PROVE  Ran(d, script'[s], v, results'[s])
    <3>1. results[s] \in Seq(Answers) /\ st = script[s][Len(results[s]) + 1]
      BY <1>1 DEF st, Call, Types
    <3>2. Ran(d, script[s], v, Append(results[s], r))
      BY <1>8, <2>1, <3>1, RanFails DEF r
    <3> QED BY <1>3, <1>9, <3>2
  <2>2. s \in Managed => Ran(db', script'[s], View(s)', results'[s])
    BY <1>2, <1>3, <1>5, <2>1, RanSoFar
  <2>3. ASSUME s \in Managed, s \notin reading', NEW d \in Databases
        PROVE  Ran(d, script'[s], d, results'[s])
    BY <1>1, <1>2, <1>5, <2>1, <2>3 DEF SessionInv, TxInv
  <2> QED BY <2>2, <2>3 DEF TxInv
<1> QED BY <1>10, <1>11, <1>12, <1>13, <1>14, <1>15, Joined DEF SessionInv

(* Find ends with the answer r, and what it has read changes nothing.      *)
LEMMA CloseRowsKeeps ==
  ASSUME SInv, NEW s \in Sessions, pc[s] = "rows", NEW r \in Answers,
         r \in {Failed, Result(View(s), Call(s))}, Answer(s, r), CloseRows(s),
         leaked' \in BOOLEAN
  PROVE  SInv'
<1> DEFINE st == Call(s)
<1>1. Types /\ SessionInv(s)
  BY DEF SInv
<1>2. /\ Len(results[s]) < Len(script[s]) /\ st \in Statements
      /\ st.op = "find" /\ ~Refused(View(s), st) /\ s \in reading
  BY <1>1, CallType DEF SessionInv, ClauseInv, LockInv
<1> HIDE DEF st
<1>3. /\ cursor' = [cursor EXCEPT ![s] = None]
      /\ reading' = IF InTx(s) THEN reading ELSE reading \ {s}
      /\ pc' = [pc EXCEPT ![s] = "call"]
      /\ UNCHANGED <<db, pending, writer, tx, refTable, where, limit, script, fn, outcome>>
  BY DEF CloseRows, clauses, ends
<1>4. /\ results' \in [Sessions -> Seq(Answers)]
      /\ results'[s] = Append(results[s], r)
      /\ \A t \in Sessions : t # s => results'[t] = results[t]
      /\ Len(results'[s]) <= Len(script'[s])
  BY <1>2, <1>3, Answered
<1>5. /\ pc' \in [Sessions -> {"begin", "call", "hook", "exec", "rows", "end", "returned"}]
      /\ cursor' \in [Sessions -> Statements \cup {None}]
      /\ pc'[s] = "call" /\ cursor'[s] = None
      /\ \A t \in Sessions : t # s => pc'[t] = pc[t] /\ cursor'[t] = cursor[t]
  BY <1>1, <1>3 DEF Types
<1>6. Types'
  BY <1>1, <1>3, <1>4, <1>5 DEF Types
<1>7. ASSUME NEW t \in Sessions, t # s PROVE Kept(t)
  BY <1>3, <1>4, <1>5, <1>7 DEF Kept, View, InTx
<1>8. s \in Managed => InTx(s) /\ s \in reading'
  BY <1>1, <1>2, <1>3 DEF SessionInv, LockInv, InTx
<1>9. s \in Plain => ~InTx(s) /\ s \notin reading' /\ s \notin Managed
  BY <1>1, <1>2, <1>3, SessionsAssumption DEF SessionInv, LockInv, InTx
<1>10. ClauseInv(s)'
  <2>1. where'[s] = Ids /\ limit'[s] = FALSE
    BY <1>1, <1>3 DEF SessionInv, ClauseInv
  <2> QED BY <1>4, <1>5, <2>1 DEF ClauseInv
<1>11. LockInv(s)'
  <2>1. writer' = s => s \in Managed
    BY <1>1, <1>3, SessionsAssumption DEF Types
  <2> QED BY <1>1, <1>2, <1>3, <1>5, <1>8, <1>9, <2>1 DEF SessionInv, LockInv
<1>12. EndInv(s)'
  BY <1>1, <1>2, <1>3, <1>5 DEF SessionInv, EndInv
<1>13. TxInv(s)'
  <2> SUFFICES ASSUME s \in Managed
               PROVE  Ran(db, script[s], View(s), Append(results[s], r))
    <3>1. View(s)' = View(s)
      BY <1>3 DEF View, InTx
    <3> QED BY <1>3, <1>4, <1>8, <3>1 DEF TxInv
  <2>1. /\ Ran(db, script[s], View(s), results[s])
        /\ results[s] \in Seq(Answers) /\ st = script[s][Len(results[s]) + 1]
    BY <1>1, RanSoFar DEF Types, st, Call
  <2>2. CASE r = Failed
    <3>1. r = IF st.op = "has" THEN 0 ELSE Failed
      BY <1>2, <2>2
    <3> QED BY <2>1, <3>1, RanFails
  <2>3. CASE r = Result(View(s), st)
    <3>1. Ran(db, script[s], Effect(View(s), st), Append(results[s], r))
      BY <1>2, <2>1, <2>3, RanAnswers
    <3> QED BY <1>2, <3>1, ReadsKeep DEF IsWrite
  <2> QED BY <2>2, <2>3 DEF st
<1> QED BY <1>6, <1>7, <1>10, <1>11, <1>12, <1>13, Joined DEF SessionInv

LEMMA FindRowsAnswer ==
  ASSUME SInv, NEW s \in Sessions, FindRows(s)
  PROVE  \E r \in Answers : r \in {Failed, Result(View(s), Call(s))} /\ Answer(s, r)
<1>1. Types /\ SessionInv(s) /\ View(s) \in Databases
  BY ViewType DEF SInv
<1>2. /\ Call(s) \in Statements /\ cursor[s] = Call(s) /\ ~Refused(View(s), Call(s))
  BY <1>1, CallType DEF FindRows, SessionInv, ClauseInv
<1>3. Result(View(s), Call(s)) \in Answers /\ Failed \in Answers
  BY <1>1, <1>2, ResultType DEF Answers
<1>4. PICK r \in {Failed, Result(View(s), Call(s))} : Answer(s, r)
  BY <1>2 DEF FindRows
<1> QED BY <1>3, <1>4

LEMMA FindRowsKeeps ==
  ASSUME SInv, NEW s \in Sessions, FindRows(s)
  PROVE  SInv'
<1>1. PICK r \in Answers : r \in {Failed, Result(View(s), Call(s))} /\ Answer(s, r)
  BY FindRowsAnswer
<1>2. leaked' \in BOOLEAN
  BY DEF FindRows, SInv, Types
<1> QED BY <1>1, <1>2, CloseRowsKeeps DEF FindRows

LEMMA ScanFailsKeeps ==
  ASSUME SInv, NEW s \in Sessions, ScanFails(s)
  PROVE  SInv'
<1>1. Failed \in Answers /\ Answer(s, Failed) /\ CloseRows(s) /\ pc[s] = "rows"
  BY DEF Answers, ScanFails
<1>2. leaked' \in BOOLEAN
  BY DEF ScanFails, SInv, Types, InTx
<1>3. Failed \in {Failed, Result(View(s), Call(s))}
  OBVIOUS
<1> QED BY <1>1, <1>2, <1>3, CloseRowsKeeps

LEMMA FnEndsKeeps ==
  ASSUME SInv, NEW s \in Sessions, FnEnds(s)
  PROVE  SInv'
<1>1. Types /\ SessionInv(s) /\ s \in Managed
  BY DEF SInv, FnEnds
<1>2. PICK how \in {"nil", "error", "panic"} :
        /\ pc[s] \in {"call", "hook", "rows"}
        /\ how = "nil" => Len(results[s]) = Len(script[s])
        /\ fn' = [fn EXCEPT ![s] = how]
  BY DEF FnEnds
<1>3. /\ pc' = [pc EXCEPT ![s] = "end"] /\ cursor' = [cursor EXCEPT ![s] = None]
      /\ UNCHANGED <<db, pending, writer, reading, leaked, tx, refTable, where, limit,
                     script, results, outcome>>
  BY DEF FnEnds, locks, clauses
<1>4. Types'
  <2>1. pc' \in [Sessions -> {"begin", "call", "hook", "exec", "rows", "end", "returned"}]
    BY <1>1, <1>3 DEF Types
  <2>2. /\ cursor' \in [Sessions -> Statements \cup {None}]
        /\ fn' \in [Sessions -> {"none", "nil", "error", "panic"}]
    BY <1>1, <1>2, <1>3 DEF Types
  <2> QED BY <1>1, <1>3, <2>1, <2>2 DEF Types
<1>5. ASSUME NEW t \in Sessions, t # s PROVE Kept(t)
  <2>1. pc'[t] = pc[t] /\ cursor'[t] = cursor[t] /\ fn'[t] = fn[t]
    BY <1>1, <1>2, <1>3, <1>5 DEF Types
  <2> QED BY <1>3, <2>1 DEF Kept, View, InTx
<1>6. pc'[s] = "end" /\ cursor'[s] = None /\ fn'[s] = how
  BY <1>1, <1>2, <1>3 DEF Types
<1>7. ClauseInv(s)'
  BY <1>1, <1>3, <1>6 DEF SessionInv, ClauseInv
<1>8. LockInv(s)'
  BY <1>1, <1>2, <1>3, <1>6, SessionsAssumption DEF SessionInv, LockInv
<1>9. EndInv(s)'
  BY <1>1, <1>2, <1>3, <1>6 DEF SessionInv, EndInv
<1>10. TxInv(s)'
  <2>1. View(s)' = View(s)
    BY <1>3 DEF View, InTx
  <2> QED BY <1>1, <1>2, <1>3, <1>6, <2>1 DEF SessionInv, TxInv
<1> QED BY <1>4, <1>5, <1>7, <1>8, <1>9, <1>10, Joined DEF SessionInv

(* Transaction returns: by Rollback, or after Commit, which cannot change  *)
(* what another session that reads depends on.                             *)
LEMMA ReturnsKeeps ==
  ASSUME SInv, NEW s \in Managed, pc[s] = "end", NEW how \in {"nil", "error", "panic"},
         Release(s), Returns(s, how),
         \/ db' = db
         \/ db' = View(s) /\ (writer = s => reading = {s})
  PROVE  SInv'
<1>1. Types /\ SessionInv(s) /\ s \in Sessions /\ None \notin Sessions
  BY SessionsAssumption DEF SInv, Sessions
<1>2. /\ writer' = (IF writer = s THEN None ELSE writer)
      /\ pending' = (IF writer = s THEN None ELSE pending)
      /\ reading' = reading \ {s}
      /\ tx' = [tx EXCEPT ![s] = "done"]
      /\ outcome' = [outcome EXCEPT ![s] = how]
      /\ pc' = [pc EXCEPT ![s] = "returned"]
      /\ UNCHANGED <<leaked, refTable, where, limit, cursor, script, results, fn>>
  BY DEF Release, Returns, clauses
<1>3. /\ pc' \in [Sessions -> {"begin", "call", "hook", "exec", "rows", "end", "returned"}]
      /\ tx' \in [Sessions -> {"none", "open", "done"}]
      /\ outcome' \in [Sessions -> {"none", "nil", "error", "panic"}]
      /\ pc'[s] = "returned" /\ tx'[s] = "done" /\ outcome'[s] = how
      /\ \A t \in Sessions : t # s => pc'[t] = pc[t] /\ tx'[t] = tx[t] /\ outcome'[t] = outcome[t]
  BY <1>1, <1>2 DEF Types
<1>4. db' \in Databases
  BY <1>1, ViewType DEF Types
<1>5. /\ writer' \in {None} \cup Managed /\ writer' # s
      /\ IF writer' = None THEN pending' = None ELSE pending' \in Databases
      /\ reading' \subseteq Sessions
  BY <1>1, <1>2 DEF Types
<1>6. Types'
  BY <1>1, <1>2, <1>3, <1>4, <1>5 DEF Types
<1>7. ASSUME NEW t \in Sessions, t # s PROVE Kept(t)
  <2>1. /\ t \in reading' <=> t \in reading
        /\ writer' = t <=> writer = t
    BY <1>1, <1>2, <1>7
  <2>2. ASSUME t \in reading PROVE db' = db /\ View(t)' = View(t)
    <3>1. db' = db
      <4>1. writer = s => reading # {s}
        BY <1>7, <2>2
      <4> QED BY <4>1 DEF View
    <3>2. View(t)' = View(t)
      BY <1>1, <1>2, <1>3, <1>7, <3>1 DEF View, InTx
    <3> QED BY <3>1, <3>2
  <2> QED BY <1>2, <1>3, <1>7, <2>1, <2>2 DEF Kept
<1>8. ClauseInv(s)'
  BY <1>1, <1>2, <1>3 DEF SessionInv, ClauseInv
<1>9. LockInv(s)'
  BY <1>1, <1>2, <1>3, <1>5, SessionsAssumption DEF LockInv
<1>10. EndInv(s)'
  BY <1>1, <1>2, <1>3 DEF SessionInv, EndInv
<1>11. TxInv(s)'
  BY <1>3 DEF TxInv
<1> QED BY <1>1, <1>6, <1>7, <1>8, <1>9, <1>10, <1>11, Joined DEF SessionInv

LEMMA NextKeeps == SInv /\ [Next]_vars => SInv'
<1> SUFFICES ASSUME SInv, [Next]_vars PROVE SInv'
  OBVIOUS
<1>1. CASE UNCHANGED vars
  BY <1>1 DEF SInv, Types, SessionInv, ClauseInv, LockInv, EndInv, TxInv, View, Call,
              InTx, vars, locks, clauses, ends
<1>2. CASE Next
  <2>1. PICK s \in Sessions :
          \/ Begin(s) \/ FnEnds(s) \/ Rollback(s) \/ Commit(s)
          \/ Chain(s) \/ CallHook(s) \/ Exec(s) \/ ExecFails(s)
          \/ FindRows(s) \/ ScanFails(s)
    BY <1>2 DEF Next
  <2>2. CASE Rollback(s)
    BY <2>2, ReturnsKeeps DEF Rollback
  <2>3. CASE Commit(s)
    <3>1. s \in Managed
      BY <2>3 DEF Commit, SInv, SessionInv, EndInv
    <3> QED BY <2>3, <3>1, ReturnsKeeps DEF Commit
  <2> QED BY <2>1, <2>2, <2>3, BeginKeeps, FnEndsKeeps, ChainKeeps, CallHookKeeps,
             ExecKeeps, ExecFailsKeeps, FindRowsKeeps, ScanFailsKeeps
<1> QED BY <1>1, <1>2

(* SInv holds in every reachable state of sessions on one database         *)
(* (session/raw.go, geeorm.go), whatever they call.                        *)
THEOREM Invariance == Spec => []SInv
<1>1. Init => SInv
  BY InitHolds
<1>2. SInv /\ [Next]_vars => SInv'
  BY NextKeeps
<1> QED BY <1>1, <1>2, PTL DEF Spec

LEMMA InvariantTypes == SInv => TypeOK
<1> SUFFICES ASSUME SInv PROVE TypeOK
  OBVIOUS
<1>1. Types /\ \A s \in Sessions : SessionInv(s)
  BY DEF SInv
<1>2. ASSUME NEW s \in Sessions
      PROVE  /\ (cursor[s] # None) = (pc[s] = "rows")
             /\ Len(results[s]) <= Len(script[s])
             /\ s \in reading /\ ~InTx(s) => pc[s] = "rows"
  <2>1. ClauseInv(s) /\ LockInv(s)
    BY <1>1 DEF SessionInv
  <2>2. pc[s] = "rows" => cursor[s] # None
    <3>1. pc[s] = "rows" => Call(s) \in Statements /\ cursor[s] = Call(s)
      BY <1>1, <2>1, CallType DEF ClauseInv
    <3> QED BY <3>1, SessionsAssumption
  <2> QED BY <2>1, <2>2 DEF ClauseInv, LockInv, InTx, Sessions
<1>3. writer # None => writer \in reading
  BY <1>1 DEF Types, SessionInv, LockInv, Sessions
<1> QED BY <1>1, <1>2, <1>3 DEF Types, TypeOK

(* The types of OrmSession: in particular, a session that is not in a      *)
(* transaction keeps the database locked only while a Find has its rows    *)
(* open (record.go:49).                                                    *)
THEOREM TypeCorrect == Spec => []TypeOK
BY Invariance, InvariantTypes, PTL

(* Engine.Transaction (geeorm.go:57) returns with no lock left, after a    *)
(* panic too.                                                              *)
THEOREM LocksAreFreed == Spec => []LocksFreed
<1>1. SInv => LocksFreed
  BY DEF SInv, SessionInv, LockInv, LocksFreed, Sessions
<1> QED BY <1>1, Invariance, PTL

-----------------------------------------------------------------------------
(* The refinement.                                                         *)

\* What OrmAtomic sees of the results.
Visible == [t \in Sessions |->
              IF t \in Plain \/ outcome[t] = "nil" THEN results[t] ELSE <<>>]

LEMMA InitRefines == Init => Atomic!Init
<1> SUFFICES ASSUME Init PROVE Atomic!Init
  OBVIOUS
<1>1. Visible = [t \in Sessions |-> <<>>]
  BY DEF Init, Visible
<1> QED BY <1>1 DEF Init, Visible, Atomic!Init, Atomic!Sessions, Sessions

(* What is not visible of a step.                                          *)
LEMMA Stutters ==
  ASSUME db' = db, script' = script, outcome' = outcome,
         \A t \in Sessions : t \in Plain \/ outcome[t] = "nil" => results'[t] = results[t]
  PROVE  UNCHANGED Atomic!atomicVars
<1>1. Visible' = Visible
  BY DEF Visible
<1> QED BY <1>1 DEF Visible, Atomic!atomicVars

LEMMA AbortRefines ==
  ASSUME SInv, NEW s \in Managed, outcome[s] = "none", NEW how \in {"error", "panic"},
         outcome' = [outcome EXCEPT ![s] = how], UNCHANGED <<db, script, results>>
  PROVE  Atomic!Next
<1>1. s \in Sessions /\ s \notin Plain
  BY SessionsAssumption DEF Sessions
<1>2. outcome \in [Sessions -> {"none", "nil", "error", "panic"}]
  BY DEF SInv, Types
<1>3. \A t \in Sessions : outcome'[t] = "nil" <=> outcome[t] = "nil"
  BY <1>1, <1>2
<1>4. Visible' = Visible
  BY <1>3 DEF Visible
<1>5. Atomic!Abort(s)
  BY <1>4 DEF Visible, Atomic!Abort
<1> QED BY <1>1, <1>5 DEF Atomic!Next, Atomic!Sessions, Sessions

LEMMA CommitRefines ==
  ASSUME SInv, NEW s \in Managed, pc[s] = "end", fn[s] = "nil",
         outcome' = [outcome EXCEPT ![s] = "nil"], db' = View(s),
         UNCHANGED <<script, results>>
  PROVE  Atomic!Next
<1>1. s \in Sessions /\ s \notin Plain
  BY SessionsAssumption DEF Sessions
<1>2. Types /\ EndInv(s)
  BY <1>1 DEF SInv, SessionInv
<1>3. outcome[s] = "none" /\ Len(results[s]) = Len(script[s])
  BY <1>2 DEF EndInv
<1>4. Len(script[s]) \in Nat /\ DOMAIN script[s] = 1..Len(script[s])
  BY <1>1, <1>2, LenProperties DEF Types
<1>5. Ran(db, script[s], View(s), results[s])
  BY RanSoFar
<1>6. PICK reported, f :
        /\ reported \in SUBSET (1..Len(script[s]))
        /\ RunOf(f, db, script[s], Len(script[s]), reported)
        /\ f[Len(script[s])] = State(View(s), results[s])
  BY <1>3, <1>5 DEF Ran
<1>7. Atomic!Run(script[s], reported) = State(View(s), results[s])
  BY <1>4, <1>6, RunIs
<1>8. Visible' = [Visible EXCEPT ![s] = results[s]]
  <2>1. ASSUME NEW t \in Sessions
        PROVE  Visible'[t] = [Visible EXCEPT ![s] = results[s]][t]
    <3>1. CASE t = s
      BY <1>1, <1>2, <3>1 DEF Visible, Types
    <3>2. CASE t # s
      BY <1>1, <1>2, <3>2 DEF Visible, Types
    <3> QED BY <3>1, <3>2
  <2> QED BY <2>1 DEF Visible
<1>9. LET end == Atomic!Run(script[s], reported) IN
      end.possible /\ db' = end.db /\ Visible' = [Visible EXCEPT ![s] = end.results]
  BY <1>7, <1>8 DEF State
<1>10. Atomic!Commit(s)
  BY <1>3, <1>4, <1>6, <1>9 DEF Visible, Atomic!Commit
<1> QED BY <1>1, <1>10 DEF Atomic!Next, Atomic!Sessions, Sessions

(* A statement outside of a transaction.                                   *)
LEMMA SingleRefines ==
  ASSUME SInv, NEW s \in Plain, Len(results[s]) < Len(script[s]),
         UNCHANGED <<script, outcome>>, NEW r, Answer(s, r),
         \/ r = Atomic!Unanswered(Call(s)) /\ db' = db
         \/ /\ ~Refused(db, Call(s)) /\ r = Result(db, Call(s))
            /\ db' = Effect(db, Call(s))
  PROVE  Atomic!Next
<1> DEFINE st == Call(s)
<1>1. Types /\ s \in Sessions
  BY DEF SInv, Sessions
<1>2. Visible[s] = results[s] /\ DOMAIN Visible = Sessions
  BY <1>1 DEF Visible
<1>3. Visible' = [Visible EXCEPT ![s] = Append(Visible[s], r)]
  <2>1. ASSUME NEW t \in Sessions
        PROVE  Visible'[t] = [Visible EXCEPT ![s] = Append(results[s], r)][t]
    <3>1. CASE t = s
      BY <1>1, <3>1 DEF Visible, Types, Answer
    <3>2. CASE t # s
      BY <1>1, <3>2 DEF Visible, Types, Answer
    <3> QED BY <3>1, <3>2
  <2> QED BY <1>2, <2>1 DEF Visible
<1>4. Len(Visible[s]) + 1 <= Len(script[s]) /\ st = script[s][Len(Visible[s]) + 1]
  <2>1. Len(results[s]) \in Nat /\ Len(script[s]) \in Nat
    BY <1>1, LenProperties DEF Types
  <2> QED BY <1>2, <2>1 DEF Call
<1> HIDE DEF st
<1>5. \/ /\ ~Atomic!Refused(db, st) /\ db' = Atomic!Effect(db, st)
         /\ Visible' = [Visible EXCEPT ![s] = Append(@, Atomic!Result(db, st))]
      \/ /\ Visible' = [Visible EXCEPT ![s] = Append(@, Atomic!Unanswered(st))]
         /\ db' = db
  BY <1>3, SameRefused, SameEffect, SameResult DEF st
<1>6. Atomic!Single(s)
  BY <1>4, <1>5 DEF Visible, Atomic!Single
<1> QED BY <1>1, <1>6 DEF Atomic!Next, Atomic!Sessions, Sessions

LEMMA ExecRefines ==
  ASSUME SInv, NEW s \in Sessions, Exec(s)
  PROVE  Atomic!Next \/ UNCHANGED Atomic!atomicVars
<1> DEFINE st == Call(s)
<1>1. Types /\ SessionInv(s) /\ Built(s) = st
  BY BuiltIsCall DEF SInv, Exec
<1>2. pc[s] = "exec" /\ Len(results[s]) < Len(script[s])
  BY <1>1 DEF Exec, SessionInv, ClauseInv
<1> HIDE DEF st
<1>3. /\ ~Refused(View(s), st)
      /\ IF IsWrite(st) THEN Write(s, st) ELSE Read(s, st)
      /\ UNCHANGED <<script, outcome>>
      /\ IF st.op = "find" THEN UNCHANGED results ELSE Answer(s, Result(View(s), st))
  BY <1>1 DEF Exec, ends
<1>4. CASE s \in Managed
  <2>1. InTx(s) /\ outcome[s] = "none" /\ s \notin Plain
    BY <1>1, <1>2, <1>4, SessionsAssumption DEF SessionInv, LockInv, EndInv, InTx
  <2>2. db' = db
    BY <1>3, <2>1 DEF Write, Read
  <2>3. \A t \in Sessions : t # s => results'[t] = results[t]
    BY <1>1, <1>3 DEF Answer, Types
  <2> QED BY <1>3, <2>1, <2>2, <2>3, Stutters
<1>5. CASE s \in Plain
  <2>1. ~InTx(s) /\ View(s) = db
    BY <1>1, <1>5 DEF SessionInv, LockInv, InTx, View
  <2>2. db' = Effect(db, st)
    BY <1>3, <2>1, ReadsKeep DEF Write, Read
  <2>3. CASE st.op = "find"
    BY <1>3, <2>2, <2>3, ReadsKeep, Stutters DEF IsWrite
  <2>4. CASE st.op # "find"
    BY <1>2, <1>3, <1>5, <2>1, <2>2, <2>4, SingleRefines DEF st
  <2> QED BY <2>3, <2>4
<1> QED BY <1>4, <1>5 DEF Sessions

LEMMA AnswerRefines ==
  ASSUME SInv, NEW s \in Sessions, ExecFails(s) \/ FindRows(s) \/ ScanFails(s)
  PROVE  Atomic!Next \/ UNCHANGED Atomic!atomicVars
<1>1. Types /\ SessionInv(s)
  BY DEF SInv
<1>2. pc[s] \in {"exec", "rows"} /\ Len(results[s]) < Len(script[s])
  BY <1>1 DEF ExecFails, FindRows, ScanFails, SessionInv, ClauseInv
<1>3. UNCHANGED <<db, script, outcome>>
  BY DEF ExecFails, FindRows, ScanFails, CloseRows, ends
<1>4. \E r : /\ Answer(s, r)
             /\ \/ r = Atomic!Unanswered(Call(s))
                \/ /\ pc[s] = "rows" /\ r = Result(View(s), Call(s))
  <2>1. CASE ExecFails(s)
    BY <2>1 DEF ExecFails, Atomic!Unanswered
  <2>2. CASE FindRows(s) \/ ScanFails(s)
    <3>1. pc[s] = "rows" /\ Call(s).op = "find" /\ cursor[s] = Call(s)
      BY <1>1, <2>2 DEF FindRows, ScanFails, SessionInv, ClauseInv
    <3>2. Atomic!Unanswered(Call(s)) = Failed
      BY <3>1 DEF Atomic!Unanswered
    <3>3. Answer(s, Failed) \/ Answer(s, Result(View(s), Call(s)))
      BY <2>2, <3>1 DEF FindRows, ScanFails
    <3> QED BY <3>1, <3>2, <3>3
  <2> QED BY <2>1, <2>2
<1>5. PICK r : /\ Answer(s, r)
               /\ \/ r = Atomic!Unanswered(Call(s))
                  \/ /\ pc[s] = "rows" /\ r = Result(View(s), Call(s))
  BY <1>4
<1>6. CASE s \in Managed
  <2>1. outcome[s] = "none" /\ s \notin Plain
    BY <1>1, <1>2, <1>6, SessionsAssumption DEF SessionInv, EndInv
  <2>2. \A t \in Sessions : t # s => results'[t] = results[t]
    BY <1>1, <1>5 DEF Answer, Types
  <2> QED BY <1>3, <2>1, <2>2, Stutters
<1>7. CASE s \in Plain
  <2>1. View(s) = db
    BY <1>1, <1>7 DEF SessionInv, LockInv, InTx, View
  <2>2. CASE r = Atomic!Unanswered(Call(s))
    BY <1>2, <1>3, <1>5, <1>7, <2>2, SingleRefines
  <2>3. CASE pc[s] = "rows" /\ r = Result(View(s), Call(s))
    <3>1. Call(s).op = "find" /\ ~Refused(db, Call(s))
      BY <1>1, <2>1, <2>3 DEF SessionInv, ClauseInv
    <3>2. Effect(db, Call(s)) = db
      BY <3>1, ReadsKeep DEF IsWrite
    <3> QED BY <1>2, <1>3, <1>5, <1>7, <2>1, <2>3, <3>1, <3>2, SingleRefines
  <2> QED BY <1>5, <2>2, <2>3
<1> QED BY <1>6, <1>7 DEF Sessions

LEMMA NextRefines ==
  SInv /\ [Next]_vars => [Atomic!Next]_Atomic!atomicVars
<1> SUFFICES ASSUME SInv, [Next]_vars
             PROVE  Atomic!Next \/ UNCHANGED Atomic!atomicVars
  OBVIOUS
<1>1. CASE UNCHANGED vars
  BY <1>1, Stutters DEF vars, ends
<1>2. CASE Next
  <2>1. PICK s \in Sessions :
          \/ Begin(s) \/ FnEnds(s) \/ Rollback(s) \/ Commit(s)
          \/ Chain(s) \/ CallHook(s) \/ Exec(s) \/ ExecFails(s)
          \/ FindRows(s) \/ ScanFails(s)
    BY <1>2 DEF Next
  <2>2. SessionInv(s) /\ Types
    BY DEF SInv
  <2>3. CASE Begin(s)
    <3>1. s \in Managed /\ outcome[s] = "none" /\ UNCHANGED <<db, script, results>>
      BY <2>2, <2>3 DEF Begin, SessionInv, LockInv, EndInv, Sessions
    <3>2. CASE UNCHANGED outcome
      BY <3>1, <3>2, Stutters
    <3>3. CASE outcome' = [outcome EXCEPT ![s] = "error"]
      BY <3>1, <3>3, AbortRefines
    <3> QED BY <2>3, <3>2, <3>3 DEF Begin
  <2>4. CASE FnEnds(s) \/ Chain(s) \/ CallHook(s)
    BY <2>4, Stutters DEF FnEnds, Chain, CallHook, ends
  <2>5. CASE Rollback(s)
    <3>1. /\ s \in Managed /\ outcome[s] = "none" /\ UNCHANGED <<db, script, results>>
          /\ fn[s] \in {"error", "panic"} /\ outcome' = [outcome EXCEPT ![s] = fn[s]]
      BY <2>2, <2>5 DEF Rollback, Returns, SessionInv, EndInv
    <3> QED BY <3>1, AbortRefines
  <2>6. CASE Commit(s)
    <3>1. /\ s \in Managed /\ outcome[s] = "none" /\ UNCHANGED <<script, results>>
          /\ pc[s] = "end" /\ fn[s] = "nil"
          /\ \/ db' = View(s) /\ outcome' = [outcome EXCEPT ![s] = "nil"]
             \/ db' = db /\ outcome' = [outcome EXCEPT ![s] = "error"]
      BY <2>2, <2>6 DEF Commit, Returns, SessionInv, EndInv
    <3>2. CASE db' = View(s) /\ outcome' = [outcome EXCEPT ![s] = "nil"]
      BY <3>1, <3>2, CommitRefines
    <3>3. CASE db' = db /\ outcome' = [outcome EXCEPT ![s] = "error"]
      BY <3>1, <3>3, AbortRefines
    <3> QED BY <3>1, <3>2, <3>3
  <2> QED BY <2>1, <2>3, <2>4, <2>5, <2>6, ExecRefines, AnswerRefines
<1> QED BY <1>1, <1>2

(* Sessions and Engine.Transaction (geeorm.go:57, session/) implement      *)
(* OrmAtomic: each transaction that returns nil has happened in one step,  *)
(* with the effects and results that its statements have one after another *)
(* on what was committed, each other one not at all, and each statement is *)
(* the one that its own call asks for.                                     *)
THEOREM Refines == Spec => Transactional
<1>1. Init => Atomic!Init
  BY InitRefines
<1>2. SInv /\ [Next]_vars => [Atomic!Next]_Atomic!atomicVars
  BY NextRefines
<1> QED BY <1>1, <1>2, Invariance, PTL DEF Spec, Transactional, Atomic!Spec
=============================================================================

------------------------------ MODULE OrmAtomic ------------------------------
(***************************************************************************)
(* What GeeORM promises.  A call of Engine.Transaction happens in one step *)
(* or not at all, and returns nil in the first case only; outside of it a  *)
(* statement happens in one step.  A statement affects and returns the     *)
(* rows that match its own condition, and one that reports an error has    *)
(* not happened.                                                           *)
(***************************************************************************)
EXTENDS OrmData

CONSTANTS
  Managed,  \* sessions of Engine.Transaction
  Plain,    \* sessions outside of a transaction
  Stores,   \* the databases it starts from
  Scripts,  \* for each session the sequences of statements it may make
  Failed    \* the result of a statement that reports an error

VARIABLES
  store,    \* the database
  script,   \* what each session does
  outcome,  \* how each session ended
  results   \* what its statements returned

Sessions == Managed \cup Plain

atomicVars == <<store, script, outcome, results>>

Init ==
  /\ store \in Stores
  /\ script \in [Sessions -> UNION {Scripts[s] : s \in Sessions}]
  /\ \A s \in Sessions : script[s] \in Scripts[s]
  /\ outcome = [s \in Sessions |-> "none"]
  /\ results = [s \in Sessions |-> <<>>]

\* HasTable has no error to report: its answer to a failed query is FALSE.
Unanswered(st) == IF st.op = "has" THEN 0 ELSE Failed

(* A call on a database, after those before it.                            *)
Step(state, st, reported) ==
  CASE reported -> [state EXCEPT !.results = Append(@, Unanswered(st))]
    [] ~reported /\ ~Refused(state.db, st) ->
         [state EXCEPT !.db = Effect(state.db, st),
                       !.results = Append(@, Result(state.db, st))]
    [] OTHER -> [state EXCEPT !.possible = FALSE]

(* All calls of a script, those in reported with an error. *)
Run(calls, reported) ==
  LET state[n \in 0..Len(calls)] ==
        IF n = 0 THEN [db |-> store, results |-> <<>>, possible |-> TRUE]
        ELSE Step(state[n - 1], calls[n], n \in reported)
  IN state[Len(calls)]

Commit(s) ==
  /\ s \in Managed /\ outcome[s] = "none"
  /\ outcome' = [outcome EXCEPT ![s] = "nil"]
  /\ \E reported \in SUBSET DOMAIN script[s] :
       LET end == Run(script[s], reported) IN
       /\ end.possible
       /\ store' = end.db
       /\ results' = [results EXCEPT ![s] = end.results]
  /\ UNCHANGED script

Abort(s) ==
  /\ s \in Managed /\ outcome[s] = "none"
  /\ outcome' \in {[outcome EXCEPT ![s] = o] : o \in {"error", "panic"}}
  /\ UNCHANGED <<store, script, results>>

(* The next statement of a session outside of a transaction. *)
Single(s) ==
  LET i == Len(results[s]) + 1  st == script[s][i] IN
  /\ s \in Plain /\ i <= Len(script[s])
  /\ \/ /\ ~Refused(store, st)
        /\ store' = Effect(store, st)
        /\ results' = [results EXCEPT ![s] = Append(@, Result(store, st))]
     \/ /\ results' = [results EXCEPT ![s] = Append(@, Unanswered(st))]
        /\ UNCHANGED store
  /\ UNCHANGED <<script, outcome>>

Next == \E s \in Sessions : Commit(s) \/ Abort(s) \/ Single(s)

Spec == Init /\ [][Next]_atomicVars
=============================================================================

----------------------------- MODULE OrmSession -----------------------------
(***************************************************************************)
(* GeeORM: sessions that build one statement at a time in a clause of      *)
(* their own, and Engine.Transaction, on one SQLite database.              *)
(*                                                                         *)
(* The database and database/sql are external.  A transaction locks at its *)
(* first statement; it shares the database with readers until it commits,  *)
(* which needs every other reader gone.  A COMMIT that fails is undone by  *)
(* the driver.  Any statement may fail, with no effect, and must if it     *)
(* needs a lock that it cannot have.                                       *)
(***************************************************************************)
EXTENDS OrmData

CONSTANTS
  Managed, Plain,  \* sessions of Engine.Transaction, and others
  Stores,          \* the databases a run of the program starts from
  Scripts,         \* for each session the sequences of calls it may make
  Failed,          \* the result of a call that returns an error
  Hooks,           \* calls that have a Before hook with a query of its own
  None

(* The query of a hook clears the clause (session.Clear).  Insert alone     *)
(* has no use for what was in it before its hook.                          *)
ASSUME HookAssumption == Hooks \subseteq {"insert"}

Sessions == Managed \cup Plain

ASSUME SessionsAssumption ==
  /\ Managed \cap Plain = {} /\ None \notin Sessions \cup Statements
  /\ Stores \subseteq Databases
  /\ \A s \in Sessions : Scripts[s] \subseteq Seq(Statements)

VARIABLES
  db,        \* what is committed
  pending,   \* what the writer sees
  writer,    \* the transaction that has written
  reading,   \* the sessions that keep the database from changing
  leaked,    \* rows were left open outside of a transaction
  tx,        \* session.tx: none, open or done
  refTable,  \* session.refTable
  where,     \* the WHERE clause, all keys if there is none
  limit,     \* there is a LIMIT clause
  cursor,    \* the query whose rows are open
  pc,
  script, results,
  fn,        \* how fn ended
  outcome    \* how Transaction ended

clauses == <<where, limit>>
locks == <<pending, writer, reading, leaked>>
ends == <<fn, outcome>>
vars == <<db, locks, tx, refTable, clauses, cursor, pc, script, results, ends>>

Init ==
  /\ db \in Stores
  /\ pending = None /\ writer = None /\ reading = {} /\ leaked = FALSE
  /\ tx = [s \in Sessions |-> "none"]
  /\ refTable = [s \in Sessions |-> None]
  /\ where = [s \in Sessions |-> Ids]
  /\ limit = [s \in Sessions |-> FALSE]
  /\ cursor = [s \in Sessions |-> None]
  /\ pc = [s \in Sessions |-> IF s \in Managed THEN "begin" ELSE "call"]
  /\ script \in [Sessions -> UNION {Scripts[s] : s \in Sessions}]
  /\ \A s \in Sessions : script[s] \in Scripts[s]
  /\ results = [s \in Sessions |-> <<>>]
  /\ fn = [s \in Sessions |-> "none"]
  /\ outcome = [s \in Sessions |-> "none"]

-----------------------------------------------------------------------------
(* One session.                                                            *)

Call(s) == script[s][Len(results[s]) + 1]

(* Mutant of Clear: raw.go:53 left out. *)
KeepClause(s) == UNCHANGED clauses

Clear(s) ==
  /\ where' = [where EXCEPT ![s] = Ids]
  /\ limit' = [limit EXCEPT ![s] = FALSE]

\* session.DB() is the transaction.
InTx(s) == tx[s] # "none"

View(s) == IF InTx(s) /\ writer = s THEN pending ELSE db

(* What is sent: Insert and Find take their table from the value they get, *)
(* the others from refTable, and conditions are those of the clause.       *)
Built(s) ==
  LET st == Call(s)
      table == IF st.op \in {"insert", "find"} THEN st.table ELSE refTable[s]
  IN CASE st.op = "find" -> [st EXCEPT !.where = where[s], !.limit = limit[s]]
       [] st.op \in {"update", "delete"} ->
            [st EXCEPT !.table = table, !.where = where[s]]
       [] OTHER -> [st EXCEPT !.table = table]

Ready(s) == pc[s] = "call" /\ Len(results[s]) < Len(script[s])

(* The caller chains Model, Where and Limit, the last two when they select *)
(* something.  Insert and Find also work on a session that already has a   *)
(* model.                                                                  *)
Chain(s) ==
  LET st == Call(s) IN
  /\ Ready(s)
  /\ refTable' \in {[refTable EXCEPT ![s] = st.table]}
                     \cup IF st.op \in {"insert", "find"} THEN {refTable} ELSE {}
  /\ where' = IF HasCondition(st) /\ st.where # Ids
              THEN [where EXCEPT ![s] = st.where] ELSE where
  /\ limit' = IF st.op = "find" /\ st.limit
              THEN [limit EXCEPT ![s] = TRUE] ELSE limit
  /\ pc' = [pc EXCEPT ![s] = IF st.op \in {"count", "has", "create", "drop"}
                             THEN "exec" ELSE "hook"]
  /\ UNCHANGED <<db, locks, tx, cursor, script, results, ends>>

(* CallHook before a statement.  It looks for the method on the model that *)
(* was set before, and panics if there is none.  (A hook after a statement *)
(* finds the clause cleared, and its query has nothing to disturb.)        *)
CallHook(s) ==
  /\ pc[s] = "hook"
  /\ IF refTable[s] = None
     THEN /\ fn' = [fn EXCEPT ![s] = "panic"]
          /\ pc' = [pc EXCEPT ![s] = "end"]
          /\ UNCHANGED <<reading, clauses>>
     ELSE /\ pc' = [pc EXCEPT ![s] = "exec"]
          /\ IF Call(s).op \in Hooks
             THEN /\ Clear(s)
                  /\ reading' = IF InTx(s) THEN reading \cup {s} ELSE reading
             ELSE UNCHANGED <<reading, clauses>>
          /\ UNCHANGED fn
  /\ UNCHANGED <<db, pending, writer, leaked, tx, refTable, cursor, script,
                 results, outcome>>

Answer(s, r) == results' = [results EXCEPT ![s] = Append(@, r)]

\* The effects of a statement that succeeds on a transaction or the database.
Write(s, st) ==
  IF InTx(s)
  THEN /\ writer \in {None, s}
       /\ writer' = s
       /\ pending' = Effect(View(s), st)
       /\ reading' = reading \cup {s}
       /\ UNCHANGED db
  ELSE /\ writer = None /\ reading = {} /\ ~leaked
       /\ db' = Effect(db, st)
       /\ UNCHANGED <<writer, pending, reading>>

Read(s, st) ==
  /\ reading' = IF InTx(s) \/ st.op = "find" THEN reading \cup {s} ELSE reading
  /\ UNCHANGED <<db, pending, writer>>

\* Insert and Find change the model of the session to that of their value.
SetModel(s) ==
  refTable' = [refTable EXCEPT ![s] =
                 IF Call(s).op \in {"insert", "find"} THEN Call(s).table ELSE @]

(* Exec, QueryRow and QueryRows.  The rows of a Find are still to be read. *)
Exec(s) ==
  LET st == Built(s) IN
  /\ pc[s] = "exec"
  /\ ~Refused(View(s), st)
  /\ IF IsWrite(st) THEN Write(s, st) ELSE Read(s, st)
  /\ IF st.op = "find"
     THEN /\ cursor' = [cursor EXCEPT ![s] = st]
          /\ pc' = [pc EXCEPT ![s] = "rows"]
          /\ UNCHANGED results
     ELSE /\ Answer(s, Result(View(s), st))
          /\ pc' = [pc EXCEPT ![s] = "call"]
          /\ UNCHANGED cursor
  /\ SetModel(s)
  /\ Clear(s)
  /\ UNCHANGED <<leaked, tx, script, ends>>

(* The database reports an error; a transaction may keep the lock that the *)
(* statement has taken.  HasTable drops the error and finds no name.       *)
ExecFails(s) ==
  /\ pc[s] = "exec"
  /\ \/ UNCHANGED <<writer, pending, reading>>
     \/ /\ InTx(s) /\ writer \in {None, s} /\ IsWrite(Call(s))
        /\ writer' = s /\ pending' = View(s) /\ reading' = reading \cup {s}
  /\ Answer(s, IF Call(s).op = "has" THEN 0 ELSE Failed)
  /\ pc' = [pc EXCEPT ![s] = "call"]
  /\ SetModel(s)
  /\ Clear(s)
  /\ UNCHANGED <<db, leaked, tx, cursor, script, ends>>

CloseRows(s) ==
  /\ cursor' = [cursor EXCEPT ![s] = None]
  /\ reading' = IF InTx(s) THEN reading ELSE reading \ {s}
  /\ pc' = [pc EXCEPT ![s] = "call"]
  /\ UNCHANGED <<db, pending, writer, tx, refTable, clauses, script, ends>>

(* Find reads the rows and closes them.  First returns an error if there   *)
(* are none.                                                               *)
FindRows(s) ==
  LET found == Result(View(s), cursor[s]) IN
  /\ pc[s] = "rows"
  /\ Answer(s, IF Call(s).limit /\ DOMAIN found = {} THEN Failed ELSE found)
  /\ CloseRows(s)
  /\ UNCHANGED leaked

(* A row does not fit the model: Find returns, and closes nothing.  Only   *)
(* the end of a transaction does.                                          *)
ScanFails(s) ==
  /\ pc[s] = "rows"
  /\ Answer(s, Failed)
  /\ CloseRows(s)
  /\ leaked' = (leaked \/ ~InTx(s))

-----------------------------------------------------------------------------
(* Engine.Transaction.                                                     *)

Begin(s) ==
  /\ pc[s] = "begin"
  /\ \/ /\ tx' = [tx EXCEPT ![s] = "open"]
        /\ pc' = [pc EXCEPT ![s] = "call"]
        /\ UNCHANGED outcome
     \/ /\ outcome' = [outcome EXCEPT ![s] = "error"]
        /\ pc' = [pc EXCEPT ![s] = "returned"]
        /\ UNCHANGED tx
  /\ UNCHANGED <<db, locks, refTable, clauses, cursor, script, results, fn>>

(* fn returns nil when it has done everything.  It may return an error     *)
(* after any call, or panic, also in a hook.                               *)
FnEnds(s) ==
  /\ s \in Managed
  /\ \E how \in {"nil", "error", "panic"} :
       /\ \/ pc[s] = "call" /\ (how = "nil" => Len(results[s]) = Len(script[s]))
          \/ pc[s] \in {"hook", "rows"} /\ how = "panic"
       /\ fn' = [fn EXCEPT ![s] = how]
  /\ pc' = [pc EXCEPT ![s] = "end"]
  /\ cursor' = [cursor EXCEPT ![s] = None]
  /\ UNCHANGED <<db, locks, tx, refTable, clauses, script, results, outcome>>

\* The database forgets the transaction of s.
Release(s) ==
  /\ writer' = IF writer = s THEN None ELSE writer
  /\ pending' = IF writer = s THEN None ELSE pending
  /\ reading' = reading \ {s}
  /\ tx' = [tx EXCEPT ![s] = "done"]

Returns(s, how) ==
  /\ outcome' = [outcome EXCEPT ![s] = how]
  /\ pc' = [pc EXCEPT ![s] = "returned"]
  /\ UNCHANGED <<leaked, refTable, clauses, cursor, script, results, fn>>

(* Mutant of Rollback: geeorm.go:73 left out. *)
RollbackErrors(s) ==
  /\ pc[s] = "end" /\ s \in Managed
  /\ fn[s] \in {"error", "panic"}
  /\ IF fn[s] = "error" THEN Release(s)
     ELSE UNCHANGED <<writer, pending, reading, tx>>
  /\ Returns(s, fn[s])
  /\ UNCHANGED db

Rollback(s) ==
  /\ pc[s] = "end" /\ s \in Managed
  /\ fn[s] \in {"error", "panic"}
  /\ Release(s)
  /\ Returns(s, fn[s])
  /\ UNCHANGED db

(* If Commit returns an error there is nothing left for Rollback to do.    *)
Commit(s) ==
  /\ pc[s] = "end" /\ fn[s] = "nil"
  /\ Release(s)
  /\ \/ /\ writer = s => reading = {s} /\ ~leaked
        /\ db' = View(s)
        /\ Returns(s, "nil")
     \/ /\ Returns(s, "error")
        /\ UNCHANGED db

Next ==
  \E s \in Sessions :
    \/ Begin(s) \/ FnEnds(s) \/ Rollback(s) \/ Commit(s)
    \/ Chain(s) \/ CallHook(s) \/ Exec(s) \/ ExecFails(s)
    \/ FindRows(s) \/ ScanFails(s)

Spec == Init /\ [][Next]_vars

-----------------------------------------------------------------------------
(* Types, and which locks go with which session: a writer is a reader, and *)
(* only a transaction that is open, or a Find, is a reader.                *)
TypeOK ==
  /\ db \in Databases
  /\ writer \in {None} \cup Managed
  /\ IF writer = None THEN pending = None ELSE pending \in Databases
  /\ reading \subseteq Sessions /\ (writer # None => writer \in reading)
  /\ leaked \in BOOLEAN
  /\ tx \in [Sessions -> {"none", "open", "done"}]
  /\ refTable \in [Sessions -> Tables \cup {None}]
  /\ where \in [Sessions -> SUBSET Ids] /\ limit \in [Sessions -> BOOLEAN]
  /\ \A s \in Sessions :
       /\ pc[s] \in {"begin", "call", "hook", "exec", "rows", "end", "returned"}
       /\ (cursor[s] # None) = (pc[s] = "rows")
       /\ Len(results[s]) <= Len(script[s])
       /\ s \in reading /\ ~InTx(s) => pc[s] = "rows"
  /\ fn \in [Sessions -> {"none", "nil", "error", "panic"}]
  /\ outcome \in [Sessions -> {"none", "nil", "error", "panic"}]

(* However Transaction is left, by a return or by a panic of fn, of a hook *)
(* or of the session itself, no lock stays behind that would stop every    *)
(* later write of the program.                                             *)
LocksFreed ==
  \A s \in Managed : pc[s] = "returned" => s \notin reading /\ writer # s

(* A transaction is visible once it has returned nil, as it was at Commit. *)
Atomic == INSTANCE OrmAtomic WITH
  store <- db,
  results <- [s \in Sessions |->
                IF s \in Plain \/ outcome[s] = "nil" THEN results[s] ELSE <<>>]

(* Transactions are atomic and isolated from each other and from other     *)
(* statements, and each statement does what its own call asked for: no     *)
(* condition, limit or table of an earlier call of the session stays in it.*)
Transactional == Atomic!Spec
=============================================================================

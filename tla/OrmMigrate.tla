----------------------------- MODULE OrmMigrate -----------------------------
(***************************************************************************)
(* Engine.Migrate of GeeORM (GeeORM/geeorm/geeorm.go), in the transaction  *)
(* of Engine.Transaction: programs whose models of one table have different*)
(* columns start, migrate, insert rows, die and start again on one SQLite  *)
(* database.                                                               *)
(*                                                                         *)
(* SQLite is external and is the one of OrmSession: a transaction locks at *)
(* its first statement, one at a time writes, a commit needs the other     *)
(* readers gone, and any statement may fail with no effect.                *)
(***************************************************************************)
EXTENDS Integers, SequencesExt

CONSTANTS
  Programs,
  Columns,     \* Columns[p]: the fields of p's model
  KeyColumn,   \* the field with the tag PRIMARY KEY
  Keys, Val, Null,
  Missing,     \* instead of a table
  Tables,      \* what a run of the programs may find
  None,
  MaxRows,     \* bound on the rows of the table
  MaxStarts    \* bound on how often programs are started again

ASSUME ColumnsAssumption == \A p \in Programs : KeyColumn \in Columns[p]

AllColumns ==
  UNION ({Columns[p] : p \in Programs} \cup {t.cols : t \in Tables \ {Missing}})

Cells == Keys \cup {Val, Null}

(* Columns, whether KeyColumn is declared a primary key, and the rows in   *)
(* the order they were inserted.                                           *)
TableOf(cols) == [cols : {cols}, key : BOOLEAN, rows : Seq([cols -> Cells])]

IsTable(t) == \E cols \in SUBSET AllColumns : t \in TableOf(cols)

ASSUME TablesAssumption ==
  /\ ~IsTable(Missing)
  /\ \A t \in Tables \ {Missing} : IsTable(t)
  /\ None \notin Programs

VARIABLES
  db,         \* what is committed: the table, and tmp_ and its name
  pending,    \* what the writer sees
  writer,     \* the transaction that has written
  reading,    \* the transactions that keep the database from changing
  pc,
  addCols, delCols,
  fn,         \* how the function given to Transaction ended
  outcome,    \* how Migrate did
  starts

locks == <<pending, writer, reading>>
vars == <<db, locks, pc, addCols, delCols, fn, outcome, starts>>

Init ==
  /\ db \in [table : Tables, tmp : {Missing}]
  /\ pending = None /\ writer = None /\ reading = {}
  /\ pc = [p \in Programs |-> "begin"]
  /\ addCols = [p \in Programs |-> {}]
  /\ delCols = [p \in Programs |-> {}]
  /\ fn = [p \in Programs |-> "none"]
  /\ outcome = [p \in Programs |-> "none"]
  /\ starts = 0

-----------------------------------------------------------------------------
(* The database.                                                           *)

NewTable(cols) == [cols |-> cols, key |-> TRUE, rows |-> << >>]

\* ALTER TABLE ... ADD COLUMN
WithColumn(t, c) ==
  [cols |-> t.cols \cup {c}, key |-> t.key,
   rows |-> [i \in DOMAIN t.rows |->
               [d \in t.cols \cup {c} |-> IF d = c THEN Null ELSE t.rows[i][d]]]]

\* CREATE TABLE ... AS SELECT, which declares no primary key
Selected(t, cols) ==
  [cols |-> cols, key |-> FALSE,
   rows |-> [i \in DOMAIN t.rows |-> [c \in cols |-> t.rows[i][c]]]]

WithRow(t, cols, k) ==
  [t EXCEPT !.rows = Append(@, [c \in t.cols |-> IF c = KeyColumn THEN k
                                                  ELSE IF c \in cols THEN Val ELSE Null])]

Inserts(t, cols, k) ==
  /\ t # Missing
  /\ cols \subseteq t.cols
  /\ t.key => \A i \in DOMAIN t.rows : t.rows[i][KeyColumn] # k

View(p) == IF writer = p THEN pending ELSE db

Write(p, new) ==
  /\ writer \in {None, p}
  /\ writer' = p /\ pending' = new
  /\ reading' = reading \cup {p}

Release(p) ==
  /\ writer' = IF writer = p THEN None ELSE writer
  /\ pending' = IF writer = p THEN None ELSE pending
  /\ reading' = reading \ {p}

Goto(p, s) == pc' = [pc EXCEPT ![p] = s]

FnEnds(p, how, s) ==
  /\ fn' = [fn EXCEPT ![p] = how]
  /\ Goto(p, s)

-----------------------------------------------------------------------------
Begin(p) ==
  /\ pc[p] = "begin"
  /\ \/ Goto(p, "has") /\ UNCHANGED outcome
     \/ Goto(p, "returned") /\ outcome' = [outcome EXCEPT ![p] = "error"]
  /\ UNCHANGED <<db, locks, addCols, delCols, fn, starts>>

(* HasTable drops the error of its query, and then finds no table. *)
HasTable(p) ==
  /\ pc[p] = "has"
  /\ \/ /\ reading' = reading \cup {p}
        /\ Goto(p, IF View(p).table = Missing THEN "create" ELSE "columns")
     \/ /\ UNCHANGED reading
        /\ Goto(p, "create")
  /\ UNCHANGED <<db, pending, writer, addCols, delCols, fn, outcome, starts>>

CreateTable(p) ==
  /\ pc[p] = "create"
  /\ View(p).table = Missing
  /\ Write(p, [View(p) EXCEPT !.table = NewTable(Columns[p])])
  /\ FnEnds(p, "nil", "end")
  /\ UNCHANGED <<db, addCols, delCols, outcome, starts>>

(* The rows of SELECT * are asked for their columns only: nothing reads    *)
(* them.  The error of the query is dropped, and then there are no rows to *)
(* ask, which is a panic.                                                  *)
Compare(p) ==
  /\ pc[p] = "columns"
  /\ LET columns == View(p).table.cols
     IN \/ /\ addCols' = [addCols EXCEPT ![p] = Columns[p] \ columns]
           /\ delCols' = [delCols EXCEPT ![p] = columns \ Columns[p]]
           /\ Goto(p, "add")
           /\ UNCHANGED fn
        \/ /\ FnEnds(p, "panic", "end")
           /\ UNCHANGED <<addCols, delCols>>
  /\ UNCHANGED <<db, locks, outcome, starts>>

AddColumn(p, c) ==
  /\ pc[p] = "add" /\ c \in addCols[p]
  /\ Write(p, [View(p) EXCEPT !.table = WithColumn(@, c)])
  /\ addCols' = [addCols EXCEPT ![p] = @ \ {c}]
  /\ UNCHANGED <<db, pc, delCols, fn, outcome, starts>>

ColumnsAdded(p) ==
  /\ pc[p] = "add" /\ addCols[p] = {}
  /\ IF delCols[p] = {} THEN FnEnds(p, "nil", "end") ELSE Goto(p, "copy") /\ UNCHANGED fn
  /\ UNCHANGED <<db, locks, addCols, delCols, outcome, starts>>

(* The three statements of the one Exec. *)
CopyTable(p) ==
  /\ pc[p] = "copy"
  /\ View(p).tmp = Missing
  /\ Write(p, [View(p) EXCEPT !.tmp = Selected(View(p).table, Columns[p])])
  /\ Goto(p, "drop")
  /\ UNCHANGED <<db, addCols, delCols, fn, outcome, starts>>

DropTable(p) ==
  /\ pc[p] = "drop"
  /\ Write(p, [View(p) EXCEPT !.table = Missing])
  /\ Goto(p, "rename")
  /\ UNCHANGED <<db, addCols, delCols, fn, outcome, starts>>

Rename(p) ==
  /\ pc[p] = "rename"
  /\ Write(p, [table |-> View(p).tmp, tmp |-> Missing])
  /\ FnEnds(p, "nil", "end")
  /\ UNCHANGED <<db, addCols, delCols, outcome, starts>>

(* Mutant of Fails: geeorm.go:140 without the return; the next column. *)
FailsAndGoesOn(p) ==
  /\ pc[p] = "add" /\ addCols[p] # {}
  /\ addCols' = [addCols EXCEPT ![p] = {}]
  /\ UNCHANGED <<db, locks, pc, delCols, fn, outcome, starts>>

(* One of the statements fails, the lock it took stays. *)
Fails(p) ==
  /\ \/ pc[p] \in {"create", "copy", "drop", "rename"}
     \/ pc[p] = "add" /\ addCols[p] # {}
  /\ \/ UNCHANGED locks
     \/ Write(p, View(p))
  /\ FnEnds(p, "error", "end")
  /\ UNCHANGED <<db, addCols, delCols, outcome, starts>>

Returns(p, how) ==
  /\ outcome' = [outcome EXCEPT ![p] = how]
  /\ Goto(p, "returned")
  /\ UNCHANGED <<addCols, delCols, fn, starts>>

(* Mutant of Rollback: geeorm.go:73 left out: a panic keeps the lock. *)
RollbackErrors(p) ==
  /\ pc[p] = "end" /\ fn[p] \in {"error", "panic"}
  /\ IF fn[p] = "error" THEN Release(p) ELSE UNCHANGED locks
  /\ Returns(p, fn[p])
  /\ UNCHANGED db

Rollback(p) ==
  /\ pc[p] = "end" /\ fn[p] \in {"error", "panic"}
  /\ Release(p)
  /\ Returns(p, fn[p])
  /\ UNCHANGED db

(* A COMMIT that fails is undone by the driver. *)
Commit(p) ==
  /\ pc[p] = "end" /\ fn[p] = "nil"
  /\ Release(p)
  /\ \/ /\ writer = p => reading = {p}
        /\ db' = View(p)
        /\ Returns(p, "nil")
     \/ /\ Returns(p, "error")
        /\ UNCHANGED db

(* A program that has migrated inserts a row, outside of a transaction. *)
Insert(p, k) ==
  /\ pc[p] = "returned" /\ outcome[p] = "nil"
  /\ Inserts(db.table, Columns[p], k)
  /\ writer = None /\ reading = {}
  /\ Len(db.table.rows) < MaxRows
  /\ db' = [db EXCEPT !.table = WithRow(@, Columns[p], k)]
  /\ UNCHANGED <<locks, pc, addCols, delCols, fn, outcome, starts>>

(* The program ends or dies, wherever it is, and is started again: the     *)
(* database forgets its transaction.                                       *)
Start(p) ==
  /\ pc[p] # "begin"
  /\ starts < MaxStarts
  /\ starts' = starts + 1
  /\ Release(p)
  /\ Goto(p, "begin")
  /\ addCols' = [addCols EXCEPT ![p] = {}]
  /\ delCols' = [delCols EXCEPT ![p] = {}]
  /\ fn' = [fn EXCEPT ![p] = "none"]
  /\ outcome' = [outcome EXCEPT ![p] = "none"]
  /\ UNCHANGED db

Migrate(p) ==
  \/ Begin(p) \/ HasTable(p) \/ CreateTable(p) \/ Compare(p)
  \/ \E c \in Columns[p] : AddColumn(p, c)
  \/ ColumnsAdded(p) \/ CopyTable(p) \/ DropTable(p) \/ Rename(p)
  \/ Fails(p) \/ Rollback(p) \/ Commit(p)

Next ==
  \E p \in Programs :
    Migrate(p) \/ Start(p) \/ \E k \in Keys : Insert(p, k)

Spec == Init /\ [][Next]_vars /\ \A p \in Programs : WF_vars(Migrate(p))
-----------------------------------------------------------------------------
(* What Migrate is to make of a table, in one step.  (Deleting a column    *)
(* also loses the primary key: CREATE TABLE AS does not copy it.)          *)
Migrated(t, cols) ==
  IF t = Missing THEN NewTable(cols)
  ELSE [cols |-> cols,
        key  |-> t.key /\ t.cols \subseteq cols,
        rows |-> [i \in DOMAIN t.rows |->
                    [c \in cols |-> IF c \in t.cols THEN t.rows[i][c] ELSE Null]]]

(* What is committed changes by an Insert, or by a whole migration of a    *)
(* Migrate that then returns nil, of the table as it is at the commit      *)
(* (geeorm.go:114-162): no other program's rows or columns are undone, no  *)
(* tmp_ table and no half of the new one is left.  A Migrate that fails    *)
(* commits nothing, and one that returns nil has migrated.                 *)
MigratesAtOnce ==
  [][/\ db' # db =>
          \E p \in Programs :
            \/ /\ outcome[p] = "none" /\ outcome'[p] = "nil"
               /\ db' = [table |-> Migrated(db.table, Columns[p]), tmp |-> Missing]
            \/ \E k \in Keys :
                 /\ outcome[p] = "nil" /\ outcome'[p] = "nil"
                 /\ db' = [db EXCEPT !.table = WithRow(@, Columns[p], k)]
     /\ \A p \in Programs : outcome[p] = "none" /\ outcome'[p] = "nil" =>
          db'.table = Migrated(db.table, Columns[p])]_vars

(* Migrate ends, and however it does, a lost query and the panic it makes  *)
(* of it included, it leaves no lock: an engine goes on to use the table.  *)
MigrateLetsGo ==
  \A p \in Programs :
    (pc[p] # "begin") ~> (pc[p] \in {"begin", "returned"} /\ p \notin reading)
=============================================================================

-------------------------- MODULE OrmMigrate_proof --------------------------
(***************************************************************************)
(* Proofs about OrmMigrate for any programs, columns and rows.             *)
(***************************************************************************)
EXTENDS OrmMigrate, SequenceTheorems, TLAPS

(* A table of t's columns and those of A, as ALTER TABLE makes it.         *)
Extended(t, A) ==
  [cols |-> t.cols \cup A, key |-> t.key,
   rows |-> [i \in DOMAIN t.rows |->
               [d \in t.cols \cup A |-> IF d \in t.cols THEN t.rows[i][d] ELSE Null]]]

States == {"begin", "has", "create", "columns", "add", "copy", "drop", "rename",
           "end", "returned"}

Types ==
  /\ db = [table |-> db.table, tmp |-> Missing]
  /\ db.table = Missing \/ IsTable(db.table)
  /\ writer \in Programs \cup {None} /\ reading \subseteq Programs
  /\ writer # None => writer \in reading
  /\ pc \in [Programs -> States]
  /\ addCols \in [Programs -> SUBSET AllColumns]
  /\ delCols \in [Programs -> SUBSET AllColumns]
  /\ fn \in [Programs -> {"none", "nil", "error", "panic"}]
  /\ outcome \in [Programs -> {"none", "nil", "error", "panic"}]

(* The columns of Columns[p] that the committed table does not have.       *)
NewColumns(p) == Columns[p] \ db.table.cols

(* What p's transaction has made of the table up to now.                   *)
Made(p) ==
  /\ pc[p] = "columns" => writer # p
  /\ pc[p] = "add" =>
       /\ addCols[p] \subseteq NewColumns(p)
       /\ delCols[p] = db.table.cols \ Columns[p]
       /\ View(p) = [table |-> Extended(db.table, NewColumns(p) \ addCols[p]), tmp |-> Missing]
  /\ pc[p] = "copy" =>
       View(p) = [table |-> Extended(db.table, NewColumns(p)), tmp |-> Missing]
  /\ pc[p] = "drop" =>
       /\ writer = p
       /\ View(p).tmp = Migrated(db.table, Columns[p])
       /\ View(p) = [table |-> View(p).table, tmp |-> View(p).tmp]
  /\ pc[p] = "rename" =>
       writer = p /\ View(p) = [table |-> Missing, tmp |-> Migrated(db.table, Columns[p])]
  /\ pc[p] = "end" /\ fn[p] = "nil" =>
       View(p) = [table |-> Migrated(db.table, Columns[p]), tmp |-> Missing]
  /\ pc[p] = "copy" => ~ (db.table.cols \subseteq Columns[p])

(* A program that has found or made the table keeps others from changing   *)
(* it until it has ended.                                                  *)
Holds(p) ==
  /\ pc[p] \in {"begin", "has", "create", "returned"} => writer # p
  /\ pc[p] \in {"begin", "has", "returned"} => p \notin reading
  /\ pc[p] \in {"columns", "add", "copy", "drop", "rename"} =>
       p \in reading /\ db.table # Missing
  /\ pc[p] = "end" => fn[p] # "none" /\ (fn[p] = "nil" => p \in reading)
  /\ outcome[p] = "none" <=> pc[p] # "returned"

MInv == Types /\ \A p \in Programs : Made(p) /\ Holds(p)

-----------------------------------------------------------------------------
(* Tables.                                                                 *)

LEMMA TableShape ==
  ASSUME NEW t, IsTable(t)
  PROVE  /\ t = [cols |-> t.cols, key |-> t.key, rows |-> t.rows]
         /\ t.cols \subseteq AllColumns /\ t.key \in BOOLEAN
         /\ t.rows \in Seq([t.cols -> Cells])
         /\ \A i \in DOMAIN t.rows : t.rows[i] \in [t.cols -> Cells]
         /\ t.rows = [i \in DOMAIN t.rows |-> t.rows[i]]
<1>1. PICK cols \in SUBSET AllColumns : t \in TableOf(cols)
  BY DEF IsTable
<1>2. /\ t = [cols |-> t.cols, key |-> t.key, rows |-> t.rows]
      /\ t.cols = cols /\ t.key \in BOOLEAN /\ t.rows \in Seq([cols -> Cells])
  BY <1>1 DEF TableOf
<1>3. DOMAIN t.rows = 1..Len(t.rows)
      /\ \A i \in 1..Len(t.rows) : t.rows[i] \in [cols -> Cells]
  BY <1>2, LenProperties, ElementOfSeq
<1>4. t.rows = [i \in DOMAIN t.rows |-> t.rows[i]]
  BY <1>2, LenProperties
<1> QED BY <1>2, <1>3, <1>4

LEMMA MadeTables ==
  ASSUME NEW C \in SUBSET AllColumns, NEW k \in BOOLEAN, NEW r \in Seq([C -> Cells])
  PROVE  IsTable([cols |-> C, key |-> k, rows |-> r])
BY DEF IsTable, TableOf

(* Mapping the rows of a table gives rows.                                 *)
LEMMA RowsMapped ==
  ASSUME NEW t, IsTable(t), NEW C, NEW f \in [DOMAIN t.rows -> [C -> Cells]]
  PROVE  f \in Seq([C -> Cells])
<1>1. DOMAIN t.rows = 1..Len(t.rows) /\ Len(t.rows) \in Nat
  BY TableShape, LenProperties
<1> QED BY <1>1, IsASeq

LEMMA NewTableIsTable ==
  ASSUME NEW C \in SUBSET AllColumns
  PROVE  IsTable(NewTable(C)) /\ NewTable(C) = Migrated(Missing, C)
<1>1. << >> \in Seq([C -> Cells])
  OBVIOUS
<1> QED BY <1>1, MadeTables DEF NewTable, Migrated

LEMMA NotMissing ==
  ASSUME NEW t, IsTable(t)
  PROVE  t # Missing
BY TablesAssumption

LEMMA MigratedIsTable ==
  ASSUME NEW t, t = Missing \/ IsTable(t), NEW C \in SUBSET AllColumns
  PROVE  IsTable(Migrated(t, C))
<1>1. CASE t = Missing
  BY <1>1, NewTableIsTable
<1>2. CASE IsTable(t)
  <2> DEFINE f == [i \in DOMAIN t.rows |->
                    [c \in C |-> IF c \in t.cols THEN t.rows[i][c] ELSE Null]]
  <2>1. f \in [DOMAIN t.rows -> [C -> Cells]]
    <3>1. ASSUME NEW i \in DOMAIN t.rows, NEW c \in C
          PROVE  (IF c \in t.cols THEN t.rows[i][c] ELSE Null) \in Cells
      <4>1. t.rows[i] \in [t.cols -> Cells]
        BY <1>2, TableShape
      <4> QED BY <4>1 DEF Cells
    <3> QED BY <3>1
  <2>2. Migrated(t, C) = [cols |-> C, key |-> t.key /\ t.cols \subseteq C, rows |-> f]
    BY <1>2, NotMissing DEF Migrated
  <2> HIDE DEF f
  <2>3. f \in Seq([C -> Cells])
    BY <1>2, <2>1, RowsMapped
  <2>4. (t.key /\ t.cols \subseteq C) \in BOOLEAN
    OBVIOUS
  <2> QED BY <2>2, <2>3, <2>4, MadeTables
<1> QED BY <1>1, <1>2

LEMMA RowAdded ==
  ASSUME NEW t, NEW a, NEW k, NEW r, t = [cols |-> a, key |-> k, rows |-> r], NEW C, NEW x
  PROVE  WithRow(t, C, x) =
           [cols |-> a, key |-> k,
            rows |-> Append(r, [c \in a |-> IF c = KeyColumn THEN x
                                            ELSE IF c \in C THEN Val ELSE Null])]
BY DEF WithRow

LEMMA WithRowIsTable ==
  ASSUME NEW t, IsTable(t), NEW C, NEW k \in Keys
  PROVE  IsTable(WithRow(t, C, k))
<1> DEFINE row == [c \in t.cols |-> IF c = KeyColumn THEN k ELSE IF c \in C THEN Val ELSE Null]
<1>1. row \in [t.cols -> Cells]
  BY DEF Cells
<1>2. /\ t = [cols |-> t.cols, key |-> t.key, rows |-> t.rows]
      /\ t.cols \in SUBSET AllColumns /\ t.key \in BOOLEAN /\ t.rows \in Seq([t.cols -> Cells])
  BY TableShape
<1>3. WithRow(t, C, k) = [cols |-> t.cols, key |-> t.key, rows |-> Append(t.rows, row)]
  BY <1>2, RowAdded
<1> HIDE DEF row
<1>4. Append(t.rows, row) \in Seq([t.cols -> Cells])
  BY <1>1, <1>2, AppendProperties
<1> QED BY <1>2, <1>3, <1>4, MadeTables

LEMMA ExtendedByNone ==
  ASSUME NEW t, IsTable(t)
  PROVE  Extended(t, {}) = t
<1>1. /\ t = [cols |-> t.cols, key |-> t.key, rows |-> t.rows]
      /\ \A i \in DOMAIN t.rows : t.rows[i] \in [t.cols -> Cells]
      /\ t.rows = [i \in DOMAIN t.rows |-> t.rows[i]]
  BY TableShape
<1>2. t.cols \cup {} = t.cols
  OBVIOUS
<1>3. \A i \in DOMAIN t.rows :
        t.rows[i] = [d \in t.cols |-> IF d \in t.cols THEN t.rows[i][d] ELSE Null]
  BY <1>1
<1>4. Extended(t, {}) = [cols |-> t.cols, key |-> t.key, rows |-> t.rows]
  BY <1>1, <1>2, <1>3 DEF Extended
<1> QED BY <1>1, <1>4

LEMMA ExtendedByOne ==
  ASSUME NEW t, NEW A, NEW c, c \notin t.cols \cup A
  PROVE  WithColumn(Extended(t, A), c) = Extended(t, A \cup {c})
<1> DEFINE e == Extended(t, A)
           row(i) == [d \in t.cols \cup A |-> IF d \in t.cols THEN t.rows[i][d] ELSE Null]
           more(i) == [d \in t.cols \cup (A \cup {c}) |->
                         IF d \in t.cols THEN t.rows[i][d] ELSE Null]
<1>1. e = [cols |-> t.cols \cup A, key |-> t.key, rows |-> [i \in DOMAIN t.rows |-> row(i)]]
  BY DEF Extended
<1>2. WithColumn(e, c) =
        [cols |-> (t.cols \cup A) \cup {c}, key |-> t.key,
         rows |-> [i \in DOMAIN t.rows |->
                     [d \in (t.cols \cup A) \cup {c} |-> IF d = c THEN Null ELSE row(i)[d]]]]
  <2> HIDE DEF e, row
  <2>1. e.cols = t.cols \cup A /\ e.key = t.key /\ e.rows = [i \in DOMAIN t.rows |-> row(i)]
    BY <1>1
  <2>2. DOMAIN e.rows = DOMAIN t.rows /\ \A i \in DOMAIN t.rows : e.rows[i] = row(i)
    BY <2>1
  <2> QED BY <2>1, <2>2 DEF WithColumn
<1>3. (t.cols \cup A) \cup {c} = t.cols \cup (A \cup {c})
  OBVIOUS
<1>4. \A i \in DOMAIN t.rows :
        [d \in t.cols \cup (A \cup {c}) |-> IF d = c THEN Null ELSE row(i)[d]] = more(i)
  OBVIOUS
<1> HIDE DEF row, more
<1>5. WithColumn(e, c) =
        [cols |-> t.cols \cup (A \cup {c}), key |-> t.key,
         rows |-> [i \in DOMAIN t.rows |-> more(i)]]
  BY <1>2, <1>3, <1>4
<1> QED BY <1>5 DEF Extended, more

LEMMA ExtendedIsMigrated ==
  ASSUME NEW t, IsTable(t), NEW C, t.cols \subseteq C
  PROVE  Extended(t, C \ t.cols) = Migrated(t, C)
<1>1. t.cols \cup (C \ t.cols) = C /\ t.key \in BOOLEAN /\ t # Missing
  BY TableShape, NotMissing
<1>2. (t.key /\ t.cols \subseteq C) = t.key
  BY <1>1
<1> QED BY <1>1, <1>2 DEF Extended, Migrated

LEMMA SelectedIsMigrated ==
  ASSUME NEW t, IsTable(t), NEW C, ~ (t.cols \subseteq C)
  PROVE  Selected(Extended(t, C \ t.cols), C) = Migrated(t, C)
<1> DEFINE D == t.cols \cup (C \ t.cols)
           row(i) == [d \in D |-> IF d \in t.cols THEN t.rows[i][d] ELSE Null]
           new(i) == [c \in C |-> IF c \in t.cols THEN t.rows[i][c] ELSE Null]
<1>1. C \subseteq D /\ t # Missing
  BY NotMissing
<1>2. (t.key /\ t.cols \subseteq C) = FALSE
  OBVIOUS
<1>3. Selected(Extended(t, C \ t.cols), C) =
        [cols |-> C, key |-> FALSE,
         rows |-> [i \in DOMAIN t.rows |-> [c \in C |-> row(i)[c]]]]
  BY DEF Selected, Extended
<1>4. \A i \in DOMAIN t.rows : [c \in C |-> row(i)[c]] = new(i)
  BY <1>1
<1>5. Migrated(t, C) = [cols |-> C, key |-> FALSE, rows |-> [i \in DOMAIN t.rows |-> new(i)]]
  BY <1>1, <1>2 DEF Migrated
<1> HIDE DEF row, new
<1> QED BY <1>3, <1>4, <1>5

-----------------------------------------------------------------------------
(* Steps.                                                                  *)

(* What a step of q leaves to the others.                                  *)
Apart(q) ==
  \A p \in Programs \ {q} :
    /\ pc'[p] = pc[p] /\ fn'[p] = fn[p] /\ outcome'[p] = outcome[p]
    /\ addCols'[p] = addCols[p] /\ delCols'[p] = delCols[p]
    /\ p \in reading' <=> p \in reading
    /\ writer' = p <=> writer = p
    /\ writer = p => pending' = pending
    /\ p \in reading => db' = db

LEMMA OthersKeep ==
  ASSUME MInv, NEW q \in Programs, Apart(q), NEW p \in Programs \ {q}
  PROVE  Made(p)' /\ Holds(p)'
<1>1. /\ pc'[p] = pc[p] /\ fn'[p] = fn[p] /\ outcome'[p] = outcome[p]
      /\ addCols'[p] = addCols[p] /\ delCols'[p] = delCols[p]
      /\ p \in reading' <=> p \in reading
      /\ writer' = p <=> writer = p
      /\ writer = p => pending' = pending
      /\ p \in reading => db' = db
  BY DEF Apart
<1>2. Made(p) /\ Holds(p)
  BY DEF MInv
<1>3. CASE p \in reading
  <2>1. View(p)' = View(p) /\ NewColumns(p)' = NewColumns(p) /\ db' = db
    BY <1>1, <1>3 DEF View, NewColumns
  <2>2. Made(p)'
    BY <1>1, <1>2, <2>1 DEF Made
  <2>3. Holds(p)'
    BY <1>1, <1>2, <2>1 DEF Holds
  <2> QED BY <2>2, <2>3
<1>4. CASE p \notin reading
  <2>1. /\ pc[p] \in {"begin", "has", "create", "end", "returned"}
        /\ pc[p] = "end" => fn[p] # "nil"
    BY <1>2, <1>4 DEF Holds, MInv, Types, States
  <2>2. Made(p)'
    BY <1>1, <2>1 DEF Made
  <2>3. Holds(p)'
    BY <1>1, <1>2, <1>4, <2>1 DEF Holds
  <2> QED BY <2>2, <2>3
<1> QED BY <1>3, <1>4

LEMMA WriteApart ==
  ASSUME Types, NEW q \in Programs, NEW new, Write(q, new),
         UNCHANGED db,
         \A p \in Programs \ {q} :
           /\ pc'[p] = pc[p] /\ fn'[p] = fn[p] /\ outcome'[p] = outcome[p]
           /\ addCols'[p] = addCols[p] /\ delCols'[p] = delCols[p]
  PROVE  /\ Apart(q) /\ View(q)' = new /\ writer' = q /\ q \in reading'
         /\ writer' \in Programs \cup {None} /\ reading' \subseteq Programs
BY TablesAssumption DEF Types, Write, Apart, View

LEMMA ReleaseApart ==
  ASSUME Types, NEW q \in Programs, Release(q),
         \A p \in Programs \ {q} :
           /\ pc'[p] = pc[p] /\ fn'[p] = fn[p] /\ outcome'[p] = outcome[p]
           /\ addCols'[p] = addCols[p] /\ delCols'[p] = delCols[p]
           /\ p \in reading => db' = db
  PROVE  /\ Apart(q) /\ writer' # q /\ q \notin reading'
         /\ writer' \in Programs \cup {None} /\ reading' \subseteq Programs
         /\ writer' # None => writer' \in reading'
BY TablesAssumption DEF Types, Release, Apart

(* What the theorem says of a step.                                        *)
AtOnce ==
  /\ db' # db =>
       \E p \in Programs :
         \/ /\ outcome[p] = "none" /\ outcome'[p] = "nil"
            /\ db' = [table |-> Migrated(db.table, Columns[p]), tmp |-> Missing]
         \/ \E k \in Keys :
              /\ outcome[p] = "nil" /\ outcome'[p] = "nil"
              /\ db' = [db EXCEPT !.table = WithRow(@, Columns[p], k)]
  /\ \A p \in Programs : outcome[p] = "none" /\ outcome'[p] = "nil" =>
       db'.table = Migrated(db.table, Columns[p])

Keeps(q) == Types' /\ Made(q)' /\ Holds(q)' /\ Apart(q) /\ AtOnce

LEMMA ColumnsOf == \A p \in Programs : Columns[p] \subseteq AllColumns
BY DEF AllColumns

LEMMA BeginKeeps ==
  ASSUME MInv, NEW q \in Programs, Begin(q)
  PROVE  Keeps(q)
<1>1. /\ pc[q] = "begin" /\ UNCHANGED <<db, pending, writer, reading, addCols, delCols, fn>>
      /\ \/ pc' = [pc EXCEPT ![q] = "has"] /\ UNCHANGED outcome
         \/ pc' = [pc EXCEPT ![q] = "returned"] /\ outcome' = [outcome EXCEPT ![q] = "error"]
  BY DEF Begin, Goto, locks
<1>2. Types /\ Made(q) /\ Holds(q)
  BY DEF MInv
<1>3. Types' /\ Apart(q)
  BY <1>1, <1>2 DEF Types, Apart, States
<1>4. AtOnce
  BY <1>1, <1>2 DEF AtOnce, Types
<1>5. Made(q)' /\ Holds(q)'
  BY <1>1, <1>2 DEF Made, Holds, Types
<1> QED BY <1>3, <1>4, <1>5 DEF Keeps

LEMMA HasTableKeeps ==
  ASSUME MInv, NEW q \in Programs, HasTable(q)
  PROVE  Keeps(q)
<1>1. /\ pc[q] = "has" /\ UNCHANGED <<db, pending, writer, addCols, delCols, fn, outcome>>
      /\ \/ /\ reading' = reading \cup {q}
            /\ pc' = [pc EXCEPT ![q] = IF View(q).table = Missing THEN "create" ELSE "columns"]
         \/ UNCHANGED reading /\ pc' = [pc EXCEPT ![q] = "create"]
  BY DEF HasTable, Goto
<1>2. Types /\ Made(q) /\ Holds(q)
  BY DEF MInv
<1>3. Types' /\ Apart(q)
  BY <1>1, <1>2 DEF Types, Apart, States
<1>4. AtOnce
  BY <1>1, <1>2 DEF AtOnce, Types
<1>5. View(q) = db
  BY <1>1, <1>2 DEF Holds, View
<1>6. Made(q)' /\ Holds(q)'
  BY <1>1, <1>2, <1>5 DEF Made, Holds, Types
<1> QED BY <1>3, <1>4, <1>6 DEF Keeps

LEMMA CreateTableKeeps ==
  ASSUME MInv, NEW q \in Programs, CreateTable(q)
  PROVE  Keeps(q)
<1>1. /\ pc[q] = "create" /\ UNCHANGED <<db, addCols, delCols, outcome>>
      /\ View(q).table = Missing
      /\ Write(q, [View(q) EXCEPT !.table = NewTable(Columns[q])])
      /\ pc' = [pc EXCEPT ![q] = "end"] /\ fn' = [fn EXCEPT ![q] = "nil"]
  BY DEF CreateTable, Goto, FnEnds
<1>2. Types /\ Made(q) /\ Holds(q)
  BY DEF MInv
<1>3. View(q) = db
  BY <1>1, <1>2 DEF Holds, View
<1> DEFINE new == [View(q) EXCEPT !.table = NewTable(Columns[q])]
<1>4. new = [table |-> Migrated(db.table, Columns[q]), tmp |-> Missing]
  BY <1>1, <1>2, <1>3, ColumnsOf, NewTableIsTable DEF Types
<1>5. /\ Apart(q) /\ View(q)' = new /\ writer' = q /\ q \in reading'
      /\ writer' \in Programs \cup {None} /\ reading' \subseteq Programs
  <2> HIDE DEF new
  <2>1. Write(q, new)
    BY <1>1 DEF new
  <2> QED BY <1>1, <1>2, <2>1, WriteApart DEF Types
<1> HIDE DEF new
<1>6. Types'
  BY <1>1, <1>2, <1>5 DEF Types, States
<1>7. AtOnce
  BY <1>1, <1>2 DEF AtOnce, Types
<1>8. pc'[q] = "end" /\ fn'[q] = "nil" /\ outcome'[q] = outcome[q] /\ outcome[q] = "none"
  BY <1>1, <1>2 DEF Types, Holds
<1>9. Made(q)' /\ Holds(q)'
  BY <1>1, <1>4, <1>5, <1>8 DEF Made, Holds
<1> QED BY <1>5, <1>6, <1>7, <1>9 DEF Keeps

LEMMA CompareKeeps ==
  ASSUME MInv, NEW q \in Programs, Compare(q)
  PROVE  Keeps(q)
<1>1. /\ pc[q] = "columns" /\ UNCHANGED <<db, pending, writer, reading, outcome>>
      /\ \/ /\ addCols' = [addCols EXCEPT ![q] = Columns[q] \ View(q).table.cols]
            /\ delCols' = [delCols EXCEPT ![q] = View(q).table.cols \ Columns[q]]
            /\ pc' = [pc EXCEPT ![q] = "add"]
            /\ UNCHANGED fn
         \/ /\ fn' = [fn EXCEPT ![q] = "panic"] /\ pc' = [pc EXCEPT ![q] = "end"]
            /\ UNCHANGED <<addCols, delCols>>
  BY DEF Compare, Goto, FnEnds, locks
<1>2. Types /\ Made(q) /\ Holds(q)
  BY DEF MInv
<1>3. /\ View(q) = db /\ q \in reading /\ db.table # Missing /\ IsTable(db.table)
      /\ db.table.cols \subseteq AllColumns
  BY <1>1, <1>2, TableShape DEF Made, Holds, View, Types
<1>4. Types' /\ Apart(q)
  <2>1. addCols' \in [Programs -> SUBSET AllColumns] /\ delCols' \in [Programs -> SUBSET AllColumns]
    BY <1>1, <1>2, <1>3, ColumnsOf DEF Types
  <2>2. pc' \in [Programs -> States] /\ fn' \in [Programs -> {"none", "nil", "error", "panic"}]
    BY <1>1, <1>2 DEF Types, States
  <2>3. Types'
    BY <1>1, <1>2, <2>1, <2>2 DEF Types
  <2> QED BY <1>1, <1>2, <2>3 DEF Types, Apart
<1>5. AtOnce
  BY <1>1, <1>2 DEF AtOnce, Types
<1>6. View(q)' = db /\ db' = db /\ reading' = reading /\ writer' = writer
  BY <1>1, <1>3 DEF View
<1>7. CASE pc'[q] = "add"
  <2>1. addCols'[q] = NewColumns(q) /\ delCols'[q] = db.table.cols \ Columns[q]
    BY <1>1, <1>2, <1>3, <1>7 DEF Types, NewColumns
  <2>2. NewColumns(q) \ addCols'[q] = {} /\ NewColumns(q)' = NewColumns(q)
    BY <1>1, <2>1 DEF NewColumns
  <2>3. View(q)' = [table |-> Extended(db.table, NewColumns(q) \ addCols'[q]), tmp |-> Missing]
    BY <1>2, <1>3, <1>6, <2>2, ExtendedByNone DEF Types
  <2>4. Made(q)'
    BY <1>6, <1>7, <2>1, <2>2, <2>3 DEF Made
  <2>5. Holds(q)'
    BY <1>1, <1>2, <1>3, <1>6, <1>7 DEF Holds
  <2> QED BY <1>4, <1>5, <2>4, <2>5 DEF Keeps
<1>8. CASE pc'[q] = "end" /\ fn'[q] = "panic"
  <2>1. Made(q)'
    BY <1>8 DEF Made
  <2>2. Holds(q)'
    BY <1>1, <1>2, <1>6, <1>8 DEF Holds
  <2> QED BY <1>4, <1>5, <2>1, <2>2 DEF Keeps
<1>9. pc'[q] = "add" \/ (pc'[q] = "end" /\ fn'[q] = "panic")
  BY <1>1, <1>2 DEF Types
<1> QED BY <1>7, <1>8, <1>9

LEMMA AddColumnKeeps ==
  ASSUME MInv, NEW q \in Programs, NEW c, AddColumn(q, c)
  PROVE  Keeps(q)
<1>1. /\ pc[q] = "add" /\ c \in addCols[q] /\ UNCHANGED <<db, pc, delCols, fn, outcome>>
      /\ Write(q, [View(q) EXCEPT !.table = WithColumn(@, c)])
      /\ addCols' = [addCols EXCEPT ![q] = @ \ {c}]
  BY DEF AddColumn
<1>2. Types /\ Made(q) /\ Holds(q)
  BY DEF MInv
<1> DEFINE A == NewColumns(q) \ addCols[q]
           new == [View(q) EXCEPT !.table = WithColumn(@, c)]
<1>3. /\ View(q) = [table |-> Extended(db.table, A), tmp |-> Missing]
      /\ addCols[q] \subseteq NewColumns(q) /\ delCols[q] = db.table.cols \ Columns[q]
      /\ q \in reading /\ db.table # Missing
  BY <1>1, <1>2 DEF Made, Holds
<1>4. /\ c \notin db.table.cols \cup A
      /\ A \cup {c} = NewColumns(q) \ (addCols[q] \ {c})
  BY <1>1, <1>3 DEF NewColumns
<1>5. new = [table |-> Extended(db.table, A \cup {c}), tmp |-> Missing]
  <2>1. new = [table |-> WithColumn(Extended(db.table, A), c), tmp |-> Missing]
    BY <1>3
  <2> QED BY <1>4, <2>1, ExtendedByOne
<1>6. /\ Apart(q) /\ View(q)' = new /\ writer' = q /\ q \in reading'
      /\ writer' \in Programs \cup {None} /\ reading' \subseteq Programs
  <2> HIDE DEF new, A
  <2>1. Write(q, new)
    BY <1>1 DEF new
  <2> QED BY <1>1, <1>2, <2>1, WriteApart DEF Types
<1> HIDE DEF new
<1>7. addCols' \in [Programs -> SUBSET AllColumns] /\ addCols'[q] = addCols[q] \ {c}
  BY <1>1, <1>2 DEF Types
<1>8. Types'
  BY <1>1, <1>2, <1>6, <1>7 DEF Types
<1>9. AtOnce
  BY <1>1, <1>2 DEF AtOnce, Types
<1>10. NewColumns(q)' = NewColumns(q)
  BY <1>1 DEF NewColumns
<1>11. Made(q)'
  <2>1. View(q)' = [table |-> Extended(db.table, NewColumns(q) \ addCols'[q]), tmp |-> Missing]
    BY <1>4, <1>5, <1>6, <1>7
  <2>2. addCols'[q] \subseteq NewColumns(q) /\ delCols'[q] = db.table.cols \ Columns[q]
    BY <1>1, <1>3, <1>7
  <2> QED BY <1>1, <1>10, <2>1, <2>2 DEF Made
<1>12. Holds(q)'
  BY <1>1, <1>2, <1>3, <1>6 DEF Holds
<1> QED BY <1>6, <1>8, <1>9, <1>11, <1>12 DEF Keeps

LEMMA ColumnsAddedKeeps ==
  ASSUME MInv, NEW q \in Programs, ColumnsAdded(q)
  PROVE  Keeps(q)
<1>1. /\ pc[q] = "add" /\ addCols[q] = {}
      /\ UNCHANGED <<db, pending, writer, reading, addCols, delCols, outcome>>
      /\ IF delCols[q] = {}
         THEN pc' = [pc EXCEPT ![q] = "end"] /\ fn' = [fn EXCEPT ![q] = "nil"]
         ELSE pc' = [pc EXCEPT ![q] = "copy"] /\ UNCHANGED fn
  BY DEF ColumnsAdded, FnEnds, Goto, locks
<1>2. Types /\ Made(q) /\ Holds(q)
  BY DEF MInv
<1>3. /\ View(q) = [table |-> Extended(db.table, NewColumns(q)), tmp |-> Missing]
      /\ delCols[q] = db.table.cols \ Columns[q]
      /\ q \in reading /\ db.table # Missing /\ IsTable(db.table)
  <2>1. /\ View(q) = [table |-> Extended(db.table, NewColumns(q) \ addCols[q]), tmp |-> Missing]
        /\ delCols[q] = db.table.cols \ Columns[q]
        /\ q \in reading /\ db.table # Missing
    BY <1>1, <1>2 DEF Made, Holds
  <2>2. NewColumns(q) \ addCols[q] = NewColumns(q)
    BY <1>1
  <2> QED BY <1>2, <2>1, <2>2 DEF Types
<1>4. Types' /\ Apart(q)
  BY <1>1, <1>2 DEF Types, Apart, States
<1>5. AtOnce
  BY <1>1, <1>2 DEF AtOnce, Types
<1>6. View(q)' = View(q) /\ NewColumns(q)' = NewColumns(q)
  BY <1>1 DEF View, NewColumns
<1>7. CASE delCols[q] = {}
  <2>1. pc'[q] = "end" /\ fn'[q] = "nil" /\ db.table.cols \subseteq Columns[q]
    BY <1>1, <1>2, <1>3, <1>7 DEF Types
  <2>2. View(q)' = [table |-> Migrated(db.table, Columns[q]), tmp |-> Missing]
    BY <1>3, <1>6, <2>1, ExtendedIsMigrated DEF NewColumns
  <2>3. Made(q)'
    BY <1>1, <2>1, <2>2 DEF Made
  <2>4. Holds(q)'
    BY <1>1, <1>2, <1>3, <2>1 DEF Holds
  <2> QED BY <1>4, <1>5, <2>3, <2>4 DEF Keeps
<1>8. CASE delCols[q] # {}
  <2>1. pc'[q] = "copy" /\ ~ (db.table.cols \subseteq Columns[q])
    BY <1>1, <1>2, <1>3, <1>8 DEF Types
  <2>2. Made(q)'
    BY <1>1, <1>3, <1>6, <2>1 DEF Made
  <2>3. Holds(q)'
    BY <1>1, <1>2, <1>3, <2>1 DEF Holds
  <2> QED BY <1>4, <1>5, <2>2, <2>3 DEF Keeps
<1> QED BY <1>7, <1>8

LEMMA CopyTableKeeps ==
  ASSUME MInv, NEW q \in Programs, CopyTable(q)
  PROVE  Keeps(q)
<1>1. /\ pc[q] = "copy" /\ UNCHANGED <<db, addCols, delCols, fn, outcome>>
      /\ Write(q, [View(q) EXCEPT !.tmp = Selected(View(q).table, Columns[q])])
      /\ pc' = [pc EXCEPT ![q] = "drop"]
  BY DEF CopyTable, Goto
<1>2. Types /\ Made(q) /\ Holds(q)
  BY DEF MInv
<1> DEFINE new == [View(q) EXCEPT !.tmp = Selected(View(q).table, Columns[q])]
           t == Extended(db.table, NewColumns(q))
<1>3. /\ View(q) = [table |-> t, tmp |-> Missing]
      /\ ~ (db.table.cols \subseteq Columns[q])
      /\ q \in reading /\ db.table # Missing /\ IsTable(db.table)
  BY <1>1, <1>2 DEF Made, Holds, Types
<1>4. new = [table |-> t, tmp |-> Migrated(db.table, Columns[q])]
  <2> HIDE DEF t
  <2>1. new = [table |-> t, tmp |-> Selected(t, Columns[q])]
    BY <1>3
  <2>2. Selected(t, Columns[q]) = Migrated(db.table, Columns[q])
    BY <1>3, SelectedIsMigrated DEF t, NewColumns
  <2> QED BY <2>1, <2>2
<1>5. /\ Apart(q) /\ View(q)' = new /\ writer' = q /\ q \in reading'
      /\ writer' \in Programs \cup {None} /\ reading' \subseteq Programs
  <2> HIDE DEF new
  <2>1. Write(q, new)
    BY <1>1 DEF new
  <2> QED BY <1>1, <1>2, <2>1, WriteApart DEF Types
<1> HIDE DEF new, t
<1>6. Types'
  BY <1>1, <1>2, <1>5 DEF Types, States
<1>7. AtOnce
  BY <1>1, <1>2 DEF AtOnce, Types
<1>8. pc'[q] = "drop"
  BY <1>1, <1>2 DEF Types
<1>9. Made(q)'
  BY <1>1, <1>4, <1>5, <1>8 DEF Made
<1>10. Holds(q)'
  BY <1>1, <1>2, <1>3, <1>5, <1>8 DEF Holds
<1> QED BY <1>5, <1>6, <1>7, <1>9, <1>10 DEF Keeps

LEMMA DropTableKeeps ==
  ASSUME MInv, NEW q \in Programs, DropTable(q)
  PROVE  Keeps(q)
<1>1. /\ pc[q] = "drop" /\ UNCHANGED <<db, addCols, delCols, fn, outcome>>
      /\ Write(q, [View(q) EXCEPT !.table = Missing])
      /\ pc' = [pc EXCEPT ![q] = "rename"]
  BY DEF DropTable, Goto
<1>2. Types /\ Made(q) /\ Holds(q)
  BY DEF MInv
<1> DEFINE new == [View(q) EXCEPT !.table = Missing]
<1>3. /\ View(q).tmp = Migrated(db.table, Columns[q])
      /\ View(q) = [table |-> View(q).table, tmp |-> View(q).tmp]
      /\ q \in reading /\ db.table # Missing
  BY <1>1, <1>2 DEF Made, Holds
<1>4. new = [table |-> Missing, tmp |-> Migrated(db.table, Columns[q])]
  <2>1. PICK a, b : View(q) = [table |-> a, tmp |-> b]
    BY <1>3
  <2> QED BY <1>3, <2>1
<1>5. /\ Apart(q) /\ View(q)' = new /\ writer' = q /\ q \in reading'
      /\ writer' \in Programs \cup {None} /\ reading' \subseteq Programs
  <2> HIDE DEF new
  <2>1. Write(q, new)
    BY <1>1 DEF new
  <2> QED BY <1>1, <1>2, <2>1, WriteApart DEF Types
<1> HIDE DEF new
<1>6. Types'
  BY <1>1, <1>2, <1>5 DEF Types, States
<1>7. AtOnce
  BY <1>1, <1>2 DEF AtOnce, Types
<1>8. pc'[q] = "rename"
  BY <1>1, <1>2 DEF Types
<1>9. Made(q)'
  BY <1>1, <1>4, <1>5, <1>8 DEF Made
<1>10. Holds(q)'
  BY <1>1, <1>2, <1>3, <1>5, <1>8 DEF Holds
<1> QED BY <1>5, <1>6, <1>7, <1>9, <1>10 DEF Keeps

LEMMA RenameKeeps ==
  ASSUME MInv, NEW q \in Programs, Rename(q)
  PROVE  Keeps(q)
<1>1. /\ pc[q] = "rename" /\ UNCHANGED <<db, addCols, delCols, outcome>>
      /\ Write(q, [table |-> View(q).tmp, tmp |-> Missing])
      /\ pc' = [pc EXCEPT ![q] = "end"] /\ fn' = [fn EXCEPT ![q] = "nil"]
  BY DEF Rename, Goto, FnEnds
<1>2. Types /\ Made(q) /\ Holds(q)
  BY DEF MInv
<1> DEFINE new == [table |-> View(q).tmp, tmp |-> Missing]
<1>3. new = [table |-> Migrated(db.table, Columns[q]), tmp |-> Missing]
  BY <1>1, <1>2 DEF Made
<1>4. /\ Apart(q) /\ View(q)' = new /\ writer' = q /\ q \in reading'
      /\ writer' \in Programs \cup {None} /\ reading' \subseteq Programs
  <2> HIDE DEF new
  <2>1. Write(q, new)
    BY <1>1 DEF new
  <2> QED BY <1>1, <1>2, <2>1, WriteApart DEF Types
<1> HIDE DEF new
<1>5. Types'
  BY <1>1, <1>2, <1>4 DEF Types, States
<1>6. AtOnce
  BY <1>1, <1>2 DEF AtOnce, Types
<1>7. pc'[q] = "end" /\ fn'[q] = "nil" /\ outcome'[q] = outcome[q] /\ outcome[q] = "none"
  BY <1>1, <1>2 DEF Types, Holds
<1>8. Made(q)' /\ Holds(q)'
  BY <1>1, <1>3, <1>4, <1>7 DEF Made, Holds
<1> QED BY <1>4, <1>5, <1>6, <1>8 DEF Keeps

LEMMA FailsKeeps ==
  ASSUME MInv, NEW q \in Programs, Fails(q)
  PROVE  Keeps(q)
<1>1. /\ pc[q] \in {"create", "add", "copy", "drop", "rename"}
      /\ UNCHANGED <<db, addCols, delCols, outcome>>
      /\ UNCHANGED <<pending, writer, reading>> \/ Write(q, View(q))
      /\ pc' = [pc EXCEPT ![q] = "end"] /\ fn' = [fn EXCEPT ![q] = "error"]
  BY DEF Fails, Goto, FnEnds, locks
<1>2. Types /\ Made(q) /\ Holds(q)
  BY DEF MInv
<1>3. /\ Apart(q)
      /\ writer' \in Programs \cup {None} /\ reading' \subseteq Programs
      /\ writer' # None => writer' \in reading'
  <2>1. CASE UNCHANGED <<pending, writer, reading>>
    BY <1>1, <1>2, <2>1 DEF Apart, Types
  <2>2. CASE Write(q, View(q))
    <3>1. \A p \in Programs \ {q} :
           /\ pc'[p] = pc[p] /\ fn'[p] = fn[p] /\ outcome'[p] = outcome[p]
           /\ addCols'[p] = addCols[p] /\ delCols'[p] = delCols[p]
      BY <1>1, <1>2 DEF Types
    <3> DEFINE new == View(q)
    <3>2. Write(q, new)
      BY <2>2
    <3> HIDE DEF new
    <3> QED BY <1>1, <1>2, <3>1, <3>2, WriteApart
  <2> QED BY <1>1, <2>1, <2>2
<1>4. Types'
  BY <1>1, <1>2, <1>3 DEF Types, States
<1>5. AtOnce
  BY <1>1, <1>2 DEF AtOnce, Types
<1>6. pc'[q] = "end" /\ fn'[q] = "error" /\ outcome'[q] = outcome[q] /\ outcome[q] = "none"
  BY <1>1, <1>2 DEF Types, Holds
<1>7. Made(q)' /\ Holds(q)'
  BY <1>6 DEF Made, Holds
<1> QED BY <1>3, <1>4, <1>5, <1>7 DEF Keeps

LEMMA RollbackKeeps ==
  ASSUME MInv, NEW q \in Programs, Rollback(q)
  PROVE  Keeps(q)
<1>1. /\ pc[q] = "end" /\ fn[q] \in {"error", "panic"} /\ Release(q)
      /\ outcome' = [outcome EXCEPT ![q] = fn[q]] /\ pc' = [pc EXCEPT ![q] = "returned"]
      /\ UNCHANGED <<db, addCols, delCols, fn>>
  BY DEF Rollback, Returns, Goto
<1>2. Types /\ Made(q) /\ Holds(q)
  BY DEF MInv
<1>3. /\ Apart(q) /\ writer' # q /\ q \notin reading'
      /\ writer' \in Programs \cup {None} /\ reading' \subseteq Programs
      /\ writer' # None => writer' \in reading'
  BY <1>1, <1>2, ReleaseApart DEF Types
<1>4. Types'
  BY <1>1, <1>2, <1>3 DEF Types, States
<1>5. AtOnce
  BY <1>1, <1>2 DEF AtOnce, Types
<1>6. pc'[q] = "returned" /\ outcome'[q] # "none"
  BY <1>1, <1>2 DEF Types
<1>7. Made(q)' /\ Holds(q)'
  BY <1>3, <1>6 DEF Made, Holds
<1> QED BY <1>3, <1>4, <1>5, <1>7 DEF Keeps

LEMMA CommitKeeps ==
  ASSUME MInv, NEW q \in Programs, Commit(q)
  PROVE  Keeps(q)
<1>1. /\ pc[q] = "end" /\ fn[q] = "nil" /\ Release(q)
      /\ pc' = [pc EXCEPT ![q] = "returned"]
      /\ UNCHANGED <<addCols, delCols, fn>>
      /\ \/ /\ writer = q => reading = {q}
            /\ db' = View(q) /\ outcome' = [outcome EXCEPT ![q] = "nil"]
         \/ UNCHANGED db /\ outcome' = [outcome EXCEPT ![q] = "error"]
  BY DEF Commit, Returns, Goto
<1>2. Types /\ Made(q) /\ Holds(q)
  BY DEF MInv
<1>3. /\ View(q) = [table |-> Migrated(db.table, Columns[q]), tmp |-> Missing]
      /\ q \in reading /\ outcome[q] = "none"
  BY <1>1, <1>2 DEF Made, Holds
<1>4. \A p \in Programs \ {q} : p \in reading => db' = db
  <2>1. writer # q => View(q) = db
    BY DEF View
  <2> QED BY <1>1, <2>1
<1>5. /\ Apart(q) /\ writer' # q /\ q \notin reading'
      /\ writer' \in Programs \cup {None} /\ reading' \subseteq Programs
      /\ writer' # None => writer' \in reading'
  <2>1. \A p \in Programs \ {q} :
           /\ pc'[p] = pc[p] /\ fn'[p] = fn[p] /\ outcome'[p] = outcome[p]
           /\ addCols'[p] = addCols[p] /\ delCols'[p] = delCols[p]
    BY <1>1, <1>2 DEF Types
  <2> QED BY <1>1, <1>2, <1>4, <2>1, ReleaseApart
<1>6. IsTable(Migrated(db.table, Columns[q]))
  BY <1>2, ColumnsOf, MigratedIsTable DEF Types
<1>7. Types'
  <2>1. db' = [table |-> db'.table, tmp |-> Missing] /\ (db'.table = Missing \/ IsTable(db'.table))
    BY <1>1, <1>2, <1>3, <1>6 DEF Types
  <2> QED BY <1>1, <1>2, <1>5, <2>1 DEF Types, States
<1>8. AtOnce
  <2>1. CASE UNCHANGED db /\ outcome' = [outcome EXCEPT ![q] = "error"]
    BY <1>2, <2>1 DEF AtOnce, Types
  <2>2. CASE db' = View(q) /\ outcome' = [outcome EXCEPT ![q] = "nil"]
    <3>1. db' = [table |-> Migrated(db.table, Columns[q]), tmp |-> Missing]
      BY <1>3, <2>2
    <3>2. outcome[q] = "none" /\ outcome'[q] = "nil"
      BY <1>2, <1>3, <2>2 DEF Types
    <3>3. \A p \in Programs : outcome[p] = "none" /\ outcome'[p] = "nil" => p = q
      BY <1>2, <2>2 DEF Types
    <3>4. db'.table = Migrated(db.table, Columns[q])
      BY <3>1
    <3> QED BY <3>1, <3>2, <3>3, <3>4 DEF AtOnce
  <2> QED BY <1>1, <2>1, <2>2
<1>9. pc'[q] = "returned" /\ outcome'[q] # "none"
  BY <1>1, <1>2 DEF Types
<1>10. Made(q)' /\ Holds(q)'
  BY <1>5, <1>9 DEF Made, Holds
<1> QED BY <1>5, <1>7, <1>8, <1>10 DEF Keeps

LEMMA InsertKeeps ==
  ASSUME MInv, NEW q \in Programs, NEW k \in Keys, Insert(q, k)
  PROVE  Keeps(q)
<1>1. /\ pc[q] = "returned" /\ outcome[q] = "nil"
      /\ db.table # Missing /\ writer = None /\ reading = {}
      /\ db' = [db EXCEPT !.table = WithRow(@, Columns[q], k)]
      /\ UNCHANGED <<pending, writer, reading, pc, addCols, delCols, fn, outcome>>
  BY DEF Insert, Inserts, locks
<1>2. Types /\ Made(q) /\ Holds(q)
  BY DEF MInv
<1>3. /\ db' = [table |-> WithRow(db.table, Columns[q], k), tmp |-> Missing]
      /\ IsTable(db.table)
  BY <1>1, <1>2 DEF Types
<1>4. IsTable(WithRow(db.table, Columns[q], k))
  BY <1>3, WithRowIsTable
<1>5. Types'
  <2>1. db' = [table |-> db'.table, tmp |-> Missing] /\ (db'.table = Missing \/ IsTable(db'.table))
    BY <1>3, <1>4
  <2> QED BY <1>1, <1>2, <2>1 DEF Types
<1>6. Apart(q)
  BY <1>1 DEF Apart
<1>7. AtOnce
  BY <1>1 DEF AtOnce
<1>8. Made(q)' /\ Holds(q)'
  BY <1>1, <1>2 DEF Made, Holds
<1> QED BY <1>5, <1>6, <1>7, <1>8 DEF Keeps

LEMMA StartKeeps ==
  ASSUME MInv, NEW q \in Programs, Start(q)
  PROVE  Keeps(q)
<1>1. /\ Release(q) /\ pc' = [pc EXCEPT ![q] = "begin"]
      /\ addCols' = [addCols EXCEPT ![q] = {}] /\ delCols' = [delCols EXCEPT ![q] = {}]
      /\ fn' = [fn EXCEPT ![q] = "none"] /\ outcome' = [outcome EXCEPT ![q] = "none"]
      /\ UNCHANGED db
  BY DEF Start, Goto
<1>2. Types
  BY DEF MInv
<1>3. /\ Apart(q) /\ writer' # q /\ q \notin reading'
      /\ writer' \in Programs \cup {None} /\ reading' \subseteq Programs
      /\ writer' # None => writer' \in reading'
  BY <1>1, <1>2, ReleaseApart DEF Types
<1>4. Types'
  <2>1. addCols' \in [Programs -> SUBSET AllColumns] /\ delCols' \in [Programs -> SUBSET AllColumns]
    BY <1>1, <1>2 DEF Types
  <2> QED BY <1>1, <1>2, <1>3, <2>1 DEF Types, States
<1>5. AtOnce
  BY <1>1, <1>2 DEF AtOnce, Types
<1>6. pc'[q] = "begin" /\ outcome'[q] = "none"
  BY <1>1, <1>2 DEF Types
<1>7. Made(q)' /\ Holds(q)'
  BY <1>3, <1>6 DEF Made, Holds
<1> QED BY <1>3, <1>4, <1>5, <1>7 DEF Keeps

LEMMA StepKeeps ==
  ASSUME MInv, Next
  PROVE  MInv' /\ AtOnce
<1>1. PICK q \in Programs : Migrate(q) \/ Start(q) \/ \E k \in Keys : Insert(q, k)
  BY DEF Next
<1>2. Keeps(q)
  <2>1. CASE Migrate(q)
    BY <2>1, BeginKeeps, HasTableKeeps, CreateTableKeeps, CompareKeeps, AddColumnKeeps,
       ColumnsAddedKeeps, CopyTableKeeps, DropTableKeeps, RenameKeeps, FailsKeeps,
       RollbackKeeps, CommitKeeps DEF Migrate
  <2>2. CASE Start(q)
    BY <2>2, StartKeeps
  <2>3. CASE \E k \in Keys : Insert(q, k)
    BY <2>3, InsertKeeps
  <2> QED BY <1>1, <2>1, <2>2, <2>3
<1>3. \A p \in Programs \ {q} : Made(p)' /\ Holds(p)'
  BY <1>2, OthersKeep DEF Keeps
<1> QED BY <1>2, <1>3 DEF Keeps, MInv

LEMMA InitMInv == Init => MInv
<1> SUFFICES ASSUME Init PROVE MInv
  OBVIOUS
<1>1. db = [table |-> db.table, tmp |-> Missing] /\ db.table \in Tables
  BY DEF Init
<1>2. Types
  BY <1>1, TablesAssumption DEF Init, Types, States
<1>3. \A p \in Programs : Made(p) /\ Holds(p)
  BY TablesAssumption DEF Init, Made, Holds
<1> QED BY <1>2, <1>3 DEF MInv

(* What the transaction of Migrate has made of the table it found, at each *)
(* place in it (geeorm.go:114-162).                                        *)
THEOREM Invariance == Spec => []MInv
<1>1. MInv /\ [Next]_vars => MInv'
  <2> SUFFICES ASSUME MInv, [Next]_vars PROVE MInv'
    OBVIOUS
  <2>1. CASE UNCHANGED vars
    BY <2>1 DEF vars, locks, MInv, Types, Made, Holds, View, NewColumns
  <2> QED BY <2>1, StepKeeps
<1> QED BY <1>1, InitMInv, PTL DEF Spec

(* What is committed changes by an Insert or by a whole migration of the   *)
(* table as it is then, and a Migrate that returns nil has done one        *)
(* (geeorm.go:114-162).                                                    *)
THEOREM Migrates == Spec => MigratesAtOnce
<1>1. MInv /\ [Next]_vars => [AtOnce]_vars
  BY StepKeeps
<1> QED BY <1>1, Invariance, PTL DEF Spec, MigratesAtOnce, AtOnce
=============================================================================

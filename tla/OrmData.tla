------------------------------- MODULE OrmData -------------------------------
(***************************************************************************)
(* A small SQL database, and the statements that GeeORM builds for it: a   *)
(* table is missing, or a function from the keys of its rows to values.    *)
(***************************************************************************)
EXTENDS Integers, FiniteSets, Sequences

CONSTANTS
  Tables,   \* the tables, one for each model
  Ids,      \* primary keys, numbers in the order the database returns rows
  Vals,     \* values of the other column
  Missing   \* instead of a table

ASSUME DataAssumption ==
  /\ IsFiniteSet(Ids) /\ Ids \subseteq Nat
  /\ Missing \notin UNION {[I -> Vals] : I \in SUBSET Ids}

Rows == UNION {[I -> Vals] : I \in SUBSET Ids}

Databases == [Tables -> Rows \cup {Missing}]

(* What one call asks for.  A condition is the set of keys it matches, and *)
(* all keys when there is none.                                            *)
Statements ==
  [op : {"insert"}, table : Tables, id : Ids, val : Vals]
    \cup [op : {"update"}, table : Tables, where : SUBSET Ids, val : Vals]
    \cup [op : {"delete"}, table : Tables, where : SUBSET Ids]
    \cup [op : {"find"}, table : Tables, where : SUBSET Ids, limit : BOOLEAN]
    \cup [op : {"count", "has", "create", "drop"}, table : Tables]

HasCondition(st) == st.op \in {"find", "update", "delete"}

IsWrite(st) == st.op \notin {"find", "count", "has"}

\* The rows of r that have keys in I.
Only(r, I) == [i \in DOMAIN r \cap I |-> r[i]]

First(r) ==
  IF DOMAIN r = {} THEN r
  ELSE Only(r, {CHOOSE i \in DOMAIN r : \A j \in DOMAIN r : i <= j})

(* The database refuses the statement. *)
Refused(db, st) ==
  CASE st.op = "create" -> db[st.table] # Missing
    [] st.op \in {"drop", "has"} -> FALSE
    [] st.op = "insert" -> db[st.table] = Missing \/ st.id \in DOMAIN db[st.table]
    [] OTHER -> db[st.table] = Missing

(* The database after a statement it does not refuse. *)
Effect(db, st) ==
  LET r == db[st.table] IN
  CASE st.op = "insert" ->
         [db EXCEPT ![st.table] = [i \in DOMAIN r \cup {st.id} |->
                                     IF i = st.id THEN st.val ELSE r[i]]]
    [] st.op = "update" ->
         [db EXCEPT ![st.table] = [i \in DOMAIN r |->
                                     IF i \in st.where THEN st.val ELSE r[i]]]
    [] st.op = "delete" -> [db EXCEPT ![st.table] = Only(r, Ids \ st.where)]
    [] st.op = "create" -> [db EXCEPT ![st.table] = <<>>]
    [] st.op = "drop" -> [db EXCEPT ![st.table] = Missing]
    [] OTHER -> db

(* What it returns: rows, a number of rows, or nothing. *)
Result(db, st) ==
  LET r == db[st.table] IN
  CASE st.op = "find" ->
         IF st.limit THEN First(Only(r, st.where)) ELSE Only(r, st.where)
    [] st.op = "count" -> Cardinality(DOMAIN r)
    [] st.op = "has" -> IF r = Missing THEN 0 ELSE 1
    [] st.op \in {"update", "delete"} -> Cardinality(DOMAIN r \cap st.where)
    [] st.op = "insert" -> 1
    [] OTHER -> 0
=============================================================================

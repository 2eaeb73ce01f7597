---------------------------- MODULE MCOrmMigrate ----------------------------
(* Versions of a program that add a column, replace it and do without it,  *)
(* on a database without the table, and with a table of one row.           *)
EXTENDS OrmMigrate, TLC

CONSTANTS v1, v2, v3, Name, Age, Score

MCColumns == (v1 :> {Name}) @@ (v2 :> {Name, Age}) @@ (v3 :> {Name, Score})

MCTables ==
  {Missing,
   [cols |-> {Name}, key |-> TRUE,
    rows |-> <<[c \in {Name} |-> 1]>>]}
=============================================================================

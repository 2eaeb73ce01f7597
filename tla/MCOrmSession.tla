---------------------------- MODULE MCOrmSession ----------------------------
(***************************************************************************)
(* Two transactions and a session outside of one, on two tables.  Every    *)
(* kind of call occurs, after calls with and without a condition, a limit  *)
(* or a hook and after a change of the model.                              *)
(***************************************************************************)
EXTENDS OrmSession

CONSTANTS t1, t2, p1, User, Account

MCStores ==
  {[t \in Tables |-> IF t = User THEN [i \in {1, 2} |-> 0] ELSE r] :
     r \in {Missing, [i \in {1} |-> 0]}}

Insert(t, i) == [op |-> "insert", table |-> t, id |-> i, val |-> 0]
Update(t, w, v) == [op |-> "update", table |-> t, where |-> w, val |-> v]
Delete(t, w) == [op |-> "delete", table |-> t, where |-> w]
Find(t, w) == [op |-> "find", table |-> t, where |-> w, limit |-> FALSE]
FindFirst(t, w) == [op |-> "find", table |-> t, where |-> w, limit |-> TRUE]
OnTable(op, t) == [op |-> op, table |-> t]

MCScripts(s) ==
  CASE s = t1 -> {<<Update(User, {1}, 1), Find(User, Ids)>>,
                  <<FindFirst(User, {2}), Delete(User, Ids)>>,
                  <<Insert(User, 3), OnTable("count", User)>>}
    [] s = t2 -> {<<Find(User, {1}), Update(Account, Ids, 1)>>,
                  <<OnTable("has", Account), OnTable("drop", User)>>}
    [] s = p1 -> {<<FindFirst(Account, Ids), Update(User, Ids, 1)>>,
                  <<Delete(User, {2}), Insert(Account, 1)>>,
                  <<OnTable("create", Account), OnTable("count", User)>>}

MCScriptsOf == [s \in Sessions |-> MCScripts(s)]
=============================================================================

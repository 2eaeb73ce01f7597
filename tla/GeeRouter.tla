----------------------------- MODULE GeeRouter ------------------------------
(* The router of Gee (Gee/gee/trie.go, router.go): a trie of route parts   *)
(* for each method, and the handlers by method and pattern.                *)
(*                                                                         *)
(* A path or pattern is the sequence of its segments, each with the `/'    *)
(* before it: << >> is the empty string, <<Empty>> is `/', and the         *)
(* concatenation of strings is that of sequences.  A node of the trie is   *)
(* the sequence of the parts on the way to it; the root is << >>.          *)
EXTENDS Integers, SequencesExt, TLC

CONSTANTS
  Empty,          \* the segment between two slashes
  Params, Stars   \* segments that begin with `:' and with `*', each with a name of its own

ASSUME SegmentAssumption == Params \cap Stars = {} /\ Empty \notin Params \cup Stars

Wild == Params \cup Stars

IsWild(part) == part \in Wild

(* The elements of s that are in T, in their order. *)
Filter(s, T) ==
  LET kept[i \in 0 .. Len(s)] ==
        IF i = 0 THEN << >>
        ELSE IF s[i] \in T THEN Append(kept[i - 1], s[i]) ELSE kept[i - 1]
  IN kept[Len(s)]

(* Segments that are not empty, up to the first that begins with `*'.      *)
ParsePattern(pattern) ==
  LET ps == Filter(pattern, Range(pattern) \ {Empty})
      star == SelectInSeq(ps, LAMBDA p : p \in Stars)
  IN IF star = 0 THEN ps ELSE SubSeq(ps, 1, star)

NewNode == [pattern |-> << >>, children |-> << >>]
EmptyTrie == [n \in {<< >>} |-> NewNode]

(* map[key] = value *)
Put(map, key, value) ==
  [k \in DOMAIN map \cup {key} |-> IF k = key THEN value ELSE map[k]]

(* The position of the first child that fits part, 0 if there is none. *)
MatchFirstChild(node, part) ==
  SelectInSeq(node.children, LAMBDA c : c = part \/ IsWild(c))

MatchChildren(node, part) == Filter(node.children, {part} \cup Wild)

(* One level of insert: to the child that fits part, or to a new one. *)
Descend(trie, n, part) ==
  LET i == MatchFirstChild(trie[n], part)
  IN IF i # 0
     THEN [trie |-> trie, at |-> Append(n, trie[n].children[i])]
     ELSE [trie |-> Put([trie EXCEPT ![n].children = Append(@, part)],
                        Append(n, part), NewNode),
           at   |-> Append(n, part)]

Insert(trie, pattern) ==
  LET parts == ParsePattern(pattern)
      walk[i \in 0 .. Len(parts)] ==
        IF i = 0 THEN [trie |-> trie, at |-> << >>]
        ELSE Descend(walk[i - 1].trie, walk[i - 1].at, parts[i])
      leaf == walk[Len(parts)]
  IN [leaf.trie EXCEPT ![leaf.at].pattern = pattern]

NoNode == <<Empty>>

(* Mutant of Search: the first child that fits is the only one tried. *)
SearchNoBacktrack(trie, parts) ==
  LET search[n \in DOMAIN trie] ==
        IF Len(n) = Len(parts) \/ (n # << >> /\ Last(n) \in Stars)
        THEN IF trie[n].pattern = << >> THEN NoNode ELSE n
        ELSE LET i == MatchFirstChild(trie[n], parts[Len(n) + 1])
             IN IF i = 0 THEN NoNode
                ELSE search[Append(n, trie[n].children[i])]
  IN search[<< >>]

(* Depth first, in the order of the children, as deep as the path or to a  *)
(* `*' node; a node without pattern is not found.                          *)
Search(trie, parts) ==
  LET search[n \in {m \in DOMAIN trie : Len(m) <= Len(parts)}] ==
        IF Len(n) = Len(parts) \/ (n # << >> /\ Last(n) \in Stars)
        THEN IF trie[n].pattern = << >> THEN NoNode ELSE n
        ELSE LET fits == MatchChildren(trie[n], parts[Len(n) + 1])
                 hit == SelectInSeq(fits, LAMBDA c : search[Append(n, c)] # NoNode)
             IN IF hit = 0 THEN NoNode ELSE search[Append(n, fits[hit])]
  IN search[<< >>]

(* getRoute: the pattern of the node that is found. *)
GetRoute(trie, path) ==
  LET n == Search(trie, ParsePattern(path))
  IN IF n = NoNode THEN << >> ELSE trie[n].pattern

(* getRoute: what the wildcards of the pattern stand for in the path; of   *)
(* two with one name the last.                                             *)
GetParams(pattern, path) ==
  LET ps == ParsePattern(pattern)
      ss == ParsePattern(path)
      last(part) == SelectLastInSeq(ps, LAMBDA p : p = part)
  IN [part \in {p \in Range(ps) : IsWild(p)} |->
        IF part \in Params THEN <<ss[last(part)]>>
        ELSE SubSeq(ss, last(part), Len(ss))]
-----------------------------------------------------------------------------
(* What routes mean, without a trie.                                       *)
Fits(pattern, path) ==
  LET ps == ParsePattern(pattern)
      ss == ParsePattern(path)
  IN /\ \/ Len(ps) = Len(ss)
        \/ ps # << >> /\ Last(ps) \in Stars /\ Len(ps) <= Len(ss)
     /\ \A i \in DOMAIN ps : ps[i] = ss[i] \/ IsWild(ps[i])

(* The kinds of two parts: their own name, `:' or `*'. *)
SameKind(a, b) == a = b \/ {a, b} \subseteq Params \/ {a, b} \subseteq Stars

AgreeUpTo(ps, qs, i) ==
  /\ i <= Len(ps) /\ i <= Len(qs)
  /\ \A j \in 1 .. i : SameKind(ps[j], qs[j])

(* ps is more specific: the first part in which they differ is its own.    *)
Beats(ps, qs) ==
  \E i \in DOMAIN ps :
    /\ i <= Len(qs) /\ AgreeUpTo(ps, qs, i - 1)
    /\ ~IsWild(ps[i]) /\ IsWild(qs[i])

(* Of the patterns in table (in the order they were registered) that fit,  *)
(* the last one that no other beats.                                       *)
BestRoute(table, path) ==
  LET fits == {i \in DOMAIN table : Fits(table[i], path)}
      best == {i \in fits : \A j \in fits :
                 ~Beats(ParsePattern(table[j]), ParsePattern(table[i]))}
  IN IF best = {} THEN << >>
     ELSE table[CHOOSE i \in best : \A j \in best : j <= i]

(* Pattern j comes to a place where an earlier one has put a wildcard of   *)
(* another kind, with nothing of j's own kind there before.                *)
Diverted(table, j) ==
  LET parts(i) == ParsePattern(table[i])
  IN \E i \in 1 .. j - 1 : \E l \in DOMAIN parts(j) :
       /\ l <= Len(parts(i)) /\ AgreeUpTo(parts(i), parts(j), l - 1)
       /\ IsWild(parts(i)[l]) /\ ~SameKind(parts(i)[l], parts(j)[l])
       /\ ~\E k \in 1 .. i - 1 : AgreeUpTo(parts(k), parts(j), l)

(* No wildcard has its name twice. *)
NamedOnce(pattern) ==
  LET ps == ParsePattern(pattern)
  IN \A i, j \in DOMAIN ps : IsWild(ps[i]) /\ ps[i] = ps[j] => i = j

(* The pattern with its wildcards filled in. *)
Filled(pattern, params) ==
  FlattenSeq([i \in DOMAIN ParsePattern(pattern) |->
                LET part == ParsePattern(pattern)[i]
                IN IF IsWild(part) THEN params[part] ELSE <<part>>])

NoneDiverted(table) == \A j \in DOMAIN table : ~Diverted(table, j)
=============================================================================

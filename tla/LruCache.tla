------------------------------ MODULE LruCache ------------------------------
(***************************************************************************)
(* The operations of GeeCache/geecache/lru/lru.go on one Cache, as         *)
(* operators on a record: `list' is the doubly linked list from its front, *)
(* by key, `cache' the map with the entries its elements hold, `used' is   *)
(* usedBytes and `calls' the entries given to onCallback.                  *)
(***************************************************************************)
EXTENDS Integers, Sequences, SequencesExt

CONSTANTS
  MaxBytes,     \* maxBytes; 0 is no limit
  KeyLen(_),    \* len(key)
  ValueLen(_),  \* value.Len()
  HasCallback   \* New was given a callback

(* With a negative maxBytes the loop of Set would never end. *)
ASSUME LruAssumption == MaxBytes \in Nat /\ HasCallback \in BOOLEAN

EmptyLru == [list |-> <<>>, cache |-> <<>>, used |-> 0, calls |-> <<>>]

Cached(c) == DOMAIN c.cache

(* Those in front of the element of k move back by one. *)
MoveToFront(list, k) ==
  LET i == CHOOSE i \in DOMAIN list : list[i] = k
  IN [j \in DOMAIN list |-> IF j = 1 THEN k
                            ELSE IF j <= i THEN list[j - 1] ELSE list[j]]

(* Mutant of LruGet: the entry keeps its place. *)
LruPeek(c, k) == c

(* Get finds the entry, and makes it the most recently used one. *)
LruGet(c, k) ==
  IF k \in Cached(c) THEN [c EXCEPT !.list = MoveToFront(@, k)] ELSE c

(* Mutant of LruRemoveOldest: the map keeps the key. *)
LruRemoveFromList(c) ==
  IF c.list = <<>> THEN c
  ELSE [c EXCEPT !.list = Front(@),
                 !.used = @ - (ValueLen(c.cache[Last(c.list)]) + KeyLen(Last(c.list)))]

(* RemoveOldest drops the entry at the back of the list, if there is one. *)
LruRemoveOldest(c) ==
  IF c.list = <<>> THEN c
  ELSE LET k == Last(c.list)
           v == c.cache[k]
       IN [list  |-> Front(c.list),
           cache |-> [j \in Cached(c) \ {k} |-> c.cache[j]],
           used  |-> c.used - (ValueLen(v) + KeyLen(k)),
           calls |-> IF HasCallback THEN Append(c.calls, <<k, v>>) ELSE c.calls]

(* A cached key keeps its place in the list, a new one goes to the front. *)
LruStore(c, k, v) ==
  LET cached == k \in Cached(c)
  IN [list  |-> IF cached THEN c.list ELSE <<k>> \o c.list,
      cache |-> [j \in Cached(c) \cup {k} |-> IF j = k THEN v ELSE c.cache[j]],
      used  |-> c.used + ValueLen(v)
                  + (IF cached THEN -ValueLen(c.cache[k]) ELSE KeyLen(k)),
      calls |-> c.calls]

(* Mutant of TooBig: a cache that is exactly full is shrunk. *)
TooFull(c) == MaxBytes # 0 /\ MaxBytes <= c.used

TooBig(c) == MaxBytes # 0 /\ MaxBytes < c.used

(* The loop of Set: it ends at the latest when the list is empty. *)
Shrink(c) ==
  LET round[n \in 0 .. Len(c.list)] ==
        IF n = 0 THEN c
        ELSE LET s == round[n - 1]
             IN IF TooBig(s) THEN LruRemoveOldest(s) ELSE s
  IN round[Len(c.list)]

LruSet(c, k, v) == Shrink(LruStore(c, k, v))
=============================================================================

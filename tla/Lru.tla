--------------------------------- MODULE Lru ---------------------------------
(***************************************************************************)
(* One lru.Cache under any sequence of calls of its methods.               *)
(***************************************************************************)
EXTENDS LruCache

CONSTANTS LruKeys, LruValues

(* Sizes are the lengths of strings and of bytes. *)
ASSUME SizeAssumption ==
  \A k \in LruKeys, v \in LruValues : KeyLen(k) \in Nat /\ ValueLen(v) \in Nat

VARIABLES
  lru,     \* the Cache; lru.calls holds the callbacks of the last operation
  younger  \* history: younger[k] is the keys inserted or found since k was

lruVars == <<lru, younger>>

LruInit ==
  /\ lru = EmptyLru
  /\ younger = [k \in LruKeys |-> {}]

(* k becomes the youngest key of all. *)
Use(k) ==
  younger' = [j \in LruKeys |-> IF j = k THEN {} ELSE younger[j] \cup {k}]

Fresh == [lru EXCEPT !.calls = <<>>]

-----------------------------------------------------------------------------
GetStep(k) ==
  /\ lru' = LruGet(Fresh, k)
  /\ IF k \in Cached(lru) THEN Use(k) ELSE UNCHANGED younger

RemoveStep ==
  /\ lru' = LruRemoveOldest(Fresh)
  /\ UNCHANGED younger

SetStep(k, v) ==
  /\ lru' = LruSet(Fresh, k, v)
  /\ IF k \in Cached(lru) THEN UNCHANGED younger ELSE Use(k)

LruNext ==
  \/ \E k \in LruKeys : GetStep(k)
  \/ RemoveStep
  \/ \E k \in LruKeys, v \in LruValues : SetStep(k, v)

LruSpec == LruInit /\ [][LruNext]_lruVars

-----------------------------------------------------------------------------
Size(k, v) == KeyLen(k) + ValueLen(v)

LruTypes ==
  /\ lru.list \in Seq(LruKeys)
  /\ Cached(lru) \subseteq LruKeys
  /\ \A k \in Cached(lru) : lru.cache[k] \in LruValues
  /\ lru.used \in Nat
  /\ lru.calls \in Seq(LruKeys \X LruValues)
  /\ younger \in [LruKeys -> SUBSET LruKeys]

(* The list and the map hold the same keys, each once: no element of the   *)
(* list is unreachable and the map never points at a removed element.      *)
ListMatchesMap ==
  /\ ToSet(lru.list) = Cached(lru)
  /\ Len(lru.list) = Cardinality(Cached(lru))

(* The bytes of the entries of c, added up along its list. *)
Bytes(c) ==
  LET upTo[n \in 0 .. Len(c.list)] ==
        IF n = 0 THEN 0 ELSE upTo[n - 1] + Size(c.list[n], c.cache[c.list[n]])
  IN upTo[Len(c.list)]

(* usedBytes is the size of what is held, whatever was inserted, updated   *)
(* and evicted before, and never above the budget once an operation ended. *)
UsedIsExact ==
  /\ lru.used = Bytes(lru)
  /\ MaxBytes # 0 => lru.used <= MaxBytes

(* The map, the list and the count of the bytes agree. *)
Consistent == LruTypes /\ ListMatchesMap /\ UsedIsExact

(* LRU order (lru.go:7): a key leaves the cache only when every key that   *)
(* stays was inserted or found after it.                                   *)
EvictsLeastRecent ==
  [][\A k \in Cached(lru) \ Cached(lru') : Cached(lru') \subseteq younger'[k]]_lruVars

(* Set evicts no more than the budget forces it to: with the last entry it *)
(* evicted the cache would still be too big.                               *)
EvictsNoMoreThanNeeded ==
  [][(\E k \in LruKeys, v \in LruValues : SetStep(k, v)) /\ lru'.calls # <<>>
       => lru'.used + Size(Last(lru'.calls)[1], Last(lru'.calls)[2]) > MaxBytes]_lruVars

(* onCallback gets each entry that leaves, once and with the value it had, *)
(* oldest first; a value too big for the whole cache is evicted by its own *)
(* Set.                                                                    *)
CallbackPerEviction ==
  [][HasCallback =>
       LET gone == [i \in DOMAIN lru'.calls |-> lru'.calls[i][1]]
       IN /\ IsInjective(gone)
          /\ Cached(lru) \ Cached(lru') \subseteq ToSet(gone)
          /\ ToSet(gone) \cap Cached(lru') = {}
          /\ \A i, j \in DOMAIN gone : i < j => gone[j] \in younger'[gone[i]]]_lruVars

(* What an operation evicts, and tells onCallback of, is what it has to.   *)
EvictsExactly == EvictsNoMoreThanNeeded /\ CallbackPerEviction
=============================================================================

--------------------------- MODULE MCCacheCluster ---------------------------
(* Two nodes with one client each.  n1 owns a key of the source; n2 owns   *)
(* `a b', which its URL carries as `a+b', and `a+b', which the source does *)
(* not have.  A cache holds one entry.  Two handlers are enough: a handler *)
(* runs on the node that owns its key, so it never waits for another one.  *)
EXTENDS CacheCluster

CONSTANTS n1, n2, cl1, cl2, tom, a_b, aPlusB, empty, vTom, vAB

MCNodes == {n1, n2}
MCKeys == {tom, a_b, aPlusB, empty}
MCClientKeys == (cl1 :> {tom, a_b}) @@ (cl2 :> {tom, empty})
MCClients == {cl1, cl2}
MCNodeOf == (cl1 :> n1) @@ (cl2 :> n2)
(* A circle of ten hashes: `tom' is hashed to a virtual node of n1, the    *)
(* empty key behind the last virtual node, so that the ring wraps to n1.   *)
MCHashVirtual == (n1 :> (0 :> 5 @@ 1 :> 2)) @@ (n2 :> (0 :> 4 @@ 1 :> 7))
MCHashKey == (tom :> 5) @@ (a_b :> 3) @@ (aPlusB :> 6) @@ (empty :> 8)
MCWire == [k \in MCKeys |-> IF k = a_b THEN aPlusB ELSE k]
MCSource == (tom :> vTom) @@ (a_b :> vAB) @@ (aPlusB :> Missing) @@ (empty :> Missing)
MCKeyLen(k) == 1
MCValueLen(v) == 1
=============================================================================

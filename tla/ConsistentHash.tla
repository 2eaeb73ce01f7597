--------------------------- MODULE ConsistentHash ---------------------------
(* The hash ring of GeeCache (GeeCache/geecache/consistenthash): the       *)
(* sorted hashes of the virtual nodes and the node of each hash.           *)
EXTENDS Integers, SequencesExt

CONSTANTS
  Peers,        \* the names that are added
  RingKeys,     \* the names that are looked up
  NoPeer,       \* "", the answer of an empty ring
  Replicas,     \* virtual nodes per peer
  HashSize,     \* 2^32: hashes are 0 .. HashSize - 1
  HashVirtual,  \* HashVirtual[p][i]: the hash of strconv.Itoa(i) + p
  HashKey       \* HashKey[k]: the hash of k

Virtual == Peers \X (0 .. Replicas - 1)
HashOf(v) == HashVirtual[v[1]][v[2]]

(* Two virtual nodes with one hash would be one entry of hashMap, of the   *)
(* peer added last.  crc32 keeps the 150 of GeeCache/main.go apart.        *)
ASSUME HashAssumption ==
  /\ Replicas \in Nat \ {0} /\ HashSize \in Nat
  /\ \A v \in Virtual : HashOf(v) \in 0 .. HashSize - 1
  /\ \A k \in RingKeys : HashKey[k] \in 0 .. HashSize - 1
  /\ \A v, w \in Virtual : HashOf(v) = HashOf(w) => v = w

EmptyRing == [keys |-> << >>, hashMap |-> << >>]

(* The virtual nodes of peers, in the order Add puts them on the ring. *)
VirtualSeq(peers) ==
  [j \in 1 .. Len(peers) * Replicas |->
     <<peers[((j - 1) \div Replicas) + 1], (j - 1) % Replicas>>]

(* append and hashMap[hash] = key for each of them, in turn. *)
PutAll(ring, peers) ==
  LET vs == VirtualSeq(peers)
      hashes == [j \in DOMAIN vs |-> HashOf(vs[j])]
      lastAt(h) == CHOOSE j \in DOMAIN vs :
                     /\ hashes[j] = h
                     /\ \A i \in DOMAIN vs : hashes[i] = h => i <= j
  IN [keys    |-> ring.keys \o hashes,
      hashMap |-> [h \in DOMAIN ring.hashMap \cup {hashes[j] : j \in DOMAIN vs} |->
                     IF \E j \in DOMAIN vs : hashes[j] = h
                     THEN vs[lastAt(h)][1] ELSE ring.hashMap[h]]]

(* sort.Ints: s in another order, in which nothing decreases. *)
Sorted(s) ==
  CHOOSE t \in {[i \in DOMAIN s |-> s[p[i]]] : p \in Bijection(DOMAIN s, DOMAIN s)} :
    \A i, j \in DOMAIN s : i < j => t[i] <= t[j]

(* Mutant of RingAdd: the ring is not sorted. *)
RingAddUnsorted(ring, peers) == PutAll(ring, peers)

RingAdd(ring, peers) ==
  LET r == PutAll(ring, peers)
  IN [r EXCEPT !.keys = Sorted(@)]

(* sort.Search: the first position from which hashes reach h, if any. *)
FirstAtLeast(keys, h) ==
  LET found == {i \in DOMAIN keys : keys[i] >= h}
  IN IF found = {} THEN Len(keys) + 1
     ELSE CHOOSE i \in found : \A j \in found : i <= j

RingGet(ring, k) ==
  IF ring.keys = << >> THEN NoPeer
  ELSE LET i == FirstAtLeast(ring.keys, HashKey[k])
       IN ring.hashMap[ring.keys[((i - 1) % Len(ring.keys)) + 1]]

(* What the comment at consistenthash.go:10-12 asks for: the peer whose    *)
(* virtual node is the first one clockwise from the key, round the circle. *)
Clockwise(a, b) == (b - a) % HashSize

NextPeer ==
  [k \in RingKeys |->
     (CHOOSE v \in Virtual :
        \A w \in Virtual : Clockwise(HashKey[k], HashOf(v))
                             <= Clockwise(HashKey[k], HashOf(w)))[1]]
=============================================================================

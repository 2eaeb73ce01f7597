-------------------------------- MODULE MCLru --------------------------------
(* Values of one, two and six bytes in a cache of six, so that a new      *)
(* entry, an update and an entry that alone is too big all evict.          *)
EXTENDS Lru

MCKeyLen(k) == 1
MCValueLen(v) == v
=============================================================================

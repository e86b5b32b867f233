------------------------------- MODULE P4Cache -------------------------------
(***************************************************************************)
(* The fixed-slot, direct-indexed cache of a P4 switch (P4Cache<K,V> in    *)
(* src/switchv2p/include/p4-cache.h).                                      *)
(*                                                                         *)
(* A cache is a function from slot indices to records                      *)
(*     [key |-> k, val |-> v, bit |-> b]                                   *)
(* standing for m_array[idx] = (key, value) and m_bits[idx].  The slot of  *)
(* a key is GetIndex(key) = CRC32(key, salt) % m_cacheSize; it is          *)
(* abstracted to an index j that the caller computes from a constant hash  *)
(* table, so every operator takes the slot j of the key it works on.       *)
(* NoKey and NoVal stand for the sentinel 0 of an empty slot.              *)
(*                                                                         *)
(* The operators are pure: each returns the cache after the call, and the  *)
(* value-returning calls (Find, the hit of Get, the eviction of Put) are   *)
(* separate operators over the cache before the call.                      *)
(***************************************************************************)
EXTENDS Naturals, TLC

CONSTANTS NoKey, NoVal

\* The slot written by Setup(): first = 0, second = 0, bit = 0.
EmptySlot == [key |-> NoKey, val |-> NoVal, bit |-> 0]

\* Find(key): the slot of key holds key with a non-zero value.
Find(c, j, k) == c[j].key = k /\ c[j].val # NoVal

\* Get(key, value): on a hit the value is c[j].val and the slot's access
\* bit is set; on a miss the access bit of the slot is cleared, whichever
\* key occupies it.
Get(c, j, k) == [c EXCEPT ![j].bit = IF Find(c, j, k) THEN 1 ELSE 0]

\* GetBit(key): the access bit of the key's slot.
GetBit(c, j) == c[j].bit

\* PutIfNotEvict(key, value): writes only when the slot is empty or already
\* holds key; the access bit is left as it was.
PutIfNotEvict(c, j, k, v) ==
    IF c[j].key \notin {NoKey, k}
    THEN c
    ELSE [c EXCEPT ![j].key = k, ![j].val = v]

\* Put(key, value, evicted) reports an eviction when the slot held another
\* key, and the evicted pair is the previous occupant.
Evicts(c, j, k) == c[j].key \notin {NoKey, k}
Evicted(c, j) == <<c[j].key, c[j].val>>

\* Put(key, value, evicted) always overwrites the slot and clears its bit.
Put(c, j, k, v) == [c EXCEPT ![j] = [key |-> k, val |-> v, bit |-> 0]]

\* Remove(key) asserts that the slot holds key, then empties the slot.
Remove(c, j, k) ==
    IF Assert(c[j].key = k, "P4Cache::Remove of a key its slot does not hold")
    THEN [c EXCEPT ![j] = EmptySlot]
    ELSE c

=============================================================================

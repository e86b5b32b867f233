------------------------------- MODULE LRUCache -------------------------------
(***************************************************************************)
(* The recency-ordered cache LRUCache<K,V> of src/switchv2p/include/       *)
(* lru-cache.h, used by SwitchApp (Controller and NoCache modes) and by    *)
(* the Bluebird cache of P4SwitchApp.                                      *)
(*                                                                         *)
(* A cache is a record [map |-> m, dq |-> d]: m is the std::map m_map, a   *)
(* function whose domain is the cached keys, and d is the std::deque m_dq  *)
(* of keys, most recently used first.  m_cacheSize is the parameter cap.   *)
(* The operators are pure: each returns the cache after the call.          *)
(***************************************************************************)
EXTENDS Naturals, Sequences, Functions, TLC

SE == INSTANCE SequencesExt

EmptyLRU == [map |-> <<>>, dq |-> <<>>]

\* Find(key): the key is in m_map.
Find(c, k) == k \in DOMAIN c.map

\* The deque after erasing the first occurrence of key (the iterator walk
\* of Get, Remove and Put stops at the first match; the key must be there).
EraseKey(dq, k) ==
    IF Assert(k \in Range(dq), "LRUCache: walk past the end of m_dq")
    THEN SE!RemoveFirst(dq, k) ELSE dq

\* Mutant: a hit does not move the key to the front.
GetNoPromote(c, k) == c

\* Get(key, value): on a hit the key moves to the front of m_dq; a miss
\* leaves the cache unchanged.
Get(c, k) == IF Find(c, k) THEN [c EXCEPT !.dq = SE!Cons(k, EraseKey(@, k))] ELSE c

\* Remove(key): erase key from m_dq and m_map.
Remove(c, k) ==
    [map |-> Restrict(c.map, DOMAIN c.map \ {k}), dq |-> EraseKey(c.dq, k)]

\* Put(key, value, removed) evicts the back of m_dq when key is new and
\* m_dq.size() equals the capacity.
Evicts(c, cap, k) == ~Find(c, k) /\ Len(c.dq) = cap

\* Mutant: a present key is not erased from m_dq before the push_front.
PutNoErase(c, cap, k, v) ==
    LET kept == IF Evicts(c, cap, k) THEN Remove(c, SE!Last(c.dq)) ELSE c
    IN [map |-> (k :> v) @@ kept.map, dq |-> SE!Cons(k, kept.dq)]

\* Put(key, value, removed): a new key evicts the back when the cache is
\* full (m_dq.back() of an empty deque when the capacity is 0); a present
\* key is erased first.  Then key goes to the front and m_map[key] = value.
Put(c, cap, k, v) ==
    LET kept == IF Evicts(c, cap, k)
                THEN IF Assert(c.dq # <<>>, "LRUCache::Put: back() of an empty m_dq")
                     THEN Remove(c, SE!Last(c.dq)) ELSE c
                ELSE IF Find(c, k) THEN Remove(c, k) ELSE c
    IN [map |-> (k :> v) @@ kept.map, dq |-> SE!Cons(k, kept.dq)]

=============================================================================

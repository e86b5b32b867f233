----------------------------- MODULE LRUCacheSpec -----------------------------
(***************************************************************************)
(* One LRUCache driven by a sequential caller (each switch handles one     *)
(* packet at a time), checked against the abstract RecencyCache.  The      *)
(* callers: SwitchApp::ReceivePacket and P4SwitchApp::BluebirdLogic call   *)
(* Get, SwitchApp::BulkInsertToCache and PopulateBluebirdCache call Put.   *)
(* Remove has no caller in the repository; it is driven only for keys the  *)
(* cache holds, since its iterator walk has no end check.                  *)
(***************************************************************************)
EXTENDS Naturals, Sequences, Functions

CONSTANTS Keys, Vals, Capacity

ASSUME Capacity \in Nat \ {0}

VARIABLES lru, call  \* call: the caller's last call, <<name, key>>

vars == <<lru, call>>

L == INSTANCE LRUCache

Init == lru = L!EmptyLRU /\ call = <<>>

GetOp(k) == lru' = L!Get(lru, k) /\ call' = <<"Get", k>>

PutOp(k, v) == lru' = L!Put(lru, Capacity, k, v) /\ call' = <<"Put", k>>

RemoveOp(k) == L!Find(lru, k) /\ lru' = L!Remove(lru, k) /\ call' = <<"Remove", k>>

Next == \E k \in Keys : GetOp(k) \/ RemoveOp(k) \/ \E v \in Vals : PutOp(k, v)

Spec == Init /\ [][Next]_vars

\* The deque read as a recency relation: earlier in m_dq is more recent.
Order(dq) ==
    {<<dq[q[1]], dq[q[2]]>> : q \in {q \in (1..Len(dq)) \X (1..Len(dq)) : q[1] < q[2]}}

R == INSTANCE RecencyCache WITH content <- lru.map, before <- Order(lru.dq), last <- call

\* m_map and m_dq hold the same keys, each key once in m_dq, and never more
\* than m_cacheSize of them: the iterator walks of Get, Put and Remove
\* (`while (*it != key) it++`) find every key of m_map, and Put's
\* `m_cacheSize == m_dq.size()` test is reached before the cache overflows.
MapMatchesDeque ==
    /\ DOMAIN lru.map = Range(lru.dq)
    /\ IsInjective(lru.dq)
    /\ Len(lru.dq) <= Capacity

\* The deque and map operations implement a recency cache: every Get, Put
\* and Remove is a step of RecencyCache under the mapping above, so a Put
\* of a new key into a full cache evicts exactly the least recently used
\* key, and Get makes its key the most recent.
ImplementsRecencyCache == R!ASpec
=============================================================================

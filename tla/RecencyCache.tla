----------------------------- MODULE RecencyCache -----------------------------
(***************************************************************************)
(* What a recency cache promises (spec.md, section 3, "Recency Cache"): a  *)
(* bounded key -> value map with a recency order; a lookup or a write      *)
(* makes its key the most recent; a new key that would exceed the          *)
(* capacity evicts the least recently used key.                           *)
(*                                                                         *)
(* content is the map; before is the recency order as a relation:         *)
(* <<x, y>> \in before means x was used more recently than y.  last is    *)
(* the last call made, so that a call is never taken for a stutter.        *)
(***************************************************************************)
EXTENDS Naturals, FiniteSets, Functions, TLC

CONSTANTS Keys, Vals, Capacity

ASSUME Capacity \in Nat \ {0}

VARIABLES content, before, last

avars == <<content, before, last>>

\* The order relation rel without key k.
Forget(k, rel) == {p \in rel : k \notin {p[1], p[2]}}

\* The order after key k is used: k comes before every other key.
Promote(rel, k, keys) == Forget(k, rel) \cup {<<k, x>> : x \in keys \ {k}}

\* The least recently used key: every other cached key is more recent.
IsLRU(x) == \A y \in DOMAIN content \ {x} : <<y, x>> \in before

AInit == content = <<>> /\ before = {} /\ last = <<>>

Lookup(k) ==
    /\ last' = <<"Get", k>>
    /\ \/ k \in DOMAIN content /\ before' = Promote(before, k, DOMAIN content)
       \/ k \notin DOMAIN content /\ UNCHANGED before
    /\ UNCHANGED content

Insert(k, v) ==
    /\ last' = <<"Put", k>>
    /\ \/ /\ k \in DOMAIN content \/ Cardinality(DOMAIN content) < Capacity
          /\ content' = (k :> v) @@ content
          /\ before' = Promote(before, k, DOMAIN content \cup {k})
       \/ /\ k \notin DOMAIN content /\ Cardinality(DOMAIN content) = Capacity
          /\ \E x \in DOMAIN content :
               /\ IsLRU(x)
               /\ content' = (k :> v) @@ Restrict(content, DOMAIN content \ {x})
               /\ before' = Promote(Forget(x, before), k, (DOMAIN content \ {x}) \cup {k})

Delete(k) ==
    /\ last' = <<"Remove", k>>
    /\ k \in DOMAIN content
    /\ content' = Restrict(content, DOMAIN content \ {k})
    /\ before' = Forget(k, before)

ANext == \E k \in Keys : Lookup(k) \/ Delete(k) \/ \E v \in Vals : Insert(k, v)

ASpec == AInit /\ [][ANext]_avars

\* The recency order is a strict total order on the cached keys.
RecencyIsTotalOrder ==
    /\ \A p \in before : p[1] # p[2] /\ {p[1], p[2]} \subseteq DOMAIN content
    /\ \A x, y \in DOMAIN content : x # y => (<<x, y>> \in before \/ <<y, x>> \in before)
    /\ \A x, y, z \in DOMAIN content :
         <<x, y>> \in before /\ <<y, z>> \in before => <<x, z>> \in before
=============================================================================

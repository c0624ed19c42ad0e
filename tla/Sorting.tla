------------------------------ MODULE Sorting ------------------------------
(***************************************************************************)
(* Python's sorted(records, key=...): stable, so that records with the      *)
(* same key keep their order.  Defined without recursion, by the rank of    *)
(* each record, so that it can be reasoned about.                           *)
(***************************************************************************)
EXTENDS Integers, Sequences, FiniteSets

(* Record j is not after record k in the sorted order. *)
NotAfter(keys, j, k) == keys[j] < keys[k] \/ (keys[j] = keys[k] /\ j <= k)

(* The place of record k in the sorted order. *)
Rank(keys, k) == Cardinality({j \in DOMAIN keys : NotAfter(keys, j, k)})

(* s sorted by keys, where keys[k] is the key of s[k]. *)
SortByKey(s, keys) == [n \in DOMAIN s |-> s[CHOOSE k \in DOMAIN s : Rank(keys, k) = n]]
============================================================================

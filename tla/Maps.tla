-------------------------------- MODULE Maps --------------------------------
(***************************************************************************)
(* Partial maps, the shape of the hash maps and of the key-value tree the  *)
(* stores keep: a map is a function whose domain is the set of its keys.   *)
(***************************************************************************)

\* The map with no key.
EmptyMap == [k \in {} |-> k]

\* Every map from keys in K to values in V.
MapsOf(K, V) == UNION {[D -> V] : D \in SUBSET K}

\* Insert or replace the value of one key.
Put(f, k, v) == [x \in DOMAIN f \cup {k} |-> IF x = k THEN v ELSE f[x]]

\* Remove one key.
Drop(f, k) == [x \in DOMAIN f \ {k} |-> f[x]]

\* The value of a key, or a default where the key is absent.
GetOr(f, k, default) == IF k \in DOMAIN f THEN f[k] ELSE default
=============================================================================

-------------------------------- MODULE Maps --------------------------------
(***************************************************************************)
(* Finite maps, the HashMaps and BTreeMaps of the code: a map is a         *)
(* function whose domain is its set of keys.                               *)
(***************************************************************************)
EXTENDS Functions

\* f maps some of the keys of K to values in V.
IsMap(f, K, V) == DOMAIN f \subseteq K /\ f \in [DOMAIN f -> V]

EmptyMap == [x \in {} |-> x]
One(k, v) == [x \in {k} |-> v]

\* insert every entry of h into f; an entry of h replaces one of f
f ++ h == [k \in DOMAIN f \cup DOMAIN h |-> IF k \in DOMAIN h THEN h[k] ELSE f[k]]

\* remove the keys of S
Without(f, S) == Restrict(f, DOMAIN f \ S)
=============================================================================

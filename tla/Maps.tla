--------------------------------- MODULE Maps ---------------------------------
(* Finite maps, as the code's hash maps are used: a function on the keys     *)
(* that are present.                                                         *)

EmptyMap == [k \in {} |-> k]

With(f, k, x)  == [j \in DOMAIN f \cup {k} |-> IF j = k THEN x ELSE f[j]]
Without(f, ks) == [j \in DOMAIN f \ ks |-> f[j]]
===============================================================================

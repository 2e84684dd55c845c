-------------------------------- MODULE Maps --------------------------------
(* Partial functions as the code uses its JavaScript maps.                  *)

\* map.set(x, v)
Put(f, x, v) == [y \in DOMAIN f \cup {x} |-> IF y = x THEN v ELSE f[y]]

\* map.delete(x), for every x of S
Without(f, S) == [y \in DOMAIN f \ S |-> f[y]]

EmptyMap == [x \in {} |-> x]

=============================================================================

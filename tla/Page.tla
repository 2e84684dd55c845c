-------------------------------- MODULE Page --------------------------------
(* What the modules of the administration page's parts share.              *)
EXTENDS Integers, Sequences

CONSTANT None   \* nothing: no value, no call, no row

Low(a, b) == IF a < b THEN a ELSE b

\* The elements of s that are in S, in their order.
Keeping(s, S) ==
  LET kept[n \in 0 .. Len(s)] ==
        IF n = 0 THEN <<>> ELSE IF s[n] \in S THEN Append(kept[n - 1], s[n]) ELSE kept[n - 1]
  IN  kept[Len(s)]
=============================================================================

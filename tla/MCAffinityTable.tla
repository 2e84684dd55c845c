-------------------------- MODULE MCAffinityTable --------------------------
(* AffinityTable for TLC: a responses task chained by a named response under a    *)
(* session key, its continuation that sends no key and is found by its prefix, and *)
(* a chat task on another endpoint under the same session key.  A save may take a  *)
(* node out of the group and bring it back.                                        *)
EXTENDS AffinityTable

CONSTANTS n1, n2

MCKindOf == [b \in {"rs", "ch"} |-> IF b = "rs" THEN "responses" ELSE "chat"]

Ident(keys, bucket, endpoint, users) ==
  [keys |-> keys, bucket |-> bucket, endpoint |-> endpoint, users |-> users]

Chained      == Ident(<<"response", "session">>, "rs", "e1", <<1>>)
Continuation == Ident(<<>>, "rs", "e1", <<1, 2>>)
SharedKey    == Ident(<<"session">>, "ch", "e2", <<3>>)

AllIdentities == {Chained, Continuation, SharedKey}

TwoMemberships == {{n1, n2}, {n2}}

=============================================================================

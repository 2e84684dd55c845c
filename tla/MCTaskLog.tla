----------------------------- MODULE MCTaskLog -----------------------------
(* TaskLog for TLC: two turns of a conversation with a key, and one that    *)
(* continues by text and names an answer of the first.                      *)
EXTENDS TaskLog, TLC

CONSTANTS r1, r2, r3

MCShape ==
  r1 :> [kind |-> "responses", boundary |-> "m", user |-> "u", users |-> <<"u">>,
         content |-> "a", keys |-> <<"k">>, names |-> NoName, answers |-> "x"] @@
  r2 :> [kind |-> "responses", boundary |-> "m", user |-> "u", users |-> <<"u">>,
         content |-> "b", keys |-> <<"k">>, names |-> NoName, answers |-> NoName] @@
  r3 :> [kind |-> "responses", boundary |-> "m", user |-> "u", users |-> <<"u", "v">>,
         content |-> "c", keys |-> <<>>, names |-> "x", answers |-> NoName]
=============================================================================

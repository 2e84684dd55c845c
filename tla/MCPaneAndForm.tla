--------------------------- MODULE MCPaneAndForm ---------------------------
(* RecordPane and ConfigEditor for TLC: two parts of the page that share no  *)
(* state.  A behaviour is one of one of them, in which the other rests.      *)
EXTENDS RecordPane, ConfigEditor

CONSTANTS rec1, rec2, p1, p2, t1, t2, t3, g1

\* A large body with a node below the first level, that grows and changes; and one that is
\* not there until its request has ended, and small.
MCBodies ==
  (rec1 :> << (<<>> :> Node(<<"m", "list">>)) @@ (<<"m">> :> Leaf("1"))
             @@ (<<"list">> :> Node(<<"x", "y">>)) @@ (<<"list", "x">> :> Leaf("1"))
             @@ (<<"list", "y">> :> Leaf("1")),
           (<<>> :> Node(<<"list", "m">>)) @@ (<<"m">> :> Leaf("1"))
             @@ (<<"list">> :> Node(<<"y", "x", "z">>)) @@ (<<"list", "x">> :> Leaf("2"))
             @@ (<<"list", "y">> :> Leaf("1")) @@ (<<"list", "z">> :> Leaf("1")) >>)
  @@ (rec2 :> << (<<>> :> Leaf("null")),
              (<<>> :> Node(<<"list">>)) @@ (<<"list">> :> Leaf("1")) >>)

\* A pair of two targets, one with a field of its own, that form a group; a target and a pair
\* that may be added.
MCTrimmed(v) == IF v = "padded" THEN "typed" ELSE v
MCKeys == [place \in {p1, p2} \X {t1, t2, t3} |-> IF place = <<p1, t1>> THEN "mine" ELSE None]

Target(id, key) == [id |-> id, url |-> "old", on |-> TRUE, prices |-> <<>>, key |-> key]
MCStart ==
  <<[id |-> p1, enabled |-> FALSE, targets |-> <<Target(t1, "mine"), Target(t2, None)>>, default |-> t1,
     groups |-> <<[id |-> g1, members |-> <<[target |-> t2, model |-> ""]>>]>>]>>
MCOpenings == {MCStart}
MCCatalog == {<<"p">>}

VARIABLE part

EitherInit ==
  /\ part \in {"pane", "form"} /\ Init /\ FormInit
  /\ part = "form" => version = [r \in Records |-> 1]

EitherNext ==
  \/ part = "pane" /\ Next /\ UNCHANGED <<part, formVars>>
  \/ part = "form" /\ FormNext /\ UNCHANGED <<part, vars>>

EitherSpec == EitherInit /\ [][EitherNext]_<<part, vars, formVars>>
=============================================================================

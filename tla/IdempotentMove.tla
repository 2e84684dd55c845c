--------------------------- MODULE IdempotentMove ---------------------------
(***************************************************************************)
(* What moveBinding() promises its callers, without saying how: an         *)
(* instruction is known by its idempotency key, is answered once, and      *)
(* while what it started can still move a route its answer is not          *)
(* forgotten, so that saying it again cannot start it again.  Answers of   *)
(* what is over may be forgotten at any time.                              *)
(*                                                                         *)
(* MigrationStore keeps this promise with bounded records and receipts,    *)
(* and MoveConsole is the browser that lives by it.                        *)
(***************************************************************************)
EXTENDS MigrationContract, Maps

CONSTANTS Keys, NoKey, Ops, NoOp

VARIABLES
  told,  \* key -> its first answer: [answer, op]
  live   \* move that may still go on -> [key, state]

Init == told = EmptyMap /\ live = EmptyMap

\* An answer may be given up once nothing it started can go on.
Forgettable == {k \in DOMAIN told : told[k].op \notin DOMAIN live}

Fresh(o) == o \notin DOMAIN live /\ \A k \in DOMAIN told : told[k].op # o

\* An instruction that starts nothing: the binding is there already.
NoMove(k) ==
  /\ k \notin DOMAIN told
  /\ \E gone \in SUBSET Forgettable :
       told' = Put(Without(told, gone), k, [answer |-> "already_there", op |-> NoOp])
  /\ UNCHANGED live

\* An instruction heard for the first time: refused, or a move that goes on.
Move(k, o, answer) ==
  /\ Fresh(o) /\ k \notin DOMAIN told
  /\ answer \in MigrationTransitions["requested"]
  /\ \E gone \in SUBSET Forgettable :
       LET kept == Without(told, gone)
       IN told' = IF k = NoKey THEN kept ELSE Put(kept, k, [answer |-> answer, op |-> o])
  /\ live' = IF answer \in Terminal THEN live
             ELSE Put(live, o, [key |-> k, state |-> answer])

Advance(o, to) ==
  /\ IsMigrationTransitionAllowed(live[o].state, to)
  /\ live' = IF to \in Terminal THEN Without(live, {o}) ELSE [live EXCEPT ![o].state = to]
  /\ UNCHANGED told

Forget ==
  /\ \E gone \in SUBSET Forgettable : told' = Without(told, gone)
  /\ UNCHANGED live

\* The runtime stops, and what it knew goes with it.
Stop == told' = EmptyMap /\ live' = EmptyMap

Next ==
  \/ \E k \in Keys : NoMove(k)
  \/ \E k \in Keys \cup {NoKey}, o \in Ops, answer \in MigrationState : Move(k, o, answer)
  \/ \E o \in DOMAIN live, to \in MigrationState : Advance(o, to)
  \/ Forget \/ Stop

Spec == Init /\ [][Next]_<<told, live>>

=============================================================================

------------------------- MODULE MigrationContract -------------------------
(***************************************************************************)
(* The life cycle of one binding-move intent, as the transition table of   *)
(* src/src/proxy/load-migration-contract.ts states it.  The same table is  *)
(* consulted by the operation store and by the balancer.                   *)
(***************************************************************************)

Terminal == {"rejected", "observed", "cancelled", "expired", "expired_after_apply"}

MigrationState == {"requested", "pending_boundary", "applied"} \cup Terminal

\* MIGRATION_TRANSITIONS: where each state may go; a terminal state goes nowhere.
MigrationTransitions ==
  [s \in MigrationState |->
     CASE s = "requested"        -> {"rejected", "pending_boundary", "applied"}
       [] s = "pending_boundary" -> {"applied", "cancelled", "expired"}
       [] s = "applied"          -> {"observed", "expired_after_apply"}
       [] OTHER                  -> {}]

IsMigrationTransitionAllowed(from, to) == to \in MigrationTransitions[from]

=============================================================================

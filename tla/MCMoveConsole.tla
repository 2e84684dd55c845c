--------------------------- MODULE MCMoveConsole ---------------------------
(* MoveConsole for TLC: one row, or two rows on pages of one.              *)
EXTENDS MoveConsole, TLC
=============================================================================

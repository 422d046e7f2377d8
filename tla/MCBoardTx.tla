----------------------------- MODULE MCBoardTx ------------------------------
(* Small instances of BoardTx for TLC. *)
EXTENDS BoardTx, TLC

\* Calls are interchangeable; used where only safety is checked.
Symmetry == Permutations(Call)
=============================================================================

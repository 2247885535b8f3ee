----------------------------- MODULE MCExitManager -----------------------------
(* TLC instances of ExitManager.                                              *)
EXTENDS ExitManager, TLC

PlansAlike == Permutations(Plan)

(* Exits of the same lots that overlap may take the position anywhere; every  *)
(* property sets such behaviours aside, so they are not followed further.     *)
OneExitAtATime == "overlap" \notin mishaps
===============================================================================

------------------------- MODULE MCExecutionScheduler --------------------------
(* Instances of ExecutionScheduler for TLC.                                   *)
EXTENDS ExecutionScheduler, TLC

CONSTANTS e1, e2, x1, kEntry, kExit1, NIFTY

(* Two entries of two lots that carry the same key, as a retried decision     *)
(* does, so that one can be booked in part, or by a chase in two pieces, and  *)
(* one protective exit of the lot held.                                       *)
IntentDup == {e1, e2, x1}
AttrDup ==
  (e1 :> [key |-> kEntry, symbol |-> NIFTY, priority |-> 9, qty |-> 2,
          claimsOpening |-> TRUE]) @@
  (e2 :> [key |-> kEntry, symbol |-> NIFTY, priority |-> 9, qty |-> 2,
          claimsOpening |-> TRUE]) @@
  (x1 :> [key |-> kExit1, symbol |-> NIFTY, priority |-> 4, qty |-> -1,
          claimsOpening |-> FALSE])

(* The two entries are alike, and no property of the Core run tells them apart*)
(* or is a liveness property.                                                 *)
EntriesAlike == Permutations({e1, e2})

(* Failed writes and reads of the kill-switch row concern the control plane,  *)
(* which the Modes run explores; the Core run leaves them out.                *)
RowsAreKept == ~auditLost

(* An entry and an exit, of one lot, that meet mode changes, arming and trips.*)
IntentModes == {e1, x1}
AttrModes == [i \in IntentModes |->
                IF i = e1 THEN [AttrDup[e1] EXCEPT !.qty = 1] ELSE AttrDup[i]]

HeldOne == [s \in {NIFTY} |-> 1]
===============================================================================

------------------------------- MODULE OrderFate -------------------------------
(***************************************************************************)
(* What tracking promises the ledger and the exit manager of one           *)
(* acknowledged order: its fills are booked in at most two pieces, the     *)
(* partial fill of a limit leg and the rest, never more than was approved  *)
(* or filled, and nothing after its last piece.  ExitManager takes the     *)
(* fate of an exit, which is a MARKET order, in this form: one piece of    *)
(* it, or none.                                                            *)
(***************************************************************************)
EXTENDS Integers

CONSTANT Qty     \* the lots approved

VARIABLES
  pieces,        \* pieces that may still be booked
  fills,         \* lots filled at the broker
  booked         \* lots in the ledger

fateVars == <<pieces, fills, booked>>

FateInit == pieces \in 1..2 /\ fills = 0 /\ booked = 0

(* The broker fills on, watched or not.                                       *)
Fill == fills' > fills /\ UNCHANGED <<pieces, booked>>

(* A piece reaches the ledger, possibly in the step that fills it.            *)
Book ==
  /\ pieces' \in 0..(pieces - 1)
  /\ fills' >= fills
  /\ booked' > booked /\ booked' <= Qty /\ booked' <= fills'

(* A piece is given up: rejected, cancelled, unresolved, or stopped.          *)
GiveUp == pieces' \in 0..(pieces - 1) /\ UNCHANGED <<fills, booked>>

FateNext == Fill \/ Book \/ GiveUp

FateSpec == FateInit /\ [][FateNext]_fateVars
===============================================================================

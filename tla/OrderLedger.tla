------------------------------ MODULE OrderLedger ------------------------------
(***************************************************************************)
(* What the scheduler promises the ledger and those who read positions     *)
(* from it: a position moves only by an order that went to a broker and    *)
(* has not ended, in the direction of that order, and all the pieces of it *)
(* together never exceed what was asked for; an intent that left never     *)
(* moves it again, whatever is heard of its order later; and no intent is  *)
(* sent twice.                                                             *)
(***************************************************************************)
EXTENDS Integers

CONSTANTS
  Intent,        \* the intents that may be handed in
  SymbolOf,      \* the symbol of each intent (a function)
  QtyOf          \* its signed quantity (a function)

VARIABLES
  path,          \* path[i]: how far intent i has come
  moved,         \* moved[i]: lots by which it moved the position so far
  position       \* the ledger's signed position per symbol

ledgerVars == <<path, moved, position>>

SizeOf(i) == IF QtyOf[i] < 0 THEN -QtyOf[i] ELSE QtyOf[i]

LedgerInit == /\ path = [i \in Intent |-> "outside"]
              /\ moved = [i \in Intent |-> 0]

Accept(i) ==
  /\ path[i] = "outside"
  /\ path' = [path EXCEPT ![i] = "inside"]
  /\ UNCHANGED <<moved, position>>

Send(i) ==
  /\ path[i] = "inside"
  /\ path' = [path EXCEPT ![i] = "sent"]
  /\ UNCHANGED <<moved, position>>

(* A piece of n lots is booked, and the order stays out or has ended.         *)
Book(i, n) ==
  /\ path[i] = "sent"
  /\ moved[i] + n <= SizeOf(i)
  /\ moved' = [moved EXCEPT ![i] = @ + n]
  /\ position' = [position EXCEPT ![SymbolOf[i]] = IF QtyOf[i] < 0 THEN @ - n ELSE @ + n]
  /\ \E p \in {"sent", "left"} : path' = [path EXCEPT ![i] = p]

(* Refused, rejected, given up, or forgotten by a restart: one intent, or all *)
(* that are on their way.                                                     *)
Leave(left) ==
  /\ path' = [i \in Intent |-> IF i \in left THEN "left" ELSE path[i]]
  /\ UNCHANGED <<moved, position>>

LedgerNext ==
  \/ \E i \in Intent : Accept(i) \/ Send(i)
  \/ \E i \in Intent : \E n \in 0..SizeOf(i) : Book(i, n)
  \/ \E left \in SUBSET Intent : Leave(left)

LedgerSpec == LedgerInit /\ [][LedgerNext]_ledgerVars
===============================================================================

------------------------------- MODULE OrderOnce -------------------------------
(***************************************************************************)
(* What the scheduler promises the rest of the platform about idempotency: *)
(* it works on one intent at a time, and an intent whose key already has   *)
(* an acknowledged order never gets another one.                           *)
(***************************************************************************)
CONSTANTS
  Intent,        \* the intents that may be handed in
  KeyOf,         \* the idempotency key of each intent (a function)
  NoIntent       \* no intent is being worked on

VARIABLES
  claim,         \* the intent being submitted
  acked          \* intents whose order the broker acknowledged

onceVars == <<claim, acked>>

OnceInit == claim = NoIntent /\ acked = {}

Claim(i) ==
  /\ claim = NoIntent
  /\ \A j \in acked : KeyOf[j] # KeyOf[i]
  /\ claim' = i
  /\ UNCHANGED acked

(* The broker acknowledged it.                                                *)
Settle ==
  /\ claim # NoIntent
  /\ acked' = acked \union {claim}
  /\ claim' = NoIntent

(* The call failed, or the process stopped: the key may be tried again.       *)
Abandon ==
  /\ claim # NoIntent
  /\ claim' = NoIntent
  /\ UNCHANGED acked

OnceNext == (\E i \in Intent : Claim(i)) \/ Settle \/ Abandon

OnceSpec == OnceInit /\ [][OnceNext]_onceVars
===============================================================================

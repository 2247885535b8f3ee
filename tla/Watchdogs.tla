------------------------------- MODULE Watchdogs -------------------------------
(***************************************************************************)
(* The threads that flip the kill switch of TradingRuntime                 *)
(* (api/runtime.py): the portfolio guardian and the broker reconciliation, *)
(* each a periodic tick run by asyncio.to_thread, and the operator's calls,*)
(* each a request in the server's thread pool.                             *)
(*                                                                         *)
(* ControlPlane takes set_kill_switch and arm_live as one step; they hold  *)
(* no lock, so here a step is one assignment or one call out.  The broker  *)
(* and the ledger are one symbol's quantities: a live fill shows at the    *)
(* broker at once and in the ledger when it is booked, a paper fill in the *)
(* ledger only, and a trade in the broker's own app at the broker only.    *)
(***************************************************************************)
EXTENDS Naturals, FiniteSets

CONSTANTS
  Caller,        \* the operator's request threads
  MaxTrades,     \* bound on the number of trades
  MaxRestarts    \* bound on the number of restarts

ASSUME WatchdogAssumption ==
  /\ "guardian" \notin Caller /\ "reconciler" \notin Caller
  /\ MaxTrades \in Nat /\ MaxRestarts \in Nat

VARIABLES
  live,          \* execution_mode is a LIVE one
  armed,         \* live_armed
  kill,          \* runtime.kill_switch_active
  schedKill,     \* scheduler.kill_switch_active
  row,           \* the latest kill-switch row of risk_events
  pc,            \* where each thread is
  want,          \* the argument of its set_kill_switch, while in it
  breach,        \* drawdown or daily loss beyond its limit
  atBroker,      \* netqty at the broker
  inLedger,      \* quantity in the portfolio ledger
  unbooked,      \* live fills still to be booked
  trades,        \* number of trades so far
  snapshot,      \* the positions the reconciler fetched, while it compares
  count,         \* _consecutive_reconciliation_mismatches, up to 2
  late,          \* history: the unbooked fills that the last tick saw
  excused,       \* history: something the reconciler may well trip for
  falseTrip,     \* history: it tripped for nothing of the kind
  alone,         \* history: threads in a trip that no arm or clear overlaps
  standing,      \* history: such a trip has returned, and is not being undone
  restarts       \* number of restarts so far

flagVars == <<live, armed, kill, schedKill, row>>
bookVars == <<atBroker, inLedger, unbooked, trades, late, excused>>
tickVars == <<snapshot, count, falseTrip>>
tripVars == <<alone, standing>>
vars == <<flagVars, pc, want, breach, bookVars, tickVars, tripVars, restarts>>

Thread == Caller \union {"guardian", "reconciler"}
Step == {"idle", "fetch", "compare", "arm", "flag", "mirror", "disarm", "save"}

Init ==
  /\ live \in BOOLEAN /\ armed = FALSE
  /\ kill = FALSE /\ schedKill = FALSE /\ row = "none"
  /\ pc = [t \in Thread |-> "idle"]
  /\ want = [t \in Thread |-> FALSE]
  /\ breach = FALSE
  /\ atBroker = 0 /\ inLedger = 0 /\ unbooked = 0 /\ trades = 0
  /\ late = 0 /\ excused = FALSE
  /\ snapshot = 0 /\ count = 0 /\ falseTrip = FALSE
  /\ alone = {} /\ standing = FALSE
  /\ restarts = 0

Goto(t, step) == pc' = [pc EXCEPT ![t] = step]
-------------------------------------------------------------------------------
(* set_kill_switch, statement by statement.                                   *)

(* An arm, or a clear, is under way.                                          *)
Undoing == \E t \in Thread :
  pc[t] = "arm" \/ (pc[t] \in {"flag", "mirror", "save"} /\ ~want[t])

StartTrip(t) ==
  /\ Goto(t, "flag") /\ want' = [want EXCEPT ![t] = TRUE]
  /\ alone' = IF Undoing THEN alone ELSE alone \union {t}
  /\ UNCHANGED standing

Flag(t) ==
  /\ pc[t] = "flag" /\ kill' = want[t] /\ Goto(t, "mirror")
  /\ UNCHANGED <<live, armed, schedKill, row, want, breach, bookVars, tickVars,
                 tripVars, restarts>>

(* Negative test: the copy in the scheduler can be cleared, but not set.      *)
NeverSet(t) == schedKill' = (schedKill /\ want[t])
Copy(t) == schedKill' = want[t]

Mirror(t) ==
  /\ pc[t] = "mirror" /\ Copy(t)
  /\ Goto(t, IF want[t] THEN "disarm" ELSE "save")
  /\ UNCHANGED <<live, armed, kill, row, want, breach, bookVars, tickVars,
                 tripVars, restarts>>

Disarm(t) ==
  /\ pc[t] = "disarm" /\ armed' = FALSE /\ Goto(t, "save")
  /\ UNCHANGED <<live, kill, schedKill, row, want, breach, bookVars, tickVars,
                 tripVars, restarts>>

(* The row is written, or the failure to write it is swallowed.               *)
Save(t) ==
  /\ pc[t] = "save" /\ Goto(t, "idle")
  /\ \/ /\ row' = IF want[t] THEN "activated" ELSE "cleared"
        /\ standing' = (standing \/ t \in alone)
     \/ UNCHANGED <<row, standing>>
  /\ want' = [want EXCEPT ![t] = FALSE] /\ alone' = alone \ {t}
  /\ UNCHANGED <<live, armed, kill, schedKill, breach, bookVars, tickVars, restarts>>
-------------------------------------------------------------------------------
(* The operator.                                                              *)

CallTrip(t) ==
  /\ t \in Caller /\ pc[t] = "idle"
  /\ StartTrip(t)
  /\ UNCHANGED <<flagVars, breach, bookVars, tickVars, restarts>>

CallClear(t) ==
  /\ t \in Caller /\ pc[t] = "idle"
  /\ Goto(t, "flag") /\ want' = [want EXCEPT ![t] = FALSE]
  /\ alone' = {} /\ standing' = FALSE
  /\ UNCHANGED <<flagVars, breach, bookVars, tickVars, restarts>>

(* arm_live reads the readiness gates, and sets the flag afterwards.          *)
CallArm(t) ==
  /\ t \in Caller /\ pc[t] = "idle" /\ live /\ ~kill
  /\ Goto(t, "arm") /\ alone' = {}
  /\ UNCHANGED <<flagVars, want, breach, bookVars, tickVars, standing, restarts>>

Arm(t) ==
  /\ pc[t] = "arm" /\ armed' = TRUE /\ Goto(t, "idle")
  /\ UNCHANGED <<live, kill, schedKill, row, want, breach, bookVars, tickVars,
                 tripVars, restarts>>

(* set_execution_mode.                                                        *)
ChangeMode ==
  /\ live' = ~live /\ armed' = (armed /\ live')
  /\ UNCHANGED <<kill, schedKill, row, pc, want, breach, bookVars, tickVars,
                 tripVars, restarts>>
-------------------------------------------------------------------------------
(* _run_portfolio_guardian_tick.  Negative test: it trips at the first breach *)
(* only, the switch having never been set before.                             *)
FirstTripOnly == row = "none"
MayTrip == ~kill

GuardianTick ==
  /\ pc["guardian"] = "idle" /\ breach /\ MayTrip
  /\ StartTrip("guardian")
  /\ UNCHANGED <<flagVars, breach, bookVars, tickVars, restarts>>

(* _run_reconciliation_tick.  Under the kill switch it returns at once.       *)
TickOutsideLive ==
  /\ pc["reconciler"] = "idle" /\ ~kill /\ ~live
  /\ count' = 0
  /\ UNCHANGED <<flagVars, pc, want, breach, bookVars, snapshot, falseTrip,
                 tripVars, restarts>>

TickBegins ==
  /\ pc["reconciler"] = "idle" /\ ~kill /\ live
  /\ Goto("reconciler", "fetch")
  /\ UNCHANGED <<flagVars, want, breach, bookVars, tickVars, tripVars, restarts>>

(* The broker is the one of the mode by now: the simulator has no positions.  *)
Fetch ==
  /\ pc["reconciler"] = "fetch" /\ Goto("reconciler", "compare")
  /\ snapshot' = IF live THEN atBroker ELSE 0
  /\ late' = unbooked
  /\ excused' = (excused \/ late > 0 \/ ~live)
  /\ UNCHANGED <<flagVars, want, breach, atBroker, inLedger, unbooked, trades,
                 count, falseTrip, tripVars, restarts>>

FetchFails ==
  /\ pc["reconciler"] = "fetch" /\ Goto("reconciler", "idle")
  /\ UNCHANGED <<flagVars, want, breach, bookVars, tickVars, tripVars, restarts>>

(* Negative tests: the first mismatch counts twice; every one counts as the   *)
(* first.                                                                     *)
CountTwice == count + 2
CountFromOne == 1
Counted == IF count = 0 THEN 1 ELSE 2

(* PositionReconciliation.has_drift, against the ledger of this moment.       *)
HasDrift == snapshot # inLedger

NoDrift ==
  /\ pc["reconciler"] = "compare" /\ ~HasDrift
  /\ count' = 0 /\ snapshot' = 0 /\ Goto("reconciler", "idle")
  /\ UNCHANGED <<flagVars, want, breach, bookVars, falseTrip, tripVars, restarts>>

Mismatch ==
  /\ pc["reconciler"] = "compare" /\ HasDrift
  /\ count' = Counted /\ snapshot' = 0
  /\ \/ /\ Counted < 2 /\ Goto("reconciler", "idle")
        /\ UNCHANGED <<want, falseTrip, tripVars>>
     \/ /\ Counted >= 2 /\ StartTrip("reconciler")
        /\ falseTrip' = (falseTrip \/ ~excused)
  /\ UNCHANGED <<flagVars, breach, bookVars, restarts>>
-------------------------------------------------------------------------------
(* The market, the broker and the ledger.                                     *)

BreachChanges ==
  /\ breach' = ~breach
  /\ UNCHANGED <<flagVars, pc, want, bookVars, tickVars, tripVars, restarts>>

Trade ==
  /\ trades < MaxTrades /\ trades' = trades + 1
  /\ UNCHANGED <<flagVars, pc, want, breach, late, tickVars, tripVars, restarts>>

OrderFills ==
  /\ Trade /\ live
  /\ atBroker' = atBroker + 1 /\ unbooked' = unbooked + 1
  /\ UNCHANGED <<inLedger, excused>>

PaperFills ==
  /\ Trade /\ ~live
  /\ inLedger' = inLedger + 1 /\ excused' = TRUE
  /\ UNCHANGED <<atBroker, unbooked>>

TradeOutside ==
  /\ Trade
  /\ atBroker' = atBroker + 1 /\ excused' = TRUE
  /\ UNCHANGED <<inLedger, unbooked>>

(* The oldest fill is booked.                                                 *)
Book ==
  /\ unbooked > 0 /\ unbooked' = unbooked - 1
  /\ inLedger' = inLedger + 1
  /\ late' = IF late > 0 THEN late - 1 ELSE 0
  /\ UNCHANGED <<flagVars, pc, want, breach, atBroker, trades, excused, tickVars,
                 tripVars, restarts>>

(* The process stops, whatever its threads were doing, and starts again:      *)
(* __init__ and _restore_kill_switch_from_db.  Negative test: the start of    *)
(* before 2026-09-13.                                                         *)
RestoredForgets == FALSE
RestoredFromDb == row = "activated"

Restart ==
  /\ restarts < MaxRestarts /\ restarts' = restarts + 1
  /\ pc' = [t \in Thread |-> "idle"]
  /\ want' = [t \in Thread |-> FALSE]
  /\ kill' = RestoredFromDb /\ schedKill' = RestoredFromDb
  /\ armed' = FALSE /\ live' \in BOOLEAN
  /\ snapshot' = 0 /\ count' = 0
  /\ alone' = {}
  /\ UNCHANGED <<row, breach, bookVars, falseTrip, standing>>

Next ==
  \/ \E t \in Thread : Flag(t) \/ Mirror(t) \/ Disarm(t) \/ Save(t)
  \/ \E t \in Caller : CallTrip(t) \/ CallClear(t) \/ CallArm(t) \/ Arm(t)
  \/ ChangeMode
  \/ GuardianTick
  \/ TickOutsideLive \/ TickBegins \/ Fetch \/ FetchFails \/ NoDrift \/ Mismatch
  \/ BreachChanges \/ OrderFills \/ PaperFills \/ TradeOutside \/ Book
  \/ Restart

Spec == Init /\ [][Next]_vars

(* The loops run for as long as the process does, a thread goes on, and the   *)
(* broker answers a request for positions now and then.                       *)
Fairness ==
  /\ \A t \in Thread : WF_vars(Flag(t) \/ Mirror(t) \/ Disarm(t) \/ Save(t))
  /\ WF_vars(GuardianTick)
  /\ WF_vars(TickOutsideLive \/ TickBegins)
  /\ SF_vars(Fetch)
  /\ WF_vars(NoDrift \/ Mismatch)

FairSpec == Spec /\ Fairness
-------------------------------------------------------------------------------
TypeOK ==
  /\ live \in BOOLEAN /\ armed \in BOOLEAN
  /\ kill \in BOOLEAN /\ schedKill \in BOOLEAN
  /\ row \in {"none", "activated", "cleared"}
  /\ pc \in [Thread -> Step]
  /\ want \in [Thread -> BOOLEAN]
  /\ breach \in BOOLEAN
  /\ atBroker \in Nat /\ inLedger \in Nat /\ unbooked \in Nat
  /\ trades \in 0..MaxTrades
  /\ late \in Nat /\ excused \in BOOLEAN
  /\ snapshot \in Nat /\ count \in 0..2 /\ falseTrip \in BOOLEAN
  /\ alone \subseteq Thread /\ standing \in BOOLEAN
  /\ restarts \in 0..MaxRestarts

(* A trip that returns without an arm or a clear in its way stands, whoever   *)
(* made it and however other trips, ticks, mode changes and restarts are      *)
(* interleaved with its statements, until the operator begins to clear it:    *)
(* both copies of the flag are set, LIVE is disarmed, and the row that a      *)
(* start reads says so (set_kill_switch, _restore_kill_switch_from_db).       *)
TripStands == standing => kill /\ schedKill /\ ~armed /\ row = "activated"

(* "Requires 2 consecutive mismatched ticks before tripping, so a same-tick   *)
(* fill-timing race can't false-trip it" (_periodic_reconciliation_loop): one *)
(* fill that is booked before a second tick fetches never trips the switch,   *)
(* through failed fetches, clears and restarts.  (Two fills can.)             *)
OneFillNeverTrips == trades <= 1 => ~falseTrip

(* A loss beyond its limit that stays trips the switch, and trips it again    *)
(* whenever it is cleared (the portfolio guardian).                           *)
BreachTrips == <>[]breach => []<>kill

(* A difference between broker and ledger that stays trips the switch while   *)
(* LIVE, through failed fetches, restarts and clears (the reconciliation).    *)
DriftTrips == <>[](live /\ atBroker # inLedger) => []<>kill
===============================================================================

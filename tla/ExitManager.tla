------------------------------ MODULE ExitManager ------------------------------
(***************************************************************************)
(* The protection of one symbol's position: ExitManager and its ExitPlans  *)
(* (exit/exit_manager.py, exit/exit_plan.py), the runtime's fill callback  *)
(* and restore_state (api/runtime.py), the rows they keep in the database  *)
(* (active_exit_plans and open_positions, data/persistence.py), and        *)
(* EmergencySquareOff (execution/emergency_square_off.py).                 *)
(*                                                                         *)
(* Entries are BUYs; a short position mirrors a long one.  Prices are      *)
(* arbitrary, so any trigger may be hit at any poll, and the retry window  *)
(* of a pending exit may have passed at any poll.  What happens to an exit *)
(* order between enqueue and its fill (ExecutionScheduler, OrderTracking)  *)
(* is one step here.  A step is the code between two awaits.               *)
(***************************************************************************)
EXTENDS Integers, FiniteSets

CONSTANTS
  Mode,          \* the execution modes in use (domain/enums.py ExecutionMode)
  StartMode,     \* settings.execution_mode
  Option,        \* whether the instrument is an option contract
  Plan,          \* ids of the plans that entry fills create
  Rearm,         \* the id of the plan restore_state makes up, rearm_<symbol>
  EntryQty,      \* the lots an entry fill may bring
  Written,       \* outcomes of a database write: {TRUE}, or BOOLEAN
  MaxOut,        \* bound: exit orders outstanding at a time
  MaxRetries,    \* MAX_EXIT_RETRIES
  MaxRestarts    \* bound: restarts of the process

ASSUME ExitAssumption ==
  /\ StartMode \in Mode
  /\ Option \in BOOLEAN
  /\ Rearm \notin Plan
  /\ "none" \notin Plan \union {Rearm}
  /\ EntryQty \subseteq Nat \ {0}
  /\ Written \subseteq BOOLEAN
  /\ MaxOut \in Nat \ {0} /\ MaxRetries \in Nat /\ MaxRestarts \in Nat

VARIABLES
  mode,          \* runtime.execution_mode
  day,           \* today against the contract's expiry date
  held,          \* the ledger's signed position
  plans,         \* ids in exit_manager._plans
  quantity,      \* plan.quantity, negative for a plan of a short position;
                 \* 0: no such plan was ever made
  partialQty,    \* plan.partial_exit_qty; 0 while partial_exit_done is not set
  pending,       \* the trigger in _pending_exits, or "none"
  retries,       \* _exit_retry_count
  out,           \* exit orders that were taken in and whose fate is open
  dbHeld,        \* open_positions, per execution mode
  row,           \* active_exit_plans, per plan
  saving,        \* modes for which a save_positions thread is still to run
  settled,       \* expiry settlements in the ledger's totals
  dbSettled,     \* the same, in the latest portfolio snapshot
  restarts,      \* history: restarts so far
  mishaps        \* history: what has disturbed the bookkeeping (see Mishap)

planVars == <<plans, quantity, partialQty, pending, retries>>
dbVars == <<dbHeld, row, saving, dbSettled>>
vars == <<mode, day, held, planVars, out, dbVars, settled, restarts, mishaps>>

PlanId == Plan \union {Rearm}
Slot == 1..MaxOut

(* FULL stands for every trigger that closes the plan: stop loss, trailing    *)
(* stop, target, expiry.                                                      *)
Trigger == {"PARTIAL_TARGET", "FULL"}

(* An order of the square-off names no plan.                                  *)
NoPlan == "none"
Order == [plan : PlanId \union {NoPlan}, trigger : Trigger, delta : Int]
NoOrder == [plan |-> NoPlan, trigger |-> "FULL", delta |-> 0]
Outstanding == {s \in Slot : out[s] # NoOrder}
NextSlot(s) == s \in Slot \ Outstanding /\ \A t \in Slot \ Outstanding : s <= t

Row == [qty : Int, mode : Mode]
NoRow == [qty |-> 0, mode |-> StartMode]

(* partial:  an exit order was filled in part only                            *)
(* overlap:  an exit went out while another of the same lots was outstanding, *)
(*           or lots were added under an outstanding square-off, or the plan  *)
(*           of an outstanding exit was dropped                               *)
(* rows:     a row could not be written (note_swallowed), was deleted while   *)
(*           its plan is registered, belongs to another execution mode, or was *)
(*           left aside by a restart that deferred its restore                *)
(* lost:     the process restarted from rows that were not up to date         *)
Mishap == {"partial", "overlap", "rows", "lost"}
Happened(w, cond) == IF cond THEN {w} ELSE {}

Init ==
  /\ mode = StartMode
  /\ day = "before"
  /\ held = 0
  /\ plans = {}
  /\ quantity = [p \in PlanId |-> 0]
  /\ partialQty = [p \in PlanId |-> 0]
  /\ pending = [p \in PlanId |-> "none"]
  /\ retries = [p \in PlanId |-> 0]
  /\ out = [s \in Slot |-> NoOrder]
  /\ dbHeld = [m \in Mode |-> 0]
  /\ row = [p \in PlanId |-> NoRow]
  /\ saving = {}
  /\ settled = 0 /\ dbSettled = 0
  /\ restarts = 0
  /\ mishaps = {}
-------------------------------------------------------------------------------
(* The database.                                                              *)

(* Negative test: ON CONFLICT DO NOTHING.                                    *)
SavedRowOnce(p, q) == IF row[p].qty = 0 THEN [qty |-> q, mode |-> mode] ELSE row[p]

(* save_exit_plan: a row that exists keeps the mode it was inserted under.    *)
SavedRow(p, q) ==
  [qty |-> q, mode |-> IF row[p].qty = 0 THEN mode ELSE row[p].mode]

(* delete_exit_plans_for_symbol: every row of the symbol under the mode.      *)
WithoutRowsOf(m) == [p \in PlanId |-> IF row[p].mode = m THEN NoRow ELSE row[p]]

(* The thread of save_positions: it writes what the ledger holds by then.     *)
SavePositions(m, ok) ==
  /\ m \in saving
  /\ saving' = saving \ {m}
  /\ dbHeld' = IF ok THEN [dbHeld EXCEPT ![m] = held] ELSE dbHeld
  /\ mishaps' = mishaps \union Happened("rows", ~ok)
  /\ UNCHANGED <<mode, day, held, planVars, out, row, settled, dbSettled, restarts>>

(* _periodic_snapshot_loop.                                                   *)
SaveSnapshot ==
  /\ dbSettled' = settled
  /\ UNCHANGED <<mode, day, held, planVars, out, dbHeld, row, saving, settled,
                 restarts, mishaps>>
-------------------------------------------------------------------------------
(* Entries: _on_fill registers a plan for the lots of the fill and saves it,  *)
(* and schedules a save of the positions.                                     *)

EntryFill(p, q, ok) ==
  /\ day # "past" /\ quantity[p] = 0
  /\ held' = held + q
  /\ plans' = plans \union {p}
  /\ quantity' = [quantity EXCEPT ![p] = q]
  /\ row' = IF ok THEN [row EXCEPT ![p] = SavedRow(p, q)] ELSE row
  /\ saving' = saving \union {mode}
  /\ mishaps' = mishaps
       \union Happened("rows", ~ok)
       \union Happened("overlap", \E s \in Outstanding : out[s].plan = NoPlan)
  /\ UNCHANGED <<mode, day, partialQty, pending, retries, out, dbHeld, settled,
                 dbSettled, restarts>>
-------------------------------------------------------------------------------
(* _monitor_loop: one plan at one poll.                                       *)

(* Negative test: a stuck exit is given up after MAX_EXIT_RETRIES.           *)
DueUntilStuck(p) == p \in plans /\ retries[p] < MaxRetries

(* The plan has no exit in flight, or one whose window has passed.            *)
Due(p) == p \in plans

(* The exit in flight is out of its window: a retry is counted.  The count    *)
(* only chooses the next window, which is the same from MaxRetries on: there  *)
(* the model stops counting, and the code does not.                           *)
Retry(p) ==
  retries' = IF pending[p] # "none" /\ retries[p] < MaxRetries
             THEN [retries EXCEPT ![p] = @ + 1] ELSE retries

(* check_trigger: at the target, the first time, half of the plan if that is  *)
(* at least one lot.  From the expiry date on every poll is EXPIRY, which is  *)
(* all a plan made up at a restart has.                                       *)
Hit(p, trigger) ==
  IF day = "before" THEN
    /\ p # Rearm
    /\ trigger = "PARTIAL_TARGET" => partialQty[p] = 0 /\ quantity[p] >= 2
  ELSE trigger = "FULL"

(* Negative test: the partial quantity is recorded with the sign of the order.*)
BookTriggerSigned(p, trigger) ==
  partialQty' = IF trigger = "PARTIAL_TARGET"
                THEN [partialQty EXCEPT ![p] = -(quantity[p] \div 2)] ELSE partialQty

BookTrigger(p, trigger) ==
  partialQty' = IF trigger = "PARTIAL_TARGET"
                THEN [partialQty EXCEPT ![p] = quantity[p] \div 2] ELSE partialQty

(* Negative test: the partial quantity is not used.                          *)
ExitDeltaWhole(p, trigger) == -quantity[p]

(* _emit_exit_intent: half for a partial exit, everything for the others.     *)
ExitDelta(p, trigger) ==
  IF trigger = "PARTIAL_TARGET" THEN -(quantity[p] \div 2) ELSE -quantity[p]

SameLots(p) == {s \in Outstanding : out[s].plan \in {p, NoPlan}}

(* The exit is enqueued and taken in.                                         *)
Emit(p, trigger, s) ==
  /\ Due(p) /\ Hit(p, trigger) /\ held # 0 /\ NextSlot(s)
  /\ BookTrigger(p, trigger) /\ Retry(p)
  /\ pending' = [pending EXCEPT ![p] = trigger]
  /\ out' = [out EXCEPT ![s] = [plan |-> p, trigger |-> trigger,
                                delta |-> ExitDelta(p, trigger)]]
  /\ mishaps' = mishaps \union Happened("overlap", SameLots(p) # {})
  /\ UNCHANGED <<mode, day, held, plans, quantity, dbVars, settled, restarts>>

(* enqueue drops it (compliance) or raises (a full queue): the first leaves   *)
(* the exit pending, the second leaves the plan armed.                        *)
EmitFails(p, trigger, dropped) ==
  /\ Due(p) /\ Hit(p, trigger) /\ held # 0
  /\ BookTrigger(p, trigger) /\ Retry(p)
  /\ pending' = [pending EXCEPT ![p] = IF dropped THEN trigger ELSE "none"]
  /\ UNCHANGED <<mode, day, held, plans, quantity, out, dbVars, settled, restarts,
                 mishaps>>

(* The position is flat already: the plan is stale and dropped, its row stays.*)
MonitorFlat(p, trigger) ==
  /\ Due(p) /\ Hit(p, trigger) /\ held = 0
  /\ BookTrigger(p, trigger)
  /\ plans' = plans \ {p}
  /\ pending' = [pending EXCEPT ![p] = "none"]
  /\ retries' = [retries EXCEPT ![p] = 0]
  /\ mishaps' = mishaps \union Happened("overlap", SameLots(p) # {})
  /\ UNCHANGED <<mode, day, held, quantity, out, dbVars, settled, restarts>>

(* The window has passed and no trigger is hit at the moment.                 *)
Unhit(p) ==
  /\ Due(p) /\ pending[p] # "none" /\ day = "before"
  /\ Retry(p)
  /\ pending' = [pending EXCEPT ![p] = "none"]
  /\ UNCHANGED <<mode, day, held, plans, quantity, partialQty, out, dbVars, settled,
                 restarts, mishaps>>
-------------------------------------------------------------------------------
(* The fate of an exit order.                                                 *)

(* Negative test: the plan id of the exit is ignored.                        *)
TargetsAll(o) == plans

(* on_exit_fill: the plan the order names, or every plan of the symbol.  A    *)
(* partial exit leaves the plan the lots it did not mean to sell; any other   *)
(* fill closes the plan.                                                      *)
Targets(o) == IF o.plan \in plans THEN {o.plan} ELSE plans

Reduced(o) == {p \in Targets(o) : /\ o.trigger = "PARTIAL_TARGET"
                                  /\ quantity[p] > partialQty[p]}

OnExitFill(o) ==
  LET closed == Targets(o) \ Reduced(o)
  IN /\ quantity' = [p \in PlanId |-> IF p \in Reduced(o) THEN quantity[p] - partialQty[p]
                                      ELSE quantity[p]]
     /\ plans' = plans \ closed
     /\ pending' = [p \in PlanId |-> IF p \in Targets(o) THEN "none" ELSE pending[p]]
     /\ retries' = [p \in PlanId |-> IF p \in closed THEN 0 ELSE retries[p]]
     /\ UNCHANGED partialQty

(* The rows after it: the plans of the symbol are saved after a partial exit  *)
(* if any plan, of whatever symbol, is left; else the symbol's are deleted.   *)
KeepsRows(o, others) == o.trigger = "PARTIAL_TARGET" /\ (plans' # {} \/ others)

StoreExit(o, ok, others) ==
  /\ row' = IF ~ok THEN row
            ELSE IF KeepsRows(o, others)
            THEN [p \in PlanId |-> IF p \in plans' THEN SavedRow(p, quantity'[p]) ELSE row[p]]
            ELSE WithoutRowsOf(mode)
  /\ saving' = saving \union {mode}

(* The lots a filled order may have been filled by when its tracking ends.    *)
Parts(delta) == IF delta < 0 THEN delta..(-1) ELSE 1..delta

(* _on_fill for an exit.                                                      *)
ExitFills(s, part, ok, others) ==
  /\ s \in Outstanding /\ day # "past"
  /\ held' = held + part
  /\ OnExitFill(out[s])
  /\ StoreExit(out[s], ok, others)
  /\ out' = [out EXCEPT ![s] = NoOrder]
  /\ mishaps' = mishaps
       \union Happened("partial", part # out[s].delta)
       \union Happened("rows", ~ok \/ (~KeepsRows(out[s], others) /\ plans' # {}))
  /\ UNCHANGED <<mode, day, dbHeld, settled, dbSettled, restarts>>

(* Rejected by a gate or by the broker, or never confirmed.                   *)
ExitDies(s) ==
  /\ s \in Outstanding
  /\ out' = [out EXCEPT ![s] = NoOrder]
  /\ UNCHANGED <<mode, day, held, planVars, dbVars, settled, restarts, mishaps>>

(* EmergencySquareOff.square_off: one order for all the lots, of no plan.     *)
SquareOff(s) ==
  /\ held # 0 /\ NextSlot(s)
  /\ out' = [out EXCEPT ![s] = [plan |-> NoPlan, trigger |-> "FULL", delta |-> -held]]
  /\ mishaps' = mishaps \union Happened("overlap", Outstanding # {})
  /\ UNCHANGED <<mode, day, held, planVars, dbVars, settled, restarts>>
-------------------------------------------------------------------------------
(* Mode switches, the passing of days, and restarts.                          *)

SwitchMode(m) ==
  /\ m # mode /\ mode' = m
  /\ mishaps' = mishaps \union {"rows"}
  /\ UNCHANGED <<day, held, planVars, out, dbVars, settled, restarts>>

DayPasses ==
  /\ Option /\ day # "past"
  /\ day' = IF day = "before" THEN "expiry" ELSE "past"
  /\ UNCHANGED <<mode, held, planVars, out, dbVars, settled, restarts, mishaps>>

(* The process stops, and restore_state runs: the positions the instrument    *)
(* master still knows (an expired contract may be gone), then the plans of    *)
(* open positions, then an expiry plan for an option without one.             *)
Restored(known) == IF known THEN dbHeld[StartMode] ELSE 0

RestoredPlans(known) ==
  IF Restored(known) = 0 THEN {}
  ELSE {p \in PlanId : row[p].qty # 0 /\ row[p].mode = StartMode}

Rearmed(known) == Option /\ Restored(known) # 0 /\ RestoredPlans(known) = {}

RestoredRows(known) ==
  IF Restored(known) = 0 THEN WithoutRowsOf(StartMode)
  ELSE IF Rearmed(known)
  THEN [row EXCEPT ![Rearm] = [qty |-> Restored(known),
                               mode |-> IF row[Rearm].qty = 0 THEN StartMode
                                        ELSE row[Rearm].mode]]
  ELSE row

(* _settle_expired_positions: an expired option is settled in cash, and its   *)
(* position and plans are dropped.  The positions saved then no longer have   *)
(* the symbol, so its open_positions row stays.                               *)
Settles(known) == Restored(known) # 0 /\ day = "past"

(* What a stop of the process takes with it.                                  *)
Stop ==
  /\ restarts < MaxRestarts /\ restarts' = restarts + 1
  /\ mode' = StartMode
  /\ partialQty' = [p \in PlanId |-> 0]
  /\ pending' = [p \in PlanId |-> "none"]
  /\ retries' = [p \in PlanId |-> 0]
  /\ out' = [s \in Slot |-> NoOrder]
  /\ saving' = {}

Stale == Happened("lost", "rows" \in mishaps \/ saving # {})

Restart(known) ==
  LET back == IF Rearmed(known) THEN {Rearm} ELSE RestoredPlans(known)
      gone == Settles(known)
  IN /\ Stop
     /\ ~known => day = "past"
     /\ held' = IF gone THEN 0 ELSE Restored(known)
     /\ plans' = IF gone THEN {} ELSE back
     /\ quantity' = [p \in PlanId |-> IF p \in back THEN RestoredRows(known)[p].qty
                                      ELSE quantity[p]]
     /\ row' = IF gone THEN WithoutRowsOf(StartMode) ELSE RestoredRows(known)
     /\ settled' = dbSettled + (IF gone THEN 1 ELSE 0)
     /\ mishaps' = mishaps \union Stale
     /\ UNCHANGED <<day, dbHeld, dbSettled>>

(* The instrument master is synthetic: nothing is restored, the rows stay.    *)
RestartDeferred ==
  /\ Stop
  /\ held' = 0 /\ plans' = {} /\ settled' = 0
  /\ mishaps' = mishaps \union Stale \union {"rows"}
  /\ UNCHANGED <<day, quantity, dbHeld, row, dbSettled>>

Poll(p) ==
  \/ \E trigger \in Trigger :
       \/ \E s \in Slot : Emit(p, trigger, s)
       \/ \E dropped \in BOOLEAN : EmitFails(p, trigger, dropped)
       \/ MonitorFlat(p, trigger)
  \/ Unhit(p)

Fate(s) ==
  \/ \E part \in Parts(out[s].delta), ok \in Written, others \in BOOLEAN :
       ExitFills(s, part, ok, others)
  \/ ExitDies(s)

Next ==
  \/ \E p \in Plan, q \in EntryQty, ok \in Written : EntryFill(p, q, ok)
  \/ \E p \in PlanId : Poll(p)
  \/ \E s \in Slot : Fate(s) \/ SquareOff(s)
  \/ \E m \in Mode, ok \in Written : SavePositions(m, ok)
  \/ \E m \in Mode : SwitchMode(m)
  \/ SaveSnapshot \/ DayPasses
  \/ \E known \in BOOLEAN : Restart(known)
  \/ RestartDeferred

Spec == Init /\ [][Next]_vars

(* The monitor polls every second, so a trigger that keeps being hit is       *)
(* emitted again and again unless enqueue refuses it every time; and the      *)
(* market is there for a market order, unless the broker refuses every one.   *)
FairSpec ==
  /\ Spec
  /\ \A p \in PlanId : /\ SF_vars(\E s \in Slot : Emit(p, "FULL", s))
                       /\ WF_vars(\E trigger \in Trigger : MonitorFlat(p, trigger))
  /\ \A s \in Slot :
       SF_vars(\E others \in BOOLEAN : ExitFills(s, out[s].delta, TRUE, others))
-------------------------------------------------------------------------------
(* Properties.                                                                *)

TypeOK ==
  /\ mode \in Mode /\ day \in {"before", "expiry", "past"}
  /\ held \in Int
  /\ plans \subseteq PlanId
  /\ quantity \in [PlanId -> Int] /\ partialQty \in [PlanId -> Nat]
  /\ pending \in [PlanId -> Trigger \union {"none"}]
  /\ retries \in [PlanId -> Nat]
  /\ out \in [Slot -> Order]
  /\ dbHeld \in [Mode -> Int] /\ row \in [PlanId -> Row]
  /\ saving \subseteq Mode
  /\ settled \in Nat /\ dbSettled \in Nat /\ restarts \in 0..MaxRestarts
  /\ mishaps \subseteq Mishap

Undisturbed(what) == mishaps \intersect what = {}

(* The lots of a plan, and the lots that the outstanding exits would sell,    *)
(* each numbered from 1.                                                      *)
ProtectedLots == UNION {{p} \X (1..quantity[p]) : p \in plans}
OrderedLots == UNION {{s} \X (1..(-out[s].delta)) : s \in Slot}

(* As long as exits fill whole and one at a time and restarts find their rows *)
(* up to date, the registered plans protect exactly the lots that are held:   *)
(* _on_fill, on_exit_fill, the rows and restore_state keep the ledger and the *)
(* exit manager in step.                                                      *)
Covered ==
  Undisturbed({"partial", "overlap", "lost"}) => Cardinality(ProtectedLots) = held

(* Unless exits of the same lots overlap or a restart lost rows, all exits    *)
(* outstanding may be filled, in any order and in part, without taking the    *)
(* position through zero: what _emit_exit_intent sells, on_exit_fill frees.   *)
NeverThroughZero ==
  Undisturbed({"overlap", "lost"}) => Cardinality(OrderedLots) <= held

Filled(s) == out[s] # NoOrder /\ out'[s] = NoOrder /\ held' # held

Released ==
  \A p \in plans \ plans' :
    \/ held = 0 \/ restarts' # restarts \/ "overlap" \in mishaps
    \/ \E s \in Slot : Filled(s) /\ out[s].plan \in {p, NoPlan}

(* on_exit_fill is the only event that removes a plan: a plan leaves by a     *)
(* fill of an exit of its own or of a square-off, unless the position is flat *)
(* or the process restarts (exits that overlap are set aside, because a late  *)
(* one frees whatever plans are left).                                        *)
ReleasedByFill == [][Released]_vars

(* PENDING_EXIT_RETRY_SECONDS and MAX_EXIT_RETRIES: however often an exit is  *)
(* dropped, rejected or lost, its plan is tried again, so that a plan whose   *)
(* trigger keeps being hit is worked off before its contract expires.         *)
ExitsGetThrough ==
  \A p \in PlanId :
    (p \in plans /\ Hit(p, "FULL")) ~> (p \notin plans \/ day = "past")

(* The inductive invariant behind them, in four parts.                        *)

(* Unless exits overlapped, the exits outstanding are of different registered *)
(* plans, or there is only one and it is a square-off.                        *)
OrderInv ==
  "overlap" \notin mishaps =>
    /\ \A s \in Outstanding : out[s].plan \in plans \union {NoPlan}
    /\ \A s, t \in Outstanding :
         s # t => out[s].plan # out[t].plan /\ out[s].plan # NoPlan

(* The plans never protect more than is held.                                 *)
PlansWithin ==
  /\ \A p \in plans : quantity[p] > 0
  /\ IsFiniteSet(ProtectedLots)
  /\ Cardinality(ProtectedLots) <= held
  /\ "partial" \notin mishaps => Cardinality(ProtectedLots) = held

(* An outstanding order sells what on_exit_fill will take off its plan, or, a *)
(* square-off, the whole position.                                            *)
SellsItsPlan(o) ==
  IF o.plan = NoPlan THEN o.trigger = "FULL" /\ held > 0 /\ o.delta = -held
  ELSE IF o.trigger = "FULL" THEN o.delta = -quantity[o.plan]
  ELSE o.delta = -partialQty[o.plan] /\ partialQty[o.plan] \in 1..(quantity[o.plan] - 1)

OrdersMatch == \A s \in Outstanding : SellsItsPlan(out[s])

(* While nothing disturbed the rows, they are the registered plans, and the   *)
(* position is saved or about to be, unless its contract was settled.         *)
RowsCurrent ==
  "rows" \notin mishaps =>
    /\ mode = StartMode /\ saving \subseteq {StartMode}
    /\ \A p \in PlanId : row[p] = IF p \in plans
                                  THEN [qty |-> quantity[p], mode |-> StartMode] ELSE NoRow
    /\ \/ StartMode \in saving \/ dbHeld[StartMode] = held
       \/ day = "past" /\ held = 0

PlanInv ==
  Undisturbed({"overlap", "lost"}) => PlansWithin /\ OrdersMatch /\ RowsCurrent
===============================================================================

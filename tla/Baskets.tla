-------------------------------- MODULE Baskets --------------------------------
(***************************************************************************)
(* One multi-leg order (a spread or a condor) on its way to the broker:    *)
(* TradingRuntime.submit_multi_leg, the MultiLegOrderManager it hands the  *)
(* legs to (execution/multi_leg_manager.py), and the ManualApprovalGate    *)
(* (risk/manual_approval.py) that takes them instead in a LIVE mode.       *)
(*                                                                         *)
(* The scheduler is reduced to what the manager sees of it: an intent is   *)
(* put on the queue or silently dropped, is sent to the broker of the mode *)
(* it was stamped with, and fills in parts, late or never.                 *)
(***************************************************************************)
EXTENDS ControlPlane, FiniteSets

CONSTANTS
  Legs,          \* number of legs, in the order of the caller's payload
  Buys,          \* the legs that buy
  Lots,          \* intent.quantity of every leg, in lots
  Kinds          \* subset of {"opening", "closing"}: the legs' priority

ASSUME BasketAssumption ==
  /\ Legs \in Nat /\ Legs >= 2
  /\ Buys \subseteq 1..Legs
  /\ Lots \in Nat \ {0}
  /\ Kinds \subseteq {"opening", "closing"}

VARIABLES
  kind,          \* ENTRY legs open, legs of a more urgent priority close
  pc,            \* where submit_multi_leg and the manager's submit are
  cur,           \* the leg submitted last, 0 before the first
  status,        \* leg.status
  told,          \* legs whose fill event is set
  order,         \* the leg's intent in the scheduler
  stamp,         \* metadata["execution_mode"] of the intent
  held,          \* lots of the leg booked so far
  request,       \* its approval request
  puts,          \* history: how often the intent entered the queue
  reversing,     \* legs whose reverse intent entered the queue
  rolledBack     \* ml_order.rolled_back

legVars == <<status, told, order, stamp, held, request, puts>>
vars == <<controlVars, kind, pc, cur, legVars, reversing, rolledBack>>

Leg == 1..Legs
LegStatus == {"PENDING", "SUBMITTED", "FILLED", "FAILED", "CANCELLED"}
Place == {"none", "putting", "queued", "dropped", "sent", "over"}
Request == {"none", "pending", "approved", "rejected", "expired"}
Point == {"called", "put", "wait", "asked", "done", "cancelled"}

(* intents.sort in submit_multi_leg: stable, the buying legs first.  Negative *)
(* test: the caller's order.                                                  *)
PrecedesInPayload(k, l) == k < l
Precedes(k, l) ==
  \/ k \in Buys /\ l \notin Buys
  \/ (k \in Buys <=> l \in Buys) /\ k < l

(* oms.is_duplicate: the key has reached the broker before.                   *)
IsDuplicate(l) == order[l] \in {"sent", "over"}

Init ==
  /\ mode \in Mode
  /\ broker = BrokerClient(mode)
  /\ arming = IF mode \in LiveMode THEN "armed" ELSE "disarmed"
  /\ kill = FALSE /\ killEvent = "none" /\ commanded = FALSE /\ auditLost = FALSE
  /\ kind \in Kinds
  /\ pc = "called"
  /\ cur = 0
  /\ status = [l \in Leg |-> "PENDING"]
  /\ told = {}
  /\ order = [l \in Leg |-> "none"]
  /\ stamp = [l \in Leg |-> "none"]
  /\ held = [l \in Leg |-> 0]
  /\ request = [l \in Leg |-> "none"]
  /\ puts = [l \in Leg |-> 0]
  /\ reversing = {}
  /\ rolledBack = FALSE
-------------------------------------------------------------------------------
(* scheduler.enqueue, up to the await of a queue that is full.                *)

(* Kill switch, compliance or event risk: the key is returned, nothing raised.*)
EnqueueDrops(l) ==
  /\ order' = [order EXCEPT ![l] = "dropped"]
  /\ UNCHANGED <<stamp, puts>>

Admitted(l) ==
  /\ ~(kill /\ kind = "opening")
  /\ stamp' = [stamp EXCEPT ![l] = mode]

EnqueuePuts(l) ==
  /\ Admitted(l)
  /\ order' = [order EXCEPT ![l] = "queued"]
  /\ puts' = [puts EXCEPT ![l] = @ + 1]

(* A full queue: an entry waits for room, a more urgent intent raises.        *)
EnqueueWaits(l) ==
  /\ kind = "opening" /\ Admitted(l)
  /\ order' = [order EXCEPT ![l] = "putting"]
  /\ UNCHANGED puts

EnqueueRaises(l) ==
  /\ kind = "closing" /\ Admitted(l)
  /\ UNCHANGED <<order, puts>>

(* There is room again.                                                       *)
PutResumes(l) ==
  /\ order[l] = "putting"
  /\ order' = [order EXCEPT ![l] = "queued"]
  /\ puts' = [puts EXCEPT ![l] = @ + 1]
  /\ pc' = IF pc = "put" THEN "wait" ELSE pc
  /\ UNCHANGED <<controlVars, kind, cur, status, told, stamp, held, request,
                 reversing, rolledBack>>
-------------------------------------------------------------------------------
(* The manager's submit.                                                      *)

(* The leg fails: the filled ones are taken in reverse, each reverse intent   *)
(* is enqueued with the key of its leg, and the leg becomes CANCELLED.        *)
Fail(l, before) ==
  LET filled == {k \in Leg : before[k] = "FILLED"}
  IN /\ status' = [k \in Leg |-> IF k = l THEN "FAILED"
                                 ELSE IF k \in filled THEN "CANCELLED"
                                 ELSE before[k]]
     /\ reversing' = {k \in filled : ~IsDuplicate(k)}
     /\ rolledBack' = TRUE
     /\ pc' = "done"

(* Negative test: the leg counts as filled once it is enqueued.               *)
StatusOnEnqueueFilled == "FILLED"
StatusOnEnqueue == "SUBMITTED"

(* The next leg: the first still pending, once all before it are filled.      *)
SubmitLeg(l, before) ==
  /\ before[l] = "PENDING"
  /\ \A k \in Leg : Precedes(k, l) => before[k] = "FILLED"
  /\ cur' = l
  /\ \/ /\ EnqueueDrops(l) \/ EnqueuePuts(l)
        /\ status' = [before EXCEPT ![l] = StatusOnEnqueue]
        /\ pc' = "wait" /\ UNCHANGED <<reversing, rolledBack>>
     \/ /\ EnqueueWaits(l)
        /\ status' = [before EXCEPT ![l] = StatusOnEnqueue]
        /\ pc' = "put" /\ UNCHANGED <<reversing, rolledBack>>
     \/ /\ EnqueueRaises(l)
        /\ Fail(l, before)

(* submit_multi_leg outside LIVE, or with manual_approved in the payload.     *)
SubmitDirect ==
  /\ pc = "called"
  /\ \E l \in Leg : SubmitLeg(l, status)
  /\ UNCHANGED <<controlVars, kind, told, held, request>>

(* The event was set before the deadline: the leg is filled, and the next one *)
(* is submitted in the same step.                                             *)
LegFilled ==
  /\ pc = "wait" /\ cur \in told
  /\ LET after == [status EXCEPT ![cur] = "FILLED"]
     IN \/ /\ \A l \in Leg : after[l] = "FILLED"
           /\ status' = after /\ pc' = "done"
           /\ UNCHANGED <<cur, order, stamp, puts, reversing, rolledBack>>
        \/ \E l \in Leg : SubmitLeg(l, after)
  /\ UNCHANGED <<controlVars, kind, told, held, request>>

(* Negative test: wait_for without its timeout.                               *)
NeverLate == FALSE
TooLate == cur \notin told

LegTimesOut ==
  /\ pc = "wait" /\ TooLate
  /\ Fail(cur, status)
  /\ UNCHANGED <<controlVars, kind, cur, told, order, stamp, held, request, puts>>

(* The task that awaits submit is cancelled; nothing is rolled back, and the  *)
(* order stays active.                                                        *)
Cancel ==
  /\ pc \in {"put", "wait"}
  /\ pc' = "cancelled"
  /\ order' = IF order[cur] = "putting" THEN [order EXCEPT ![cur] = "dropped"]
              ELSE order
  /\ UNCHANGED <<controlVars, kind, cur, status, told, stamp, held, request, puts,
                 reversing, rolledBack>>
-------------------------------------------------------------------------------
(* Manual approval: in a LIVE mode every leg becomes a request of its own.    *)

AskApproval ==
  /\ pc = "called" /\ mode \in LiveMode
  /\ request' = [l \in Leg |-> "pending"]
  /\ pc' = "asked"
  /\ UNCHANGED <<controlVars, kind, cur, status, told, order, stamp, held, puts,
                 reversing, rolledBack>>

(* approve: the request leaves _pending.  Negative tests: it stays there, and *)
(* a request that expired or was rejected is still found.                     *)
KeepRequest(l) == UNCHANGED request
TakeRequest(l) == request' = [request EXCEPT ![l] = "approved"]

IsKept(l) == request[l] \in {"pending", "rejected", "expired"}
IsPending(l) == request[l] = "pending"

(* approve_order: the approval is used up whatever becomes of the intent.     *)
ApproveOrder(l) ==
  /\ IsPending(l)
  /\ TakeRequest(l)
  /\ EnqueueDrops(l) \/ EnqueuePuts(l) \/ EnqueueWaits(l) \/ EnqueueRaises(l)
  /\ UNCHANGED <<controlVars, kind, pc, cur, status, told, held, reversing,
                 rolledBack>>

(* reject_order, the price-drift rule of approve_order, and _expire_stale.    *)
Refuse(l, verdict) ==
  /\ IsPending(l)
  /\ request' = [request EXCEPT ![l] = verdict]
  /\ UNCHANGED <<controlVars, kind, pc, cur, status, told, order, stamp, held, puts,
                 reversing, rolledBack>>
-------------------------------------------------------------------------------
(* The scheduler and the broker.                                              *)

SchedulerStep(l) ==
  /\ UNCHANGED <<controlVars, kind, pc, cur, status, stamp, request, puts,
                 reversing, rolledBack>>

(* _process_intent: an intent of another mode is rejected, any gate may.      *)
WorkerSends(l) ==
  /\ order[l] = "queued" /\ stamp[l] = mode
  /\ order' = [order EXCEPT ![l] = "sent"]
  /\ UNCHANGED <<told, held>> /\ SchedulerStep(l)

WorkerRejects(l) ==
  /\ order[l] = "queued"
  /\ order' = [order EXCEPT ![l] = "dropped"]
  /\ UNCHANGED <<told, held>> /\ SchedulerStep(l)

(* Negative test: every booking takes the quantity of the whole order.        *)
WholeOrder(l) == Lots
Unfilled(l) == Lots - held[l]

(* _handle_fill books n lots and calls notify_fill.  The simulator fills an   *)
(* order whole; a live one may be booked in parts.                            *)
Fills(l, n) ==
  /\ order[l] = "sent" /\ n <= Unfilled(l)
  /\ BrokerClient(stamp[l]) = "paper" => n = Lots
  /\ held' = [held EXCEPT ![l] = @ + n]
  /\ told' = IF pc = "wait" /\ cur = l THEN told \union {l} ELSE told
  /\ UNCHANGED order /\ SchedulerStep(l)

(* The order is rejected, cancelled or given up with what it has.             *)
OrderEnds(l) ==
  /\ order[l] = "sent"
  /\ order' = [order EXCEPT ![l] = "over"]
  /\ UNCHANGED <<told, held>> /\ SchedulerStep(l)

Operate ==
  /\ \/ \E m \in Mode : SetExecutionMode(m)
     \/ \E active \in BOOLEAN : SetKillSwitch(active, TRUE)
  /\ UNCHANGED <<kind, pc, cur, legVars, reversing, rolledBack>>

Next ==
  \/ SubmitDirect \/ LegFilled \/ LegTimesOut \/ Cancel
  \/ AskApproval
  \/ \E l \in Leg :
       \/ PutResumes(l)
       \/ ApproveOrder(l)
       \/ \E verdict \in {"rejected", "expired"} : Refuse(l, verdict)
       \/ WorkerSends(l) \/ WorkerRejects(l)
       \/ \E n \in 1..Lots : Fills(l, n)
       \/ OrderEnds(l)
  \/ Operate

Spec == Init /\ [][Next]_vars

(* The deadline of a leg passes, the event loop resumes the task, and the     *)
(* worker makes room on the queue.  Nothing is assumed of gates or fills.     *)
Fairness ==
  /\ WF_vars(LegFilled \/ LegTimesOut)
  /\ \A l \in Leg : WF_vars(PutResumes(l))

FairSpec == Spec /\ Fairness
-------------------------------------------------------------------------------
TypeOK ==
  /\ ControlTypeOK
  /\ kind \in {"opening", "closing"}
  /\ pc \in Point
  /\ cur \in 0..Legs
  /\ status \in [Leg -> LegStatus]
  /\ told \subseteq Leg
  /\ order \in [Leg -> Place]
  /\ stamp \in [Leg -> Mode \union {"none"}]
  /\ held \in [Leg -> 0..Lots]
  /\ request \in [Leg -> Request]
  /\ puts \in [Leg -> Nat]
  /\ reversing \subseteq Leg
  /\ rolledBack \in BOOLEAN

(* "The fill event is the authoritative state transition": a leg is FILLED    *)
(* only when lots of it are in the ledger, through late fills, drops by gates *)
(* and mode changes (MultiLegOrderManager).                                   *)
FilledByTrade == \A l \in Leg : status[l] = "FILLED" => held[l] > 0

(* Hedge first: a basket that the manager submits has no selling order out,   *)
(* not even on the queue, before every buying leg holds lots; nor after a     *)
(* timeout, a rollback or a cancellation (submit_multi_leg, submit).          *)
SellsFollowBuys ==
  pc # "asked" =>
    \A s \in Leg \ Buys, b \in Buys : order[s] # "none" => held[b] > 0

(* No leg enters the queue twice: neither a second approval of the same       *)
(* request nor the manager's own path repeats it (approve, submit).           *)
QueuedOnce == \A l \in Leg : puts[l] <= 1

(* A request that was rejected, drifted or expired stays so, and its leg is   *)
(* never sent, whichever calls race with it (ManualApprovalGate).             *)
RefusalIsFinal ==
  [][\A l \in Leg : request[l] \in {"rejected", "expired"} =>
       request'[l] = request[l] /\ order'[l] = order[l]]_vars

(* A basket that is being submitted comes to an end, whatever its legs do.    *)
BasketEnds == pc \in {"put", "wait"} ~> pc \in {"done", "cancelled"}
-------------------------------------------------------------------------------
(* What a docstring says, and the code does not do.                           *)

(* "If any leg fails the already-filled legs are reversed (partial-fill       *)
(* rollback) by enqueuing opposite-side intents" (MultiLegOrder).             *)
RollbackReverses ==
  rolledBack => \A l \in Leg : status[l] = "CANCELLED" => l \in reversing
===============================================================================

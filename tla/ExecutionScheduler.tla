-------------------------- MODULE ExecutionScheduler --------------------------
(***************************************************************************)
(* ExecutionScheduler (execution/scheduler.py): enqueue, the priority      *)
(* queue, the single worker that runs the gates and submits to the broker, *)
(* and the OMS event log (execution/oms_store.py) that idempotency and the *)
(* unresolved-order query read.                                            *)
(*                                                                         *)
(* Everything runs on one event loop: a step is the code between two       *)
(* awaits that really suspend (a full queue, the rate limiter, the broker  *)
(* call in its executor).  OrderTracking has the polls, cancels and broker *)
(* fills behind an acknowledged order; here its task books what it books   *)
(* in at most two steps, the first being a chase that goes on to MARKET.   *)
(***************************************************************************)
EXTENDS ControlPlane, Integers, FiniteSets

CONSTANTS
  Intent,        \* the OrderIntent objects handed to enqueue
  Key,           \* idempotency keys
  Symbol,        \* instrument symbols
  Attr,          \* Attr[i]: the fields of intent i (see IntentRecord)
  InitialHeld,   \* the positions restored when the process starts
  MaxQueue,      \* max_queue_size
  NoIntent       \* the worker holds no intent

IntentRecord == [key: Key, symbol: Symbol, priority: 1..10,
                 qty: Int \ {0},            \* side.sign * quantity
                 claimsOpening: BOOLEAN]    \* metadata["opens_position"]

ASSUME SchedulerAssumption ==
  /\ Attr \in [Intent -> IntentRecord]
  /\ InitialHeld \in [Symbol -> Int]
  /\ MaxQueue \in Nat \ {0}
  /\ NoIntent \notin Intent

VARIABLES
  where,         \* where an intent is on its way through the scheduler
  stamp,         \* the execution mode stamped on it at enqueue
  ticket,        \* its sequence number, the tie-break of the priority queue
  nextTicket,    \* _seq_counter
  wpc,           \* what the worker is suspended on
  cur,           \* the intent it is processing
  opens,         \* opens[i]: how the worker classified i at the gates
  venue,         \* venue[i]: the broker that was sent an order for i
  order,         \* the outcome of that order, as far as the platform knows
  rest,          \* rest[i]: lots of the order that is being tracked for i
  lots,          \* history: lots of i that _handle_fill put in the ledger
  held,          \* the ledger's signed position per symbol
  lastEvent,     \* the latest OMS event of each order (order_id is the key)
  submitted,     \* keys that have a broker_submitted event
  openedSinceTrip, \* history: opening orders sent since the kill switch tripped
  overtaken      \* history: less urgent orders sent while i waited in the queue

ledgerVars == <<rest, lots, held>>
schedVars == <<where, stamp, ticket, nextTicket, wpc, cur, opens, venue, order,
               ledgerVars, lastEvent, submitted, openedSinceTrip, overtaken>>
vars == <<controlVars, schedVars>>

ENTRY == 9
KILL_SWITCH == 1
Protective(i) == Attr[i].priority < ENTRY

Where == {"new", "blocked", "queued", "working", "deferred", "done", "lost"}
Outcome == {"none", "unlogged", "tracking", "chasing", "booked", "rejected",
            "unpriced", "unresolved", "silent", "orphaned"}
Tracked == {"tracking", "chasing"}      \* a tracking task runs

(* The OMS event types that can be the last one of an order.  The reason of a *)
(* final-gate rejection is kept when it is that LIVE is not armed.            *)
UnresolvedEvent == {"fill_unresolved", "fill_price_missing"}
Event == {"none", "kill_switch_cancelled", "compliance_rejected",
          "compliance_approved", "queue_full_exit_deferred", "intent_queued",
          "mode_mismatch_rejected", "capital_check_failed", "risk_rejected",
          "risk_rejected_not_armed", "duplicate_suppressed", "lock_acquired",
          "lock_released", "broker_submitted", "broker_filled", "broker_cancelled",
          "broker_rejected"} \union UnresolvedEvent

AbsVal(n) == IF n < 0 THEN -n ELSE n
Quantity(i) == AbsVal(Attr[i].qty)              \* intent.quantity, in lots

(* derive_true_opens_position: a claim to close is believed only for an order *)
(* that is covered by an opposite position.                                   *)
OpensPosition(i, h) ==
  \/ Attr[i].claimsOpening
  \/ h = 0
  \/ (h > 0) = (Attr[i].qty > 0)
  \/ AbsVal(Attr[i].qty) > AbsVal(h)

DerivedOpens(i) == OpensPosition(i, held[Attr[i].symbol])

Queue == {i \in Intent : where[i] = "queued"}
QueueFull == Cardinality(Queue) >= MaxQueue

(* Negative test: a plain FIFO queue.                                         *)
BeforeFifo(i, j) == ticket[i] <= ticket[j]

(* PriorityQueue order: lower priority value first, then first come.          *)
Before(i, j) == \/ Attr[i].priority < Attr[j].priority
                \/ Attr[i].priority = Attr[j].priority /\ ticket[i] <= ticket[j]
AtHead(i) == i \in Queue /\ \A j \in Queue : Before(i, j)

(* oms.append: order_id is the idempotency key.  Only the last row of an      *)
(* order is kept, and the keys that have a broker_submitted row.              *)
Append(log, i, e) == [log EXCEPT ![Attr[i].key] = e]
Log(i, e) == lastEvent' = Append(lastEvent, i, e)

Init ==
  /\ ControlInit
  /\ where = [i \in Intent |-> "new"]
  /\ stamp = [i \in Intent |-> StartMode]
  /\ ticket = [i \in Intent |-> 0]
  /\ nextTicket = 1
  /\ wpc = "idle"
  /\ cur = NoIntent
  /\ opens = [i \in Intent |-> TRUE]
  /\ venue = [i \in Intent |-> "none"]
  /\ order = [i \in Intent |-> "none"]
  /\ rest = [i \in Intent |-> 0]
  /\ lots = [i \in Intent |-> 0]
  /\ held = InitialHeld
  /\ lastEvent = [k \in Key |-> "none"]
  /\ submitted = {}
  /\ openedSinceTrip = 0
  /\ overtaken = [i \in Intent |-> 0]
-------------------------------------------------------------------------------
(* enqueue(intent), up to its first suspension.                               *)

AllowedDuringKill(i) == Attr[i].priority = KILL_SWITCH \/ ~DerivedOpens(i)

WorkerUnchanged == UNCHANGED <<wpc, cur, opens, venue, order, ledgerVars, submitted,
                               openedSinceTrip, overtaken>>

EnqueueKilled(i) ==
  /\ where[i] = "new" /\ kill /\ ~AllowedDuringKill(i)
  /\ where' = [where EXCEPT ![i] = "done"]
  /\ Log(i, "kill_switch_cancelled")
  /\ UNCHANGED <<controlVars, stamp, ticket, nextTicket>> /\ WorkerUnchanged

(* A key that already reached the broker is dropped without an event.         *)
EnqueueDuplicate(i) ==
  /\ where[i] = "new" /\ (kill => AllowedDuringKill(i))
  /\ Attr[i].key \in submitted
  /\ where' = [where EXCEPT ![i] = "done"]
  /\ UNCHANGED <<controlVars, stamp, ticket, nextTicket, lastEvent>>
  /\ WorkerUnchanged

Admissible(i) == /\ where[i] = "new" /\ (kill => AllowedDuringKill(i))
                 /\ Attr[i].key \notin submitted

(* ComplianceGuard.check, or EventRiskGuard.check for entries, says no.       *)
EnqueueRefused(i) ==
  /\ Admissible(i)
  /\ where' = [where EXCEPT ![i] = "done"]
  /\ Log(i, "compliance_rejected")
  /\ UNCHANGED <<controlVars, stamp, ticket, nextTicket>> /\ WorkerUnchanged

(* Both agree: the mode is stamped, a ticket drawn, and the intent put on the *)
(* queue.  A full queue makes an entry wait and a protective order fail fast. *)
EnqueueAccepted(i) ==
  /\ Admissible(i)
  /\ stamp' = [stamp EXCEPT ![i] = mode]
  /\ ticket' = [ticket EXCEPT ![i] = nextTicket]
  /\ nextTicket' = nextTicket + 1
  /\ \/ /\ ~QueueFull
        /\ where' = [where EXCEPT ![i] = "queued"]
        /\ Log(i, "intent_queued")
     \/ /\ QueueFull /\ Protective(i)
        /\ where' = [where EXCEPT ![i] = "deferred"]
        /\ Log(i, "queue_full_exit_deferred")
     \/ /\ QueueFull /\ ~Protective(i)
        /\ where' = [where EXCEPT ![i] = "blocked"]
        /\ Log(i, "compliance_approved")
  /\ UNCHANGED controlVars /\ WorkerUnchanged

(* await self._queue.put(item) resumes once there is room.                    *)
PutResumes(i) ==
  /\ where[i] = "blocked" /\ ~QueueFull
  /\ where' = [where EXCEPT ![i] = "queued"]
  /\ Log(i, "intent_queued")
  /\ UNCHANGED <<controlVars, stamp, ticket, nextTicket>> /\ WorkerUnchanged
-------------------------------------------------------------------------------
(* _worker and _process_intent, from the queue to the rate limiter.           *)

(* What the control state and the ledger alone decide in the final gate       *)
(* (_evaluate_final_execution_gate and RiskEngine.evaluate).                  *)
NotArmed == mode \in LiveMode /\ ~LiveArmed

GateAdmits(i) == ~NotArmed /\ (kill => ~DerivedOpens(i))

Take(i) == wpc = "idle" /\ AtHead(i)

TakeUnchanged == UNCHANGED <<controlVars, stamp, ticket, nextTicket, venue, order,
                             ledgerVars, submitted, openedSinceTrip, overtaken>>

(* Leave the queue without reaching the broker, event e being the last one.   *)
Drop(i, e) ==
  /\ Take(i)
  /\ where' = [where EXCEPT ![i] = "done"]
  /\ opens' = [opens EXCEPT ![i] = DerivedOpens(i)]
  /\ Log(i, e)
  /\ UNCHANGED <<wpc, cur>> /\ TakeUnchanged

RejectModeMismatch(i) == stamp[i] # mode /\ Drop(i, "mode_mismatch_rejected")

(* Negative test: an event type the OMS store does not know.                  *)
RejectCapitalUnknownEvent(i) ==
  /\ stamp[i] = mode /\ DerivedOpens(i) /\ ~Protective(i)
  /\ Drop(i, "capital_rejected")

(* CapitalProtection looks only at opening orders of entry priority.          *)
RejectCapital(i) == /\ stamp[i] = mode /\ DerivedOpens(i) /\ ~Protective(i)
                    /\ Drop(i, "capital_check_failed")

(* The final gate may always say no on prices, edge, readiness or limits; the *)
(* checks that come before the LIVE arming check concern opening orders only. *)
RejectFinalGate(i) == /\ stamp[i] = mode /\ (NotArmed => DerivedOpens(i))
                      /\ Drop(i, "risk_rejected")

RejectNotArmed(i) == /\ stamp[i] = mode /\ NotArmed
                     /\ Drop(i, "risk_rejected_not_armed")

(* Under the instrument lock the key is looked up again.                      *)
SuppressDuplicate(i) ==
  /\ stamp[i] = mode /\ GateAdmits(i) /\ Attr[i].key \in submitted
  /\ Drop(i, "lock_released")   \* lock_acquired, duplicate_suppressed, lock_released

(* Negative test: no second look at the key under the lock.                   *)
ClearUnchecked(i) ==
  /\ stamp[i] = mode /\ GateAdmits(i) /\ Take(i)
  /\ where' = [where EXCEPT ![i] = "working"]
  /\ opens' = [opens EXCEPT ![i] = DerivedOpens(i)]
  /\ wpc' = "limiter" /\ cur' = i
  /\ Log(i, "lock_acquired")
  /\ TakeUnchanged

(* Negative test: the worker does not wait for the final gate's verdict.      *)
ClearUngated(i) ==
  /\ stamp[i] = mode /\ Attr[i].key \notin submitted /\ Take(i)
  /\ where' = [where EXCEPT ![i] = "working"]
  /\ opens' = [opens EXCEPT ![i] = DerivedOpens(i)]
  /\ wpc' = "limiter" /\ cur' = i
  /\ Log(i, "lock_acquired")
  /\ TakeUnchanged

(* All gates passed, lock taken: the worker now waits for a rate token.       *)
Clear(i) ==
  /\ stamp[i] = mode /\ GateAdmits(i) /\ Attr[i].key \notin submitted
  /\ Take(i)
  /\ where' = [where EXCEPT ![i] = "working"]
  /\ opens' = [opens EXCEPT ![i] = DerivedOpens(i)]
  /\ wpc' = "limiter" /\ cur' = i
  /\ Log(i, "lock_acquired")
  /\ TakeUnchanged
-------------------------------------------------------------------------------
(* _submit_to_broker.                                                         *)

(* A token is granted and the order goes to whatever broker is wired in now.  *)
Submit ==
  /\ wpc = "limiter"
  /\ wpc' = "broker"
  /\ venue' = [venue EXCEPT ![cur] = broker]
  /\ openedSinceTrip' = IF kill /\ opens[cur] THEN openedSinceTrip + 1
                        ELSE openedSinceTrip
  /\ overtaken' = [i \in Intent |->
        IF i \in Queue /\ Attr[i].priority < Attr[cur].priority
        THEN overtaken[i] + 1 ELSE overtaken[i]]
  /\ UNCHANGED <<controlVars, where, stamp, ticket, nextTicket, cur, opens,
                 order, ledgerVars, lastEvent, submitted>>

(* The row _submit_to_broker leaves last for each outcome.                    *)
OutcomeEvent(outcome) ==
  CASE outcome = "booked"   -> "broker_filled"
    [] outcome = "rejected" -> "broker_rejected"
    [] outcome = "unpriced" -> "fill_price_missing"
    [] outcome = "tracking" -> "broker_submitted"
    [] outcome = "unlogged" -> lastEvent[Attr[cur].key]

(* Negative test: the worker forgets to drop its intent when it is done.      *)
FinishKeepsIntent(outcome) ==
  /\ wpc = "broker" /\ wpc' = "idle" /\ UNCHANGED cur
  /\ where' = [where EXCEPT ![cur] = "done"]
  /\ order' = [order EXCEPT ![cur] = outcome]
  /\ Log(cur, "lock_released")
  /\ UNCHANGED <<controlVars, stamp, ticket, nextTicket, opens, venue,
                 openedSinceTrip, overtaken>>

(* The worker is done with cur: its outcome is logged, then the lock released *)
(* and lock_released logged.                                                  *)
Finish(outcome) ==
  /\ wpc = "broker"
  /\ wpc' = "idle" /\ cur' = NoIntent
  /\ where' = [where EXCEPT ![cur] = "done"]
  /\ order' = [order EXCEPT ![cur] = outcome]
  /\ lastEvent' = Append(Append(lastEvent, cur, OutcomeEvent(outcome)),
                         cur, "lock_released")
  /\ UNCHANGED <<controlVars, stamp, ticket, nextTicket, opens, venue,
                 openedSinceTrip, overtaken>>

(* What submit_order can return: the simulator fills a MARKET order at once   *)
(* and lets an entry's LIMIT order rest; the live adapter may answer anything *)
(* that BrokerResult allows.                                                  *)
Answers(i) ==
  IF venue[i] = "live" THEN {"booked", "tracking", "rejected", "unpriced"}
  ELSE IF Protective(i) THEN {"booked"} ELSE {"booked", "tracking"}

(* _handle_fill: n lots of i go into the ledger (none: it is not called).     *)
Fill(i, n) ==
  /\ held' = [held EXCEPT ![Attr[i].symbol] = IF Attr[i].qty < 0 THEN @ - n ELSE @ + n]
  /\ lots' = [lots EXCEPT ![i] = @ + n]

(* An order filled at once is booked for the whole quantity of the intent, one*)
(* that was acknowledged is tracked for it.                                   *)
BookedAtOnce(outcome) ==
  /\ Fill(cur, IF outcome = "booked" THEN Quantity(cur) ELSE 0)
  /\ rest' = [rest EXCEPT ![cur] = IF outcome = "tracking" THEN Quantity(cur) ELSE 0]

(* Negative test: broker_submitted rows without an idempotency key.           *)
BrokerReturnsUnkeyed(outcome) ==
  /\ Finish(outcome) /\ outcome \in Answers(cur)
  /\ UNCHANGED submitted
  /\ BookedAtOnce(outcome)

(* broker.submit_order returned: broker_submitted is logged, then the fill    *)
(* booked, the tracker started, or the rejection or missing price recorded.   *)
BrokerReturns(outcome) ==
  /\ Finish(outcome) /\ outcome \in Answers(cur)
  /\ submitted' = submitted \union {Attr[cur].key}
  /\ BookedAtOnce(outcome)

(* Negative test: an exception that ends the worker's loop.                   *)
BrokerRaisesKillsWorker ==
  /\ wpc = "broker" /\ venue[cur] = "live" /\ wpc' = "dead"
  /\ UNCHANGED <<controlVars, where, stamp, ticket, nextTicket, cur, opens, venue,
                 order, ledgerVars, lastEvent, submitted, openedSinceTrip, overtaken>>

(* The live call raised: nothing is logged of the submission, whether or not  *)
(* the order reached the broker.                                              *)
BrokerRaises ==
  /\ Finish("unlogged") /\ venue[cur] = "live"
  /\ UNCHANGED <<submitted, ledgerVars>>

TrackUnchanged == UNCHANGED <<controlVars, where, stamp, ticket, nextTicket, wpc,
                              cur, opens, venue, submitted, openedSinceTrip,
                              overtaken>>

(* The simulator's order rests until its price is met.                        *)
Resting(i) == order[i] = "tracking" /\ venue[i] = "paper"

(* Negative test: a chase that sends the whole quantity again as MARKET.      *)
ChaseGoesOnWhole(i, n, priced) ==
  /\ order[i] = "tracking" /\ ~Protective(i)
  /\ Resting(i) => n = 0
  /\ n < rest[i] \/ (n = rest[i] /\ ~priced)
  /\ Fill(i, IF priced THEN n ELSE 0)
  /\ order' = [order EXCEPT ![i] = "chasing"]
  /\ Log(i, "broker_cancelled")
  /\ UNCHANGED rest /\ TrackUnchanged

(* A LIMIT entry not filled when its chase times out: the n lots reported by  *)
(* then are booked if they came with a price, the resting order is cancelled, *)
(* and only the lots not reported are sent again as MARKET.  The simulator    *)
(* fills a resting order whole or not at all.                                 *)
ChaseGoesOn(i, n, priced) ==
  /\ order[i] = "tracking" /\ ~Protective(i)
  /\ Resting(i) => n = 0
  /\ n < rest[i] \/ (n = rest[i] /\ ~priced)
  /\ Fill(i, IF priced THEN n ELSE 0)
  /\ rest' = [rest EXCEPT ![i] = @ - n]
  /\ order' = [order EXCEPT ![i] = "chasing"]
  /\ Log(i, "broker_cancelled")
  /\ TrackUnchanged

(* How _track_order_until_terminal or the chase ends, n lots being booked in  *)
(* its last step: all of the order out; a part of it, or none, at the timeout,*)
(* with an alarm; none of a rejected or cancelled one.  A chase may also end  *)
(* without a word: complete without a usable report, a MARKET order filled    *)
(* without a price, a resubmission that raises.                               *)
TrackEnds(i, outcome, n) ==
  /\ order[i] \in Tracked /\ (Resting(i) => outcome = "booked")
  /\ \/ outcome = "booked" /\ n = rest[i] /\ Log(i, "broker_filled")
     \/ outcome = "rejected" /\ n = 0 /\ Log(i, "broker_rejected")
     \/ /\ outcome = "unresolved" /\ (n < rest[i] \/ n = 0)
        /\ Log(i, "fill_unresolved")
     \/ /\ outcome = "silent" /\ n = 0 /\ ~Protective(i)
        /\ UNCHANGED lastEvent \/ (order[i] = "chasing" /\ Log(i, "broker_submitted"))
  /\ Fill(i, n)
  /\ order' = [order EXCEPT ![i] = outcome]
  /\ rest' = [rest EXCEPT ![i] = 0]
  /\ TrackUnchanged
-------------------------------------------------------------------------------
(* The operator, and a restart of the process.                                *)

TripCount(active) == IF active /\ ~kill THEN 0 ELSE openedSinceTrip

Operate ==
  /\ \/ /\ \/ \E m \in Mode : SetExecutionMode(m)
           \/ ArmLive(TRUE)
           \/ DisarmLive
        /\ UNCHANGED openedSinceTrip
     \/ \E active, saved \in BOOLEAN :
          SetKillSwitch(active, saved) /\ openedSinceTrip' = TripCount(active)
  /\ UNCHANGED <<where, stamp, ticket, nextTicket, wpc, cur, opens, venue, order,
                 ledgerVars, lastEvent, submitted, overtaken>>

(* Queue, worker and tracking tasks are in memory only; the OMS log stays.    *)
Restart ==
  /\ \E readOk \in BOOLEAN : RestartControl(readOk)
  /\ wpc' = "idle" /\ cur' = NoIntent
  /\ where' = [i \in Intent |-> IF where[i] \in {"queued", "blocked", "working"}
                                THEN "lost" ELSE where[i]]
  /\ order' = [i \in Intent |->
        IF order[i] \in Tracked THEN "orphaned"
        ELSE IF wpc = "broker" /\ cur = i THEN "unlogged" ELSE order[i]]
  /\ rest' = [i \in Intent |-> 0]
  /\ openedSinceTrip' = 0
  /\ UNCHANGED <<stamp, ticket, nextTicket, opens, venue, lots, held, lastEvent,
                 submitted, overtaken>>

Enqueue(i) == \/ EnqueueKilled(i) \/ EnqueueDuplicate(i)
              \/ EnqueueRefused(i) \/ EnqueueAccepted(i)

Process(i) == \/ RejectModeMismatch(i) \/ RejectCapital(i) \/ RejectFinalGate(i)
              \/ RejectNotArmed(i) \/ SuppressDuplicate(i) \/ Clear(i)

BrokerAnswers ==
  \/ \E outcome \in {"booked", "tracking", "rejected", "unpriced"} :
       BrokerReturns(outcome)
  \/ BrokerRaises

Track(i) ==
  \E n \in 0..Quantity(i) :
    \/ \E priced \in BOOLEAN : ChaseGoesOn(i, n, priced)
    \/ \E outcome \in {"booked", "rejected", "unresolved", "silent"} :
         TrackEnds(i, outcome, n)

Next ==
  \/ \E i \in Intent : Enqueue(i) \/ PutResumes(i) \/ Process(i) \/ Track(i)
  \/ Submit
  \/ BrokerAnswers
  \/ Operate
  \/ Restart

Spec == Init /\ [][Next]_vars

(* The event loop runs every task that can go on, and every broker call ends  *)
(* (an answer, or an exception on a network timeout).                         *)
Fairness ==
  /\ WF_vars(\E i \in Intent : Process(i))
  /\ WF_vars(Submit)
  /\ WF_vars(BrokerAnswers)
  /\ \A i \in Intent : WF_vars(PutResumes(i)) /\ WF_vars(Track(i))

FairSpec == Spec /\ Fairness
-------------------------------------------------------------------------------
TypeOK ==
  /\ ControlTypeOK
  /\ where \in [Intent -> Where]
  /\ stamp \in [Intent -> Mode]
  /\ ticket \in [Intent -> Nat]
  /\ nextTicket \in Nat
  /\ wpc \in {"idle", "limiter", "broker"}
  /\ cur \in Intent \union {NoIntent}
  /\ opens \in [Intent -> BOOLEAN]
  /\ venue \in [Intent -> Venue \union {"none"}]
  /\ order \in [Intent -> Outcome]
  /\ rest \in [Intent -> Nat]
  /\ lots \in [Intent -> Nat]
  /\ held \in [Symbol -> Int]
  /\ lastEvent \in [Key -> Event]
  /\ submitted \subseteq Key
  /\ openedSinceTrip \in Nat
  /\ overtaken \in [Intent -> Nat]

(* Intents whose order the OMS log knows the broker took.                     *)
Acknowledged == {i \in Intent : order[i] \notin {"none", "unlogged"}}

(* One idempotency key, one acknowledged order, however the intents that      *)
(* carry it race through the queue, the lock, a broker that raises and a      *)
(* restart (audit fix H5: is_duplicate at enqueue and again under the lock).  *)
AtMostOncePerKey ==
  \A i, j \in Acknowledged : Attr[i].key = Attr[j].key => i = j

(* The same promise as a specification of its own: the worker claims a key,   *)
(* settles it with an acknowledged order or abandons it, and never claims a   *)
(* key that is settled.                                                       *)
Once == INSTANCE OrderOnce WITH
          KeyOf <- [i \in Intent |-> Attr[i].key],
          claim <- cur, acked <- Acknowledged
OnceSpec == Once!OnceSpec

(* How far an intent has come, for the ledger: an order is out while the      *)
(* broker call or its tracking task runs.                                     *)
Out(i) == order[i] \in Tracked \/ (wpc = "broker" /\ cur = i)

Progress(i) == IF Out(i) THEN "sent"
               ELSE IF where[i] = "new" THEN "outside"
               ELSE IF where[i] \in {"blocked", "queued", "working"} THEN "inside"
               ELSE "left"

(* The ledger's positions move only by orders that are out, in their          *)
(* direction, and by no more than the intent's quantity over all the pieces,  *)
(* through partial fills, chases, broker errors and restarts (_handle_fill is *)
(* called from _submit_to_broker, the tracker and both phases of a chase).    *)
Ledger == INSTANCE OrderLedger WITH
            SymbolOf <- [i \in Intent |-> Attr[i].symbol],
            QtyOf <- [i \in Intent |-> Attr[i].qty],
            path <- [i \in Intent |-> Progress(i)], moved <- lots,
            position <- held
LedgerSpec == Ledger!LedgerSpec

(* The kill switch stops openings at once: after a trip the worker still sends*)
(* at most the one order it had already cleared, whatever is in the queue.    *)
(* (The MARKET remainder of a chase is sent by its own task, past every gate: *)
(* it belongs to an order sent before, and is not counted.)                   *)
TripStopsOpenings == openedSinceTrip <= 1

(* Exits first: an order in the queue sees at most one less urgent order sent *)
(* before it, the one the worker already held when it arrived.                *)
OvertakenAtMostOnce == \A i \in Intent : overtaken[i] <= 1

(* Every intent that enqueue took in leaves the scheduler: a gate or the      *)
(* broker decides it, or a restart loses it; no gate verdict, broker error or *)
(* full queue stops the worker.                                               *)
EveryIntentLeaves ==
  \A i \in Intent : where[i] \in {"blocked", "queued", "working"}
                      ~> where[i] \in {"done", "lost"}
-------------------------------------------------------------------------------
(* The inductive invariant behind the four properties above.                  *)

(* The worker holds exactly the intent that is "working", and an order exists *)
(* only for an intent that has left the scheduler.                            *)
WorkerInv ==
  /\ wpc = "idle" <=> cur = NoIntent
  /\ \A i \in Intent : where[i] = "working" <=> cur = i
  /\ \A i \in Intent : order[i] # "none" => where[i] \in {"done", "lost"}

(* is_duplicate is exact: the log holds a broker_submitted row of a key if    *)
(* and only if an order of that key was acknowledged, and never for the       *)
(* intent that is about to be submitted.                                      *)
KeyInv ==
  /\ submitted = {Attr[i].key : i \in Acknowledged}
  /\ AtMostOncePerKey
  /\ cur # NoIntent => Attr[cur].key \notin submitted

(* What is booked and what is still out make up the intent at most; nothing   *)
(* is booked of an order before its broker or its tracker speaks.             *)
PiecesInv ==
  \A i \in Intent :
    /\ order[i] = "none" => lots[i] = 0
    /\ order[i] \in Tracked => lots[i] + rest[i] <= Quantity(i)

(* A cleared opening under an active switch is the first since the trip.      *)
TripInv ==
  /\ TripStopsOpenings
  /\ kill /\ wpc = "limiter" /\ opens[cur] => openedSinceTrip = 0

(* An order not yet in the queue was not overtaken, nor was one that waits    *)
(* behind a less urgent order still at the rate limiter.                      *)
OvertakeInv ==
  /\ OvertakenAtMostOnce
  /\ \A i \in Intent :
       \/ where[i] \in {"new", "blocked"}
       \/ i \in Queue /\ wpc = "limiter" /\ Attr[i].priority < Attr[cur].priority
       => overtaken[i] = 0

(* What the control plane keeps (started outside LIVE, the broker follows the *)
(* mode: see BrokerFollowsMode).                                              *)
ControlInv ==
  /\ NeverArmedUnderKill
  /\ TripSurvivesRestart
  /\ ~auditLost => (commanded <=> killEvent = "kill_switch_activated")

IndInv == WorkerInv /\ KeyInv /\ PiecesInv /\ TripInv /\ OvertakeInv /\ ControlInv
-------------------------------------------------------------------------------
(* What comments and docstrings say, and the code does not do.                *)

(* "position-reducing orders are explicitly allowed during kill switch": one  *)
(* that the worker takes up while the switch is what disarmed LIVE is not     *)
(* turned away for LIVE not being armed (set_kill_switch, audit fix C2).      *)
ReductionsFlowUnderKill ==
  [][\A i \in Intent :
       kill /\ arming = "frozen" /\ where[i] = "queued" /\ ~DerivedOpens(i)
       /\ where'[i] = "done"
         => lastEvent'[Attr[i].key] # "risk_rejected_not_armed"]_vars
===============================================================================

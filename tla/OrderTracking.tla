----------------------------- MODULE OrderTracking -----------------------------
(***************************************************************************)
(* What ExecutionScheduler does with an order the broker acknowledged      *)
(* (execution/scheduler.py): _track_order_until_terminal for a MARKET      *)
(* order, and for a LIMIT entry _chase_to_market_if_unfilled, which        *)
(* cancels the resting order and resubmits what is left as MARKET.         *)
(*                                                                         *)
(* One intent of Qty lots.  The live broker's side of it (the orders it    *)
(* holds and how much of each is filled) moves on its own, and the tracker *)
(* only sees the reports it polls; the simulator (broker/simulated.py)     *)
(* decides a resting order when it is polled.  A step is the code between  *)
(* two awaits.                                                             *)
(***************************************************************************)
EXTENDS ControlPlane, Integers

CONSTANTS
  Qty,           \* intent.quantity, in lots
  Kinds,         \* the order types tracked: subset of {"market", "limit"}
  Lossy          \* the broker's answers may lack a price or a filled quantity

ASSUME TrackingAssumption ==
  /\ Qty \in Nat \ {0}
  /\ Kinds \subseteq {"market", "limit"}
  /\ Lossy \in BOOLEAN

VARIABLES
  kind,          \* intent.order_type
  phase,         \* where the tracking task is
  last,          \* the latest report it keeps (last_status)
  rest,          \* remaining_qty, what the resubmitted order is for
  booked,        \* lots of this intent that _handle_fill put in the ledger
  outcome,       \* how the task ended
  bstate,        \* the broker's state of each order
  filled,        \* lots of it filled at the broker
  home,          \* the broker it was sent to
  asked,         \* the broker whose order_status the chase or follow-up polls
  unbooked       \* history: lots a chase left unbooked for want of a price

trackVars == <<kind, phase, last, rest, booked, outcome, asked, unbooked>>
bookVars == <<bstate, filled, home>>
vars == <<controlVars, trackVars, bookVars>>

(* The order acknowledged first, and the MARKET order of a chase.             *)
BrokerOrder == {"first", "second"}

Phase == {"track", "chase", "cancel", "resubmit", "answer", "follow", "done",
          "stopped"}
TaskOutcome == {"none", "filled", "rejected", "unresolved", "silent", "raised"}
BrokerState == {"none", "open", "complete", "cancelled", "rejected"}

Report == [state : BrokerState, lots : Nat, priced : BOOLEAN]
NoReport == [state |-> "none", lots |-> 0, priced |-> FALSE]

Ordered(o) == IF o = "first" THEN Qty ELSE rest
FilledLots == filled["first"] + filled["second"]

MinOf(a, b) == IF a <= b THEN a ELSE b
MaxOf(a, b) == IF a >= b THEN a ELSE b

(* The order was sent to the broker of the mode of that moment, which has just*)
(* acknowledged it; the mode may have changed during the call.  The simulator *)
(* acknowledges LIMIT orders only.                                            *)
Init ==
  /\ mode \in Mode
  /\ broker = BrokerClient(mode)
  /\ arming = IF mode \in LiveMode THEN "armed" ELSE "disarmed"
  /\ kill = FALSE /\ killEvent = "none" /\ commanded = FALSE /\ auditLost = FALSE
  /\ \E sentIn \in Mode :
       /\ home = [o \in BrokerOrder |->
                     IF o = "first" THEN BrokerClient(sentIn) ELSE "none"]
       /\ kind \in Kinds \ (IF sentIn \in LiveMode THEN {} ELSE {"market"})
  /\ asked = broker
  /\ unbooked = 0
  /\ phase = IF kind = "limit" THEN "chase" ELSE "track"
  /\ last = NoReport
  /\ rest = 0
  /\ booked = 0
  /\ outcome = "none"
  /\ bstate = [o \in BrokerOrder |-> IF o = "first" THEN "open" ELSE "none"]
  /\ filled = [o \in BrokerOrder |-> 0]
-------------------------------------------------------------------------------
(* The live broker.                                                           *)

BrokerFills(o) ==
  /\ home[o] = "live" /\ bstate[o] = "open" /\ filled[o] < Ordered(o)
  /\ filled' = [filled EXCEPT ![o] = @ + 1]
  /\ bstate' = [bstate EXCEPT ![o] = IF filled[o] + 1 = Ordered(o) THEN "complete" ELSE @]
  /\ UNCHANGED <<controlVars, trackVars, home>>

(* It may also reject or cancel what is left of an open order.                *)
BrokerEnds(o) ==
  /\ home[o] = "live" /\ bstate[o] = "open"
  /\ \E s \in {"cancelled", "rejected"} : bstate' = [bstate EXCEPT ![o] = s]
  /\ UNCHANGED <<controlVars, trackVars, filled, home>>

(* What order_status can return of an order it knows.                         *)
Reports(o) ==
  [state : {bstate[o]},
   lots : IF Lossy /\ bstate[o] = "complete" THEN {filled[o], 0} ELSE {filled[o]},
   priced : IF Lossy THEN BOOLEAN ELSE {filled[o] > 0}]

(* The tracking loop asks the broker wired in now, a chase and its follow-up  *)
(* the one that was when they began; only the broker that holds the order     *)
(* knows it.  A poll that returns nothing, or raises, changes nothing.        *)
Polled(o, who) == home[o] = who /\ who = "live" /\ UNCHANGED bookVars
-------------------------------------------------------------------------------
(* The tracking task.                                                         *)

Goto(p) == phase' = p /\ UNCHANGED outcome
End(result) == phase' = "done" /\ outcome' = result

KeepReport(r) == last' = r /\ UNCHANGED <<phase, outcome, booked, rest>>

TaskUnchanged == UNCHANGED <<controlVars, kind, asked>>

Ended(r) == r.state \in {"rejected", "cancelled"}

(* The lots a timed-out order books when it is partly filled.                 *)
PartialLots(r, ordered) == r.lots

(* Out of time: a full fill learned late is booked, a partial one is booked   *)
(* and the alarm raised, anything else only raises the alarm.                 *)
OutOfTime(r, ordered) ==
  \/ /\ r.lots >= ordered /\ r.priced
     /\ booked' = booked + ordered
     /\ End("filled")
  \/ /\ r.lots > 0 /\ r.lots < ordered /\ r.priced
     /\ booked' = booked + PartialLots(r, ordered)
     /\ End("unresolved")
  \/ /\ r.lots = 0 \/ ~r.priced
     /\ UNCHANGED booked
     /\ End("unresolved")

(* A complete order without a filled quantity counts as wholly filled.        *)
CompleteLots(r) == IF r.lots = 0 THEN Qty ELSE r.lots

(* One pass of the loop of _track_order_until_terminal.                       *)
TrackPoll ==
  /\ phase = "track"
  /\ \E r \in Reports("first") :
       /\ Polled("first", broker)
       /\ \/ r.state = "open" /\ KeepReport(r)
          \/ /\ r.state = "complete" /\ r.priced
             /\ booked' = booked + MaxOf(CompleteLots(r), 1)
             /\ End("filled")
             /\ last' = r /\ UNCHANGED rest
          \/ /\ r.state = "complete" /\ ~r.priced
             /\ OutOfTime(r, Qty)
             /\ last' = r /\ UNCHANGED rest
          \/ /\ Ended(r)
             /\ End("rejected")
             /\ last' = r /\ UNCHANGED <<booked, rest>>
  /\ TaskUnchanged /\ UNCHANGED unbooked

TrackTimeout ==
  /\ phase = "track"
  /\ OutOfTime(last, Qty)
  /\ UNCHANGED <<last, rest, unbooked, bookVars>> /\ TaskUnchanged

(* What a chase still has to buy, and the partial fill it books before it     *)
(* goes on.  Negative tests: resubmit the full original quantity, and forget  *)
(* the partial fill.                                                          *)
Usable(r) == r.lots > 0 /\ r.priced

RemainingAll(r) == Qty
Remaining(r) == Qty - r.lots

BookNothing(r) == booked
BookPartial(r) == IF Usable(r) THEN booked + r.lots ELSE booked

LeftUnbooked(r) == unbooked' = IF Usable(r) THEN unbooked ELSE unbooked + r.lots

(* The end of phase 1 of a chase, on the report in hand.                      *)
ChaseVerdict(r) ==
  LET whole == r.state = "complete" \/ Remaining(r) <= 0
  IN /\ last' = r
     /\ \/ /\ Ended(r)
           /\ End("rejected") /\ UNCHANGED <<booked, rest, unbooked>>
        \/ /\ ~Ended(r) /\ whole /\ Usable(r)
           /\ booked' = booked + MinOf(r.lots, Qty)
           /\ End("filled") /\ UNCHANGED <<rest, unbooked>>
        \/ /\ r.state = "complete" /\ ~Usable(r)
           /\ End("silent") /\ UNCHANGED <<booked, rest, unbooked>>
        \/ /\ ~Ended(r) /\ r.state # "complete" /\ ~(whole /\ Usable(r))
           /\ booked' = BookPartial(r) /\ LeftUnbooked(r)
           /\ rest' = Remaining(r)
           /\ Goto("cancel")

ChasePoll ==
  /\ phase = "chase"
  /\ \E r \in Reports("first") :
       /\ Polled("first", asked)
       /\ IF r.state = "open" THEN KeepReport(r) /\ UNCHANGED unbooked
          ELSE ChaseVerdict(r)
  /\ TaskUnchanged

(* The simulator's market has crossed the limit when it is polled: the order  *)
(* fills at once and whole.  (If it has not, the poll changes nothing.)       *)
SimulatedFill ==
  /\ phase = "chase"
  /\ home["first"] = "paper" /\ asked = "paper"
  /\ bstate' = [bstate EXCEPT !["first"] = "complete"]
  /\ filled' = [filled EXCEPT !["first"] = Qty]
  /\ ChaseVerdict([state |-> "complete", lots |-> Qty, priced |-> TRUE])
  /\ UNCHANGED home /\ TaskUnchanged

(* Negative test: a chase that cannot time out before its first report.       *)
ChaseTimeoutReported ==
  /\ phase = "chase" /\ last # NoReport
  /\ ChaseVerdict(last)
  /\ UNCHANGED bookVars /\ TaskUnchanged

ChaseTimeout ==
  /\ phase = "chase"
  /\ ChaseVerdict(last)
  /\ UNCHANGED bookVars /\ TaskUnchanged

(* cancel_order is best effort: it cancels an order that is still open at the *)
(* broker wired in now, or does nothing; the chase goes on either way.  The   *)
(* simulator always knows its own resting order.                              *)
Cancel ==
  /\ phase = "cancel"
  /\ \/ /\ home["first"] = broker /\ bstate["first"] = "open"
        /\ bstate' = [bstate EXCEPT !["first"] = "cancelled"]
     \/ ~(home["first"] = "paper" /\ broker = "paper") /\ UNCHANGED bstate
  /\ Goto("resubmit")
  /\ UNCHANGED <<last, rest, booked, unbooked, filled, home>> /\ TaskUnchanged

(* broker.submit_order(market_intent) on the broker wired in now.             *)
Resubmit ==
  /\ phase = "resubmit"
  /\ home' = [home EXCEPT !["second"] = broker]
  /\ Goto("answer")
  /\ UNCHANGED <<controlVars, kind, last, rest, booked, unbooked, bstate, filled,
                 asked>>

Answer(state, lots) ==
  /\ bstate' = [bstate EXCEPT !["second"] = state]
  /\ filled' = [filled EXCEPT !["second"] = lots]

(* The simulator fills it; the live broker acknowledges it, rejects it, or    *)
(* the call raises with or without the order having arrived.                  *)
ResubmitReturns ==
  /\ phase = "answer"
  /\ \/ /\ home["second"] = "paper" /\ Answer("complete", rest)
        /\ booked' = booked + rest /\ End("filled") /\ UNCHANGED <<last, asked>>
     \/ /\ home["second"] = "live" /\ Answer("rejected", 0)
        /\ End("rejected") /\ UNCHANGED <<booked, last, asked>>
     \/ /\ home["second"] = "live" /\ Answer("open", 0)
        /\ Goto("follow") /\ last' = NoReport /\ asked' = broker /\ UNCHANGED booked
     \/ /\ home["second"] = "live" /\ (Answer("open", 0) \/ Answer("none", 0))
        /\ End("raised") /\ UNCHANGED <<booked, last, asked>>
  /\ UNCHANGED <<controlVars, kind, rest, unbooked, home>>

(* Phase 2: a bounded follow-up of the MARKET order.                          *)
FollowPoll ==
  /\ phase = "follow"
  /\ \E r \in Reports("second") :
       /\ Polled("second", asked)
       /\ \/ r.state = "open" /\ KeepReport(r)
          \/ /\ Ended(r) /\ End("rejected")
             /\ last' = r /\ UNCHANGED <<booked, rest>>
          \/ /\ r.state = "complete" /\ OutOfTime(r, rest)
             /\ last' = r /\ UNCHANGED rest
  /\ TaskUnchanged /\ UNCHANGED unbooked

FollowTimeout ==
  /\ phase = "follow"
  /\ OutOfTime(last, rest)
  /\ UNCHANGED <<last, rest, unbooked, bookVars>> /\ TaskUnchanged

(* scheduler.stop() cancels the tracking tasks.  Negative test: recording the *)
(* cancellation as an outcome of its own.                                     *)
StopRecords ==
  /\ phase \notin {"done", "stopped"}
  /\ phase' = "stopped" /\ outcome' = "cancelled"
  /\ UNCHANGED <<last, rest, booked, unbooked, bookVars>> /\ TaskUnchanged

Stop ==
  /\ phase \notin {"done", "stopped"}
  /\ phase' = "stopped"
  /\ UNCHANGED <<last, rest, booked, unbooked, outcome, bookVars>> /\ TaskUnchanged

(* The operator meanwhile: what it can do that the task or its broker sees.   *)
Operate ==
  /\ \/ \E m \in Mode : SetExecutionMode(m)
     \/ \E active \in BOOLEAN : SetKillSwitch(active, TRUE)
  /\ UNCHANGED <<trackVars, bookVars>>

Next ==
  \/ \E o \in BrokerOrder : BrokerFills(o) \/ BrokerEnds(o)
  \/ TrackPoll \/ TrackTimeout
  \/ ChasePoll \/ SimulatedFill \/ ChaseTimeout
  \/ Cancel \/ Resubmit \/ ResubmitReturns
  \/ FollowPoll \/ FollowTimeout
  \/ Stop
  \/ Operate

Spec == Init /\ [][Next]_vars

(* Deadlines pass, and a broker call answers or raises.  Nothing is assumed   *)
(* of the broker's fills or of any poll.                                      *)
Fairness == WF_vars(\/ TrackTimeout \/ ChaseTimeout \/ FollowTimeout
                    \/ Cancel \/ Resubmit \/ ResubmitReturns)

FairSpec == Spec /\ Fairness
-------------------------------------------------------------------------------
TypeOK ==
  /\ ControlTypeOK
  /\ kind \in {"market", "limit"}
  /\ phase \in Phase
  /\ last \in Report
  /\ rest \in Int
  /\ booked \in Int
  /\ outcome \in TaskOutcome
  /\ bstate \in [BrokerOrder -> BrokerState]
  /\ filled \in [BrokerOrder -> Int]
  /\ home \in [BrokerOrder -> Venue \union {"none"}]
  /\ asked \in Venue
  /\ unbooked \in Nat

(* The ledger never holds a lot of this intent that the broker did not fill,  *)
(* through partial fills, late reports, reports without a quantity, a failed  *)
(* cancel, a resubmission and a broker swap.                                  *)
NeverOverbooks == booked <= FilledLots

(* A limit leg and its MARKET remainder together book at most the quantity    *)
(* that was approved, even when the broker fills more than that.              *)
BookedWithinIntent == booked <= Qty

(* The tracker implements OrderFate: a MARKET order is booked in one piece,   *)
(* a chase in two at most, and a task that ended or was stopped books nothing *)
(* more, however late the broker fills.                                       *)
Pieces == IF phase \in {"done", "stopped"} THEN 0 ELSE IF phase = "chase" THEN 2 ELSE 1

Fate == INSTANCE OrderFate WITH pieces <- Pieces, fills <- FilledLots

FateSpec == Fate!FateSpec

(* A task that ends as filled accounts for the whole intent, in one piece or  *)
(* in two: it is booked, but for lots of a partial fill that the broker had   *)
(* reported without a price (_chase_to_market_if_unfilled).                   *)
FilledMeansWhole == outcome = "filled" => booked + unbooked = Qty

(* Tracking is bounded: every task ends, whatever the broker does or does not *)
(* answer (the deadlines of the tracking loop, the chase and the follow-up).  *)
TaskEnds == phase \notin {"done", "stopped"} ~> phase \in {"done", "stopped"}
-------------------------------------------------------------------------------
(* The inductive invariant behind the safety properties and the refinement.   *)

BrokerInv ==
  /\ filled["first"] \in 0..Qty
  /\ bstate["first"] = "complete" => filled["first"] = Qty
  /\ rest \in 0..Qty
  /\ filled["second"] \in 0..rest
  /\ bstate["second"] = "complete" => filled["second"] = rest
  /\ phase \in {"track", "chase", "cancel", "resubmit", "answer"} =>
       bstate["second"] = "none" /\ filled["second"] = 0

(* The report in hand is a lower bound of what the broker has filled of the   *)
(* order it is about, and the lots booked so far are the first order's.       *)
TrackInv ==
  /\ phase \notin {"done", "stopped"} => outcome = "none"
  /\ phase \in {"track", "chase"} =>
       /\ last.lots <= filled["first"] /\ last.state # "complete"
       /\ booked = 0 /\ unbooked = 0
  /\ phase \in {"cancel", "resubmit", "answer", "follow"} =>
       booked \in 0..filled["first"] /\ booked + unbooked + rest = Qty
  /\ phase = "follow" => last.lots <= filled["second"]

IndInv == BrokerInv /\ TrackInv /\ NeverOverbooks /\ BookedWithinIntent
          /\ FilledMeansWhole
===============================================================================

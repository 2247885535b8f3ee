-------------------------- MODULE OrderTracking_proofs -------------------------
(***************************************************************************)
(* Proofs about OrderTracking, for every quantity, with and without gaps   *)
(* in what the broker reports.                                             *)
(***************************************************************************)
EXTENDS OrderTracking, TLAPS

(* A report about an order gives at most the lots filled, and its state is    *)
(* the broker's (AngelOneBrokerClient.order_status).                          *)
LEMMA ReportBound ==
  ASSUME TypeOK, BrokerInv, NEW o \in BrokerOrder, NEW r \in Reports(o)
  PROVE  /\ r \in Report
         /\ r.lots <= filled[o] /\ r.lots \in {filled[o], 0}
         /\ r.state = bstate[o]
<1>1. filled[o] \in Nat /\ bstate[o] \in BrokerState
  BY TrackingAssumption DEF TypeOK, BrokerInv, BrokerOrder
<1>2. r.state = bstate[o] /\ r.lots \in {filled[o], 0} /\ r.priced \in BOOLEAN
      /\ r = [state |-> r.state, lots |-> r.lots, priced |-> r.priced]
  <2>1. CASE Lossy /\ bstate[o] = "complete"
    BY <2>1 DEF Reports
  <2>2. CASE Lossy /\ bstate[o] # "complete"
    BY <2>2 DEF Reports
  <2>3. CASE ~Lossy
    <3> DEFINE P == filled[o] > 0
    <3>1. r \in [state : {bstate[o]}, lots : {filled[o]}, priced : {P}]
      BY <2>3 DEF Reports
    <3>2. P \in BOOLEAN
      OBVIOUS
    <3> HIDE DEF P
    <3>3. QED
      BY <3>1, <3>2
  <2>4. QED
    BY <2>1, <2>2, <2>3, TrackingAssumption
<1>3. QED
  BY <1>1, <1>2 DEF Report

(* What a task that runs out of time books is covered by its report.          *)
LEMMA OutOfTimeBound ==
  ASSUME NEW r \in Report, NEW n \in Int, booked \in Int, OutOfTime(r, n)
  PROVE  /\ phase' = "done" /\ outcome' \in {"filled", "unresolved"}
         /\ outcome' = "filled" => booked' = booked + n
         /\ \E b \in Int : /\ booked' = booked + b
                           /\ b = 0 \/ (b <= r.lots /\ b <= n)
<1>1. r.lots \in Int
  BY DEF Report
<1>2. CASE r.lots >= n /\ booked' = booked + n /\ End("filled")
  BY <1>1, <1>2 DEF End
<1>3. CASE r.lots < n /\ booked' = booked + r.lots /\ End("unresolved")
  BY <1>1, <1>3 DEF End
<1>4. CASE booked' = booked /\ End("unresolved")
  <2>1. booked' = booked + 0
    BY <1>4
  <2>2. QED
    BY <1>4, <2>1 DEF End
<1>5. QED
  BY <1>1, <1>2, <1>3, <1>4 DEF OutOfTime, PartialLots

LEMMA ControlTyped ==
  ASSUME ControlTypeOK, Operate
  PROVE  ControlTypeOK'
BY DEF Operate, ControlTypeOK, SetExecutionMode, SetKillSwitch, ArmState, Venue,
       KillEvent, BrokerClient

(* The facts each step of the proof starts from.                              *)
Inv == TypeOK /\ IndInv

LEMMA InitInv == Init => Inv
<1> SUFFICES ASSUME Init PROVE Inv
  OBVIOUS
<1>1. Qty \in Nat /\ Qty > 0
  BY TrackingAssumption
<1>2. TypeOK
  <2>1. ControlTypeOK
    BY ModeAssumption DEF Init, ControlTypeOK, BrokerClient, Venue, ArmState, KillEvent
  <2>2. last \in Report
    BY DEF Init, NoReport, Report, BrokerState
  <2>3. bstate \in [BrokerOrder -> BrokerState] /\ filled \in [BrokerOrder -> Int]
    BY DEF Init, BrokerState
  <2>4. home \in [BrokerOrder -> Venue \union {"none"}] /\ asked \in Venue
    <3>1. PICK v \in Venue : home = [o \in BrokerOrder |-> IF o = "first" THEN v ELSE "none"]
      BY DEF Init, BrokerClient, Venue
    <3>2. QED
      BY <2>1, <3>1 DEF Init, ControlTypeOK
  <2>5. kind \in {"market", "limit"}
    BY TrackingAssumption DEF Init
  <2>6. phase \in Phase /\ outcome \in TaskOutcome
    BY DEF Init, Phase, TaskOutcome
  <2>7. rest \in Int /\ booked \in Int /\ unbooked \in Nat
    BY DEF Init
  <2>8. QED
    BY <2>1, <2>2, <2>3, <2>4, <2>5, <2>6, <2>7 DEF TypeOK
<1>3. BrokerInv
  BY <1>1 DEF Init, BrokerInv, BrokerOrder
<1>4. TrackInv /\ NeverOverbooks /\ BookedWithinIntent /\ FilledMeansWhole
  BY <1>1 DEF Init, TrackInv, NeverOverbooks, BookedWithinIntent, FilledMeansWhole,
              FilledLots, NoReport, BrokerOrder
<1>5. QED
  BY <1>2, <1>3, <1>4 DEF Inv, IndInv
-------------------------------------------------------------------------------
(* The broker's steps.                                                        *)

LEMMA BrokerFillsStep ==
  ASSUME Inv, NEW o \in BrokerOrder, BrokerFills(o)
  PROVE  Inv'
<1>1. Qty \in Nat /\ filled["first"] \in 0..Qty /\ rest \in 0..Qty
      /\ filled["second"] \in 0..rest /\ booked \in Int /\ last.lots \in Nat
  BY TrackingAssumption DEF Inv, TypeOK, IndInv, BrokerInv, Report
<1>2. UNCHANGED <<controlVars, trackVars, home>>
  BY DEF BrokerFills
<1>3. bstate[o] = "open" /\ filled[o] < Ordered(o) /\ filled[o] \in Nat
  BY <1>1 DEF BrokerFills, BrokerOrder
<1>4. filled' = [filled EXCEPT ![o] = filled[o] + 1]
  BY DEF BrokerFills
<1>5. bstate' = [bstate EXCEPT ![o] = IF filled[o] + 1 = Ordered(o) THEN "complete"
                                      ELSE bstate[o]]
  BY DEF BrokerFills
<1>6. TypeOK'
  BY <1>2, <1>3, <1>4, <1>5
     DEF Inv, TypeOK, ControlTypeOK, controlVars, trackVars, BrokerState
<1>7. CASE o = "first"
  <2>1. /\ filled'["first"] = filled["first"] + 1
        /\ filled'["second"] = filled["second"]
        /\ bstate'["second"] = bstate["second"]
        /\ bstate'["first"] = IF filled["first"] + 1 = Qty THEN "complete" ELSE "open"
    BY <1>3, <1>4, <1>5, <1>7 DEF Inv, TypeOK, BrokerOrder, Ordered
  <2>2. filled["first"] < Qty
    BY <1>3, <1>7 DEF Ordered
  <2>3. BrokerInv'
    BY <1>1, <1>2, <2>1, <2>2 DEF Inv, IndInv, BrokerInv, trackVars
  <2>4. TrackInv' /\ NeverOverbooks' /\ BookedWithinIntent' /\ FilledMeansWhole'
    BY <1>1, <1>2, <2>1 DEF Inv, IndInv, TrackInv, NeverOverbooks,
       BookedWithinIntent, FilledMeansWhole, FilledLots, trackVars
  <2>5. QED
    BY <1>6, <2>3, <2>4 DEF Inv, IndInv
<1>8. CASE o = "second"
  <2>1. /\ filled'["second"] = filled["second"] + 1
        /\ filled'["first"] = filled["first"]
        /\ bstate'["first"] = bstate["first"]
        /\ bstate'["second"] = IF filled["second"] + 1 = rest THEN "complete" ELSE "open"
    BY <1>3, <1>4, <1>5, <1>8 DEF Inv, TypeOK, BrokerOrder, Ordered
  <2>2. filled["second"] < rest /\ bstate["second"] = "open"
    BY <1>3, <1>8 DEF Ordered
  <2>3. BrokerInv'
    BY <1>1, <1>2, <2>1, <2>2 DEF Inv, IndInv, BrokerInv, trackVars
  <2>4. TrackInv' /\ NeverOverbooks' /\ BookedWithinIntent' /\ FilledMeansWhole'
    BY <1>1, <1>2, <2>1 DEF Inv, IndInv, TrackInv, NeverOverbooks,
       BookedWithinIntent, FilledMeansWhole, FilledLots, trackVars
  <2>5. QED
    BY <1>6, <2>3, <2>4 DEF Inv, IndInv
<1>9. QED
  BY <1>7, <1>8 DEF BrokerOrder

LEMMA BrokerEndsStep ==
  ASSUME Inv, NEW o \in BrokerOrder, BrokerEnds(o)
  PROVE  Inv'
<1>1. PICK s \in {"cancelled", "rejected"} : bstate' = [bstate EXCEPT ![o] = s]
  BY DEF BrokerEnds
<1>2. UNCHANGED <<controlVars, trackVars, filled, home>>
  BY DEF BrokerEnds
<1>3. \A p \in BrokerOrder : bstate'[p] = IF p = o THEN s ELSE bstate[p]
  BY <1>1 DEF Inv, TypeOK
<1>4. TypeOK'
  BY <1>1, <1>2 DEF Inv, TypeOK, ControlTypeOK, controlVars, trackVars, BrokerState
<1>5. bstate[o] = "open"
  BY DEF BrokerEnds
<1>6. BrokerInv'
  BY <1>2, <1>3, <1>5 DEF Inv, IndInv, BrokerInv, trackVars, BrokerOrder
<1>7. TrackInv' /\ NeverOverbooks' /\ BookedWithinIntent' /\ FilledMeansWhole'
  BY <1>2 DEF Inv, IndInv, TrackInv, NeverOverbooks, BookedWithinIntent, FilledMeansWhole,
              FilledLots,
              trackVars
<1>8. QED
  BY <1>4, <1>6, <1>7 DEF Inv, IndInv
-------------------------------------------------------------------------------
(* The task's steps.                                                          *)

(* What the invariant says of the numbers, in one place.                      *)
LEMMA Numbers ==
  ASSUME Inv
  PROVE  /\ Qty \in Nat /\ Qty > 0
         /\ rest \in Int /\ rest >= 0 /\ rest <= Qty
         /\ booked \in Int /\ booked <= Qty /\ booked <= filled["first"] + filled["second"]
         /\ filled["first"] \in Int /\ filled["first"] >= 0 /\ filled["first"] <= Qty
         /\ filled["second"] \in Int /\ filled["second"] >= 0 /\ filled["second"] <= rest
         /\ last.lots \in Int /\ last.lots >= 0
         /\ unbooked \in Int /\ unbooked >= 0
BY TrackingAssumption DEF Inv, TypeOK, IndInv, BrokerInv, NeverOverbooks,
   BookedWithinIntent, FilledLots, Report

(* A task may end with any total that the broker's fills and the intent cover.*)
LEMMA EndStep ==
  ASSUME Inv, TaskUnchanged, UNCHANGED bookVars,
         phase' \in {"done", "stopped"}, outcome' \in TaskOutcome,
         last' \in Report, rest' = rest,
         booked' \in Int, booked' <= FilledLots, booked' <= Qty,
         unbooked' = unbooked, outcome' = "filled" => booked' + unbooked = Qty
  PROVE  Inv'
<1>1. TypeOK'
  BY DEF Inv, TypeOK, ControlTypeOK, TaskUnchanged, controlVars, bookVars, Phase
<1>2. BrokerInv'
  BY DEF Inv, IndInv, BrokerInv, bookVars
<1>3. TrackInv' /\ NeverOverbooks' /\ BookedWithinIntent' /\ FilledMeansWhole'
  BY DEF TrackInv, NeverOverbooks, BookedWithinIntent, FilledMeansWhole,
              FilledLots, bookVars
<1>4. QED
  BY <1>1, <1>2, <1>3 DEF Inv, IndInv

LEMMA KeepReportStep ==
  ASSUME Inv, TaskUnchanged, UNCHANGED bookVars,
         NEW o \in BrokerOrder, NEW r \in Reports(o), KeepReport(r),
         r.state = "open", UNCHANGED unbooked,
         phase \in {"track", "chase"} => o = "first",
         phase = "follow" => o = "second"
  PROVE  Inv'
<1>1. r \in Report /\ r.lots <= filled[o]
  BY ReportBound DEF Inv, IndInv
<1>2. TypeOK'
  BY <1>1 DEF KeepReport, Inv, TypeOK, ControlTypeOK, TaskUnchanged, controlVars, bookVars
<1>3. BrokerInv'
  BY DEF KeepReport, Inv, IndInv, BrokerInv, bookVars
<1>4. TrackInv'
  BY <1>1 DEF KeepReport, Inv, IndInv, TrackInv, bookVars
<1>5. NeverOverbooks' /\ BookedWithinIntent' /\ FilledMeansWhole'
  BY DEF KeepReport, Inv, IndInv, NeverOverbooks, BookedWithinIntent, FilledMeansWhole,
              FilledLots,
         bookVars
<1>6. QED
  BY <1>2, <1>3, <1>4, <1>5 DEF Inv, IndInv

LEMMA TrackPollStep ==
  ASSUME Inv, TrackPoll
  PROVE  Inv'
<1>1. PICK r \in Reports("first") :
        \/ r.state = "open" /\ KeepReport(r)
        \/ /\ r.state = "complete" /\ booked' = booked + MaxOf(CompleteLots(r), 1)
           /\ End("filled") /\ last' = r /\ rest' = rest
        \/ OutOfTime(r, Qty) /\ last' = r /\ rest' = rest
        \/ End("rejected") /\ last' = r /\ booked' = booked /\ rest' = rest
  BY DEF TrackPoll
<1>2. phase = "track" /\ TaskUnchanged /\ UNCHANGED <<bookVars, unbooked>>
  BY DEF TrackPoll, Polled
<1>3. booked = 0 /\ unbooked = 0
  BY <1>2 DEF Inv, IndInv, TrackInv
<1>4. /\ r \in Report /\ r.lots <= filled["first"] /\ r.state = bstate["first"]
      /\ r.lots \in {filled["first"], 0}
  BY ReportBound DEF Inv, IndInv, BrokerOrder
<1>5. r.lots \in Int /\ r.lots >= 0
  BY <1>4 DEF Report
<1>6. CASE r.state = "open" /\ KeepReport(r)
  BY <1>2, <1>6, KeepReportStep DEF BrokerOrder
<1>7. CASE /\ r.state = "complete" /\ booked' = booked + MaxOf(CompleteLots(r), 1)
           /\ End("filled") /\ last' = r /\ rest' = rest
  <2>1. filled["first"] = Qty
    BY <1>4, <1>7 DEF Inv, IndInv, BrokerInv
  <2>2. CompleteLots(r) = Qty
    BY <1>4, <1>5, <2>1, Numbers DEF CompleteLots
  <2>3. booked' = Qty /\ booked' <= FilledLots
    BY <1>3, <1>7, <2>1, <2>2, Numbers DEF MaxOf, FilledLots
  <2>4. QED
    BY <1>2, <1>3, <1>4, <1>7, <2>3, Numbers, EndStep DEF End, TaskOutcome
<1>8. CASE OutOfTime(r, Qty) /\ last' = r /\ rest' = rest
  <2>1. PICK b \in Int : booked' = booked + b /\ (b = 0 \/ (b <= r.lots /\ b <= Qty))
    BY <1>4, <1>8, Numbers, OutOfTimeBound
  <2>2. booked' \in Int /\ booked' <= Qty /\ booked' <= FilledLots
    BY <1>3, <1>4, <1>5, <2>1, Numbers DEF FilledLots
  <2>3. /\ phase' = "done" /\ outcome' \in TaskOutcome
        /\ outcome' = "filled" => booked' = booked + Qty
    BY <1>4, <1>8, Numbers, OutOfTimeBound DEF TaskOutcome
  <2>4. QED
    BY <1>2, <1>3, <1>4, <1>8, <2>2, <2>3, Numbers, EndStep
<1>9. CASE End("rejected") /\ last' = r /\ booked' = booked /\ rest' = rest
  BY <1>2, <1>4, <1>9, Numbers, EndStep DEF End, TaskOutcome, FilledLots
<1>10. QED
  BY <1>1, <1>6, <1>7, <1>8, <1>9

LEMMA TrackTimeoutStep ==
  ASSUME Inv, TrackTimeout
  PROVE  Inv'
<1>1. /\ phase = "track" /\ OutOfTime(last, Qty)
      /\ UNCHANGED <<last, rest, unbooked, bookVars>> /\ TaskUnchanged
  BY DEF TrackTimeout
<1>2. booked = 0 /\ unbooked = 0 /\ last.lots <= filled["first"] /\ last \in Report
  BY <1>1 DEF Inv, TypeOK, IndInv, TrackInv
<1>3. /\ phase' = "done" /\ outcome' \in {"filled", "unresolved"}
      /\ outcome' = "filled" => booked' = booked + Qty
      /\ \E b \in Int : booked' = booked + b /\ (b = 0 \/ (b <= last.lots /\ b <= Qty))
  BY <1>1, <1>2, Numbers, OutOfTimeBound
<1>4. booked' \in Int /\ booked' <= Qty /\ booked' <= FilledLots
  BY <1>2, <1>3, Numbers DEF FilledLots
<1>5. QED
  BY <1>1, <1>2, <1>3, <1>4, Numbers, EndStep DEF TaskOutcome

(* The end of phase 1 of a chase, whichever report it is reached on: what is  *)
(* booked was filled, and what is left to buy fits in the intent.             *)
LEMMA ChaseVerdictStep ==
  ASSUME Inv, phase = "chase", NEW r \in Report, r.lots <= filled["first"],
         r.state = "complete" => r.lots \in {Qty, 0},
         ChaseVerdict(r), TaskUnchanged, UNCHANGED bookVars
  PROVE  Inv'
<1>1. booked = 0 /\ unbooked = 0 /\ r.lots \in Int /\ r.lots >= 0
  BY DEF Inv, IndInv, TrackInv, Report
<1>2. CASE /\ last' = r /\ booked' = booked /\ rest' = rest /\ unbooked' = unbooked
           /\ End("rejected") \/ End("silent")
  BY <1>1, <1>2, Numbers, EndStep DEF End, TaskOutcome, FilledLots
<1>3. CASE /\ r.state = "complete" \/ Remaining(r) <= 0
           /\ Usable(r)
           /\ last' = r /\ booked' = booked + MinOf(r.lots, Qty) /\ rest' = rest
           /\ unbooked' = unbooked /\ End("filled")
  <2>1. r.lots = Qty
    BY <1>1, <1>3, Numbers DEF Usable, Remaining
  <2>2. booked' = Qty /\ booked' <= FilledLots
    BY <1>1, <1>3, <2>1, Numbers DEF MinOf, FilledLots
  <2>3. QED
    BY <1>1, <1>3, <2>2, Numbers, EndStep DEF End, TaskOutcome
<1>4. CASE /\ last' = r /\ booked' = BookPartial(r) /\ LeftUnbooked(r)
           /\ rest' = Remaining(r) /\ Goto("cancel")
  <2>1. phase' = "cancel" /\ outcome' = "none"
    BY <1>4 DEF Goto, Inv, IndInv, TrackInv
  <2>2. \/ booked' = r.lots /\ unbooked' = 0
        \/ booked' = 0 /\ unbooked' = r.lots
    BY <1>1, <1>4 DEF BookPartial, LeftUnbooked
  <2>3. rest' = Qty - r.lots
    BY <1>4 DEF Remaining
  <2>4. TypeOK'
    BY <1>1, <1>4, <2>1, <2>2, <2>3, Numbers
       DEF Inv, TypeOK, ControlTypeOK, TaskUnchanged, controlVars, bookVars, Phase,
           TaskOutcome
  <2>5. filled["second"] = 0 /\ bstate["second"] = "none"
    BY DEF Inv, IndInv, BrokerInv
  <2>6. BrokerInv'
    BY <1>1, <2>1, <2>3, <2>5, Numbers DEF Inv, IndInv, BrokerInv, bookVars
  <2>7. TrackInv' /\ NeverOverbooks' /\ BookedWithinIntent' /\ FilledMeansWhole'
    BY <1>1, <2>1, <2>2, <2>3, <2>5, Numbers
       DEF TrackInv, NeverOverbooks, BookedWithinIntent, FilledMeansWhole,
              FilledLots, bookVars
  <2>8. QED
    BY <2>4, <2>6, <2>7 DEF Inv, IndInv
<1>5. QED
  BY <1>2, <1>3, <1>4 DEF ChaseVerdict

LEMMA ChaseSteps ==
  ASSUME Inv, ChasePoll \/ ChaseTimeout
  PROVE  Inv'
<1>1. CASE ChasePoll
  <2>1. PICK r \in Reports("first") :
          IF r.state = "open" THEN KeepReport(r) /\ UNCHANGED unbooked
          ELSE ChaseVerdict(r)
    BY <1>1 DEF ChasePoll
  <2>2. phase = "chase" /\ TaskUnchanged /\ UNCHANGED bookVars
    BY <1>1 DEF ChasePoll, Polled
  <2>3. /\ r \in Report /\ r.lots <= filled["first"]
        /\ r.state = "complete" => r.lots \in {Qty, 0}
    BY ReportBound DEF Inv, IndInv, BrokerInv, BrokerOrder
  <2>4. CASE r.state = "open" /\ KeepReport(r) /\ UNCHANGED unbooked
    BY <2>2, <2>4, KeepReportStep DEF BrokerOrder
  <2>5. CASE ChaseVerdict(r)
    BY <2>2, <2>3, <2>5, ChaseVerdictStep
  <2>6. QED
    BY <2>1, <2>4, <2>5
<1>2. CASE ChaseTimeout
  <2>1. phase = "chase" /\ ChaseVerdict(last) /\ TaskUnchanged /\ UNCHANGED bookVars
    BY <1>2 DEF ChaseTimeout
  <2>2. last \in Report /\ last.lots <= filled["first"] /\ last.state # "complete"
    BY <2>1 DEF Inv, TypeOK, IndInv, TrackInv
  <2>3. QED
    BY <2>1, <2>2, ChaseVerdictStep
<1>3. QED
  BY <1>1, <1>2

(* The simulator fills a resting order whole, and the chase books it whole.   *)
LEMMA SimulatedFillStep ==
  ASSUME Inv, SimulatedFill
  PROVE  Inv'
<1> DEFINE r == [state |-> "complete", lots |-> Qty, priced |-> TRUE]
<1>1. /\ phase = "chase" /\ TaskUnchanged /\ UNCHANGED home /\ ChaseVerdict(r)
      /\ bstate' = [bstate EXCEPT !["first"] = "complete"]
      /\ filled' = [filled EXCEPT !["first"] = Qty]
  BY DEF SimulatedFill
<1>2. booked = 0 /\ unbooked = 0 /\ bstate["second"] = "none" /\ filled["second"] = 0
  BY <1>1 DEF Inv, IndInv, TrackInv, BrokerInv
<1>3. /\ phase' = "done" /\ outcome' = "filled" /\ last' = r /\ rest' = rest
      /\ booked' = Qty /\ unbooked' = 0
  BY <1>1, <1>2, Numbers DEF ChaseVerdict, End, Ended, Usable, Remaining, MinOf
<1>4. /\ bstate' \in [BrokerOrder -> BrokerState] /\ bstate'["second"] = "none"
      /\ filled' \in [BrokerOrder -> Int] /\ filled'["first"] = Qty
      /\ filled'["second"] = 0
  BY <1>1, <1>2, Numbers DEF Inv, TypeOK, BrokerOrder, BrokerState
<1>5. r \in Report
  BY Numbers DEF Report, BrokerState
<1>6. TypeOK'
  BY <1>1, <1>3, <1>4, <1>5, Numbers
     DEF Inv, TypeOK, ControlTypeOK, TaskUnchanged, controlVars, Phase, TaskOutcome
<1>7. BrokerInv'
  BY <1>3, <1>4, Numbers DEF BrokerInv
<1>8. TrackInv' /\ NeverOverbooks' /\ BookedWithinIntent' /\ FilledMeansWhole'
  BY <1>3, <1>4, Numbers DEF TrackInv, NeverOverbooks, BookedWithinIntent, FilledMeansWhole,
              FilledLots
<1>9. QED
  BY <1>6, <1>7, <1>8 DEF Inv, IndInv

(* The cancel, whether it reached the order, was too late or failed.          *)
LEMMA CancelStep ==
  ASSUME Inv, Cancel
  PROVE  Inv'
<1>1. /\ phase = "cancel" /\ phase' = "resubmit" /\ outcome' = outcome
      /\ UNCHANGED <<last, rest, booked, unbooked, filled, home>> /\ TaskUnchanged
  BY DEF Cancel, Goto
<1>2. /\ bstate' \in [BrokerOrder -> BrokerState]
      /\ bstate'["second"] = bstate["second"]
      /\ bstate'["first"] \in {bstate["first"], "cancelled"}
  <2>1. CASE bstate' = [bstate EXCEPT !["first"] = "cancelled"]
    BY <2>1 DEF Inv, TypeOK, BrokerOrder, BrokerState
  <2>2. CASE bstate' = bstate
    BY <2>2 DEF Inv, TypeOK
  <2>3. QED
    BY <2>1, <2>2 DEF Cancel
<1>3. TypeOK'
  BY <1>1, <1>2 DEF Inv, TypeOK, ControlTypeOK, TaskUnchanged, controlVars, Phase
<1>4. BrokerInv'
  BY <1>1, <1>2 DEF Inv, IndInv, BrokerInv
<1>5. TrackInv' /\ NeverOverbooks' /\ BookedWithinIntent' /\ FilledMeansWhole'
  BY <1>1 DEF Inv, IndInv, TrackInv, NeverOverbooks, BookedWithinIntent, FilledMeansWhole,
              FilledLots
<1>6. QED
  BY <1>3, <1>4, <1>5 DEF Inv, IndInv

LEMMA ResubmitStep ==
  ASSUME Inv, Resubmit
  PROVE  Inv'
<1>1. /\ phase = "resubmit" /\ phase' = "answer" /\ outcome' = outcome
      /\ home' = [home EXCEPT !["second"] = broker]
      /\ UNCHANGED <<controlVars, kind, last, rest, booked, unbooked, bstate, filled,
                     asked>>
  BY DEF Resubmit, Goto
<1>2. home' \in [BrokerOrder -> Venue \union {"none"}]
  BY <1>1 DEF Inv, TypeOK, ControlTypeOK
<1>3. TypeOK'
  BY <1>1, <1>2 DEF Inv, TypeOK, ControlTypeOK, controlVars, Phase
<1>4. BrokerInv'
  BY <1>1 DEF Inv, IndInv, BrokerInv
<1>5. TrackInv' /\ NeverOverbooks' /\ BookedWithinIntent' /\ FilledMeansWhole'
  BY <1>1 DEF Inv, IndInv, TrackInv, NeverOverbooks, BookedWithinIntent, FilledMeansWhole,
              FilledLots
<1>6. QED
  BY <1>3, <1>4, <1>5 DEF Inv, IndInv

(* The resubmission is answered: the second order is for what the first has   *)
(* not booked, so both stay within the intent, whatever the first still fills.*)
LEMMA ResubmitReturnsStep ==
  ASSUME Inv, ResubmitReturns
  PROVE  Inv'
<1>1. /\ phase = "answer"
      /\ UNCHANGED <<controlVars, kind, rest, unbooked, home>>
  BY DEF ResubmitReturns
<1>2. /\ booked >= 0 /\ booked <= filled["first"] /\ booked + unbooked + rest = Qty
      /\ filled["second"] = 0 /\ outcome = "none"
  BY <1>1 DEF Inv, IndInv, BrokerInv, TrackInv
<1>3. PICK state \in {"complete", "rejected", "open", "none"}, lots \in {rest, 0} :
        /\ Answer(state, lots)
        /\ state = "complete" => lots = rest
        /\ \/ /\ End("filled") /\ lots = rest /\ booked' = booked + rest
              /\ last' = last /\ asked' = asked
           \/ /\ End("rejected") \/ End("raised")
              /\ booked' = booked /\ last' = last /\ asked' = asked
           \/ /\ Goto("follow") /\ booked' = booked /\ last' = NoReport
              /\ asked' = broker
  BY DEF ResubmitReturns
<1>4. /\ bstate' \in [BrokerOrder -> BrokerState] /\ bstate'["second"] = state
      /\ bstate'["first"] = bstate["first"]
      /\ filled' \in [BrokerOrder -> Int] /\ filled'["second"] = lots
      /\ filled'["first"] = filled["first"]
  BY <1>3, Numbers DEF Answer, Inv, TypeOK, BrokerOrder, BrokerState
<1>5. asked' \in Venue
  BY <1>3 DEF Inv, TypeOK, ControlTypeOK
<1>7. /\ phase' \in {"done", "follow"} /\ outcome' \in TaskOutcome /\ last' \in Report
      /\ phase' = "follow" => outcome' = "none"
  <2>1. /\ phase' \in {"done", "follow"} /\ outcome' \in TaskOutcome
        /\ phase' = "follow" => outcome' = "none"
    BY <1>2, <1>3 DEF End, Goto, TaskOutcome
  <2>2. NoReport \in Report
    BY DEF Report, NoReport, BrokerState
  <2>3. last' \in {last, NoReport}
    BY <1>3
  <2>4. QED
    BY <2>1, <2>2, <2>3 DEF Inv, TypeOK
<1>8. booked' \in {booked, booked + rest} /\ booked' <= booked + lots
  BY <1>2, <1>3, Numbers
<1>9. TypeOK'
  BY <1>1, <1>4, <1>5, <1>7, <1>8, Numbers
     DEF Inv, TypeOK, ControlTypeOK, controlVars, Phase
<1>10. BrokerInv'
  BY <1>1, <1>3, <1>4, <1>7, Numbers DEF Inv, IndInv, BrokerInv
<1>11. TrackInv'
  <2>1. phase' = "follow" => last'.lots = 0 /\ booked' = booked
    BY <1>3 DEF End, Goto, NoReport
  <2>2. QED
    BY <1>1, <1>2, <1>3, <1>4, <1>7, <2>1, Numbers DEF TrackInv
<1>12. NeverOverbooks' /\ BookedWithinIntent'
  BY <1>2, <1>3, <1>4, <1>8, Numbers DEF NeverOverbooks, BookedWithinIntent, FilledLots
<1>13. FilledMeansWhole'
  BY <1>1, <1>2, <1>3, Numbers DEF FilledMeansWhole, End, Goto
<1>14. QED
  BY <1>9, <1>10, <1>11, <1>12, <1>13 DEF Inv, IndInv

(* The end of a follow-up, on the report of a poll or on the one kept.        *)
LEMMA FollowEndStep ==
  ASSUME Inv, phase = "follow", NEW r \in Report, r.lots <= filled["second"],
         \/ OutOfTime(r, rest)
         \/ End("rejected") /\ booked' = booked,
         last' \in Report, rest' = rest,
         TaskUnchanged, UNCHANGED <<bookVars, unbooked>>
  PROVE  Inv'
<1>1. /\ booked >= 0 /\ booked <= filled["first"] /\ booked + unbooked + rest = Qty
      /\ r.lots \in Int
  BY DEF Inv, IndInv, TrackInv, BrokerInv, Report
<1>2. CASE OutOfTime(r, rest)
  <2>1. /\ phase' = "done" /\ outcome' \in {"filled", "unresolved"}
        /\ outcome' = "filled" => booked' = booked + rest
        /\ \E b \in Int : booked' = booked + b /\ (b = 0 \/ (b <= r.lots /\ b <= rest))
    BY <1>2, Numbers, OutOfTimeBound
  <2>2. booked' \in Int /\ booked' <= Qty /\ booked' <= FilledLots
    BY <1>1, <2>1, Numbers DEF FilledLots
  <2>3. outcome' = "filled" => booked' + unbooked = Qty
    BY <1>1, <2>1, Numbers
  <2>4. QED
    BY <2>1, <2>2, <2>3, EndStep DEF TaskOutcome
<1>3. CASE End("rejected") /\ booked' = booked
  BY <1>3, Numbers, EndStep DEF End, TaskOutcome, FilledLots
<1>4. QED
  BY <1>2, <1>3

LEMMA FollowSteps ==
  ASSUME Inv, FollowPoll \/ FollowTimeout
  PROVE  Inv'
<1>1. CASE FollowPoll
  <2>1. PICK r \in Reports("second") :
          \/ r.state = "open" /\ KeepReport(r)
          \/ End("rejected") /\ last' = r /\ booked' = booked /\ rest' = rest
          \/ OutOfTime(r, rest) /\ last' = r /\ rest' = rest
    BY <1>1 DEF FollowPoll
  <2>2. phase = "follow" /\ TaskUnchanged /\ UNCHANGED <<bookVars, unbooked>>
    BY <1>1 DEF FollowPoll, Polled
  <2>3. r \in Report /\ r.lots <= filled["second"]
    BY ReportBound DEF Inv, IndInv, BrokerOrder
  <2>4. CASE r.state = "open" /\ KeepReport(r)
    BY <2>2, <2>4, KeepReportStep DEF BrokerOrder
  <2>5. CASE /\ (End("rejected") /\ booked' = booked) \/ OutOfTime(r, rest)
             /\ last' = r /\ rest' = rest
    BY <2>2, <2>3, <2>5, FollowEndStep
  <2>6. QED
    BY <2>1, <2>4, <2>5
<1>2. CASE FollowTimeout
  <2>1. /\ phase = "follow" /\ OutOfTime(last, rest)
        /\ UNCHANGED <<last, rest, unbooked, bookVars>> /\ TaskUnchanged
    BY <1>2 DEF FollowTimeout
  <2>2. last \in Report /\ last.lots <= filled["second"]
    BY <2>1 DEF Inv, TypeOK, IndInv, TrackInv
  <2>3. QED
    BY <2>1, <2>2, FollowEndStep
<1>3. QED
  BY <1>1, <1>2
-------------------------------------------------------------------------------
LEMMA OtherSteps ==
  ASSUME Inv, Stop \/ Operate \/ UNCHANGED vars
  PROVE  Inv'
<1>1. CASE Stop
  <2>1. /\ phase' = "stopped"
        /\ UNCHANGED <<last, rest, booked, unbooked, outcome, bookVars>> /\ TaskUnchanged
    BY <1>1 DEF Stop
  <2>2. booked' \in Int /\ booked' <= Qty /\ booked' <= FilledLots
    BY <2>1, Numbers DEF FilledLots
  <2>3. outcome' \in TaskOutcome /\ last' \in Report /\ outcome' = "none"
    BY <1>1, <2>1 DEF Stop, Inv, TypeOK, IndInv, TrackInv
  <2>4. QED
    BY <2>1, <2>2, <2>3, EndStep
<1>2. CASE Operate
  <2>1. UNCHANGED <<trackVars, bookVars>>
    BY <1>2 DEF Operate
  <2>2. ControlTypeOK'
    BY <1>2, ControlTyped DEF Inv, TypeOK
  <2>3. TypeOK'
    BY <2>1, <2>2 DEF Inv, TypeOK, trackVars, bookVars
  <2>4. IndInv'
    BY <2>1 DEF Inv, IndInv, BrokerInv, TrackInv, NeverOverbooks, BookedWithinIntent,
                FilledMeansWhole, FilledLots, trackVars, bookVars
  <2>5. QED
    BY <2>3, <2>4 DEF Inv
<1>3. CASE UNCHANGED vars
  <2>1. TypeOK'
    BY <1>3 DEF Inv, TypeOK, ControlTypeOK, vars, controlVars, trackVars, bookVars
  <2>2. IndInv'
    BY <1>3 DEF Inv, IndInv, BrokerInv, TrackInv, NeverOverbooks, BookedWithinIntent,
                FilledMeansWhole, FilledLots, vars, trackVars, bookVars
  <2>3. QED
    BY <2>1, <2>2 DEF Inv
<1>4. QED
  BY <1>1, <1>2, <1>3

-------------------------------------------------------------------------------
(* The refinement of OrderFate.                                               *)

(* A step that uses up a piece, books it or gives it up, and fills no more    *)
(* than it books.                                                             *)
LEMMA PieceEnds ==
  ASSUME Inv, Inv', Pieces' \in 0..(Pieces - 1), FilledLots' >= FilledLots,
         booked' >= booked, booked' = booked => FilledLots' = FilledLots
  PROVE  Fate!FateNext
<1>1. booked \in Int /\ booked' \in Int /\ booked' <= Qty /\ booked' <= FilledLots'
  BY DEF Inv, TypeOK, IndInv, NeverOverbooks, BookedWithinIntent
<1>2. CASE booked' = booked
  BY <1>2 DEF Fate!FateNext, Fate!GiveUp
<1>3. CASE booked' # booked
  <2>1. booked' > booked
    BY <1>1, <1>3
  <2>2. QED
    BY <1>1, <2>1 DEF Fate!FateNext, Fate!Book
<1>4. QED
  BY <1>2, <1>3

(* Out of time, a task books forward and is done.                             *)
LEMMA OutOfTimeBooks ==
  ASSUME NEW r \in Report, NEW n \in Nat, booked \in Int, OutOfTime(r, n)
  PROVE  phase' = "done" /\ booked' >= booked
<1>1. r.lots \in Nat
  BY DEF Report
<1>2. QED
  BY <1>1 DEF OutOfTime, PartialLots, End

LEMMA VerdictBooks ==
  ASSUME Inv, NEW r \in Report, ChaseVerdict(r)
  PROVE  phase' \in {"done", "cancel"} /\ booked' >= booked
<1>1. r.lots \in Nat /\ booked \in Int /\ Qty \in Nat
  BY Numbers DEF Report
<1>2. QED
  BY <1>1 DEF ChaseVerdict, End, Goto, BookPartial, MinOf

LEMMA FateStep ==
  ASSUME Inv, Inv', [Next]_vars
  PROVE  Fate!FateNext \/ UNCHANGED <<Pieces, FilledLots, booked>>
<1>1. ASSUME UNCHANGED <<phase, filled, booked>>
      PROVE  UNCHANGED <<Pieces, FilledLots, booked>>
  BY <1>1 DEF Pieces, FilledLots
<1>2. ASSUME NEW o \in BrokerOrder, BrokerFills(o) PROVE Fate!FateNext
  <2>1. UNCHANGED <<phase, booked>> /\ filled' = [filled EXCEPT ![o] = filled[o] + 1]
    BY <1>2 DEF BrokerFills, trackVars
  <2>2. FilledLots' > FilledLots
    BY <2>1, Numbers DEF FilledLots, BrokerOrder, Inv, TypeOK
  <2>3. QED
    BY <2>1, <2>2 DEF Fate!FateNext, Fate!Fill, Pieces
<1>3. ASSUME TrackPoll \/ TrackTimeout
      PROVE  UNCHANGED <<phase, filled, booked>> \/ Fate!FateNext
  <2>1. phase = "track" /\ filled' = filled
    BY <1>3 DEF TrackPoll, TrackTimeout, Polled, bookVars
  <2>2. UNCHANGED <<phase, booked>> \/ (phase' = "done" /\ booked' >= booked)
    <3>1. CASE TrackTimeout
      BY <3>1, Numbers, OutOfTimeBooks DEF TrackTimeout, Inv, TypeOK
    <3>2. CASE TrackPoll
      <4>1. PICK r \in Reports("first") :
              \/ KeepReport(r)
              \/ booked' = booked + MaxOf(CompleteLots(r), 1) /\ End("filled")
              \/ OutOfTime(r, Qty)
              \/ End("rejected") /\ booked' = booked
        BY <3>2 DEF TrackPoll
      <4>2. r \in Report /\ r.lots \in Nat
        BY ReportBound DEF Inv, IndInv, BrokerOrder, Report
      <4>3. MaxOf(CompleteLots(r), 1) \in Nat
        BY <4>2, Numbers DEF MaxOf, CompleteLots
      <4>4. CASE OutOfTime(r, Qty)
        BY <4>2, <4>4, Numbers, OutOfTimeBooks
      <4>5. QED
        BY <4>1, <4>3, <4>4, Numbers DEF KeepReport, End
    <3>3. QED
      BY <1>3, <3>1, <3>2
  <2>3. CASE phase' = "done" /\ booked' >= booked
    <3>1. Pieces = 1 /\ Pieces' = 0 /\ FilledLots' = FilledLots /\ FilledLots \in Int
      BY <2>1, <2>3, Numbers DEF Pieces, FilledLots
    <3>2. QED
      BY <2>3, <3>1, PieceEnds
  <2>4. QED
    BY <2>1, <2>2, <2>3
<1>4. ASSUME ChasePoll \/ ChaseTimeout \/ SimulatedFill
      PROVE  UNCHANGED <<phase, filled, booked>> \/ Fate!FateNext
  <2>1. phase = "chase" /\ booked = 0
    BY <1>4 DEF ChasePoll, ChaseTimeout, SimulatedFill, Inv, IndInv, TrackInv
  <2>2. CASE SimulatedFill
    <3> DEFINE r == [state |-> "complete", lots |-> Qty, priced |-> TRUE]
    <3>1. ChaseVerdict(r) /\ filled' = [filled EXCEPT !["first"] = Qty]
      BY <2>2 DEF SimulatedFill
    <3>2. phase' = "done" /\ booked' = Qty
      BY <2>1, <3>1, Numbers DEF ChaseVerdict, End, Ended, Usable, Remaining, MinOf
    <3>3. FilledLots' >= FilledLots
      BY <3>1, Numbers DEF FilledLots, BrokerOrder, Inv, TypeOK
    <3>4. Pieces = 2 /\ Pieces' = 0
      BY <2>1, <3>2 DEF Pieces
    <3>5. QED
      BY <2>1, <3>2, <3>3, <3>4, Numbers, PieceEnds
  <2>3. CASE ChasePoll \/ ChaseTimeout
    <3>1. filled' = filled
      BY <2>3 DEF ChasePoll, ChaseTimeout, Polled, bookVars
    <3>2. \/ UNCHANGED <<phase, booked>>
          \/ phase' \in {"done", "cancel"} /\ booked' >= booked
      <4>1. CASE ChaseTimeout
        BY <4>1, VerdictBooks DEF ChaseTimeout, Inv, TypeOK
      <4>2. CASE ChasePoll
        <5>1. PICK r \in Reports("first") : KeepReport(r) \/ ChaseVerdict(r)
          BY <4>2 DEF ChasePoll
        <5>2. r \in Report
          BY ReportBound DEF Inv, IndInv, BrokerOrder
        <5>3. QED
          BY <5>1, <5>2, VerdictBooks DEF KeepReport
      <4>3. QED
        BY <2>3, <4>1, <4>2
    <3>3. CASE phase' \in {"done", "cancel"} /\ booked' >= booked
      <4>1. Pieces = 2 /\ Pieces' \in 0..1 /\ FilledLots' = FilledLots /\ FilledLots \in Int
        BY <2>1, <3>1, <3>3, Numbers DEF Pieces, FilledLots
      <4>2. QED
        BY <3>3, <4>1, PieceEnds
    <3>4. QED
      BY <3>1, <3>2, <3>3
  <2>4. QED
    BY <1>4, <2>2, <2>3
<1>5. ASSUME Cancel \/ Resubmit PROVE UNCHANGED <<Pieces, FilledLots, booked>>
  <2>1. /\ phase \in {"cancel", "resubmit"} /\ phase' \in {"resubmit", "answer"}
        /\ UNCHANGED <<filled, booked>>
    BY <1>5 DEF Cancel, Resubmit, Goto
  <2>2. QED
    BY <2>1 DEF Pieces, FilledLots
<1>6. ASSUME ResubmitReturns
      PROVE  Fate!FateNext \/ UNCHANGED <<Pieces, FilledLots, booked>>
  <2>1. phase = "answer" /\ filled["second"] = 0
    BY <1>6 DEF ResubmitReturns, Inv, IndInv, BrokerInv
  <2>2. PICK lots \in {rest, 0} :
          /\ filled' = [filled EXCEPT !["second"] = lots]
          /\ \/ phase' = "done" /\ lots = rest /\ booked' = booked + rest
             \/ phase' \in {"done", "follow"} /\ lots = 0 /\ booked' = booked
    BY <1>6 DEF ResubmitReturns, Answer, End, Goto
  <2>3. FilledLots' = FilledLots + lots /\ FilledLots \in Int /\ lots \in Nat
    BY <2>1, <2>2, Numbers DEF FilledLots, BrokerOrder, Inv, TypeOK
  <2>4. CASE phase' = "follow"
    BY <2>1, <2>2, <2>3, <2>4 DEF Pieces
  <2>5. CASE phase' = "done"
    <3>1. Pieces = 1 /\ Pieces' = 0
      BY <2>1, <2>5 DEF Pieces
    <3>2. booked' = booked + lots /\ booked \in Int
      BY <2>2, Numbers
    <3>3. QED
      BY <2>3, <3>1, <3>2, PieceEnds
  <2>6. QED
    BY <2>2, <2>4, <2>5
<1>7. ASSUME FollowPoll \/ FollowTimeout
      PROVE  UNCHANGED <<phase, filled, booked>> \/ Fate!FateNext
  <2>1. phase = "follow" /\ filled' = filled
    BY <1>7 DEF FollowPoll, FollowTimeout, Polled, bookVars
  <2>2. UNCHANGED <<phase, booked>> \/ (phase' = "done" /\ booked' >= booked)
    <3>1. CASE FollowTimeout
      BY <3>1, Numbers, OutOfTimeBooks DEF FollowTimeout, Inv, TypeOK
    <3>2. CASE FollowPoll
      <4>1. PICK r \in Reports("second") :
              \/ KeepReport(r)
              \/ OutOfTime(r, rest)
              \/ End("rejected") /\ booked' = booked
        BY <3>2 DEF FollowPoll
      <4>2. r \in Report
        BY ReportBound DEF Inv, IndInv, BrokerOrder
      <4>3. CASE OutOfTime(r, rest)
        BY <4>2, <4>3, Numbers, OutOfTimeBooks
      <4>4. QED
        BY <4>1, <4>3, Numbers DEF KeepReport, End
    <3>3. QED
      BY <1>7, <3>1, <3>2
  <2>3. CASE phase' = "done" /\ booked' >= booked
    <3>1. Pieces = 1 /\ Pieces' = 0 /\ FilledLots' = FilledLots /\ FilledLots \in Int
      BY <2>1, <2>3, Numbers DEF Pieces, FilledLots
    <3>2. QED
      BY <2>3, <3>1, PieceEnds
  <2>4. QED
    BY <2>1, <2>2, <2>3
<1>8. ASSUME Stop PROVE Fate!FateNext
  <2>1. /\ phase \notin {"done", "stopped"} /\ phase' = "stopped"
        /\ UNCHANGED <<filled, booked>>
    BY <1>8 DEF Stop, bookVars
  <2>2. Pieces \in 1..2 /\ Pieces' = 0 /\ FilledLots' = FilledLots
    BY <2>1 DEF Pieces, FilledLots
  <2>3. FilledLots \in Int /\ booked \in Int
    BY Numbers DEF FilledLots
  <2>4. QED
    BY <2>1, <2>2, <2>3, PieceEnds
<1>9. ASSUME Operate \/ UNCHANGED vars \/ \E o \in BrokerOrder : BrokerEnds(o)
      PROVE  UNCHANGED <<phase, filled, booked>>
  BY <1>9 DEF Operate, BrokerEnds, vars, trackVars, bookVars
<1>10. QED
  BY <1>1, <1>2, <1>3, <1>4, <1>5, <1>6, <1>7, <1>8, <1>9 DEF Next
-------------------------------------------------------------------------------
(* The inductive invariant of the tracker: for every quantity, order type and *)
(* broker, the report in hand and the lots booked stay below what the broker  *)
(* filled (_track_order_until_terminal, _chase_to_market_if_unfilled).        *)
THEOREM Invariance == Spec => [](TypeOK /\ IndInv)
<1>1. Init => Inv
  BY InitInv
<1>2. Inv /\ [Next]_vars => Inv'
  BY BrokerFillsStep, BrokerEndsStep, TrackPollStep, TrackTimeoutStep, ChaseSteps,
     SimulatedFillStep, CancelStep, ResubmitStep, ResubmitReturnsStep, FollowSteps, OtherSteps DEF Next
<1>3. Inv <=> TypeOK /\ IndInv
  BY DEF Inv
<1>4. QED
  BY <1>1, <1>2, <1>3, PTL DEF Spec

(* Type correctness of the tracker's state.                                   *)
THEOREM TypeCorrect == Spec => []TypeOK
BY Invariance, PTL

(* The ledger never holds a lot of the intent that the broker did not fill,   *)
(* whatever partial fills, late or incomplete reports, failed cancels and     *)
(* broker swaps the task meets.                                               *)
THEOREM NoPhantomLots == Spec => []NeverOverbooks
<1>1. IndInv => NeverOverbooks
  BY DEF IndInv
<1>2. QED
  BY <1>1, Invariance, PTL

(* A limit leg and its MARKET remainder book at most the approved quantity.   *)
THEOREM NeverMoreThanApproved == Spec => []BookedWithinIntent
<1>1. IndInv => BookedWithinIntent
  BY DEF IndInv
<1>2. QED
  BY <1>1, Invariance, PTL

(* A task that ends as filled accounts for the whole intent.                  *)
THEOREM FilledIsWhole == Spec => []FilledMeansWhole
<1>1. IndInv => FilledMeansWhole
  BY DEF IndInv
<1>2. QED
  BY <1>1, Invariance, PTL

(* The tracker implements OrderFate, what the exit manager takes the fate of  *)
(* an order to be: at most two pieces, one for a MARKET order,                *)
(* never more than approved or filled, and none after the last                *)
(* (_track_order_until_terminal, _chase_to_market_if_unfilled).               *)
THEOREM ImplementsFate == Spec => FateSpec
<1>1. Init => Fate!FateInit
  <2> SUFFICES ASSUME Init PROVE Fate!FateInit
    OBVIOUS
  <2>1. Pieces \in 1..2 /\ booked = 0
    BY DEF Init, Pieces
  <2>2. FilledLots = 0
    BY DEF Init, FilledLots, BrokerOrder
  <2>3. QED
    BY <2>1, <2>2 DEF Fate!FateInit
<1>2. Inv /\ Inv' /\ [Next]_vars => [Fate!FateNext]_Fate!fateVars
  BY FateStep DEF Fate!fateVars
<1>3. Inv <=> TypeOK /\ IndInv
  BY DEF Inv
<1>4. QED
  BY <1>1, <1>2, <1>3, Invariance, PTL DEF Spec, FateSpec, Fate!FateSpec
===============================================================================

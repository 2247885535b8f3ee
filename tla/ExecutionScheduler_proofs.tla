----------------------- MODULE ExecutionScheduler_proofs -----------------------
(***************************************************************************)
(* Proofs about ExecutionScheduler, for every set of intents, keys and     *)
(* modes, every queue size and every restored portfolio.                   *)
(***************************************************************************)
EXTENDS ExecutionScheduler, TLAPS

(* Every step keeps every variable in its type (all of ExecutionScheduler).   *)
LEMMA ControlTyped ==
  ASSUME ControlTypeOK,
         \/ \E m \in Mode : SetExecutionMode(m)
         \/ ArmLive(TRUE)
         \/ DisarmLive
         \/ \E active, saved \in BOOLEAN : SetKillSwitch(active, saved)
         \/ \E readOk \in BOOLEAN : RestartControl(readOk)
  PROVE  ControlTypeOK'
<1>1. CASE \E m \in Mode : SetExecutionMode(m)
  BY <1>1 DEF ControlTypeOK, SetExecutionMode, ArmState, Venue, BrokerClient
<1>2. CASE ArmLive(TRUE) \/ DisarmLive
  BY <1>2 DEF ControlTypeOK, ArmLive, DisarmLive, ArmState
<1>3. CASE \E active, saved \in BOOLEAN : SetKillSwitch(active, saved)
  BY <1>3 DEF ControlTypeOK, SetKillSwitch, ArmState, KillEvent
<1>4. CASE \E readOk \in BOOLEAN : RestartControl(readOk)
  BY <1>4, ModeAssumption DEF ControlTypeOK, RestartControl, ArmState, Venue
<1>5. QED BY <1>1, <1>2, <1>3, <1>4

(* The fields of an intent, and the shape of the OMS log after an append.     *)
LEMMA AttrTyped ==
  ASSUME NEW i \in Intent
  PROVE  /\ Attr[i].key \in Key /\ Attr[i].symbol \in Symbol
         /\ Attr[i].priority \in Nat /\ Attr[i].qty \in Int
BY SchedulerAssumption DEF IntentRecord

LEMMA LotsTyped ==
  ASSUME NEW i \in Intent
  PROVE  Quantity(i) \in Nat
<1>1. Attr[i].qty \in Int BY AttrTyped
<1>2. QED BY <1>1 DEF Quantity, AbsVal

LEMMA AppendTyped ==
  ASSUME NEW log \in [Key -> Event], NEW i \in Intent, NEW e \in Event
  PROVE  Append(log, i, e) \in [Key -> Event]
BY AttrTyped DEF Append

(* A booking keeps the types, and one of no lots changes nothing.             *)
LEMMA FillTyped ==
  ASSUME NEW i \in Intent, NEW n \in Nat, Fill(i, n),
         lots \in [Intent -> Nat], held \in [Symbol -> Int]
  PROVE  lots' \in [Intent -> Nat] /\ held' \in [Symbol -> Int]
BY AttrTyped DEF Fill

LEMMA NoFill ==
  ASSUME NEW i \in Intent, UNCHANGED <<lots, held>>,
         lots \in [Intent -> Nat], held \in [Symbol -> Int]
  PROVE  Fill(i, 0)
<1>1. lots = [lots EXCEPT ![i] = @ + 0] OBVIOUS
<1>2. held[Attr[i].symbol] \in Int BY AttrTyped
<1>3. held = [held EXCEPT ![Attr[i].symbol] = IF Attr[i].qty < 0 THEN @ - 0 ELSE @ + 0]
  BY <1>2
<1>4. QED BY <1>1, <1>3 DEF Fill

(* What the broker's answer, and a step of a tracking task, do to the lots    *)
(* booked and out.                                                            *)
LEMMA AnswerBooks ==
  ASSUME TypeOK, WorkerInv, BrokerAnswers
  PROVE  \E outcome \in {"booked", "tracking", "rejected", "unpriced", "unlogged"} :
         \E m \in 0..Quantity(cur) : \E left \in Nat :
           /\ Finish(outcome)
           /\ submitted' = IF outcome = "unlogged" THEN submitted
                           ELSE submitted \union {Attr[cur].key}
           /\ Fill(cur, m)
           /\ rest' = [rest EXCEPT ![cur] = left]
           /\ outcome = "tracking" => m + left <= Quantity(cur)
<1>1. cur \in Intent
  BY DEF BrokerAnswers, BrokerReturns, BrokerRaises, Finish, WorkerInv, TypeOK
<1>2. Quantity(cur) \in Nat BY <1>1, LotsTyped
<1>3. CASE BrokerRaises
  <2>1. rest[cur] \in Nat /\ rest' = [rest EXCEPT ![cur] = rest[cur]]
    BY <1>1, <1>3 DEF BrokerRaises, ledgerVars, TypeOK
  <2>2. Fill(cur, 0) BY <1>1, <1>3, NoFill DEF BrokerRaises, ledgerVars, TypeOK
  <2>3. 0 \in 0..Quantity(cur) BY <1>2
  <2>4. Finish("unlogged") /\ submitted' = submitted BY <1>3 DEF BrokerRaises
  <2>5. QED BY <2>1, <2>2, <2>3, <2>4
<1>4. ASSUME NEW outcome \in {"booked", "tracking", "rejected", "unpriced"},
             BrokerReturns(outcome)
      PROVE  \E m \in 0..Quantity(cur) : \E left \in Nat :
               /\ Fill(cur, m)
               /\ rest' = [rest EXCEPT ![cur] = left]
               /\ outcome = "tracking" => m + left <= Quantity(cur)
  <2> DEFINE m == IF outcome = "booked" THEN Quantity(cur) ELSE 0
             left == IF outcome = "tracking" THEN Quantity(cur) ELSE 0
  <2>1. Fill(cur, m) /\ rest' = [rest EXCEPT ![cur] = left]
    BY <1>4 DEF BrokerReturns, BookedAtOnce
  <2>2. m \in 0..Quantity(cur) /\ left \in Nat BY <1>2
  <2>3. outcome = "tracking" => m + left <= Quantity(cur) BY <1>2
  <2> HIDE DEF m, left
  <2>4. QED BY <2>1, <2>2, <2>3
<1>5. QED BY <1>3, <1>4 DEF BrokerAnswers, BrokerReturns

LEMMA TrackBooks ==
  ASSUME TypeOK, NEW i \in Intent, Track(i)
  PROVE  /\ order[i] \in Tracked
         /\ TrackUnchanged
         /\ lastEvent' \in [Key -> Event]
         /\ \E o \in {"booked", "rejected", "unresolved", "silent", "chasing"} :
            \E m \in 0..rest[i], left \in Nat :
              /\ order' = [order EXCEPT ![i] = o]
              /\ Fill(i, m)
              /\ rest' = [rest EXCEPT ![i] = left]
              /\ m + left <= rest[i]
<1>1. rest[i] \in Nat /\ Quantity(i) \in Nat BY LotsTyped DEF TypeOK
<1>2. PICK n \in 0..Quantity(i) :
        \/ \E priced \in BOOLEAN : ChaseGoesOn(i, n, priced)
        \/ \E outcome \in {"booked", "rejected", "unresolved", "silent"} :
             TrackEnds(i, outcome, n)
  BY DEF Track
<1>3. CASE \E priced \in BOOLEAN : ChaseGoesOn(i, n, priced)
  <2>1. PICK priced \in BOOLEAN : ChaseGoesOn(i, n, priced) BY <1>3
  <2> DEFINE m == IF priced THEN n ELSE 0
  <2>2. n <= rest[i] BY <1>1, <2>1 DEF ChaseGoesOn
  <2>3. m \in 0..rest[i] /\ rest[i] - n \in Nat /\ m + (rest[i] - n) <= rest[i]
    BY <1>1, <2>2
  <2>4. rest' = [rest EXCEPT ![i] = rest[i] - n] /\ Fill(i, m)
        /\ order' = [order EXCEPT ![i] = "chasing"]
    BY <2>1 DEF ChaseGoesOn
  <2>5. lastEvent' \in [Key -> Event]
    <3>1. "broker_cancelled" \in Event BY DEF Event
    <3>2. QED BY <2>1, <3>1, AppendTyped DEF ChaseGoesOn, Log, TypeOK
  <2>6. order[i] \in Tracked /\ TrackUnchanged BY <2>1 DEF ChaseGoesOn, Tracked
  <2> HIDE DEF m
  <2>7. QED BY <2>3, <2>4, <2>5, <2>6
<1>4. CASE \E outcome \in {"booked", "rejected", "unresolved", "silent"} :
             TrackEnds(i, outcome, n)
  <2>1. PICK outcome \in {"booked", "rejected", "unresolved", "silent"} :
          TrackEnds(i, outcome, n)
    BY <1>4
  <2>2. n \in 0..rest[i] /\ n + 0 <= rest[i] BY <1>1, <2>1 DEF TrackEnds
  <2>3. lastEvent' \in [Key -> Event]
    <3>1. \/ UNCHANGED lastEvent
          \/ \E e \in {"broker_filled", "broker_rejected", "fill_unresolved",
                       "broker_submitted"} : Log(i, e)
      BY <2>1 DEF TrackEnds
    <3>2. {"broker_filled", "broker_rejected", "fill_unresolved", "broker_submitted"}
            \subseteq Event
      BY DEF Event, UnresolvedEvent
    <3>3. CASE UNCHANGED lastEvent BY <3>3 DEF TypeOK
    <3>4. ASSUME NEW e \in Event, Log(i, e) PROVE lastEvent' \in [Key -> Event]
      BY <3>4, AppendTyped DEF Log, TypeOK
    <3>5. QED BY <3>1, <3>2, <3>3, <3>4
  <2>4. /\ order[i] \in Tracked /\ TrackUnchanged
        /\ order' = [order EXCEPT ![i] = outcome]
        /\ Fill(i, n) /\ rest' = [rest EXCEPT ![i] = 0]
    BY <2>1 DEF TrackEnds
  <2>5. QED BY <2>2, <2>3, <2>4
<1>5. QED BY <1>2, <1>3, <1>4

(* Every step keeps every variable in its type; the worker invariant says     *)
(* that it has an intent in hand when it hears from the broker.               *)
LEMMA TypeStep ==
  ASSUME TypeOK, WorkerInv, [Next]_vars
  PROVE  TypeOK'
<1> USE DEF TypeOK, ledgerVars
<1>1. ASSUME NEW i \in Intent, Enqueue(i) PROVE TypeOK'
  <2>1. CASE EnqueueKilled(i)
    BY <2>1, AppendTyped
    DEF EnqueueKilled, WorkerUnchanged, Log, Where, Event, ControlTypeOK, controlVars
  <2>2. CASE EnqueueDuplicate(i)
    BY <2>2 DEF EnqueueDuplicate, WorkerUnchanged, Where, ControlTypeOK, controlVars
  <2>3. CASE EnqueueRefused(i)
    BY <2>3, AppendTyped
    DEF EnqueueRefused, WorkerUnchanged, Log, Where, Event, ControlTypeOK, controlVars
  <2>4. CASE EnqueueAccepted(i)
    <3>1. where' \in [Intent -> Where] /\ lastEvent' \in [Key -> Event]
      <4>1. PICK w \in {"queued", "deferred", "blocked"},
                 e \in {"intent_queued", "queue_full_exit_deferred", "compliance_approved"} :
              where' = [where EXCEPT ![i] = w] /\ lastEvent' = Append(lastEvent, i, e)
        BY <2>4 DEF EnqueueAccepted, Log
      <4>2. w \in Where /\ e \in Event BY DEF Where, Event
      <4>3. QED BY <4>1, <4>2, AppendTyped
    <3>2. stamp' \in [Intent -> Mode] /\ ticket' \in [Intent -> Nat] /\ nextTicket' \in Nat
      BY <2>4 DEF EnqueueAccepted, ControlTypeOK
    <3>3. QED
      BY <3>1, <3>2, <2>4
      DEF EnqueueAccepted, WorkerUnchanged, ControlTypeOK, controlVars
  <2>5. QED BY <1>1, <2>1, <2>2, <2>3, <2>4 DEF Enqueue
<1>2. ASSUME NEW i \in Intent, PutResumes(i) PROVE TypeOK'
  BY <1>2, AppendTyped
  DEF PutResumes, WorkerUnchanged, Log, Where, Event, ControlTypeOK, controlVars
<1>3. ASSUME NEW i \in Intent, Process(i) PROVE TypeOK'
  <2>0. DerivedOpens(i) \in BOOLEAN
    BY DEF DerivedOpens, OpensPosition
  <2>1. ASSUME NEW e \in Event, Drop(i, e) PROVE TypeOK'
    BY <2>0, <2>1, AppendTyped
    DEF Drop, TakeUnchanged, Log, Where, ControlTypeOK, controlVars
  <2>2. CASE Clear(i)
    BY <2>0, <2>2, AppendTyped
    DEF Clear, TakeUnchanged, Log, Where, Event, ControlTypeOK, controlVars
  <2>3. QED
    BY <1>3, <2>1, <2>2
    DEF Process, RejectModeMismatch, RejectCapital, RejectFinalGate, RejectNotArmed,
        SuppressDuplicate, Event
<1>4. CASE Submit
  <2>1. venue' \in [Intent -> Venue \union {"none"}]
    BY <1>4 DEF Submit, ControlTypeOK
  <2>2. overtaken' \in [Intent -> Nat]
    BY <1>4 DEF Submit
  <2>3. openedSinceTrip' \in Nat
    BY <1>4 DEF Submit
  <2>4. ControlTypeOK'
    BY <1>4 DEF Submit, ControlTypeOK, controlVars
  <2>5. QED BY <1>4, <2>1, <2>2, <2>3, <2>4 DEF Submit
<1>5. CASE BrokerAnswers
  <2> DEFINE Answer == {"booked", "tracking", "rejected", "unpriced", "unlogged"}
  <2>1. PICK outcome \in Answer, m \in 0..Quantity(cur), left \in Nat :
          /\ Finish(outcome)
          /\ submitted' = submitted \/ submitted' = submitted \union {Attr[cur].key}
          /\ Fill(cur, m)
          /\ rest' = [rest EXCEPT ![cur] = left]
    BY <1>5, AnswerBooks
  <2>2. cur \in Intent
    BY <2>1 DEF Finish, WorkerInv
  <2>3. lastEvent' \in [Key -> Event]
    <3>1. OutcomeEvent(outcome) \in Event
      BY <2>2, AttrTyped DEF OutcomeEvent, Event, UnresolvedEvent
    <3>2. Append(lastEvent, cur, OutcomeEvent(outcome)) \in [Key -> Event]
      BY <2>2, <3>1, AppendTyped
    <3>3. "lock_released" \in Event BY DEF Event
    <3>4. QED BY <2>1, <2>2, <3>2, <3>3, AppendTyped DEF Finish
  <2>4. /\ held' \in [Symbol -> Int] /\ lots' \in [Intent -> Nat]
        /\ rest' \in [Intent -> Nat]
    BY <2>1, <2>2, FillTyped
  <2>5. submitted' \subseteq Key
    BY <2>1, <2>2, AttrTyped
  <2>6. order' \in [Intent -> Outcome] /\ where' \in [Intent -> Where]
    BY <2>1, <2>2 DEF Finish, Outcome, Where
  <2>7. QED
    BY <2>1, <2>3, <2>4, <2>5, <2>6 DEF Finish, ControlTypeOK, controlVars
<1>6. ASSUME NEW i \in Intent, Track(i) PROVE TypeOK'
  <2>1. PICK o \in {"booked", "rejected", "unresolved", "silent", "chasing"},
             m \in 0..rest[i], left \in Nat :
          /\ order' = [order EXCEPT ![i] = o]
          /\ Fill(i, m) /\ rest' = [rest EXCEPT ![i] = left]
    BY <1>6, TrackBooks
  <2>2. /\ held' \in [Symbol -> Int] /\ lots' \in [Intent -> Nat]
        /\ rest' \in [Intent -> Nat]
    BY <2>1, FillTyped
  <2>3. order' \in [Intent -> Outcome]
    BY <2>1 DEF Outcome
  <2>4. TrackUnchanged /\ lastEvent' \in [Key -> Event]
    BY <1>6, TrackBooks
  <2>5. QED
    BY <2>2, <2>3, <2>4 DEF TrackUnchanged, ControlTypeOK, controlVars
<1>7. CASE Operate
  <2>1. ControlTypeOK' BY <1>7, ControlTyped DEF Operate
  <2>2. openedSinceTrip' \in Nat
    <3>1. openedSinceTrip' \in {openedSinceTrip, 0}
      BY <1>7 DEF Operate, TripCount
    <3>2. QED BY <3>1
  <2>3. QED BY <1>7, <2>1, <2>2 DEF Operate
<1>8. CASE Restart
  <2>1. ControlTypeOK' BY <1>8, ControlTyped DEF Restart
  <2>2. where' \in [Intent -> Where] /\ order' \in [Intent -> Outcome]
    BY <1>8 DEF Restart, Where, Outcome
  <2>3. QED BY <1>8, <2>1, <2>2 DEF Restart
<1>9. CASE UNCHANGED vars
  BY <1>9 DEF vars, controlVars, schedVars, ControlTypeOK
<1>10. QED BY <1>1, <1>2, <1>3, <1>4, <1>5, <1>6, <1>7, <1>8, <1>9 DEF Next

(* What an enqueue, a gate and a tracker can do to the intents: the facts the *)
(* steps below share.                                                         *)
LEMMA EnqueueEffect ==
  ASSUME TypeOK, NEW i \in Intent, Enqueue(i) \/ PutResumes(i)
  PROVE  /\ WorkerUnchanged /\ UNCHANGED controlVars
         /\ where[i] \in {"new", "blocked"}
         /\ \E w \in {"done", "queued", "deferred", "blocked"} :
              where' = [where EXCEPT ![i] = w]
<1>1. CASE PutResumes(i) BY <1>1 DEF PutResumes
<1>2. CASE EnqueueKilled(i) BY <1>2 DEF EnqueueKilled
<1>3. CASE EnqueueDuplicate(i) BY <1>3 DEF EnqueueDuplicate
<1>4. CASE EnqueueRefused(i) BY <1>4 DEF EnqueueRefused, Admissible
<1>5. CASE EnqueueAccepted(i) BY <1>5 DEF EnqueueAccepted, Admissible
<1>6. QED BY <1>1, <1>2, <1>3, <1>4, <1>5 DEF Enqueue

LEMMA ProcessEffect ==
  ASSUME NEW i \in Intent, Process(i)
  PROVE  \/ \E e \in Event : Drop(i, e)
         \/ Clear(i)
BY DEF Process, RejectModeMismatch, RejectCapital, RejectFinalGate, RejectNotArmed,
       SuppressDuplicate, Event

LEMMA AnswerEffect ==
  ASSUME BrokerAnswers
  PROVE  \E outcome \in {"booked", "tracking", "rejected", "unpriced", "unlogged"} :
           /\ Finish(outcome)
           /\ submitted' = IF outcome = "unlogged" THEN submitted
                           ELSE submitted \union {Attr[cur].key}
BY DEF BrokerAnswers, BrokerReturns, BrokerRaises

LEMMA WorkerStep ==
  ASSUME TypeOK, WorkerInv, [Next]_vars
  PROVE  WorkerInv'
<1> USE DEF WorkerInv
<1>1. ASSUME NEW i \in Intent, Enqueue(i) \/ PutResumes(i) PROVE WorkerInv'
  BY <1>1, EnqueueEffect DEF WorkerUnchanged, TypeOK
<1>2. ASSUME NEW i \in Intent, Process(i) PROVE WorkerInv'
  <2>1. CASE \E e \in Event : Drop(i, e)
    BY <2>1 DEF Drop, TakeUnchanged, Take, AtHead, Queue, TypeOK
  <2>2. CASE Clear(i)
    BY <2>2, SchedulerAssumption DEF Clear, TakeUnchanged, Take, AtHead, Queue, TypeOK
  <2>3. QED BY <1>2, <2>1, <2>2, ProcessEffect
<1>3. CASE Submit
  BY <1>3 DEF Submit
<1>4. CASE BrokerAnswers
  <2>1. PICK outcome : Finish(outcome) BY <1>4, AnswerEffect
  <2>2. QED BY <2>1, SchedulerAssumption DEF Finish, TypeOK
<1>5. ASSUME NEW i \in Intent, Track(i) PROVE WorkerInv'
  <2>1. PICK o : order' = [order EXCEPT ![i] = o] BY <1>5, TrackBooks
  <2>2. order[i] \in Tracked /\ TrackUnchanged BY <1>5, TrackBooks
  <2>3. QED BY <2>1, <2>2 DEF TrackUnchanged, Tracked, TypeOK
<1>6. CASE Operate
  BY <1>6 DEF Operate
<1>7. CASE Restart
  BY <1>7, SchedulerAssumption DEF Restart, Tracked, TypeOK
<1>8. CASE UNCHANGED vars
  BY <1>8 DEF vars, schedVars
<1>9. QED BY <1>1, <1>2, <1>3, <1>4, <1>5, <1>6, <1>7, <1>8 DEF Next

(* What the log knows only changes when the worker hears from the broker, a   *)
(* tracker ends, or the process restarts; only the first can add an order.    *)
LEMMA KeyFrame ==
  ASSUME WorkerInv, KeyInv, UNCHANGED <<submitted, cur>>, Acknowledged' = Acknowledged
  PROVE  KeyInv'
BY DEF KeyInv, AtMostOncePerKey

LEMMA KeyStep ==
  ASSUME TypeOK, WorkerInv, KeyInv, [Next]_vars
  PROVE  KeyInv'
<1>1. ASSUME NEW i \in Intent, Enqueue(i) \/ PutResumes(i) PROVE KeyInv'
  BY <1>1, EnqueueEffect, KeyFrame DEF WorkerUnchanged, Acknowledged
<1>2. ASSUME NEW i \in Intent, Process(i) PROVE KeyInv'
  <2>1. CASE \E e \in Event : Drop(i, e)
    BY <2>1, KeyFrame DEF Drop, TakeUnchanged, Acknowledged
  <2>2. CASE Clear(i)
    <3>1. UNCHANGED <<submitted, order>> /\ cur' = i /\ Attr[i].key \notin submitted
      BY <2>2 DEF Clear, TakeUnchanged
    <3>2. Acknowledged' = Acknowledged BY <3>1 DEF Acknowledged
    <3>3. QED BY <3>1, <3>2 DEF KeyInv, AtMostOncePerKey
  <2>3. QED BY <1>2, <2>1, <2>2, ProcessEffect
<1>3. CASE Submit
  BY <1>3, KeyFrame DEF Submit, Acknowledged
<1>4. CASE BrokerAnswers
  <2>1. PICK outcome \in {"booked", "tracking", "rejected", "unpriced", "unlogged"} :
          /\ Finish(outcome)
          /\ submitted' = IF outcome = "unlogged" THEN submitted
                          ELSE submitted \union {Attr[cur].key}
    BY <1>4, AnswerEffect
  <2>2. /\ cur \in Intent /\ order[cur] = "none" /\ cur' = NoIntent
        /\ Attr[cur].key \notin submitted
        /\ order' = [order EXCEPT ![cur] = outcome]
    <3>1. cur \in Intent /\ cur # NoIntent /\ where[cur] = "working"
      BY <2>1 DEF Finish, WorkerInv, TypeOK
    <3>2. QED BY <3>1, <2>1 DEF Finish, WorkerInv, KeyInv
  <2>3. CASE outcome = "unlogged"
    <3>1. Acknowledged' = Acknowledged
      BY <2>2, <2>3 DEF Acknowledged, TypeOK
    <3>2. QED BY <2>1, <2>2, <2>3, <3>1 DEF KeyInv, AtMostOncePerKey
  <2>4. CASE outcome # "unlogged"
    <3>1. Acknowledged' = Acknowledged \union {cur}
      BY <2>1, <2>2, <2>4 DEF Acknowledged, TypeOK
    <3>2. \A j \in Acknowledged : Attr[j].key # Attr[cur].key
      BY <2>2 DEF KeyInv
    <3>3. AtMostOncePerKey'
      BY <3>1, <3>2 DEF KeyInv, AtMostOncePerKey
    <3>4. submitted' = {Attr[j].key : j \in Acknowledged'}
      BY <2>1, <2>4, <3>1 DEF KeyInv
    <3>5. QED BY <2>2, <3>3, <3>4 DEF KeyInv
  <2>5. QED BY <2>3, <2>4
<1>5. ASSUME NEW i \in Intent, Track(i) PROVE KeyInv'
  <2>1. PICK o \in {"booked", "rejected", "unresolved", "silent", "chasing"} :
          order' = [order EXCEPT ![i] = o]
    BY <1>5, TrackBooks
  <2>2. order[i] \in Tracked /\ TrackUnchanged BY <1>5, TrackBooks
  <2>3. Acknowledged' = Acknowledged
    BY <2>1, <2>2 DEF Tracked, Acknowledged, TypeOK
  <2>4. QED BY <2>2, <2>3, KeyFrame DEF TrackUnchanged
<1>6. CASE Operate
  BY <1>6, KeyFrame DEF Operate, Acknowledged
<1>7. CASE Restart
  <2>1. Acknowledged' = Acknowledged
    <3>1. ASSUME NEW j \in Intent
          PROVE  order'[j] \in {"none", "unlogged"} <=> order[j] \in {"none", "unlogged"}
      <4>1. order'[j] = IF order[j] \in Tracked THEN "orphaned"
                        ELSE IF wpc = "broker" /\ cur = j THEN "unlogged" ELSE order[j]
        BY <1>7 DEF Restart
      <4>2. cur = j => order[j] = "none"
        BY DEF WorkerInv
      <4>3. QED BY <4>1, <4>2 DEF Tracked
    <3>2. QED BY <3>1 DEF Acknowledged
  <2>2. UNCHANGED submitted /\ cur' = NoIntent BY <1>7 DEF Restart
  <2>3. QED BY <2>1, <2>2 DEF KeyInv, AtMostOncePerKey
<1>8. CASE UNCHANGED vars
  BY <1>8, KeyFrame DEF vars, schedVars, Acknowledged
<1>9. QED BY <1>1, <1>2, <1>3, <1>4, <1>5, <1>6, <1>7, <1>8 DEF Next

(* What is booked and out of an intent only moves with the answer to its      *)
(* order and with its tracking task.                                          *)
LEMMA PiecesFrame ==
  ASSUME PiecesInv, UNCHANGED <<order, rest, lots>>
  PROVE  PiecesInv'
BY DEF PiecesInv

LEMMA PiecesStep ==
  ASSUME TypeOK, WorkerInv, PiecesInv, [Next]_vars
  PROVE  PiecesInv'
<1>1. ASSUME NEW i \in Intent, Enqueue(i) \/ PutResumes(i) PROVE PiecesInv'
  BY <1>1, EnqueueEffect, PiecesFrame DEF WorkerUnchanged, ledgerVars
<1>2. ASSUME NEW i \in Intent, Process(i) PROVE PiecesInv'
  BY <1>2, ProcessEffect, PiecesFrame DEF Drop, Clear, TakeUnchanged, ledgerVars
<1>3. CASE Submit \/ Operate \/ UNCHANGED vars
  BY <1>3, PiecesFrame DEF Submit, Operate, vars, schedVars, ledgerVars
<1>4. CASE BrokerAnswers
  <2>1. PICK outcome \in {"booked", "tracking", "rejected", "unpriced", "unlogged"},
             m \in 0..Quantity(cur), left \in Nat :
          /\ Finish(outcome) /\ Fill(cur, m)
          /\ rest' = [rest EXCEPT ![cur] = left]
          /\ outcome = "tracking" => m + left <= Quantity(cur)
    BY <1>4, AnswerBooks
  <2>2. cur \in Intent /\ order[cur] = "none"
    BY <2>1 DEF Finish, WorkerInv, TypeOK
  <2>3. PICK i \in Intent : i = cur BY <2>2
  <2>4. /\ lots[i] = 0 /\ lots'[i] = lots[i] + m /\ rest'[i] = left
        /\ order'[i] = outcome
    BY <2>1, <2>2, <2>3 DEF Finish, Fill, PiecesInv, TypeOK
  <2>5. ASSUME NEW j \in Intent, j # i
        PROVE  lots'[j] = lots[j] /\ rest'[j] = rest[j] /\ order'[j] = order[j]
    BY <2>1, <2>3, <2>5 DEF Finish, Fill, TypeOK
  <2>6. Quantity(i) \in Nat BY LotsTyped
  <2>7. order'[i] \in Tracked => lots'[i] + rest'[i] <= Quantity(i)
    BY <2>1, <2>3, <2>4, <2>6 DEF Tracked
  <2>8. order'[i] # "none" BY <2>1, <2>4
  <2>9. QED BY <2>5, <2>7, <2>8 DEF PiecesInv, Quantity
<1>5. ASSUME NEW i \in Intent, Track(i) PROVE PiecesInv'
  <2>1. PICK o \in {"booked", "rejected", "unresolved", "silent", "chasing"},
             m \in 0..rest[i], left \in Nat :
          /\ order' = [order EXCEPT ![i] = o] /\ Fill(i, m)
          /\ rest' = [rest EXCEPT ![i] = left] /\ m + left <= rest[i]
    BY <1>5, TrackBooks
  <2>2. order[i] \in Tracked BY <1>5, TrackBooks
  <2>3. lots[i] + rest[i] <= Quantity(i) BY <2>2 DEF PiecesInv
  <2>4. lots'[i] = lots[i] + m /\ rest'[i] = left /\ order'[i] = o
    BY <2>1 DEF Fill, TypeOK
  <2>5. lots[i] \in Nat /\ rest[i] \in Nat /\ Quantity(i) \in Nat
    BY LotsTyped DEF TypeOK
  <2>6. lots'[i] + rest'[i] <= Quantity(i)
    BY <2>1, <2>3, <2>4, <2>5
  <2>7. ASSUME NEW j \in Intent, j # i
        PROVE  lots'[j] = lots[j] /\ rest'[j] = rest[j] /\ order'[j] = order[j]
    BY <2>1, <2>7 DEF Fill, TypeOK
  <2>8. order'[i] # "none" BY <2>4
  <2>9. QED BY <2>6, <2>7, <2>8 DEF PiecesInv, Quantity
<1>6. CASE Restart
  <2>1. ASSUME NEW j \in Intent
        PROVE  /\ order'[j] \notin Tracked /\ lots'[j] = lots[j]
               /\ order'[j] = "none" => order[j] = "none"
    BY <1>6 DEF Restart, Tracked
  <2>2. QED BY <2>1 DEF PiecesInv
<1>7. QED BY <1>1, <1>2, <1>3, <1>4, <1>5, <1>6 DEF Next

LEMMA TripStep ==
  ASSUME TypeOK, WorkerInv, TripInv, [Next]_vars
  PROVE  TripInv'
<1> USE DEF TripInv, TripStopsOpenings
<1>1. ASSUME NEW i \in Intent, Enqueue(i) \/ PutResumes(i) PROVE TripInv'
  BY <1>1, EnqueueEffect DEF WorkerUnchanged, controlVars
<1>2. ASSUME NEW i \in Intent, Process(i) PROVE TripInv'
  <2>1. CASE \E e \in Event : Drop(i, e)
    BY <2>1 DEF Drop, TakeUnchanged, Take, controlVars
  <2>2. CASE Clear(i)
    <3>1. kill => ~DerivedOpens(i) BY <2>2 DEF Clear, GateAdmits
    <3>2. opens'[cur'] = DerivedOpens(i) BY <2>2 DEF Clear, TypeOK
    <3>3. QED BY <2>2, <3>1, <3>2 DEF Clear, TakeUnchanged, controlVars
  <2>3. QED BY <1>2, <2>1, <2>2, ProcessEffect
<1>3. CASE Submit
  BY <1>3 DEF Submit, TypeOK
<1>4. CASE BrokerAnswers
  <2>1. PICK outcome : Finish(outcome) BY <1>4, AnswerEffect
  <2>2. QED BY <2>1 DEF Finish
<1>5. ASSUME NEW i \in Intent, Track(i) PROVE TripInv'
  BY <1>5, TrackBooks DEF TrackUnchanged, controlVars
<1>6. CASE Operate
  <2>1. UNCHANGED <<wpc, cur, opens>> BY <1>6 DEF Operate
  <2>2. CASE UNCHANGED openedSinceTrip /\ UNCHANGED kill
    BY <2>1, <2>2
  <2>3. CASE \E active, saved \in BOOLEAN :
               SetKillSwitch(active, saved) /\ openedSinceTrip' = TripCount(active)
    BY <2>1, <2>3 DEF SetKillSwitch, TripCount
  <2>4. QED
    BY <1>6, <2>2, <2>3 DEF Operate, SetExecutionMode, ArmLive, DisarmLive
<1>7. CASE Restart
  BY <1>7 DEF Restart
<1>8. CASE UNCHANGED vars
  BY <1>8 DEF vars, schedVars, controlVars
<1>9. QED BY <1>1, <1>2, <1>3, <1>4, <1>5, <1>6, <1>7, <1>8 DEF Next

LEMMA OvertakeStep ==
  ASSUME TypeOK, WorkerInv, OvertakeInv, [Next]_vars
  PROVE  OvertakeInv'
<1> USE DEF OvertakeInv, OvertakenAtMostOnce
<1>1. ASSUME NEW i \in Intent, Enqueue(i) \/ PutResumes(i) PROVE OvertakeInv'
  BY <1>1, EnqueueEffect DEF WorkerUnchanged, Queue, TypeOK
<1>2. ASSUME NEW i \in Intent, Process(i) PROVE OvertakeInv'
  <2>1. CASE \E e \in Event : Drop(i, e)
    BY <2>1 DEF Drop, TakeUnchanged, Take, Queue, TypeOK
  <2>2. CASE Clear(i)
    <3>1. \A j \in Queue : ~(Attr[j].priority < Attr[i].priority)
      BY <2>2, AttrTyped DEF Clear, Take, AtHead, Before, Queue
    <3>2. cur' = i /\ UNCHANGED overtaken /\ where' = [where EXCEPT ![i] = "working"]
      BY <2>2 DEF Clear, TakeUnchanged
    <3>3. QED BY <3>1, <3>2 DEF Queue, TypeOK
  <2>3. QED BY <1>2, <2>1, <2>2, ProcessEffect
<1>3. CASE Submit
  BY <1>3 DEF Submit, Queue, TypeOK
<1>4. CASE BrokerAnswers
  <2>1. PICK outcome : Finish(outcome) BY <1>4, AnswerEffect
  <2>2. QED BY <2>1 DEF Finish, TypeOK
<1>5. ASSUME NEW i \in Intent, Track(i) PROVE OvertakeInv'
  BY <1>5, TrackBooks DEF TrackUnchanged, Queue
<1>6. CASE Operate
  BY <1>6 DEF Operate, Queue
<1>7. CASE Restart
  BY <1>7 DEF Restart, TypeOK
<1>8. CASE UNCHANGED vars
  BY <1>8 DEF vars, schedVars, Queue
<1>9. QED BY <1>1, <1>2, <1>3, <1>4, <1>5, <1>6, <1>7, <1>8 DEF Next

(* A step is one of the operator's, a restart, or leaves the control plane    *)
(* alone.                                                                     *)
LEMMA ControlEffect ==
  ASSUME TypeOK, [Next]_vars
  PROVE  Operate \/ Restart \/ UNCHANGED controlVars
<1>1. ASSUME NEW i \in Intent, Enqueue(i) \/ PutResumes(i) PROVE UNCHANGED controlVars
  BY <1>1, EnqueueEffect
<1>2. ASSUME NEW i \in Intent, Process(i) PROVE UNCHANGED controlVars
  BY <1>2, ProcessEffect DEF Drop, Clear, TakeUnchanged
<1>3. CASE BrokerAnswers BY <1>3, AnswerEffect DEF Finish
<1>4. ASSUME NEW i \in Intent, Track(i) PROVE UNCHANGED controlVars
  BY <1>4, TrackBooks DEF TrackUnchanged
<1>5. QED BY <1>1, <1>2, <1>3, <1>4 DEF Next, Submit, vars

LEMMA ControlStep ==
  ASSUME TypeOK, ControlInv, [Next]_vars
  PROVE  ControlInv'
<1> USE DEF ControlInv, NeverArmedUnderKill, TripSurvivesRestart, LiveArmed
<1>1. CASE UNCHANGED controlVars
  BY <1>1 DEF controlVars
<1>2. CASE Operate
  <2>1. CASE \E m \in Mode : SetExecutionMode(m)
    BY <2>1 DEF SetExecutionMode
  <2>2. CASE ArmLive(TRUE) BY <2>2 DEF ArmLive, LiveReady
  <2>3. CASE DisarmLive BY <2>3 DEF DisarmLive
  <2>4. CASE \E active, saved \in BOOLEAN : SetKillSwitch(active, saved)
    <3>1. PICK active \in BOOLEAN, saved \in BOOLEAN : SetKillSwitch(active, saved)
      BY <2>4
    <3>2. CASE active = TRUE BY <3>1, <3>2 DEF SetKillSwitch
    <3>3. CASE active = FALSE BY <3>1, <3>3 DEF SetKillSwitch
    <3>4. QED BY <3>2, <3>3
  <2>5. QED BY <1>2, <2>1, <2>2, <2>3, <2>4 DEF Operate
<1>3. CASE Restart
  <2>1. PICK readOk \in BOOLEAN : RestartControl(readOk)
    BY <1>3 DEF Restart
  <2>2. CASE ~auditLost'
    BY <2>1, <2>2 DEF RestartControl, TypeOK, ControlTypeOK
  <2>3. CASE auditLost'
    BY <2>1, <2>3 DEF RestartControl
  <2>4. QED BY <2>2, <2>3
<1>4. QED BY <1>1, <1>2, <1>3, ControlEffect

(* The inductive invariant holds in every reachable state.                    *)
THEOREM Invariance == Spec => [](TypeOK /\ IndInv)
<1>1. Init => TypeOK /\ IndInv
  <2> SUFFICES ASSUME Init PROVE TypeOK /\ IndInv
    OBVIOUS
  <2>1. TypeOK
    BY SchedulerAssumption, ModeAssumption
    DEF Init, TypeOK, ControlInit, ControlTypeOK, Venue, ArmState, KillEvent,
        Where, Outcome, Event, UnresolvedEvent
  <2>2. WorkerInv
    BY SchedulerAssumption DEF Init, WorkerInv
  <2>3. KeyInv
    <3>1. Acknowledged = {} /\ submitted = {} /\ cur = NoIntent
      BY DEF Init, Acknowledged
    <3>2. QED BY <3>1 DEF KeyInv, AtMostOncePerKey
  <2>4. TripInv /\ OvertakeInv /\ PiecesInv
    BY DEF Init, TripInv, TripStopsOpenings, OvertakeInv, OvertakenAtMostOnce,
           PiecesInv, Tracked
  <2>5. ControlInv
    BY DEF Init, ControlInit, ControlInv, NeverArmedUnderKill, TripSurvivesRestart,
           LiveArmed
  <2>6. QED BY <2>1, <2>2, <2>3, <2>4, <2>5 DEF IndInv
<1>2. TypeOK /\ IndInv /\ [Next]_vars => (TypeOK /\ IndInv)'
  BY TypeStep, WorkerStep, KeyStep, PiecesStep, TripStep, OvertakeStep, ControlStep DEF IndInv
<1>3. QED BY <1>1, <1>2, PTL DEF Spec

(* Every variable keeps its type.                                             *)
THEOREM TypeCorrect == Spec => []TypeOK
BY Invariance, PTL

(* One idempotency key, one acknowledged order (audit fix H5).                *)
THEOREM OncePerKey == Spec => []AtMostOncePerKey
<1>1. IndInv => AtMostOncePerKey BY DEF IndInv, KeyInv
<1>2. QED BY <1>1, Invariance, PTL

(* After a trip of the kill switch at most one opening order still goes out,  *)
(* however many are queued.                                                   *)
THEOREM TripStops == Spec => []TripStopsOpenings
<1>1. IndInv => TripStopsOpenings BY DEF IndInv, TripInv
<1>2. QED BY <1>1, Invariance, PTL

(* An order in the queue sees at most one less urgent order sent before it.   *)
THEOREM ExitsFirst == Spec => []OvertakenAtMostOnce
<1>1. IndInv => OvertakenAtMostOnce BY DEF IndInv, OvertakeInv
<1>2. QED BY <1>1, Invariance, PTL

(* The kill switch is what it was last set to, across restarts, unless the    *)
(* audit row was lost (_restore_kill_switch_from_db).                         *)
THEOREM TripSurvives == Spec => []TripSurvivesRestart
<1>1. IndInv => TripSurvivesRestart BY DEF IndInv, ControlInv
<1>2. QED BY <1>1, Invariance, PTL

(* LIVE is never armed under an active kill switch or outside a LIVE mode.    *)
THEOREM NeverArmed == Spec => []NeverArmedUnderKill
<1>1. IndInv => NeverArmedUnderKill BY DEF IndInv, ControlInv
<1>2. QED BY <1>1, Invariance, PTL

(* A process that does not start in a LIVE mode always has the scheduler on   *)
(* the broker of its current mode.                                            *)
THEOREM BrokerFollows == StartMode \notin LiveMode => (Spec => []BrokerFollowsMode)
<1> SUFFICES ASSUME StartMode \notin LiveMode PROVE Spec => []BrokerFollowsMode
  OBVIOUS
<1>1. Init => BrokerFollowsMode
  BY DEF Init, ControlInit, BrokerFollowsMode, BrokerClient
<1>2. TypeOK /\ BrokerFollowsMode /\ [Next]_vars => BrokerFollowsMode'
  <2> SUFFICES ASSUME TypeOK, BrokerFollowsMode, [Next]_vars PROVE BrokerFollowsMode'
    OBVIOUS
  <2>1. CASE UNCHANGED controlVars
    BY <2>1 DEF controlVars, BrokerFollowsMode, BrokerClient
  <2>2. CASE Operate
    BY <2>2 DEF Operate, SetExecutionMode, ArmLive, DisarmLive, SetKillSwitch,
                BrokerFollowsMode, BrokerClient
  <2>3. CASE Restart
    BY <2>3 DEF Restart, RestartControl, BrokerFollowsMode, BrokerClient
  <2>4. QED BY <2>1, <2>2, <2>3, ControlEffect
<1>3. QED BY <1>1, <1>2, TypeCorrect, PTL DEF Spec

(* The scheduler implements OrderOnce: each of its steps claims a key that    *)
(* has no acknowledged order, settles or abandons the claim, or is invisible. *)
THEOREM ImplementsOnce == Spec => OnceSpec
<1>1. Init => Once!OnceInit
  BY DEF Init, Once!OnceInit, Acknowledged
<1>2. TypeOK /\ IndInv /\ [Next]_vars => [Once!OnceNext]_Once!onceVars
  <2> SUFFICES ASSUME TypeOK, IndInv, [Next]_vars
               PROVE  Once!OnceNext \/ UNCHANGED <<cur, Acknowledged>>
    BY DEF Once!onceVars
  <2> USE DEF IndInv
  <2>1. ASSUME NEW i \in Intent, Enqueue(i) \/ PutResumes(i)
        PROVE  UNCHANGED <<cur, Acknowledged>>
    BY <2>1, EnqueueEffect DEF WorkerUnchanged, Acknowledged
  <2>2. ASSUME NEW i \in Intent, Process(i)
        PROVE  Once!OnceNext \/ UNCHANGED <<cur, Acknowledged>>
    <3>1. CASE \E e \in Event : Drop(i, e)
      BY <3>1 DEF Drop, TakeUnchanged, Acknowledged
    <3>2. CASE Clear(i)
      <4>1. cur = NoIntent /\ cur' = i /\ UNCHANGED Acknowledged
        BY <3>2 DEF Clear, Take, TakeUnchanged, WorkerInv, Acknowledged
      <4>2. \A j \in Acknowledged : Attr[j].key # Attr[i].key
        BY <3>2 DEF Clear, KeyInv
      <4>3. Once!Claim(i)
        BY <4>1, <4>2 DEF Once!Claim, Acknowledged
      <4>4. QED BY <4>3 DEF Once!OnceNext
    <3>3. QED BY <2>2, <3>1, <3>2, ProcessEffect
  <2>3. CASE BrokerAnswers
    <3>1. PICK outcome \in {"booked", "tracking", "rejected", "unpriced", "unlogged"} :
            Finish(outcome)
      BY <2>3, AnswerEffect
    <3>2. cur \in Intent /\ cur # NoIntent /\ cur' = NoIntent /\ order[cur] = "none"
      BY <3>1 DEF Finish, WorkerInv, TypeOK
    <3>3. Acknowledged' = IF outcome = "unlogged" THEN Acknowledged
                          ELSE Acknowledged \union {cur}
      BY <3>1, <3>2 DEF Finish, Acknowledged, TypeOK
    <3>4. Once!Settle \/ Once!Abandon
      BY <3>2, <3>3 DEF Once!Settle, Once!Abandon
    <3>5. QED BY <3>4 DEF Once!OnceNext
  <2>4. ASSUME NEW i \in Intent, Track(i) PROVE UNCHANGED <<cur, Acknowledged>>
    <3>1. PICK o \in {"booked", "rejected", "unresolved", "silent", "chasing"} :
            order' = [order EXCEPT ![i] = o]
      BY <2>4, TrackBooks
    <3>2. order[i] \in Tracked /\ TrackUnchanged BY <2>4, TrackBooks
    <3>3. QED BY <3>1, <3>2 DEF TrackUnchanged, Tracked, Acknowledged, TypeOK
  <2>5. CASE Restart
    <3>1. cur' = NoIntent BY <2>5 DEF Restart
    <3>2. Acknowledged' = Acknowledged
      <4>1. ASSUME NEW j \in Intent
            PROVE  order'[j] \in {"none", "unlogged"} <=> order[j] \in {"none", "unlogged"}
        <5>1. order'[j] = IF order[j] \in Tracked THEN "orphaned"
                          ELSE IF wpc = "broker" /\ cur = j THEN "unlogged" ELSE order[j]
          BY <2>5 DEF Restart
        <5>2. cur = j => order[j] = "none"
          BY DEF WorkerInv
        <5>3. QED BY <5>1, <5>2 DEF Tracked
      <4>2. QED BY <4>1 DEF Acknowledged
    <3>3. CASE cur = NoIntent BY <3>1, <3>2, <3>3
    <3>4. CASE cur # NoIntent
      BY <3>1, <3>2, <3>4 DEF Once!Abandon, Once!OnceNext
    <3>5. QED BY <3>3, <3>4
  <2>6. CASE Submit \/ Operate \/ UNCHANGED vars
    BY <2>6 DEF Submit, Operate, vars, schedVars, Acknowledged
  <2>7. QED BY <2>1, <2>2, <2>3, <2>4, <2>5, <2>6 DEF Next
<1>3. QED BY <1>1, <1>2, Invariance, PTL DEF Spec, OnceSpec, Once!OnceSpec

(* What derive_true_opens_position calls a reduction makes the position it    *)
(* was measured against smaller, and does not take it through zero, however   *)
(* long or short it is and whatever the caller claimed.  (It is measured      *)
(* against the booked position: see the README for two exits at once.)        *)
THEOREM ReductionsReduce ==
  ASSUME NEW i \in Intent, NEW h \in Int, ~OpensPosition(i, h)
  PROVE  /\ AbsVal(h + Attr[i].qty) < AbsVal(h)
         /\ h > 0 => h + Attr[i].qty >= 0
         /\ h < 0 => h + Attr[i].qty <= 0
<1>1. Attr[i].qty \in Int \ {0} BY SchedulerAssumption DEF IntentRecord
<1>2. CASE h > 0
  <2>1. Attr[i].qty < 0 /\ -Attr[i].qty <= h
    BY <1>1, <1>2 DEF OpensPosition, AbsVal
  <2>2. QED BY <1>1, <1>2, <2>1 DEF AbsVal
<1>3. CASE h < 0
  <2>1. Attr[i].qty > 0 /\ Attr[i].qty <= -h
    BY <1>1, <1>3 DEF OpensPosition, AbsVal
  <2>2. QED BY <1>1, <1>3, <2>1 DEF AbsVal
<1>4. h # 0 BY DEF OpensPosition
<1>5. QED BY <1>2, <1>3, <1>4

(* One intent moves on by a step of OrderLedger that books nothing, and the   *)
(* others stay where they are.                                                *)
LEMMA OneMoves ==
  ASSUME NEW i \in Intent, UNCHANGED <<held, lots>>,
         \A j \in Intent : j # i => Progress(j)' = Progress(j),
         \/ Progress(i)' = Progress(i)
         \/ Progress(i) = "outside" /\ Progress(i)' = "inside"
         \/ Progress(i) = "inside" /\ Progress(i)' = "sent"
         \/ Progress(i)' = "left"
  PROVE  [Ledger!LedgerNext]_Ledger!ledgerVars
<1> DEFINE path == [j \in Intent |-> Progress(j)]
<1>1. path' = [path EXCEPT ![i] = Progress(i)']
  OBVIOUS
<1>2. CASE Progress(i)' = Progress(i)
  <2>1. path' = path BY <1>2
  <2>2. QED BY <2>1 DEF Ledger!ledgerVars
<1>3. CASE Progress(i) = "outside" /\ Progress(i)' = "inside"
  BY <1>1, <1>3 DEF Ledger!LedgerNext, Ledger!Accept
<1>4. CASE Progress(i) = "inside" /\ Progress(i)' = "sent"
  BY <1>1, <1>4 DEF Ledger!LedgerNext, Ledger!Send
<1>5. CASE Progress(i)' = "left"
  <2>1. path' = [j \in Intent |-> IF j \in {i} THEN "left" ELSE path[j]]
    BY <1>1, <1>5
  <2>2. Ledger!Leave({i}) BY <2>1 DEF Ledger!Leave
  <2>3. QED BY <2>2 DEF Ledger!LedgerNext
<1>6. QED BY <1>2, <1>3, <1>4, <1>5

(* A piece of an order that was out is booked: its lots are in the position,  *)
(* and the pieces so far are within the quantity of the intent.               *)
LEMMA OneBooked ==
  ASSUME NEW i \in Intent, TypeOK, NEW n \in Nat, Fill(i, n),
         lots[i] + n <= Quantity(i),
         \A j \in Intent : j # i => Progress(j)' = Progress(j),
         Progress(i) = "sent", Progress(i)' \in {"sent", "left"}
  PROVE  Ledger!LedgerNext
<1> DEFINE path == [j \in Intent |-> Progress(j)]
           qty == [j \in Intent |-> Attr[j].qty]
<1>1. path' = [path EXCEPT ![i] = Progress(i)']
  OBVIOUS
<1>2. Ledger!SizeOf(i) = Quantity(i)
  BY DEF Ledger!SizeOf, Quantity, AbsVal
<1>3. Attr[i].qty \in Int /\ Attr[i].symbol \in Symbol
      /\ held[Attr[i].symbol] \in Int /\ lots[i] \in Nat
  BY AttrTyped DEF TypeOK
<1>4. held' = [held EXCEPT ![[j \in Intent |-> Attr[j].symbol][i]]
                 = IF qty[i] < 0 THEN @ - n ELSE @ + n]
  BY DEF Fill
<1>5. lots' = [lots EXCEPT ![i] = @ + n] BY DEF Fill
<1>6. n \in 0..Ledger!SizeOf(i) /\ lots[i] + n <= Ledger!SizeOf(i)
  BY <1>2, <1>3, LotsTyped
<1>7. Ledger!Book(i, n) BY <1>1, <1>4, <1>5, <1>6 DEF Ledger!Book
<1>8. QED BY <1>6, <1>7 DEF Ledger!LedgerNext

(* What the worker and the trackers do to where an intent has come.           *)
LEMMA FinishMoves ==
  ASSUME TypeOK, WorkerInv, NEW outcome, Finish(outcome), NEW i \in Intent, i = cur
  PROVE  /\ Progress(i) = "sent" /\ Progress(i)' \in {"sent", "left"}
         /\ \A j \in Intent : j # i => Progress(j)' = Progress(j)
<1>1. wpc = "broker" /\ wpc' = "idle" BY DEF Finish
<1>2. where' = [where EXCEPT ![i] = "done"] /\ order' = [order EXCEPT ![i] = outcome]
  BY DEF Finish
<1>3. Progress(i) = "sent" BY <1>1 DEF Progress, Out
<1>4. where'[i] = "done" BY <1>2 DEF TypeOK
<1>5. ASSUME NEW j \in Intent, j # i PROVE Progress(j)' = Progress(j)
  <2>1. where'[j] = where[j] /\ order'[j] = order[j] BY <1>2, <1>5 DEF TypeOK
  <2>2. QED BY <1>1, <1>5, <2>1 DEF Progress, Out
<1>6. QED BY <1>3, <1>4, <1>5 DEF Progress

LEMMA TrackMoves ==
  ASSUME TypeOK, WorkerInv, NEW i \in Intent, Track(i)
  PROVE  /\ Progress(i) = "sent" /\ Progress(i)' \in {"sent", "left"}
         /\ \A j \in Intent : j # i => Progress(j)' = Progress(j)
<1>1. order[i] \in Tracked /\ TrackUnchanged BY TrackBooks
<1>2. where[i] \in {"done", "lost"} BY <1>1 DEF WorkerInv, Tracked
<1>3. UNCHANGED <<where, wpc, cur>> BY <1>1 DEF TrackUnchanged
<1>4. PICK o : order' = [order EXCEPT ![i] = o] BY TrackBooks
<1>5. ASSUME NEW j \in Intent, j # i PROVE Progress(j)' = Progress(j)
  <2>1. order'[j] = order[j] BY <1>4, <1>5 DEF TypeOK
  <2>2. QED BY <1>3, <2>1 DEF Progress, Out
<1>6. QED BY <1>1, <1>2, <1>3, <1>5 DEF Progress, Out

(* A restart forgets whatever was inside or out, and books none of it.        *)
LEMMA RestartMoves ==
  ASSUME TypeOK, WorkerInv, Restart
  PROVE  Ledger!LedgerNext
<1> DEFINE path == [j \in Intent |-> Progress(j)]
           left == {j \in Intent : Progress(j) # "outside"}
<1>1. ASSUME NEW j \in Intent
      PROVE  Progress(j)' = IF Progress(j) # "outside" THEN "left" ELSE "outside"
  <2>1. /\ where'[j] = IF where[j] \in {"queued", "blocked", "working"} THEN "lost" ELSE where[j]
        /\ order'[j] = IF order[j] \in Tracked THEN "orphaned"
                       ELSE IF wpc = "broker" /\ cur = j THEN "unlogged" ELSE order[j]
        /\ wpc' = "idle"
    BY DEF Restart
  <2>2. /\ order[j] # "none" => where[j] \in {"done", "lost"}
        /\ cur = j => where[j] = "working" /\ order[j] = "none"
    BY DEF WorkerInv
  <2>3. order[j] \in Outcome /\ where[j] \in Where BY DEF TypeOK
  <2>4. order'[j] \notin Tracked BY <2>1 DEF Tracked
  <2>5. QED BY <2>1, <2>2, <2>3, <2>4 DEF Progress, Out, Tracked, Where
<1>2. path' = [j \in Intent |-> IF j \in left THEN "left" ELSE path[j]]
  BY <1>1
<1>3. left \in SUBSET Intent /\ UNCHANGED <<held, lots>>
  BY DEF Restart
<1>4. Ledger!Leave(left) BY <1>2, <1>3 DEF Ledger!Leave
<1>5. QED BY <1>3, <1>4 DEF Ledger!LedgerNext

(* The scheduler implements OrderLedger: an intent is accepted, sent once,    *)
(* and booked in pieces that together stay within its quantity, while its     *)
(* order is out; nothing else moves a position (_submit_to_broker,            *)
(* _track_order_until_terminal, _chase_to_market_if_unfilled, _handle_fill).  *)
THEOREM ImplementsLedger == Spec => LedgerSpec
<1>1. Init => Ledger!LedgerInit
  BY DEF Init, Ledger!LedgerInit, Progress, Out, Tracked
<1>2. TypeOK /\ IndInv /\ [Next]_vars => [Ledger!LedgerNext]_Ledger!ledgerVars
  <2> SUFFICES ASSUME TypeOK, WorkerInv, PiecesInv, [Next]_vars
               PROVE  [Ledger!LedgerNext]_Ledger!ledgerVars
    BY DEF IndInv
  <2>1. ASSUME NEW i \in Intent, Enqueue(i) \/ PutResumes(i)
        PROVE  [Ledger!LedgerNext]_Ledger!ledgerVars
    <3>1. PICK w \in {"done", "queued", "deferred", "blocked"} :
            where' = [where EXCEPT ![i] = w]
      BY <2>1, EnqueueEffect
    <3>2. UNCHANGED <<wpc, cur, order, held, lots>> /\ where[i] \in {"new", "blocked"}
      BY <2>1, EnqueueEffect DEF WorkerUnchanged, ledgerVars
    <3>3. order[i] = "none" /\ cur # i BY <3>2 DEF WorkerInv
    <3>4. where'[i] = w BY <3>1 DEF TypeOK
    <3>5. \A j \in Intent : j # i => Progress(j)' = Progress(j)
      BY <3>1, <3>2 DEF Progress, Out, TypeOK
    <3>6. Progress(i) \in {"outside", "inside"}
          /\ (Progress(i)' = "inside" \/ Progress(i)' = "left")
      BY <3>2, <3>3, <3>4 DEF Progress, Out, Tracked
    <3>7. QED BY <3>2, <3>5, <3>6, OneMoves
  <2>2. ASSUME NEW i \in Intent, Process(i)
        PROVE  [Ledger!LedgerNext]_Ledger!ledgerVars
    <3>1. UNCHANGED <<order, held, lots>> /\ wpc = "idle" /\ wpc' # "broker" /\ where[i] = "queued"
      BY <2>2, ProcessEffect DEF Drop, Clear, Take, TakeUnchanged, AtHead, Queue, ledgerVars
    <3>2. PICK w \in {"done", "working"} : where' = [where EXCEPT ![i] = w]
      BY <2>2, ProcessEffect DEF Drop, Clear
    <3>3. order[i] = "none" BY <3>1 DEF WorkerInv
    <3>4. where'[i] = w BY <3>2 DEF TypeOK
    <3>5. \A j \in Intent : j # i => Progress(j)' = Progress(j)
      BY <3>1, <3>2 DEF Progress, Out, TypeOK
    <3>6. Progress(i) = "inside" /\ (Progress(i)' = "inside" \/ Progress(i)' = "left")
      BY <3>1, <3>3, <3>4 DEF Progress, Out, Tracked
    <3>7. QED BY <3>1, <3>5, <3>6, OneMoves
  <2>3. CASE Submit
    <3>1. cur \in Intent /\ where[cur] = "working" /\ order[cur] = "none"
          /\ wpc = "limiter" /\ wpc' = "broker" /\ UNCHANGED <<where, cur, order, held, lots>>
      BY <2>3 DEF Submit, WorkerInv, TypeOK, ledgerVars
    <3>2. \A j \in Intent : j # cur => Progress(j)' = Progress(j)
      BY <3>1 DEF Progress, Out
    <3>3. Progress(cur) = "inside" /\ Progress(cur)' = "sent"
      BY <3>1 DEF Progress, Out, Tracked
    <3>4. QED BY <3>1, <3>2, <3>3, OneMoves
  <2>4. CASE BrokerAnswers
    <3>1. PICK outcome \in {"booked", "tracking", "rejected", "unpriced", "unlogged"},
               m \in 0..Quantity(cur) : Finish(outcome) /\ Fill(cur, m)
      BY <2>4, AnswerBooks
    <3>2. PICK i \in Intent : i = cur
      BY <3>1 DEF Finish, WorkerInv, TypeOK
    <3>3. /\ Progress(i) = "sent" /\ Progress(i)' \in {"sent", "left"}
          /\ \A j \in Intent : j # i => Progress(j)' = Progress(j)
      BY <3>1, <3>2, FinishMoves
    <3>4. lots[i] = 0 /\ Quantity(i) \in Nat
      BY <3>1, <3>2, LotsTyped DEF Finish, WorkerInv, PiecesInv
    <3>5. m \in Nat /\ lots[i] + m <= Quantity(i) BY <3>1, <3>2, <3>4
    <3>6. Fill(i, m) BY <3>1, <3>2 DEF Fill
    <3>7. QED BY <3>3, <3>5, <3>6, OneBooked
  <2>5. ASSUME NEW i \in Intent, Track(i)
        PROVE  [Ledger!LedgerNext]_Ledger!ledgerVars
    <3>1. PICK m \in 0..rest[i] : Fill(i, m)
      BY <2>5, TrackBooks
    <3>2. /\ Progress(i) = "sent" /\ Progress(i)' \in {"sent", "left"}
          /\ \A j \in Intent : j # i => Progress(j)' = Progress(j)
      BY <2>5, TrackMoves
    <3>3. lots[i] + rest[i] <= Quantity(i)
      BY <2>5, TrackBooks DEF PiecesInv
    <3>4. lots[i] \in Nat /\ rest[i] \in Nat /\ Quantity(i) \in Nat
      BY LotsTyped DEF TypeOK
    <3>5. m \in Nat /\ lots[i] + m <= Quantity(i) BY <3>3, <3>4
    <3>6. QED BY <3>1, <3>2, <3>5, OneBooked
  <2>6. CASE Restart BY <2>6, RestartMoves
  <2>7. CASE Operate \/ UNCHANGED vars
    <3>1. UNCHANGED <<where, wpc, cur, order, held, lots>>
      BY <2>7 DEF Operate, vars, schedVars, ledgerVars
    <3>2. [j \in Intent |-> Progress(j)]' = [j \in Intent |-> Progress(j)]
      BY <3>1 DEF Progress, Out
    <3>3. QED BY <3>1, <3>2 DEF Ledger!ledgerVars
  <2>8. QED BY <2>1, <2>2, <2>3, <2>4, <2>5, <2>6, <2>7 DEF Next
<1>3. QED BY <1>1, <1>2, Invariance, PTL DEF Spec, LedgerSpec, Ledger!LedgerSpec
===============================================================================

---------------------------- MODULE Baskets_proofs ----------------------------
(* Theorems about Baskets, for any number of legs and lots, any legs that buy *)
(* and any execution modes.                                                   *)
EXTENDS Baskets, TLAPS

LEMMA Constants ==
  /\ Legs \in Nat /\ Legs >= 2 /\ Buys \subseteq Leg /\ Lots \in Nat \ {0}
  /\ Kinds \subseteq {"opening", "closing"} /\ LiveMode \subseteq Mode
  BY BasketAssumption, ModeAssumption DEF BasketAssumption, ModeAssumption, Leg

(* A leg has lots when its event is set, and when it counts as filled.        *)
FillsAreReal ==
  \A l \in Leg : l \in told \/ status[l] = "FILLED" => held[l] > 0

(* What is pending was never enqueued: a leg of the manager's, or a request.  *)
Refused(l) == request[l] \in {"rejected", "expired"}

Untouched == \A l \in Leg :
  \/ pc # "asked" /\ status[l] = "PENDING"
  \/ request[l] = "pending" \/ Refused(l)
  => order[l] = "none" /\ puts[l] = 0

(* The two paths exclude each other, and the manager waits for a leg.         *)
OnePath ==
  /\ pc \in {"put", "wait"} => cur \in Leg
  /\ pc # "asked" => \A l \in Leg : request[l] = "none"
  /\ pc = "called" => \A l \in Leg : status[l] = "PENDING"

InOrder ==
  pc # "asked" =>
    \A k, l \in Leg : order[l] # "none" /\ Precedes(k, l) => held[k] > 0

Once == \A l \in Leg :
  puts[l] <= 1 /\ (order[l] \in {"none", "putting"} => puts[l] = 0)

BasketInv == FillsAreReal /\ Untouched /\ OnePath /\ InOrder /\ Once

LEMMA InitInv == Init => TypeOK /\ BasketInv
  <1> SUFFICES ASSUME Init PROVE TypeOK /\ BasketInv
    OBVIOUS
  <1> USE Constants
  <1>1. ControlTypeOK
    <2>1. broker \in Venue
      BY DEF Init, BrokerClient, Venue
    <2>2. arming \in ArmState
      BY DEF Init, ArmState
    <2> QED BY <2>1, <2>2, Zenon DEF Init, ControlTypeOK, KillEvent
  <1>2. /\ status \in [Leg -> LegStatus] /\ order \in [Leg -> Place]
        /\ stamp \in [Leg -> Mode \union {"none"}] /\ held \in [Leg -> 0..Lots]
        /\ request \in [Leg -> Request] /\ puts \in [Leg -> Nat]
    BY DEF Init, LegStatus, Place, Request
  <1>3. /\ kind \in {"opening", "closing"} /\ pc \in Point /\ cur \in 0..Legs
        /\ told \subseteq Leg /\ reversing \subseteq Leg
    BY DEF Init, Point
  <1>4. rolledBack \in BOOLEAN
    BY Zenon DEF Init
  <1>5. TypeOK
    BY <1>1, <1>2, <1>3, <1>4 DEF TypeOK
  <1>6. BasketInv
    BY DEF Init, BasketInv, FillsAreReal, Untouched, Refused, OnePath, InOrder, Once
  <1> QED BY <1>5, <1>6
-------------------------------------------------------------------------------
(* What enqueue does to a leg that it never saw.                              *)
Enqueue(l) == EnqueueDrops(l) \/ EnqueuePuts(l) \/ EnqueueWaits(l) \/ EnqueueRaises(l)

LEMMA Enqueued ==
  ASSUME TypeOK, NEW l \in Leg, order[l] = "none", puts[l] = 0, Enqueue(l)
  PROVE /\ order' \in [Leg -> Place] /\ puts' \in [Leg -> Nat]
        /\ stamp' \in [Leg -> Mode \union {"none"}]
        /\ \A k \in Leg \ {l} : order'[k] = order[k] /\ puts'[k] = puts[k]
        /\ puts'[l] <= 1 /\ (order'[l] \in {"none", "putting"} => puts'[l] = 0)
  <1>1. stamp' \in [Leg -> Mode \union {"none"}]
    BY DEF TypeOK, ControlTypeOK, Enqueue, EnqueueDrops, EnqueuePuts, EnqueueWaits,
       EnqueueRaises, Admitted
  <1>2. CASE EnqueueDrops(l)
    BY <1>1, <1>2 DEF TypeOK, EnqueueDrops, Place
  <1>3. CASE EnqueuePuts(l)
    BY <1>1, <1>3 DEF TypeOK, EnqueuePuts, Place
  <1>4. CASE EnqueueWaits(l)
    BY <1>1, <1>4 DEF TypeOK, EnqueueWaits, Place
  <1>5. CASE EnqueueRaises(l)
    BY <1>1, <1>5 DEF TypeOK, EnqueueRaises
  <1> QED BY <1>2, <1>3, <1>4, <1>5 DEF Enqueue

(* What a failure makes of the legs.                                          *)
LEMMA Failed ==
  ASSUME NEW l \in Leg, NEW before \in [Leg -> LegStatus], Fail(l, before)
  PROVE /\ status' \in [Leg -> LegStatus] /\ reversing' \subseteq Leg
        /\ rolledBack' \in BOOLEAN /\ pc' = "done"
        /\ \A k \in Leg : status'[k] # "FILLED"
        /\ \A k \in Leg : status'[k] = "PENDING" => before[k] = "PENDING" /\ k # l
  <1>1. reversing' \subseteq Leg /\ pc' = "done"
    BY DEF Fail
  <1>2. rolledBack' \in BOOLEAN
    BY Zenon DEF Fail
  <1>3. status' = [k \in Leg |-> IF k = l THEN "FAILED"
                                 ELSE IF before[k] = "FILLED" THEN "CANCELLED"
                                 ELSE before[k]]
    BY DEF Fail
  <1> QED BY <1>1, <1>2, <1>3 DEF LegStatus

(* The next leg is submitted.                                                 *)
LEMMA Submitted ==
  ASSUME TypeOK, BasketInv, pc # "asked",
         NEW l \in Leg, NEW before \in [Leg -> LegStatus], SubmitLeg(l, before),
         \A k \in Leg : before[k] = "PENDING" => status[k] = "PENDING",
         \A k \in Leg : before[k] = "FILLED" => held[k] > 0,
         UNCHANGED <<controlVars, kind, told, held, request>>
  PROVE TypeOK' /\ BasketInv'
  <1> USE Constants
  <1>1. status[l] = "PENDING" /\ order[l] = "none" /\ puts[l] = 0
    BY DEF SubmitLeg, BasketInv, Untouched
  <1>2. Enqueue(l)
    BY DEF SubmitLeg, Enqueue
  <1>3. /\ order' \in [Leg -> Place] /\ puts' \in [Leg -> Nat]
        /\ stamp' \in [Leg -> Mode \union {"none"}]
        /\ \A k \in Leg \ {l} : order'[k] = order[k] /\ puts'[k] = puts[k]
        /\ puts'[l] <= 1 /\ (order'[l] \in {"none", "putting"} => puts'[l] = 0)
    BY <1>1, <1>2, Enqueued
  <1>4. /\ status' \in [Leg -> LegStatus] /\ reversing' \subseteq Leg
        /\ rolledBack' \in BOOLEAN /\ pc' \in {"put", "wait", "done"}
        /\ \A k \in Leg : status'[k] = "FILLED" => before[k] = "FILLED"
        /\ \A k \in Leg : status'[k] = "PENDING" => before[k] = "PENDING" /\ k # l
    <2>1. CASE Fail(l, before)
      BY <2>1, Failed
    <2>2. CASE /\ status' = [before EXCEPT ![l] = StatusOnEnqueue]
               /\ pc' \in {"put", "wait"} /\ UNCHANGED <<reversing, rolledBack>>
      BY <2>2 DEF TypeOK, StatusOnEnqueue, LegStatus
    <2> QED BY <2>1, <2>2 DEF SubmitLeg
  <1>5. cur' \in 0..Legs
    BY DEF SubmitLeg, Leg
  <1>6. TypeOK'
    BY <1>3, <1>4, <1>5 DEF TypeOK, ControlTypeOK, controlVars, Point
  <1>7. FillsAreReal'
    BY <1>4 DEF BasketInv, FillsAreReal
  <1>8. OnePath'
    BY <1>4 DEF BasketInv, OnePath, SubmitLeg
  <1>9. Untouched'
    <2>1. \A k \in Leg : request[k] = "none"
      BY DEF BasketInv, OnePath
    <2> QED BY <1>3, <1>4, <2>1 DEF BasketInv, Untouched, Refused
  <1>10. InOrder'
    <2>1. \A k \in Leg : Precedes(k, l) => held[k] > 0
      BY DEF SubmitLeg
    <2> QED BY <1>3, <2>1 DEF BasketInv, InOrder, Precedes
  <1>11. Once'
    BY <1>3 DEF BasketInv, Once
  <1> QED BY <1>6, <1>7, <1>8, <1>9, <1>10, <1>11 DEF BasketInv
-------------------------------------------------------------------------------
LEMMA SubmitDirectKeeps ==
  ASSUME TypeOK, BasketInv, SubmitDirect PROVE TypeOK' /\ BasketInv'
  <1>1. PICK l \in Leg : SubmitLeg(l, status)
    BY DEF SubmitDirect
  <1>2. status \in [Leg -> LegStatus] /\ \A k \in Leg : status[k] = "FILLED" => held[k] > 0
    BY DEF TypeOK, BasketInv, FillsAreReal
  <1> QED BY <1>1, <1>2, Submitted DEF SubmitDirect

LEMMA LegFilledKeeps ==
  ASSUME TypeOK, BasketInv, LegFilled PROVE TypeOK' /\ BasketInv'
  <1> DEFINE after == [status EXCEPT ![cur] = "FILLED"]
  <1>1. after \in [Leg -> LegStatus] /\ cur \in Leg /\ held[cur] > 0
    BY DEF TypeOK, LegFilled, LegStatus, BasketInv, FillsAreReal
  <1>2. \A k \in Leg : after[k] = "PENDING" => status[k] = "PENDING"
    BY <1>1 DEF TypeOK
  <1>3. \A k \in Leg : after[k] = "FILLED" => held[k] > 0
    BY <1>1 DEF TypeOK, BasketInv, FillsAreReal
  <1>4. CASE /\ \A l \in Leg : after[l] = "FILLED"
             /\ status' = after /\ pc' = "done"
             /\ UNCHANGED <<cur, order, stamp, puts, reversing, rolledBack>>
    <2>1. TypeOK'
      BY <1>1, <1>4 DEF TypeOK, ControlTypeOK, controlVars, LegFilled, Point
    <2>2. FillsAreReal' /\ OnePath' /\ InOrder' /\ Once'
      BY <1>3, <1>4 DEF LegFilled, BasketInv, FillsAreReal, OnePath, InOrder, Once, Precedes
    <2>3. Untouched'
      BY <1>4 DEF LegFilled, BasketInv, Untouched, OnePath, Refused
    <2> QED BY <2>1, <2>2, <2>3 DEF BasketInv
  <1>5. ASSUME NEW l \in Leg, SubmitLeg(l, after) PROVE TypeOK' /\ BasketInv'
    BY <1>1, <1>2, <1>3, <1>5, Submitted DEF LegFilled
  <1> QED BY <1>4, <1>5 DEF LegFilled

LEMMA LegTimesOutKeeps ==
  ASSUME TypeOK, BasketInv, LegTimesOut PROVE TypeOK' /\ BasketInv'
  <1> USE Constants
  <1>1. cur \in Leg
    BY DEF LegTimesOut, BasketInv, OnePath
  <1>2. /\ status' \in [Leg -> LegStatus] /\ reversing' \subseteq Leg
        /\ rolledBack' \in BOOLEAN /\ pc' = "done"
        /\ \A k \in Leg : status'[k] # "FILLED"
        /\ \A k \in Leg : status'[k] = "PENDING" => status[k] = "PENDING"
    BY <1>1, Failed DEF LegTimesOut, TypeOK
  <1>3. TypeOK'
    BY <1>2 DEF TypeOK, ControlTypeOK, controlVars, LegTimesOut, Point
  <1> QED BY <1>2, <1>3 DEF LegTimesOut, BasketInv, FillsAreReal, Untouched, Refused,
        OnePath, InOrder, Once, Precedes

LEMMA CancelKeeps ==
  ASSUME TypeOK, BasketInv, Cancel PROVE TypeOK' /\ BasketInv'
  <1>1. cur \in Leg /\ pc # "asked"
    BY DEF Cancel, BasketInv, OnePath
  <1>2. /\ order' \in [Leg -> Place]
        /\ \A k \in Leg : order'[k] = order[k]
                          \/ (order[k] = "putting" /\ order'[k] = "dropped")
    BY <1>1 DEF Cancel, TypeOK, Place
  <1>3. TypeOK'
    BY <1>2 DEF Cancel, TypeOK, ControlTypeOK, controlVars, Point
  <1>4. FillsAreReal' /\ OnePath'
    BY <1>1 DEF Cancel, BasketInv, FillsAreReal, OnePath
  <1>5. Untouched' /\ InOrder' /\ Once'
    BY <1>1, <1>2 DEF Cancel, BasketInv, Untouched, Refused, InOrder, Once, Precedes
  <1> QED BY <1>3, <1>4, <1>5 DEF BasketInv

(* A put that waited for room goes on.                                        *)
LEMMA PutResumesKeeps ==
  ASSUME TypeOK, BasketInv, NEW l \in Leg, PutResumes(l) PROVE TypeOK' /\ BasketInv'
  <1>1. /\ order' \in [Leg -> Place] /\ puts' \in [Leg -> Nat]
        /\ order[l] = "putting" /\ order'[l] = "queued"
        /\ puts[l] = 0 /\ puts'[l] = 1
        /\ \A k \in Leg \ {l} : order'[k] = order[k] /\ puts'[k] = puts[k]
    BY DEF PutResumes, TypeOK, Place, BasketInv, Once
  <1>2. pc' \in Point /\ (pc' = pc \/ (pc = "put" /\ pc' = "wait"))
    BY DEF PutResumes, TypeOK, Point
  <1>3. TypeOK'
    BY <1>1, <1>2 DEF PutResumes, TypeOK, ControlTypeOK, controlVars
  <1>4. FillsAreReal'
    BY DEF PutResumes, BasketInv, FillsAreReal
  <1>5. OnePath'
    BY <1>2 DEF PutResumes, BasketInv, OnePath
  <1>6. Untouched' /\ InOrder' /\ Once'
    BY <1>1, <1>2 DEF PutResumes, BasketInv, Untouched, Refused, InOrder, Once, Precedes
  <1> QED BY <1>3, <1>4, <1>5, <1>6 DEF BasketInv

(* The approval gate.                                                         *)
LEMMA ApprovalKeeps ==
  ASSUME TypeOK, BasketInv,
         \/ AskApproval
         \/ \E l \in Leg : ApproveOrder(l)
         \/ \E l \in Leg, verdict \in {"rejected", "expired"} : Refuse(l, verdict)
  PROVE TypeOK' /\ BasketInv'
  <1>1. CASE AskApproval
    <2>1. request' \in [Leg -> Request]
      BY <1>1 DEF AskApproval, Request
    <2>2. TypeOK'
      BY <1>1, <2>1 DEF AskApproval, TypeOK, ControlTypeOK, controlVars, Point
    <2> QED BY <1>1, <2>2 DEF AskApproval, BasketInv, FillsAreReal, Untouched, OnePath,
          InOrder, Once
  <1>2. ASSUME NEW l \in Leg, ApproveOrder(l) PROVE TypeOK' /\ BasketInv'
    <2>1. Enqueue(l) /\ request[l] = "pending" /\ pc = "asked" /\ pc' = pc
      BY <1>2 DEF ApproveOrder, Enqueue, IsPending, BasketInv, OnePath
    <2>2. /\ order' \in [Leg -> Place] /\ puts' \in [Leg -> Nat]
          /\ stamp' \in [Leg -> Mode \union {"none"}]
          /\ \A k \in Leg \ {l} : order'[k] = order[k] /\ puts'[k] = puts[k]
          /\ puts'[l] <= 1 /\ (order'[l] \in {"none", "putting"} => puts'[l] = 0)
      BY <2>1, Enqueued DEF BasketInv, Untouched
    <2>3. /\ request' \in [Leg -> Request] /\ request'[l] = "approved"
          /\ \A k \in Leg \ {l} : request'[k] = request[k]
      BY <1>2 DEF ApproveOrder, TakeRequest, TypeOK, Request
    <2>4. TypeOK'
      BY <1>2, <2>2, <2>3 DEF ApproveOrder, TypeOK, ControlTypeOK, controlVars
    <2>5. FillsAreReal' /\ OnePath' /\ InOrder'
      BY <1>2, <2>1 DEF ApproveOrder, BasketInv, FillsAreReal, OnePath, InOrder
    <2>6. Untouched' /\ Once'
      BY <2>1, <2>2, <2>3 DEF BasketInv, Untouched, Refused, Once
    <2> QED BY <2>4, <2>5, <2>6 DEF BasketInv
  <1>3. ASSUME NEW l \in Leg, NEW verdict \in {"rejected", "expired"}, Refuse(l, verdict)
        PROVE TypeOK' /\ BasketInv'
    <2>1. /\ request[l] = "pending" /\ request' \in [Leg -> Request]
          /\ \A k \in Leg \ {l} : request'[k] = request[k]
      BY <1>3 DEF Refuse, IsPending, TypeOK, Request
    <2>2. TypeOK'
      BY <1>3, <2>1 DEF Refuse, TypeOK, ControlTypeOK, controlVars
    <2>3. pc = "asked"
      BY <2>1 DEF BasketInv, OnePath
    <2>4. FillsAreReal' /\ OnePath' /\ InOrder' /\ Once'
      BY <1>3, <2>3 DEF Refuse, BasketInv, FillsAreReal, OnePath, InOrder, Once
    <2>5. Untouched'
      BY <1>3, <2>1, <2>3 DEF Refuse, BasketInv, Untouched, Refused
    <2> QED BY <2>2, <2>4, <2>5 DEF BasketInv
  <1> QED BY <1>1, <1>2, <1>3

(* The scheduler and the broker.                                              *)
LEMMA SchedulerKeeps ==
  ASSUME TypeOK, BasketInv, NEW l \in Leg,
         \/ WorkerSends(l) \/ WorkerRejects(l) \/ OrderEnds(l)
         \/ \E n \in 1..Lots : Fills(l, n)
  PROVE TypeOK' /\ BasketInv'
  <1> USE Constants
  <1>1. CASE WorkerSends(l) \/ WorkerRejects(l) \/ OrderEnds(l)
    <2>1. /\ order' \in [Leg -> Place] /\ UNCHANGED <<told, held>> /\ SchedulerStep(l)
          /\ order[l] \in {"queued", "sent"} /\ order'[l] \notin {"none", "putting"}
          /\ \A k \in Leg \ {l} : order'[k] = order[k]
      BY <1>1 DEF WorkerSends, WorkerRejects, OrderEnds, TypeOK, Place
    <2>2. TypeOK'
      BY <2>1 DEF SchedulerStep, TypeOK, ControlTypeOK, controlVars
    <2>3. FillsAreReal' /\ OnePath'
      BY <2>1 DEF SchedulerStep, BasketInv, FillsAreReal, OnePath
    <2>4. Untouched' /\ InOrder' /\ Once'
      BY <2>1 DEF SchedulerStep, BasketInv, Untouched, Refused, InOrder, Once, Precedes
    <2> QED BY <2>2, <2>3, <2>4 DEF BasketInv
  <1>2. ASSUME NEW n \in 1..Lots, Fills(l, n) PROVE TypeOK' /\ BasketInv'
    <2>1. /\ held' \in [Leg -> 0..Lots] /\ held'[l] > 0
          /\ \A k \in Leg \ {l} : held'[k] = held[k]
      BY <1>2 DEF Fills, Unfilled, TypeOK
    <2>2. told' \subseteq Leg /\ told' \subseteq told \union {l}
      BY <1>2 DEF Fills, TypeOK
    <2>3. UNCHANGED order /\ SchedulerStep(l)
      BY <1>2 DEF Fills
    <2>4. TypeOK'
      BY <2>1, <2>2, <2>3 DEF SchedulerStep, TypeOK, ControlTypeOK, controlVars
    <2>5. FillsAreReal' /\ InOrder'
      BY <2>1, <2>2, <2>3 DEF SchedulerStep, BasketInv, FillsAreReal, InOrder, Precedes
    <2>6. OnePath' /\ Untouched' /\ Once'
      BY <2>3 DEF SchedulerStep, BasketInv, OnePath, Untouched, Refused, Once
    <2> QED BY <2>4, <2>5, <2>6 DEF BasketInv
  <1> QED BY <1>1, <1>2

LEMMA OperateKeeps ==
  ASSUME TypeOK, BasketInv, Operate PROVE TypeOK' /\ BasketInv'
  <1>1. ControlTypeOK'
    <2>1. ASSUME NEW m \in Mode, SetExecutionMode(m) PROVE ControlTypeOK'
      BY <2>1 DEF SetExecutionMode, TypeOK, ControlTypeOK, BrokerClient, Venue, ArmState
    <2>2. ASSUME NEW active \in BOOLEAN, SetKillSwitch(active, TRUE) PROVE ControlTypeOK'
      <3>1. arming' \in ArmState
        BY <2>2 DEF SetKillSwitch, TypeOK, ControlTypeOK, ArmState
      <3>2. killEvent' \in KillEvent
        BY <2>2 DEF SetKillSwitch, KillEvent
      <3>3. kill' \in BOOLEAN /\ commanded' \in BOOLEAN /\ auditLost' \in BOOLEAN
        BY <2>2, Zenon DEF SetKillSwitch
      <3> QED BY <2>2, <3>1, <3>2, <3>3 DEF SetKillSwitch, TypeOK, ControlTypeOK
    <2> QED BY <2>1, <2>2 DEF Operate
  <1> QED BY <1>1 DEF Operate, TypeOK, legVars, BasketInv, FillsAreReal, Untouched, Refused,
        OnePath, InOrder, Once, Precedes

LEMMA Step == TypeOK /\ BasketInv /\ [Next]_vars => TypeOK' /\ BasketInv'
  <1> SUFFICES ASSUME TypeOK, BasketInv, [Next]_vars PROVE TypeOK' /\ BasketInv'
    OBVIOUS
  <1>1. CASE SubmitDirect \/ LegFilled \/ LegTimesOut \/ Cancel
    BY <1>1, SubmitDirectKeeps, LegFilledKeeps, LegTimesOutKeeps, CancelKeeps
  <1>2. CASE \/ AskApproval \/ \E l \in Leg : ApproveOrder(l)
             \/ \E l \in Leg, verdict \in {"rejected", "expired"} : Refuse(l, verdict)
    BY <1>2, ApprovalKeeps
  <1>3. CASE \E l \in Leg : PutResumes(l)
    BY <1>3, PutResumesKeeps
  <1>4. CASE \E l \in Leg : \/ WorkerSends(l) \/ WorkerRejects(l) \/ OrderEnds(l)
                            \/ \E n \in 1..Lots : Fills(l, n)
    BY <1>4, SchedulerKeeps
  <1>5. CASE Operate
    BY <1>5, OperateKeeps
  <1>6. CASE UNCHANGED vars
    BY <1>6 DEF vars, legVars, controlVars, TypeOK, ControlTypeOK, BasketInv, FillsAreReal,
       Untouched, Refused, OnePath, InOrder, Once, Precedes
  <1> QED BY <1>1, <1>2, <1>3, <1>4, <1>5, <1>6 DEF Next

(* A refused request is out of reach of every action.                         *)
LEMMA RefusalStep ==
  ASSUME TypeOK, BasketInv, [Next]_vars, NEW l \in Leg, Refused(l)
  PROVE request'[l] = request[l] /\ order'[l] = order[l]
  <1>1. request[l] # "none" /\ request[l] # "pending" /\ order[l] = "none" /\ pc = "asked"
    BY DEF Refused, BasketInv, Untouched, OnePath
  <1>2. CASE SubmitDirect \/ LegFilled \/ LegTimesOut \/ Cancel \/ AskApproval
    BY <1>1, <1>2 DEF SubmitDirect, LegFilled, LegTimesOut, Cancel, AskApproval
  <1>3. ASSUME NEW k \in Leg, PutResumes(k) \/ WorkerSends(k) \/ WorkerRejects(k)
                              \/ OrderEnds(k) \/ \E n \in 1..Lots : Fills(k, n)
        PROVE request'[l] = request[l] /\ order'[l] = order[l]
    BY <1>1, <1>3 DEF PutResumes, WorkerSends, WorkerRejects, OrderEnds, Fills,
       SchedulerStep, TypeOK
  <1>4. ASSUME NEW k \in Leg, ApproveOrder(k)
        PROVE request'[l] = request[l] /\ order'[l] = order[l]
    BY <1>1, <1>4 DEF ApproveOrder, IsPending, TakeRequest, EnqueueDrops, EnqueuePuts,
       EnqueueWaits, EnqueueRaises, TypeOK
  <1>5. ASSUME NEW k \in Leg, NEW verdict \in {"rejected", "expired"}, Refuse(k, verdict)
        PROVE request'[l] = request[l] /\ order'[l] = order[l]
    BY <1>1, <1>5 DEF Refuse, IsPending, TypeOK
  <1>6. CASE Operate \/ UNCHANGED vars
    BY <1>6 DEF Operate, vars, legVars
  <1> QED BY <1>2, <1>3, <1>4, <1>5, <1>6 DEF Next
-------------------------------------------------------------------------------
THEOREM Invariance == Spec => [](TypeOK /\ BasketInv)
  <1>1. TypeOK /\ BasketInv /\ [Next]_vars => (TypeOK /\ BasketInv)'
    BY Step
  <1> QED BY <1>1, InitInv, PTL DEF Spec

(* The basket, its legs, requests and orders keep their types.                *)
THEOREM TypeCorrect == Spec => []TypeOK
  BY Invariance, PTL

(* A leg counts as filled only when the ledger has lots of it (notify_fill,   *)
(* submit).                                                                   *)
THEOREM FilledIsTraded == Spec => []FilledByTrade
  <1>1. BasketInv => FilledByTrade
    BY DEF BasketInv, FillsAreReal, FilledByTrade
  <1> QED BY <1>1, Invariance, PTL

(* No selling leg reaches the queue before every buying leg holds lots,       *)
(* whatever the order of the payload (submit_multi_leg).                      *)
THEOREM HedgeFirst == Spec => []SellsFollowBuys
  <1>1. BasketInv => SellsFollowBuys
    BY Constants DEF BasketInv, InOrder, SellsFollowBuys, Precedes
  <1> QED BY <1>1, Invariance, PTL

(* No leg enters the queue twice (approve, submit).                           *)
THEOREM EachQueuedOnce == Spec => []QueuedOnce
  <1>1. BasketInv => QueuedOnce
    BY DEF BasketInv, Once, QueuedOnce
  <1> QED BY <1>1, Invariance, PTL

(* A rejected or expired request stays so and its order is never sent         *)
(* (ManualApprovalGate).                                                      *)
RefusedStays ==
  \A l \in Leg : request[l] \in {"rejected", "expired"} =>
    request'[l] = request[l] /\ order'[l] = order[l]

THEOREM RefusedIsFinal == Spec => RefusalIsFinal
  <1>1. TypeOK /\ BasketInv /\ [Next]_vars => [RefusedStays]_vars
    BY RefusalStep DEF RefusedStays, Refused
  <1> QED BY <1>1, Invariance, PTL DEF Spec, RefusalIsFinal, RefusedStays
===============================================================================

--------------------------- MODULE ExitManager_proofs ---------------------------
(* Theorems about ExitManager, for every set of plans, modes and quantities.  *)
EXTENDS ExitManager, FiniteSetTheorems, TLAPS

(* What the constants are, and what they are not.                             *)
LEMMA Constants ==
  /\ StartMode \in Mode /\ Written \subseteq BOOLEAN /\ EntryQty \subseteq Nat \ {0}
  /\ MaxOut \in Nat /\ MaxRetries \in Nat /\ MaxRestarts \in Nat
  /\ NoPlan \notin PlanId
  /\ NoOrder \in Order /\ NoRow \in Row
  BY ExitAssumption DEF ExitAssumption, NoPlan, PlanId, NoOrder, Order, Trigger,
     NoRow, Row

(* Half of a plan of at least two lots.                                       *)
LEMMA HalfLots == ASSUME NEW n \in Int PROVE /\ n \div 2 \in Int
                                             /\ n >= 2 => n \div 2 \in Nat
  OBVIOUS

(* A filled part is of whole lots, and of at least one.                       *)
LEMMA PartLots == ASSUME NEW delta \in Int, NEW part \in Parts(delta)
                  PROVE part \in Int \ {0}
  BY DEF Parts

LEMMA InitInv == Init => TypeOK /\ OrderInv
  <1> SUFFICES ASSUME Init PROVE TypeOK /\ OrderInv
    OBVIOUS
  <1> USE Constants
  <1>1. TypeOK
    BY DEF Init, TypeOK, Trigger, Mishap
  <1>2. OrderInv
    BY DEF Init, OrderInv, Outstanding, Slot
  <1> QED BY <1>1, <1>2
-------------------------------------------------------------------------------
(* Type correctness, one lemma per group of actions.                          *)

(* The parts of the state that a poll of a plan changes.                      *)
LEMMA PollTyped ==
  ASSUME TypeOK, NEW p \in PlanId, Poll(p) PROVE TypeOK'
  <1> USE Constants
  <1>1. Retry(p) => retries' \in [PlanId -> Nat]
    BY DEF Retry, TypeOK
  <1>2. ASSUME NEW trigger \in Trigger, Hit(p, trigger), BookTrigger(p, trigger)
        PROVE partialQty' \in [PlanId -> Nat]
    <2>1. CASE trigger = "PARTIAL_TARGET"
      <3>1. quantity[p] \in Int /\ quantity[p] >= 2
        BY <1>2, <2>1 DEF Hit, TypeOK
      <3>2. quantity[p] \div 2 \in Nat
        BY <3>1, HalfLots
      <3> QED BY <1>2, <2>1, <3>2 DEF BookTrigger, TypeOK
    <2>2. CASE trigger # "PARTIAL_TARGET"
      BY <1>2, <2>2 DEF BookTrigger, TypeOK
    <2> QED BY <2>1, <2>2
  <1>3. ASSUME NEW trigger \in Trigger, NEW s \in Slot, Emit(p, trigger, s)
        PROVE TypeOK'
    <2>1. ExitDelta(p, trigger) \in Int
      BY HalfLots DEF ExitDelta, TypeOK
    <2>2. [plan |-> p, trigger |-> trigger, delta |-> ExitDelta(p, trigger)] \in Order
      BY <2>1 DEF Order
    <2>3. out' \in [Slot -> Order]
      BY <1>3, <2>2 DEF Emit, TypeOK
    <2>4. retries' \in [PlanId -> Nat] /\ partialQty' \in [PlanId -> Nat]
      BY <1>1, <1>2, <1>3 DEF Emit
    <2>5. pending' \in [PlanId -> Trigger \union {"none"}]
      BY <1>3 DEF Emit, TypeOK
    <2>6. mishaps' \subseteq Mishap
      BY <1>3 DEF Emit, TypeOK, Happened, Mishap
    <2> QED BY <1>3, <2>3, <2>4, <2>5, <2>6 DEF Emit, TypeOK, dbVars
  <1>4. ASSUME NEW trigger \in Trigger, NEW dropped \in BOOLEAN,
               EmitFails(p, trigger, dropped)
        PROVE TypeOK'
    <2>1. retries' \in [PlanId -> Nat] /\ partialQty' \in [PlanId -> Nat]
      BY <1>1, <1>2, <1>4 DEF EmitFails
    <2>2. pending' \in [PlanId -> Trigger \union {"none"}]
      BY <1>4 DEF EmitFails, TypeOK
    <2> QED BY <1>4, <2>1, <2>2 DEF EmitFails, TypeOK, dbVars
  <1>5. ASSUME NEW trigger \in Trigger, MonitorFlat(p, trigger) PROVE TypeOK'
    <2>1. partialQty' \in [PlanId -> Nat]
      BY <1>2, <1>5 DEF MonitorFlat
    <2>2. retries' \in [PlanId -> Nat]
      BY <1>5 DEF MonitorFlat, TypeOK
    <2>3. pending' \in [PlanId -> Trigger \union {"none"}]
      BY <1>5 DEF MonitorFlat, TypeOK
    <2>4. mishaps' \subseteq Mishap
      BY <1>5 DEF MonitorFlat, TypeOK, Happened, Mishap
    <2> QED BY <1>5, <2>1, <2>2, <2>3, <2>4 DEF MonitorFlat, TypeOK, dbVars
  <1>6. ASSUME Unhit(p) PROVE TypeOK'
    <2>1. retries' \in [PlanId -> Nat]
      BY <1>1, <1>6 DEF Unhit
    <2>2. pending' \in [PlanId -> Trigger \union {"none"}]
      BY <1>6 DEF Unhit, TypeOK
    <2> QED BY <1>6, <2>1, <2>2 DEF Unhit, TypeOK, dbVars
  <1> QED BY <1>3, <1>4, <1>5, <1>6 DEF Poll

(* A fill of an exit, with the rows it leaves.                                *)
LEMMA FillTyped ==
  ASSUME TypeOK, NEW s \in Slot, NEW part \in Parts(out[s].delta),
         NEW ok \in Written, NEW others \in BOOLEAN, ExitFills(s, part, ok, others)
  PROVE TypeOK'
  <1> USE Constants
  <1>1. out[s] \in Order /\ out[s].delta \in Int
    BY DEF TypeOK, Order
  <1>2. held' \in Int
    BY <1>1, PartLots DEF ExitFills, TypeOK
  <1>3. quantity' \in [PlanId -> Int]
    BY DEF ExitFills, OnExitFill, TypeOK
  <1>4. plans' \subseteq PlanId
    BY DEF ExitFills, OnExitFill, TypeOK
  <1>5. /\ pending' \in [PlanId -> Trigger \union {"none"}]
        /\ retries' \in [PlanId -> Nat]
        /\ partialQty' \in [PlanId -> Nat]
    BY DEF ExitFills, OnExitFill, TypeOK
  <1>6. row' \in [PlanId -> Row]
    <2>1. WithoutRowsOf(mode) \in [PlanId -> Row]
      BY DEF WithoutRowsOf, TypeOK
    <2>2. \A p \in PlanId : SavedRow(p, quantity'[p]) \in Row
      BY <1>3 DEF SavedRow, TypeOK, Row
    <2> QED BY <2>1, <2>2 DEF ExitFills, StoreExit, TypeOK
  <1>7. saving' \subseteq Mode
    BY DEF ExitFills, StoreExit, TypeOK
  <1>8. out' \in [Slot -> Order]
    BY DEF ExitFills, TypeOK
  <1>9. mishaps' \subseteq Mishap
    BY DEF ExitFills, TypeOK, Happened, Mishap
  <1> QED BY <1>2, <1>3, <1>4, <1>5, <1>6, <1>7, <1>8, <1>9 DEF ExitFills, TypeOK

(* A restart, with a restore or with the restore deferred.                    *)
LEMMA RestartTyped ==
  ASSUME TypeOK, (\E known \in BOOLEAN : Restart(known)) \/ RestartDeferred
  PROVE TypeOK'
  <1> USE Constants
  <1>1. ASSUME Stop
        PROVE /\ mode' \in Mode /\ restarts' \in 0..MaxRestarts
              /\ partialQty' \in [PlanId -> Nat]
              /\ pending' \in [PlanId -> Trigger \union {"none"}]
              /\ retries' \in [PlanId -> Nat]
              /\ out' \in [Slot -> Order] /\ saving' \subseteq Mode
    BY <1>1 DEF Stop, TypeOK
  <1>2. Stale \subseteq Mishap
    BY DEF Stale, Happened, Mishap
  <1>3. ASSUME NEW known \in BOOLEAN, Restart(known) PROVE TypeOK'
    <2>1. Restored(known) \in Int
      BY DEF Restored, TypeOK
    <2>2. WithoutRowsOf(StartMode) \in [PlanId -> Row]
      BY DEF WithoutRowsOf, TypeOK
    <2>3. RestoredRows(known) \in [PlanId -> Row]
      BY <2>1, <2>2 DEF RestoredRows, TypeOK, Row
    <2>4. RestoredPlans(known) \subseteq PlanId /\ Rearm \in PlanId
      BY DEF RestoredPlans, PlanId
    <2>5. held' \in Int /\ plans' \subseteq PlanId /\ row' \in [PlanId -> Row]
      BY <1>3, <2>1, <2>2, <2>3, <2>4 DEF Restart
    <2>6. quantity' \in [PlanId -> Int]
      BY <1>3, <2>3 DEF Restart, TypeOK, Row
    <2>7. settled' \in Nat
      BY <1>3 DEF Restart, TypeOK
    <2>8. mishaps' \subseteq Mishap
      BY <1>2, <1>3 DEF Restart, TypeOK
    <2> QED BY <1>1, <1>3, <2>5, <2>6, <2>7, <2>8 DEF Restart, TypeOK
  <1>4. ASSUME RestartDeferred PROVE TypeOK'
    <2>1. mishaps' \subseteq Mishap
      BY <1>2, <1>4 DEF RestartDeferred, TypeOK, Mishap
    <2> QED BY <1>1, <1>4, <2>1 DEF RestartDeferred, TypeOK
  <1> QED BY <1>3, <1>4

LEMMA TypeStep == TypeOK /\ [Next]_vars => TypeOK'
  <1> SUFFICES ASSUME TypeOK, [Next]_vars PROVE TypeOK'
    OBVIOUS
  <1> USE Constants
  <1>1. ASSUME NEW p \in Plan, NEW q \in EntryQty, NEW ok \in Written, EntryFill(p, q, ok)
        PROVE TypeOK'
    <2>1. p \in PlanId /\ q \in Int
      BY DEF PlanId
    <2>2. SavedRow(p, q) \in Row
      BY <2>1 DEF SavedRow, TypeOK, Row
    <2>3. row' \in [PlanId -> Row] /\ quantity' \in [PlanId -> Int] /\ held' \in Int
      BY <1>1, <2>1, <2>2 DEF EntryFill, TypeOK
    <2>4. mishaps' \subseteq Mishap /\ plans' \subseteq PlanId /\ saving' \subseteq Mode
      BY <1>1, <2>1 DEF EntryFill, TypeOK, Happened, Mishap
    <2> QED BY <1>1, <2>3, <2>4 DEF EntryFill, TypeOK
  <1>2. ASSUME NEW s \in Slot, ExitDies(s) PROVE TypeOK'
    BY <1>2 DEF ExitDies, TypeOK, planVars, dbVars
  <1>3. ASSUME NEW s \in Slot, SquareOff(s) PROVE TypeOK'
    <2>1. [plan |-> NoPlan, trigger |-> "FULL", delta |-> -held] \in Order
      BY DEF Order, Trigger, TypeOK
    <2>2. out' \in [Slot -> Order]
      BY <1>3, <2>1 DEF SquareOff, TypeOK
    <2>3. mishaps' \subseteq Mishap
      BY <1>3 DEF SquareOff, TypeOK, Happened, Mishap
    <2> QED BY <1>3, <2>2, <2>3 DEF SquareOff, TypeOK, planVars, dbVars
  <1>4. ASSUME NEW m \in Mode, NEW ok \in Written, SavePositions(m, ok) PROVE TypeOK'
    <2>1. mishaps' \subseteq Mishap
      BY <1>4 DEF SavePositions, TypeOK, Happened, Mishap
    <2> QED BY <1>4, <2>1 DEF SavePositions, TypeOK, planVars
  <1>5. ASSUME NEW m \in Mode, SwitchMode(m) PROVE TypeOK'
    BY <1>5 DEF SwitchMode, TypeOK, Mishap, planVars, dbVars
  <1>6. CASE SaveSnapshot
    BY <1>6 DEF SaveSnapshot, TypeOK, planVars
  <1>7. CASE DayPasses
    BY <1>7 DEF DayPasses, TypeOK, planVars, dbVars
  <1>8. CASE UNCHANGED vars
    BY <1>8 DEF vars, TypeOK, planVars, dbVars
  <1> QED BY <1>1, <1>2, <1>3, <1>4, <1>5, <1>6, <1>7, <1>8, PollTyped, FillTyped,
             RestartTyped DEF Next, Fate
-------------------------------------------------------------------------------
(* OrderInv: outstanding exits are of different registered plans.             *)

(* A step that adds no order, drops no plan and forgets no overlap keeps it.  *)
LEMMA OrderFrame ==
  ASSUME OrderInv, plans \subseteq plans', mishaps \subseteq mishaps',
         \A s \in Slot : out'[s] \in {out[s], NoOrder}
  PROVE OrderInv'
  BY DEF OrderInv, Outstanding

(* A new order of plan o.plan, when no other of the same lots is outstanding. *)
LEMMA OrderAdded ==
  ASSUME TypeOK, OrderInv, NEW o \in Order, NEW s \in Slot, NextSlot(s),
         out' = [out EXCEPT ![s] = o], plans' = plans, mishaps \subseteq mishaps',
         "overlap" \notin mishaps' =>
           \/ o.plan \in plans /\ SameLots(o.plan) = {}
           \/ o.plan = NoPlan /\ Outstanding = {}
  PROVE OrderInv'
  <1> SUFFICES ASSUME "overlap" \notin mishaps'
               PROVE /\ \A t \in Outstanding' : out'[t].plan \in plans' \union {NoPlan}
                     /\ \A t, u \in Outstanding' : t # u =>
                          out'[t].plan # out'[u].plan /\ out'[t].plan # NoPlan
    BY DEF OrderInv
  <1>1. /\ \A t \in Outstanding : out[t].plan \in plans \union {NoPlan}
        /\ \A t, u \in Outstanding :
             t # u => out[t].plan # out[u].plan /\ out[t].plan # NoPlan
    BY DEF OrderInv
  <1>2. out'[s] = o /\ \A t \in Slot \ {s} : out'[t] = out[t]
    BY DEF TypeOK
  <1>3. Outstanding' \subseteq Outstanding \union {s} /\ Outstanding' \subseteq Slot
        /\ s \notin Outstanding
    BY <1>2 DEF Outstanding, NextSlot
  <1>4. CASE o.plan \in plans /\ SameLots(o.plan) = {}
    <2>1. o.plan # NoPlan
      BY <1>4, Constants DEF TypeOK
    <2>2. \A t \in Outstanding : out[t].plan # o.plan /\ out[t].plan # NoPlan
      BY <1>4 DEF SameLots
    <2> QED BY <1>1, <1>2, <1>3, <1>4, <2>1, <2>2
  <1>5. CASE o.plan = NoPlan /\ Outstanding = {}
    BY <1>2, <1>3, <1>5
  <1> QED BY <1>4, <1>5

LEMMA OrderStep == TypeOK /\ OrderInv /\ [Next]_vars => OrderInv'
  <1> SUFFICES ASSUME TypeOK, OrderInv, [Next]_vars PROVE OrderInv'
    OBVIOUS
  <1>1. ASSUME NEW p \in PlanId, NEW trigger \in Trigger, NEW s \in Slot,
               Emit(p, trigger, s)
        PROVE OrderInv'
    <2> DEFINE o == [plan |-> p, trigger |-> trigger, delta |-> ExitDelta(p, trigger)]
    <2>1. o \in Order
      BY HalfLots DEF ExitDelta, Order, TypeOK
    <2>2. NextSlot(s) /\ out' = [out EXCEPT ![s] = o] /\ plans' = plans /\ p \in plans
      BY <1>1 DEF Emit, Due
    <2>3. mishaps \subseteq mishaps' /\ ("overlap" \notin mishaps' => SameLots(p) = {})
      BY <1>1 DEF Emit, Happened
    <2>4. o.plan = p
      OBVIOUS
    <2> HIDE DEF o
    <2> QED BY <2>1, <2>2, <2>3, <2>4, OrderAdded
  <1>2. ASSUME NEW s \in Slot, SquareOff(s) PROVE OrderInv'
    <2> DEFINE o == [plan |-> NoPlan, trigger |-> "FULL", delta |-> -held]
    <2>1. o \in Order /\ o.plan = NoPlan
      BY DEF Order, Trigger, TypeOK
    <2>2. NextSlot(s) /\ out' = [out EXCEPT ![s] = o] /\ plans' = plans
      BY <1>2 DEF SquareOff, planVars
    <2>3. mishaps \subseteq mishaps' /\ ("overlap" \notin mishaps' => Outstanding = {})
      BY <1>2 DEF SquareOff, Happened
    <2> HIDE DEF o
    <2> QED BY <2>1, <2>2, <2>3, OrderAdded
  <1>3. ASSUME NEW p \in PlanId, NEW trigger \in Trigger, MonitorFlat(p, trigger)
        PROVE OrderInv'
    <2>1. out' = out /\ plans' = plans \ {p} /\ mishaps \subseteq mishaps'
          /\ ("overlap" \notin mishaps' => SameLots(p) = {})
      BY <1>3 DEF MonitorFlat, Happened
    <2> QED BY <2>1 DEF OrderInv, Outstanding, SameLots
  <1>4. ASSUME NEW s \in Slot, NEW part \in Parts(out[s].delta), NEW ok \in Written,
               NEW others \in BOOLEAN, ExitFills(s, part, ok, others)
        PROVE OrderInv'
    <2>1. /\ s \in Outstanding /\ out' = [out EXCEPT ![s] = NoOrder]
          /\ plans \ Targets(out[s]) \subseteq plans' /\ mishaps \subseteq mishaps'
      BY <1>4 DEF ExitFills, OnExitFill
    <2>2. Outstanding' \subseteq Outstanding \ {s}
          /\ \A t \in Outstanding' : out'[t] = out[t]
      BY <2>1 DEF Outstanding, TypeOK
    <2> SUFFICES ASSUME "overlap" \notin mishaps'
                 PROVE /\ \A t \in Outstanding' : out'[t].plan \in plans' \union {NoPlan}
                       /\ \A t, u \in Outstanding' : t # u =>
                            out'[t].plan # out'[u].plan /\ out'[t].plan # NoPlan
      BY DEF OrderInv
    <2>3. /\ \A t \in Outstanding : out[t].plan \in plans \union {NoPlan}
          /\ \A t, u \in Outstanding :
               t # u => out[t].plan # out[u].plan /\ out[t].plan # NoPlan
      BY <2>1 DEF OrderInv
    <2>4. ASSUME NEW t \in Outstanding' PROVE out'[t].plan \in plans'
      <3>1. t \in Outstanding /\ t # s /\ out'[t] = out[t]
        BY <2>2
      <3>2. /\ out[t].plan \in plans /\ out[s].plan \in plans
            /\ out[t].plan # out[s].plan
        BY <2>1, <2>3, <3>1
      <3>3. Targets(out[s]) = {out[s].plan}
        BY <3>2 DEF Targets
      <3> QED BY <2>1, <3>1, <3>2, <3>3
    <2> QED BY <2>2, <2>3, <2>4
  <1>5. ASSUME (\E known \in BOOLEAN : Restart(known)) \/ RestartDeferred
        PROVE OrderInv'
    <2>1. \A s \in Slot : out'[s] = NoOrder
      BY <1>5 DEF Restart, RestartDeferred, Stop
    <2> QED BY <2>1 DEF OrderInv, Outstanding
  <1>6. ASSUME NEW p \in Plan, NEW q \in EntryQty, NEW ok \in Written, EntryFill(p, q, ok)
        PROVE OrderInv'
    BY <1>6, OrderFrame DEF EntryFill
  <1>7. ASSUME NEW s \in Slot, ExitDies(s) PROVE OrderInv'
    <2>1. out' = [out EXCEPT ![s] = NoOrder] /\ plans' = plans /\ mishaps' = mishaps
      BY <1>7 DEF ExitDies, planVars
    <2>2. \A t \in Slot : out'[t] \in {out[t], NoOrder}
      BY <2>1 DEF TypeOK
    <2> QED BY <2>1, <2>2, OrderFrame
  <1>8. ASSUME \/ \E p \in PlanId : Unhit(p)
               \/ \E p \in PlanId, trigger \in Trigger, dropped \in BOOLEAN :
                    EmitFails(p, trigger, dropped)
               \/ \E m \in Mode, ok \in Written : SavePositions(m, ok)
               \/ \E m \in Mode : SwitchMode(m)
               \/ SaveSnapshot \/ DayPasses \/ UNCHANGED vars
        PROVE OrderInv'
    <2>1. out' = out /\ plans' = plans /\ mishaps \subseteq mishaps'
      BY <1>8 DEF Unhit, EmitFails, SavePositions, SwitchMode, SaveSnapshot, DayPasses,
         vars, planVars
    <2> QED BY <2>1, OrderFrame
  <1> QED BY <1>1, <1>2, <1>3, <1>4, <1>5, <1>6, <1>7, <1>8 DEF Next, Poll, Fate
-------------------------------------------------------------------------------
(* Numbered lots: what the cardinality of ProtectedLots is after a plan is    *)
(* added, closed or reduced.                                                  *)

LotsOf(P, q) == UNION {{p} \X (1..q[p]) : p \in P}
LotsFrom(p, a, b) == {p} \X (a..b)

LEMMA LotsMember ==
  ASSUME NEW P, NEW q, NEW x
  PROVE x \in LotsOf(P, q) <=> \E p \in P : \E n \in 1..q[p] : x = <<p, n>>
  BY DEF LotsOf

LEMMA LotsCount ==
  ASSUME NEW p, NEW a \in Int, NEW b \in Int, a <= b + 1
  PROVE /\ IsFiniteSet(LotsFrom(p, a, b))
        /\ Cardinality(LotsFrom(p, a, b)) = b - a + 1
  <1> DEFINE N == a..b
  <1>1. IsFiniteSet({p}) /\ Cardinality({p}) = 1
    BY FS_Singleton
  <1>2. IsFiniteSet(N) /\ Cardinality(N) = b - a + 1
    BY FS_Interval
  <1> HIDE DEF N
  <1>3. /\ IsFiniteSet({p} \X N)
        /\ Cardinality({p} \X N) = Cardinality({p}) * Cardinality(N)
    BY <1>1, <1>2, FS_Product
  <1>4. Cardinality({p} \X N) = 1 * (b - a + 1)
    BY <1>1, <1>2, <1>3
  <1>5. 1 * (b - a + 1) = b - a + 1
    OBVIOUS
  <1> QED BY <1>3, <1>4, <1>5 DEF N, LotsFrom

(* A disjoint set is added, and a part is taken.                              *)
LEMMA CardinalityAdds ==
  ASSUME NEW S, NEW T, IsFiniteSet(S), IsFiniteSet(T), S \intersect T = {}
  PROVE IsFiniteSet(S \union T) /\ Cardinality(S \union T) = Cardinality(S) + Cardinality(T)
  <1>1. Cardinality(S) \in Nat /\ Cardinality(T) \in Nat
    BY FS_CardinalityType
  <1>2. Cardinality({}) = 0
    BY FS_EmptySet
  <1>3. /\ IsFiniteSet(S \union T)
        /\ Cardinality(S \union T)
             = Cardinality(S) + Cardinality(T) - Cardinality(S \intersect T)
    BY FS_Union
  <1>4. Cardinality(S \union T) = Cardinality(S) + Cardinality(T) - 0
    BY <1>2, <1>3
  <1> QED BY <1>1, <1>3, <1>4

LEMMA CardinalityTakes ==
  ASSUME NEW S, NEW T, IsFiniteSet(S), T \subseteq S
  PROVE /\ IsFiniteSet(T) /\ IsFiniteSet(S \ T)
        /\ Cardinality(S \ T) = Cardinality(S) - Cardinality(T)
        /\ Cardinality(T) <= Cardinality(S)
  <1>1. IsFiniteSet(T) /\ Cardinality(T) <= Cardinality(S)
    BY FS_Subset
  <1>2. S \intersect T = T
    OBVIOUS
  <1>3. /\ IsFiniteSet(S \ T)
        /\ Cardinality(S \ T) = Cardinality(S) - Cardinality(S \intersect T)
    BY FS_Difference
  <1> QED BY <1>1, <1>2, <1>3

LEMMA LotsAdded ==
  ASSUME NEW P, NEW q, NEW r, NEW p, p \notin P, r[p] \in Nat,
         \A x \in P : r[x] = q[x], IsFiniteSet(LotsOf(P, q))
  PROVE /\ IsFiniteSet(LotsOf(P \union {p}, r))
        /\ Cardinality(LotsOf(P \union {p}, r)) = Cardinality(LotsOf(P, q)) + r[p]
  <1>1. IsFiniteSet(LotsFrom(p, 1, r[p])) /\ Cardinality(LotsFrom(p, 1, r[p])) = r[p]
    BY LotsCount
  <1>2. LotsOf(P \union {p}, r) = LotsOf(P, q) \union LotsFrom(p, 1, r[p])
    BY DEF LotsOf, LotsFrom
  <1>3. LotsOf(P, q) \intersect LotsFrom(p, 1, r[p]) = {}
    BY LotsMember DEF LotsFrom
  <1> QED BY <1>1, <1>2, <1>3, CardinalityAdds

(* The lots of a plan from number a on are taken off it.                      *)
LEMMA LotsTaken ==
  ASSUME NEW P, NEW q, NEW p \in P, q[p] \in Nat, NEW a \in 1..q[p],
         IsFiniteSet(LotsOf(P, q))
  PROVE /\ IsFiniteSet(LotsOf(P, q) \ LotsFrom(p, a, q[p]))
        /\ Cardinality(LotsOf(P, q) \ LotsFrom(p, a, q[p]))
             = Cardinality(LotsOf(P, q)) - (q[p] - a + 1)
  <1>1. Cardinality(LotsFrom(p, a, q[p])) = q[p] - a + 1
    BY LotsCount
  <1>2. LotsFrom(p, a, q[p]) \subseteq LotsOf(P, q)
    BY LotsMember DEF LotsFrom
  <1> QED BY <1>1, <1>2, CardinalityTakes

LEMMA LotsClosed ==
  ASSUME NEW P, NEW q, NEW r, NEW p \in P, q[p] \in Nat \ {0},
         \A x \in P \ {p} : r[x] = q[x], IsFiniteSet(LotsOf(P, q))
  PROVE /\ IsFiniteSet(LotsOf(P \ {p}, r))
        /\ Cardinality(LotsOf(P \ {p}, r)) = Cardinality(LotsOf(P, q)) - q[p]
  <1>1. LotsOf(P \ {p}, r) = LotsOf(P, q) \ LotsFrom(p, 1, q[p])
    BY DEF LotsOf, LotsFrom
  <1>2. 1 \in 1..q[p]
    OBVIOUS
  <1>3. /\ IsFiniteSet(LotsOf(P, q) \ LotsFrom(p, 1, q[p]))
        /\ Cardinality(LotsOf(P, q) \ LotsFrom(p, 1, q[p]))
             = Cardinality(LotsOf(P, q)) - (q[p] - 1 + 1)
    BY <1>2, LotsTaken
  <1>4. q[p] - 1 + 1 = q[p]
    OBVIOUS
  <1> QED BY <1>1, <1>3, <1>4, Zenon

LEMMA LotsReduced ==
  ASSUME NEW P, NEW q, NEW r, NEW p \in P, q[p] \in Nat, NEW d \in 1..q[p],
         r[p] = q[p] - d, \A x \in P \ {p} : r[x] = q[x], IsFiniteSet(LotsOf(P, q))
  PROVE /\ IsFiniteSet(LotsOf(P, r))
        /\ Cardinality(LotsOf(P, r)) = Cardinality(LotsOf(P, q)) - d
  <1>1. PICK a \in 1..q[p] : q[p] - a + 1 = d
    <2>1. q[p] - d + 1 \in 1..q[p] /\ q[p] - (q[p] - d + 1) + 1 = d
      OBVIOUS
    <2> QED BY <2>1
  <1>2. \A n : n \in 1..r[p] <=> n \in 1..q[p] /\ n \notin a..q[p]
    BY <1>1
  <1>3. LotsOf(P, r) = LotsOf(P, q) \ LotsFrom(p, a, q[p])
    BY <1>2 DEF LotsOf, LotsFrom
  <1>4. /\ IsFiniteSet(LotsOf(P, q) \ LotsFrom(p, a, q[p]))
        /\ Cardinality(LotsOf(P, q) \ LotsFrom(p, a, q[p]))
             = Cardinality(LotsOf(P, q)) - (q[p] - a + 1)
    BY LotsTaken
  <1> QED BY <1>1, <1>3, <1>4, Zenon

(* No plan has more lots than all together.                                   *)
LEMMA LotsBound ==
  ASSUME NEW P, NEW q, NEW p \in P, q[p] \in Nat, IsFiniteSet(LotsOf(P, q))
  PROVE q[p] <= Cardinality(LotsOf(P, q))
  <1>1. LotsFrom(p, 1, q[p]) \subseteq LotsOf(P, q)
    BY DEF LotsOf, LotsFrom
  <1>2. Cardinality(LotsFrom(p, 1, q[p])) = q[p]
    BY LotsCount
  <1> QED BY <1>1, <1>2, CardinalityTakes

LEMMA NoLots ==
  ASSUME NEW q
  PROVE IsFiniteSet(LotsOf({}, q)) /\ Cardinality(LotsOf({}, q)) = 0
  <1>1. LotsOf({}, q) = {}
    BY DEF LotsOf
  <1> QED BY <1>1, FS_EmptySet

-------------------------------------------------------------------------------
(* PlanInv, one lemma per group of actions.                                   *)

LEMMA ProtectedIs ==
  ProtectedLots = LotsOf(plans, quantity) /\ ProtectedLots' = LotsOf(plans', quantity')
  BY DEF ProtectedLots, LotsOf

LEMMA InitPlans == Init => PlanInv
  <1> SUFFICES ASSUME Init PROVE PlansWithin /\ OrdersMatch /\ RowsCurrent
    BY DEF PlanInv
  <1>1. PlansWithin
    BY NoLots, ProtectedIs DEF Init, PlansWithin
  <1>2. OrdersMatch
    BY DEF Init, OrdersMatch, Outstanding
  <1>3. RowsCurrent
    BY Constants DEF Init, RowsCurrent
  <1> QED BY <1>1, <1>2, <1>3

(* What a step that touches neither plans nor position keeps.                 *)
LEMMA WithinFrame ==
  ASSUME PlansWithin, plans' = plans, quantity' = quantity, held' = held,
         mishaps \subseteq mishaps'
  PROVE PlansWithin'
  BY DEF PlansWithin, ProtectedLots

LEMMA RowsFrame ==
  ASSUME RowsCurrent, plans' = plans, quantity' = quantity, held' = held, mode' = mode,
         row' = row, saving' = saving, dbHeld' = dbHeld, mishaps \subseteq mishaps',
         day = "past" => day' = "past"
  PROVE RowsCurrent'
  BY DEF RowsCurrent

LEMMA OrdersFrame ==
  ASSUME OrdersMatch, quantity' = quantity, held' = held, partialQty' = partialQty,
         \A s \in Slot : out'[s] \in {out[s], NoOrder}
  PROVE OrdersMatch'
  BY DEF OrdersMatch, SellsItsPlan, Outstanding

(* Half of a plan of two lots or more is some of it, and not all.             *)
LEMMA HalfWithin == ASSUME NEW n \in Int, n >= 2 PROVE n \div 2 \in 1..(n - 1)
  OBVIOUS

LEMMA PlansEmit ==
  ASSUME TypeOK, OrderInv, PlansWithin, OrdersMatch, RowsCurrent,
         NEW p \in PlanId, NEW trigger \in Trigger, NEW s \in Slot,
         Emit(p, trigger, s), "overlap" \notin mishaps'
  PROVE PlansWithin' /\ OrdersMatch' /\ RowsCurrent'
  <1> USE Constants
  <1>1. /\ plans' = plans /\ quantity' = quantity /\ held' = held /\ mode' = mode
        /\ row' = row /\ saving' = saving /\ dbHeld' = dbHeld /\ day' = day
        /\ mishaps \subseteq mishaps'
    BY DEF Emit, dbVars
  <1>2. SameLots(p) = {} /\ "overlap" \notin mishaps
    BY DEF Emit, Happened
  <1>3. OrdersMatch'
    <2> SUFFICES ASSUME NEW t \in Outstanding' PROVE SellsItsPlan(out[t])'
      BY DEF OrdersMatch
    <2>1. CASE t = s
      <3>1. /\ out'[s].plan = p /\ out'[s].trigger = trigger
            /\ out'[s].delta = ExitDelta(p, trigger)
        BY DEF Emit, TypeOK
      <3>2. CASE trigger = "FULL"
        BY <1>1, <2>1, <3>1, <3>2 DEF SellsItsPlan, ExitDelta
      <3>3. CASE trigger = "PARTIAL_TARGET"
        <4>1. quantity[p] \in Int /\ quantity[p] >= 2
          BY <3>3 DEF Emit, Hit, TypeOK
        <4>2. partialQty'[p] = quantity[p] \div 2
          BY <3>3 DEF Emit, BookTrigger, TypeOK
        <4> QED BY <1>1, <2>1, <3>1, <3>3, <4>1, <4>2, HalfWithin
                DEF SellsItsPlan, ExitDelta
      <3> QED BY <3>2, <3>3 DEF Trigger
    <2>2. CASE t # s
      <3>1. t \in Outstanding /\ out'[t] = out[t]
        BY <2>2 DEF Emit, TypeOK, Outstanding
      <3>2. out[t].plan # p /\ out[t].plan # NoPlan
        BY <1>2, <3>1 DEF SameLots
      <3>3. out[t].plan \in PlanId
        BY <1>2, <3>1, <3>2 DEF OrderInv, TypeOK
      <3>4. partialQty'[out[t].plan] = partialQty[out[t].plan]
        BY <3>2, <3>3 DEF Emit, BookTrigger, TypeOK
      <3>5. SellsItsPlan(out[t])
        BY <3>1 DEF OrdersMatch
      <3> QED BY <1>1, <3>1, <3>2, <3>4, <3>5 DEF SellsItsPlan
    <2> QED BY <2>1, <2>2
  <1> QED BY <1>1, <1>3, WithinFrame, RowsFrame

LEMMA PlansEmitFails ==
  ASSUME TypeOK, OrderInv, PlansWithin, OrdersMatch, RowsCurrent,
         NEW p \in PlanId, NEW trigger \in Trigger, NEW dropped \in BOOLEAN,
         EmitFails(p, trigger, dropped), "overlap" \notin mishaps'
  PROVE PlansWithin' /\ OrdersMatch' /\ RowsCurrent'
  <1> USE Constants
  <1>1. /\ plans' = plans /\ quantity' = quantity /\ held' = held /\ mode' = mode
        /\ row' = row /\ saving' = saving /\ dbHeld' = dbHeld /\ day' = day
        /\ mishaps' = mishaps /\ out' = out
    BY DEF EmitFails, dbVars
  <1>2. ASSUME NEW t \in Outstanding PROVE SellsItsPlan(out[t])'
    <2>1. SellsItsPlan(out[t]) /\ out[t].plan \in plans \union {NoPlan}
      BY <1>1 DEF OrdersMatch, OrderInv
    <2>2. CASE out[t].plan = NoPlan \/ out[t].trigger = "FULL"
      BY <1>1, <2>1, <2>2 DEF SellsItsPlan
    <2>3. CASE out[t].plan # NoPlan /\ out[t].trigger # "FULL"
      <3>1. out[t].plan \in PlanId /\ partialQty[out[t].plan] # 0
        BY <2>1, <2>3 DEF SellsItsPlan, TypeOK
      <3>2. trigger = "PARTIAL_TARGET" => out[t].plan # p
        BY <3>1 DEF EmitFails, Hit
      <3>3. partialQty'[out[t].plan] = partialQty[out[t].plan]
        BY <3>1, <3>2 DEF EmitFails, BookTrigger, TypeOK
      <3> QED BY <1>1, <2>1, <2>3, <3>3 DEF SellsItsPlan
    <2> QED BY <2>2, <2>3
  <1>3. OrdersMatch'
    BY <1>1, <1>2 DEF OrdersMatch, Outstanding
  <1> QED BY <1>1, <1>3, WithinFrame, RowsFrame

(* A position with plans is not flat.                                         *)
LEMMA PlansHold ==
  ASSUME TypeOK, PlansWithin, NEW p \in plans
  PROVE quantity[p] \in Nat \ {0} /\ quantity[p] <= held
  <1>1. p \in PlanId /\ quantity[p] \in Nat \ {0}
    BY DEF TypeOK, PlansWithin
  <1>2. quantity[p] <= Cardinality(ProtectedLots) /\ Cardinality(ProtectedLots) \in Nat
    BY <1>1, ProtectedIs, LotsBound, FS_CardinalityType DEF PlansWithin
  <1> QED BY <1>1, <1>2 DEF PlansWithin, TypeOK

LEMMA PlansEntry ==
  ASSUME TypeOK, OrderInv, PlansWithin, OrdersMatch, RowsCurrent,
         NEW p \in Plan, NEW q \in EntryQty, NEW ok \in Written,
         EntryFill(p, q, ok), "overlap" \notin mishaps'
  PROVE PlansWithin' /\ OrdersMatch' /\ RowsCurrent'
  <1> USE Constants
  <1>1. p \in PlanId /\ q \in Nat \ {0} /\ p \notin plans
    BY DEF PlanId, EntryFill, PlansWithin
  <1>2. /\ plans' = plans \union {p} /\ quantity' = [quantity EXCEPT ![p] = q]
        /\ held' = held + q /\ out' = out /\ partialQty' = partialQty
        /\ mishaps \subseteq mishaps' /\ "overlap" \notin mishaps
        /\ \A s \in Outstanding : out[s].plan # NoPlan
    BY DEF EntryFill, Happened
  <1>3. quantity'[p] = q /\ \A r \in PlanId \ {p} : quantity'[r] = quantity[r]
    BY <1>1, <1>2 DEF TypeOK
  <1>4. PlansWithin'
    <2>1. \A r \in plans : quantity'[r] = quantity[r]
      BY <1>1, <1>3 DEF TypeOK
    <2>2. /\ IsFiniteSet(ProtectedLots')
          /\ Cardinality(ProtectedLots') = Cardinality(ProtectedLots) + q
      <3>1. IsFiniteSet(LotsOf(plans, quantity)) /\ quantity'[p] \in Nat /\ p \notin plans
        BY <1>1, <1>3, ProtectedIs DEF PlansWithin
      <3>2. /\ IsFiniteSet(LotsOf(plans \union {p}, quantity'))
            /\ Cardinality(LotsOf(plans \union {p}, quantity'))
                 = Cardinality(LotsOf(plans, quantity)) + quantity'[p]
        BY ONLY <2>1, <3>1, LotsAdded
      <3>3. LotsOf(plans \union {p}, quantity') = ProtectedLots'
        BY <1>2, ProtectedIs
      <3> QED BY <1>3, <3>2, <3>3, ProtectedIs
    <2>3. Cardinality(ProtectedLots) \in Nat /\ held \in Int
      BY FS_CardinalityType DEF PlansWithin, TypeOK
    <2>4. \A r \in plans' : quantity'[r] > 0
      BY <1>1, <1>2, <1>3, <2>1 DEF PlansWithin
    <2>5. /\ Cardinality(ProtectedLots') <= held'
          /\ "partial" \notin mishaps' => Cardinality(ProtectedLots') = held'
      BY <1>1, <1>2, <2>2, <2>3 DEF PlansWithin
    <2> QED BY <2>2, <2>4, <2>5 DEF PlansWithin
  <1>5. OrdersMatch'
    <2> SUFFICES ASSUME NEW t \in Outstanding PROVE SellsItsPlan(out[t])'
      BY <1>2 DEF OrdersMatch, Outstanding
    <2>1. SellsItsPlan(out[t]) /\ out[t].plan \in plans /\ out[t].plan # NoPlan
      BY <1>2 DEF OrdersMatch, OrderInv
    <2>2. quantity'[out[t].plan] = quantity[out[t].plan]
      BY <1>1, <1>3, <2>1 DEF TypeOK
    <2> QED BY <1>2, <2>1, <2>2 DEF SellsItsPlan
  <1>6. RowsCurrent'
    <2> SUFFICES ASSUME "rows" \notin mishaps' PROVE RowsCurrent'
      BY DEF RowsCurrent
    <2>1. ok /\ "rows" \notin mishaps
      BY DEF EntryFill, Happened
    <2>2. /\ mode = StartMode /\ saving \subseteq {StartMode}
          /\ \A r \in PlanId : row[r] = IF r \in plans
               THEN [qty |-> quantity[r], mode |-> StartMode] ELSE NoRow
      BY <2>1 DEF RowsCurrent
    <2>3. /\ mode' = StartMode /\ saving' = {StartMode}
          /\ row' = [row EXCEPT ![p] = SavedRow(p, q)]
      BY <2>1, <2>2 DEF EntryFill
    <2>4. row'[p] = [qty |-> q, mode |-> StartMode]
      BY <1>1, <2>2, <2>3 DEF TypeOK, SavedRow, NoRow
    <2>5. \A r \in PlanId \ {p} : row'[r] = row[r]
      BY <1>1, <2>3 DEF TypeOK
    <2>6. \A r \in PlanId : row'[r] = IF r \in plans'
            THEN [qty |-> quantity'[r], mode |-> StartMode] ELSE NoRow
      <3> SUFFICES ASSUME NEW r \in PlanId
                   PROVE row'[r] = IF r \in plans'
                           THEN [qty |-> quantity'[r], mode |-> StartMode] ELSE NoRow
        OBVIOUS
      <3>1. CASE r = p
        BY <1>2, <1>3, <2>4, <3>1
      <3>2. CASE r # p
        BY <1>2, <1>3, <2>2, <2>5, <3>2
      <3> QED BY <3>1, <3>2
    <2> QED BY <2>3, <2>6 DEF RowsCurrent
  <1> QED BY <1>4, <1>5, <1>6

LEMMA PlansSquareOff ==
  ASSUME TypeOK, OrderInv, PlansWithin, OrdersMatch, RowsCurrent,
         NEW s \in Slot, SquareOff(s), "overlap" \notin mishaps'
  PROVE PlansWithin' /\ OrdersMatch' /\ RowsCurrent'
  <1>1. /\ plans' = plans /\ quantity' = quantity /\ held' = held /\ mode' = mode
        /\ row' = row /\ saving' = saving /\ dbHeld' = dbHeld /\ day' = day
        /\ mishaps \subseteq mishaps' /\ held # 0 /\ Outstanding = {}
        /\ out' = [out EXCEPT ![s] = [plan |-> NoPlan, trigger |-> "FULL",
                                      delta |-> -held]]
    BY DEF SquareOff, dbVars, planVars, Happened
  <1>2. held > 0
    <2>1. Cardinality(ProtectedLots) \in Nat
      BY FS_CardinalityType DEF PlansWithin
    <2> QED BY <1>1, <2>1 DEF PlansWithin, TypeOK
  <1>3. OrdersMatch'
    <2> SUFFICES ASSUME NEW t \in Outstanding' PROVE SellsItsPlan(out[t])'
      BY DEF OrdersMatch
    <2>1. t = s
      BY <1>1 DEF Outstanding, TypeOK
    <2>2. out'[t] = [plan |-> NoPlan, trigger |-> "FULL", delta |-> -held]
      BY <1>1, <2>1 DEF TypeOK
    <2> QED BY <1>1, <1>2, <2>2 DEF SellsItsPlan
  <1> QED BY <1>1, <1>3, WithinFrame, RowsFrame

LEMMA PlansSave ==
  ASSUME TypeOK, PlansWithin, OrdersMatch, RowsCurrent,
         NEW m \in Mode, NEW ok \in Written, SavePositions(m, ok)
  PROVE PlansWithin' /\ OrdersMatch' /\ RowsCurrent'
  <1> USE Constants
  <1>1. /\ plans' = plans /\ quantity' = quantity /\ held' = held /\ mode' = mode
        /\ row' = row /\ day' = day /\ out' = out /\ partialQty' = partialQty
        /\ mishaps \subseteq mishaps' /\ saving' = saving \ {m}
    BY DEF SavePositions, planVars
  <1>2. \A s \in Slot : out'[s] \in {out[s], NoOrder}
    BY <1>1
  <1>3. PlansWithin' /\ OrdersMatch'
    BY <1>1, <1>2, WithinFrame, OrdersFrame
  <1>4. RowsCurrent'
    <2> SUFFICES ASSUME "rows" \notin mishaps' PROVE RowsCurrent'
      BY DEF RowsCurrent
    <2>1. ok /\ "rows" \notin mishaps
      BY DEF SavePositions, Happened
    <2>2. m = StartMode
      BY <2>1 DEF SavePositions, RowsCurrent
    <2>3. dbHeld'[StartMode] = held'
      BY <1>1, <2>1, <2>2 DEF SavePositions, TypeOK
    <2> QED BY <1>1, <2>1, <2>3 DEF RowsCurrent
  <1> QED BY <1>3, <1>4

(* The fill of a square-off closes every plan.                                *)
LEMMA SquareOffFills ==
  ASSUME TypeOK, OrderInv, PlansWithin, OrdersMatch,
         NEW s \in Slot, NEW part \in Parts(out[s].delta), NEW ok \in Written,
         NEW others \in BOOLEAN, ExitFills(s, part, ok, others),
         "overlap" \notin mishaps, out[s].plan = NoPlan
  PROVE PlansWithin' /\ OrdersMatch' /\ plans' = {}
  <1>1. /\ s \in Outstanding /\ out' = [out EXCEPT ![s] = NoOrder] /\ held' = held + part
        /\ mishaps' = mishaps \union Happened("partial", part # out[s].delta)
             \union Happened("rows", ~ok \/ (~KeepsRows(out[s], others) /\ plans' # {}))
    BY DEF ExitFills
  <1>2. out[s].trigger = "FULL" /\ held > 0 /\ out[s].delta = -held
    BY <1>1 DEF OrdersMatch, SellsItsPlan
  <1>3. Targets(out[s]) = plans /\ Reduced(out[s]) = {}
    BY <1>2, Constants DEF Targets, Reduced, TypeOK
  <1>4. plans' = {}
    BY <1>3 DEF ExitFills, OnExitFill
  <1>5. OrdersMatch'
    <2>1. Outstanding = {s}
      BY <1>1 DEF OrderInv
    <2>2. Outstanding' = {}
      BY <1>1, <2>1 DEF Outstanding, TypeOK
    <2> QED BY <2>2 DEF OrdersMatch
  <1>6. held' \in Nat /\ ("partial" \notin mishaps' => held' = 0)
    <2>1. held \in Int /\ part \in (-held)..(-1)
      BY <1>2 DEF Parts, TypeOK
    <2>2. "partial" \notin mishaps' => part = -held
      BY <1>1, <1>2 DEF Happened
    <2> QED BY <1>1, <2>1, <2>2
  <1>7. PlansWithin'
    <2>1. IsFiniteSet(ProtectedLots') /\ Cardinality(ProtectedLots') = 0
      BY <1>4, NoLots, ProtectedIs
    <2> QED BY <1>4, <1>6, <2>1 DEF PlansWithin
  <1> QED BY <1>4, <1>5, <1>7

(* The fill of a plan's own exit closes it, or takes the partial quantity off.*)
LEMMA OwnExitFills ==
  ASSUME TypeOK, OrderInv, PlansWithin, OrdersMatch,
         NEW s \in Slot, NEW part \in Parts(out[s].delta), NEW ok \in Written,
         NEW others \in BOOLEAN, ExitFills(s, part, ok, others),
         "overlap" \notin mishaps, NEW p \in plans, out[s].plan = p
  PROVE /\ PlansWithin' /\ OrdersMatch'
        /\ \/ out[s].trigger = "PARTIAL_TARGET" /\ plans' = plans
           \/ out[s].trigger = "FULL" /\ plans' = plans \ {p}
        /\ \A r \in PlanId \ {p} : quantity'[r] = quantity[r]
        /\ out[s].trigger = "FULL" => quantity'[p] = quantity[p]
  <1>1. /\ s \in Outstanding /\ out' = [out EXCEPT ![s] = NoOrder] /\ held' = held + part
        /\ partialQty' = partialQty
        /\ mishaps' = mishaps \union Happened("partial", part # out[s].delta)
             \union Happened("rows", ~ok \/ (~KeepsRows(out[s], others) /\ plans' # {}))
    BY DEF ExitFills, OnExitFill
  <1>2. SellsItsPlan(out[s]) /\ p \in PlanId /\ p # NoPlan
        /\ out[s].trigger \in Trigger
    BY <1>1, Constants DEF OrdersMatch, TypeOK, Order
  <1>3. Targets(out[s]) = {p}
    BY DEF Targets
  <1>4. quantity[p] \in Nat \ {0} /\ held \in Int /\ Cardinality(ProtectedLots) \in Nat
    BY PlansHold, FS_CardinalityType DEF PlansWithin, TypeOK
  <1>5. \A t \in Outstanding' : /\ t \in Outstanding /\ out'[t] = out[t]
                                /\ out[t].plan \in plans \ {p} /\ out[t].plan # NoPlan
    BY <1>1 DEF Outstanding, OrderInv, TypeOK
  <1>6. CASE out[s].trigger = "FULL"
    <2>1. Reduced(out[s]) = {} /\ out[s].delta = -quantity[p]
      BY <1>2, <1>6 DEF Reduced, SellsItsPlan
    <2>2. plans' = plans \ {p} /\ \A r \in PlanId : quantity'[r] = quantity[r]
      BY <1>3, <2>1 DEF ExitFills, OnExitFill
    <2>3. \A x \in plans \ {p} : quantity'[x] = quantity[x] /\ quantity'[x] > 0
      BY <2>2 DEF TypeOK, PlansWithin
    <2>4. /\ IsFiniteSet(ProtectedLots')
          /\ Cardinality(ProtectedLots') = Cardinality(ProtectedLots) - quantity[p]
      <3>1. IsFiniteSet(LotsOf(plans, quantity)) /\ quantity[p] \in Nat \ {0}
        BY <1>4, ProtectedIs DEF PlansWithin
      <3>2. /\ IsFiniteSet(LotsOf(plans \ {p}, quantity'))
            /\ Cardinality(LotsOf(plans \ {p}, quantity'))
                 = Cardinality(LotsOf(plans, quantity)) - quantity[p]
        BY ONLY <2>3, <3>1, p \in plans, LotsClosed
      <3>3. LotsOf(plans \ {p}, quantity') = ProtectedLots'
        BY <2>2, ProtectedIs
      <3> QED BY <3>2, <3>3, ProtectedIs
    <2>5. part \in (-quantity[p])..(-1)
          /\ ("partial" \notin mishaps' => part = -quantity[p] /\ "partial" \notin mishaps)
      BY <1>1, <1>4, <2>1 DEF Parts, Happened
    <2>6. PlansWithin'
      <3>1. /\ Cardinality(ProtectedLots') <= held'
            /\ "partial" \notin mishaps' => Cardinality(ProtectedLots') = held'
        BY <1>1, <1>4, <2>4, <2>5 DEF PlansWithin
      <3> QED BY <2>2, <2>3, <2>4, <3>1 DEF PlansWithin
    <2>7. OrdersMatch'
      <3> SUFFICES ASSUME NEW t \in Outstanding' PROVE SellsItsPlan(out[t])'
        BY DEF OrdersMatch
      <3>1. SellsItsPlan(out[t]) /\ quantity'[out[t].plan] = quantity[out[t].plan]
        BY <1>5, <2>3 DEF OrdersMatch
      <3> QED BY <1>1, <1>5, <3>1 DEF SellsItsPlan
    <2> QED BY <1>2, <1>6, <2>2, <2>6, <2>7
  <1>7. CASE out[s].trigger = "PARTIAL_TARGET"
    <2> DEFINE d == partialQty[p]
    <2>1. d \in 1..(quantity[p] - 1) /\ out[s].delta = -d
      BY <1>2, <1>7 DEF SellsItsPlan
    <2>2. Reduced(out[s]) = {p}
      BY <1>3, <1>4, <1>7, <2>1 DEF Reduced
    <2>3. /\ plans' = plans /\ quantity'[p] = quantity[p] - d
          /\ \A r \in PlanId \ {p} : quantity'[r] = quantity[r]
      BY <1>2, <1>3, <2>2 DEF ExitFills, OnExitFill
    <2>4. \A x \in plans \ {p} : quantity'[x] = quantity[x] /\ quantity'[x] > 0
      BY <2>3 DEF TypeOK, PlansWithin
    <2>5. /\ IsFiniteSet(ProtectedLots')
          /\ Cardinality(ProtectedLots') = Cardinality(ProtectedLots) - d
      <3>1. IsFiniteSet(LotsOf(plans, quantity)) /\ quantity[p] \in Nat /\ d \in 1..quantity[p]
        BY <1>4, <2>1, ProtectedIs DEF PlansWithin
      <3>2. quantity'[p] = quantity[p] - d /\ \A x \in plans \ {p} : quantity'[x] = quantity[x]
        BY <2>3, <2>4
      <3> HIDE DEF d
      <3>3. /\ IsFiniteSet(LotsOf(plans, quantity'))
            /\ Cardinality(LotsOf(plans, quantity')) = Cardinality(LotsOf(plans, quantity)) - d
        BY ONLY <3>1, <3>2, p \in plans, LotsReduced
      <3>4. LotsOf(plans, quantity') = ProtectedLots'
        BY <2>3, ProtectedIs
      <3> QED BY <3>3, <3>4, ProtectedIs
    <2>6. part \in (-d)..(-1)
          /\ ("partial" \notin mishaps' => part = -d /\ "partial" \notin mishaps)
      BY <1>1, <1>4, <2>1 DEF Parts, Happened
    <2>7. PlansWithin'
      <3>1. /\ Cardinality(ProtectedLots') <= held'
            /\ "partial" \notin mishaps' => Cardinality(ProtectedLots') = held'
        BY <1>1, <1>4, <2>1, <2>5, <2>6 DEF PlansWithin
      <3>2. \A r \in plans' : quantity'[r] > 0
        BY <1>4, <2>1, <2>3, <2>4
      <3> QED BY <2>5, <3>1, <3>2 DEF PlansWithin
    <2>8. OrdersMatch'
      <3> SUFFICES ASSUME NEW t \in Outstanding' PROVE SellsItsPlan(out[t])'
        BY DEF OrdersMatch
      <3>1. SellsItsPlan(out[t]) /\ quantity'[out[t].plan] = quantity[out[t].plan]
        BY <1>5, <2>4 DEF OrdersMatch
      <3> QED BY <1>1, <1>5, <3>1 DEF SellsItsPlan
    <2> QED BY <1>7, <2>3, <2>7, <2>8
  <1> QED BY <1>2, <1>6, <1>7 DEF Trigger

(* A row is of a registered plan or there is none; both name StartMode.       *)
LEMMA RowsAre ==
  ASSUME NEW r \in PlanId,
         row[r] = IF r \in plans THEN [qty |-> quantity[r], mode |-> StartMode] ELSE NoRow
  PROVE /\ row[r].mode = StartMode
        /\ row[r].qty = IF r \in plans THEN quantity[r] ELSE 0
  <1>1. NoRow.mode = StartMode /\ NoRow.qty = 0
    BY DEF NoRow
  <1>2. CASE r \in plans
    BY <1>2
  <1>3. CASE r \notin plans
    BY <1>1, <1>3
  <1> QED BY <1>2, <1>3

(* The rows that StoreExit leaves are the plans that are left.                *)
LEMMA PlansFill ==
  ASSUME TypeOK, OrderInv, PlansWithin, OrdersMatch, RowsCurrent,
         NEW s \in Slot, NEW part \in Parts(out[s].delta), NEW ok \in Written,
         NEW others \in BOOLEAN, ExitFills(s, part, ok, others),
         "overlap" \notin mishaps'
  PROVE PlansWithin' /\ OrdersMatch' /\ RowsCurrent'
  <1>1. s \in Outstanding /\ "overlap" \notin mishaps /\ mode' = mode
        /\ mishaps \subseteq mishaps'
    BY DEF ExitFills
  <1>2. \/ out[s].plan = NoPlan
        \/ \E p \in plans : out[s].plan = p
    BY <1>1 DEF OrderInv
  <1>3. PlansWithin' /\ OrdersMatch'
    BY <1>1, <1>2, SquareOffFills, OwnExitFills
  <1>4. ASSUME "rows" \notin mishaps'
        PROVE \A r \in PlanId : row'[r] = IF r \in plans'
                THEN [qty |-> quantity'[r], mode |-> StartMode] ELSE NoRow
    <2>1. ok /\ (KeepsRows(out[s], others) \/ plans' = {})
      BY <1>4 DEF ExitFills, Happened
    <2>2. mode = StartMode
          /\ \A r \in PlanId : row[r] = IF r \in plans
               THEN [qty |-> quantity[r], mode |-> StartMode] ELSE NoRow
      BY <1>1, <1>4 DEF RowsCurrent
    <2>3. \A r \in PlanId : row[r].mode = StartMode
      BY <2>2, RowsAre
    <2>4. CASE KeepsRows(out[s], others)
      <3>1. plans' = plans
        <4>1. out[s].trigger = "PARTIAL_TARGET"
          BY <2>4 DEF KeepsRows
        <4>2. CASE out[s].plan = NoPlan
          BY <1>1, <4>1, <4>2 DEF OrdersMatch, SellsItsPlan
        <4>3. CASE \E p \in plans : out[s].plan = p
          BY <1>1, <4>1, <4>3, OwnExitFills
        <4> QED BY <1>2, <4>2, <4>3
      <3>2. row' = [r \in PlanId |-> IF r \in plans' THEN SavedRow(r, quantity'[r])
                                     ELSE row[r]]
        BY <2>1, <2>4 DEF ExitFills, StoreExit
      <3>3. \A r \in plans : SavedRow(r, quantity'[r])
                               = [qty |-> quantity'[r], mode |-> StartMode]
        BY <2>2, <2>3 DEF SavedRow, TypeOK
      <3> QED BY <2>2, <3>1, <3>2, <3>3
    <2>5. CASE ~KeepsRows(out[s], others)
      <3>1. row' = WithoutRowsOf(StartMode)
        BY <2>1, <2>2, <2>5 DEF ExitFills, StoreExit
      <3>2. \A r \in PlanId : row'[r] = NoRow
        BY <2>3, <3>1 DEF WithoutRowsOf
      <3> QED BY <2>1, <2>5, <3>2
    <2> QED BY <2>4, <2>5
  <1>5. RowsCurrent'
    <2> SUFFICES ASSUME "rows" \notin mishaps' PROVE RowsCurrent'
      BY DEF RowsCurrent
    <2>1. mode = StartMode /\ saving \subseteq {StartMode}
      BY <1>1 DEF RowsCurrent
    <2>2. saving' = {StartMode}
      BY <2>1 DEF ExitFills, StoreExit
    <2> QED BY <1>1, <1>4, <2>1, <2>2 DEF RowsCurrent
  <1> QED BY <1>3, <1>5

(* A restart that finds its rows up to date brings the plans back, arms one   *)
(* for the whole position, or settles it.                                     *)
LEMMA PlansRestart ==
  ASSUME TypeOK, PlansWithin, RowsCurrent, NEW known \in BOOLEAN, Restart(known),
         "lost" \notin mishaps'
  PROVE PlansWithin' /\ OrdersMatch' /\ RowsCurrent'
  <1> USE Constants
  <1>1. /\ "rows" \notin mishaps /\ saving = {} /\ mishaps' = mishaps
        /\ mode' = StartMode /\ saving' = {} /\ dbHeld' = dbHeld /\ day' = day
        /\ \A s \in Slot : out'[s] = NoOrder
    BY DEF Restart, Stop, Stale, Happened
  <1>2. /\ \A r \in PlanId : row[r] = IF r \in plans
             THEN [qty |-> quantity[r], mode |-> StartMode] ELSE NoRow
        /\ dbHeld[StartMode] = held \/ (day = "past" /\ held = 0)
    BY <1>1 DEF RowsCurrent
  <1>3. OrdersMatch'
    BY <1>1 DEF OrdersMatch, Outstanding
  <1>4. \A r \in PlanId : WithoutRowsOf(StartMode)[r] = NoRow
    BY <1>2, RowsAre DEF WithoutRowsOf
  <1>5. CASE Restored(known) = 0 \/ day = "past"
    <2>1. held' = 0 /\ plans' = {}
      BY <1>5 DEF Restart, Settles, Rearmed, RestoredPlans
    <2>2. row' = WithoutRowsOf(StartMode)
      BY <1>5 DEF Restart, Settles, RestoredRows
    <2>3. IsFiniteSet(ProtectedLots') /\ Cardinality(ProtectedLots') = 0
      BY <2>1, NoLots, ProtectedIs
    <2>4. PlansWithin'
      BY <2>1, <2>3 DEF PlansWithin
    <2>5. dbHeld[StartMode] = 0 \/ day = "past"
      BY <1>5 DEF Restored, Restart
    <2>6. RowsCurrent'
      BY <1>1, <1>4, <2>1, <2>2, <2>5 DEF RowsCurrent
    <2> QED BY <1>3, <2>4, <2>6
  <1>6. CASE Restored(known) # 0 /\ day # "past"
    <2>1. known /\ Restored(known) = held /\ held # 0 /\ ~Settles(known)
      BY <1>2, <1>6 DEF Restored, Settles
    <2>2. RestoredPlans(known) = plans
      <3>1. \A r \in PlanId : /\ row[r].mode = StartMode
                              /\ row[r].qty = IF r \in plans THEN quantity[r] ELSE 0
        BY <1>2, RowsAre
      <3>2. \A r \in plans : r \in PlanId /\ quantity[r] # 0
        BY PlansHold DEF TypeOK
      <3> QED BY <2>1, <3>1, <3>2 DEF RestoredPlans
    <2>3. held > 0 /\ Cardinality(ProtectedLots) \in Nat
      BY <2>1, FS_CardinalityType DEF PlansWithin, TypeOK
    <2>4. held' = held
      BY <2>1 DEF Restart
    <2>5. CASE Rearmed(known)
      <3>1. plans = {} /\ plans' = {Rearm} /\ Rearm \in PlanId
        BY <2>1, <2>2, <2>5 DEF Restart, Rearmed, PlanId
      <3>2. row[Rearm].qty = 0
        BY <1>2, <3>1 DEF NoRow
      <3>3. RestoredRows(known) = [row EXCEPT ![Rearm] = [qty |-> held, mode |-> StartMode]]
        BY <2>1, <2>5, <3>2 DEF RestoredRows
      <3>4. row' = RestoredRows(known)
        BY <2>1 DEF Restart
      <3>5. row'[Rearm] = [qty |-> held, mode |-> StartMode]
            /\ \A r \in PlanId \ {Rearm} : row'[r] = NoRow
        BY <1>2, <3>1, <3>3, <3>4 DEF TypeOK
      <3>6. quantity'[Rearm] = RestoredRows(known)[Rearm].qty
        BY <2>5, <3>1 DEF Restart
      <3>7. quantity'[Rearm] = held
        BY <3>4, <3>5, <3>6
      <3>8. IsFiniteSet(ProtectedLots') /\ Cardinality(ProtectedLots') = held
        <4>1. IsFiniteSet(LotsOf({}, quantity)) /\ Cardinality(LotsOf({}, quantity)) = 0
          BY NoLots
        <4>2. quantity'[Rearm] \in Nat
          BY <2>3, <3>7 DEF TypeOK
        <4>3. /\ IsFiniteSet(LotsOf({} \union {Rearm}, quantity'))
              /\ Cardinality(LotsOf({} \union {Rearm}, quantity')) = 0 + quantity'[Rearm]
          BY ONLY <4>1, <4>2, LotsAdded
        <4>4. LotsOf({} \union {Rearm}, quantity') = ProtectedLots'
          BY <3>1, ProtectedIs
        <4> QED BY <3>7, <4>2, <4>3, <4>4
      <3>9. PlansWithin'
        BY <2>3, <2>4, <3>1, <3>7, <3>8 DEF PlansWithin, TypeOK
      <3>10. RowsCurrent'
        BY <1>1, <1>2, <1>6, <2>4, <3>1, <3>5, <3>7 DEF RowsCurrent
      <3> QED BY <1>3, <3>9, <3>10
    <2>6. CASE ~Rearmed(known)
      <3>1. RestoredRows(known) = row
        BY <2>1, <2>6 DEF RestoredRows
      <3>2. plans' = plans /\ row' = row
            /\ quantity' = [r \in PlanId |-> IF r \in plans THEN row[r].qty ELSE quantity[r]]
        BY <2>1, <2>2, <2>6, <3>1 DEF Restart
      <3>3. quantity' = quantity
        BY <1>2, <3>2 DEF TypeOK
      <3>4. PlansWithin'
        BY <1>1, <2>4, <3>2, <3>3, WithinFrame
      <3>5. RowsCurrent'
        BY <1>1, <1>2, <1>6, <2>4, <3>2, <3>3 DEF RowsCurrent
      <3> QED BY <1>3, <3>4, <3>5
    <2> QED BY <2>5, <2>6
  <1> QED BY <1>5, <1>6

LEMMA PlansDeferred ==
  ASSUME RestartDeferred PROVE PlansWithin' /\ OrdersMatch' /\ RowsCurrent'
  <1>1. /\ held' = 0 /\ plans' = {} /\ "rows" \in mishaps'
        /\ \A s \in Slot : out'[s] = NoOrder
    BY DEF RestartDeferred, Stop
  <1>2. IsFiniteSet(ProtectedLots') /\ Cardinality(ProtectedLots') = 0
    BY <1>1, NoLots, ProtectedIs
  <1> QED BY <1>1, <1>2 DEF PlansWithin, OrdersMatch, Outstanding, RowsCurrent

(* The same mishaps, or more.                                                 *)
LEMMA MishapsGrow == [Next]_vars => mishaps \subseteq mishaps'
  BY DEF Next, Poll, Fate, vars, EntryFill, Emit, EmitFails, MonitorFlat, Unhit, ExitFills,
     ExitDies, SquareOff, SavePositions, SwitchMode, SaveSnapshot, DayPasses, Restart,
     RestartDeferred

LEMMA PlanStep == TypeOK /\ OrderInv /\ PlanInv /\ [Next]_vars => PlanInv'
  <1> SUFFICES ASSUME TypeOK, OrderInv, PlanInv, [Next]_vars,
                      "overlap" \notin mishaps', "lost" \notin mishaps'
               PROVE PlansWithin' /\ OrdersMatch' /\ RowsCurrent'
    BY DEF PlanInv, Undisturbed
  <1>1. PlansWithin /\ OrdersMatch /\ RowsCurrent
    BY MishapsGrow DEF PlanInv, Undisturbed
  <1>2. ASSUME NEW p \in PlanId, NEW trigger \in Trigger, MonitorFlat(p, trigger)
        PROVE FALSE
    BY <1>1, <1>2, PlansHold DEF MonitorFlat, Due
  <1>3. ASSUME NEW m \in Mode, SwitchMode(m)
        PROVE PlansWithin' /\ OrdersMatch' /\ RowsCurrent'
    <2>1. /\ plans' = plans /\ quantity' = quantity /\ held' = held
          /\ partialQty' = partialQty /\ out' = out /\ "rows" \in mishaps'
          /\ mishaps \subseteq mishaps'
      BY <1>3 DEF SwitchMode, planVars
    <2>2. \A s \in Slot : out'[s] \in {out[s], NoOrder}
      BY <2>1
    <2> QED BY <1>1, <2>1, <2>2, WithinFrame, OrdersFrame DEF RowsCurrent
  <1>4. ASSUME \/ \E p \in PlanId : Unhit(p)
               \/ \E s \in Slot : ExitDies(s)
               \/ SaveSnapshot \/ DayPasses \/ UNCHANGED vars
        PROVE PlansWithin' /\ OrdersMatch' /\ RowsCurrent'
    <2>1. /\ plans' = plans /\ quantity' = quantity /\ held' = held /\ mode' = mode
          /\ row' = row /\ saving' = saving /\ dbHeld' = dbHeld
          /\ partialQty' = partialQty /\ mishaps \subseteq mishaps'
          /\ day = "past" => day' = "past"
      BY <1>4 DEF Unhit, ExitDies, SaveSnapshot, DayPasses, vars, planVars, dbVars
    <2>2. \A s \in Slot : out'[s] \in {out[s], NoOrder}
      BY <1>4 DEF Unhit, ExitDies, SaveSnapshot, DayPasses, vars, TypeOK
    <2> QED BY <1>1, <2>1, <2>2, WithinFrame, OrdersFrame, RowsFrame
  <1> QED BY <1>1, <1>2, <1>3, <1>4, PlansEmit, PlansEmitFails, PlansEntry, PlansSquareOff,
             PlansSave, PlansFill, PlansRestart, PlansDeferred DEF Next, Poll, Fate
-------------------------------------------------------------------------------
(* What the outstanding exits would sell, the plans protect.                  *)

LEMMA SoldIsHeld ==
  ASSUME TypeOK, OrderInv, PlansWithin, OrdersMatch, "overlap" \notin mishaps
  PROVE Cardinality(OrderedLots) <= held
  <1>1. \A x : x \in OrderedLots <=>
                 \E s \in Slot : \E n \in 1..(-out[s].delta) : x = <<s, n>>
    BY DEF OrderedLots
  <1>2. \A s \in Slot \ Outstanding : out[s].delta = 0
    BY DEF Outstanding, NoOrder
  <1>3. CASE \E s \in Outstanding : out[s].plan = NoPlan
    <2>1. PICK s \in Outstanding : out[s].plan = NoPlan
      BY <1>3
    <2>2. Outstanding = {s} /\ s \in Slot
      BY <2>1 DEF OrderInv, Outstanding
    <2>3. -out[s].delta = held /\ held \in Nat
      BY <2>1 DEF OrdersMatch, SellsItsPlan, TypeOK
    <2>4. \A t \in Slot \ {s} : 1..(-out[t].delta) = {}
      BY <1>2, <2>2
    <2>5. OrderedLots = LotsFrom(s, 1, held)
      BY <1>1, <2>2, <2>3, <2>4 DEF LotsFrom
    <2> QED BY <2>3, <2>5, LotsCount
  <1>4. CASE \A s \in Outstanding : out[s].plan # NoPlan
    <2>1. \A s \in Outstanding : /\ out[s].plan \in plans
                                 /\ 1..(-out[s].delta) \subseteq 1..quantity[out[s].plan]
      <3> SUFFICES ASSUME NEW s \in Outstanding
                   PROVE /\ out[s].plan \in plans
                         /\ 1..(-out[s].delta) \subseteq 1..quantity[out[s].plan]
        OBVIOUS
      <3>1. out[s].plan \in plans /\ SellsItsPlan(out[s])
        BY <1>4 DEF OrderInv, OrdersMatch
      <3>2. quantity[out[s].plan] \in Nat
        BY <3>1, PlansHold
      <3>3. -out[s].delta <= quantity[out[s].plan] /\ out[s].delta \in Int
        BY <1>4, <3>1, <3>2 DEF SellsItsPlan, TypeOK, Order, Outstanding
      <3> QED BY <3>1, <3>2, <3>3
    <2> DEFINE f == [x \in OrderedLots |-> <<out[x[1]].plan, x[2]>>]
    <2>2. \A x \in OrderedLots : /\ x = <<x[1], x[2]>> /\ x[1] \in Outstanding
                                 /\ x[2] \in 1..(-out[x[1]].delta)
      BY <1>1, <1>2 DEF Outstanding
    <2>3. \A x \in OrderedLots : f[x] \in ProtectedLots
      BY <2>1, <2>2, ProtectedIs, LotsMember
    <2>4. \A x, y \in OrderedLots : f[x] = f[y] => x = y
      BY <1>4, <2>2 DEF OrderInv
    <2>5. f \in Injection(OrderedLots, ProtectedLots)
      BY <2>3, <2>4 DEF Injection, IsInjective
    <2>6. /\ IsFiniteSet(OrderedLots)
          /\ Cardinality(OrderedLots) <= Cardinality(ProtectedLots)
      BY <2>5, FS_Injection DEF PlansWithin
    <2>7. Cardinality(OrderedLots) \in Nat /\ Cardinality(ProtectedLots) \in Nat
      BY <2>6, FS_CardinalityType DEF PlansWithin
    <2> QED BY <2>6, <2>7 DEF PlansWithin, TypeOK
  <1> QED BY <1>3, <1>4
-------------------------------------------------------------------------------
(* What a single step may do to the plans.                                    *)

LEMMA ReleaseStep ==
  ASSUME TypeOK, OrderInv, [Next]_vars, NEW p \in plans \ plans'
  PROVE \/ held = 0 \/ restarts' # restarts \/ "overlap" \in mishaps
        \/ \E s \in Slot : Filled(s) /\ out[s].plan \in {p, NoPlan}
  <1>1. ASSUME NEW s \in Slot, NEW part \in Parts(out[s].delta), NEW ok \in Written,
               NEW others \in BOOLEAN, ExitFills(s, part, ok, others),
               "overlap" \notin mishaps
        PROVE Filled(s) /\ out[s].plan \in {p, NoPlan}
    <2>1. out[s].delta \in Int /\ part \in Int \ {0}
      BY PartLots DEF TypeOK, Order
    <2>2. s \in Outstanding /\ held' # held /\ out'[s] = NoOrder
      BY <1>1, <2>1 DEF ExitFills, TypeOK
    <2>3. Filled(s)
      BY <2>2 DEF Filled, Outstanding
    <2>4. p \in Targets(out[s])
      BY <1>1 DEF ExitFills, OnExitFill
    <2>5. out[s].plan \in plans \union {NoPlan}
      BY <1>1, <2>2 DEF OrderInv
    <2> QED BY <2>3, <2>4, <2>5 DEF Targets
  <1>2. ASSUME NEW q \in PlanId, NEW trigger \in Trigger, MonitorFlat(q, trigger)
        PROVE held = 0
    BY <1>2 DEF MonitorFlat
  <1>3. ASSUME (\E known \in BOOLEAN : Restart(known)) \/ RestartDeferred
        PROVE restarts' # restarts
    BY <1>3 DEF Restart, RestartDeferred, Stop, TypeOK
  <1>4. ASSUME \/ \E q \in PlanId : Unhit(q)
               \/ \E q \in PlanId, trigger \in Trigger, dropped \in BOOLEAN :
                    EmitFails(q, trigger, dropped)
               \/ \E q \in PlanId, trigger \in Trigger, s \in Slot : Emit(q, trigger, s)
               \/ \E q \in Plan, n \in EntryQty, ok \in Written : EntryFill(q, n, ok)
               \/ \E s \in Slot : ExitDies(s) \/ SquareOff(s)
               \/ \E m \in Mode, ok \in Written : SavePositions(m, ok)
               \/ \E m \in Mode : SwitchMode(m)
               \/ SaveSnapshot \/ DayPasses \/ UNCHANGED vars
        PROVE FALSE
    BY <1>4 DEF Unhit, EmitFails, Emit, EntryFill, ExitDies, SquareOff, SavePositions,
       SwitchMode, SaveSnapshot, DayPasses, vars, planVars
  <1> QED BY <1>1, <1>2, <1>3, <1>4 DEF Next, Poll, Fate
-------------------------------------------------------------------------------
(* OrderInv and PlanInv are inductive given the types.                        *)
THEOREM Invariance == Spec => [](TypeOK /\ OrderInv /\ PlanInv)
  <1>1. TypeOK /\ OrderInv /\ PlanInv /\ [Next]_vars => (TypeOK /\ OrderInv /\ PlanInv)'
    BY TypeStep, OrderStep, PlanStep
  <1> QED BY <1>1, InitInv, InitPlans, PTL DEF Spec

(* The exit manager's maps, the orders and the rows keep their types through  *)
(* fills, restarts and expiry settlements.                                    *)
THEOREM TypeCorrect == Spec => []TypeOK
  BY Invariance, PTL

(* Outstanding exits are of different registered plans, unless some overlapped*)
(* (_monitor_loop and on_exit_fill).                                          *)
THEOREM ExitsKeepTheirPlans == Spec => []OrderInv
  BY Invariance, PTL

(* A plan leaves only by a fill of an exit of its own or of a square-off, a   *)
(* flat position or a restart (on_exit_fill, audit fix H1).                   *)
THEOREM OnlyFillsRelease == Spec => ReleasedByFill
  <1>1. TypeOK /\ OrderInv /\ [Next]_vars => [Released]_vars
    BY ReleaseStep DEF Released
  <1> QED BY <1>1, Invariance, PTL DEF Spec, ReleasedByFill

(* The registered plans protect exactly the lots held, as long as exits fill  *)
(* whole and one at a time and restarts find their rows up to date (_on_fill, *)
(* on_exit_fill, restore_state).                                              *)
THEOREM PlansCoverPosition == Spec => []Covered
  <1>1. PlanInv => Covered
    BY DEF PlanInv, Covered, Undisturbed, PlansWithin
  <1> QED BY <1>1, Invariance, PTL

(* The outstanding exits together never sell more than is held, whatever part *)
(* of them fills and in whatever order, unless exits of the same lots overlap *)
(* or a restart lost rows (_emit_exit_intent, on_exit_fill).                  *)
THEOREM ExitsNeverOversell == Spec => []NeverThroughZero
  <1>1. TypeOK /\ OrderInv /\ PlanInv => NeverThroughZero
    BY SoldIsHeld DEF PlanInv, NeverThroughZero, Undisturbed
  <1> QED BY <1>1, Invariance, PTL
===============================================================================

--------------------------- MODULE Watchdogs_proofs ---------------------------
(* Theorems about Watchdogs, for every set of operator threads and any number *)
(* of trades and restarts.                                                    *)
EXTENDS Watchdogs, TLAPS

LEMMA Constants ==
  /\ "guardian" \notin Caller /\ "reconciler" \notin Caller
  /\ MaxTrades \in Nat /\ MaxRestarts \in Nat
  BY WatchdogAssumption DEF WatchdogAssumption

LEMMA Watchdog == "guardian" \in Thread /\ "reconciler" \in Thread
  BY DEF Thread
-------------------------------------------------------------------------------
LEMMA TypeInit == Init => TypeOK
  <1> SUFFICES ASSUME Init PROVE TypeOK
    OBVIOUS
  <1>1. pc \in [Thread -> Step] /\ want \in [Thread -> BOOLEAN]
    BY DEF Init, Step
  <1>2. /\ live \in BOOLEAN /\ armed \in BOOLEAN /\ kill \in BOOLEAN
        /\ schedKill \in BOOLEAN /\ row \in {"none", "activated", "cleared"}
        /\ breach \in BOOLEAN /\ excused \in BOOLEAN /\ falseTrip \in BOOLEAN
        /\ alone \subseteq Thread /\ standing \in BOOLEAN
    BY Zenon DEF Init
  <1>3. /\ atBroker \in Nat /\ inLedger \in Nat /\ unbooked \in Nat
        /\ trades \in 0..MaxTrades /\ late \in Nat /\ snapshot \in Nat
        /\ count \in 0..2 /\ restarts \in 0..MaxRestarts
    BY Constants DEF Init
  <1> QED BY <1>1, <1>2, <1>3 DEF TypeOK

(* A trip, whoever makes it, leaves the types of the thread's state alone.    *)
LEMMA TripTyped ==
  ASSUME TypeOK, NEW t \in Thread, StartTrip(t)
  PROVE /\ pc' \in [Thread -> Step] /\ want' \in [Thread -> BOOLEAN]
        /\ alone' \subseteq Thread /\ standing' \in BOOLEAN
  BY DEF TypeOK, StartTrip, Goto, Step

LEMMA TypeStep == TypeOK /\ [Next]_vars => TypeOK'
  <1> SUFFICES ASSUME TypeOK, [Next]_vars PROVE TypeOK'
    OBVIOUS
  <1> USE Constants, Watchdog
  <1>1. ASSUME NEW t \in Thread, Flag(t) \/ Mirror(t) \/ Disarm(t) \/ Save(t)
        PROVE TypeOK'
    <2>1. pc' \in [Thread -> Step]
      BY <1>1 DEF TypeOK, Flag, Mirror, Disarm, Save, Goto, Step
    <2>2. want' \in [Thread -> BOOLEAN] /\ want[t] \in BOOLEAN
      BY <1>1 DEF TypeOK, Flag, Mirror, Disarm, Save
    <2>3. /\ kill' \in BOOLEAN /\ schedKill' \in BOOLEAN /\ armed' \in BOOLEAN
          /\ row' \in {"none", "activated", "cleared"}
      BY <1>1, <2>2 DEF TypeOK, Flag, Mirror, Copy, Disarm, Save
    <2>4. alone' \subseteq Thread
      BY <1>1 DEF TypeOK, Flag, Mirror, Disarm, Save, tripVars
    <2>5. standing' \in BOOLEAN
      <3>1. CASE UNCHANGED standing
        BY <3>1 DEF TypeOK
      <3>2. CASE standing' = (standing \/ t \in alone)
        BY <3>2
      <3> QED BY <1>1, <3>1, <3>2 DEF Flag, Mirror, Disarm, Save, tripVars
    <2> QED BY <1>1, <2>1, <2>2, <2>3, <2>4, <2>5 DEF TypeOK, Flag, Mirror, Disarm, Save,
          bookVars, tickVars
  <1>2. ASSUME NEW t \in Caller, CallTrip(t) PROVE TypeOK'
    BY <1>2, TripTyped DEF TypeOK, CallTrip, Thread, flagVars, bookVars, tickVars
  <1>3. ASSUME NEW t \in Caller, CallClear(t) \/ CallArm(t) \/ Arm(t) PROVE TypeOK'
    <2>1. pc' \in [Thread -> Step] /\ want' \in [Thread -> BOOLEAN]
      BY <1>3 DEF TypeOK, CallClear, CallArm, Arm, Goto, Step
    <2> QED BY <1>3, <2>1 DEF TypeOK, CallClear, CallArm, Arm, flagVars, bookVars,
          tickVars, tripVars
  <1>4. ASSUME ChangeMode \/ BreachChanges PROVE TypeOK'
    <2>1. live' \in BOOLEAN /\ armed' \in BOOLEAN /\ breach' \in BOOLEAN
      <3>1. (~live) \in BOOLEAN /\ (~breach) \in BOOLEAN /\ (armed /\ live') \in BOOLEAN
        OBVIOUS
      <3> QED BY <1>4, <3>1 DEF TypeOK, ChangeMode, BreachChanges, flagVars
    <2> QED BY <1>4, <2>1 DEF TypeOK, ChangeMode, BreachChanges, flagVars, bookVars,
          tickVars, tripVars
  <1>5. ASSUME GuardianTick PROVE TypeOK'
    BY <1>5, TripTyped DEF TypeOK, GuardianTick, flagVars, bookVars, tickVars
  <1>6. ASSUME TickOutsideLive \/ TickBegins \/ Fetch \/ FetchFails \/ NoDrift PROVE TypeOK'
    <2>1. pc' \in [Thread -> Step]
      BY <1>6 DEF TypeOK, TickOutsideLive, TickBegins, Fetch, FetchFails, NoDrift, Goto,
         Step
    <2>2. late' \in Nat /\ snapshot' \in Nat /\ count' \in 0..2
      BY <1>6 DEF TypeOK, TickOutsideLive, TickBegins, Fetch, FetchFails, NoDrift,
         tickVars, bookVars
    <2>3. excused' \in BOOLEAN
      <3>1. CASE excused' = (excused \/ late > 0 \/ ~live)
        BY <3>1
      <3> QED BY <1>6, <3>1 DEF TypeOK, TickOutsideLive, TickBegins, Fetch, FetchFails,
            NoDrift, bookVars
    <2> QED BY <1>6, <2>1, <2>2, <2>3 DEF TypeOK, TickOutsideLive, TickBegins, Fetch,
          FetchFails, NoDrift, flagVars, bookVars, tickVars, tripVars
  <1>7. ASSUME Mismatch PROVE TypeOK'
    <2>1. pc' \in [Thread -> Step] /\ want' \in [Thread -> BOOLEAN]
          /\ alone' \subseteq Thread /\ standing' \in BOOLEAN
      BY <1>7, TripTyped DEF TypeOK, Mismatch, Goto, Step, tripVars
    <2>2. count' \in 0..2
      BY <1>7 DEF Mismatch, Counted
    <2>3. falseTrip' \in BOOLEAN
      <3>1. CASE falseTrip' = (falseTrip \/ ~excused)
        BY <3>1
      <3> QED BY <1>7, <3>1 DEF Mismatch, TypeOK
    <2> QED BY <1>7, <2>1, <2>2, <2>3 DEF TypeOK, Mismatch, flagVars, bookVars
  <1>8. ASSUME OrderFills \/ PaperFills \/ TradeOutside \/ Book PROVE TypeOK'
    <2>1. /\ atBroker' \in Nat /\ inLedger' \in Nat /\ unbooked' \in Nat
          /\ trades' \in 0..MaxTrades /\ late' \in Nat
      BY <1>8 DEF TypeOK, OrderFills, PaperFills, TradeOutside, Trade, Book
    <2>2. excused' \in BOOLEAN
      BY <1>8 DEF TypeOK, OrderFills, PaperFills, TradeOutside, Book
    <2> QED BY <1>8, <2>1, <2>2 DEF TypeOK, OrderFills, PaperFills, TradeOutside, Trade,
          Book, flagVars, tickVars, tripVars
  <1>9. ASSUME Restart PROVE TypeOK'
    <2>1. kill' \in BOOLEAN /\ schedKill' \in BOOLEAN
      <3>1. (row = "activated") \in BOOLEAN
        OBVIOUS
      <3> QED BY <1>9, <3>1 DEF Restart, RestoredFromDb
    <2>2. pc' \in [Thread -> Step] /\ want' \in [Thread -> BOOLEAN]
      BY <1>9 DEF Restart, Step
    <2>3. /\ restarts' \in 0..MaxRestarts /\ snapshot' \in Nat /\ count' \in 0..2
      BY <1>9 DEF TypeOK, Restart
    <2>4. armed' \in BOOLEAN /\ live' \in BOOLEAN /\ alone' \subseteq Thread
      BY <1>9, Zenon DEF Restart
    <2> QED BY <1>9, <2>1, <2>2, <2>3, <2>4 DEF TypeOK, Restart, bookVars
  <1>10. ASSUME UNCHANGED vars PROVE TypeOK'
    BY <1>10 DEF TypeOK, vars, flagVars, bookVars, tickVars, tripVars
  <1> QED BY <1>1, <1>2, <1>3, <1>4, <1>5, <1>6, <1>7, <1>8, <1>9, <1>10 DEF Next
-------------------------------------------------------------------------------
(* What is true while a trip is on its way through set_kill_switch.  A trip   *)
(* that nothing overlaps has set what its statements so far set, and one that *)
(* stands has set everything; neither shares the flags with an arm or a clear.*)
InTrip(t) == pc[t] \in {"flag", "mirror", "disarm", "save"} /\ want[t]

SetSoFar(t) ==
  /\ pc[t] # "flag" => kill
  /\ pc[t] \in {"disarm", "save"} => schedKill
  /\ pc[t] = "save" => ~armed

TripInv ==
  /\ \A t \in Thread : pc[t] = "disarm" => want[t]
  /\ \A t \in alone : InTrip(t) /\ SetSoFar(t)
  /\ alone # {} \/ standing => ~Undoing
  /\ TripStands

LEMMA TripInit == Init => TripInv
  BY DEF Init, TripInv, Undoing, TripStands

(* A thread in set_kill_switch takes its next statement.                      *)
LEMMA StatementKeepsTrips ==
  ASSUME TypeOK, TripInv, NEW t \in Thread, Flag(t) \/ Mirror(t) \/ Disarm(t) \/ Save(t)
  PROVE TripInv'
  <1>1. (\A u \in Thread : pc[u] = "disarm" => want[u])'
    BY DEF TripInv, TypeOK, Flag, Mirror, Disarm, Save, Goto
  <1>2. Undoing' => Undoing
    BY <1>1 DEF TripInv, Undoing, TypeOK, Flag, Mirror, Disarm, Save, Goto
  <1>3. CASE alone = {} /\ ~standing
    <2>1. alone' = {}
      BY <1>3 DEF Flag, Mirror, Disarm, Save, tripVars
    <2>2. ~standing'
      <3>1. CASE standing' = (standing \/ t \in alone)
        BY <1>3, <3>1
      <3> QED BY <1>3, <3>1 DEF Flag, Mirror, Disarm, Save, tripVars
    <2> QED BY <1>1, <2>1, <2>2 DEF TripInv, TripStands
  <1>4. CASE alone # {} \/ standing
    <2>1. ~Undoing /\ (pc[t] \in {"flag", "mirror", "disarm", "save"} => want[t])
      BY <1>4 DEF TripInv, Undoing
    <2>2. want[t]
      BY <2>1 DEF Flag, Mirror, Disarm, Save
    <2>3. /\ kill' = (kill \/ pc[t] = "flag")
          /\ schedKill' = (schedKill \/ pc[t] = "mirror")
          /\ armed' = (armed /\ pc[t] # "disarm")
      BY <2>2 DEF Flag, Mirror, Copy, Disarm, Save, TypeOK
    <2>4. \A u \in alone' : u \in alone /\ (InTrip(u) /\ SetSoFar(u))'
      <3> SUFFICES ASSUME NEW u \in alone' PROVE u \in alone /\ (InTrip(u) /\ SetSoFar(u))'
        OBVIOUS
      <3>1. u \in alone /\ u \in Thread
        BY DEF Flag, Mirror, Disarm, Save, tripVars, TypeOK
      <3>2. InTrip(u) /\ SetSoFar(u)
        BY <3>1 DEF TripInv
      <3>3. CASE u = t
        BY <2>2, <2>3, <3>1, <3>2, <3>3 DEF InTrip, SetSoFar, Flag, Mirror, Disarm, Save,
           Goto, TypeOK
      <3>4. CASE u # t
        BY <2>3, <3>1, <3>2, <3>4 DEF InTrip, SetSoFar, Flag, Mirror, Disarm, Save,
           Goto, TypeOK
      <3> QED BY <3>1, <3>3, <3>4
    <2>5. TripStands'
      <3>1. CASE standing
        <4>1. row' = "activated"
          BY <2>2, <3>1 DEF TripInv, TripStands, Flag, Mirror, Disarm, Save
        <4> QED BY <2>3, <3>1, <4>1 DEF TripInv, TripStands
      <3>2. CASE ~standing /\ standing'
        <4>1. Save(t) /\ t \in alone /\ row' = "activated"
          BY <2>2, <3>2 DEF Flag, Mirror, Disarm, Save, tripVars
        <4>2. pc[t] = "save" /\ SetSoFar(t)
          BY <4>1 DEF TripInv, Save
        <4> QED BY <2>3, <4>1, <4>2 DEF TripStands, SetSoFar
      <3> QED BY <3>1, <3>2 DEF TripStands
    <2> QED BY <1>1, <1>2, <2>1, <2>4, <2>5 DEF TripInv
  <1> QED BY <1>3, <1>4

(* A trip begins.                                                             *)
LEMMA TripBegins ==
  ASSUME TypeOK, TripInv, NEW t \in Thread, pc[t] \in {"idle", "compare"},
         StartTrip(t), UNCHANGED flagVars
  PROVE TripInv'
  <1>1. (\A u \in Thread : pc[u] = "disarm" => want[u])'
    BY DEF TripInv, TypeOK, StartTrip, Goto
  <1>2. Undoing' <=> Undoing
    BY DEF Undoing, TypeOK, StartTrip, Goto
  <1>3. \A u \in alone' : (InTrip(u) /\ SetSoFar(u))'
    BY DEF TripInv, InTrip, SetSoFar, TypeOK, StartTrip, Goto, flagVars
  <1>4. TripStands'
    BY DEF TripInv, TripStands, StartTrip, flagVars
  <1> QED BY <1>1, <1>2, <1>3, <1>4 DEF TripInv, StartTrip

(* A step of a watchdog that starts no trip.                                  *)
LEMMA TickKeepsTrips ==
  ASSUME TypeOK, TripInv, UNCHANGED <<flagVars, want, tripVars>>,
         \/ UNCHANGED pc
         \/ /\ pc["reconciler"] \in {"idle", "fetch", "compare"}
            /\ \E step \in {"idle", "fetch", "compare"} : Goto("reconciler", step)
  PROVE TripInv'
  <1> USE Watchdog
  <1>1. \A t \in Thread : pc[t] = pc'[t] \/ (/\ pc[t] \in {"idle", "fetch", "compare"}
                                            /\ pc'[t] \in {"idle", "fetch", "compare"})
    BY DEF TypeOK, Goto
  <1>2. Undoing' <=> Undoing
    BY <1>1 DEF Undoing
  <1>3. (\A t \in alone : InTrip(t) /\ SetSoFar(t))'
    BY <1>1 DEF TripInv, InTrip, SetSoFar, TypeOK, flagVars, tripVars
  <1>4. (\A t \in Thread : pc[t] = "disarm" => want[t])'
    BY <1>1 DEF TripInv
  <1> QED BY <1>2, <1>3, <1>4 DEF TripInv, TripStands, flagVars, tripVars

LEMMA TripStep == TypeOK /\ TripInv /\ [Next]_vars => TripInv'
  <1> SUFFICES ASSUME TypeOK, TripInv, [Next]_vars PROVE TripInv'
    OBVIOUS
  <1> USE Watchdog
  <1>1. ASSUME NEW t \in Thread, Flag(t) \/ Mirror(t) \/ Disarm(t) \/ Save(t)
        PROVE TripInv'
    BY <1>1, StatementKeepsTrips
  <1>2. ASSUME NEW t \in Caller, CallTrip(t) PROVE TripInv'
    BY <1>2, TripBegins DEF CallTrip, Thread
  <1>3. ASSUME GuardianTick PROVE TripInv'
    BY <1>3, TripBegins DEF GuardianTick
  <1>4. ASSUME Mismatch PROVE TripInv'
    <2>1. CASE StartTrip("reconciler")
      BY <1>4, <2>1, TripBegins DEF Mismatch
    <2>2. CASE Goto("reconciler", "idle") /\ UNCHANGED <<want, falseTrip, tripVars>>
      BY <1>4, <2>2, TickKeepsTrips DEF Mismatch
    <2> QED BY <1>4, <2>1, <2>2 DEF Mismatch
  <1>5. ASSUME NEW t \in Caller, CallClear(t) PROVE TripInv'
    BY <1>5 DEF TripInv, TripStands, CallClear, Goto, TypeOK, Thread
  <1>6. ASSUME NEW t \in Caller, CallArm(t) PROVE TripInv'
    <2>1. ~standing
      BY <1>6 DEF CallArm, TripInv, TripStands
    <2> QED BY <1>6, <2>1 DEF TripInv, TripStands, CallArm, Goto, TypeOK, Thread
  <1>7. ASSUME NEW t \in Caller, Arm(t) PROVE TripInv'
    <2>1. alone = {} /\ ~standing
      BY <1>7 DEF Arm, TripInv, Undoing, Thread
    <2> QED BY <1>7, <2>1 DEF TripInv, TripStands, Arm, Goto, TypeOK, Thread, tripVars
  <1>8. ASSUME ChangeMode PROVE TripInv'
    BY <1>8 DEF TripInv, TripStands, ChangeMode, InTrip, SetSoFar, Undoing, TypeOK, tripVars
  <1>9. ASSUME TickOutsideLive \/ TickBegins \/ Fetch \/ FetchFails \/ NoDrift
        PROVE TripInv'
    BY <1>9, TickKeepsTrips DEF TickOutsideLive, TickBegins, Fetch, FetchFails, NoDrift,
       tickVars, bookVars
  <1>10. ASSUME BreachChanges \/ OrderFills \/ PaperFills \/ TradeOutside \/ Book
         PROVE TripInv'
    BY <1>10, TickKeepsTrips DEF BreachChanges, OrderFills, PaperFills, TradeOutside, Trade,
       Book
  <1>11. ASSUME Restart PROVE TripInv'
    BY <1>11 DEF TripInv, TripStands, Restart, RestoredFromDb, Undoing
  <1>12. ASSUME UNCHANGED vars PROVE TripInv'
    BY <1>12, TickKeepsTrips DEF vars
  <1> QED BY <1>1, <1>2, <1>3, <1>4, <1>5, <1>6, <1>7, <1>8, <1>9, <1>10, <1>11, <1>12
        DEF Next
-------------------------------------------------------------------------------
(* Why one fill trips nothing.  As long as there was one trade at most, and   *)
(* nothing that may trip the switch, broker and ledger differ by the fill that*)
(* is still to be booked; a mismatch was counted only of that fill, which is  *)
(* booked or was seen unbooked; and a tick after it compares equal positions. *)
Explained ==
  /\ atBroker = trades /\ inLedger + unbooked = trades
  /\ late <= unbooked
  /\ count > 0 => trades = 1 /\ (unbooked = 0 \/ late > 0)
  /\ pc["reconciler"] = "compare" =>
       /\ snapshot <= trades
       /\ unbooked > 0 /\ late = 0 => snapshot = 0
       /\ count > 0 => unbooked = 0 /\ snapshot = 1

DriftInv ==
  /\ OneFillNeverTrips
  /\ trades <= 1 /\ ~excused => Explained

LEMMA DriftInit == Init => DriftInv
  BY DEF Init, DriftInv, OneFillNeverTrips, Explained

(* A step that leaves the books, the counts and the reconciler alone.         *)
LEMMA OthersKeepDrift ==
  ASSUME DriftInv, UNCHANGED <<atBroker, inLedger, unbooked, trades, late, excused>>,
         UNCHANGED <<snapshot, count, falseTrip>>,
         pc'["reconciler"] = "compare" => pc["reconciler"] = "compare"
  PROVE DriftInv'
  BY DEF DriftInv, OneFillNeverTrips, Explained

LEMMA DriftStep == TypeOK /\ DriftInv /\ [Next]_vars => DriftInv'
  <1> SUFFICES ASSUME TypeOK, DriftInv, [Next]_vars PROVE DriftInv'
    OBVIOUS
  <1> USE Watchdog, Constants
  <1>1. ASSUME NEW t \in Thread, Flag(t) \/ Mirror(t) \/ Disarm(t) \/ Save(t)
        PROVE DriftInv'
    BY <1>1, OthersKeepDrift DEF Flag, Mirror, Disarm, Save, Goto, TypeOK, bookVars,
       tickVars
  <1>2. ASSUME NEW t \in Caller, CallTrip(t) \/ CallClear(t) \/ CallArm(t) \/ Arm(t)
        PROVE DriftInv'
    BY <1>2, OthersKeepDrift DEF CallTrip, StartTrip, CallClear, CallArm, Arm, Goto,
       TypeOK, bookVars, tickVars
  <1>3. ASSUME ChangeMode \/ GuardianTick \/ BreachChanges \/ TickBegins \/ FetchFails
               \/ UNCHANGED vars
        PROVE DriftInv'
    BY <1>3, OthersKeepDrift DEF ChangeMode, GuardianTick, StartTrip, BreachChanges,
       TickBegins, FetchFails, Goto, TypeOK, vars, bookVars, tickVars
  <1>4. ASSUME TickOutsideLive PROVE DriftInv'
    BY <1>4 DEF TickOutsideLive, DriftInv, OneFillNeverTrips, Explained, bookVars, TypeOK
  <1>5. ASSUME Fetch PROVE DriftInv'
    <2>1. OneFillNeverTrips'
      BY <1>5 DEF Fetch, DriftInv, OneFillNeverTrips
    <2>2. ASSUME trades <= 1, ~excused' PROVE Explained'
      <3>1. ~excused /\ ~(late > 0) /\ live
        BY <1>5, <2>2 DEF Fetch
      <3>2. late = 0 /\ snapshot' = atBroker /\ late' = unbooked
        BY <1>5, <3>1 DEF Fetch, TypeOK
      <3>3. Explained
        BY <2>2, <3>1 DEF DriftInv
      <3> QED BY <1>5, <3>2, <3>3 DEF Fetch, Explained, TypeOK
    <2> QED BY <1>5, <2>1, <2>2 DEF Fetch, DriftInv
  <1>6. ASSUME NoDrift PROVE DriftInv'
    BY <1>6 DEF NoDrift, DriftInv, OneFillNeverTrips, Explained, bookVars, Goto, TypeOK
  <1>7. ASSUME Mismatch PROVE DriftInv'
    <2>1. pc'["reconciler"] # "compare"
      BY <1>7 DEF Mismatch, StartTrip, Goto, TypeOK
    <2>2. UNCHANGED <<atBroker, inLedger, unbooked, trades, late, excused>>
      BY <1>7 DEF Mismatch, bookVars
    <2>3. CASE trades > 1
      BY <2>2, <2>3 DEF DriftInv, OneFillNeverTrips, TypeOK
    <2>4. CASE trades <= 1 /\ excused
      <3>1. falseTrip' => falseTrip
        BY <1>7, <2>4 DEF Mismatch
      <3> QED BY <2>2, <2>4, <3>1 DEF DriftInv, OneFillNeverTrips
    <2>5. CASE trades <= 1 /\ ~excused
      <3>1. Explained /\ pc["reconciler"] = "compare" /\ snapshot # inLedger
        BY <1>7, <2>5 DEF Mismatch, HasDrift, DriftInv
      <3>2. count = 0 /\ trades = 1 /\ (unbooked = 0 \/ late > 0)
        BY <2>5, <3>1 DEF Explained, TypeOK
      <3>3. UNCHANGED falseTrip
        BY <1>7, <3>2 DEF Mismatch, Counted
      <3> QED BY <2>1, <2>2, <2>5, <3>1, <3>2, <3>3 DEF DriftInv, OneFillNeverTrips, Explained
    <2> QED BY <2>3, <2>4, <2>5 DEF TypeOK
  <1>8. ASSUME OrderFills \/ PaperFills \/ TradeOutside PROVE DriftInv'
    <2>1. UNCHANGED <<pc, late, snapshot, count, falseTrip>> /\ trades' = trades + 1
      BY <1>8 DEF OrderFills, PaperFills, TradeOutside, Trade, tickVars
    <2>2. OneFillNeverTrips'
      BY <2>1 DEF DriftInv, OneFillNeverTrips, TypeOK
    <2>3. CASE PaperFills \/ TradeOutside
      BY <2>2, <2>3 DEF PaperFills, TradeOutside, DriftInv
    <2>4. CASE OrderFills
      BY <2>1, <2>2, <2>4 DEF OrderFills, DriftInv, Explained, TypeOK
    <2> QED BY <1>8, <2>3, <2>4
  <1>9. ASSUME Book PROVE DriftInv'
    <2>1. UNCHANGED <<pc, snapshot, count, falseTrip, trades, excused, atBroker>>
      BY <1>9 DEF Book, tickVars
    <2>2. /\ unbooked > 0 /\ unbooked' = unbooked - 1 /\ inLedger' = inLedger + 1
          /\ late' = IF late > 0 THEN late - 1 ELSE 0
      BY <1>9 DEF Book
    <2> QED BY <2>1, <2>2 DEF DriftInv, OneFillNeverTrips, Explained, TypeOK
  <1>10. ASSUME Restart PROVE DriftInv'
    <2>1. UNCHANGED <<atBroker, inLedger, unbooked, trades, late, excused, falseTrip>>
      BY <1>10 DEF Restart, bookVars
    <2>2. pc'["reconciler"] = "idle" /\ count' = 0
      BY <1>10 DEF Restart
    <2> QED BY <2>1, <2>2 DEF DriftInv, OneFillNeverTrips, Explained
  <1> QED BY <1>1, <1>2, <1>3, <1>4, <1>5, <1>6, <1>7, <1>8, <1>9, <1>10 DEF Next
-------------------------------------------------------------------------------
THEOREM Invariance == Spec => [](TypeOK /\ TripInv /\ DriftInv)
  <1>1. TypeOK /\ TripInv /\ DriftInv /\ [Next]_vars => (TypeOK /\ TripInv /\ DriftInv)'
    BY TypeStep, TripStep, DriftStep
  <1> QED BY <1>1, TypeInit, TripInit, DriftInit, PTL DEF Spec

(* The flags, the threads of set_kill_switch and the counts keep their types. *)
THEOREM TypeCorrect == Spec => []TypeOK
  BY Invariance, PTL

(* A trip of the kill switch that no arm or clear overlaps stands, through    *)
(* concurrent trips, ticks, mode changes and restarts (set_kill_switch).      *)
THEOREM TripsStand == Spec => []TripStands
  <1>1. TripInv => TripStands
    BY DEF TripInv
  <1> QED BY <1>1, Invariance, PTL

(* One live fill that is booked in time never trips the switch, however the   *)
(* ticks, failed fetches, mode changes and restarts fall around it            *)
(* (_run_reconciliation_tick).                                                *)
THEOREM OneFillIsHarmless == Spec => []OneFillNeverTrips
  <1>1. DriftInv => OneFillNeverTrips
    BY DEF DriftInv
  <1> QED BY <1>1, Invariance, PTL
===============================================================================

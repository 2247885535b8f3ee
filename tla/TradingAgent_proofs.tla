-------------------------- MODULE TradingAgent_proofs --------------------------
(* Theorems about TradingAgent, for any hours, intervals, holidays and number *)
(* of loops, and any number of commands.                                      *)
EXTENDS TradingAgent, TLAPS

(* The loop told to run is the one started last, and no other lives; after a  *)
(* hasty start nothing is claimed until the process restarts.                 *)
LoopInv ==
  /\ cancelled \subseteq Alive
  /\ ~hasty => /\ \A t \in Alive : t = current
               /\ running <=> current \in Alive \ cancelled

(* A row is written for the day that is, and the process has that baseline.   *)
BaseInv ==
  /\ \A d \in Day : day < d => saved[d] = Never
  /\ saved[day] # Never /\ ~dbFailed => baseline = saved[day]

(* How long a loop stays where it is.                                         *)
ClosedUntil(t) ==
  time + left[t] <= EquityOpen \/ time + left[t] <= LongSleep \/ McxEod <= time

Stays(t) ==
  /\ at[t] \in {"none", "new"} => left[t] = 0
  /\ at[t] = "sleep" => left[t] <= Interval
  /\ at[t] \in Working => left[t] <= MaxTick
  /\ at[t] = "closed" => left[t] <= LongSleep /\ (IsTradingDay => ClosedUntil(t))
  /\ at[t] \in Market => tried[at[t]] = day /\ time + left[t] <= McxClose + MaxTick

Stay == \A t \in Loop : Stays(t) /\ (current < t => at[t] = "none")

Sweeps ==
  \A m \in Market : /\ swept[m] <= tried[m] /\ tried[m] <= day
                    /\ tried[m] = day => IsTradingDay /\ EodAt(m) <= time

Watchers ==
  \A m \in Market : /\ watch[m] \subseteq Alive
                    /\ ~hasty => \A t \in watch[m] : at[t] # "new"

(* The next tick comes at this time at the latest.                            *)
NextTick(t) == time + left[t] + (IF at[t] = "sleep" THEN 0 ELSE Interval)

(* A flag left from an earlier day falls before the windows of today.         *)
Flag(t, m) ==
  done[m] => at[t] # "new" /\ (tried[m] = day \/ NextTick(t) < EquityEod)

Flags == ~hasty => \A t \in Alive, m \in Market : Flag(t, m)

(* A loop asleep when a window began, and yet to square that market off, is   *)
(* still asleep, and wakes up within the window.                              *)
Due(t, m) == at[t] = "sleep" /\ time + left[t] <= EodAt(m) + Interval

Owes(t, m) == t \in watch[m] /\ IsTradingDay /\ EodAt(m) <= time /\ tried[m] # day

Dues == ~hasty => \A t \in Loop, m \in Market : Owes(t, m) => Due(t, m)

(* Entries are over when equities have been squared off.                      *)
Scans ==
  ~hasty => \A t \in Loop :
              at[t] = "scan" /\ "equity" \in scans[t] => tried["equity"] # day

Entries ==
  ~hasty /\ watch["equity"] # {} /\ swept["equity"] = day => ~entered

DayInv == Stay /\ Sweeps /\ Watchers /\ Flags /\ Dues /\ Scans /\ Entries
-------------------------------------------------------------------------------
LEMMA Hours ==
  /\ MaxLoop \in Nat /\ 1 <= MaxLoop /\ LastDay \in Nat
  /\ Premarket \in Nat /\ EquityOpen \in Nat /\ SnapshotStart \in Nat
  /\ EquityCutoff \in Nat /\ EquityEod \in Nat /\ EquityClose \in Nat
  /\ McxOpen \in Nat /\ McxEod \in Nat /\ McxClose \in Nat /\ DayLength \in Nat
  /\ LongSleep \in Nat /\ MaxTick \in Nat /\ Interval \in Nat /\ MaxCommands \in Nat
  /\ Premarket <= McxOpen /\ McxOpen <= EquityOpen /\ EquityOpen <= SnapshotStart
  /\ SnapshotStart <= EquityCutoff /\ EquityCutoff <= EquityEod
  /\ EquityEod <= EquityClose /\ EquityClose < McxEod /\ McxEod <= McxClose
  /\ McxClose + MaxTick < DayLength /\ LongSleep <= DayLength - EquityOpen
  BY AgentAssumption DEF AgentAssumption

LEMMA SleepIsLong == ASSUME TypeOK PROVE ClosedSleep \in 0..LongSleep
  <1> DEFINE toOpen == IF time < EquityOpen THEN EquityOpen - time
                       ELSE DayLength - time + EquityOpen
  <1>1. toOpen \in Nat
    BY Hours DEF TypeOK
  <1> HIDE DEF toOpen
  <1>2. (ClosedSleep = toOpen /\ toOpen < LongSleep) \/ ClosedSleep = LongSleep
    BY DEF ClosedSleep, toOpen
  <1> QED BY <1>1, <1>2, Hours

LEMMA TypeInit == Init => TypeOK
  <1> SUFFICES ASSUME Init PROVE TypeOK
    OBVIOUS
  <1>1. running \in BOOLEAN
    BY AgentAssumption, Zenon DEF Init, AgentAssumption
  <1>2. at \in [Loop -> Place] /\ current \in 0..MaxLoop
    BY Hours DEF Init, Booted, FirstLoop, Place
  <1>3. /\ left \in [Loop -> Nat] /\ scans \in [Loop -> SUBSET Market]
        /\ done \in [Market -> BOOLEAN] /\ cancelled \subseteq Loop
        /\ stopEvent \in BOOLEAN /\ dbFailed \in BOOLEAN
        /\ entered \in BOOLEAN /\ hasty \in BOOLEAN
    BY DEF Init, Fresh
  <1>4. /\ premarketDay \in Day \union {Never} /\ snapshotDay \in Day \union {Never}
        /\ tried \in [Market -> Day \union {Never}] /\ swept \in [Market -> Day \union {Never}]
        /\ watch \in [Market -> SUBSET Loop]
    BY DEF Init
  <1>5. /\ day \in Day /\ time \in 0..(DayLength - 1) /\ commands \in 0..MaxCommands
        /\ baseline \in Nat /\ marks \in Nat /\ saved \in [Day -> Nat \union {Never}]
    BY Hours DEF Init, Day
  <1> QED BY <1>1, <1>2, <1>3, <1>4, <1>5 DEF TypeOK

(* A loop goes to another place.                                              *)
LEMMA GoesTyped ==
  ASSUME TypeOK, NEW t \in Loop, NEW place \in Place, NEW units \in Nat,
         Goes(t, place, units)
  PROVE /\ at' \in [Loop -> Place] /\ left' \in [Loop -> Nat]
        /\ at'[t] = place /\ left'[t] = units
        /\ \A k \in Loop \ {t} : at'[k] = at[k] /\ left'[k] = left[k]
  BY DEF TypeOK, Goes

LEMMA BaselineTyped ==
  ASSUME TypeOK, NEW fresh \in BOOLEAN, NEW reads \in BOOLEAN, NEW writes \in BOOLEAN,
         EstablishBaseline(fresh, reads, writes)
  PROVE /\ baseline' \in Nat /\ marks' \in Nat /\ saved' \in [Day -> Nat \union {Never}]
        /\ dbFailed' \in BOOLEAN
  <1>1. CASE RowFound(fresh, reads)
    <2>1. baseline' = saved[day] /\ marks' = marks /\ saved' = saved
      BY <1>1 DEF EstablishBaseline
    <2>2. saved[day] \in Nat
      BY <1>1 DEF RowFound, TypeOK
    <2>3. dbFailed' \in BOOLEAN
      BY Zenon DEF EstablishBaseline
    <2> QED BY <2>1, <2>2, <2>3 DEF TypeOK
  <1>2. CASE ~RowFound(fresh, reads)
    <2>1. /\ baseline' = marks /\ marks' = marks + 1
          /\ saved' = saved \/ saved' = [saved EXCEPT ![day] = marks]
      BY <1>2 DEF EstablishBaseline
    <2>2. dbFailed' \in BOOLEAN
      BY Zenon DEF EstablishBaseline
    <2>3. saved' \in [Day -> Nat \union {Never}]
      BY <2>1 DEF TypeOK
    <2> QED BY <2>1, <2>2, <2>3 DEF TypeOK
  <1> QED BY <1>1, <1>2

(* A tick that starts, one that ends, and a loop that leaves.                 *)
TickBegins(t) ==
  \/ \E writes \in Stored : PremarketRoutine(t, writes)
  \/ \E m \in Market : Sweep(t, m)
  \/ ChainSnapshot(t) \/ SleepUntilOpen(t) \/ ScanAndExecute(t)

LoopLeaves(t) == LoopEnds(t) \/ CancelDelivered(t) \/ TickRaises(t)

LEMMA TickSplit ==
  ASSUME NEW t \in Loop, Tick(t)
  PROVE TickBegins(t) \/ EnqueueCandidate(t) \/ TickEnds(t) \/ LoopLeaves(t)
  BY DEF Tick, TickBegins, LoopLeaves

LEMMA LaterTyped ==
  ASSUME TypeOK, NEW t \in Loop, NEW place \in Place, NEW units \in Nat, Later(t),
         Goes(t, place, units), scans' \in [Loop -> SUBSET Market]
  PROVE TypeOK'
  <1>1. at' \in [Loop -> Place] /\ left' \in [Loop -> Nat]
    BY GoesTyped
  <1>2. done' \in [Market -> BOOLEAN]
    BY Zenon DEF Later, Cleared, TypeOK
  <1> QED BY <1>1, <1>2 DEF Later, TypeOK, NoCommand, baseVars, marketVars, clockVars

LEMMA TickBeginsTyped == ASSUME TypeOK, NEW t \in Loop, TickBegins(t) PROVE TypeOK'
  <1>1. ASSUME NEW writes \in Stored, PremarketRoutine(t, writes) PROVE TypeOK'
    <2>1. at' \in [Loop -> Place] /\ left' \in [Loop -> Nat]
      BY <1>1, GoesTyped, Hours DEF PremarketRoutine, Place, Working
    <2>2. writes \in BOOLEAN
      BY AgentAssumption DEF AgentAssumption
    <2>3. /\ baseline' \in Nat /\ marks' \in Nat /\ saved' \in [Day -> Nat \union {Never}]
          /\ dbFailed' \in BOOLEAN
      BY <1>1, <2>2, BaselineTyped DEF PremarketRoutine
    <2> QED BY <1>1, <2>1, <2>3 DEF PremarketRoutine, TypeOK, NoCommand, doneVars,
          marketVars, clockVars
  <1>2. ASSUME NEW m \in Market, Sweep(t, m) PROVE TypeOK'
    <2>1. at' \in [Loop -> Place] /\ left' \in [Loop -> Nat]
      BY <1>2, GoesTyped, Hours DEF Sweep, Place, Working
    <2>2. done' \in [Market -> BOOLEAN]
      BY <1>2, Zenon DEF Sweep, Cleared, TypeOK
    <2>4. tried' \in [Market -> Day \union {Never}]
      BY <1>2 DEF Sweep, TypeOK
    <2> QED BY <1>2, <2>1, <2>2, <2>4 DEF Sweep, TypeOK, NoCommand, baseVars, clockVars
  <1>3. CASE ChainSnapshot(t)
    BY <1>3, LaterTyped, Hours DEF ChainSnapshot, TypeOK, Place, Working
  <1>4. CASE SleepUntilOpen(t)
    BY <1>4, LaterTyped, SleepIsLong, Hours DEF SleepUntilOpen, TypeOK, Place
  <1>5. CASE ScanAndExecute(t)
    <2>1. scans' \in [Loop -> SUBSET Market]
      BY <1>5 DEF ScanAndExecute, TypeOK, Entering
    <2> QED BY <1>5, <2>1, LaterTyped, Hours DEF ScanAndExecute, Place, Working
  <1> QED BY <1>1, <1>2, <1>3, <1>4, <1>5 DEF TickBegins

LEMMA TickEndsTyped == ASSUME TypeOK, NEW t \in Loop, TickEnds(t) PROVE TypeOK'
  <1>1. at' \in [Loop -> Place] /\ left' \in [Loop -> Nat]
    BY GoesTyped, Hours DEF TickEnds, Place
  <1>2. done' \in [Market -> BOOLEAN]
    BY Zenon DEF TickEnds, TypeOK
  <1>3. premarketDay' \in Day \union {Never} /\ snapshotDay' \in Day \union {Never}
    BY DEF TickEnds, TypeOK
  <1>4. scans' \in [Loop -> SUBSET Market]
    BY DEF TickEnds, TypeOK
  <1>5. entered' \in BOOLEAN /\ swept' \in [Market -> Day \union {Never}]
    <2>1. CASE SweepReturns(t)
      <3>1. entered' \in BOOLEAN
        BY <2>1, Zenon DEF SweepReturns
      <3>2. swept' \in [Market -> Day \union {Never}]
        BY <2>1 DEF SweepReturns, TypeOK
      <3> QED BY <3>1, <3>2
    <2>2. CASE UNCHANGED <<swept, entered>>
      BY <2>2 DEF TypeOK
    <2> QED BY <2>1, <2>2 DEF TickEnds
  <1> QED BY <1>1, <1>2, <1>3, <1>4, <1>5 DEF TickEnds, TypeOK, NoCommand, baseVars, clockVars

LEMMA LeavesTyped == ASSUME TypeOK, NEW t \in Loop, LoopLeaves(t) PROVE TypeOK'
  <1>1. Leaves(t) /\ StopsRunning(t)
    BY DEF LoopLeaves, LoopEnds, CancelDelivered, TickRaises
  <1>2. running' \in BOOLEAN
    BY <1>1, Zenon DEF StopsRunning
  <1>3. at' \in [Loop -> Place] /\ left' \in [Loop -> Nat]
    BY <1>1, GoesTyped DEF Leaves, Place
  <1>4. /\ scans' \in [Loop -> SUBSET Market] /\ watch' \in [Market -> SUBSET Loop]
        /\ cancelled' \subseteq Loop
    BY <1>1 DEF Leaves, TypeOK
  <1> QED BY <1>1, <1>2, <1>3, <1>4 DEF Leaves, TypeOK, doneVars, baseVars, marketVars,
        clockVars

LEMMA CommandTyped ==
  ASSUME TypeOK, Commanded PROVE commands' \in 0..MaxCommands
  BY Hours DEF TypeOK, Commanded

LEMMA StartTyped == ASSUME TypeOK, Start PROVE TypeOK'
  <1>1. current' \in 0..MaxLoop /\ current' = current + 1
    <2>1. current < MaxLoop /\ current' = current + 1
      BY DEF Start
    <2>2. current \in 0..MaxLoop
      BY DEF TypeOK
    <2> QED BY <2>1, <2>2, Hours
  <1>4. at' \in [Loop -> Place]
    BY DEF Start, TypeOK, Place
  <1>5. commands' \in 0..MaxCommands
    BY CommandTyped DEF Start
  <1>2. hasty' \in BOOLEAN
    BY Zenon DEF Start
  <1>3. premarketDay' \in Day \union {Never} /\ done' \in [Market -> BOOLEAN]
    BY DEF Start, Fresh
  <1> QED BY <1>1, <1>2, <1>3, <1>4, <1>5 DEF Start, TypeOK, baseVars, marketVars, clockVars

LEMMA StopTyped == ASSUME TypeOK, Stop PROVE TypeOK'
  <1>1. cancelled' \subseteq Loop /\ commands' \in 0..MaxCommands
    BY CommandTyped DEF Stop, TypeOK, Alive
  <1> QED BY <1>1 DEF Stop, TypeOK, doneVars, baseVars, marketVars, clockVars

LEMMA RestartTyped ==
  ASSUME TypeOK, NEW reads \in Stored, NEW writes \in Stored, Restart(reads, writes)
  PROVE TypeOK'
  <1>1. reads \in BOOLEAN /\ writes \in BOOLEAN
    BY AgentAssumption DEF AgentAssumption
  <1>2. /\ baseline' \in Nat /\ marks' \in Nat /\ saved' \in [Day -> Nat \union {Never}]
        /\ dbFailed' \in BOOLEAN
    BY <1>1, BaselineTyped DEF Restart
  <1>3. running' \in BOOLEAN
    BY AgentAssumption, Zenon DEF Restart, AgentAssumption
  <1>4. at' \in [Loop -> Place] /\ current' \in 0..MaxLoop /\ commands' \in 0..MaxCommands
    BY CommandTyped, Hours DEF Restart, Booted, FirstLoop, Place
  <1>5. /\ left' \in [Loop -> Nat] /\ scans' \in [Loop -> SUBSET Market]
        /\ cancelled' \subseteq Loop /\ watch' \in [Market -> SUBSET Loop]
        /\ done' \in [Market -> BOOLEAN] /\ stopEvent' \in BOOLEAN /\ hasty' \in BOOLEAN
    BY DEF Restart, Fresh
  <1>6. premarketDay' \in Day \union {Never} /\ snapshotDay' \in Day \union {Never}
    BY DEF Restart
  <1> QED BY <1>2, <1>3, <1>4, <1>5, <1>6 DEF Restart, TypeOK, marketVars, clockVars

LEMMA TimeTyped == ASSUME TypeOK, TimePasses PROVE TypeOK'
  <1>1. day' \in Day /\ time' \in 0..(DayLength - 1)
    BY Hours DEF TimePasses, TypeOK, Day
  <1>2. left' \in [Loop -> Nat]
    BY DEF TimePasses, TypeOK
  <1>3. watch' \in [Market -> SUBSET Loop]
    BY DEF TimePasses, TypeOK, Alive
  <1> QED BY <1>1, <1>2, <1>3 DEF TimePasses, TypeOK, doneVars, baseVars, marketVars

LEMMA NextSplit ==
  ASSUME Next
  PROVE \/ \E t \in Loop : TickBegins(t) \/ EnqueueCandidate(t) \/ TickEnds(t) \/ LoopLeaves(t)
        \/ Start \/ Stop \/ TimePasses
        \/ \E reads, writes \in Stored : Restart(reads, writes)
  BY TickSplit DEF Next

LEMMA TypeNext == TypeOK /\ [Next]_vars => TypeOK'
  <1> SUFFICES ASSUME TypeOK, [Next]_vars PROVE TypeOK'
    OBVIOUS
  <1>1. ASSUME NEW t \in Loop, EnqueueCandidate(t) PROVE TypeOK'
    BY <1>1 DEF EnqueueCandidate, TypeOK, NoCommand, doneVars, baseVars, clockVars
  <1>2. CASE UNCHANGED vars
    BY <1>2 DEF TypeOK, vars, clockVars, loopVars, doneVars, baseVars, marketVars
  <1> QED BY <1>1, <1>2, NextSplit, TickBeginsTyped, TickEndsTyped, LeavesTyped,
        StartTyped, StopTyped, RestartTyped, TimeTyped

(* The agent's flags, days, loops and baselines keep their types.             *)
THEOREM TypeCorrect == Spec => []TypeOK
  BY TypeInit, TypeNext, PTL DEF Spec
-------------------------------------------------------------------------------
LEMMA LoopInit == Init => LoopInv
  <1> SUFFICES ASSUME Init PROVE LoopInv
    OBVIOUS
  <1>1. CASE AutoStart
    <2>1. Alive = {1}
      <3>1. at = Booted
        BY DEF Init
      <3>2. \A t \in Loop : at[t] = IF t = 1 THEN "new" ELSE "none"
        BY <1>1, <3>1 DEF Booted
      <3>3. 1 \in Loop
        BY Hours DEF Loop
      <3> QED BY <3>2, <3>3 DEF Alive
    <2>2. running
      BY <1>1, Zenon DEF Init
    <2>3. current = 1 /\ cancelled = {}
      BY <1>1 DEF Init, FirstLoop
    <2> QED BY <2>1, <2>2, <2>3 DEF LoopInv
  <1>2. CASE ~AutoStart
    <2>1. Alive = {} /\ ~running /\ cancelled = {}
      BY <1>2 DEF Init, Booted, Alive
    <2> QED BY <2>1 DEF LoopInv
  <1> QED BY <1>1, <1>2

(* A living loop that goes on living changes nothing for LoopInv.             *)
LEMMA SameAlive ==
  ASSUME LoopInv, Alive' = Alive, UNCHANGED <<running, current, cancelled, hasty>>
  PROVE LoopInv'
  BY DEF LoopInv

LEMMA GoesOnLiving ==
  ASSUME TypeOK, NEW t \in Alive, NEW place \in Place \ {"none", "ended"}, NEW units \in Nat,
         Goes(t, place, units)
  PROVE Alive' = Alive
  <1>1. t \in Loop /\ at[t] \notin {"none", "ended"}
    BY DEF Alive
  <1>2. /\ at'[t] = place
        /\ \A k \in Loop \ {t} : at'[k] = at[k]
    BY <1>1, GoesTyped
  <1> QED BY <1>1, <1>2 DEF Alive

LEMMA TickBeginsAlive ==
  ASSUME TypeOK, NEW t \in Loop, TickBegins(t)
  PROVE /\ t \in Alive /\ Alive' = Alive
        /\ UNCHANGED <<clockVars, running, stopEvent, current, cancelled, commands, hasty, watch>>
  <1>1. ASSUME TickStarts(t) PROVE t \in Alive
    BY <1>1 DEF TickStarts, Alive
  <1>2. ASSUME NEW writes \in Stored, PremarketRoutine(t, writes) PROVE Alive' = Alive
    BY <1>1, <1>2, GoesOnLiving, Hours DEF PremarketRoutine, Place, Working
  <1>3. ASSUME NEW m \in Market, Sweep(t, m) PROVE Alive' = Alive
    <2>1. m \in Place \ {"none", "ended"} /\ Goes(t, m, MaxTick) /\ t \in Alive
      BY <1>1, <1>3 DEF Place, Working, Market, Sweep
    <2> QED BY <2>1, GoesOnLiving, Hours
  <1>4. ASSUME ChainSnapshot(t) PROVE Alive' = Alive
    BY <1>1, <1>4, GoesOnLiving, Hours DEF ChainSnapshot, Later, Place, Working
  <1>5. ASSUME SleepUntilOpen(t) PROVE Alive' = Alive
    BY <1>1, <1>5, GoesOnLiving, SleepIsLong, Hours DEF SleepUntilOpen, Later, Place
  <1>6. ASSUME ScanAndExecute(t) PROVE Alive' = Alive
    BY <1>1, <1>6, GoesOnLiving, Hours DEF ScanAndExecute, Later, Place, Working
  <1>7. t \in Alive
    BY <1>1 DEF TickBegins, PremarketRoutine, Sweep, ChainSnapshot, SleepUntilOpen,
       ScanAndExecute, Later
  <1>8. UNCHANGED <<clockVars, running, stopEvent, current, cancelled, commands, hasty, watch>>
    BY DEF TickBegins, PremarketRoutine, Sweep, ChainSnapshot, SleepUntilOpen,
       ScanAndExecute, Later, NoCommand
  <1> QED BY <1>2, <1>3, <1>4, <1>5, <1>6, <1>7, <1>8 DEF TickBegins

LEMMA TickEndsAlive ==
  ASSUME TypeOK, NEW t \in Loop, TickEnds(t) PROVE t \in Alive /\ Alive' = Alive
  <1>1. t \in Alive
    BY DEF TickEnds, Alive, Working, Market
  <1> QED BY <1>1, GoesOnLiving, Hours DEF TickEnds, Place

LEMMA LeavesAlive ==
  ASSUME TypeOK, NEW t \in Loop, Leaves(t)
  PROVE /\ Alive' = Alive \ {t}
        /\ \A k \in Loop \ {t} : at'[k] = at[k] /\ left'[k] = left[k]
  BY DEF Leaves, Goes, Alive, TypeOK

LEMMA LeavesLoop == ASSUME TypeOK, LoopInv, NEW t \in Loop, LoopLeaves(t) PROVE LoopInv'
  <1>1. Leaves(t) /\ StopsRunning(t)
    BY DEF LoopLeaves, LoopEnds, CancelDelivered, TickRaises
  <1>2. hasty' = hasty /\ current' = current /\ cancelled' = cancelled \ {t}
        /\ Alive' = Alive \ {t}
    BY <1>1, LeavesAlive DEF Leaves
  <1> SUFFICES ASSUME ~hasty
               PROVE /\ \A k \in Alive' : k = current'
                     /\ cancelled' \subseteq Alive'
                     /\ running' <=> current' \in Alive' \ cancelled'
    BY <1>2 DEF LoopInv
  <1>3. t = current /\ t \in Alive
    <2>1. t \in Alive
      BY <1>2 DEF LoopLeaves, LoopEnds, CancelDelivered, TickRaises, Alive, LoopInv
    <2> QED BY <2>1, <1>2 DEF LoopInv
  <1>4. Alive' = {} /\ cancelled' = {}
    BY <1>2, <1>3 DEF LoopInv
  <1>5. ~running'
    <2>1. CASE t \in cancelled
      BY <2>1, <1>1, <1>2, <1>3 DEF LoopInv, StopsRunning
    <2>2. CASE t \notin cancelled
      BY <2>2, <1>1 DEF Finally, StopsRunning
    <2> QED BY <2>1, <2>2
  <1> QED BY <1>2, <1>4, <1>5

LEMMA LoopNext == TypeOK /\ LoopInv /\ [Next]_vars => LoopInv'
  <1> SUFFICES ASSUME TypeOK, LoopInv, [Next]_vars PROVE LoopInv'
    OBVIOUS
  <1>1. ASSUME NEW t \in Loop, TickBegins(t) PROVE LoopInv'
    BY <1>1, TickBeginsAlive, SameAlive
  <1>2. ASSUME NEW t \in Loop, EnqueueCandidate(t) PROVE LoopInv'
    BY <1>2, SameAlive DEF EnqueueCandidate, NoCommand, Alive
  <1>3. ASSUME NEW t \in Loop, TickEnds(t) PROVE LoopInv'
    BY <1>3, TickEndsAlive, SameAlive DEF TickEnds, NoCommand
  <1>4. CASE Start
    <2>2. current + 1 \in Loop /\ current' = current + 1
      <3>1. current < MaxLoop /\ current' = current + 1
        BY <1>4 DEF Start
      <3>2. current \in 0..MaxLoop
        BY DEF TypeOK
      <3> QED BY <3>1, <3>2, Hours DEF Loop
    <2>3. Alive' = Alive \union {current'} /\ cancelled' = cancelled /\ running'
      <3>1. Alive' = Alive \union {current'}
        BY <1>4, <2>2 DEF Start, Alive, TypeOK
      <3> QED BY <3>1, <1>4 DEF Start
    <2>4. ~hasty' => Alive = {}
      BY <1>4 DEF Start
    <2> QED BY <2>3, <2>4 DEF LoopInv
  <1>5. CASE Stop
    <2>1. Alive' = Alive /\ UNCHANGED <<current, hasty>> /\ ~running'
      BY <1>5 DEF Stop, Alive
    <2>2. cancelled' = cancelled \union ({current} \intersect Alive)
      BY <1>5 DEF Stop
    <2> QED BY <2>1, <2>2 DEF LoopInv
  <1>6. ASSUME NEW reads \in Stored, NEW writes \in Stored, Restart(reads, writes)
        PROVE LoopInv'
    <2>1. CASE AutoStart
      <3>1. Alive' = {1}
        BY <1>6, <2>1, Hours DEF Restart, Booted, Alive, Loop
      <3>2. running'
        BY <1>6, <2>1, Zenon DEF Restart
      <3>3. current' = 1 /\ cancelled' = {}
        BY <1>6, <2>1 DEF Restart, FirstLoop
      <3> QED BY <3>1, <3>2, <3>3 DEF LoopInv
    <2>2. CASE ~AutoStart
      <3>1. Alive' = {} /\ ~running' /\ cancelled' = {}
        BY <1>6, <2>2 DEF Restart, Booted, Alive
      <3> QED BY <3>1 DEF LoopInv
    <2> QED BY <2>1, <2>2
  <1>7. CASE TimePasses \/ UNCHANGED vars
    BY <1>7, SameAlive DEF TimePasses, Alive, vars, loopVars
  <1>8. ASSUME NEW t \in Loop, LoopLeaves(t) PROVE LoopInv'
    BY <1>8, LeavesLoop
  <1> QED BY <1>1, <1>2, <1>3, <1>4, <1>5, <1>6, <1>7, <1>8, NextSplit

LEMMA LoopInvIsOneLoop == LoopInv => OneLoop
  BY Zenon DEF LoopInv, OneLoop

(* The agent is "running" exactly if one loop lives that was not told to stop,*)
(* unless a start did not wait for the end of the loop before it.             *)
THEOREM AlwaysOneLoop == Spec => []OneLoop
  <1>1. Init => LoopInv
    BY LoopInit
  <1>2. TypeOK /\ LoopInv /\ [Next]_vars => LoopInv'
    BY LoopNext
  <1> QED BY <1>1, <1>2, TypeCorrect, LoopInvIsOneLoop, PTL DEF Spec
-------------------------------------------------------------------------------
LEMMA BaseInit == Init => BaseInv
  <1> SUFFICES ASSUME Init PROVE BaseInv
    OBVIOUS
  <1>1. day = 0 /\ baseline = 0 /\ saved = [d \in Day |-> IF d = 0 THEN 0 ELSE Never]
    BY DEF Init
  <1>2. 0 \in Day
    BY Hours DEF Day
  <1> QED BY <1>1, <1>2 DEF BaseInv, Day

LEMMA Established ==
  ASSUME TypeOK, BaseInv, NEW fresh \in BOOLEAN, NEW reads \in BOOLEAN,
         NEW writes \in BOOLEAN, EstablishBaseline(fresh, reads, writes), day' = day
  PROVE /\ BaseInv'
        /\ ~fresh /\ ~dbFailed' /\ saved[day] # Never =>
             saved' = saved /\ baseline' = saved[day]
  <1>1. day \in Day
    BY DEF TypeOK
  <1>2. CASE RowFound(fresh, reads)
    <2>1. baseline' = saved[day] /\ saved' = saved
      BY <1>2 DEF EstablishBaseline
    <2> QED BY <2>1 DEF BaseInv
  <1>3. CASE ~RowFound(fresh, reads)
    <2>1. /\ baseline' = marks
          /\ saved' = IF writes THEN [saved EXCEPT ![day] = marks] ELSE saved
      BY <1>3 DEF EstablishBaseline
    <2>2. ~dbFailed' => writes /\ (fresh \/ reads)
      BY <1>3, Zenon DEF EstablishBaseline
    <2>3. ~dbFailed' => saved'[day] = marks
      BY <1>1, <2>1, <2>2 DEF TypeOK
    <2>4. \A d \in Day : day < d => saved'[d] = Never
      BY <1>1, <2>1 DEF BaseInv, TypeOK, Day
    <2>5. ~fresh /\ ~dbFailed' => saved[day] = Never
      BY <1>3, <2>2 DEF RowFound
    <2> QED BY <2>1, <2>3, <2>4, <2>5 DEF BaseInv
  <1> QED BY <1>2, <1>3

(* What a step does to the baseline and its row.                              *)
BaseStep ==
  \/ UNCHANGED <<day, baseline, saved, dbFailed>>
  \/ day' = day + 1 /\ day' \in Day /\ UNCHANGED <<baseline, saved, dbFailed>>
  \/ /\ UNCHANGED <<day, time>>
     /\ \E fresh, reads, writes \in BOOLEAN :
          EstablishBaseline(fresh, reads, writes) /\ (fresh => time < EquityOpen)

LEMMA BaseSteps == TypeOK /\ [Next]_vars => BaseStep
  <1> SUFFICES ASSUME TypeOK, [Next]_vars PROVE BaseStep
    OBVIOUS
  <1>1. ASSUME NEW t \in Loop, NEW writes \in Stored, PremarketRoutine(t, writes)
        PROVE BaseStep
    <2>1. EstablishBaseline(TRUE, TRUE, writes) /\ time < EquityOpen /\ UNCHANGED <<day, time>>
      BY <1>1 DEF PremarketRoutine, PremarketDue, IsPremarket, NoCommand, clockVars
    <2>2. writes \in BOOLEAN
      BY AgentAssumption DEF AgentAssumption
    <2> QED BY <2>1, <2>2 DEF BaseStep
  <1>2. ASSUME NEW t \in Loop, TickBegins(t), ~(\E writes \in Stored : PremarketRoutine(t, writes))
        PROVE BaseStep
    BY <1>2 DEF TickBegins, Sweep, ChainSnapshot, SleepUntilOpen, ScanAndExecute, Later,
       NoCommand, clockVars, baseVars, BaseStep
  <1>3. ASSUME NEW t \in Loop, EnqueueCandidate(t) \/ TickEnds(t) \/ LoopLeaves(t)
        PROVE BaseStep
    BY <1>3 DEF EnqueueCandidate, TickEnds, LoopLeaves, LoopEnds, CancelDelivered,
       TickRaises, Leaves, NoCommand, clockVars, baseVars, BaseStep
  <1>4. CASE Start \/ Stop \/ UNCHANGED vars
    BY <1>4 DEF Start, Stop, vars, clockVars, baseVars, BaseStep
  <1>5. CASE TimePasses
    <2>1. UNCHANGED <<baseline, saved, dbFailed>> /\ (day' = day \/ day' = day + 1)
      BY <1>5 DEF TimePasses, baseVars
    <2>2. day' \in Day
      BY <1>5, TimeTyped DEF TypeOK
    <2> QED BY <2>1, <2>2 DEF BaseStep
  <1>6. ASSUME NEW reads \in Stored, NEW writes \in Stored, Restart(reads, writes)
        PROVE BaseStep
    <2>1. reads \in BOOLEAN /\ writes \in BOOLEAN
      BY AgentAssumption DEF AgentAssumption
    <2> QED BY <1>6, <2>1 DEF Restart, BaseStep, clockVars
  <1> QED BY <1>1, <1>2, <1>3, <1>4, <1>5, <1>6, NextSplit

LEMMA BaseNext == TypeOK /\ BaseInv /\ BaseStep => BaseInv'
  <1> SUFFICES ASSUME TypeOK, BaseInv, BaseStep PROVE BaseInv'
    OBVIOUS
  <1>1. CASE UNCHANGED <<day, baseline, saved, dbFailed>>
    BY <1>1 DEF BaseInv
  <1>2. CASE day' = day + 1 /\ day' \in Day /\ UNCHANGED <<baseline, saved, dbFailed>>
    BY <1>2 DEF BaseInv, TypeOK, Day
  <1> QED BY <1>1, <1>2, Established DEF BaseStep

LEMMA BaseKept ==
  ASSUME TypeOK, BaseInv, BaseStep, EquityOpen <= time, day' = day, saved[day] # Never,
         ~dbFailed'
  PROVE saved'[day] = saved[day] /\ baseline' = saved[day]
  <1>1. CASE UNCHANGED <<day, baseline, saved, dbFailed>>
    BY <1>1 DEF BaseInv
  <1>2. CASE day' = day + 1
    BY <1>2 DEF TypeOK, Day
  <1>3. ASSUME NEW fresh \in BOOLEAN, NEW reads \in BOOLEAN, NEW writes \in BOOLEAN,
               EstablishBaseline(fresh, reads, writes), fresh => time < EquityOpen
        PROVE saved'[day] = saved[day] /\ baseline' = saved[day]
    <2>1. ~fresh
      BY <1>3, Hours DEF TypeOK
    <2> QED BY <1>3, <2>1, Established
  <1> QED BY <1>1, <1>2, <1>3 DEF BaseStep

(* Once equities trade, the day's baseline stays the one that the day started *)
(* with, across restarts of the process, unless the database failed.          *)
THEOREM BaselineIsKept == Spec => BaselineKept
  <1>1. Init => BaseInv
    BY BaseInit
  <1>2. TypeOK /\ BaseInv /\ [Next]_vars => BaseInv'
    BY BaseSteps, BaseNext
  <1>3. TypeOK /\ BaseInv /\ [Next]_vars
          => [EquityOpen <= time /\ day' = day /\ saved[day] # Never /\ ~dbFailed'
                => saved'[day] = saved[day] /\ baseline' = saved[day]]_vars
    BY BaseSteps, BaseKept
  <1> QED BY <1>1, <1>2, <1>3, TypeCorrect, PTL DEF Spec, BaselineKept
-------------------------------------------------------------------------------
LEMMA Windows ==
  ASSUME InTime, NEW m \in Market
  PROVE /\ EodAt(m) \in Nat /\ CloseAt(m) \in Nat
        /\ EquityEod <= EodAt(m) /\ EodAt(m) <= McxEod
        /\ EodAt(m) <= CloseAt(m) /\ CloseAt(m) <= McxClose
        /\ EodAt(m) + Interval <= CloseAt(m)
  <1>1. Interval <= CloseAt(m) - EodAt(m)
    BY DEF InTime
  <1> QED BY <1>1, Hours DEF EodAt, CloseAt, Market

LEMMA Short ==
  ASSUME InTime
  PROVE /\ LongSleep + Interval < EquityEod
        /\ EquityOpen + MaxTick + Interval < EquityEod
  BY DEF InTime

LEMMA Clocks ==
  ASSUME TypeOK
  PROVE /\ time \in Nat /\ time < DayLength /\ day \in Nat
        /\ \A t \in Loop : left[t] \in Nat
        /\ \A m \in Market : tried[m] \in Int /\ swept[m] \in Int
  BY Hours DEF TypeOK, Day, Never

LEMMA DayInit == ASSUME Init, TypeOK, InTime PROVE DayInv
  <1>1. \A t \in Loop : at[t] \in {"none", "new"} /\ left[t] = 0
    BY DEF Init, Booted
  <1>2. \A t \in Loop : current < t => at[t] = "none"
    BY DEF Init, Booted, FirstLoop, Loop
  <1>3. Stay
    BY <1>1, <1>2 DEF Stay, Stays, Working, Market
  <1>4. Sweeps
    BY DEF Init, Sweeps, Never
  <1>5. Watchers /\ Flags /\ Scans /\ Dues
    BY <1>1 DEF Init, Fresh, Watchers, Flags, Flag, Scans, Dues, Owes
  <1>6. Entries
    BY DEF Init, Entries
  <1> QED BY <1>3, <1>4, <1>5, <1>6 DEF DayInv

(* One loop moves: what has to be shown for it alone.                         *)
LEMMA OneMoves ==
  ASSUME TypeOK, LoopInv, DayInv, NEW t \in Alive,
         NEW place \in Place \ {"none", "new", "ended"}, NEW units \in Nat,
         Goes(t, place, units), UNCHANGED <<day, time, hasty, watch, current>>,
         \A k \in Loop \ {t} : scans'[k] = scans[k],
         \A m \in Market : \/ tried'[m] = tried[m]
                           \/ tried'[m] = day /\ IsTradingDay /\ EodAt(m) <= time,
         \A m \in Market : swept'[m] = swept[m] \/ (swept'[m] = day /\ tried'[m] = day),
         Stays(t)', Entries',
         ~hasty => \A m \in Market : Flag(t, m)' /\ (Owes(t, m)' => Due(t, m)'),
         ~hasty /\ place = "scan" /\ "equity" \in scans'[t] => tried'["equity"] # day
  PROVE DayInv'
  <1>1. t \in Loop
    BY DEF Alive
  <1>2. /\ at'[t] = place
        /\ \A k \in Loop \ {t} : at'[k] = at[k] /\ left'[k] = left[k]
    BY <1>1, GoesTyped
  <1>3. Alive' = Alive
    BY GoesOnLiving
  <1>4. ~hasty => Alive = {t}
    BY DEF LoopInv
  <1>5. Stay'
    <2> SUFFICES ASSUME NEW k \in Loop \ {t}
                 PROVE Stays(k)' /\ (current' < k => at'[k] = "none")
      <3>1. current' < t => at'[t] = "none"
        BY <1>1 DEF DayInv, Stay, Alive
      <3> QED BY <3>1 DEF Stay
    <2>1. Stays(k) /\ (current < k => at[k] = "none")
      BY DEF DayInv, Stay
    <2> QED BY <1>2, <2>1 DEF Stays, ClosedUntil, IsTradingDay
  <1>6. Sweeps'
    BY Clocks DEF DayInv, Sweeps, IsTradingDay, EodAt
  <1>7. Watchers'
    BY <1>2, <1>3, <1>4 DEF DayInv, Watchers
  <1>8. Flags'
    BY <1>3, <1>4 DEF Flags
  <1>9. Dues'
    <2>1. ASSUME ~hasty, NEW k \in Loop, NEW m \in Market, Owes(k, m)' PROVE k = t
      BY <1>4, <2>1 DEF Owes, DayInv, Watchers
    <2> QED BY <2>1, <1>1 DEF Dues
  <1>10. Scans'
    BY <1>2, <1>4 DEF Scans, Alive
  <1> QED BY <1>5, <1>6, <1>7, <1>8, <1>9, <1>10 DEF DayInv

(* The state in which a tick starts.                                          *)
LEMMA AtTick ==
  ASSUME TypeOK, LoopInv, DayInv, InTime, NEW t \in Loop, TickStarts(t), ~hasty,
         NEW m \in Market
  PROVE /\ done[m] /\ tried[m] # day => time < EquityEod
        /\ Owes(t, m) => SweepDue(m)
  <1>1. t \in Alive /\ left[t] = 0 /\ at[t] \in {"new", "sleep"}
    BY DEF TickStarts, DayInv, Stay, Stays, Alive
  <1>2. done[m] /\ tried[m] # day => time < EquityEod
    <2>1. Flag(t, m)
      BY <1>1 DEF DayInv, Flags
    <2> QED BY <1>1, <2>1, Clocks DEF Flag, NextTick
  <1>3. ASSUME Owes(t, m) PROVE SweepDue(m)
    <2>2. time <= EodAt(m) + Interval
      BY <1>1, <1>3, Clocks DEF DayInv, Dues, Due
    <2>3. time <= CloseAt(m)
      BY <2>2, Windows, Clocks, Hours
    <2>4. ~done[m]
      BY <1>2, <1>3, Windows, Clocks, Hours DEF Owes
    <2> QED BY <1>3, <2>3, <2>4 DEF SweepDue, IsEodSquareoff, Owes
  <1> QED BY <1>2, <1>3

(* The parts of a tick.                                                       *)
LEMMA PremarketDay ==
  ASSUME TypeOK, LoopInv, DayInv, InTime, NEW t \in Loop, NEW writes \in Stored,
         PremarketRoutine(t, writes)
  PROVE DayInv'
  <1>1. /\ TickStarts(t) /\ time < EquityOpen
        /\ Goes(t, "premarket", MaxTick)
        /\ UNCHANGED <<day, time, hasty, watch, current, scans, done, tried, swept, entered>>
    BY DEF PremarketRoutine, PremarketDue, IsPremarket, NoCommand, clockVars, doneVars,
       marketVars
  <1>2. t \in Alive
    BY <1>1 DEF TickStarts, Alive
  <1>3. at'[t] = "premarket" /\ left'[t] = MaxTick
    BY <1>1, GoesTyped, Hours DEF Place, Working
  <1>4. Stays(t)'
    BY <1>3, Hours DEF Stays, Working, Market
  <1>5. \A m \in Market : Flag(t, m)' /\ ~Owes(t, m)'
    <2> TAKE m \in Market
    <2>1. NextTick(t)' < EquityEod
      BY <1>1, <1>3, Short, Clocks, Hours DEF NextTick
    <2>2. ~(EodAt(m) <= time)
      BY <1>1, Windows, Clocks, Hours
    <2> QED BY <1>1, <1>3, <2>1, <2>2 DEF Flag, Owes, EodAt
  <1>6. Entries'
    BY <1>1 DEF DayInv, Entries
  <1>7. "premarket" \in Place \ {"none", "new", "ended"}
    BY DEF Place, Working
  <1> QED BY <1>1, <1>2, <1>4, <1>5, <1>6, <1>7, OneMoves, Hours

LEMMA SweepDay ==
  ASSUME TypeOK, LoopInv, DayInv, InTime, NEW t \in Loop, NEW m \in Market, Sweep(t, m)
  PROVE DayInv'
  <1>1. /\ TickStarts(t) /\ IsEodSquareoff(m) /\ (m = "mcx" => ~SweepDue("equity"))
        /\ Goes(t, m, MaxTick) /\ tried' = [tried EXCEPT ![m] = day]
        /\ UNCHANGED <<day, time, hasty, watch, current, scans>>
    BY DEF Sweep, SweepDue, NoCommand, clockVars
  <1>2. t \in Alive
    BY <1>1 DEF TickStarts, Alive
  <1>3. at'[t] = m /\ left'[t] = MaxTick
    BY <1>1, GoesTyped, Hours DEF Place, Working
  <1>4. tried'[m] = day /\ \A k \in Market \ {m} : tried'[k] = tried[k]
    BY <1>1 DEF TypeOK
  <1>5. IsTradingDay /\ EodAt(m) <= time /\ time <= CloseAt(m)
    BY <1>1 DEF IsEodSquareoff
  <1>6. Stays(t)'
    <2>1. time + MaxTick <= McxClose + MaxTick
      BY <1>5, Windows, Clocks, Hours
    <2> QED BY <1>1, <1>3, <1>4, <2>1, Hours DEF Stays, Working, Market
  <1>7. ASSUME ~hasty, NEW k \in Market PROVE Flag(t, k)' /\ ~Owes(t, k)'
    <2>1. done'[k] => done[k]
      BY DEF Sweep, Cleared
    <2>2. Flag(t, k)'
      <3>1. done[k] => tried[k] = day
        BY <1>1, <1>5, <1>7, AtTick, Windows, Clocks, Hours
      <3>2. tried'[k] = day \/ tried'[k] = tried[k]
        BY <1>4
      <3> QED BY <1>1, <1>3, <2>1, <3>1, <3>2 DEF Flag, Market
    <2>3. ~Owes(t, k)'
      <3>1. CASE k = m
        BY <1>1, <1>4, <3>1 DEF Owes
      <3>2. CASE k # m /\ k = "equity"
        <4>1. ~Owes(t, k)
          BY <1>1, <1>7, <3>2, AtTick DEF Market
        <4> QED BY <1>1, <1>4, <3>2, <4>1 DEF Owes, IsTradingDay, EodAt
      <3>3. CASE k # m /\ k = "mcx"
        <4>1. time <= EquityClose
          BY <1>5, <3>3 DEF CloseAt, Market
        <4>2. ~(EodAt(k) <= time)
          BY <3>3, <4>1, Clocks, Hours DEF EodAt
        <4> QED BY <1>1, <4>2 DEF Owes, EodAt
      <3> QED BY <3>1, <3>2, <3>3 DEF Market
    <2> QED BY <2>2, <2>3
  <1>8. Entries' /\ UNCHANGED swept
    BY <1>1 DEF Sweep, DayInv, Entries
  <1>9. m \in Place \ {"none", "new", "ended"} /\ m # "scan"
    BY DEF Place, Working, Market
  <1>10. \A k \in Market : \/ tried'[k] = tried[k]
                           \/ tried'[k] = day /\ IsTradingDay /\ EodAt(k) <= time
    BY <1>4, <1>5
  <1> QED BY <1>1, <1>2, <1>6, <1>7, <1>8, <1>9, <1>10, OneMoves, Hours

(* A tick that finds nothing to square off clears the flags of other days.    *)
LEMMA LaterDay ==
  ASSUME TypeOK, LoopInv, DayInv, InTime, NEW t \in Loop, Later(t),
         NEW place \in {"snapshot", "closed", "scan"}, NEW units \in Nat,
         Goes(t, place, units), Stays(t)',
         \A k \in Loop \ {t} : scans'[k] = scans[k],
         place = "scan" /\ "equity" \in scans'[t] => tried["equity"] # day
  PROVE DayInv'
  <1>1. /\ TickStarts(t) /\ \A m \in Market : ~SweepDue(m)
        /\ UNCHANGED <<day, time, hasty, watch, current, tried, swept, entered>>
    BY DEF Later, NoCommand, clockVars, marketVars
  <1>2. t \in Alive
    BY <1>1 DEF TickStarts, Alive
  <1>3. at'[t] = place
    BY GoesTyped DEF Place, Working
  <1>4. ASSUME ~hasty, NEW m \in Market PROVE Flag(t, m)' /\ ~Owes(t, m)'
    <2>1. done'[m] => done[m] /\ IsEodSquareoff(m)
      BY DEF Later, Cleared
    <2>2. done'[m] => tried[m] = day
      BY <1>1, <1>4, <2>1, AtTick, Windows, Clocks, Hours DEF IsEodSquareoff
    <2>3. ~Owes(t, m)
      BY <1>1, <1>4, AtTick
    <2> QED BY <1>1, <1>3, <2>2, <2>3 DEF Flag, Owes, IsTradingDay, EodAt
  <1>5. Entries'
    BY <1>1 DEF DayInv, Entries
  <1>6. place \in Place \ {"none", "new", "ended"}
    BY DEF Place, Working
  <1>7. \A m \in Market : tried'[m] = tried[m]
    BY <1>1
  <1> QED BY <1>1, <1>2, <1>4, <1>5, <1>6, <1>7, OneMoves

LEMMA ChainDay ==
  ASSUME TypeOK, LoopInv, DayInv, InTime, NEW t \in Loop, ChainSnapshot(t) PROVE DayInv'
  <1>1. Later(t) /\ Goes(t, "snapshot", MaxTick) /\ scans' = scans
    BY DEF ChainSnapshot
  <1>2. at'[t] = "snapshot" /\ left'[t] = MaxTick
    BY <1>1, GoesTyped, Hours DEF Place, Working
  <1>3. Stays(t)'
    BY <1>2, Hours DEF Stays, Working, Market
  <1> QED BY <1>1, <1>3, LaterDay, Hours

LEMMA ScanDay ==
  ASSUME TypeOK, LoopInv, DayInv, InTime, NEW t \in Loop, ScanAndExecute(t) PROVE DayInv'
  <1>1. /\ Later(t) /\ Goes(t, "scan", MaxTick)
        /\ scans' = [scans EXCEPT ![t] = Entering]
    BY DEF ScanAndExecute
  <1>2. at'[t] = "scan" /\ left'[t] = MaxTick
    BY <1>1, GoesTyped, Hours DEF Place, Working
  <1>3. Stays(t)'
    BY <1>2, Hours DEF Stays, Working, Market
  <1>4. "equity" \in scans'[t] => tried["equity"] # day
    <2>1. "equity" \in scans'[t] => time < EquityCutoff
      BY <1>1 DEF Entering, EntryAllowed, CutoffAt, TypeOK
    <2>2. tried["equity"] = day => EquityEod <= time
      BY DEF DayInv, Sweeps, EodAt, Market
    <2> QED BY <2>1, <2>2, Clocks, Hours
  <1>5. \A k \in Loop \ {t} : scans'[k] = scans[k]
    BY <1>1 DEF TypeOK
  <1> QED BY <1>1, <1>3, <1>4, <1>5, LaterDay, Hours

LEMMA ClosedDay ==
  ASSUME TypeOK, LoopInv, DayInv, InTime, NEW t \in Loop, SleepUntilOpen(t) PROVE DayInv'
  <1>1. Later(t) /\ Goes(t, "closed", ClosedSleep) /\ scans' = scans /\ Entering = {}
    BY DEF SleepUntilOpen
  <1>2. ClosedSleep \in Nat /\ ClosedSleep <= LongSleep
    BY SleepIsLong, Hours
  <1>3. at'[t] = "closed" /\ left'[t] = ClosedSleep
    BY <1>1, <1>2, GoesTyped DEF Place
  <1>4. ASSUME IsTradingDay, time < McxEod PROVE time + ClosedSleep <= EquityOpen
    <2>1. ~EntryAllowed("mcx")
      BY <1>1 DEF Entering, Market
    <2>2. time < McxOpen
      BY <1>4, <2>1, Clocks, Hours DEF EntryAllowed, OpenAt, CutoffAt
    <2>3. time < EquityOpen
      BY <2>2, Clocks, Hours
    <2>4. ClosedSleep <= EquityOpen - time
      BY <1>4, <2>3, Clocks, Hours DEF ClosedSleep, IsTradingDay
    <2> QED BY <2>4, <1>2, Clocks, Hours
  <1>5. UNCHANGED <<day, time>>
    BY <1>1 DEF Later, NoCommand, clockVars
  <1>6. Stays(t)'
    <2>1. IsTradingDay => time + ClosedSleep <= EquityOpen \/ McxEod <= time
      BY <1>4, Clocks, Hours
    <2> QED BY <1>2, <1>3, <1>5, <2>1 DEF Stays, ClosedUntil, IsTradingDay, Working, Market
  <1> QED BY <1>1, <1>2, <1>6, LaterDay

LEMMA EnqueueDay ==
  ASSUME TypeOK, LoopInv, DayInv, NEW t \in Loop, EnqueueCandidate(t) PROVE DayInv'
  <1>1. /\ at[t] = "scan" /\ "equity" \in scans[t]
        /\ UNCHANGED <<day, time, hasty, watch, current, scans, done, tried, swept, at, left>>
    BY DEF EnqueueCandidate, NoCommand, clockVars, doneVars
  <1>2. Stay' /\ Sweeps' /\ Watchers' /\ Flags' /\ Dues' /\ Scans'
    <2> USE <1>1 DEF DayInv
    <2>1. Stay' /\ Sweeps' /\ Scans'
      BY DEF Stay, Stays, ClosedUntil, Sweeps, Scans, IsTradingDay, EodAt
    <2>2. Watchers' /\ Flags'
      BY DEF Watchers, Flags, Flag, NextTick, Alive
    <2>3. Dues'
      BY DEF Dues, Due, Owes, IsTradingDay, EodAt
    <2> QED BY <2>1, <2>2, <2>3
  <1>3. Entries'
    <2>1. ~hasty => tried["equity"] # day
      BY <1>1 DEF DayInv, Scans
    <2>2. tried["equity"] # day => swept["equity"] # day
      BY Clocks DEF DayInv, Sweeps, Market
    <2> QED BY <1>1, <2>1, <2>2 DEF Entries
  <1> QED BY <1>2, <1>3 DEF DayInv

LEMMA TickEndsDay ==
  ASSUME TypeOK, LoopInv, DayInv, InTime, NEW t \in Loop, TickEnds(t) PROVE DayInv'
  <1>1. /\ at[t] \in Working \union {"closed"} /\ t \in Alive
        /\ Goes(t, "sleep", Interval) /\ scans' = [scans EXCEPT ![t] = {}]
        /\ UNCHANGED <<day, time, hasty, watch, current, tried>>
    BY DEF TickEnds, NoCommand, clockVars, Alive, Working, Market
  <1>2. at'[t] = "sleep" /\ left'[t] = Interval
    BY <1>1, GoesTyped, Hours DEF Place
  <1>3. Stays(t)'
    BY <1>2, Hours DEF Stays, Working, Market
  <1>4. ASSUME ~hasty, NEW m \in Market
        PROVE Flag(t, m)' /\ (Owes(t, m)' => Due(t, m)')
    <2>1. Flag(t, m)'
      <3>1. done'[m] => done[m] \/ at[t] = m
        BY DEF TickEnds
      <3>2. at[t] = m => tried[m] = day
        BY <1>1 DEF DayInv, Stay, Stays
      <3>3. Flag(t, m)
        BY <1>1, <1>4 DEF DayInv, Flags
      <3>4. NextTick(t)' <= NextTick(t)
        BY <1>1, <1>2, Clocks, Hours DEF NextTick, Working, Market
      <3>5. NextTick(t) \in Int /\ NextTick(t)' \in Int
        BY <1>1, <1>2, Clocks, Hours DEF NextTick
      <3>6. NextTick(t) < EquityEod => NextTick(t)' < EquityEod
        BY <3>4, <3>5, Hours
      <3> QED BY <1>1, <1>2, <3>1, <3>2, <3>3, <3>6 DEF Flag
    <2>2. ~Owes(t, m)'
      <3>1. ~Due(t, m)
        BY <1>1 DEF Due, Working, Market
      <3> QED BY <1>1, <1>4, <3>1 DEF DayInv, Dues, Owes, IsTradingDay, EodAt
    <2> QED BY <2>1, <2>2
  <1>5. /\ \A m \in Market : swept'[m] = swept[m] \/ (swept'[m] = day /\ at[t] = m)
        /\ \/ swept'["equity"] = swept["equity"] /\ (entered' => entered)
           \/ ~entered'
    <2>1. CASE SweepReturns(t)
      <3>1. \A m \in Market : swept'[m] = IF at[t] = m THEN day ELSE swept[m]
        BY <2>1 DEF SweepReturns
      <3>2. (entered' => entered) /\ (at[t] = "equity" => ~entered')
        BY <2>1, Zenon DEF SweepReturns
      <3> QED BY <3>1, <3>2 DEF Market
    <2>2. CASE UNCHANGED <<swept, entered>>
      BY <2>2
    <2> QED BY <2>1, <2>2 DEF TickEnds
  <1>6. \A m \in Market : swept'[m] = swept[m] \/ (swept'[m] = day /\ tried'[m] = day)
    <2>1. \A m \in Market : at[t] = m => tried[m] = day
      BY <1>1 DEF DayInv, Stay, Stays
    <2> QED BY <1>1, <1>5, <2>1
  <1>7. Entries'
    BY <1>1, <1>5 DEF DayInv, Entries
  <1>8. "sleep" \in Place \ {"none", "new", "ended"}
    BY DEF Place
  <1>9. /\ \A k \in Loop \ {t} : scans'[k] = scans[k]
        /\ \A m \in Market : tried'[m] = tried[m]
    BY <1>1 DEF TypeOK
  <1> QED BY <1>1, <1>3, <1>4, <1>6, <1>7, <1>8, <1>9, OneMoves, Hours

LEMMA LeavesDay ==
  ASSUME TypeOK, LoopInv, DayInv, NEW t \in Loop, LoopLeaves(t) PROVE DayInv'
  <1>1. Leaves(t)
    BY DEF LoopLeaves, LoopEnds, CancelDelivered, TickRaises
  <1>2. /\ at'[t] = "ended" /\ Alive' = Alive \ {t}
        /\ \A k \in Loop \ {t} : at'[k] = at[k] /\ left'[k] = left[k]
        /\ UNCHANGED <<day, time, hasty, current, done, tried, swept, entered>>
    BY <1>1, LeavesAlive, GoesTyped DEF Leaves, Place, clockVars, doneVars, marketVars
  <1>3. /\ \A k \in Loop \ {t} : scans'[k] = scans[k]
        /\ \A m \in Market : watch'[m] = watch[m] \ {t}
    BY <1>1 DEF Leaves, TypeOK
  <1>4. t \in Alive
    BY DEF LoopLeaves, LoopEnds, CancelDelivered, TickRaises, Alive, LoopInv
  <1>5. Stay'
    <2> SUFFICES ASSUME NEW k \in Loop
                 PROVE Stays(k)' /\ (current' < k => at'[k] = "none")
      BY DEF Stay
    <2>1. Stays(k) /\ (current < k => at[k] = "none")
      BY DEF DayInv, Stay
    <2>2. CASE k = t
      BY <1>2, <1>4, <2>1, <2>2 DEF Stays, Working, Market, Alive
    <2>3. CASE k # t
      BY <1>2, <2>1, <2>3 DEF Stays, ClosedUntil, IsTradingDay
    <2> QED BY <2>2, <2>3
  <1>6. Sweeps'
    BY <1>2 DEF DayInv, Sweeps, IsTradingDay, EodAt
  <1>7. Watchers'
    BY <1>2, <1>3 DEF DayInv, Watchers, TypeOK
  <1>8. Flags'
    BY <1>2 DEF DayInv, Flags, Flag, NextTick, Alive
  <1>9. Dues'
    <2> SUFFICES ASSUME ~hasty, NEW k \in Loop, NEW m \in Market, Owes(k, m)'
                 PROVE Due(k, m)'
      BY <1>2 DEF Dues
    <2>1. k # t /\ Owes(k, m)
      BY <1>2, <1>3 DEF Owes, IsTradingDay, EodAt
    <2>2. Due(k, m)
      BY <2>1 DEF DayInv, Dues
    <2> QED BY <1>2, <2>1, <2>2 DEF Due, EodAt
  <1>10. Scans'
    BY <1>2, <1>3 DEF DayInv, Scans
  <1>11. Entries'
    <2>1. watch'["equity"] # {} => watch["equity"] # {}
      BY <1>3 DEF Market
    <2> QED BY <1>2, <2>1 DEF DayInv, Entries
  <1> QED BY <1>5, <1>6, <1>7, <1>8, <1>9, <1>10, <1>11 DEF DayInv

(* The operator and the process.                                              *)
LEMMA StartDay == ASSUME TypeOK, LoopInv, DayInv, Start PROVE DayInv'
  <1>1. current + 1 \in Loop /\ current' = current + 1 /\ current \in Nat
    <2>1. current < MaxLoop /\ current' = current + 1
      BY DEF Start
    <2>2. current \in 0..MaxLoop
      BY DEF TypeOK
    <2> QED BY <2>1, <2>2, Hours DEF Loop
  <1>2. /\ at'[current'] = "new"
        /\ \A k \in Loop \ {current'} : at'[k] = at[k]
        /\ UNCHANGED <<day, time, left, scans, watch, tried, swept, entered>>
    BY <1>1 DEF Start, TypeOK, clockVars, marketVars
  <1>3. left[current'] = 0 /\ at[current'] = "none"
    BY <1>1 DEF DayInv, Stay, Stays
  <1>4. ~hasty' => ~hasty /\ Alive = {} /\ Alive' = {current'}
    <2>1. Alive' = Alive \union {current'}
      BY <1>1, <1>2 DEF Alive
    <2> QED BY <2>1 DEF Start
  <1>5. Stay'
    <2> SUFFICES ASSUME NEW k \in Loop
                 PROVE Stays(k)' /\ (current' < k => at'[k] = "none")
      BY DEF Stay
    <2>1. Stays(k) /\ (current < k => at[k] = "none")
      BY DEF DayInv, Stay
    <2>2. CASE k = current'
      BY <1>1, <1>2, <1>3, <2>2 DEF Stays, Working, Market
    <2>3. CASE k # current'
      BY <1>1, <1>2, <2>1, <2>3 DEF Stays, ClosedUntil, IsTradingDay, Loop
    <2> QED BY <2>2, <2>3
  <1>6. Sweeps'
    BY <1>2 DEF DayInv, Sweeps, IsTradingDay, EodAt
  <1>7. Watchers' /\ Flags' /\ Dues' /\ Scans'
    <2>1. \A m \in Market : watch[m] \subseteq Alive /\ Alive \subseteq Alive' /\ done'[m] = FALSE
      BY <1>1, <1>2 DEF DayInv, Watchers, Alive, Start, Fresh
    <2>2. Watchers'
      BY <1>2, <1>4, <2>1 DEF Watchers
    <2>3. Flags'
      BY <2>1 DEF Flags, Flag
    <2>4. Dues'
      BY <1>2, <1>4, <2>1 DEF Dues, Owes
    <2>5. Scans'
      BY <1>2, <1>4 DEF Scans, Alive
    <2> QED BY <2>2, <2>3, <2>4, <2>5
  <1>8. Entries'
    BY <1>2, <1>4 DEF DayInv, Entries
  <1> QED BY <1>5, <1>6, <1>7, <1>8 DEF DayInv

LEMMA NothingMoves ==
  ASSUME TypeOK, DayInv,
         UNCHANGED <<day, time, at, left, current, scans, done, watch, tried, swept, entered, hasty>>
  PROVE DayInv'
  <1>1. Stay' /\ Sweeps' /\ Scans' /\ Entries'
    BY DEF DayInv, Stay, Stays, ClosedUntil, Sweeps, Scans, Entries, IsTradingDay, EodAt
  <1>2. Watchers' /\ Flags'
    BY DEF DayInv, Watchers, Flags, Flag, NextTick, Alive
  <1>3. Dues'
    BY DEF DayInv, Dues, Due, Owes, IsTradingDay, EodAt
  <1> QED BY <1>1, <1>2, <1>3 DEF DayInv

LEMMA RestartDay ==
  ASSUME TypeOK, DayInv, NEW reads \in Stored, NEW writes \in Stored, Restart(reads, writes)
  PROVE DayInv'
  <1>1. \A t \in Loop : /\ at'[t] \in {"none", "new"} /\ left'[t] = 0
                        /\ current' < t => at'[t] = "none"
    BY DEF Restart, Booted, FirstLoop, Loop
  <1>2. /\ UNCHANGED <<day, time, tried, swept>>
        /\ \A m \in Market : watch'[m] = {} /\ done'[m] = FALSE
    BY DEF Restart, clockVars, marketVars, Fresh
  <1>3. Stay'
    BY <1>1 DEF Stay, Stays, Working, Market
  <1>4. Sweeps'
    BY <1>2 DEF DayInv, Sweeps, IsTradingDay, EodAt
  <1>5. Watchers' /\ Flags' /\ Scans' /\ Dues' /\ Entries'
    BY <1>1, <1>2 DEF Watchers, Flags, Flag, Scans, Dues, Owes, Entries, Market
  <1> QED BY <1>3, <1>4, <1>5 DEF DayInv

(* Time passes only while every living loop waits.                            *)
LEMMA Waiting ==
  ASSUME TypeOK, DayInv, TimePasses, NEW t \in Alive
  PROVE /\ t \in Loop /\ 0 < left[t] /\ left'[t] = left[t] - 1
        /\ at[t] \in {"sleep", "closed"} \union Working
  <1>1. t \in Loop /\ 0 < left[t]
    BY DEF TimePasses, Waits, Alive
  <1>2. left'[t] = left[t] - 1
    BY <1>1 DEF TimePasses
  <1>3. at[t] # "new"
    BY <1>1 DEF DayInv, Stay, Stays
  <1> QED BY <1>1, <1>2, <1>3 DEF Alive, TypeOK, Place

LEMMA TimeFrame ==
  ASSUME TypeOK, TimePasses
  PROVE /\ UNCHANGED <<at, current, scans, done, tried, swept, entered, hasty>> /\ Alive' = Alive
        /\ \A m \in Market : watch'[m] = IF time' = EodAt(m) THEN {t \in Alive : at[t] = "sleep"}
                                         ELSE watch[m]
        /\ \A t \in Loop : left[t] = 0 => left'[t] = 0
  BY DEF TimePasses, doneVars, marketVars, Alive, TypeOK

LEMMA TimeWatchers == ASSUME TypeOK, DayInv, TimePasses PROVE Watchers'
  <1>1. \A m \in Market : watch[m] \subseteq Alive
    BY DEF DayInv, Watchers
  <1>2. \A t \in Alive : at[t] # "new"
    BY Waiting DEF Working, Market
  <1> QED BY <1>1, <1>2, TimeFrame DEF Watchers

LEMMA SameDay ==
  ASSUME TypeOK, DayInv, InTime, TimePasses, day' = day, time' = time + 1
  PROVE DayInv'
  <1>1. \A t \in Alive : time' + left'[t] = time + left[t]
    BY Waiting, Clocks
  <1>2. Stay'
    <2> SUFFICES ASSUME NEW t \in Loop
                 PROVE Stays(t)' /\ (current' < t => at'[t] = "none")
      BY DEF Stay
    <2>1. Stays(t) /\ (current < t => at[t] = "none")
      BY DEF DayInv, Stay
    <2>2. CASE t \notin Alive
      BY <2>1, <2>2, TimeFrame DEF Stays, Working, Market, Alive
    <2>3. CASE t \in Alive
      <3>1. at[t] # "new" /\ at[t] # "none"
        BY <2>3, Waiting DEF Working, Market
      <3>2. left'[t] <= left[t] /\ left'[t] \in Nat /\ left[t] \in Nat
        BY <2>3, Waiting, Clocks
      <3>3. ClosedUntil(t) => ClosedUntil(t)'
        BY <1>1, <2>3, Clocks, Hours DEF ClosedUntil
      <3>4. \A n \in Nat : left[t] <= n => left'[t] <= n
        BY <3>2
      <3> QED BY <1>1, <2>1, <2>3, <3>1, <3>3, <3>4, TimeFrame, Hours DEF Stays, IsTradingDay,
            Working, Market
    <2> QED BY <2>2, <2>3
  <1>3. Sweeps'
    <2> SUFFICES ASSUME NEW m \in Market
                 PROVE /\ swept[m] <= tried[m] /\ tried[m] <= day
                       /\ tried[m] = day => IsTradingDay /\ EodAt(m) <= time'
      BY TimeFrame DEF Sweeps, IsTradingDay, EodAt
    <2>1. /\ swept[m] <= tried[m] /\ tried[m] <= day
          /\ tried[m] = day => IsTradingDay /\ EodAt(m) <= time
      BY DEF DayInv, Sweeps
    <2> QED BY <2>1, Windows, Clocks
  <1>4. Flags'
    <2> SUFFICES ASSUME ~hasty, NEW t \in Alive, NEW m \in Market PROVE Flag(t, m)'
      BY TimeFrame DEF Flags
    <2>1. Flag(t, m)
      BY DEF DayInv, Flags
    <2>2. NextTick(t)' = NextTick(t)
      BY <1>1, TimeFrame DEF NextTick
    <2> QED BY <2>1, <2>2, TimeFrame DEF Flag
  <1>5. Dues'
    <2> SUFFICES ASSUME ~hasty, NEW t \in Loop, NEW m \in Market, Owes(t, m)'
                 PROVE Due(t, m)'
      BY TimeFrame DEF Dues
    <2>1. /\ t \in watch'[m] /\ IsTradingDay /\ EodAt(m) <= time + 1 /\ tried[m] # day
      BY TimeFrame DEF Owes, IsTradingDay, EodAt
    <2>2. t \in Alive
      BY <2>1, TimeWatchers, TimeFrame DEF Watchers
    <2>3. CASE time' = EodAt(m)
      <3>1. at[t] = "sleep" /\ left[t] <= Interval
        BY <2>1, <2>3, TimeFrame DEF DayInv, Stay, Stays
      <3>2. time = EodAt(m) - 1
        BY <2>3, Windows, Clocks
      <3>3. time' + left'[t] <= EodAt(m) + Interval
        BY <1>1, <2>2, <3>1, <3>2, Windows, Clocks, Hours
      <3> QED BY <3>1, <3>3, TimeFrame DEF Due, EodAt
    <2>4. CASE time' # EodAt(m)
      <3>1. t \in watch[m]
        BY <2>1, <2>4, TimeFrame
      <3>2. EodAt(m) <= time
        BY <2>1, <2>4, Windows, Clocks
      <3>3. Due(t, m)
        BY <2>1, <3>1, <3>2 DEF DayInv, Dues, Owes
      <3> QED BY <1>1, <2>2, <3>3, TimeFrame DEF Due, EodAt
    <2> QED BY <2>3, <2>4
  <1>6. Scans'
    BY TimeFrame DEF DayInv, Scans
  <1>7. Entries'
    <2>1. ASSUME swept["equity"] = day PROVE watch'["equity"] = watch["equity"]
      <3>0. tried["equity"] = day
        BY <2>1, Clocks DEF DayInv, Sweeps, Market
      <3>1. EodAt("equity") <= time
        BY <3>0 DEF DayInv, Sweeps, Market
      <3>2. time' # EodAt("equity")
        BY <3>1, Clocks, Hours DEF EodAt
      <3> QED BY <3>2, TimeFrame DEF Market
    <2> QED BY <2>1, TimeFrame DEF DayInv, Entries
  <1> QED BY <1>2, <1>3, <1>4, <1>5, <1>6, <1>7, TimeWatchers DEF DayInv

LEMMA NewDay ==
  ASSUME TypeOK, DayInv, InTime, TimePasses, time + 1 = DayLength, time' = 0, day' = day + 1
  PROVE DayInv'
  <1>1. \A m \in Market : /\ swept[m] <= tried[m] /\ tried[m] < day' /\ ~(EodAt(m) <= 0)
                         /\ tried'[m] # day' /\ swept'[m] # day'
    <2> TAKE m \in Market
    <2>1. swept[m] <= tried[m] /\ tried[m] <= day
      BY DEF DayInv, Sweeps
    <2> QED BY <2>1, Windows, Short, TimeFrame, Clocks, Hours
  <1>2. Stay'
    <2> SUFFICES ASSUME NEW t \in Loop
                 PROVE Stays(t)' /\ (current' < t => at'[t] = "none")
      BY DEF Stay
    <2>1. Stays(t) /\ (current < t => at[t] = "none")
      BY DEF DayInv, Stay
    <2>2. CASE t \notin Alive
      BY <2>1, <2>2, TimeFrame DEF Stays, Working, Market, Alive
    <2>3. CASE t \in Alive
      <3>1. at[t] # "new" /\ at[t] # "none"
        BY <2>3, Waiting DEF Working, Market
      <3>2. left'[t] = left[t] - 1 /\ 0 < left[t] /\ left[t] \in Nat
        BY <2>3, Waiting, Clocks
      <3>3. at[t] \notin Market
        BY <2>1, <3>2, Clocks, Hours DEF Stays
      <3>4. \A n \in Nat : left[t] <= n => left'[t] <= n
        BY <3>2
      <3>5. left'[t] <= LongSleep => ClosedUntil(t)'
        BY <3>2 DEF ClosedUntil
      <3> QED BY <2>1, <3>1, <3>3, <3>4, <3>5, TimeFrame, Hours DEF Stays
    <2> QED BY <2>2, <2>3
  <1>3. Sweeps'
    BY <1>1, TimeFrame, Clocks DEF Sweeps
  <1>4. Flags'
    <2> SUFFICES ASSUME NEW t \in Alive, NEW m \in Market PROVE Flag(t, m)'
      BY TimeFrame DEF Flags
    <2>1. left'[t] = left[t] - 1 /\ left[t] \in Nat /\ at[t] \in {"sleep", "closed"} \union Working
      BY Waiting, Clocks
    <2>2. Stays(t)
      BY Waiting DEF DayInv, Stay
    <2>3. NextTick(t)' < EquityEod
      <3>1. CASE at[t] = "sleep"
        BY <2>1, <2>2, <3>1, Short, TimeFrame, Hours DEF Stays, NextTick
      <3>2. CASE at[t] = "closed"
        BY <2>1, <2>2, <3>2, Short, TimeFrame, Hours DEF Stays, NextTick
      <3>3. CASE at[t] \in Working
        <4>1. left[t] <= MaxTick /\ at[t] # "sleep"
          BY <2>2, <3>3 DEF Stays, Working, Market
        <4> QED BY <2>1, <4>1, Short, TimeFrame, Hours DEF NextTick
      <3> QED BY <2>1, <3>1, <3>2, <3>3
    <2> QED BY <2>1, <2>3, TimeFrame DEF Flag, Working, Market
  <1>5. Dues'
    BY <1>1 DEF Dues, Owes, EodAt
  <1>6. Scans' /\ Entries'
    BY <1>1 DEF Scans, Entries, Market
  <1> QED BY <1>2, <1>3, <1>4, <1>5, <1>6, TimeWatchers DEF DayInv

LEMMA DayNext ==
  ASSUME TypeOK, LoopInv, DayInv, InTime, [Next]_vars PROVE DayInv'
  <1>1. ASSUME NEW t \in Loop, TickBegins(t) PROVE DayInv'
    BY <1>1, PremarketDay, SweepDay, ChainDay, ClosedDay, ScanDay DEF TickBegins
  <1>2. ASSUME NEW t \in Loop, EnqueueCandidate(t) \/ TickEnds(t) \/ LoopLeaves(t)
        PROVE DayInv'
    BY <1>2, EnqueueDay, TickEndsDay, LeavesDay
  <1>3. CASE Start
    BY <1>3, StartDay
  <1>4. CASE Stop \/ UNCHANGED vars
    BY <1>4, NothingMoves DEF Stop, vars, clockVars, loopVars, doneVars, marketVars
  <1>5. ASSUME NEW reads \in Stored, NEW writes \in Stored, Restart(reads, writes)
        PROVE DayInv'
    BY <1>5, RestartDay
  <1>6. CASE TimePasses
    <2>1. CASE time + 1 < DayLength /\ time' = time + 1 /\ day' = day
      BY <1>6, <2>1, SameDay
    <2>2. CASE time + 1 = DayLength /\ time' = 0 /\ day < LastDay /\ day' = day + 1
      BY <1>6, <2>2, NewDay
    <2> QED BY <1>6, <2>1, <2>2 DEF TimePasses
  <1> QED BY <1>1, <1>2, <1>3, <1>4, <1>5, <1>6, NextSplit

LEMMA DayIsDone == ASSUME TypeOK, DayInv, InTime PROVE NothingCarried
  <1> SUFFICES ASSUME NEW m \in Market, IsTradingDay, CloseAt(m) < time, watch[m] # {}, ~hasty
               PROVE tried[m] = day /\ (m = "equity" /\ swept[m] = day => ~entered)
    BY Clocks, Windows DEF NothingCarried
  <1>1. PICK t \in watch[m] : TRUE
    OBVIOUS
  <1>2. t \in Loop
    BY DEF DayInv, Watchers, Alive
  <1>3. EodAt(m) <= time
    BY Windows, Clocks
  <1>4. tried[m] = day
    <2> SUFFICES ASSUME tried[m] # day PROVE FALSE
      OBVIOUS
    <2>1. time + left[t] <= EodAt(m) + Interval
      BY <1>2, <1>3 DEF DayInv, Dues, Owes, Due
    <2> QED BY <1>2, <2>1, Windows, Clocks, Hours
  <1>5. m = "equity" /\ swept[m] = day => ~entered
    BY DEF DayInv, Entries
  <1> QED BY <1>4, <1>5

(* Whatever the hours, holidays, intervals and commands: if a scan interval is*)
(* no longer than the window of each market, and no flag outlasts a night     *)
(* (both are so at the defaults), a loop asleep when a window begins does not *)
(* leave that market without an attempt to square it off.                     *)
THEOREM SquaredOff == ASSUME InTime PROVE Spec => []NothingCarried
  <1>1. Init /\ TypeOK => DayInv
    BY DayInit
  <1>2. TypeOK /\ LoopInv /\ DayInv /\ [Next]_vars => DayInv'
    BY DayNext
  <1>3. TypeOK /\ DayInv => NothingCarried
    BY DayIsDone
  <1> QED BY <1>1, <1>2, <1>3, TypeCorrect, LoopInit, LoopNext, PTL DEF Spec
===============================================================================

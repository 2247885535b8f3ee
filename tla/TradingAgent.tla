----------------------------- MODULE TradingAgent -----------------------------
(***************************************************************************)
(* The trading agent's day (agent/trading_agent.py, agent/market_hours.py):*)
(* the loop that wakes up, decides by the clock what to do (prepare the    *)
(* morning, square off a market, take the chain snapshot, sleep, or scan   *)
(* for entries) and sleeps again; the operator's start and stop of it; and *)
(* the baseline of the daily-loss breaker that the morning routine and the *)
(* start of the process set (api/runtime.py _establish_session_baseline).  *)
(*                                                                         *)
(* Time is a whole number of units.  A routine may take up to MaxTick of   *)
(* them; a loop that is due acts before the clock moves.                   *)
(***************************************************************************)
EXTENDS Integers

CONSTANTS
  MaxLoop,       \* loops that one process may start
  LastDay,       \* the days of the model are 0..LastDay
  TradingDays,   \* those that are neither at a weekend nor a holiday
  DayLength,
  Premarket, EquityOpen, SnapshotStart, EquityCutoff, EquityEod, EquityClose,
  McxOpen, McxEod, McxClose,
  Interval,      \* scan_interval
  LongSleep,     \* 1800 seconds
  MaxTick,       \* the longest that one tick's work takes
  AutoStart,     \* settings.auto_start_agent
  Stored,        \* {TRUE}, or {TRUE, FALSE} if the database may fail
  MaxCommands    \* bound on starts, stops and restarts

Loop == 1..MaxLoop
Day == 0..LastDay
Never == -1

(* The order of the day; the snapshot window ends at the entry cutoff, and    *)
(* MCX stops entries when it starts to square off.                            *)
ASSUME AgentAssumption ==
  /\ MaxLoop \in Nat \ {0} /\ LastDay \in Nat /\ TradingDays \subseteq Day
  /\ {Premarket, EquityOpen, SnapshotStart, EquityCutoff, EquityEod, EquityClose,
      McxOpen, McxEod, McxClose, DayLength, LongSleep, MaxTick} \subseteq Nat
  /\ Premarket <= McxOpen /\ McxOpen <= EquityOpen
  /\ EquityOpen <= SnapshotStart /\ SnapshotStart <= EquityCutoff
  /\ EquityCutoff <= EquityEod /\ EquityEod <= EquityClose
  /\ EquityClose < McxEod /\ McxEod <= McxClose /\ McxClose + MaxTick < DayLength
  /\ Interval \in Nat \ {0}
  /\ LongSleep <= DayLength - EquityOpen
  /\ AutoStart \in BOOLEAN
  /\ Stored \subseteq BOOLEAN /\ TRUE \in Stored
  /\ MaxCommands \in Nat

VARIABLES
  day, time,     \* now_ist()
  running,       \* AgentState.running
  stopEvent,     \* _stop_event.is_set()
  current,       \* self._task: the number of the loop started last
  cancelled,     \* loops whose task.cancel() is still to be delivered
  at,            \* where each loop is (see Place)
  left,          \* how much longer it sleeps, or works at most
  scans,         \* the markets a scanning loop is looking at
  premarketDay,  \* the day of premarket_date with premarket_done set
  snapshotDay,   \* the same of the chain snapshot
  done,          \* eod_done and mcx_eod_done
  baseline,      \* scheduler._session_start_equity
  saved,         \* the session_baselines row of each day
  marks,         \* equity valuations so far: a baseline is the number of one
  commands,
  tried,         \* history: the day the latest square-off of each market began
  swept,         \* history: the same of those that returned without an error
  entered,       \* history: an intraday equity entry since the latest of these
  watch,         \* history: the loops alive that were asleep when the latest
                 \*   square-off window of each market began
  hasty,         \* history: started while an earlier loop had not ended
  dbFailed       \* history: a baseline could not be read or saved

clockVars == <<day, time>>
loopVars == <<running, stopEvent, current, cancelled, at, left, scans>>
doneVars == <<premarketDay, snapshotDay, done>>
baseVars == <<baseline, saved, marks, dbFailed>>
marketVars == <<tried, swept, entered>>
vars == <<clockVars, loopVars, doneVars, baseVars, marketVars, commands, watch, hasty>>

(* new:        the task is created, its first step still to come              *)
(* premarket, equity, mcx, snapshot, scan: awaiting in that part of a tick    *)
(* closed:     the long sleep inside a tick when no market takes entries      *)
(* sleep:      between two ticks                                              *)
Market == {"equity", "mcx"}
Working == {"premarket", "snapshot", "scan"} \union Market
Place == {"none", "new", "closed", "sleep", "ended"} \union Working
Alive == {t \in Loop : at[t] \notin {"none", "ended"}}
-------------------------------------------------------------------------------
(* market_hours.py.                                                           *)

IsTradingDay == day \in TradingDays
IsPremarket == IsTradingDay /\ Premarket <= time /\ time < EquityOpen
IsSnapshotWindow == IsTradingDay /\ SnapshotStart <= time /\ time < EquityCutoff

OpenAt(m) == IF m = "equity" THEN EquityOpen ELSE McxOpen
CutoffAt(m) == IF m = "equity" THEN EquityCutoff ELSE McxEod
EodAt(m) == IF m = "equity" THEN EquityEod ELSE McxEod
CloseAt(m) == IF m = "equity" THEN EquityClose ELSE McxClose

EntryAllowed(m) == IsTradingDay /\ OpenAt(m) <= time /\ time < CutoffAt(m)
IsEodSquareoff(m) == IsTradingDay /\ EodAt(m) <= time /\ time <= CloseAt(m)
Entering == {m \in Market : EntryAllowed(m)}

(* Negative test: seconds_to_next_open never looks past today.                *)
ClosedSleepToday ==
  IF IsTradingDay /\ EquityOpen - time < LongSleep THEN EquityOpen - time ELSE LongSleep

(* seconds_to_next_open, which may be days away, capped at the long sleep.    *)
ClosedSleep ==
  LET toOpen == IF time < EquityOpen THEN EquityOpen - time
                ELSE DayLength - time + EquityOpen
      openDay == IF time < EquityOpen THEN day ELSE day + 1
  IN IF openDay \in TradingDays /\ toOpen < LongSleep THEN toOpen ELSE LongSleep
-------------------------------------------------------------------------------
(* Negative test: the start of a process takes a fresh valuation as well.     *)
RowIgnored(fresh, reads) == FALSE

(* _establish_session_baseline: the premarket routine always takes a fresh    *)
(* valuation; the start of a process restores the day's row if it can read    *)
(* one.                                                                       *)
RowFound(fresh, reads) == ~fresh /\ reads /\ saved[day] # Never

EstablishBaseline(fresh, reads, writes) ==
  LET found == RowFound(fresh, reads)
  IN /\ baseline' = IF found THEN saved[day] ELSE marks
     /\ marks' = IF found THEN marks ELSE marks + 1
     /\ saved' = IF found \/ ~writes THEN saved ELSE [saved EXCEPT ![day] = marks]
     /\ dbFailed' = (dbFailed \/ ~(fresh \/ reads) \/ ~(found \/ writes))

Fresh == [m \in Market |-> FALSE]

(* start_async_services of the first process, at the beginning of day 0.      *)
Booted == [t \in Loop |-> IF AutoStart /\ t = 1 THEN "new" ELSE "none"]
FirstLoop == IF AutoStart THEN 1 ELSE 0

Init ==
  /\ day = 0 /\ time = 0
  /\ running = AutoStart /\ stopEvent = FALSE /\ current = FirstLoop
  /\ cancelled = {} /\ at = Booted
  /\ left = [t \in Loop |-> 0] /\ scans = [t \in Loop |-> {}]
  /\ premarketDay = Never /\ snapshotDay = Never /\ done = Fresh
  /\ baseline = 0 /\ marks = 1 /\ dbFailed = FALSE
  /\ saved = [d \in Day |-> IF d = 0 THEN 0 ELSE Never]
  /\ commands = 0
  /\ tried = [m \in Market |-> Never] /\ swept = [m \in Market |-> Never]
  /\ entered = FALSE
  /\ watch = [m \in Market |-> {}] /\ hasty = FALSE

Goes(t, place, units) ==
  /\ at' = [at EXCEPT ![t] = place]
  /\ left' = [left EXCEPT ![t] = units]

NoCommand == UNCHANGED <<clockVars, running, stopEvent, current, cancelled, commands,
                         hasty>>
-------------------------------------------------------------------------------
(* _tick.  Its branches in the order of the code; each returns.               *)

TickStarts(t) ==
  /\ running /\ t \notin cancelled
  /\ at[t] = "new" \/ (at[t] = "sleep" /\ left[t] = 0 /\ ~stopEvent)

PremarketDue == IsPremarket /\ premarketDay # day
(* Negative test: the flag is read, but no other day clears it.               *)
SweepDueOnce(m) == IsEodSquareoff(m) /\ tried[m] = Never

SweepDue(m) == IsEodSquareoff(m) /\ ~done[m]
SnapshotDue == IsSnapshotWindow /\ snapshotDay # day

(* "Reset once the window passes": every tick that gets this far clears the   *)
(* flags of the markets it has looked at.                                     *)
Cleared(looked) ==
  [m \in Market |-> done[m] /\ (m \in looked => IsEodSquareoff(m))]

PremarketRoutine(t, writes) ==
  /\ TickStarts(t) /\ PremarketDue
  /\ EstablishBaseline(TRUE, TRUE, writes)
  /\ Goes(t, "premarket", MaxTick)
  /\ UNCHANGED <<scans, doneVars, marketVars, watch>> /\ NoCommand

(* _eod_routine and _mcx_eod_routine begin: what they send is ExitManager's   *)
(* SquareOff, by the equity routine up to three times within its tick.        *)
Sweep(t, m) ==
  /\ TickStarts(t) /\ ~PremarketDue /\ SweepDue(m)
  /\ m = "mcx" => ~SweepDue("equity")
  /\ done' = Cleared({"equity"})
  /\ tried' = [tried EXCEPT ![m] = day]
  /\ Goes(t, m, MaxTick)
  /\ UNCHANGED <<swept, entered, scans, premarketDay, snapshotDay, baseVars, watch>> /\ NoCommand

Later(t) ==
  /\ TickStarts(t) /\ ~PremarketDue /\ \A m \in Market : ~SweepDue(m)
  /\ done' = Cleared(Market)
  /\ UNCHANGED <<premarketDay, snapshotDay, baseVars, marketVars, watch>> /\ NoCommand

ChainSnapshot(t) ==
  /\ Later(t) /\ SnapshotDue
  /\ Goes(t, "snapshot", MaxTick) /\ UNCHANGED scans

SleepUntilOpen(t) ==
  /\ Later(t) /\ ~SnapshotDue /\ Entering = {}
  /\ Goes(t, "closed", ClosedSleep) /\ UNCHANGED scans

ScanAndExecute(t) ==
  /\ Later(t) /\ ~SnapshotDue /\ Entering # {}
  /\ Goes(t, "scan", MaxTick)
  /\ scans' = [scans EXCEPT ![t] = Entering]

(* _enqueue_candidate of an equity underlying: at any time of the scan, even  *)
(* when the entry cutoff has passed meanwhile.                                *)
EnqueueCandidate(t) ==
  /\ at[t] = "scan" /\ t \notin cancelled /\ "equity" \in scans[t]
  /\ entered' = TRUE
  /\ UNCHANGED <<at, left, scans, doneVars, baseVars, tried, swept, watch>>
  /\ NoCommand

SweepReturns(t) ==
  /\ swept' = [m \in Market |-> IF at[t] = m THEN day ELSE swept[m]]
  /\ entered' = (entered /\ at[t] # "equity")

(* The rest of a tick: the flag of its routine is set when the routine ends,  *)
(* and the routines of the square-offs swallow their exceptions: one that     *)
(* raised counts as done as well.                                             *)
TickEnds(t) ==
  /\ t \notin cancelled
  /\ at[t] \in Working \/ (at[t] = "closed" /\ (left[t] = 0 \/ stopEvent))
  /\ premarketDay' = IF at[t] = "premarket" THEN day ELSE premarketDay
  /\ snapshotDay' = IF at[t] = "snapshot" THEN day ELSE snapshotDay
  /\ done' = [m \in Market |-> done[m] \/ at[t] = m]
  /\ SweepReturns(t) \/ (at[t] \in Market /\ UNCHANGED <<swept, entered>>)
  /\ scans' = [scans EXCEPT ![t] = {}]
  /\ Goes(t, "sleep", Interval)
  /\ UNCHANGED <<baseVars, tried, watch>> /\ NoCommand
-------------------------------------------------------------------------------
(* The loop's ends.  The finally clause clears running, whichever loop's it   *)
(* is; a task cancelled before its first step never enters the try.           *)

Leaves(t) ==
  /\ Goes(t, "ended", 0)
  /\ scans' = [scans EXCEPT ![t] = {}]
  /\ watch' = [m \in Market |-> watch[m] \ {t}]
  /\ cancelled' = cancelled \ {t}
  /\ UNCHANGED <<clockVars, stopEvent, current, doneVars, baseVars, marketVars,
                 commands, hasty>>

(* Negative test: an error in a tick ends the task, and running stays.        *)
FinallyOnStop(t) == at[t] # "new" /\ (stopEvent \/ t \in cancelled)

Finally(t) == at[t] # "new" \/ t \notin cancelled

StopsRunning(t) == running' = (running /\ ~Finally(t))

LoopEnds(t) ==
  /\ t \notin cancelled
  /\ \/ at[t] = "sleep" /\ stopEvent
     \/ at[t] = "sleep" /\ left[t] = 0 /\ ~running
     \/ at[t] = "new" /\ ~running
  /\ Leaves(t) /\ StopsRunning(t)

CancelDelivered(t) == t \in cancelled /\ Leaves(t) /\ StopsRunning(t)

(* A scan that raises: "TradingAgent fatal error".                            *)
TickRaises(t) ==
  /\ at[t] = "scan" /\ t \notin cancelled
  /\ Leaves(t) /\ StopsRunning(t)
-------------------------------------------------------------------------------
(* The operator, and the process.                                             *)

Commanded == commands < MaxCommands /\ commands' = commands + 1

Start ==
  /\ Commanded /\ ~running /\ current < MaxLoop
  /\ running' = TRUE /\ stopEvent' = FALSE /\ current' = current + 1
  /\ at' = [at EXCEPT ![current + 1] = "new"]
  /\ premarketDay' = Never /\ done' = Fresh
  /\ hasty' = (hasty \/ Alive # {})
  /\ UNCHANGED <<clockVars, cancelled, left, scans, snapshotDay, baseVars, marketVars,
                 watch>>

Stop ==
  /\ Commanded /\ running
  /\ running' = FALSE /\ stopEvent' = TRUE
  /\ cancelled' = cancelled \union ({current} \intersect Alive)
  /\ UNCHANGED <<clockVars, current, at, left, scans, doneVars, baseVars, marketVars,
                 watch, hasty>>

Restart(reads, writes) ==
  /\ Commanded
  /\ running' = AutoStart /\ stopEvent' = FALSE /\ current' = FirstLoop
  /\ cancelled' = {} /\ at' = Booted
  /\ left' = [t \in Loop |-> 0] /\ scans' = [t \in Loop |-> {}]
  /\ premarketDay' = Never /\ snapshotDay' = Never /\ done' = Fresh
  /\ EstablishBaseline(FALSE, reads, writes)
  /\ watch' = [m \in Market |-> {}] /\ hasty' = FALSE
  /\ UNCHANGED <<clockVars, marketVars>>

(* The clock moves when no loop has anything to do at this instant.           *)
Waits(t) ==
  /\ left[t] > 0 /\ t \notin cancelled
  /\ stopEvent => at[t] \notin {"sleep", "closed"}

TimePasses ==
  /\ \A t \in Alive : Waits(t)
  /\ \/ time + 1 < DayLength /\ time' = time + 1 /\ day' = day
     \/ time + 1 = DayLength /\ time' = 0 /\ day < LastDay /\ day' = day + 1
  /\ left' = [t \in Loop |-> IF left[t] > 0 THEN left[t] - 1 ELSE 0]
  /\ watch' = [m \in Market |-> IF time' = EodAt(m) THEN {t \in Alive : at[t] = "sleep"}
                               ELSE watch[m]]
  /\ UNCHANGED <<running, stopEvent, current, cancelled, at, scans, doneVars, baseVars,
                 marketVars, commands, hasty>>

Tick(t) ==
  \/ \E writes \in Stored : PremarketRoutine(t, writes)
  \/ \E m \in Market : Sweep(t, m)
  \/ ChainSnapshot(t) \/ SleepUntilOpen(t) \/ ScanAndExecute(t)
  \/ EnqueueCandidate(t) \/ TickEnds(t)
  \/ LoopEnds(t) \/ CancelDelivered(t) \/ TickRaises(t)

Next ==
  \/ \E t \in Loop : Tick(t)
  \/ Start \/ Stop
  \/ \E reads, writes \in Stored : Restart(reads, writes)
  \/ TimePasses

Spec == Init /\ [][Next]_vars
-------------------------------------------------------------------------------
TypeOK ==
  /\ day \in Day /\ time \in 0..(DayLength - 1)
  /\ running \in BOOLEAN /\ stopEvent \in BOOLEAN /\ current \in 0..MaxLoop
  /\ cancelled \subseteq Loop
  /\ at \in [Loop -> Place] /\ left \in [Loop -> Nat]
  /\ scans \in [Loop -> SUBSET Market]
  /\ premarketDay \in Day \union {Never} /\ snapshotDay \in Day \union {Never}
  /\ done \in [Market -> BOOLEAN]
  /\ baseline \in Nat /\ marks \in Nat /\ saved \in [Day -> Nat \union {Never}]
  /\ dbFailed \in BOOLEAN /\ commands \in 0..MaxCommands
  /\ tried \in [Market -> Day \union {Never}] /\ swept \in [Market -> Day \union {Never}]
  /\ entered \in BOOLEAN
  /\ watch \in [Market -> SUBSET Loop] /\ hasty \in BOOLEAN

(* What /agent/status says is true: the agent is "running" exactly if a loop  *)
(* lives that was not told to stop, and no second one does; except after a    *)
(* start that did not wait for the stopped loop to end (start, stop, _run).   *)
OneLoop ==
  ~hasty => /\ running <=> Alive \ cancelled # {}
            /\ \A s, t \in Alive : s = t

(* "EOD (15:25 IST): square-off all open positions": on a trading day, a loop *)
(* that was asleep when the window of a market began, and lives on, has begun *)
(* to square that market off when it closes, whatever the flags say of other  *)
(* days; and no intraday equity entry follows a square-off that returned.     *)
(* The claim is no stronger: by default a scan interval lasts as long as the  *)
(* window, so a loop at work when it begins may miss it; and a square-off     *)
(* that raises is not tried again (_tick, _eod_routine).                      *)
NothingCarried ==
  \A m \in Market :
    IsTradingDay /\ time > CloseAt(m) /\ watch[m] # {} /\ ~hasty =>
      tried[m] = day /\ (m = "equity" /\ swept[m] = day => ~entered)

(* At the defaults these are 300 <= 300 seconds, 2100 < 55500, and true of    *)
(* any tick that takes less than six hours.                                   *)
InTime ==
  /\ \A m \in Market : Interval <= CloseAt(m) - EodAt(m)
  /\ LongSleep + Interval < EquityEod
  /\ EquityOpen + MaxTick + Interval < EquityEod

(* "A restart can never silently reset or corrupt the baseline the day already*)
(* started with": once equities trade, the day's row does not change, and     *)
(* every process of that day measures its loss from it, unless the database   *)
(* failed (_establish_session_baseline).                                      *)
BaselineKept ==
  [][EquityOpen <= time /\ day' = day /\ saved[day] # Never /\ ~dbFailed'
       => saved'[day] = saved[day] /\ baseline' = saved[day]]_vars
===============================================================================

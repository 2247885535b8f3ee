------------------------------- MODULE MarketFeed -------------------------------
(***************************************************************************)
(* The live market-data feed (data/live_feed.py, class LiveTickFeed): the  *)
(* main thread that logs in and runs a connection, the loops that connect  *)
(* and reconnect the socket, the watchdog that looks for a silent one, and *)
(* the callers that add symbols, stop it and start it.  What becomes of a  *)
(* login is LoginBreaker's; here it succeeds or not.                       *)
(*                                                                         *)
(* All symbols fit on shard 0, as in every deployment so far; the shards   *)
(* past 1000 symbols are left out.  A loop has one socket at a time, so    *)
(* the loop stands for its socket: ws is the loop that made shard.ws.      *)
(***************************************************************************)
EXTENDS Naturals, FiniteSets

CONSTANTS
  Loop,          \* threads that run _run or _run_shard
  Symbol,        \* the symbols
  Token,         \* those that _token_map knows
  MaxSymbols,    \* live_feed_max_symbols
  MaxUpsets,     \* bound on the stops, and the starts while a loop ends
  Nobody         \* not a loop

ASSUME FeedAssumption ==
  /\ Nobody \notin Loop
  /\ Token \subseteq Symbol /\ IsFiniteSet(Symbol)
  /\ MaxSymbols \in Nat /\ MaxUpsets \in Nat

VARIABLES
  running,       \* _running
  marketOpen,    \* _market_is_open_now(), the gate of the reconnecting loops
  entryHours,    \* is_entry_allowed() or is_mcx_entry_allowed(), the gate of the
                 \* watchdog and of the agent: narrower, and never on a holiday
  session,       \* whether _session and _feed_token are set
  wanted,        \* _subscribed_symbols
  routed,        \* shard.symbols
  adding,        \* symbols just routed, by a call that is not over
  ws,            \* shard.ws: the loop that made it
  clock,         \* last_message_at or else connected_at: none, recent or old
  at,            \* where each loop is
  carried,       \* the symbols subscribed on the socket of each loop
  lateDials,     \* history: connects of each loop since the market closed
  upsets         \* number of these so far

routeVars == <<wanted, routed, adding>>
loopVars == <<at, carried, lateDials>>
hourVars == <<marketOpen, entryHours>>
vars == <<running, hourVars, session, routeVars, ws, clock, loopVars, upsets>>

Clock == {"none", "recent", "old"}

(* "first" and "again" are the top of the loop, with retries = 0 and above.   *)
Place == {"free", "start", "login", "relogin", "first", "again", "pause", "backoff",
          "dial", "up", "silent", "end"}

Connected(l) == at[l] \in {"up", "silent"}

Init ==
  /\ running = FALSE
  /\ marketOpen \in BOOLEAN /\ entryHours \in {FALSE, marketOpen}
  /\ session = FALSE
  /\ wanted = {} /\ routed = {} /\ adding = {}
  /\ ws = Nobody
  /\ clock = "none"
  /\ at = [l \in Loop |-> "free"]
  /\ carried = [l \in Loop |-> {}]
  /\ lateDials = [l \in Loop |-> 0]
  /\ upsets = 0

Moves(l, place) == at' = [at EXCEPT ![l] = place]
-------------------------------------------------------------------------------
(* Callers.                                                                   *)

Free(l) == at[l] = "free"

(* start returns at once while _running, which it reads and sets in two      *)
(* statements: two callers (the agent whenever the feed is down, the API) may *)
(* both see FALSE, and each then makes a main thread.                         *)
SeesItDown(l) ==
  /\ ~running
  /\ Free(l) /\ Moves(l, "start")
  /\ \/ (\A k \in Loop : at[k] \notin {"start", "end"}) /\ UNCHANGED upsets
     \/ upsets < MaxUpsets /\ upsets' = upsets + 1
  /\ UNCHANGED <<running, hourVars, session, routeVars, ws, clock, carried, lateDials>>

Start(l) ==
  /\ at[l] = "start" /\ Moves(l, "login")
  /\ running' = TRUE
  /\ UNCHANGED <<hourVars, session, routeVars, ws, clock, carried, lateDials, upsets>>

ConnectReturns(l) ==
  /\ Moves(l, "again") /\ carried' = [carried EXCEPT ![l] = {}]

(* close_connection on shard.ws: connect returns, unless it has not begun.    *)
CloseSocket ==
  \/ /\ ws # Nobody /\ at[ws] \in {"dial", "up", "silent"}
     /\ ConnectReturns(ws)
  \/ /\ ws # Nobody => ~Connected(ws)
     /\ UNCHANGED <<at, carried>>

(* stop does not wait for the threads.                                        *)
Stop ==
  /\ running /\ upsets < MaxUpsets
  /\ running' = FALSE /\ upsets' = upsets + 1
  /\ CloseSocket
  /\ UNCHANGED <<hourVars, session, routeVars, ws, clock, lateDials>>

(* add_subscriptions under the lock, and the routing of a feed that runs.  The*)
(* cap does not hold for the symbol of an open position.                      *)
AddSubscription(x, protected) ==
  /\ x \notin wanted /\ adding = {}
  /\ protected \/ Cardinality(wanted) < MaxSymbols
  /\ wanted' = wanted \union {x}
  /\ adding' = {y \in {x} : running} \ routed
  /\ routed' = routed \union adding'
  /\ UNCHANGED <<running, hourVars, session, ws, clock, loopVars, upsets>>

(* Negative test: the call leaves an open socket alone.                       *)
NoUpdate(l) == FALSE
TakesUpdate(l) == Connected(l)

(* The rest of _subscribe_symbols: without a socket there is a new thread, an *)
(* open socket gets the symbol, on another the failure is swallowed.          *)
SubscribeSymbol(x) ==
  /\ x \in adding /\ adding' = adding \ {x}
  /\ \/ /\ ws = Nobody
        /\ \E l \in Loop : Free(l) /\ Moves(l, "first")
        /\ UNCHANGED carried
     \/ /\ ws # Nobody
        /\ carried' = IF TakesUpdate(ws)
                      THEN [carried EXCEPT ![ws] = @ \union ({x} \cap Token)]
                      ELSE carried
        /\ UNCHANGED at
  /\ UNCHANGED <<running, hourVars, session, wanted, routed, ws, clock, lateDials,
                 upsets>>
-------------------------------------------------------------------------------
(* _login, by the main thread and by a loop whose connects keep failing.      *)

(* The main thread gives the feed up; a loop goes on with what it has.        *)
LoginFails(l) ==
  /\ at[l] \in {"login", "relogin"}
  /\ Moves(l, IF at[l] = "login" THEN "free" ELSE "again")
  /\ running' = (running /\ at[l] # "login")
  /\ UNCHANGED <<hourVars, session, routeVars, ws, clock, carried, lateDials, upsets>>

(* The main thread routes the symbols wanted so far and becomes a loop.       *)
LogsIn(l) ==
  /\ at[l] \in {"login", "relogin"}
  /\ session' = TRUE
  /\ routed' = IF at[l] = "login" THEN routed \union wanted ELSE routed
  /\ Moves(l, IF at[l] = "login" THEN "first" ELSE "again")
  /\ UNCHANGED <<running, hourVars, wanted, adding, ws, clock, carried, lateDials,
                 upsets>>
-------------------------------------------------------------------------------
(* _run_shard.                                                                *)

LoopStep == UNCHANGED <<hourVars, routeVars, upsets>>

LoopEnds(l) ==
  /\ at[l] \in {"first", "again", "backoff"} /\ ~running
  /\ Moves(l, "end")
  /\ LoopStep /\ UNCHANGED <<running, session, ws, clock, carried, lateDials>>

(* The loop of shard 0 clears the flag on its way out, a new start or not.    *)
Ended(l) ==
  /\ at[l] = "end" /\ Moves(l, "free")
  /\ running' = FALSE
  /\ LoopStep /\ UNCHANGED <<session, ws, clock, carried, lateDials>>

(* time.sleep, out of hours and before another attempt.                       *)
Pauses(l) ==
  /\ at[l] \in {"first", "again"} /\ running /\ ~marketOpen
  /\ Moves(l, "pause")
  /\ LoopStep /\ UNCHANGED <<running, session, ws, clock, carried, lateDials>>

Resumes(l) ==
  /\ at[l] = "pause" /\ Moves(l, "first")
  /\ LoopStep /\ UNCHANGED <<running, session, ws, clock, carried, lateDials>>

BacksOff(l) ==
  /\ at[l] = "again" /\ running /\ marketOpen
  /\ Moves(l, "backoff")
  /\ LoopStep /\ UNCHANGED <<running, session, ws, clock, carried, lateDials>>

(* Negative test: a loop that is not retrying does not look at the market.    *)
DialsBlindly == TRUE
DialsInHours == marketOpen

MayDial(l) ==
  /\ running
  /\ \/ at[l] = "backoff"
     \/ at[l] = "first" /\ DialsInHours

(* A new socket; without a session it cannot even be made.                    *)
Dials(l) ==
  /\ MayDial(l) /\ session
  /\ Moves(l, "dial") /\ ws' = l
  /\ lateDials' = [lateDials EXCEPT ![l] = IF marketOpen \/ @ = 2 THEN @ ELSE @ + 1]
  /\ LoopStep /\ UNCHANGED <<running, session, clock, carried>>

(* Every tenth exception in a row asks for a new login.                       *)
FailsToConnect(l) ==
  /\ at[l] = "dial" \/ (MayDial(l) /\ ~session)
  /\ Moves(l, "again") \/ Moves(l, "relogin")
  /\ LoopStep /\ UNCHANGED <<running, session, ws, clock, carried, lateDials>>

(* _on_open.  Without symbols of its own the shard takes all that are wanted. *)
(* A symbol without a token is left out.  Negative test: it is not.           *)
OpenWithBlank(l) == IF routed # {} THEN routed ELSE wanted
OpenWith(l) == (IF routed # {} THEN routed ELSE wanted) \cap Token

SocketOpens(l) ==
  /\ at[l] = "dial" /\ Moves(l, "up")
  /\ clock' = "recent"
  /\ carried' = [carried EXCEPT ![l] = OpenWith(l)]
  /\ LoopStep /\ UNCHANGED <<running, session, ws, lateDials>>

(* The connection ends by itself.                                             *)
Drops(l) ==
  /\ Connected(l) /\ ConnectReturns(l)
  /\ LoopStep /\ UNCHANGED <<running, session, ws, clock, lateDials>>

(* It stays open and delivers nothing any more.                               *)
FallsSilent(l) ==
  /\ at[l] = "up" /\ Moves(l, "silent")
  /\ LoopStep /\ UNCHANGED <<running, session, ws, clock, carried, lateDials>>

(* _on_data: every socket of the shard sets the same clock.                   *)
Message(l) ==
  /\ at[l] = "up" /\ carried[l] # {} /\ clock' = "recent"
  /\ LoopStep /\ UNCHANGED <<running, session, ws, loopVars>>
-------------------------------------------------------------------------------
TimePasses ==
  /\ clock = "recent" /\ clock' = "old"
  /\ LoopStep /\ UNCHANGED <<running, session, ws, loopVars>>

(* _check_shard_heartbeats and _force_reconnect_shard.  Negative test: only a *)
(* socket that was never heard of is judged.                                  *)
NeverJudged == clock = "none"
Judged == clock = "old"

CheckHeartbeat ==
  /\ running /\ entryHours /\ ws # Nobody /\ routed # {} /\ Judged
  /\ clock' = "none"
  /\ CloseSocket
  /\ LoopStep /\ UNCHANGED <<running, session, ws, lateDials>>

(* A trading day opens both gates at 9:00; the narrow one closes at 23:25 and *)
(* the wide one after 23:30; a holiday in the week opens the wide one alone.  *)
MarketTurns ==
  /\ marketOpen' \in BOOLEAN /\ entryHours' \in {FALSE, marketOpen'}
  /\ hourVars' # hourVars
  /\ lateDials' = [l \in Loop |-> 0]
  /\ UNCHANGED <<running, session, routeVars, ws, clock, at, carried,
                 upsets>>

Next ==
  \/ \E l \in Loop :
       \/ SeesItDown(l) \/ Start(l) \/ LoginFails(l) \/ LogsIn(l)
       \/ LoopEnds(l) \/ Ended(l) \/ Pauses(l) \/ Resumes(l) \/ BacksOff(l)
       \/ Dials(l) \/ FailsToConnect(l) \/ SocketOpens(l) \/ Drops(l)
       \/ FallsSilent(l) \/ Message(l)
  \/ \E x \in Symbol :
       \/ \E protected \in BOOLEAN : AddSubscription(x, protected)
       \/ SubscribeSymbol(x)
  \/ Stop
  \/ TimePasses \/ CheckHeartbeat
  \/ MarketTurns

Spec == Init /\ [][Next]_vars

(* The threads go on, the scan loop starts a feed that is down in entry hours,*)
(* time passes, and the broker accepts a login and a connection now and then. *)
ThreadStep(l) ==
  \/ Start(l) \/ LoginFails(l) \/ LogsIn(l)
  \/ LoopEnds(l) \/ Ended(l) \/ Pauses(l) \/ Resumes(l) \/ BacksOff(l)
  \/ Dials(l) \/ FailsToConnect(l) \/ SocketOpens(l)

Fairness ==
  /\ \A l \in Loop :
       WF_vars(ThreadStep(l)) /\ SF_vars(LogsIn(l)) /\ SF_vars(SocketOpens(l))
  /\ WF_vars(entryHours /\ \E l \in Loop : SeesItDown(l))
  /\ WF_vars(TimePasses) /\ WF_vars(CheckHeartbeat)

FairSpec == Spec /\ Fairness
-------------------------------------------------------------------------------
TypeOK ==
  /\ running \in BOOLEAN /\ session \in BOOLEAN
  /\ marketOpen \in BOOLEAN /\ entryHours \in BOOLEAN
  /\ wanted \subseteq Symbol /\ routed \subseteq Symbol /\ adding \subseteq Symbol
  /\ ws \in Loop \union {Nobody}
  /\ clock \in Clock
  /\ at \in [Loop -> Place]
  /\ carried \in [Loop -> SUBSET Token]
  /\ lateDials \in [Loop -> 0..2]
  /\ upsets \in 0..MaxUpsets

(* No symbol is lost between a call that adds it and a connection that opens  *)
(* or is replaced meanwhile: while the feed runs, once no call or loop is     *)
(* under way, the shard's open socket carries those symbols of the shard that *)
(* have a token (_subscribe_symbols, _on_open).                               *)
SymbolsCarried ==
  running /\ adding = {} /\ (\A l \in Loop : Connected(l) \/ at[l] = "free") =>
    \A l \in Loop : l = ws /\ Connected(l) => routed \cap Token \subseteq carried[l]

(* "Never reconnect outside market hours": a loop that was waiting for its    *)
(* next attempt when the market closed makes that one attempt, and no other   *)
(* until it opens (_run_shard).                                               *)
OneDialAfterClose == \A l \in Loop : lateDials[l] <= 1

(* In entry hours and with symbols to stream, a socket delivers again and     *)
(* again: through drops, silence, failed connects and logins, stops that race *)
(* with the loops, and starts that race with each other.  Entry hours are the *)
(* watchdog's own: nobody judges a silent socket, or starts a feed that is    *)
(* down, in the rest of the market's hours.  (A start needs one of the        *)
(* model's threads.)                                                          *)
FeedReturns ==
  <>[](entryHours /\ routed \cap Token # {} /\ (running \/ \E l \in Loop : Free(l))) =>
    []<>(\E l \in Loop : at[l] = "up")
===============================================================================

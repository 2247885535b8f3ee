--------------------------- MODULE MarketFeed_proofs ---------------------------
(* Theorems about MarketFeed, for any number of loops and symbols.            *)
EXTENDS MarketFeed, TLAPS

LEMMA Constants ==
  /\ Nobody \notin Loop /\ Token \subseteq Symbol /\ IsFiniteSet(Symbol) /\ MaxSymbols \in Nat /\ MaxUpsets \in Nat
  BY FeedAssumption DEF FeedAssumption

(* What a thread does to its own place.                                       *)
LEMMA PlaceTyped ==
  ASSUME TypeOK, NEW l \in Loop, NEW place \in Place, Moves(l, place)
  PROVE /\ at' \in [Loop -> Place] /\ at'[l] = place
        /\ \A k \in Loop \ {l} : at'[k] = at[k]
  BY DEF TypeOK, Moves

(* connect returns in one loop, or in none.                                   *)
LEMMA Closed ==
  ASSUME TypeOK, CloseSocket
  PROVE /\ at' \in [Loop -> Place] /\ carried' \in [Loop -> SUBSET Token]
        /\ \A l \in Loop :
             \/ at'[l] = at[l] /\ carried'[l] = carried[l]
             \/ l = ws /\ at[l] \in {"dial", "up", "silent"} /\ at'[l] = "again"
  <1>1. CASE UNCHANGED <<at, carried>>
    BY <1>1 DEF TypeOK
  <1>2. CASE ws # Nobody /\ at[ws] \in {"dial", "up", "silent"} /\ ConnectReturns(ws)
    <2>1. ws \in Loop
      BY <1>2 DEF TypeOK
    <2> QED BY <1>2, <2>1 DEF TypeOK, ConnectReturns, Moves, Place
  <1> QED BY <1>1, <1>2 DEF CloseSocket
-------------------------------------------------------------------------------
LEMMA TypeInit == Init => TypeOK
  <1> SUFFICES ASSUME Init PROVE TypeOK
    OBVIOUS
  <1>1. running \in BOOLEAN /\ session \in BOOLEAN /\ marketOpen \in BOOLEAN
    BY Zenon DEF Init
  <1>4. entryHours \in BOOLEAN
    BY <1>1, Zenon DEF Init
  <1>2. /\ at \in [Loop -> Place] /\ carried \in [Loop -> SUBSET Token]
        /\ lateDials \in [Loop -> 0..2] /\ upsets \in 0..MaxUpsets
    BY Constants DEF Init, Place
  <1>3. /\ wanted \subseteq Symbol /\ routed \subseteq Symbol /\ adding \subseteq Symbol
        /\ ws \in Loop \union {Nobody} /\ clock \in Clock
    BY DEF Init, Clock
  <1> QED BY <1>1, <1>2, <1>3, <1>4 DEF TypeOK

(* The threads.                                                               *)
ThreadNext(l) ==
  \/ Start(l) \/ LoginFails(l) \/ LogsIn(l)
  \/ LoopEnds(l) \/ Ended(l) \/ Pauses(l) \/ Resumes(l) \/ BacksOff(l)
  \/ Dials(l) \/ FailsToConnect(l) \/ SocketOpens(l) \/ Drops(l)
  \/ FallsSilent(l) \/ Message(l)

LEMMA ThreadTyped ==
  ASSUME TypeOK, NEW l \in Loop, ThreadNext(l) PROVE TypeOK'
  <1> USE DEF LoopStep, hourVars
  <1>1. CASE LoginFails(l)
    <2>1. running' \in BOOLEAN
      <3>1. (running /\ at[l] # "login") \in BOOLEAN
        OBVIOUS
      <3> QED BY <1>1, <3>1 DEF LoginFails
    <2>2. at' \in [Loop -> Place]
      BY <1>1 DEF LoginFails, Moves, TypeOK, Place
    <2> QED BY <1>1, <2>1, <2>2 DEF LoginFails, TypeOK, routeVars
  <1>2. CASE LogsIn(l)
    <2>1. at' \in [Loop -> Place]
      BY <1>2 DEF LogsIn, Moves, TypeOK, Place
    <2>2. routed' \subseteq Symbol
      BY <1>2 DEF LogsIn, TypeOK
    <2>3. session' \in BOOLEAN
      BY <1>2, Zenon DEF LogsIn
    <2> QED BY <1>2, <2>1, <2>2, <2>3 DEF LogsIn, TypeOK
  <1>3. CASE LoopEnds(l) \/ Pauses(l) \/ Resumes(l) \/ BacksOff(l) \/ FailsToConnect(l)
             \/ FallsSilent(l)
    <2>1. at' \in [Loop -> Place]
      BY <1>3 DEF LoopEnds, Pauses, Resumes, BacksOff, FailsToConnect, FallsSilent, Moves,
         TypeOK, Place
    <2> QED BY <1>3, <2>1 DEF LoopEnds, Pauses, Resumes, BacksOff, FailsToConnect,
          FallsSilent, TypeOK, routeVars
  <1>4. CASE Ended(l)
    <2>1. at' \in [Loop -> Place]
      BY <1>4 DEF Ended, Moves, TypeOK, Place
    <2>2. running' \in BOOLEAN
      BY <1>4, Zenon DEF Ended
    <2> QED BY <1>4, <2>1, <2>2 DEF Ended, TypeOK, routeVars
  <1>5. CASE Dials(l)
    <2>1. at' \in [Loop -> Place] /\ ws' \in Loop \union {Nobody}
      BY <1>5 DEF Dials, Moves, TypeOK, Place
    <2>2. lateDials' \in [Loop -> 0..2]
      BY <1>5 DEF Dials, TypeOK
    <2> QED BY <1>5, <2>1, <2>2 DEF Dials, TypeOK, routeVars
  <1>6. CASE SocketOpens(l) \/ Message(l)
    <2>1. at' \in [Loop -> Place] /\ clock' \in Clock
      BY <1>6 DEF SocketOpens, Message, Moves, TypeOK, Place, Clock, loopVars
    <2>2. carried' \in [Loop -> SUBSET Token]
      BY <1>6 DEF SocketOpens, Message, OpenWith, TypeOK, loopVars
    <2> QED BY <1>6, <2>1, <2>2 DEF SocketOpens, Message, TypeOK, routeVars, loopVars
  <1>7. CASE Drops(l)
    <2>1. at' \in [Loop -> Place] /\ carried' \in [Loop -> SUBSET Token]
      BY <1>7 DEF Drops, ConnectReturns, Moves, TypeOK, Place
    <2> QED BY <1>7, <2>1 DEF Drops, TypeOK, routeVars
  <1>8. CASE Start(l)
    <2>1. at' \in [Loop -> Place]
      BY <1>8 DEF Start, Moves, TypeOK, Place
    <2>2. running' \in BOOLEAN
      BY <1>8, Zenon DEF Start
    <2> QED BY <1>8, <2>1, <2>2 DEF Start, TypeOK, routeVars
  <1> QED BY <1>1, <1>2, <1>3, <1>4, <1>5, <1>6, <1>7, <1>8 DEF ThreadNext

(* The callers, the watchdog, the clock and the market.                       *)
CallerNext ==
  \/ \E l \in Loop : SeesItDown(l)
  \/ \E x \in Symbol, protected \in BOOLEAN : AddSubscription(x, protected)
  \/ \E x \in Symbol : SubscribeSymbol(x)
  \/ Stop \/ TimePasses \/ CheckHeartbeat \/ MarketTurns

LEMMA CallerTyped == ASSUME TypeOK, CallerNext PROVE TypeOK'
  <1> USE Constants DEF LoopStep, hourVars
  <1>1. ASSUME NEW l \in Loop, SeesItDown(l) PROVE TypeOK'
    <2>1. at' \in [Loop -> Place] /\ upsets' \in 0..MaxUpsets
      BY <1>1 DEF SeesItDown, Moves, TypeOK, Place
    <2> QED BY <1>1, <2>1 DEF SeesItDown, TypeOK, routeVars
  <1>2. ASSUME NEW x \in Symbol, NEW protected \in BOOLEAN, AddSubscription(x, protected)
        PROVE TypeOK'
    <2>1. wanted' \subseteq Symbol /\ adding' \subseteq Symbol /\ routed' \subseteq Symbol
      BY <1>2 DEF AddSubscription, TypeOK
    <2> QED BY <1>2, <2>1 DEF AddSubscription, TypeOK, loopVars
  <1>3. ASSUME NEW x \in Symbol, SubscribeSymbol(x) PROVE TypeOK'
    <2>1. at' \in [Loop -> Place]
      BY <1>3 DEF SubscribeSymbol, Moves, TypeOK, Place
    <2>2. carried' \in [Loop -> SUBSET Token] /\ adding' \subseteq Symbol
      BY <1>3 DEF SubscribeSymbol, TypeOK
    <2> QED BY <1>3, <2>1, <2>2 DEF SubscribeSymbol, TypeOK
  <1>4. CASE Stop
    <2>1. at' \in [Loop -> Place] /\ carried' \in [Loop -> SUBSET Token]
      BY <1>4, Closed DEF Stop
    <2>2. upsets' \in 0..MaxUpsets
      BY <1>4 DEF Stop, TypeOK
    <2>3. running' \in BOOLEAN
      BY <1>4, Zenon DEF Stop
    <2> QED BY <1>4, <2>1, <2>2, <2>3 DEF Stop, TypeOK, routeVars
  <1>5. CASE CheckHeartbeat
    <2>1. at' \in [Loop -> Place] /\ carried' \in [Loop -> SUBSET Token]
      BY <1>5, Closed DEF CheckHeartbeat
    <2> QED BY <1>5, <2>1 DEF CheckHeartbeat, TypeOK, routeVars, Clock
  <1>6. CASE TimePasses
    BY <1>6 DEF TimePasses, TypeOK, routeVars, loopVars, Clock
  <1>7. CASE MarketTurns
    <2>1. marketOpen' \in BOOLEAN
      BY <1>7, Zenon DEF MarketTurns
    <2>3. entryHours' \in BOOLEAN
      BY <1>7, <2>1, Zenon DEF MarketTurns
    <2>2. lateDials' \in [Loop -> 0..2]
      BY <1>7 DEF MarketTurns
    <2> QED BY <1>7, <2>1, <2>2, <2>3 DEF MarketTurns, TypeOK, routeVars
  <1> QED BY <1>1, <1>2, <1>3, <1>4, <1>5, <1>6, <1>7 DEF CallerNext

LEMMA NextCases == [Next]_vars <=>
  (CallerNext \/ (\E l \in Loop : ThreadNext(l)) \/ UNCHANGED vars)
  BY DEF Next, CallerNext, ThreadNext

LEMMA TypeStep == TypeOK /\ [Next]_vars => TypeOK'
  <1> SUFFICES ASSUME TypeOK, [Next]_vars PROVE TypeOK'
    OBVIOUS
  <1>1. CASE UNCHANGED vars
    BY <1>1 DEF TypeOK, vars, routeVars, loopVars, hourVars
  <1> QED BY <1>1, NextCases, CallerTyped, ThreadTyped
-------------------------------------------------------------------------------
(* While the market is closed, a loop that still waits for its next attempt   *)
(* has made none.                                                             *)
HoursInv ==
  /\ OneDialAfterClose
  /\ \A l \in Loop : marketOpen \/ at[l] = "backoff" => lateDials[l] = 0

LEMMA HoursInit == Init => HoursInv
  BY DEF Init, HoursInv, OneDialAfterClose

LEMMA HoursStep == TypeOK /\ HoursInv /\ [Next]_vars => HoursInv'
  <1> SUFFICES ASSUME TypeOK, HoursInv, [Next]_vars PROVE HoursInv'
    OBVIOUS
  <1> USE DEF LoopStep, hourVars
  (* Nothing but Dials and MarketTurns counts, and only BacksOff waits.       *)
  <1>1. ASSUME UNCHANGED <<marketOpen, lateDials>>,
               \A l \in Loop : at'[l] = "backoff" => at[l] = "backoff" \/ marketOpen
        PROVE HoursInv'
    BY <1>1 DEF HoursInv, OneDialAfterClose
  <1>2. ASSUME NEW l \in Loop, Dials(l) PROVE HoursInv'
    <2>1. marketOpen \/ lateDials[l] = 0
      BY <1>2 DEF Dials, MayDial, DialsInHours, HoursInv
    <2>2. /\ lateDials' \in [Loop -> 0..2] /\ lateDials'[l] <= 1
          /\ marketOpen => lateDials'[l] = 0
          /\ \A k \in Loop \ {l} : lateDials'[k] = lateDials[k]
      BY <1>2, <2>1 DEF Dials, TypeOK, HoursInv
    <2>3. at'[l] = "dial" /\ \A k \in Loop \ {l} : at'[k] = at[k]
      BY <1>2 DEF Dials, Moves, TypeOK
    <2>4. UNCHANGED marketOpen
      BY <1>2 DEF Dials
    <2> QED BY <2>2, <2>3, <2>4 DEF HoursInv, OneDialAfterClose
  <1>3. ASSUME NEW l \in Loop, ThreadNext(l), ~Dials(l) PROVE HoursInv'
    <2>1. UNCHANGED <<marketOpen, lateDials>>
      BY <1>3 DEF ThreadNext, Start, LoginFails, LogsIn, LoopEnds, Ended, Pauses, Resumes, BacksOff,
         FailsToConnect, SocketOpens, Drops, FallsSilent, Message, loopVars
    <2>2. CASE BacksOff(l)
      BY <1>1, <2>1, <2>2 DEF BacksOff, Moves, TypeOK
    <2>3. CASE ~BacksOff(l)
      <3>1. \A k \in Loop : at'[k] = "backoff" => at[k] = "backoff"
        BY <1>3, <2>3 DEF ThreadNext, Start, LoginFails, LogsIn, LoopEnds, Ended, Pauses, Resumes,
           FailsToConnect, SocketOpens, Drops, ConnectReturns, FallsSilent, Message, Moves,
           TypeOK, loopVars
      <3> QED BY <1>1, <2>1, <3>1
    <2> QED BY <2>2, <2>3
  <1>4. CASE MarketTurns
    BY <1>4 DEF MarketTurns, HoursInv, OneDialAfterClose
  <1>5. ASSUME CallerNext, ~MarketTurns PROVE HoursInv'
    <2>1. UNCHANGED <<marketOpen, lateDials>>
      BY <1>5 DEF CallerNext, SeesItDown, AddSubscription, SubscribeSymbol, Stop, TimePasses,
         CheckHeartbeat, loopVars
    <2>2. CASE Stop \/ CheckHeartbeat
      <3>1. CloseSocket
        BY <2>2 DEF Stop, CheckHeartbeat
      <3>2. \A l \in Loop : at'[l] = "backoff" => at[l] = "backoff"
        BY <3>1, Closed
      <3> QED BY <1>1, <2>1, <3>2
    <2>3. CASE ~(Stop \/ CheckHeartbeat)
      <3>1. \A l \in Loop : at'[l] = "backoff" => at[l] = "backoff"
        BY <1>5, <2>3 DEF CallerNext, SeesItDown, AddSubscription, SubscribeSymbol, TimePasses,
           Moves, TypeOK, loopVars
      <3> QED BY <1>1, <2>1, <3>1
    <2> QED BY <2>2, <2>3
  <1>6. CASE UNCHANGED vars
    BY <1>1, <1>6 DEF vars, loopVars, hourVars
  <1> QED BY <1>2, <1>3, <1>4, <1>5, <1>6, NextCases
-------------------------------------------------------------------------------
(* When the shard's socket lacks a symbol that no call is still subscribing,  *)
(* a loop that the start or the connection brought about is on its way to a   *)
(* connection of its own (or out of the feed, which then does not run).       *)
UnderWay(l) == at[l] \notin {"free", "up", "silent", "dial"}

Lacking == ws \in Loop /\ Connected(ws) /\ ~((routed \cap Token) \ adding \subseteq carried[ws])

CarryInv == running /\ Lacking => \E l \in Loop : UnderWay(l)

LEMMA CarryInit == Init => CarryInv
  BY DEF Init, CarryInv

(* A step that makes the socket lack nothing new, and takes no loop off its   *)
(* way.                                                                       *)
LEMMA KeepsCarrying ==
  ASSUME CarryInv, running' => running, Lacking' => Lacking,
         \A l \in Loop : UnderWay(l) => UnderWay(l)'
  PROVE CarryInv'
  BY DEF CarryInv

LEMMA ThreadCarries ==
  ASSUME TypeOK, CarryInv, NEW l \in Loop, ThreadNext(l) PROVE CarryInv'
  <1> USE DEF LoopStep, hourVars
  <1>1. CASE LoginFails(l)
    <2>1. CASE at[l] = "login"
      BY <1>1, <2>1 DEF LoginFails, CarryInv
    <2>2. CASE at[l] = "relogin"
      <3>1. at'[l] = "again"
        BY <1>1, <2>2 DEF LoginFails, Moves, TypeOK
      <3> QED BY <3>1 DEF CarryInv, UnderWay
    <2> QED BY <1>1, <2>1, <2>2 DEF LoginFails
  <1>2. CASE LogsIn(l) \/ Pauses(l) \/ Resumes(l) \/ BacksOff(l) \/ FailsToConnect(l)
             \/ Drops(l)
    <2>1. at'[l] \in {"first", "again", "pause", "backoff", "relogin"}
      BY <1>2 DEF LogsIn, Pauses, Resumes, BacksOff, FailsToConnect, Drops, ConnectReturns,
         Moves, TypeOK
    <2> QED BY <2>1 DEF CarryInv, UnderWay
  <1>3. CASE LoopEnds(l)
    <2>1. at'[l] = "end"
      BY <1>3 DEF LoopEnds, Moves, TypeOK
    <2> QED BY <2>1 DEF CarryInv, UnderWay
  <1>4. CASE Ended(l)
    BY <1>4 DEF Ended, CarryInv
  <1>5. CASE Dials(l)
    <2>1. ws' = l /\ at'[l] = "dial"
      BY <1>5 DEF Dials, Moves, TypeOK
    <2> QED BY <2>1 DEF CarryInv, Lacking, Connected
  <1>6. CASE SocketOpens(l)
    <2>1. /\ at[l] = "dial" /\ at'[l] = "up" /\ \A k \in Loop \ {l} : at'[k] = at[k]
          /\ carried'[l] = OpenWith(l) /\ \A k \in Loop \ {l} : carried'[k] = carried[k]
          /\ UNCHANGED <<running, routed, adding, ws>>
      BY <1>6 DEF SocketOpens, Moves, TypeOK, routeVars
    <2>2. routed \cap Token \subseteq OpenWith(l)
      BY DEF OpenWith
    <2>3. Lacking' => Lacking
      BY <2>1, <2>2 DEF Lacking, Connected
    <2> QED BY <2>1, <2>3, KeepsCarrying DEF UnderWay
  <1>7. CASE FallsSilent(l) \/ Message(l)
    <2>1. /\ Connected(l) /\ Connected(l)' /\ \A k \in Loop \ {l} : at'[k] = at[k]
          /\ UNCHANGED <<running, routed, adding, ws, carried>>
      BY <1>7 DEF FallsSilent, Message, Moves, Connected, TypeOK, routeVars, loopVars
    <2>2. Lacking' => Lacking
      BY <2>1 DEF Lacking, Connected
    <2> QED BY <2>1, <2>2, KeepsCarrying DEF UnderWay, Connected
  <1>8. CASE Start(l)
    <2>1. at'[l] = "login"
      BY <1>8 DEF Start, Moves, TypeOK
    <2> QED BY <2>1 DEF CarryInv, UnderWay
  <1> QED BY <1>1, <1>2, <1>3, <1>4, <1>5, <1>6, <1>7, <1>8 DEF ThreadNext

LEMMA CallerCarries ==
  ASSUME TypeOK, CarryInv, CallerNext PROVE CarryInv'
  <1> USE DEF LoopStep, hourVars
  <1>1. ASSUME NEW l \in Loop, SeesItDown(l) PROVE CarryInv'
    <2>1. at'[l] = "start"
      BY <1>1 DEF SeesItDown, Moves, TypeOK
    <2> QED BY <2>1 DEF CarryInv, UnderWay
  <1>2. ASSUME NEW x \in Symbol, NEW protected \in BOOLEAN, AddSubscription(x, protected)
        PROVE CarryInv'
    <2>1. adding = {} /\ routed' = routed \union adding' /\ UNCHANGED <<running, ws, loopVars>>
      BY <1>2 DEF AddSubscription
    <2>2. Lacking' => Lacking
      BY <2>1 DEF Lacking, Connected, loopVars
    <2> QED BY <2>1, <2>2, KeepsCarrying DEF UnderWay, loopVars
  <1>3. ASSUME NEW x \in Symbol, SubscribeSymbol(x) PROVE CarryInv'
    <2>1. adding' = adding \ {x} /\ UNCHANGED <<running, routed, ws>>
      BY <1>3 DEF SubscribeSymbol
    <2>2. CASE ws = Nobody
      BY <2>1, <2>2, Constants DEF CarryInv, Lacking
    <2>3. CASE ws # Nobody
      <3>1. UNCHANGED at
        BY <1>3, <2>3 DEF SubscribeSymbol
      <3>2. ASSUME Lacking' PROVE Lacking
        <4>1. ws \in Loop /\ Connected(ws)
          BY <2>1, <3>1, <3>2 DEF Lacking, Connected
        <4>2. carried'[ws] = carried[ws] \union ({x} \cap Token)
          BY <1>3, <2>3, <4>1 DEF SubscribeSymbol, TakesUpdate, TypeOK
        <4> QED BY <2>1, <3>2, <4>1, <4>2 DEF Lacking
      <3> QED BY <2>1, <3>1, <3>2, KeepsCarrying DEF UnderWay
    <2> QED BY <2>2, <2>3
  <1>4. CASE Stop
    BY <1>4 DEF Stop, CarryInv
  <1>5. CASE CheckHeartbeat
    <2>1. \A l \in Loop :
            \/ at'[l] = at[l] /\ carried'[l] = carried[l]
            \/ l = ws /\ at[l] \in {"dial", "up", "silent"} /\ at'[l] = "again"
      BY <1>5, Closed DEF CheckHeartbeat
    <2>2. UNCHANGED <<running, routed, adding, ws>>
      BY <1>5 DEF CheckHeartbeat, routeVars
    <2>3. Lacking' => Lacking
      BY <2>1, <2>2 DEF Lacking, Connected
    <2>4. \A l \in Loop : UnderWay(l) => UnderWay(l)'
      BY <2>1 DEF UnderWay
    <2> QED BY <2>2, <2>3, <2>4, KeepsCarrying
  <1>6. CASE TimePasses \/ MarketTurns
    <2>1. UNCHANGED <<running, routed, adding, ws, at, carried>>
      BY <1>6 DEF TimePasses, MarketTurns, routeVars, loopVars
    <2> QED BY <2>1, KeepsCarrying DEF Lacking, Connected, UnderWay
  <1> QED BY <1>1, <1>2, <1>3, <1>4, <1>5, <1>6 DEF CallerNext

LEMMA CarryStep == TypeOK /\ CarryInv /\ [Next]_vars => CarryInv'
  <1> SUFFICES ASSUME TypeOK, CarryInv, [Next]_vars PROVE CarryInv'
    OBVIOUS
  <1>1. CASE UNCHANGED vars
    <2>1. UNCHANGED <<running, routed, adding, ws, at, carried>>
      BY <1>1 DEF vars, routeVars, loopVars
    <2> QED BY <2>1, KeepsCarrying DEF Lacking, Connected, UnderWay
  <1> QED BY <1>1, NextCases, CallerCarries, ThreadCarries
-------------------------------------------------------------------------------
THEOREM Invariance == Spec => [](TypeOK /\ HoursInv /\ CarryInv)
  <1>1. TypeOK /\ HoursInv /\ CarryInv /\ [Next]_vars
          => (TypeOK /\ HoursInv /\ CarryInv)'
    BY TypeStep, HoursStep, CarryStep
  <1> QED BY <1>1, TypeInit, HoursInit, CarryInit, PTL DEF Spec

(* The feed's flags, routes, loops and sockets keep their types.              *)
THEOREM TypeCorrect == Spec => []TypeOK
  BY Invariance, PTL

(* A loop connects once at most after the market closed (_run_shard).         *)
THEOREM OneDial == Spec => []OneDialAfterClose
  <1>1. HoursInv => OneDialAfterClose
    BY DEF HoursInv
  <1> QED BY <1>1, Invariance, PTL

(* No symbol is lost between the calls that add it and the loops that connect *)
(* meanwhile, for any number of both (_subscribe_symbols, _on_open).          *)
THEOREM SymbolsAreCarried == Spec => []SymbolsCarried
  <1>1. TypeOK /\ CarryInv => SymbolsCarried
    BY DEF TypeOK, CarryInv, Lacking, UnderWay, Connected, SymbolsCarried
  <1> QED BY <1>1, Invariance, PTL
===============================================================================

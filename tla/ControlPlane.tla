----------------------------- MODULE ControlPlane -----------------------------
(***************************************************************************)
(* The operator's control plane of TradingRuntime (api/runtime.py): the    *)
(* execution mode, the broker the scheduler is wired to, LIVE arming, and  *)
(* the kill switch with its record in the risk_events table.               *)
(*                                                                         *)
(* Every operation is one synchronous method of the runtime, and one       *)
(* action here: a call on the event loop excludes the others.  The HTTP    *)
(* handlers of arm_live, set_execution_mode and the kill switch run in     *)
(* threads, which can interleave inside these methods; Watchdogs splits    *)
(* them for that reason.  The process may stop and start again between any *)
(* two operations.                                                         *)
(***************************************************************************)
EXTENDS Naturals

CONSTANTS
  Mode,          \* the execution modes in use (domain/enums.py ExecutionMode)
  LiveMode,      \* those whose name starts with "LIVE"
  StartMode      \* settings.execution_mode, read when the process starts

ASSUME ModeAssumption ==
  /\ LiveMode \subseteq Mode
  /\ StartMode \in Mode

VARIABLES
  mode,          \* runtime.execution_mode
  broker,        \* scheduler.broker: "paper" or "live"
  arming,        \* runtime.live_armed, and who cleared it (see ArmState)
  kill,          \* runtime.kill_switch_active = scheduler.kill_switch_active
  killEvent,     \* the latest kill-switch row of risk_events
  commanded,     \* history: what the latest set_kill_switch asked for
  auditLost      \* history: that change was not saved, or could not be read

controlVars == <<mode, broker, arming, kill, killEvent, commanded, auditLost>>

Venue == {"paper", "live"}
KillEvent == {"none", "kill_switch_activated", "kill_switch_cleared"}

(* live_armed is TRUE exactly when the state is "armed".  "disarmed" and     *)
(* "frozen" are both FALSE; "frozen" remembers that it was the kill switch   *)
(* that disarmed a LIVE session that the operator had armed.                 *)
ArmState == {"armed", "disarmed", "frozen"}
LiveArmed == arming = "armed"

(* broker_client(): the Angel One client in a LIVE mode, else the simulator. *)
BrokerClient(m) == IF m \in LiveMode THEN "live" ELSE "paper"

ControlInit ==
  /\ mode = StartMode
  /\ broker = "paper"
  /\ arming = "disarmed"
  /\ kill = FALSE
  /\ killEvent = "none"
  /\ commanded = FALSE
  /\ auditLost = FALSE

(* Negative tests: set_execution_mode as it would be without the swap of the  *)
(* broker, and without disarming on the way out of LIVE.                      *)
SetExecutionModeNoSwap(m) ==
  /\ mode' = m
  /\ arming' = IF m \in LiveMode THEN arming ELSE "disarmed"
  /\ UNCHANGED <<broker, kill, killEvent, commanded, auditLost>>

SetExecutionModeStaysArmed(m) ==
  /\ mode' = m
  /\ broker' = BrokerClient(m)
  /\ UNCHANGED <<arming, kill, killEvent, commanded, auditLost>>

(* set_execution_mode: leaving LIVE disarms, and the scheduler's broker is   *)
(* swapped for the new mode's client in the same call.                       *)
SetExecutionMode(m) ==
  /\ mode' = m
  /\ arming' = IF m \in LiveMode THEN arming ELSE "disarmed"
  /\ broker' = BrokerClient(m)
  /\ UNCHANGED <<kill, killEvent, commanded, auditLost>>

(* The readiness gates that read control state.  The other gates (flag,      *)
(* confirmation phrase, credentials, feed and instrument freshness, canary)  *)
(* are settings and market data: the environment's choice.                   *)
LiveReady(envReady) == envReady /\ mode \in LiveMode /\ ~kill

ArmLive(envReady) ==
  /\ LiveReady(envReady)
  /\ arming' = "armed"
  /\ UNCHANGED <<mode, broker, kill, killEvent, commanded, auditLost>>

DisarmLive ==
  /\ arming' = "disarmed"
  /\ UNCHANGED <<mode, broker, kill, killEvent, commanded, auditLost>>

(* set_kill_switch: flips both copies of the flag, disarms LIVE when active, *)
(* then saves a risk event; a failed save is swallowed.                      *)
SetKillSwitch(active, saved) ==
  /\ kill' = active
  /\ arming' = IF ~active THEN arming
               ELSE IF LiveArmed THEN "frozen" ELSE arming
  /\ killEvent' = IF ~saved THEN killEvent
                  ELSE IF active THEN "kill_switch_activated"
                  ELSE "kill_switch_cleared"
  /\ commanded' = active
  /\ auditLost' = ~saved
  /\ UNCHANGED <<mode, broker>>

(* Negative test: a start that does not read the risk events (the redeploy of *)
(* 2026-09-11 that _restore_kill_switch_from_db describes).                   *)
RestartControlForgets(readOk) ==
  /\ mode' = StartMode /\ broker' = "paper" /\ arming' = "disarmed"
  /\ kill' = FALSE
  /\ auditLost' = (auditLost \/ ~readOk)
  /\ UNCHANGED <<killEvent, commanded>>

(* The process stops and TradingRuntime.__init__ runs again: the scheduler   *)
(* is built on the paper broker, LIVE starts disarmed, and the kill switch   *)
(* comes back from the latest saved event (or FALSE if the read fails).      *)
RestartControl(readOk) ==
  /\ mode' = StartMode
  /\ broker' = "paper"
  /\ arming' = "disarmed"
  /\ kill' = (readOk /\ killEvent = "kill_switch_activated")
  /\ auditLost' = (auditLost \/ ~readOk)
  /\ UNCHANGED <<killEvent, commanded>>

ControlTypeOK ==
  /\ mode \in Mode
  /\ broker \in Venue
  /\ arming \in ArmState
  /\ kill \in BOOLEAN
  /\ killEvent \in KillEvent
  /\ commanded \in BOOLEAN
  /\ auditLost \in BOOLEAN

(* A tripped kill switch survives restarts: the flag in memory is what the    *)
(* operator (or the portfolio guardian) last asked for, across any number of  *)
(* restarts, unless that risk event could not be saved or read back           *)
(* (set_kill_switch, _restore_kill_switch_from_db).                           *)
TripSurvivesRestart == ~auditLost => kill = commanded

(* LIVE is never armed while the kill switch is active or outside a LIVE      *)
(* mode, however arming, tripping, mode changes and restarts interleave.      *)
NeverArmedUnderKill == LiveArmed => ~kill /\ mode \in LiveMode

(* The scheduler's broker is the client of the current execution mode: the    *)
(* mode toggle and the broker swap are never seen apart (README.md, "Execution*)
(* Modes"; set_execution_mode, broker_client).                                *)
BrokerFollowsMode == broker = BrokerClient(mode)
===============================================================================

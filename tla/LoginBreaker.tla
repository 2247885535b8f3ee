------------------------------ MODULE LoginBreaker ------------------------------
(***************************************************************************)
(* The circuit breaker that every Angel One login path of the process      *)
(* shares (broker/auth_health.py): the broker client, the historical data  *)
(* client and the live feed log in on threads of their own, each with      *)
(* before_login_attempt, the call to the broker, and record_success or     *)
(* record_failure.  One lock makes each of these a step; the alerts go out *)
(* after it is released.                                                   *)
(***************************************************************************)
EXTENDS Integers, FiniteSets

CONSTANTS
  Login,         \* the threads that log in
  Threshold      \* ANGEL_AUTH_BREAKER_THRESHOLD

ASSUME BreakerAssumption ==
  /\ IsFiniteSet(Login)
  /\ Threshold \in Nat \ {0}

VARIABLES
  valid,         \* whether the broker accepts the credentials
  breaker,       \* breaker_open_until: none, in the future, or in the past
  failures,      \* consecutive_auth_failures, counted up to Threshold
  alerted,       \* alerted_open
  pc,            \* where each thread is
  alerts,        \* history: CRITICAL alerts less RECOVERED alerts so far
  rejected       \* history: rejections recorded since the last success, but
                 \* for those of trials

breakerVars == <<breaker, failures, alerted, rejected>>
vars == <<valid, breakerVars, pc, alerts>>

Breaker == {"closed", "cooling", "due"}
(* A thread waits for the broker's answer, has it, or has an alert to send;   *)
(* "trial" and "trial refused" are those of the trial of a cooldown.          *)
Point == {"idle", "calling", "trial", "accepted", "refused", "trial refused",
          "critical", "recovered"}

Init ==
  /\ valid \in BOOLEAN
  /\ breaker = "closed"
  /\ failures = 0
  /\ alerted = FALSE
  /\ pc = [t \in Login |-> "idle"]
  /\ alerts = 0
  /\ rejected = 0

Goto(t, point) == pc' = [pc EXCEPT ![t] = point]
-------------------------------------------------------------------------------
(* before_login_attempt.  While the breaker cools it raises, and nothing      *)
(* changes.  Negative test: a trial that is let in closes the breaker.         *)
TrialCloses == "closed"
AfterTrial == "cooling"

LetIn(t) ==
  /\ pc[t] = "idle"
  /\ \/ breaker = "closed" /\ Goto(t, "calling") /\ UNCHANGED breaker
     \/ breaker = "due" /\ Goto(t, "trial") /\ breaker' = AfterTrial
  /\ UNCHANGED <<valid, failures, alerted, alerts, rejected>>

CooldownElapses ==
  /\ breaker = "cooling" /\ breaker' = "due"
  /\ UNCHANGED <<valid, failures, alerted, pc, alerts, rejected>>

(* generateSession answers.                                                   *)
Accepted(t) ==
  /\ pc[t] \in {"calling", "trial"} /\ valid /\ Goto(t, "accepted")
  /\ UNCHANGED <<valid, breakerVars, alerts>>

Refused(t) ==
  /\ pc[t] \in {"calling", "trial"} /\ ~valid
  /\ Goto(t, IF pc[t] = "trial" THEN "trial refused" ELSE "refused")
  /\ UNCHANGED <<valid, breakerVars, alerts>>

(* A rate limit, a time-out, an exception on the way: not counted.            *)
LoginFails(t) ==
  /\ pc[t] \in {"calling", "trial"} /\ Goto(t, "idle")
  /\ UNCHANGED <<valid, breakerVars, alerts>>

(* record_success.  Negative tests: it takes back one failure instead of all; *)
(* the deadline stays; alerted_open stays.                                    *)
OneFewer == failures - 1
FailuresAfterSuccess == 0
DeadlineStays == breaker
AfterSuccess == "closed"
AlertedStays == alerted
AlertedAfterSuccess == FALSE

RecordSuccess(t) ==
  /\ pc[t] = "accepted"
  /\ failures' = FailuresAfterSuccess /\ breaker' = AfterSuccess /\ alerted' = AlertedAfterSuccess
  /\ rejected' = 0
  /\ Goto(t, IF alerted THEN "recovered" ELSE "idle")
  /\ UNCHANGED <<valid, alerts>>

(* The breaker only asks whether the count has reached Threshold: there the   *)
(* model stops counting, and the code does not.                               *)
Capped(n) == IF n > Threshold THEN Threshold ELSE n

Opens(n) == n >= Threshold

(* record_failure with an error of the credentials.                           *)
RecordFailure(t) ==
  /\ pc[t] \in {"refused", "trial refused"}
  /\ failures' = Capped(failures + 1)
  /\ rejected' = IF pc[t] = "refused" THEN rejected + 1 ELSE rejected
  /\ \/ /\ Opens(failures + 1)
        /\ breaker' = "cooling" /\ alerted' = TRUE
        /\ Goto(t, IF alerted THEN "idle" ELSE "critical")
     \/ /\ ~Opens(failures + 1)
        /\ Goto(t, "idle") /\ UNCHANGED <<breaker, alerted>>
  /\ UNCHANGED <<valid, alerts>>

(* _alert starts a thread that delivers the message.                          *)
AlertSent(t) ==
  /\ pc[t] \in {"critical", "recovered"} /\ Goto(t, "idle")
  /\ alerts' = IF pc[t] = "critical" THEN alerts + 1 ELSE alerts - 1
  /\ UNCHANGED <<valid, breakerVars>>

(* The broker stops accepting the credentials, or accepts them again.         *)
CredentialsChange ==
  /\ valid' = ~valid
  /\ UNCHANGED <<breakerVars, pc, alerts>>

Next ==
  \/ \E t \in Login :
       \/ LetIn(t) \/ Accepted(t) \/ Refused(t) \/ LoginFails(t)
       \/ RecordSuccess(t) \/ RecordFailure(t) \/ AlertSent(t)
  \/ CooldownElapses
  \/ CredentialsChange

Spec == Init /\ [][Next]_vars

(* Threads go on, the cooldown passes, the platform keeps asking for a login, *)
(* and the broker answers properly now and then.                              *)
Fairness ==
  /\ WF_vars(CooldownElapses)
  /\ \A t \in Login :
       /\ SF_vars(LetIn(t)) /\ SF_vars(Accepted(t))
       /\ WF_vars(Accepted(t) \/ Refused(t) \/ LoginFails(t))
       /\ WF_vars(RecordSuccess(t) \/ RecordFailure(t) \/ AlertSent(t))

FairSpec == Spec /\ Fairness
-------------------------------------------------------------------------------
TypeOK ==
  /\ valid \in BOOLEAN
  /\ breaker \in Breaker
  /\ failures \in Nat
  /\ alerted \in BOOLEAN
  /\ pc \in [Login -> Point]
  /\ alerts \in Int
  /\ rejected \in Nat

(* The login quota is spared: of the logins that are not the trial of a       *)
(* cooldown, at most Threshold are rejected between two successes, and one    *)
(* more for each other thread that was already past the gate, however the     *)
(* threads are interleaved (before_login_attempt, record_failure).            *)
QuotaSpared == rejected <= Threshold + Cardinality(Login) - 1

(* Every outage is reported once, and its end once: with no alert on its way, *)
(* the CRITICAL alerts are as many as the RECOVERED ones, and one more while  *)
(* alerted_open says so.                                                      *)
OutagesReported ==
  (\A t \in Login : ~(pc[t] \in {"critical", "recovered"})) =>
    alerts = IF alerted THEN 1 ELSE 0

(* Once the broker accepts the credentials for good, the breaker closes for   *)
(* good, whatever was rejected before and is still to be recorded.            *)
ClosesAgain == <>[]valid => <>[](breaker = "closed")
===============================================================================

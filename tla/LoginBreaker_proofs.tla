-------------------------- MODULE LoginBreaker_proofs --------------------------
(* Theorems about LoginBreaker, for any number of logins and any threshold.   *)
EXTENDS LoginBreaker, FiniteSetTheorems, TLAPS

LEMMA Constants == IsFiniteSet(Login) /\ Threshold \in Nat \ {0}
  BY BreakerAssumption DEF BreakerAssumption

LEMMA Logins == Cardinality(Login) \in Nat
  BY Constants, FS_CardinalityType
-------------------------------------------------------------------------------
(* Counting threads.                                                          *)

At(points) == {t \in Login : pc[t] \in points}

LEMMA AtFinite ==
  ASSUME NEW points
  PROVE /\ IsFiniteSet(At(points)) /\ Cardinality(At(points)) \in Nat
        /\ Cardinality(At(points)) <= Cardinality(Login)
  <1>1. At(points) \subseteq Login
    BY DEF At
  <1> QED BY <1>1, Constants, FS_Subset, FS_CardinalityType

LEMMA AtFinitePrimed ==
  ASSUME NEW points
  PROVE /\ IsFiniteSet(At(points)') /\ Cardinality(At(points))' \in Nat
        /\ Cardinality(At(points))' <= Cardinality(Login)
  <1>1. At(points)' \subseteq Login
    BY DEF At
  <1> QED BY <1>1, Constants, FS_Subset, FS_CardinalityType

(* One thread moves, and is counted where it goes and no more where it was.   *)
Moves(t) == pc' = [pc EXCEPT ![t] = pc'[t]]

LEMMA OneMoves ==
  ASSUME TypeOK, NEW t \in Login, Moves(t), NEW points
  PROVE Cardinality(At(points))' =
          Cardinality(At(points)) + (IF pc'[t] \in points THEN 1 ELSE 0)
                                  - (IF pc[t] \in points THEN 1 ELSE 0)
  <1>1. At(points)' = IF pc'[t] \in points THEN At(points) \union {t}
                      ELSE At(points) \ {t}
    BY DEF At, Moves, TypeOK
  <1>2. t \in At(points) <=> pc[t] \in points
    BY DEF At
  <1>3. IsFiniteSet(At(points)) /\ Cardinality(At(points)) \in Nat
    BY AtFinite
  <1>4. /\ t \in At(points) =>
             /\ Cardinality(At(points) \union {t}) = Cardinality(At(points))
             /\ Cardinality(At(points) \ {t}) = Cardinality(At(points)) - 1
        /\ t \notin At(points) =>
             /\ Cardinality(At(points) \union {t}) = Cardinality(At(points)) + 1
             /\ Cardinality(At(points) \ {t}) = Cardinality(At(points))
    BY <1>3, FS_AddElement, FS_RemoveElement
  <1> QED BY <1>1, <1>2, <1>3, <1>4
-------------------------------------------------------------------------------
(* Where each action takes its thread.                                        *)
LEMMA LetInMoves ==
  ASSUME TypeOK, NEW t \in Login, LetIn(t)
  PROVE /\ Moves(t) /\ pc[t] = "idle"
        /\ \/ breaker = "closed" /\ pc'[t] = "calling" /\ UNCHANGED breaker
           \/ pc'[t] = "trial" /\ breaker' = "cooling"
        /\ UNCHANGED <<valid, failures, alerted, alerts, rejected>>
  BY DEF LetIn, AfterTrial, Goto, Moves, TypeOK

LEMMA AnswerMoves ==
  ASSUME TypeOK, NEW t \in Login, Accepted(t) \/ Refused(t) \/ LoginFails(t)
  PROVE /\ Moves(t) /\ pc[t] \in {"calling", "trial"}
        /\ pc'[t] \in {"accepted", "refused", "trial refused", "idle"}
        /\ pc'[t] = "refused" => pc[t] = "calling"
        /\ UNCHANGED <<valid, breakerVars, alerts>>
  <1>1. ASSUME Refused(t), pc[t] = "trial"
        PROVE UNCHANGED <<valid, breakerVars, alerts>> /\ Goto(t, "trial refused")
    BY <1>1, Zenon DEF Refused
  <1>2. ASSUME Refused(t), pc[t] # "trial"
        PROVE /\ UNCHANGED <<valid, breakerVars, alerts>> /\ Goto(t, "refused")
              /\ pc[t] = "calling"
    BY <1>2, Zenon DEF Refused
  <1>3. ASSUME Accepted(t) \/ LoginFails(t)
        PROVE /\ UNCHANGED <<valid, breakerVars, alerts>> /\ pc[t] \in {"calling", "trial"}
              /\ Goto(t, "accepted") \/ Goto(t, "idle")
    BY <1>3, Zenon DEF Accepted, LoginFails
  <1> QED BY <1>1, <1>2, <1>3 DEF Goto, Moves, TypeOK

LEMMA SuccessMoves ==
  ASSUME TypeOK, NEW t \in Login, RecordSuccess(t)
  PROVE /\ Moves(t) /\ pc[t] = "accepted"
        /\ alerted => pc'[t] = "recovered"
        /\ ~alerted => pc'[t] = "idle"
        /\ failures' = 0 /\ breaker' = "closed" /\ alerted' = FALSE /\ rejected' = 0
        /\ UNCHANGED <<valid, alerts>>
  <1>1. /\ pc[t] = "accepted"
        /\ failures' = 0 /\ breaker' = "closed" /\ alerted' = FALSE /\ rejected' = 0
        /\ UNCHANGED <<valid, alerts>>
    BY Zenon DEF RecordSuccess, FailuresAfterSuccess, AfterSuccess, AlertedAfterSuccess
  <1>2. (alerted => Goto(t, "recovered")) /\ (~alerted => Goto(t, "idle"))
    BY Zenon DEF RecordSuccess
  <1> QED BY <1>1, <1>2 DEF Goto, Moves, TypeOK

LEMMA FailureMoves ==
  ASSUME TypeOK, NEW t \in Login, RecordFailure(t)
  PROVE /\ Moves(t) /\ pc[t] \in {"refused", "trial refused"}
        /\ failures' = Capped(failures + 1)
        /\ pc[t] = "refused" => rejected' = rejected + 1
        /\ pc[t] # "refused" => rejected' = rejected
        /\ \/ /\ breaker' = "cooling" /\ ~alerted /\ alerted' = TRUE
              /\ pc'[t] = "critical"
           \/ /\ breaker' = "cooling" /\ alerted /\ alerted' = TRUE
              /\ pc'[t] = "idle"
           \/ /\ ~Opens(failures + 1) /\ UNCHANGED <<breaker, alerted>>
              /\ pc'[t] = "idle"
        /\ UNCHANGED <<valid, alerts>>
  <1>1. /\ pc[t] \in {"refused", "trial refused"}
        /\ failures' = Capped(failures + 1) /\ UNCHANGED <<valid, alerts>>
    BY Zenon DEF RecordFailure
  <1>2. (pc[t] = "refused" => rejected' = rejected + 1) /\
        (pc[t] # "refused" => rejected' = rejected)
    BY Zenon DEF RecordFailure
  <1>3. \/ breaker' = "cooling" /\ ~alerted /\ alerted' = TRUE /\ Goto(t, "critical")
        \/ breaker' = "cooling" /\ alerted /\ alerted' = TRUE /\ Goto(t, "idle")
        \/ ~Opens(failures + 1) /\ UNCHANGED <<breaker, alerted>> /\ Goto(t, "idle")
    BY Zenon DEF RecordFailure
  <1> QED BY <1>1, <1>2, <1>3 DEF Goto, Moves, TypeOK

LEMMA SendMoves ==
  ASSUME TypeOK, NEW t \in Login, AlertSent(t)
  PROVE /\ Moves(t) /\ pc'[t] = "idle" /\ UNCHANGED <<valid, breakerVars>>
        /\ \/ pc[t] = "critical" /\ alerts' = alerts + 1
           \/ pc[t] = "recovered" /\ alerts' = alerts - 1
  BY DEF AlertSent, Goto, Moves, TypeOK
-------------------------------------------------------------------------------
LEMMA TypeInit == Init => TypeOK
  <1> SUFFICES ASSUME Init PROVE TypeOK
    OBVIOUS
  <1>1. pc \in [Login -> Point]
    BY DEF Init, Point
  <1>2. valid \in BOOLEAN /\ alerted \in BOOLEAN /\ breaker \in Breaker
    BY Zenon DEF Init, Breaker
  <1>3. failures \in Nat /\ alerts \in Int /\ rejected \in Nat
    BY Constants DEF Init
  <1> QED BY <1>1, <1>2, <1>3 DEF TypeOK

LEMMA TypeStep == TypeOK /\ [Next]_vars => TypeOK'
  <1> SUFFICES ASSUME TypeOK, [Next]_vars PROVE TypeOK'
    OBVIOUS
  <1> USE Constants
  <1>1. ASSUME NEW t \in Login, Moves(t), pc'[t] \in Point
        PROVE pc' \in [Login -> Point]
    BY <1>1 DEF Moves, TypeOK
  <1>2. ASSUME NEW t \in Login, LetIn(t) PROVE TypeOK'
    <2>1. pc' \in [Login -> Point]
      BY <1>1, <1>2, LetInMoves DEF Point
    <2> QED BY <1>2, <2>1, LetInMoves DEF TypeOK, Breaker
  <1>3. ASSUME NEW t \in Login, Accepted(t) \/ Refused(t) \/ LoginFails(t) PROVE TypeOK'
    <2>1. pc' \in [Login -> Point]
      BY <1>1, <1>3, AnswerMoves DEF Point
    <2> QED BY <1>3, <2>1, AnswerMoves DEF TypeOK, breakerVars
  <1>4. ASSUME NEW t \in Login, RecordSuccess(t) PROVE TypeOK'
    <2>1. pc' \in [Login -> Point]
      BY <1>1, <1>4, SuccessMoves DEF Point
    <2>2. /\ failures' = 0 /\ breaker' = "closed" /\ alerted' = FALSE /\ rejected' = 0
          /\ UNCHANGED <<valid, alerts>>
      BY <1>4, SuccessMoves
    <2>3. alerted' \in BOOLEAN /\ breaker' \in Breaker
      BY <2>2, Zenon DEF Breaker
    <2>4. failures' \in Nat /\ rejected' \in Nat
      BY <2>2
    <2> QED BY <2>1, <2>2, <2>3, <2>4 DEF TypeOK
  <1>5. ASSUME NEW t \in Login, RecordFailure(t) PROVE TypeOK'
    <2>1. pc' \in [Login -> Point]
      BY <1>1, <1>5, FailureMoves DEF Point
    <2>2. failures' \in Nat
      <3>1. failures' = Capped(failures + 1)
        BY <1>5, FailureMoves
      <3> QED BY <3>1 DEF Capped, TypeOK
    <2>3. rejected' \in Nat
      <3>1. rejected' \in {rejected, rejected + 1}
        BY <1>5, FailureMoves
      <3> QED BY <3>1 DEF TypeOK
    <2>4. breaker' \in Breaker /\ alerted' \in BOOLEAN
      BY <1>5, FailureMoves DEF TypeOK, Breaker
    <2> QED BY <1>5, <2>1, <2>2, <2>3, <2>4, FailureMoves DEF TypeOK
  <1>6. ASSUME NEW t \in Login, AlertSent(t) PROVE TypeOK'
    <2>1. pc' \in [Login -> Point]
      BY <1>1, <1>6, SendMoves DEF Point
    <2> QED BY <1>6, <2>1, SendMoves DEF TypeOK, breakerVars
  <1>7. ASSUME CooldownElapses PROVE TypeOK'
    BY <1>7 DEF TypeOK, CooldownElapses, Breaker
  <1>8. ASSUME CredentialsChange PROVE TypeOK'
    <2>1. valid' \in BOOLEAN
      BY <1>8 DEF CredentialsChange
    <2> QED BY <1>8, <2>1 DEF TypeOK, CredentialsChange, breakerVars
  <1>9. ASSUME UNCHANGED vars PROVE TypeOK'
    BY <1>9 DEF TypeOK, vars, breakerVars
  <1> QED BY <1>2, <1>3, <1>4, <1>5, <1>6, <1>7, <1>8, <1>9 DEF Next
-------------------------------------------------------------------------------
(* A closed breaker has counted every rejection, and fewer than Threshold of  *)
(* them; each login past the gate adds one rejection at most.                 *)
PastGate == At({"calling", "refused"})

QuotaInv ==
  /\ breaker = "closed" => failures < Threshold
  /\ failures < Threshold => rejected <= failures
  /\ rejected + Cardinality(PastGate) <= Threshold + Cardinality(Login) - 1

(* Every alert that alerted_open asks for is sent or has a thread to send it. *)
AlertInv ==
  alerts + Cardinality(At({"critical"})) - Cardinality(At({"recovered"})) =
    IF alerted THEN 1 ELSE 0

LEMMA InitInv == Init => QuotaInv /\ AlertInv
  <1> SUFFICES ASSUME Init PROVE QuotaInv /\ AlertInv
    OBVIOUS
  <1>1. PastGate = {} /\ At({"critical"}) = {} /\ At({"recovered"}) = {}
    BY DEF Init, At, PastGate
  <1>2. Cardinality(PastGate) = 0
    BY <1>1, FS_EmptySet
  <1>3. Cardinality(At({"critical"})) = 0 /\ Cardinality(At({"recovered"})) = 0
    BY <1>1, FS_EmptySet
  <1>4. QuotaInv
    BY <1>2, Constants, Logins DEF Init, QuotaInv
  <1>5. AlertInv
    BY <1>3 DEF Init, AlertInv
  <1> QED BY <1>4, <1>5

(* A step that moves no thread and touches none of the counts.                *)
LEMMA OthersKeep ==
  ASSUME QuotaInv, AlertInv, UNCHANGED <<failures, alerted, rejected, pc, alerts>>,
         breaker' = "closed" => breaker = "closed"
  PROVE QuotaInv' /\ AlertInv'
  <1>1. \A points : At(points)' = At(points)
    BY DEF At
  <1>2. PastGate' = PastGate
    BY <1>1 DEF PastGate
  <1>3. QuotaInv'
    BY <1>2 DEF QuotaInv
  <1>4. AlertInv'
    BY <1>1 DEF AlertInv
  <1> QED BY <1>3, <1>4

LEMMA QuotaStep == TypeOK /\ QuotaInv /\ AlertInv /\ [Next]_vars => QuotaInv'
  <1> SUFFICES ASSUME TypeOK, QuotaInv, AlertInv, [Next]_vars PROVE QuotaInv'
    OBVIOUS
  <1> USE Constants, Logins
  <1> DEFINE n == Cardinality(PastGate)
             n1 == Cardinality(PastGate)'
  <1>1. n \in Nat /\ n1 \in Nat /\ n1 <= Cardinality(Login)
    BY AtFinite, AtFinitePrimed DEF PastGate
  <1>2. failures \in Nat /\ rejected \in Nat
    BY DEF TypeOK
  <1>3. ASSUME NEW t \in Login, Moves(t)
        PROVE n1 = n + (IF pc'[t] \in {"calling", "refused"} THEN 1 ELSE 0)
                     - (IF pc[t] \in {"calling", "refused"} THEN 1 ELSE 0)
    BY <1>3, OneMoves DEF PastGate
  <1> HIDE DEF n, n1
  <1>4. ASSUME NEW t \in Login, LetIn(t) PROVE QuotaInv'
    <2>1. CASE breaker = "closed" /\ UNCHANGED breaker
      BY <1>1, <1>2, <1>4, <2>1, LetInMoves DEF QuotaInv, n1
    <2>2. CASE pc'[t] = "trial" /\ breaker' = "cooling"
      <3>1. n1 = n
        BY <1>1, <1>3, <1>4, <2>2, LetInMoves
      <3> QED BY <1>4, <2>2, <3>1, LetInMoves DEF QuotaInv, n, n1
    <2> QED BY <1>4, <2>1, <2>2, LetInMoves
  <1>5. ASSUME NEW t \in Login, Accepted(t) \/ Refused(t) \/ LoginFails(t) PROVE QuotaInv'
    <2>1. n1 <= n
      <3>1. Moves(t) /\ (pc'[t] = "refused" => pc[t] = "calling") /\ pc'[t] # "calling"
        BY <1>5, AnswerMoves
      <3> QED BY <1>1, <1>3, <3>1
    <2>2. UNCHANGED <<breaker, failures, rejected>>
      BY <1>5, AnswerMoves DEF breakerVars
    <2> QED BY <1>1, <1>2, <2>1, <2>2 DEF QuotaInv, n, n1
  <1>6. ASSUME NEW t \in Login, RecordSuccess(t) PROVE QuotaInv'
    <2>1. failures' = 0 /\ rejected' = 0
      BY <1>6, SuccessMoves
    <2> QED BY <1>1, <2>1 DEF QuotaInv, n1
  <1>7. ASSUME NEW t \in Login, RecordFailure(t) PROVE QuotaInv'
    <2>1. /\ Moves(t) /\ pc[t] \in {"refused", "trial refused"}
          /\ pc'[t] \notin {"calling", "refused"}
          /\ pc[t] = "refused" => rejected' = rejected + 1
          /\ pc[t] # "refused" => rejected' = rejected
      BY <1>7, FailureMoves
    <2>2. /\ failures' = Capped(failures + 1)
          /\ breaker' = "closed" => ~Opens(failures + 1)
      BY <1>7, FailureMoves
    <2>3. n1 + rejected' <= n + rejected /\ rejected' \in Nat
      <3>1. CASE pc[t] = "refused"
        <4>1. n1 = n - 1 /\ rejected' = rejected + 1
          BY <1>1, <1>3, <2>1, <3>1
        <4> QED BY <1>1, <1>2, <4>1
      <3>2. CASE pc[t] = "trial refused"
        <4>1. pc[t] # "refused" /\ pc[t] \notin {"calling", "refused"}
          BY <3>2
        <4>2. n1 = n + 0 - 0
          BY <1>3, <2>1, <4>1
        <4>3. rejected' = rejected
          BY <2>1, <4>1
        <4> QED BY <1>1, <1>2, <4>2, <4>3
      <3> QED BY <2>1, <3>1, <3>2
    <2>4. breaker' = "closed" => failures' < Threshold
      BY <1>2, <2>2 DEF Opens, Capped
    <2>5. failures' < Threshold => rejected' <= failures'
      <3>1. rejected' = rejected \/ rejected' = rejected + 1
        BY <2>1
      <3> QED BY <1>2, <2>2, <3>1 DEF Capped, QuotaInv
    <2> QED BY <1>1, <1>2, <2>3, <2>4, <2>5 DEF QuotaInv, n, n1
  <1>8. ASSUME NEW t \in Login, AlertSent(t) PROVE QuotaInv'
    <2>1. n1 = n
      BY <1>1, <1>3, <1>8, SendMoves
    <2> QED BY <1>8, <2>1, SendMoves DEF QuotaInv, breakerVars, n, n1
  <1>9. ASSUME CooldownElapses \/ CredentialsChange \/ UNCHANGED vars PROVE QuotaInv'
    BY <1>9, OthersKeep DEF CooldownElapses, CredentialsChange, vars, breakerVars
  <1> QED BY <1>4, <1>5, <1>6, <1>7, <1>8, <1>9 DEF Next

LEMMA AlertStep == TypeOK /\ QuotaInv /\ AlertInv /\ [Next]_vars => AlertInv'
  <1> SUFFICES ASSUME TypeOK, QuotaInv, AlertInv, [Next]_vars PROVE AlertInv'
    OBVIOUS
  <1> DEFINE c == Cardinality(At({"critical"}))
             c1 == Cardinality(At({"critical"}))'
             r == Cardinality(At({"recovered"}))
             r1 == Cardinality(At({"recovered"}))'
  <1>1. c \in Nat /\ c1 \in Nat /\ r \in Nat /\ r1 \in Nat
    BY AtFinite, AtFinitePrimed
  <1>2. ASSUME NEW t \in Login, Moves(t)
        PROVE /\ c1 = c + (IF pc'[t] = "critical" THEN 1 ELSE 0)
                        - (IF pc[t] = "critical" THEN 1 ELSE 0)
              /\ r1 = r + (IF pc'[t] = "recovered" THEN 1 ELSE 0)
                        - (IF pc[t] = "recovered" THEN 1 ELSE 0)
    BY <1>2, OneMoves
  <1>3. alerts \in Int
    BY DEF TypeOK
  <1>4. alerts + c - r = IF alerted THEN 1 ELSE 0
    BY DEF AlertInv
  <1>5. SUFFICES alerts' + c1 - r1 = IF alerted' THEN 1 ELSE 0
    BY DEF AlertInv
  <1> HIDE DEF c, c1, r, r1
  <1>6. ASSUME NEW t \in Login, LetIn(t) \/ Accepted(t) \/ Refused(t) \/ LoginFails(t)
        PROVE alerts' + c1 - r1 = IF alerted' THEN 1 ELSE 0
    <2>1. c1 = c /\ r1 = r
      <3>1. Moves(t) /\ pc[t] \notin {"critical", "recovered"}
                     /\ pc'[t] \notin {"critical", "recovered"}
        BY <1>6, LetInMoves, AnswerMoves
      <3> QED BY <1>1, <1>2, <3>1
    <2>2. UNCHANGED <<alerts, alerted>>
      BY <1>6, LetInMoves, AnswerMoves DEF breakerVars
    <2> QED BY <1>4, <2>1, <2>2
  <1>7. ASSUME NEW t \in Login, RecordSuccess(t)
        PROVE alerts' + c1 - r1 = IF alerted' THEN 1 ELSE 0
    <2>1. /\ Moves(t) /\ pc[t] = "accepted" /\ alerts' = alerts /\ alerted' = FALSE
          /\ (alerted => pc'[t] = "recovered") /\ (~alerted => pc'[t] = "idle")
      BY <1>7, SuccessMoves
    <2>2. CASE alerted
      <3>1. c1 = c /\ r1 = r + 1
        BY <1>1, <1>2, <2>1, <2>2
      <3> QED BY <1>1, <1>3, <1>4, <2>1, <2>2, <3>1
    <2>3. CASE ~alerted
      <3>1. c1 = c /\ r1 = r
        BY <1>1, <1>2, <2>1, <2>3
      <3> QED BY <1>1, <1>3, <1>4, <2>1, <2>3, <3>1
    <2> QED BY <2>2, <2>3
  <1>8. ASSUME NEW t \in Login, RecordFailure(t)
        PROVE alerts' + c1 - r1 = IF alerted' THEN 1 ELSE 0
    <2>1. Moves(t) /\ pc[t] # "critical" /\ pc[t] # "recovered" /\ alerts' = alerts
      BY <1>8, FailureMoves
    <2>2. CASE ~alerted /\ alerted' = TRUE /\ pc'[t] = "critical"
      <3>1. c1 = c + 1 /\ r1 = r
        BY <1>1, <1>2, <2>1, <2>2
      <3> QED BY <1>1, <1>3, <1>4, <2>1, <2>2, <3>1
    <2>3. CASE (alerted' <=> alerted) /\ pc'[t] = "idle"
      <3>1. c1 = c /\ r1 = r
        BY <1>1, <1>2, <2>1, <2>3
      <3> QED BY <1>4, <2>1, <2>3, <3>1
    <2>4. \/ ~alerted /\ alerted' = TRUE /\ pc'[t] = "critical"
          \/ alerted /\ alerted' = TRUE /\ pc'[t] = "idle"
          \/ UNCHANGED alerted /\ pc'[t] = "idle"
      BY <1>8, FailureMoves
    <2> QED BY <2>2, <2>3, <2>4
  <1>9. ASSUME NEW t \in Login, AlertSent(t)
        PROVE alerts' + c1 - r1 = IF alerted' THEN 1 ELSE 0
    <2>1. CASE pc[t] = "critical" /\ alerts' = alerts + 1
      <3>1. Moves(t) /\ pc'[t] = "idle" /\ alerted' = alerted
        BY <1>9, SendMoves DEF breakerVars
      <3>2. c1 = c - 1 /\ r1 = r
        BY <1>1, <1>2, <2>1, <3>1
      <3> QED BY <1>1, <1>3, <1>4, <2>1, <3>1, <3>2
    <2>2. CASE pc[t] = "recovered" /\ alerts' = alerts - 1
      <3>1. Moves(t) /\ pc'[t] = "idle" /\ alerted' = alerted
        BY <1>9, SendMoves DEF breakerVars
      <3>2. c1 = c /\ r1 = r - 1
        BY <1>1, <1>2, <2>2, <3>1
      <3> QED BY <1>1, <1>3, <1>4, <2>2, <3>1, <3>2
    <2> QED BY <1>9, <2>1, <2>2, SendMoves
  <1>10. ASSUME CooldownElapses \/ CredentialsChange \/ UNCHANGED vars
         PROVE alerts' + c1 - r1 = IF alerted' THEN 1 ELSE 0
    BY <1>10, OthersKeep DEF CooldownElapses, CredentialsChange, vars, breakerVars,
       AlertInv, c1, r1
  <1> QED BY <1>6, <1>7, <1>8, <1>9, <1>10 DEF Next
-------------------------------------------------------------------------------
THEOREM Invariance == Spec => [](TypeOK /\ QuotaInv /\ AlertInv)
  <1>1. TypeOK /\ QuotaInv /\ AlertInv /\ [Next]_vars => (TypeOK /\ QuotaInv /\ AlertInv)'
    BY TypeStep, QuotaStep, AlertStep
  <1> QED BY <1>1, TypeInit, InitInv, PTL DEF Spec

(* The breaker's deadline, count and flag keep their types.                   *)
THEOREM TypeCorrect == Spec => []TypeOK
  BY Invariance, PTL

(* The login quota is spared, whatever the number of threads that log in at   *)
(* once and however rejections, trials and successes interleave               *)
(* (before_login_attempt, record_failure).                                    *)
THEOREM QuotaIsSpared == Spec => []QuotaSpared
  <1>1. TypeOK /\ QuotaInv => QuotaSpared
    <2> SUFFICES ASSUME TypeOK, QuotaInv PROVE QuotaSpared
      OBVIOUS
    <2>1. Cardinality(PastGate) \in Nat
      BY AtFinite DEF PastGate
    <2> QED BY <2>1, Constants, Logins DEF QuotaInv, QuotaSpared, TypeOK
  <1> QED BY <1>1, Invariance, PTL

(* CRITICAL and RECOVERED alerts pair up (record_success, record_failure).    *)
THEOREM AlertsPair == Spec => []OutagesReported
  <1>1. TypeOK /\ AlertInv => OutagesReported
    <2> SUFFICES ASSUME TypeOK, AlertInv,
                        \A t \in Login : ~(pc[t] \in {"critical", "recovered"})
                 PROVE alerts = IF alerted THEN 1 ELSE 0
      BY DEF OutagesReported
    <2>1. At({"critical"}) = {} /\ At({"recovered"}) = {}
      BY DEF At
    <2>2. Cardinality(At({"critical"})) = 0 /\ Cardinality(At({"recovered"})) = 0
      BY <2>1, FS_EmptySet
    <2> QED BY <2>2 DEF AlertInv, TypeOK
  <1> QED BY <1>1, Invariance, PTL
===============================================================================

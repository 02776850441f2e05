---------------------------- MODULE P2CPacingProofs ---------------------------
(***************************************************************************)
(* The two pacers of the worker, which share no state.                     *)
(*                                                                         *)
(* The bounds of P2CConnectionRateLimiter, for every rate, every clock and *)
(* every number of starts. The deadline alone carries the argument: it     *)
(* stays ahead of every charged start by what that start still costs, and  *)
(* the gate lets a connection through only when the clock has reached it.  *)
(*                                                                         *)
(* The bounds of P2CRecoveryPolicy for every number of policies, every     *)
(* interval and every clock. The two deadlines stay ahead of the last      *)
(* starts by what these cost, and a reservation is granted only at or      *)
(* after both of them; they do not move until its connection starts or is  *)
(* given up. Evictions, Retain and Clear touch the table of policies and   *)
(* never the shared deadline.                                              *)
(***************************************************************************)
EXTENDS P2CConnectionRate, P2CRecoveryPolicy, FiniteSetTheorems, SequenceTheorems, TLAPS

\* Zenon is the prover of this module; a leaf that needs another one names it.
USE Zenon

(* The connection rate                                                     *)

Starts == [time : 0..MaxClock, resumed : BOOLEAN]

\* Only a positive rate charges starts, and the first one resumes the demand.
RateTypes ==
    /\ RateTypeOK
    /\ charged # <<>> => rate > 0
    /\ charged = <<>> => m_idle

\* A connection that passed the gate found the clock at the deadline or past it.
GatePassed == head = "assigned" /\ rate > 0 => m_next <= clock

\* What start i, counted back from the last one, has added to the deadline.
DeadlineCharged ==
    \A i \in 1..Len(charged) :
        /\ m_next >= charged[i].time - SECOND + (Len(charged) - i) * ChargeInterval
        /\ charged[i].resumed => m_next >= charged[i].time + (Len(charged) - i + 1) * ChargeInterval

RateInv == RateTypes /\ GatePassed /\ DeadlineCharged /\ BurstBounded /\ IdleBanksNothing /\ CadenceKept

-----------------------------------------------------------------------------
\* Dividing a natural number by a positive one gives a natural number.
LEMMA DivNat == ASSUME NEW a \in Nat, NEW b \in Nat, b > 0 PROVE a \div b \in Nat
  BY SMT

\* ChargeInterval, the rounded-up time between two starts (p2c_connection_rate.h:49).
LEMMA IntervalNat == ASSUME RateTypes, rate > 0 PROVE ChargeInterval \in Nat
  <1>1. SECOND + rate - 1 \in Nat /\ rate \in Nat
    BY RateAssumption, SMT DEF RateTypes, RateTypeOK
  <1>. QED BY <1>1, DivNat DEF ChargeInterval

LEMMA RateInvInit == RateInit => RateInv
  BY RateAssumption, SMT DEF RateInit, RateInv, RateTypes, RateTypeOK, GatePassed, DeadlineCharged, BurstBounded, IdleBanksNothing,
     CadenceKept, Unset

\* What k intervals come to: the only arithmetic of the argument that is not linear.
LEMMA Multiples ==
  ASSUME NEW I \in Int
  PROVE  /\ \A k \in Int : k * I \in Int /\ (k + 1) * I = k * I + I
         /\ 0 * I = 0
  BY SMT

\* RecordStart keeps the bounds when the gate was passed (on_tcp_started).
LEMMA StartKeeps ==
  ASSUME RateInv, NEW now \in 0..MaxClock, clock <= now, rate > 0, head = "assigned", RecordStart(now), UNCHANGED rate
  PROVE  /\ m_next' \in Nat /\ charged' \in Seq(Starts) /\ charged' # <<>>
         /\ DeadlineCharged' /\ BurstBounded' /\ IdleBanksNothing' /\ CadenceKept'
  <1>. DEFINE n == Len(charged)
              I == ChargeInterval
              cost == [k \in Int |-> k * I]
              last == [time |-> now, resumed |-> m_idle]
  <1>1. I \in Nat /\ ChargeInterval' = I
    BY IntervalNat DEF RateInv, ChargeInterval
  <1>2. /\ m_next \in Int /\ m_next >= -1 /\ m_next <= now
        /\ MaxClock \in Nat /\ now \in Nat /\ SECOND \in Nat /\ n \in Nat
    BY RateAssumption, SMT DEF RateInv, RateTypes, RateTypeOK, GatePassed, Unset
  <1>3. m_next' \in Int /\ m_next' >= m_next + I /\ m_next' >= now - SECOND /\ m_next' >= m_next
    BY <1>1, <1>2, SMT DEF RecordStart, Deadline, Advanced, LaterOf, Unset
  <1>rebased. ASSUME m_idle PROVE m_next' = now + I
    BY <1>1, <1>2, <1>rebased, SMT DEF RecordStart, Deadline, Advanced, LaterOf, Unset
  <1>advanced. ASSUME ~m_idle, m_next # Unset, now - SECOND <= m_next + I PROVE m_next' = m_next + I
    BY <1>1, <1>2, <1>advanced DEF RecordStart, Deadline, Advanced, LaterOf, Unset
  <1>4. /\ charged' = Append(charged, last) /\ charged' \in Seq(Starts) /\ Len(charged') = n + 1
        /\ charged'[n + 1] = last
        /\ \A i \in 1..n : charged'[i] = charged[i] /\ charged[i].time \in Int
    <2>1. charged \in Seq(Starts) /\ charged' = Append(charged, last)
      BY DEF RecordStart, RateInv, RateTypes, RateTypeOK, Starts
    <2>2. last \in Starts
      BY DEF Starts, RateInv, RateTypes, RateTypeOK
    <2>3. charged' \in Seq(Starts) /\ Len(charged') = n + 1 /\ charged'[n + 1] = last
      BY <2>1, <2>2, SMT
    <2>4. \A i \in 1..n : charged'[i] = charged[i] /\ charged[i] \in Starts
      BY <2>1, <2>2, SMT
    <2>5. \A i \in 1..n : charged[i].time \in Int
      BY <2>4, <1>2, SMT DEF Starts
    <2>. QED BY <2>1, <2>3, <2>4, <2>5
  <1>5. m_next # Unset \/ m_idle
    BY DEF RateInv, RateTypes, RateTypeOK
  <1>6. m_next' \in Nat /\ charged' # <<>>
    <2>1. CASE m_idle
      BY <2>1, <1>1, <1>2, <1>4, <1>rebased, SMT
    <2>2. CASE m_next # Unset
      BY <2>2, <1>2, <1>3, <1>4, SMT DEF Unset
    <2>. QED BY <2>1, <2>2, <1>5
  <1>7. (\A k \in Int : cost[k] \in Int /\ cost[k + 1] = cost[k] + I) /\ cost[0] = 0
    BY <1>1, Multiples, SMT
  \* The invariant before the start, in terms of cost.
  <1>8. ASSUME NEW i \in 1..n
        PROVE  /\ m_next >= charged[i].time - SECOND + cost[n - i]
               /\ charged[i].resumed => m_next >= charged[i].time + cost[n - i + 1]
               /\ charged[i].resumed /\ OnTime(i) => m_next = charged[i].time + cost[n - i + 1]
    BY SMT DEF RateInv, DeadlineCharged, CadenceKept
  <1>9. ASSUME NEW i \in 1..n, NEW j \in 1..n, i < j
        PROVE  /\ charged[j].time - charged[i].time + SECOND >= cost[j - i - 1]
               /\ charged[i].resumed => charged[j].time - charged[i].time >= cost[j - i]
    BY <1>9, SMT DEF RateInv, BurstBounded, IdleBanksNothing, Gap
  \* What is to be shown after it.
  <1>10. ASSUME NEW i \in 1..(n + 1)
         PROVE  /\ m_next' >= charged'[i].time - SECOND + cost[(n + 1) - i]
                /\ charged'[i].resumed => m_next' >= charged'[i].time + cost[(n + 1) - i + 1]
    <2>. HIDE DEF cost, n
    <2>1. CASE i = n + 1
      <3>1. cost[(n + 1) - i] = 0 /\ cost[(n + 1) - i + 1] = I
        <4>1. (n + 1) - i = 0 /\ 0 \in Int /\ (n + 1) - i + 1 = 0 + 1
          BY <2>1, <1>2, SMT
        <4>2. cost[0 + 1] = cost[0] + I
          BY <4>1, <1>7
        <4>3. cost[(n + 1) - i] = 0
          BY <4>1, <1>7
        <4>4. cost[0 + 1] = I
          BY <4>2, <1>1, <1>7, SMT
        <4>. QED BY <4>1, <4>3, <4>4
      <3>2. charged'[i].time = now /\ charged'[i].resumed = m_idle
        BY <2>1, <1>4, SMT
      <3>3. m_next' >= charged'[i].time - SECOND + cost[(n + 1) - i]
        BY <3>1, <3>2, <1>2, <1>3, SMT
      <3>4. ASSUME m_idle PROVE m_next' >= charged'[i].time + cost[(n + 1) - i + 1]
        BY <3>1, <3>2, <3>4, <1>1, <1>2, <1>rebased, SMT
      <3>. QED BY <3>2, <3>3, <3>4
    <2>2. CASE i # n + 1
      <3>1. i \in 1..n /\ n - i \in Int /\ n - i + 1 \in Int /\ (n + 1) - i = n - i + 1
        BY <2>2, <1>2, SMT
      <3>2. /\ cost[(n + 1) - i] = cost[n - i] + I /\ cost[n - i] \in Int
            /\ cost[(n + 1) - i + 1] = cost[n - i + 1] + I /\ cost[n - i + 1] \in Int
        BY <3>1, <1>7
      <3>3. charged'[i] = charged[i] /\ charged[i].time \in Int
        BY <3>1, <1>4
      <3>4. m_next >= charged[i].time - SECOND + cost[n - i]
        BY <3>1, <1>8
      <3>5. m_next' >= charged'[i].time - SECOND + cost[(n + 1) - i]
        BY <3>2, <3>3, <3>4, <1>1, <1>2, <1>3, SMT
      <3>6. ASSUME charged'[i].resumed PROVE m_next' >= charged'[i].time + cost[(n + 1) - i + 1]
        <4>1. m_next >= charged[i].time + cost[n - i + 1]
          BY <3>1, <3>3, <3>6, <1>8
        <4>. QED BY <4>1, <3>2, <3>3, <1>1, <1>2, <1>3, SMT
      <3>. QED BY <3>5, <3>6
    <2>. QED BY <2>1, <2>2
  <1>11. ASSUME NEW i \in 1..(n + 1), NEW j \in 1..(n + 1), i < j
         PROVE  /\ charged'[j].time - charged'[i].time + SECOND >= cost[j - i - 1]
                /\ charged'[i].resumed => charged'[j].time - charged'[i].time >= cost[j - i]
    <2>. HIDE DEF cost, n
    <2>1. i \in 1..n /\ charged'[i] = charged[i] /\ charged[i].time \in Int
      BY <1>11, <1>2, <1>4, SMT
    <2>2. CASE j = n + 1
      <3>1. j - i - 1 = n - i /\ j - i = n - i + 1 /\ n - i \in Int /\ n - i + 1 \in Int
        BY <2>1, <2>2, <1>2, SMT
      <3>2. cost[j - i - 1] = cost[n - i] /\ cost[j - i] = cost[n - i + 1] /\ cost[n - i] \in Int /\ cost[n - i + 1] \in Int
        BY <3>1, <1>7
      <3>3. charged'[j].time = now
        BY <2>2, <1>4, SMT
      <3>4. m_next >= charged[i].time - SECOND + cost[n - i]
        BY <2>1, <1>8
      <3>5. charged'[j].time - charged'[i].time + SECOND >= cost[j - i - 1]
        BY <2>1, <3>2, <3>3, <3>4, <1>2, SMT
      <3>6. ASSUME charged'[i].resumed PROVE charged'[j].time - charged'[i].time >= cost[j - i]
        <4>1. m_next >= charged[i].time + cost[n - i + 1]
          BY <2>1, <3>6, <1>8
        <4>. QED BY <4>1, <2>1, <3>2, <3>3, <1>2, SMT
      <3>. QED BY <3>5, <3>6
    <2>3. CASE j # n + 1
      <3>1. j \in 1..n /\ charged'[j] = charged[j]
        BY <2>3, <1>2, <1>4, SMT
      <3>. QED BY <2>1, <3>1, <1>9, <1>11
    <2>. QED BY <2>2, <2>3
  <1>12. ASSUME NEW i \in 1..(n + 1), charged'[i].resumed, OnTime(i)'
         PROVE  m_next' = charged'[i].time + cost[(n + 1) - i + 1]
    <2>1. \A k \in i..(n + 1) : k > i => ~charged'[k].resumed
      BY <1>1, <1>4, <1>12 DEF OnTime
    <2>5. \A k \in i..(n + 1) : charged'[k].time - charged'[i].time - SECOND <= cost[k - i + 1]
      <3>1. \A k \in i..Len(charged') :
               charged'[k].time - charged'[i].time - SECOND <= (k - i + 1) * ChargeInterval'
        BY <1>12 DEF OnTime, Gap
      <3>. HIDE DEF n
      <3>2. \A k \in i..(n + 1) : charged'[k].time - charged'[i].time - SECOND <= (k - i + 1) * I
        BY <3>1, <1>1, <1>4
      <3>3. \A k \in i..(n + 1) : cost[k - i + 1] = (k - i + 1) * I
        BY <1>2, SMT
      <3>. HIDE DEF cost
      <3>. QED BY <3>2, <3>3
    <2>2. ASSUME i \in 1..n PROVE OnTime(i)
      BY <2>1, <2>5, <2>2, <1>2, <1>4, SMT DEF OnTime, Gap
    <2>. HIDE DEF cost, n
    <2>3. CASE i = n + 1
      <3>1. m_idle /\ charged'[i].time = now
        BY <2>3, <1>4, <1>12, SMT
      <3>2. (n + 1) - i + 1 = 0 + 1 /\ 0 \in Int
        BY <2>3, <1>2, SMT
      <3>3. cost[(n + 1) - i + 1] = cost[0] + I
        BY <3>2, <1>7
      <3>4. m_next' = now + I
        BY <3>1, <1>rebased
      <3>5. charged'[i].time = now /\ cost[(n + 1) - i + 1] = I
        BY <3>1, <3>3, <1>1, <1>7, SMT
      <3>. QED BY <3>4, <3>5
    <2>4. CASE i # n + 1
      <3>1. i \in 1..n /\ n + 1 > i /\ n - i + 1 \in Int /\ (n + 1) - i + 1 = n - i + 1 + 1 /\ n + 1 \in i..(n + 1)
        BY <2>4, <1>2, SMT
      <3>2. charged'[i] = charged[i] /\ charged[i].time \in Int /\ charged # <<>>
        BY <3>1, <1>2, <1>4, SMT
      <3>3. cost[(n + 1) - i + 1] = cost[n - i + 1] + I /\ cost[n - i + 1] \in Int
        BY <3>1, <1>7
      <3>4. ~charged'[n + 1].resumed /\ charged'[n + 1].time - charged'[i].time - SECOND <= cost[(n + 1) - i + 1]
        <4>1. ~charged'[n + 1].resumed
          BY <2>1, <3>1
        <4>2. charged'[n + 1].time - charged'[i].time - SECOND <= cost[(n + 1) - i + 1]
          <5>1. PICK k \in i..(n + 1) : k = n + 1
            BY <3>1
          <5>2. charged'[k].time - charged'[i].time - SECOND <= cost[k - i + 1]
            BY <2>5
          <5>. QED BY <5>1, <5>2
        <4>. QED BY <4>1, <4>2
      <3>9. ~m_idle /\ charged'[n + 1].time = now
        BY <3>4, <1>4, SMT
      <3>10. now - charged[i].time - SECOND <= cost[(n + 1) - i + 1]
        BY <3>2, <3>4, <3>9
      <3>5. m_next = charged[i].time + cost[n - i + 1]
        BY <2>2, <3>1, <3>2, <1>8, <1>12
      <3>6. m_next # Unset
        BY <3>9, <1>5
      <3>7. now - SECOND <= m_next + I
        <4>1. now - charged[i].time - SECOND <= cost[n - i + 1] + I
          BY <3>3, <3>10
        <4>2. charged[i].time \in Int /\ cost[n - i + 1] \in Int
          BY <3>2, <3>3
        <4>. QED BY <4>1, <4>2, <3>5, <1>1, <1>2, SMT
      <3>8. m_next' = m_next + I
        BY <3>6, <3>7, <3>9, <1>advanced
      <3>11. m_next' = charged[i].time + (cost[n - i + 1] + I)
        <4>1. charged[i].time \in Int /\ cost[n - i + 1] \in Int
          BY <3>2, <3>3
        <4>. QED BY <4>1, <3>5, <3>8, <1>1, SMT
      <3>. QED BY <3>2, <3>3, <3>11
    <2>. QED BY <2>3, <2>4
  <1>13. DeadlineCharged'
    <2>. HIDE DEF cost, n
    <2>1. \A k \in Int : cost[k] = k * I
      BY DEF cost
    <2>2. ASSUME NEW i \in 1..Len(charged')
          PROVE  /\ m_next' >= charged'[i].time - SECOND + (Len(charged') - i) * ChargeInterval'
                 /\ charged'[i].resumed => m_next' >= charged'[i].time + (Len(charged') - i + 1) * ChargeInterval'
      <3>0. Len(charged') = n + 1 /\ n \in Nat
        BY <1>2, <1>4
      <3>1. /\ i \in 1..(n + 1) /\ (n + 1) - i \in Int /\ (n + 1) - i + 1 \in Int
            /\ Len(charged') - i = (n + 1) - i /\ Len(charged') - i + 1 = (n + 1) - i + 1
        BY <3>0, SMT
      <3>2. /\ cost[(n + 1) - i] = (Len(charged') - i) * ChargeInterval'
            /\ cost[(n + 1) - i + 1] = (Len(charged') - i + 1) * ChargeInterval'
        BY <2>1, <3>1, <1>1
      <3>. QED BY <3>1, <3>2, <1>10
    <2>. QED BY <2>2 DEF DeadlineCharged
  <1>14. BurstBounded' /\ IdleBanksNothing'
    <2>. HIDE DEF cost, n
    <2>1. \A k \in Int : cost[k] = k * I
      BY DEF cost
    <2>2. ASSUME NEW i \in 1..Len(charged'), NEW j \in 1..Len(charged'), i < j
          PROVE  /\ charged'[j].time - charged'[i].time + SECOND >= (j - i - 1) * ChargeInterval'
                 /\ charged'[i].resumed => charged'[j].time - charged'[i].time >= (j - i) * ChargeInterval'
      <3>1. i \in 1..(n + 1) /\ j \in 1..(n + 1) /\ j - i - 1 \in Int /\ j - i \in Int
        BY <1>2, <1>4, SMT
      <3>2. cost[j - i - 1] = (j - i - 1) * ChargeInterval' /\ cost[j - i] = (j - i) * ChargeInterval'
        BY <2>1, <3>1, <1>1
      <3>. QED BY <2>2, <3>1, <3>2, <1>11
    <2>. QED BY <2>2 DEF BurstBounded, IdleBanksNothing, Gap
  <1>15. CadenceKept'
    <2>. HIDE DEF cost, n
    <2>1. \A k \in Int : cost[k] = k * I
      BY DEF cost
    <2>2. ASSUME NEW i \in 1..Len(charged'), charged'[i].resumed, OnTime(i)'
          PROVE  m_next' = charged'[i].time + (Len(charged') - i + 1) * ChargeInterval'
      <3>0. Len(charged') = n + 1 /\ n \in Nat
        BY <1>2, <1>4
      <3>1. i \in 1..(n + 1) /\ (n + 1) - i + 1 \in Int /\ Len(charged') - i + 1 = (n + 1) - i + 1
        BY <3>0, SMT
      <3>2. cost[(n + 1) - i + 1] = (Len(charged') - i + 1) * ChargeInterval'
        BY <2>1, <3>1, <1>1
      <3>3. m_next' = charged'[i].time + cost[(n + 1) - i + 1]
        BY <2>2, <3>1, <1>12
      <3>. QED BY <3>2, <3>3
    <2>. QED BY <2>2 DEF CadenceKept
  <1>. QED BY <1>4, <1>6, <1>13, <1>14, <1>15

LEMMA RateInvNext == RateInv /\ [RateNext]_rateVars => RateInv'
  <1>. SUFFICES ASSUME RateInv, [RateNext]_rateVars PROVE RateInv'
    OBVIOUS
  <1>. USE DEF RateInv
  <1>1. CASE Configure
    BY <1>1, RateAssumption, SMT DEF Configure, RateTypes, RateTypeOK, GatePassed, DeadlineCharged, BurstBounded,
       IdleBanksNothing, CadenceKept, Unset
  <1>2. CASE MarkIdle
    BY <1>2, SMT DEF MarkIdle, RateTypes, RateTypeOK, GatePassed, DeadlineCharged, BurstBounded, IdleBanksNothing,
       CadenceKept, OnTime, Gap, ChargeInterval
  <1>3. CASE NotStarted
    BY <1>3, SMT DEF NotStarted, RateTypes, RateTypeOK, GatePassed, DeadlineCharged, BurstBounded, IdleBanksNothing,
       CadenceKept, OnTime, Gap, ChargeInterval
  <1>4. ASSUME NEW now \in clock..MaxClock, NextAssigns(now) PROVE RateInv'
    <2>1. now \in Int /\ RateTypes' /\ GatePassed'
      BY <1>4, RateAssumption, SMT DEF NextAssigns, RateTypes, RateTypeOK, GatePassed, Blocked, Unset
    <2>2. DeadlineCharged' /\ BurstBounded' /\ IdleBanksNothing' /\ CadenceKept'
      BY <1>4, SMT DEF NextAssigns, DeadlineCharged, BurstBounded, IdleBanksNothing,
       CadenceKept, OnTime, Gap, ChargeInterval
    <2>. QED BY <2>1, <2>2
  <1>5. ASSUME NEW now \in clock..MaxClock, TcpStarts(now) PROVE RateInv'
    <2>1. now \in 0..MaxClock /\ clock <= now /\ clock' = now /\ head' = "waits" /\ UNCHANGED rate /\ head = "assigned"
      BY <1>5, RateAssumption, SMT DEF TcpStarts, RateTypes, RateTypeOK
    <2>2. GatePassed'
      BY <2>1 DEF GatePassed
    <2>3. CASE rate > 0
      <3>1. RecordStart(now)
        BY <1>5, <2>3 DEF TcpStarts
      <3>2. /\ m_next' \in Nat /\ charged' \in Seq(Starts) /\ charged' # <<>>
            /\ DeadlineCharged' /\ BurstBounded' /\ IdleBanksNothing' /\ CadenceKept'
        BY <2>1, <2>3, <3>1, StartKeeps
      <3>3. RateTypes'
        <4>1. m_idle' = FALSE /\ m_next' # Unset
          BY <3>1, <3>2, SMT DEF RecordStart, Unset
        <4>2. charged' \in Seq([time : 0..MaxClock, resumed : BOOLEAN])
          BY <3>2 DEF Starts
        <4>. QED BY <2>1, <2>3, <3>2, <4>1, <4>2, RateAssumption DEF RateTypes, RateTypeOK
      <3>. QED BY <2>2, <3>2, <3>3
    <2>4. CASE ~(rate > 0)
      <3>1. UNCHANGED <<m_next, m_idle, charged>>
        BY <1>5, <2>4 DEF TcpStarts
      <3>2. RateTypes'
        BY <2>1, <3>1 DEF RateTypes, RateTypeOK
      <3>3. DeadlineCharged' /\ BurstBounded' /\ IdleBanksNothing' /\ CadenceKept'
        BY <2>1, <3>1, ZenonT(30) DEF DeadlineCharged, BurstBounded, IdleBanksNothing,
       CadenceKept, OnTime, Gap, ChargeInterval
      <3>. QED BY <2>2, <3>2, <3>3
    <2>. QED BY <2>3, <2>4
  <1>6. CASE UNCHANGED rateVars
    BY <1>6, SMT DEF rateVars, RateTypes, RateTypeOK, GatePassed, DeadlineCharged, BurstBounded, IdleBanksNothing,
       CadenceKept, OnTime, Gap, ChargeInterval
  <1>. QED BY <1>1, <1>2, <1>3, <1>4, <1>5, <1>6 DEF RateNext

\* For every rate and however late the connections start, charged starts never
\* bunch up by more than one second's worth of the rate (RecordStart's clamp,
\* p2c_connection_rate.h:52), and a time without work banks no credit: after it
\* the starts are a full interval apart (the rebase, p2c_connection_rate.h:51).
THEOREM RateAlwaysKept == RateSpec => []RateKept
  <1>1. RateInv => RateKept
    BY DEF RateInv, RateKept
  <1>. QED BY <1>1, RateInvInit, RateInvNext, PTL DEF RateSpec

\* For every rate, a late timer or an occupied worker costs no start while the
\* demand lasts: the deadline keeps its cadence (RecordStart advances m_next,
\* not now, p2c_connection_rate.h:52).
THEOREM CadenceNeverLost == RateSpec => []CadenceKept
  <1>1. RateInv => CadenceKept
    BY DEF RateInv
  <1>. QED BY <1>1, RateInvInit, RateInvNext, PTL DEF RateSpec

-----------------------------------------------------------------------------
(* Lists without repetition: m_recent and m_waiters                        *)

\* s lists its elements once each.
Distinct(s) == \A i, j \in 1..Len(s) : s[i] = s[j] => i = j

\* A list without repetition is as long as it has elements.
LEMMA DistinctCount ==
  ASSUME NEW S, NEW s \in Seq(S), Distinct(s)
  PROVE  IsFiniteSet(Range(s)) /\ Cardinality(Range(s)) = Len(s)
  <1>1. Len(s) \in Nat /\ s \in [1..Len(s) -> S] /\ DOMAIN s = 1..Len(s)
    BY LenProperties
  <1>2. Range(s) = {s[i] : i \in 1..Len(s)}
    BY <1>1 DEF Range
  <1>3. s \in Bijection(1..Len(s), Range(s))
    BY <1>1, <1>2 DEF Bijection, Injection, Surjection, IsInjective, Distinct
  <1>4. ExistsBijection(1..Len(s), Range(s))
    BY <1>3 DEF ExistsBijection
  <1>5. IsFiniteSet(1..Len(s))
    BY <1>1, FS_Interval, SMT
  <1>. QED BY <1>1, <1>4, <1>5, FS_CountingElements, FS_Bijection

\* list::push_back of an element that is not in the list.
LEMMA AppendDistinct ==
  ASSUME NEW S, NEW s \in Seq(S), Distinct(s), NEW e \in S, e \notin Range(s)
  PROVE  /\ Append(s, e) \in Seq(S) /\ Distinct(Append(s, e))
         /\ Len(Append(s, e)) = Len(s) + 1
         /\ Range(Append(s, e)) = Range(s) \cup {e}
  <1>. DEFINE r == Append(s, e)
  <1>1. /\ r \in Seq(S) /\ Len(r) = Len(s) + 1 /\ r[Len(s) + 1] = e
        /\ \A i \in 1..Len(s) : r[i] = s[i]
    BY AppendProperties, SMT
  <1>2. Len(s) \in Nat
    BY LenProperties
  <1>3. Range(s) = {s[i] : i \in 1..Len(s)} /\ Range(r) = {r[i] : i \in 1..Len(r)}
    BY <1>1, RangeEquality
  <1>. HIDE DEF r
  <1>4. Distinct(r)
    <2>. SUFFICES ASSUME NEW i \in 1..Len(r), NEW j \in 1..Len(r), r[i] = r[j] PROVE i = j
      BY DEF Distinct
    <2>1. i \in 1..Len(s) \/ i = Len(s) + 1
      BY <1>1, <1>2, SMT
    <2>2. j \in 1..Len(s) \/ j = Len(s) + 1
      BY <1>1, <1>2, SMT
    <2>. QED BY <2>1, <2>2, <1>1, <1>3, SMT DEF Distinct
  <1>5. Range(r) = Range(s) \cup {e}
    <2>1. 1..Len(r) = 1..Len(s) \cup {Len(s) + 1}
      BY <1>1, <1>2, SMT
    <2>. QED BY <2>1, <1>1, <1>3, SMT
  <1>. QED BY <1>1, <1>4, <1>5 DEF r

\* list::erase of one position.
LEMMA EraseDistinct ==
  ASSUME NEW S, NEW s \in Seq(S), Distinct(s), NEW k \in 1..Len(s)
  PROVE  LET r == Erase(s, k)
         IN  /\ r \in Seq(S) /\ Distinct(r)
             /\ Len(r) = Len(s) - 1
             /\ \A i \in 1..(Len(s) - 1) : r[i] = IF i < k THEN s[i] ELSE s[i + 1]
             /\ Range(r) = Range(s) \ {s[k]}
  <1>. DEFINE r == Erase(s, k)
              n == Len(s)
              a == SubSeq(s, 1, k - 1)
              b == SubSeq(s, k + 1, n)
  <1>1. n \in Nat /\ k \in 1..n /\ \A i \in 1..n : s[i] \in S
    BY LenProperties, ElementOfSeq
  <1>2. a \in Seq(S) /\ Len(a) = k - 1 /\ \A i \in 1..(k - 1) : a[i] = s[i]
    <2>1. \A i \in 1..(k - 1) : s[i] \in S
      BY <1>1, SMT
    <2>2. 1 \in Int /\ k - 1 \in Int
      BY <1>1, SMT
    <2>3. /\ SubSeq(s, 1, k - 1) \in Seq(S)
          /\ Len(SubSeq(s, 1, k - 1)) = IF 1 <= k - 1 THEN k - 1 - 1 + 1 ELSE 0
          /\ \A i \in 1..(k - 1 - 1 + 1) : SubSeq(s, 1, k - 1)[i] = s[1 + i - 1]
      BY <2>1, <2>2, SubSeqProperties, SMT
    <2>. QED BY <2>3, <1>1, SMT
  <1>3. b \in Seq(S) /\ Len(b) = n - k /\ \A i \in 1..(n - k) : b[i] = s[k + i]
    <2>1. \A i \in (k + 1)..n : s[i] \in S
      BY <1>1, SMT
    <2>2. k + 1 \in Int /\ n \in Int
      BY <1>1, SMT
    <2>. HIDE DEF n
    <2>3. /\ SubSeq(s, k + 1, n) \in Seq(S)
          /\ Len(SubSeq(s, k + 1, n)) = IF k + 1 <= n THEN n - (k + 1) + 1 ELSE 0
          /\ \A i \in 1..(n - (k + 1) + 1) : SubSeq(s, k + 1, n)[i] = s[(k + 1) + i - 1]
      BY <2>1, <2>2, SubSeqProperties, SMT
    <2>4. n - (k + 1) + 1 = n - k /\ \A i \in 1..(n - k) : (k + 1) + i - 1 = k + i
      BY <1>1, SMT
    <2>5. Len(b) = n - k
      BY <2>3, <1>1, SMT
    <2>. QED BY <2>3, <2>4, <2>5
  <1>4. r = a \o b
    BY DEF Erase
  <1>. HIDE DEF r, n, a, b
  <1>5. r \in Seq(S) /\ Len(r) = n - 1
    BY <1>1, <1>2, <1>3, <1>4, ConcatProperties, SMT
  <1>6. \A i \in 1..(n - 1) : r[i] = IF i < k THEN s[i] ELSE s[i + 1]
    <2>. SUFFICES ASSUME NEW i \in 1..(n - 1) PROVE r[i] = IF i < k THEN s[i] ELSE s[i + 1]
      OBVIOUS
    <2>1. r[i] = IF i <= Len(a) THEN a[i] ELSE b[i - Len(a)]
      BY <1>1, <1>2, <1>3, <1>4, ConcatProperties, SMT
    <2>2. CASE i < k
      BY <2>1, <2>2, <1>1, <1>2, SMT
    <2>3. CASE ~(i < k)
      <3>1. i - (k - 1) \in 1..(n - k) /\ k + (i - (k - 1)) = i + 1 /\ ~(i <= k - 1)
        BY <2>3, <1>1, SMT
      <3>2. r[i] = b[i - (k - 1)]
        BY <2>1, <3>1, <1>2
      <3>3. b[i - (k - 1)] = s[k + (i - (k - 1))]
        BY <3>1, <1>3
      <3>. QED BY <2>3, <3>1, <3>2, <3>3
    <2>. QED BY <2>2, <2>3
  <1>7. Distinct(r)
    <2>. SUFFICES ASSUME NEW i \in 1..Len(r), NEW j \in 1..Len(r), r[i] = r[j] PROVE i = j
      BY DEF Distinct
    <2>. DEFINE was(x) == IF x < k THEN x ELSE x + 1
    <2>1. i \in 1..(n - 1) /\ j \in 1..(n - 1)
      BY <1>5
    <2>2. \A x \in 1..(n - 1) : was(x) \in 1..n /\ r[x] = s[was(x)]
      BY <1>1, <1>6, SMT
    <2>3. was(i) = was(j)
      <3>. HIDE DEF was
      <3>. QED BY <2>1, <2>2, SMT DEF Distinct, n
    <2>. QED BY <2>1, <2>3, <1>1, SMT
  <1>8. Range(s) = {s[i] : i \in 1..n} /\ Range(r) = {r[i] : i \in 1..(n - 1)}
    BY <1>5, RangeEquality DEF n
  <1>9. Range(r) \subseteq Range(s) \ {s[k]}
    <2>. SUFFICES ASSUME NEW i \in 1..(n - 1) PROVE r[i] \in Range(s) /\ r[i] # s[k]
      BY <1>8
    <2>1. i \in 1..n /\ i + 1 \in 1..n /\ (i < k => i # k) /\ (~(i < k) => i + 1 # k)
      BY <1>1, SMT
    <2>. QED BY <2>1, <1>1, <1>6, <1>8, SMT DEF Distinct, n
  <1>10. Range(s) \ {s[k]} \subseteq Range(r)
    <2>. SUFFICES ASSUME NEW i \in 1..n, s[i] # s[k] PROVE s[i] \in Range(r)
      BY <1>8
    <2>1. CASE i < k
      <3>1. i \in 1..(n - 1)
        BY <2>1, <1>1, SMT
      <3>. QED BY <2>1, <3>1, <1>6, <1>8
    <2>2. CASE i > k
      <3>1. i - 1 \in 1..(n - 1) /\ ~(i - 1 < k) /\ (i - 1) + 1 = i
        BY <2>2, <1>1, SMT
      <3>2. r[i - 1] = s[(i - 1) + 1]
        BY <3>1, <1>6
      <3>. QED BY <3>1, <3>2, <1>8
    <2>3. i # k
      OBVIOUS
    <2>. QED BY <2>1, <2>2, <2>3, <1>1, SMT
  <1>. QED BY <1>5, <1>6, <1>7, <1>9, <1>10 DEF r, n

\* list::erase of the one node of an element, or nothing.
LEMMA EraseNodeDistinct ==
  ASSUME NEW S, NEW s \in Seq(S), Distinct(s), NEW e
  PROVE  LET r == EraseNode(s, e)
         IN  /\ r \in Seq(S) /\ Distinct(r)
             /\ Range(r) = Range(s) \ {e}
             /\ e \notin Range(s) => r = s
             /\ e \in Range(s) => Len(r) = Len(s) - 1
             /\ s # <<>> /\ Head(s) # e => r # <<>> /\ Head(r) = Head(s)
  <1>1. Len(s) \in Nat /\ DOMAIN s = 1..Len(s) /\ Range(s) = {s[i] : i \in 1..Len(s)}
    BY LenProperties, RangeEquality
  <1>2. CASE e \notin Range(s)
    BY <1>1, <1>2 DEF EraseNode
  <1>3. CASE e \in Range(s)
    <2>1. PICK k \in 1..Len(s) : s[k] = e
      BY <1>1, <1>3
    <2>2. {i \in 1..Len(s) : s[i] = e} = {k}
      BY <2>1 DEF Distinct
    <2>3. (CHOOSE i \in DOMAIN s : s[i] = e) = k
      BY <1>1, <2>1, <2>2
    <2>5. EraseNode(s, e) = Erase(s, k)
      BY <1>3, <2>3 DEF EraseNode
    <2>. DEFINE r == EraseNode(s, e)
    <2>6. /\ r \in Seq(S) /\ Distinct(r) /\ Len(r) = Len(s) - 1 /\ Range(r) = Range(s) \ {e}
          /\ \A i \in 1..(Len(s) - 1) : r[i] = IF i < k THEN s[i] ELSE s[i + 1]
      <3>1. /\ Erase(s, k) \in Seq(S) /\ Distinct(Erase(s, k)) /\ Len(Erase(s, k)) = Len(s) - 1
            /\ Range(Erase(s, k)) = Range(s) \ {s[k]}
            /\ \A i \in 1..(Len(s) - 1) : Erase(s, k)[i] = IF i < k THEN s[i] ELSE s[i + 1]
        BY EraseDistinct, SMT
      <3>2. r = Erase(s, k)
        BY <2>5
      <3>. HIDE DEF r
      <3>. QED BY <2>1, <3>1, <3>2
    <2>. HIDE DEF r
    <2>7. ASSUME s # <<>>, Head(s) # e PROVE r # <<>> /\ Head(r) = Head(s)
      <3>1. Head(s) = s[1] /\ k # 1
        BY <2>1, <2>7, SMT
      <3>2. 1 \in 1..(Len(s) - 1) /\ 1 < k
        BY <2>1, <3>1, <1>1, SMT
      <3>3. r[1] = s[1]
        BY <2>6, <3>2
      <3>4. r # <<>>
        BY <2>6, <3>2, EmptySeq, SMT
      <3>. QED BY <2>6, <3>1, <3>3, <3>4, SMT
    <2>. QED BY <1>3, <2>6, <2>7 DEF r
  <1>. QED BY <1>2, <1>3

\* The positions of a list are as many as its length.
LEMMA InitialSegment == ASSUME NEW n \in Nat PROVE IsFiniteSet(1..n) /\ Cardinality(1..n) = n
  <1>1. 1 \in Int /\ n \in Int
    BY SMT
  <1>2. IsFiniteSet(1..n) /\ Cardinality(1..n) = IF 1 > n THEN 0 ELSE n - 1 + 1
    BY ONLY <1>1, FS_Interval
  <1>. QED BY <1>2, SMT

\* Erasing every node whose element is not in K (Retain, p2c_recovery_policy.h:136).
LEMMA RetainedDistinct ==
  ASSUME NEW S, NEW s \in Seq(S), Distinct(s), NEW K
  PROVE  LET r == Retained(s, K)
         IN  /\ r \in Seq(S) /\ Distinct(r)
             /\ Range(r) = Range(s) \cap K
             /\ Len(r) <= Len(s)
  <1>. DEFINE left == {i \in DOMAIN s : s[i] \in K}
              N == Cardinality(left)
              upto(i) == {j \in left : j <= i}
              rank == [i \in left |-> Cardinality(upto(i))]
              at(n) == CHOOSE i \in left : Cardinality(upto(i)) = n
              r == Retained(s, K)
  <1>1. Len(s) \in Nat /\ DOMAIN s = 1..Len(s) /\ Range(s) = {s[i] : i \in 1..Len(s)} /\ \A i \in 1..Len(s) : s[i] \in S
    BY LenProperties, RangeEquality, ElementOfSeq
  <1>2. IsFiniteSet(left) /\ N \in Nat /\ N <= Len(s) /\ left \subseteq 1..Len(s)
    <2>1. left \in SUBSET (1..Len(s))
      BY <1>1
    <2>2. IsFiniteSet(1..Len(s)) /\ Cardinality(1..Len(s)) = Len(s)
      <3>1. Len(s) \in Nat
        BY <1>1
      <3>. QED BY ONLY <3>1, InitialSegment
    <2>. HIDE DEF left
    <2>. QED BY <2>1, <2>2, FS_Subset, FS_CardinalityType, ZenonT(30)
  <1>3. r = [n \in 1..N |-> s[at(n)]]
    BY DEF Retained
  <1>4. \A i \in left : i \in Int
    BY <1>1, SMT
  <1>a. \A i \in left : s[i] \in K
    OBVIOUS
  <1>b. \A i \in 1..Len(s) : s[i] \in K => i \in left
    BY <1>1
  <1>. HIDE DEF left, r
  <1>5. \A i \in left : upto(i) \in SUBSET left /\ IsFiniteSet(upto(i)) /\ i \in upto(i)
    <2>. SUFFICES ASSUME NEW i \in left PROVE upto(i) \in SUBSET left /\ IsFiniteSet(upto(i)) /\ i \in upto(i)
      OBVIOUS
    <2>1. upto(i) \in SUBSET left /\ i \in upto(i)
      BY <1>4, SMT
    <2>. HIDE DEF upto
    <2>. QED BY <2>1, <1>2, FS_Subset
  <1>6. \A i \in left : Cardinality(upto(i)) \in 1..N
    <2>. SUFFICES ASSUME NEW i \in left PROVE Cardinality(upto(i)) \in 1..N
      OBVIOUS
    <2>. HIDE DEF upto
    <2>1. Cardinality(upto(i)) \in Nat /\ Cardinality(upto(i)) <= N
      BY <1>2, <1>5, FS_Subset, FS_CardinalityType
    <2>2. Cardinality(upto(i)) # 0
      BY <1>5, FS_EmptySet
    <2>. QED BY <2>1, <2>2, <1>2, SMT
  <1>7. \A i, j \in left : i < j => Cardinality(upto(i)) < Cardinality(upto(j))
    <2>. SUFFICES ASSUME NEW i \in left, NEW j \in left, i < j PROVE Cardinality(upto(i)) < Cardinality(upto(j))
      OBVIOUS
    <2>1. upto(i) \in SUBSET (upto(j) \ {j})
      BY <1>4, SMT
    <2>. HIDE DEF upto
    <2>2. IsFiniteSet(upto(j) \ {j}) /\ Cardinality(upto(j) \ {j}) = Cardinality(upto(j)) - 1
      BY <1>5, FS_RemoveElement
    <2>3. Cardinality(upto(i)) <= Cardinality(upto(j) \ {j})
      BY <2>1, <2>2, FS_Subset
    <2>. QED BY <2>2, <2>3, <1>2, <1>6, SMT
  <1>8. rank \in [left -> 1..N] /\ \A i, j \in left : rank[i] = rank[j] => i = j
    <2>. HIDE DEF upto
    <2>1. rank \in [left -> 1..N]
      BY <1>6
    <2>2. ASSUME NEW i \in left, NEW j \in left, rank[i] = rank[j] PROVE i = j
      <3>1. Cardinality(upto(i)) = Cardinality(upto(j)) /\ Cardinality(upto(i)) \in Int
        BY <2>2, <1>2, <1>6, SMT
      <3>. QED BY <3>1, <1>4, <1>7, SMT
    <2>. QED BY <2>1, <2>2
  \* As many places as elements are left, so every place is taken.
  <1>9. \A n \in 1..N : \E i \in left : Cardinality(upto(i)) = n
    <2>1. IsFiniteSet(1..N) /\ Cardinality(1..N) = N
      BY <1>2, FS_Interval, SMT
    <2>2. rank \in Injection(left, 1..N)
      BY <1>8 DEF Injection, IsInjective
    <2>. HIDE DEF rank, N
    <2>3. rank \in Surjection(left, 1..N)
      BY <2>1, <2>2, FS_Injection DEF N
    <2>. QED BY <2>3 DEF Surjection, rank
  <1>10. \A n \in 1..N : at(n) \in left /\ Cardinality(upto(at(n))) = n
    <2>. HIDE DEF upto
    <2>. QED BY <1>9
  <1>. HIDE DEF upto, at, N
  <1>11. r \in Seq(S) /\ Len(r) = N
    <2>1. r \in [1..N -> S]
      BY <1>1, <1>2, <1>3, <1>10
    <2>. QED BY <2>1, <1>2, SeqDef, SMT
  <1>12. Distinct(r)
    <2>. SUFFICES ASSUME NEW m \in 1..N, NEW n \in 1..N, r[m] = r[n] PROVE m = n
      BY <1>11 DEF Distinct
    <2>1. at(m) = at(n)
      BY <1>2, <1>3, <1>10 DEF Distinct
    <2>. QED BY <2>1, <1>10
  <1>13. Range(r) = Range(s) \cap K
    <2>1. Range(r) = {r[n] : n \in 1..N}
      BY <1>11, RangeEquality
    <2>2. ASSUME NEW n \in 1..N PROVE r[n] \in Range(s) \cap K
      BY <1>1, <1>2, <1>3, <1>10, <1>a
    <2>3. ASSUME NEW i \in 1..Len(s), s[i] \in K PROVE \E n \in 1..N : r[n] = s[i]
      <3>1. i \in left
        BY <2>3, <1>b
      <3>2. rank[i] \in 1..N /\ rank[i] = Cardinality(upto(i))
        BY <3>1, <1>8
      <3>3. at(rank[i]) \in left /\ rank[at(rank[i])] = rank[i]
        BY <3>2, <1>10
      <3>4. at(rank[i]) = i
        BY <3>1, <3>3, <1>8
      <3>. QED BY <3>2, <3>4, <1>3
    <2>. QED BY <2>1, <2>2, <2>3, <1>1
  <1>. QED BY <1>2, <1>11, <1>12, <1>13 DEF r

-----------------------------------------------------------------------------
(* The recovery gate                                                       *)

PolicyTypes ==
    /\ DOMAIN m_probes \subseteq Policies
    /\ \A p \in DOMAIN m_probes : /\ m_probes[p].started \in 0..BOOTSTRAP_STARTS
                                  /\ m_probes[p].due \in Nat
                                  /\ m_probes[p].times \in Seq(Nat)
    /\ m_recent \in Seq(Policies) /\ Distinct(m_recent) /\ Range(m_recent) = DOMAIN m_probes
    /\ Len(m_recent) <= MAX_POLICIES
    /\ m_now \in Times /\ m_next_global_start \in Nat /\ starts \in Seq(Nat)
    /\ Reserved => m_reservation \in [key : Policies, token : Tokens]

\* The deadlines are ahead of the last start, by the interval that it costs.
DeadlinesAhead ==
    /\ starts # <<>> => m_next_global_start >= starts[Len(starts)] + BOOTSTRAP_INTERVAL
    /\ \A p \in DOMAIN m_probes :
         LET probe == m_probes[p]
         IN  /\ Len(probe.times) >= BOOTSTRAP_STARTS => probe.started = BOOTSTRAP_STARTS
             /\ Len(probe.times) < BOOTSTRAP_STARTS => probe.started = Len(probe.times)
             /\ probe.times # <<>> => probe.due >= probe.times[Len(probe.times)] + Interval(probe.started)

\* A reservation was granted at or after both deadlines, and they stand since.
ReservedDue ==
    Reserved => /\ m_next_global_start <= m_now
                /\ m_reservation.key \in DOMAIN m_probes => m_probes[m_reservation.key].due <= m_now

PolicyInv == PolicyTypes /\ DeadlinesAhead /\ ReservedDue /\ StartsSpaced /\ RecoveryPaced

LEMMA PolicyTyped == PolicyTypes => PolicyTypeOK
  BY DistinctCount DEF PolicyTypes, PolicyTypeOK

LEMMA PolicyInvInit == PolicyInit => PolicyInv
  <1>. SUFFICES ASSUME PolicyInit PROVE PolicyInv
    OBVIOUS
  <1>1. /\ m_probes = <<>> /\ m_recent = <<>> /\ starts = <<>> /\ ~Reserved
        /\ DOMAIN m_probes = {} /\ Range(m_recent) = {} /\ Len(m_recent) = 0 /\ Len(starts) = 0
        /\ m_now = 0 /\ m_next_global_start = 0
    BY SMT DEF PolicyInit, Reserved, Range
  <1>. QED BY <1>1, PolicyAssumption, SMT DEF PolicyInv, PolicyTypes, DeadlinesAhead, ReservedDue, StartsSpaced, RecoveryPaced,
           Distinct, Times

\* The latest time seen.
LEMMA AdvanceTime ==
  ASSUME PolicyTypes, NEW now \in Times
  PROVE  Advance(now) \in Times /\ Advance(now) \in Nat /\ m_now <= Advance(now)
  BY PolicyAssumption, SMT DEF PolicyTypes, Advance, Later, Times

\* Entry: eviction spares the reserved policy, and makes room for the new one.
LEMMA EntryKeeps ==
  ASSUME PolicyTypes, NEW key \in Policies, NEW now \in Nat
  PROVE  LET e == Entry(key, now)
         IN  /\ key \in DOMAIN e.probes /\ DOMAIN e.probes \subseteq Policies
             /\ e.recent \in Seq(Policies) /\ Distinct(e.recent) /\ Range(e.recent) = DOMAIN e.probes
             /\ Len(e.recent) <= MAX_POLICIES
             /\ \A p \in DOMAIN e.probes :
                  \/ p \in DOMAIN m_probes /\ e.probes[p] = m_probes[p]
                  \/ p = key /\ p \notin DOMAIN m_probes /\ e.probes[p] = [started |-> 0, due |-> now, times |-> <<>>]
             /\ Reserved /\ m_reservation.key \in DOMAIN m_probes => m_reservation.key \in DOMAIN e.probes
  <1>. DEFINE e == Entry(key, now)
  <1>1. CASE key \in DOMAIN m_probes
    <2>1. e.probes = m_probes /\ e.recent = m_recent
      BY <1>1 DEF Entry
    <2>. HIDE DEF e
    <2>2. /\ key \in DOMAIN e.probes /\ DOMAIN e.probes \subseteq Policies
          /\ e.recent \in Seq(Policies) /\ Distinct(e.recent) /\ Range(e.recent) = DOMAIN e.probes
          /\ Len(e.recent) <= MAX_POLICIES
          /\ \A p \in DOMAIN e.probes : p \in DOMAIN m_probes /\ e.probes[p] = m_probes[p]
          /\ Reserved /\ m_reservation.key \in DOMAIN m_probes => m_reservation.key \in DOMAIN e.probes
      BY <1>1, <2>1 DEF PolicyTypes
    <2>. QED BY <2>2 DEF e
  <1>2. CASE key \notin DOMAIN m_probes
    <2>1. /\ Kept \in Seq(Policies) /\ Distinct(Kept) /\ Range(Kept) \subseteq DOMAIN m_probes
          /\ Len(Kept) + 1 <= MAX_POLICIES /\ Len(Kept) \in Nat
          /\ Reserved /\ m_reservation.key \in DOMAIN m_probes => m_reservation.key \in Range(Kept)
      <3>1. /\ m_recent \in Seq(Policies) /\ Distinct(m_recent) /\ Len(m_recent) \in Nat /\ Len(m_recent) <= MAX_POLICIES
            /\ Range(m_recent) = DOMAIN m_probes /\ Cardinality(DOMAIN m_probes) = Len(m_recent)
            /\ MAX_POLICIES \in Nat /\ MAX_POLICIES >= 2
        BY PolicyAssumption, DistinctCount, SMT DEF PolicyTypes
      <3>2. CASE Len(m_recent) = MAX_POLICIES
        <4>1. Kept = Erase(m_recent, Oldest)
          BY <3>1, <3>2 DEF Kept
        <4>2. Oldest \in 1..Len(m_recent) /\ {1, 2} \subseteq 1..Len(m_recent)
          BY <3>1, <3>2, SMT DEF Oldest
        <4>3. Reserved => m_reservation.key # m_recent[Oldest]
          <5>1. CASE ReservedKey(m_recent[1])
            <6>1. Oldest = 2 /\ m_reservation.key = m_recent[1] /\ 1 # 2
              BY <5>1, SMT DEF Oldest, ReservedKey
            <6>. QED BY <6>1, <4>2, <3>1 DEF Distinct
          <5>2. CASE ~ReservedKey(m_recent[1])
            BY <5>2 DEF Oldest, ReservedKey
          <5>. QED BY <5>1, <5>2
        <4>4. /\ Kept \in Seq(Policies) /\ Distinct(Kept) /\ Len(Kept) = Len(m_recent) - 1
              /\ Range(Kept) = Range(m_recent) \ {m_recent[Oldest]}
          BY <4>1, <4>2, <3>1, EraseDistinct, SMT
        <4>. QED BY <3>1, <3>2, <4>3, <4>4, SMT
      <3>3. CASE Len(m_recent) # MAX_POLICIES
        BY <3>1, <3>3, SMT DEF Kept
      <3>. QED BY <3>2, <3>3
    <2>2. /\ e.probes = [p \in Range(Kept) \cup {key} |->
                          IF p = key THEN [started |-> 0, due |-> now, times |-> <<>>] ELSE m_probes[p]]
          /\ e.recent = Append(Kept, key)
      BY <1>2 DEF Entry
    <2>3. key \notin Range(Kept)
      BY <1>2, <2>1
    <2>4. /\ e.recent \in Seq(Policies) /\ Distinct(e.recent) /\ Len(e.recent) = Len(Kept) + 1
          /\ Range(e.recent) = Range(Kept) \cup {key}
      BY <2>1, <2>2, <2>3, AppendDistinct, SMT
    <2>5. DOMAIN e.probes = Range(Kept) \cup {key}
      BY <2>2
    <2>6. \A p \in DOMAIN e.probes :
             \/ p \in DOMAIN m_probes /\ e.probes[p] = m_probes[p]
             \/ p = key /\ p \notin DOMAIN m_probes /\ e.probes[p] = [started |-> 0, due |-> now, times |-> <<>>]
      BY <1>2, <2>1, <2>2, <2>5
    <2>. HIDE DEF e
    <2>7. /\ key \in DOMAIN e.probes /\ DOMAIN e.probes \subseteq Policies
          /\ e.recent \in Seq(Policies) /\ Distinct(e.recent) /\ Range(e.recent) = DOMAIN e.probes
          /\ Len(e.recent) <= MAX_POLICIES
          /\ Reserved /\ m_reservation.key \in DOMAIN m_probes => m_reservation.key \in DOMAIN e.probes
      BY <2>1, <2>4, <2>5 DEF PolicyTypes
    <2>. QED BY <2>6, <2>7 DEF e
  <1>. QED BY <1>1, <1>2

\* A call of Due, with the reservation left alone or granted.
LEMMA LookKeeps ==
  ASSUME PolicyInv, NEW key \in Policies, NEW now \in Times, Look(key, now),
         \/ UNCHANGED m_reservation
         \/ /\ DueAt(key, now) <= Advance(now)
            /\ \E token \in Tokens : m_reservation' = [key |-> key, token |-> token]
  PROVE  PolicyInv'
  <1>. DEFINE time == Advance(now)
              e == Entry(key, time)
  <1>1. time \in Times /\ time \in Nat /\ m_now <= time /\ m_now \in Nat
    BY AdvanceTime, PolicyAssumption, SMT DEF PolicyInv, PolicyTypes, Times
  <1>2. /\ m_now' = time /\ m_probes' = e.probes /\ m_recent' = e.recent
        /\ UNCHANGED <<m_next_global_start, starts>>
    BY DEF Look
  <1>3. PolicyTypes
    BY DEF PolicyInv
  <1>. HIDE DEF time
  <1>4. /\ key \in DOMAIN m_probes' /\ DOMAIN m_probes' \subseteq Policies
        /\ m_recent' \in Seq(Policies) /\ Distinct(m_recent') /\ Range(m_recent') = DOMAIN m_probes'
        /\ Len(m_recent') <= MAX_POLICIES
    BY <1>1, <1>2, <1>3, EntryKeeps, ZenonT(30)
  <1>5. \A p \in DOMAIN m_probes' :
           \/ p \in DOMAIN m_probes /\ m_probes'[p] = m_probes[p]
           \/ p = key /\ m_probes'[p] = [started |-> 0, due |-> time, times |-> <<>>]
    BY <1>1, <1>2, <1>3, EntryKeeps, SMT
  <1>. HIDE DEF e
  <1>6. \A p \in DOMAIN m_probes' : /\ m_probes'[p].started \in 0..BOOTSTRAP_STARTS
                                    /\ m_probes'[p].due \in Nat
                                    /\ m_probes'[p].times \in Seq(Nat)
    <2>. SUFFICES ASSUME NEW p \in DOMAIN m_probes' 
                  PROVE  /\ m_probes'[p].started \in 0..BOOTSTRAP_STARTS
                         /\ m_probes'[p].due \in Nat
                         /\ m_probes'[p].times \in Seq(Nat)
      OBVIOUS
    <2>1. CASE p \in DOMAIN m_probes /\ m_probes'[p] = m_probes[p]
      BY <2>1, <1>3 DEF PolicyTypes
    <2>2. CASE m_probes'[p] = [started |-> 0, due |-> time, times |-> <<>>]
      BY <2>2, <1>1, PolicyAssumption, SMT
    <2>. QED BY <2>1, <2>2, <1>5
  <1>7. Reserved' => m_reservation' \in [key : Policies, token : Tokens]
    BY <1>3, SMT DEF PolicyTypes, Reserved
  <1>8. PolicyTypes'
    BY <1>1, <1>2, <1>3, <1>4, <1>6, <1>7 DEF PolicyTypes
  <1>9. DeadlinesAhead' /\ RecoveryPaced'
    <2>1. starts' # <<>> => m_next_global_start' >= starts'[Len(starts')] + BOOTSTRAP_INTERVAL
      BY <1>2 DEF PolicyInv, DeadlinesAhead
    <2>2. ASSUME NEW p \in DOMAIN m_probes'
          PROVE  /\ Len(m_probes'[p].times) >= BOOTSTRAP_STARTS => m_probes'[p].started = BOOTSTRAP_STARTS
                 /\ Len(m_probes'[p].times) < BOOTSTRAP_STARTS => m_probes'[p].started = Len(m_probes'[p].times)
                 /\ m_probes'[p].times # <<>> =>
                      m_probes'[p].due >= m_probes'[p].times[Len(m_probes'[p].times)] + Interval(m_probes'[p].started)
                 /\ \A i \in (BOOTSTRAP_STARTS + 1)..Len(m_probes'[p].times) :
                      m_probes'[p].times[i] - m_probes'[p].times[i-1] >= RECOVERY_INTERVAL
      <3>1. CASE p \in DOMAIN m_probes /\ m_probes'[p] = m_probes[p]
        BY <3>1 DEF PolicyInv, DeadlinesAhead, RecoveryPaced
      <3>2. CASE m_probes'[p] = [started |-> 0, due |-> time, times |-> <<>>]
        <4>1. m_probes'[p].times = <<>> /\ m_probes'[p].started = 0 /\ Len(m_probes'[p].times) = 0
          BY <3>2, SMT
        <4>. QED BY <4>1, PolicyAssumption, SMT
      <3>. QED BY <3>1, <3>2, <1>5
    <2>. QED BY <2>1, <2>2 DEF DeadlinesAhead, RecoveryPaced, Interval
  <1>10. ReservedDue'
    <2>. SUFFICES ASSUME Reserved'
                  PROVE  /\ m_next_global_start' <= m_now'
                         /\ m_reservation'.key \in DOMAIN m_probes' => m_probes'[m_reservation'.key].due <= m_now'
      BY DEF ReservedDue
    <2>0. m_next_global_start \in Nat
      BY <1>3 DEF PolicyTypes
    <2>1. CASE UNCHANGED m_reservation
      <3>1. /\ m_next_global_start <= m_now
            /\ m_reservation.key \in DOMAIN m_probes => m_probes[m_reservation.key].due <= m_now
        BY <2>1 DEF PolicyInv, ReservedDue, Reserved
      <3>2. ASSUME m_reservation.key \in DOMAIN m_probes' PROVE m_probes'[m_reservation.key].due <= time
        <4>. DEFINE k == m_reservation.key
        <4>. HIDE DEF k
        <4>1. k \in DOMAIN m_probes'
          BY <3>2 DEF k
        <4>2. CASE k \in DOMAIN m_probes /\ m_probes'[k] = m_probes[k]
          <5>1. m_probes[k].due <= m_now /\ m_probes[k].due \in Nat
            BY <4>2, <3>1, <1>3 DEF k, PolicyTypes
          <5>. QED BY <4>2, <5>1, <1>1, SMT DEF k
        <4>3. CASE m_probes'[k] = [started |-> 0, due |-> time, times |-> <<>>]
          BY <4>3, <1>1, SMT DEF k
        <4>. QED BY <4>1, <4>2, <4>3, <1>5
      <3>. QED BY <2>0, <2>1, <3>1, <3>2, <1>1, <1>2, SMT
    <2>2. CASE DueAt(key, now) <= Advance(now) /\ m_reservation'.key = key
      <3>1. Later(m_probes'[key].due, m_next_global_start) <= time
        BY <2>2, <1>2 DEF DueAt, e, time
      <3>2. m_probes'[key].due \in Nat
        BY <1>4, <1>6
      <3>. QED BY <2>0, <2>2, <3>1, <3>2, <1>1, <1>2, SMT DEF Later
    <2>. QED BY <2>1, <2>2, SMT
  <1>11. StartsSpaced'
    BY <1>2 DEF PolicyInv, StartsSpaced
  <1>. QED BY <1>8, <1>9, <1>10, <1>11 DEF PolicyInv

\* The reserved operation starts: both deadlines have passed, and both move on.
LEMMA StartedKeeps ==
  ASSUME PolicyInv, NEW key \in Policies, NEW token, NEW now \in Times, Started(key, token, now)
  PROVE  PolicyInv'
  <1>. DEFINE time == Advance(now)
              e == Entry(key, time)
              probe == e.probes[key]
              started == IF probe.started < BOOTSTRAP_STARTS THEN probe.started + 1 ELSE BOOTSTRAP_STARTS
              next == [started |-> started, due |-> time + Interval(started), times |-> Append(probe.times, time)]
  <1>0. /\ BOOTSTRAP_STARTS \in Nat /\ BOOTSTRAP_STARTS > 0
        /\ BOOTSTRAP_INTERVAL \in Nat /\ RECOVERY_INTERVAL \in Nat
    BY PolicyAssumption
  <1>1. time \in Times /\ time \in Nat /\ m_now <= time /\ m_now \in Nat
    BY AdvanceTime, PolicyAssumption, SMT DEF PolicyInv, PolicyTypes, Times
  <1>2. /\ m_reservation.key = key /\ Reserved
        /\ m_now' = time /\ m_probes' = [e.probes EXCEPT ![key] = next]
        /\ m_recent' = Append(EraseNode(e.recent, key), key)
        /\ m_next_global_start' = GlobalDeadline(time)
        /\ m_reservation' = NoReservation /\ starts' = Append(starts, time)
    BY DEF Started, ReservedFor
  <1>3. PolicyTypes
    BY DEF PolicyInv
  <1>. HIDE DEF time
  <1>4. /\ key \in DOMAIN e.probes /\ DOMAIN e.probes \subseteq Policies
        /\ e.recent \in Seq(Policies) /\ Distinct(e.recent) /\ Range(e.recent) = DOMAIN e.probes
        /\ Len(e.recent) <= MAX_POLICIES
    BY <1>1, <1>3, EntryKeeps
  <1>5. \A p \in DOMAIN e.probes :
           \/ p \in DOMAIN m_probes /\ e.probes[p] = m_probes[p]
           \/ p = key /\ p \notin DOMAIN m_probes /\ e.probes[p] = [started |-> 0, due |-> time, times |-> <<>>]
    BY <1>1, <1>3, EntryKeeps
  <1>. HIDE DEF e
  <1>6. /\ DOMAIN m_probes' = DOMAIN e.probes /\ m_probes'[key] = next
        /\ \A p \in DOMAIN m_probes' : p # key => p \in DOMAIN m_probes /\ m_probes'[p] = m_probes[p]
    <2>. HIDE DEF next
    <2>. QED BY <1>2, <1>4, <1>5
  <1>7. m_next_global_start \in Nat /\ m_next_global_start <= time /\ starts \in Seq(Nat)
    BY <1>1, <1>2, <1>3, SMT DEF PolicyInv, ReservedDue, PolicyTypes
  \* The policy's count so far, and its deadline, which has passed.
  <1>8. /\ probe.started \in 0..BOOTSTRAP_STARTS /\ probe.due \in Nat /\ probe.times \in Seq(Nat)
        /\ probe.due <= time
        /\ Len(probe.times) >= BOOTSTRAP_STARTS => probe.started = BOOTSTRAP_STARTS
        /\ Len(probe.times) < BOOTSTRAP_STARTS => probe.started = Len(probe.times)
        /\ probe.times # <<>> => probe.due >= probe.times[Len(probe.times)] + Interval(probe.started)
        /\ \A i \in (BOOTSTRAP_STARTS + 1)..Len(probe.times) : probe.times[i] - probe.times[i-1] >= RECOVERY_INTERVAL
    <2>1. CASE key \in DOMAIN m_probes /\ probe = m_probes[key]
      <3>1. m_probes[key].due <= m_now /\ m_probes[key].due \in Nat
        BY <2>1, <1>2, <1>3 DEF PolicyInv, ReservedDue, PolicyTypes
      <3>2. probe.due <= time
        BY <2>1, <3>1, <1>1, SMT
      <3>. HIDE DEF probe
      <3>. QED BY <2>1, <3>2, <1>3 DEF PolicyInv, PolicyTypes, DeadlinesAhead, RecoveryPaced
    <2>2. CASE probe = [started |-> 0, due |-> time, times |-> <<>>]
      <3>. HIDE DEF probe
      <3>1. probe.times = <<>> /\ probe.started = 0 /\ Len(probe.times) = 0 /\ probe.due = time /\ <<>> \in Seq(Nat)
        BY <2>2, SMT
      <3>. QED BY <3>1, <1>1, PolicyAssumption, SMT
    <2>. QED BY <2>1, <2>2, <1>4, <1>5
  <1>. HIDE DEF probe
  <1>9. PolicyTypes'
    <2>. DEFINE others == EraseNode(e.recent, key)
    <2>1. others \in Seq(Policies) /\ Distinct(others) /\ Range(others) = Range(e.recent) \ {key}
      BY <1>4, EraseNodeDistinct, SMT
    <2>2. Len(others) = Len(e.recent) - 1
      BY <1>4, EraseNodeDistinct
    <2>. HIDE DEF others
    <2>3. /\ m_recent' \in Seq(Policies) /\ Distinct(m_recent') /\ Len(m_recent') = Len(others) + 1
          /\ Range(m_recent') = Range(others) \cup {key}
      BY <1>2, <2>1, AppendDistinct, SMT DEF others
    <2>4. Range(m_recent') = DOMAIN m_probes' /\ Len(m_recent') <= MAX_POLICIES
      BY <1>4, <1>6, <2>1, <2>2, <2>3, SMT
    <2>5. started \in 0..BOOTSTRAP_STARTS
      <3>1. probe.started \in 0..BOOTSTRAP_STARTS
        BY <1>8
      <3>. QED BY <3>1, <1>0, SMT
    <2>6. next.started \in 0..BOOTSTRAP_STARTS /\ next.due \in Nat /\ next.times \in Seq(Nat)
      <3>1. time + Interval(started) \in Nat
        BY <1>1, PolicyAssumption, SMT DEF Interval
      <3>2. Append(probe.times, time) \in Seq(Nat)
        BY <1>1, <1>8, SMT
      <3>. HIDE DEF started
      <3>. QED BY <2>5, <3>1, <3>2
    <2>7. m_next_global_start' \in Nat /\ starts' \in Seq(Nat) /\ ~Reserved'
      BY <1>1, <1>2, <1>7, PolicyAssumption, SMT DEF GlobalDeadline, Later, Reserved
    <2>. HIDE DEF next
    <2>8. \A p \in DOMAIN m_probes' : /\ m_probes'[p].started \in 0..BOOTSTRAP_STARTS
                                      /\ m_probes'[p].due \in Nat
                                      /\ m_probes'[p].times \in Seq(Nat)
      BY <1>3, <1>6, <2>6 DEF PolicyTypes
    <2>. QED BY <1>1, <1>2, <1>4, <1>6, <2>3, <2>4, <2>7, <2>8 DEF PolicyTypes
  <1>10. DeadlinesAhead' /\ StartsSpaced'
    <2>1. /\ starts' # <<>> => m_next_global_start' >= starts'[Len(starts')] + BOOTSTRAP_INTERVAL
          /\ \A i \in 2..Len(starts') : starts'[i] - starts'[i-1] >= BOOTSTRAP_INTERVAL
      <3>1. /\ Len(starts') = Len(starts) + 1 /\ starts'[Len(starts) + 1] = time /\ Len(starts) \in Nat
            /\ \A i \in 1..Len(starts) : starts'[i] = starts[i] /\ starts[i] \in Nat
        BY <1>1, <1>2, <1>7, SMT
      <3>2. m_next_global_start' >= time + BOOTSTRAP_INTERVAL
        BY <1>1, <1>2, <1>7, PolicyAssumption, SMT DEF GlobalDeadline, Later
      <3>3. ASSUME NEW i \in 2..Len(starts') PROVE starts'[i] - starts'[i-1] >= BOOTSTRAP_INTERVAL
        <4>1. CASE i = Len(starts) + 1
          <5>1. starts # <<>> /\ i - 1 = Len(starts) /\ Len(starts) \in 1..Len(starts)
            BY <4>1, <3>1, <1>7, SMT
          <5>2. starts'[i] = time /\ starts'[i-1] = starts[Len(starts)] /\ starts[Len(starts)] \in Nat
            BY <4>1, <5>1, <3>1
          <5>3. m_next_global_start >= starts[Len(starts)] + BOOTSTRAP_INTERVAL
            BY <5>1 DEF PolicyInv, DeadlinesAhead
          <5>4. time - starts[Len(starts)] >= BOOTSTRAP_INTERVAL
            BY <5>2, <5>3, <1>0, <1>1, <1>7, SMT
          <5>. QED BY <5>2, <5>4
        <4>2. CASE i # Len(starts) + 1
          <5>1. i \in 2..Len(starts) /\ i \in 1..Len(starts) /\ i - 1 \in 1..Len(starts)
            BY <4>2, <3>1, SMT
          <5>. QED BY <5>1, <3>1 DEF PolicyInv, StartsSpaced
        <4>. QED BY <4>1, <4>2
      <3>. QED BY <3>1, <3>2, <3>3
    <2>2. /\ Len(next.times) >= BOOTSTRAP_STARTS => next.started = BOOTSTRAP_STARTS
          /\ Len(next.times) < BOOTSTRAP_STARTS => next.started = Len(next.times)
          /\ next.due >= next.times[Len(next.times)] + Interval(next.started)
      <3>1. /\ Len(next.times) = Len(probe.times) + 1 /\ next.times[Len(probe.times) + 1] = time
            /\ Len(probe.times) \in Nat
        BY <1>1, <1>8, SMT
      <3>2. next.started = started /\ next.due = time + Interval(started)
        OBVIOUS
      <3>3. Interval(started) \in Nat
        BY PolicyAssumption DEF Interval
      <3>. HIDE DEF next
      <3>4. /\ Len(next.times) >= BOOTSTRAP_STARTS => started = BOOTSTRAP_STARTS
            /\ Len(next.times) < BOOTSTRAP_STARTS => started = Len(next.times)
        <4>1. /\ probe.started \in 0..BOOTSTRAP_STARTS
              /\ Len(probe.times) >= BOOTSTRAP_STARTS => probe.started = BOOTSTRAP_STARTS
              /\ Len(probe.times) < BOOTSTRAP_STARTS => probe.started = Len(probe.times)
          BY <1>8
        <4>. QED BY <3>1, <4>1, <1>0, SMT
      <3>. HIDE DEF started
      <3>. QED BY <3>1, <3>2, <3>3, <3>4, <1>1, SMT
    <2>. HIDE DEF next
    <2>3. ASSUME NEW p \in DOMAIN m_probes'
          PROVE  /\ Len(m_probes'[p].times) >= BOOTSTRAP_STARTS => m_probes'[p].started = BOOTSTRAP_STARTS
                 /\ Len(m_probes'[p].times) < BOOTSTRAP_STARTS => m_probes'[p].started = Len(m_probes'[p].times)
                 /\ m_probes'[p].times # <<>> =>
                      m_probes'[p].due >= m_probes'[p].times[Len(m_probes'[p].times)] + Interval(m_probes'[p].started)
      <3>1. CASE p = key
        BY <3>1, <2>2, <1>6
      <3>2. CASE p # key
        BY <3>2, <1>6 DEF PolicyInv, DeadlinesAhead
      <3>. QED BY <3>1, <3>2
    <2>. QED BY <2>1, <2>3 DEF DeadlinesAhead, StartsSpaced, Interval
  <1>11. RecoveryPaced'
    <2>1. ASSUME NEW i \in (BOOTSTRAP_STARTS + 1)..Len(next.times)
          PROVE  next.times[i] - next.times[i-1] >= RECOVERY_INTERVAL
      <3>. DEFINE n == Len(probe.times)
      <3>1. /\ Len(next.times) = n + 1 /\ next.times[n + 1] = time /\ n \in Nat
            /\ \A j \in 1..n : next.times[j] = probe.times[j] /\ probe.times[j] \in Nat
        <4>1. next.times = Append(probe.times, time) /\ probe.times \in Seq(Nat)
          BY <1>8
        <4>. HIDE DEF next
        <4>. QED BY <4>1, <1>1, SMT
      <3>. HIDE DEF next, n
      <3>2. CASE i = n + 1
        <4>1. n >= BOOTSTRAP_STARTS /\ n \in 1..n /\ i - 1 = n
          BY <3>1, <3>2, PolicyAssumption, SMT
        <4>2. probe.times # <<>> /\ probe.started = BOOTSTRAP_STARTS
          BY <4>1, <3>1, <1>8, SMT DEF n
        <4>3. probe.due >= probe.times[n] + RECOVERY_INTERVAL
          BY <4>2, <1>8, PolicyAssumption, SMT DEF Interval, n
        <4>4. next.times[i] = time /\ next.times[i-1] = probe.times[n] /\ probe.times[n] \in Nat
          BY <3>1, <3>2, <4>1
        <4>5. probe.due \in Nat /\ probe.due <= time
          BY <1>8
        <4>6. time - probe.times[n] >= RECOVERY_INTERVAL
          BY <4>3, <4>4, <4>5, <1>0, <1>1, SMT
        <4>. QED BY <4>4, <4>6
      <3>3. CASE i # n + 1
        <4>1. i \in (BOOTSTRAP_STARTS + 1)..n /\ i \in 1..n /\ i - 1 \in 1..n
          BY <3>1, <3>3, PolicyAssumption, SMT
        <4>. QED BY <4>1, <3>1, <1>8 DEF n
      <3>. QED BY <3>2, <3>3
    <2>. HIDE DEF next
    <2>2. ASSUME NEW p \in DOMAIN m_probes'
          PROVE  \A i \in (BOOTSTRAP_STARTS + 1)..Len(m_probes'[p].times) :
                    m_probes'[p].times[i] - m_probes'[p].times[i-1] >= RECOVERY_INTERVAL
      <3>1. CASE p = key
        BY <3>1, <2>1, <1>6
      <3>2. CASE p # key
        BY <3>2, <1>6 DEF PolicyInv, RecoveryPaced
      <3>. QED BY <3>1, <3>2
    <2>. QED BY <2>2 DEF RecoveryPaced
  <1>12. ReservedDue'
    BY <1>2 DEF ReservedDue, Reserved
  <1>. QED BY <1>9, <1>10, <1>11, <1>12 DEF PolicyInv

\* Retain and Clear: what stays, stays as it is.
LEMMA KeepKeeps ==
  ASSUME PolicyInv, NEW K, Keep(K)
  PROVE  PolicyInv'
  <1>1. /\ m_probes' = [p \in DOMAIN m_probes \cap K |-> m_probes[p]] /\ m_recent' = Retained(m_recent, K)
        /\ UNCHANGED <<m_next_global_start, m_now, m_reservation, starts>>
    BY DEF Keep
  <1>2. /\ DOMAIN m_probes' = DOMAIN m_probes \cap K
        /\ \A p \in DOMAIN m_probes' : p \in DOMAIN m_probes /\ m_probes'[p] = m_probes[p]
    BY <1>1
  <1>3. /\ m_recent' \in Seq(Policies) /\ Distinct(m_recent') /\ Range(m_recent') = DOMAIN m_probes'
        /\ Len(m_recent') <= MAX_POLICIES
    <2>1. m_recent \in Seq(Policies) /\ Distinct(m_recent) /\ Range(m_recent) = DOMAIN m_probes /\ Len(m_recent) <= MAX_POLICIES
      BY DEF PolicyInv, PolicyTypes
    <2>2. /\ m_recent' \in Seq(Policies) /\ Distinct(m_recent') /\ Range(m_recent') = Range(m_recent) \cap K
          /\ Len(m_recent') <= Len(m_recent)
      BY <1>1, <2>1, RetainedDistinct
    <2>. QED BY <1>2, <2>1, <2>2, PolicyAssumption, SMT
  <1>4. PolicyTypes'
    BY <1>1, <1>2, <1>3 DEF PolicyInv, PolicyTypes, Reserved
  <1>5. DeadlinesAhead' /\ ReservedDue' /\ StartsSpaced' /\ RecoveryPaced'
    BY <1>1, <1>2, SMT DEF PolicyInv, DeadlinesAhead, ReservedDue, Reserved, StartsSpaced, RecoveryPaced, Interval
  <1>. QED BY <1>4, <1>5 DEF PolicyInv

LEMMA PolicyInvNext == PolicyInv /\ [PolicyNext]_policyVars => PolicyInv'
  <1>. SUFFICES ASSUME PolicyInv, [PolicyNext]_policyVars PROVE PolicyInv'
    OBVIOUS
  <1>1. ASSUME NEW key \in Policies, NEW now \in Times, Due(key, now) PROVE PolicyInv'
    BY <1>1, LookKeeps DEF Due
  <1>2. ASSUME NEW key \in Policies, NEW now \in Times, ReserveRefused(key, now) PROVE PolicyInv'
    <2>1. CASE Due(key, now)
      BY <2>1, <1>1
    <2>2. CASE m_now' = Advance(now) /\ UNCHANGED <<tableVars, m_next_global_start, m_reservation, starts>>
      <3>1. Advance(now) \in Times /\ Advance(now) \in Nat /\ m_now <= Advance(now) /\ m_now \in Nat
        BY AdvanceTime, PolicyAssumption, SMT DEF PolicyInv, PolicyTypes, Times
      <3>2. UNCHANGED <<m_probes, m_recent, m_next_global_start, m_reservation, starts>>
        BY <2>2 DEF tableVars
      <3>3. PolicyTypes' /\ DeadlinesAhead' /\ StartsSpaced' /\ RecoveryPaced'
        BY <2>2, <3>1, <3>2 DEF PolicyInv, PolicyTypes, DeadlinesAhead, Reserved, StartsSpaced, RecoveryPaced, Interval
      <3>4. ReservedDue'
        <4>1. m_next_global_start \in Nat /\ \A p \in DOMAIN m_probes : m_probes[p].due \in Nat
          BY DEF PolicyInv, PolicyTypes
        <4>. QED BY <2>2, <3>1, <3>2, <4>1, SMT DEF PolicyInv, ReservedDue, Reserved
      <3>. QED BY <3>3, <3>4 DEF PolicyInv
    <2>. QED BY <1>2, <2>1, <2>2 DEF ReserveRefused
  <1>3. ASSUME NEW key \in Policies, NEW now \in Times, NEW token \in Tokens, Reserve(key, token, now) PROVE PolicyInv'
    BY <1>3, LookKeeps DEF Reserve
  <1>4. ASSUME NEW key \in Policies, NEW now \in Times, NEW token \in Tokens, Started(key, token, now) PROVE PolicyInv'
    BY <1>4, StartedKeeps
  <1>5. ASSUME NEW token \in Tokens, Release(token) PROVE PolicyInv'
    <2>1. /\ m_reservation' \in {m_reservation, NoReservation}
          /\ UNCHANGED <<m_probes, m_recent, m_next_global_start, m_now, starts>>
      BY <1>5 DEF Release, tableVars
    <2>. QED BY <2>1 DEF PolicyInv, PolicyTypes, DeadlinesAhead, ReservedDue, Reserved, StartsSpaced, RecoveryPaced, Interval
  <1>6. ASSUME NEW policies \in SUBSET Policies, Retain(policies) PROVE PolicyInv'
    BY <1>6, KeepKeeps DEF Retain
  <1>7. CASE Clear
    BY <1>7, KeepKeeps DEF Clear
  <1>8. CASE UNCHANGED policyVars
    BY <1>8 DEF policyVars, tableVars, PolicyInv, PolicyTypes, DeadlinesAhead, ReservedDue, Reserved, StartsSpaced,
           RecoveryPaced, Interval
  <1>. QED BY <1>1, <1>2, <1>3, <1>4, <1>5, <1>6, <1>7, <1>8 DEF PolicyNext

\* For any policies, intervals and callers, in any order of calls and with any
\* clock readings: the table is consistent, any two starts are BOOTSTRAP_INTERVAL
\* apart, and a policy past its bootstrap starts RECOVERY_INTERVAL apart
\* (p2c_recovery_policy.h:91-150).
THEOREM StartsAlwaysPaced == PolicySpec => []StartsPaced
  <1>1. PolicyInv => StartsPaced
    BY PolicyTyped DEF PolicyInv, StartsPaced
  <1>. QED BY <1>1, PolicyInvInit, PolicyInvNext, PTL DEF PolicySpec

\* For any policies: neither an eviction nor Retain takes a policy away while its
\* reservation is out (Entry's ++oldest, p2c_recovery_policy.h:65; Retain, line 135).
THEOREM ReservationKeepsEntry == PolicySpec => ReservedKept
  <1>1. ASSUME PolicyInv, [PolicyNext]_policyVars
        PROVE  [Reserved /\ m_reservation.key \in DOMAIN m_probes /\ ~Clear =>
                  m_reservation.key \in DOMAIN m_probes']_policyVars
    <2>. SUFFICES ASSUME PolicyNext, Reserved, m_reservation.key \in DOMAIN m_probes, ~Clear
                  PROVE  m_reservation.key \in DOMAIN m_probes'
      BY <1>1
    <2>0. PolicyTypes
      BY <1>1 DEF PolicyInv
    <2>1. ASSUME NEW key \in Policies, NEW now \in Times, Look(key, now) PROVE m_reservation.key \in DOMAIN m_probes'
      <3>1. Advance(now) \in Nat
        BY <2>0, AdvanceTime
      <3>. QED BY <2>0, <2>1, <3>1, EntryKeeps DEF Look
    <2>2. ASSUME NEW key \in Policies, NEW now \in Times, NEW token \in Tokens, Started(key, token, now)
          PROVE  m_reservation.key \in DOMAIN m_probes'
      <3>1. Advance(now) \in Nat
        BY <2>0, AdvanceTime
      <3>2. m_reservation.key \in DOMAIN Entry(key, Advance(now)).probes
        BY <2>0, <3>1, EntryKeeps
      <3>. QED BY <2>2, <3>2 DEF Started
    <2>3. ASSUME NEW policies \in SUBSET Policies, Retain(policies) PROVE m_reservation.key \in DOMAIN m_probes'
      BY <2>0, <2>3 DEF Retain, Keep, ReservedKey, PolicyTypes
    <2>4. ASSUME UNCHANGED tableVars PROVE m_reservation.key \in DOMAIN m_probes'
      BY <2>4 DEF tableVars
    <2>. QED BY <2>1, <2>2, <2>3, <2>4 DEF PolicyNext, Due, Reserve, ReserveRefused, Release
  <1>. QED BY <1>1, PolicyInvInit, PolicyInvNext, PTL DEF PolicySpec, ReservedKept
===============================================================================

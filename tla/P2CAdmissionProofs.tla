---------------------------- MODULE P2CAdmissionProofs ----------------------------
(***************************************************************************)
(* The admission of connection threads, for every number of threads,       *)
(* policies and admission numbers.  The argument needs three things that   *)
(* the properties do not say: a thread with a ticket is at a place of      *)
(* Connect that gives it back, an admitted thread is at the head, and      *)
(* admission numbers are never shared, so that no thread but its owner     *)
(* gives the recovery reservation back.                                    *)
(***************************************************************************)
EXTENDS P2CAdmission, P2CPacingProofs

\* Zenon is the prover of this module; a leaf that needs another one names it.
USE Zenon

Places == {"unborn", "loop", "parked", "timed", "woken", "resolving", "admitted", "connected", "captured",
           "unwind", "handler", "gone"}
WithTicket == {"parked", "timed", "woken", "admitted", "unwind"}

\* The queue: what AdmissionSound and HeadHasDeadline say of it.
QueueInv ==
    /\ Distinct(m_waiters)
    /\ \A t \in Range(m_waiters) : pc[t] \in WithTicket
    /\ HeadHasDeadline
    /\ \A t \in Threads : pc[t] = "admitted" => IsHead(t)

\* Nobody but the reserved probe has its token, so nobody else can release it.
TokensOwn ==
    /\ \A t \in Threads : assigned[t].token <= admission_sequence
    /\ \A t, u \in Threads : assigned[t].token = assigned[u].token /\ assigned[t].token # 0 => t = u

GateInv ==
    /\ Reserved => /\ m_waiters # <<>>
                   /\ pc[Head(m_waiters)] \in {"admitted", "unwind"}
                   /\ assigned[Head(m_waiters)] = [token |-> m_reservation.token, key |-> m_reservation.key]
    /\ \A t \in Threads : pc[t] = "admitted" /\ assigned[t].key # NoReservation =>
         Reserved /\ m_reservation.token = assigned[t].token /\ m_reservation.key = assigned[t].key

AdmissionInv == PolicyInv /\ AdmissionTypeOK /\ QueueInv /\ TokensOwn /\ GateInv

LEMMA AdmissionInvInit == AdmissionInit => AdmissionInv
  <1>. SUFFICES ASSUME AdmissionInit PROVE AdmissionInv
    OBVIOUS
  <1>1. PolicyInv /\ ~Reserved /\ m_waiters = <<>> /\ Range(m_waiters) = {} /\ Len(m_waiters) = 0
    BY PolicyInvInit, SMT DEF AdmissionInit, PolicyInit, Reserved, Range
  <1>2. AdmissionTypeOK
    <2>1. None \in [token : 0..MaxToken, key : Policies \cup {NoReservation}]
      BY AdmissionAssumption, SMT DEF None
    <2>2. 0 \in 0..MaxToken
      BY AdmissionAssumption, SMT
    <2>3. m_waiters \in Seq(Threads) /\ threw \subseteq Threads
      BY <1>1, SMT DEF AdmissionInit
    <2>5. {stop, failed} \subseteq BOOLEAN
      BY DEF AdmissionInit
    <2>4. pc \in [Threads -> Places]
      BY DEF AdmissionInit, Places
    <2>. QED BY <2>1, <2>2, <2>3, <2>4, <2>5 DEF AdmissionInit, AdmissionTypeOK, Places
  <1>3. QueueInv /\ GateInv
    BY <1>1, SMT DEF AdmissionInit, QueueInv, GateInv, HeadHasDeadline, Distinct
  <1>4. TokensOwn
    BY SMT DEF AdmissionInit, TokensOwn, None
  <1>. QED BY <1>1, <1>2, <1>3, <1>4 DEF AdmissionInv

\* What the queue and the threads' control look like, as types.
LEMMA QueueTypes ==
  ASSUME AdmissionInv
  PROVE  /\ m_waiters \in Seq(Threads) /\ pc \in [Threads -> Places]
         /\ assigned \in [Threads -> [token : 0..MaxToken, key : Policies \cup {NoReservation}]]
         /\ Range(m_waiters) \subseteq Threads
         /\ m_waiters # <<>> => Head(m_waiters) \in Range(m_waiters) /\ Head(m_waiters) \in Threads
  <1>1. m_waiters \in Seq(Threads) /\ pc \in [Threads -> Places]
        /\ assigned \in [Threads -> [token : 0..MaxToken, key : Policies \cup {NoReservation}]]
    BY DEF AdmissionInv, AdmissionTypeOK, Places
  <1>2. Range(m_waiters) = {m_waiters[i] : i \in 1..Len(m_waiters)}
    BY <1>1, RangeEquality
  <1>3. ASSUME m_waiters # <<>> PROVE Head(m_waiters) = m_waiters[1] /\ 1 \in 1..Len(m_waiters)
    BY <1>1, <1>3, SMT
  <1>4. \A i \in 1..Len(m_waiters) : m_waiters[i] \in Threads
    BY <1>1, SMT
  <1>. QED BY <1>1, <1>2, <1>3, <1>4, SMT

\* What a step may do to a thread that keeps its ticket and its assignment.
Moves(u) ==
    \/ pc'[u] = pc[u]
    \/ pc[u] \in Waiting /\ pc'[u] = "woken"
    \/ /\ u \in Range(m_waiters) => pc'[u] \in WithTicket
       /\ IsHead(u) => pc'[u] # "parked"
       /\ pc'[u] # "admitted"
       /\ pc[u] \in {"admitted", "unwind"} => pc'[u] = "unwind"

\* Threads move, and the queue and the reservation stay as they are.
LEMMA MoveKeeps ==
  ASSUME AdmissionInv, UNCHANGED <<m_waiters, assigned, m_reservation>>,
         admission_sequence' \in Nat, admission_sequence' >= admission_sequence,
         \A u \in Threads : Moves(u)
  PROVE  QueueInv' /\ TokensOwn' /\ GateInv'
  <1>0. /\ Distinct(m_waiters) /\ (\A u \in Range(m_waiters) : pc[u] \in WithTicket) /\ HeadHasDeadline
        /\ \A u \in Threads : pc[u] = "admitted" => IsHead(u)
    BY DEF AdmissionInv, QueueInv
  <1>a. m_waiters' = m_waiters /\ assigned' = assigned /\ m_reservation' = m_reservation
    OBVIOUS
  <1>b. Range(m_waiters) \subseteq Threads /\ (m_waiters # <<>> => Head(m_waiters) \in Threads)
    BY QueueTypes
  <1>2. \A u \in Range(m_waiters) : pc'[u] \in WithTicket
    BY <1>0, <1>b DEF WithTicket, Moves
  <1>3. HeadHasDeadline'
    BY <1>0, <1>a, <1>b DEF HeadHasDeadline, IsHead, Moves
  <1>4. \A u \in Threads : pc'[u] = "admitted" => pc[u] = "admitted"
    BY DEF Moves
  <1>5. QueueInv'
    BY <1>0, <1>a, <1>2, <1>3, <1>4 DEF QueueInv, IsHead
  <1>6. TokensOwn'
    <2>1. \A u \in Threads : assigned[u].token <= admission_sequence /\ assigned[u].token \in Nat
      BY QueueTypes, AdmissionAssumption, SMT DEF AdmissionInv, TokensOwn
    <2>2. admission_sequence \in Nat
      BY AdmissionAssumption, SMT DEF AdmissionInv, AdmissionTypeOK
    <2>3. \A u \in Threads : assigned[u].token <= admission_sequence'
      BY <2>1, <2>2, SMT
    <2>. QED BY <2>3, <1>a DEF AdmissionInv, TokensOwn
  <1>7. GateInv'
    <2>1. ASSUME Reserved' PROVE pc'[Head(m_waiters)] \in {"admitted", "unwind"}
      <3>1. m_waiters # <<>> /\ pc[Head(m_waiters)] \in {"admitted", "unwind"}
        BY <2>1, <1>a DEF AdmissionInv, GateInv, Reserved
      <3>. QED BY <3>1, <1>b DEF Moves, Waiting
    <2>. QED BY <2>1, <1>a, <1>4 DEF AdmissionInv, GateInv, Reserved
  <1>. QED BY <1>5, <1>6, <1>7

\* notify_one: threads that wait become woken, and the others do not notice.
LEMMA NotifyMoves ==
  ASSUME NEW control \in [Threads -> Places], NEW ts, pc' = Notify(control, ts)
  PROVE  /\ pc' \in [Threads -> Places]
         /\ \A u \in Threads : pc'[u] = control[u] \/ (control[u] \in Waiting /\ pc'[u] = "woken")
  <1>1. "woken" \in Places
    BY DEF Places
  <1>. QED BY <1>1 DEF Notify

\* P2CFifoAdmission::Remove: the next head is told, and nobody else's place changes.
LEMMA RemoveKeeps ==
  ASSUME AdmissionInv, NEW t \in Threads, NEW to \in Places \ WithTicket, RemoveTicket(t, At(t, to))
  PROVE  /\ m_waiters' \in Seq(Threads) /\ pc' \in [Threads -> Places]
         /\ QueueInv'
         /\ pc'[t] = to
         /\ \A u \in Threads : u # t => pc'[u] = pc[u] \/ (pc[u] \in Waiting /\ pc'[u] = "woken")
         /\ m_waiters # <<>> /\ Head(m_waiters) # t => m_waiters' # <<>> /\ Head(m_waiters') = Head(m_waiters)
  <1>. DEFINE rest == EraseNode(m_waiters, t)
  <1>1. m_waiters' = rest /\ pc' = IF IsHead(t) THEN NotifyHead(At(t, to), rest) ELSE At(t, to)
    BY DEF RemoveTicket
  <1>2. /\ m_waiters \in Seq(Threads) /\ pc \in [Threads -> Places] /\ Distinct(m_waiters)
        /\ Range(m_waiters) \subseteq Threads
    BY QueueTypes DEF AdmissionInv, QueueInv
  <1>3. /\ rest \in Seq(Threads) /\ Distinct(rest) /\ Range(rest) = Range(m_waiters) \ {t}
        /\ m_waiters # <<>> /\ Head(m_waiters) # t => rest # <<>> /\ Head(rest) = Head(m_waiters)
    BY <1>2, EraseNodeDistinct, SMT
  <1>. HIDE DEF rest
  <1>4. rest # <<>> => Head(rest) \in Range(rest) /\ Head(rest) \in Threads /\ Head(rest) # t
    <2>1. Range(rest) = {rest[i] : i \in 1..Len(rest)}
      BY <1>3, RangeEquality
    <2>2. ASSUME rest # <<>> PROVE Head(rest) = rest[1] /\ 1 \in 1..Len(rest)
      BY <1>3, <2>2, SMT
    <2>. QED BY <2>1, <2>2, <1>2, <1>3
  <1>5. At(t, to) \in [Threads -> Places] /\ At(t, to)[t] = to /\ \A u \in Threads : u # t => At(t, to)[u] = pc[u]
    BY <1>2 DEF At
  <1>6. /\ pc' \in [Threads -> Places]
        /\ \A u \in Threads : \/ pc'[u] = At(t, to)[u]
                              \/ At(t, to)[u] \in Waiting /\ pc'[u] = "woken"
        /\ IsHead(t) /\ rest # <<>> => pc'[Head(rest)] # "parked"
    <2>1. CASE IsHead(t)
      <3>. DEFINE told == IF rest = <<>> THEN {} ELSE {Head(rest)}
      <3>1. pc' = [u \in Threads |-> IF u \in told /\ At(t, to)[u] \in Waiting THEN "woken" ELSE At(t, to)[u]]
        BY <2>1, <1>1 DEF NotifyHead, Notify
      <3>2. pc' \in [Threads -> Places]
        <4>1. "woken" \in Places
          BY DEF Places
        <4>. QED BY <3>1, <4>1, <1>5
      <3>3. \A u \in Threads : \/ pc'[u] = At(t, to)[u]
                               \/ At(t, to)[u] \in Waiting /\ pc'[u] = "woken"
        BY <3>1
      <3>4. ASSUME rest # <<>> PROVE pc'[Head(rest)] # "parked"
        BY <3>1, <3>4, <1>4 DEF Waiting
      <3>. QED BY <3>2, <3>3, <3>4
    <2>2. CASE ~IsHead(t)
      BY <2>2, <1>1, <1>5
    <2>. QED BY <2>1, <2>2
  <1>7. pc'[t] = to
    BY <1>5, <1>6 DEF Waiting, WithTicket
  <1>8. \A u \in Threads : u # t => pc'[u] = pc[u] \/ (pc[u] \in Waiting /\ pc'[u] = "woken")
    BY <1>5, <1>6
  <1>9. QueueInv'
    <2>1. \A u \in Range(m_waiters') : pc'[u] \in WithTicket
      BY <1>1, <1>2, <1>3, <1>8 DEF AdmissionInv, QueueInv, WithTicket
    <2>2. HeadHasDeadline'
      <3>1. CASE IsHead(t)
        BY <3>1, <1>1, <1>6 DEF HeadHasDeadline
      <3>2. CASE ~IsHead(t)
        <4>. SUFFICES ASSUME rest # <<>> PROVE pc'[Head(rest)] # "parked"
          BY <1>1 DEF HeadHasDeadline
        <4>1. m_waiters # <<>>
          <5>1. m_waiters = <<>> => Range(m_waiters) = {}
            BY SMT DEF Range
          <5>. QED BY <5>1, <1>3, <1>4
        <4>2. Head(rest) = Head(m_waiters) /\ pc[Head(m_waiters)] # "parked"
          BY <3>2, <4>1, <1>3 DEF IsHead, AdmissionInv, QueueInv, HeadHasDeadline
        <4>. QED BY <4>2, <1>4, <1>8
      <3>. QED BY <3>1, <3>2
    <2>3. \A u \in Threads : pc'[u] = "admitted" => IsHead(u)'
      <3>. SUFFICES ASSUME NEW u \in Threads, pc'[u] = "admitted" PROVE IsHead(u)'
        OBVIOUS
      <3>1. u # t /\ pc[u] = "admitted"
        BY <1>7, <1>8 DEF WithTicket
      <3>2. m_waiters # <<>> /\ Head(m_waiters) = u
        BY <3>1 DEF AdmissionInv, QueueInv, IsHead
      <3>. QED BY <3>1, <3>2, <1>1, <1>3 DEF IsHead
    <2>. QED BY <2>1, <2>2, <2>3, <1>1, <1>3 DEF QueueInv
  <1>. QED BY <1>1, <1>3, <1>6, <1>7, <1>8, <1>9

\* A thread gives its ticket back, and its reservation if it holds it.
LEMMA LeaveKeeps ==
  ASSUME AdmissionInv, NEW t \in Threads, NEW to \in Places \ WithTicket, RemoveTicket(t, At(t, to)),
         m_reservation' = IF ReservedFor(assigned[t].token) THEN NoReservation ELSE m_reservation,
         \A u \in Threads : u # t => assigned'[u] = assigned[u],
         assigned'[t] \in {assigned[t], None}, UNCHANGED admission_sequence
  PROVE  QueueInv' /\ TokensOwn' /\ GateInv'
  <1>. DEFINE first == Head(m_waiters)
  <1>1. /\ QueueInv' /\ pc'[t] = to
        /\ \A u \in Threads : u # t => pc'[u] = pc[u] \/ (pc[u] \in Waiting /\ pc'[u] = "woken")
        /\ m_waiters # <<>> /\ first # t => m_waiters' # <<>> /\ Head(m_waiters') = first
    BY RemoveKeeps
  <1>2. Reserved => /\ m_waiters # <<>> /\ first \in Threads
                    /\ pc[first] \in {"admitted", "unwind"}
                    /\ assigned[first] = [token |-> m_reservation.token, key |-> m_reservation.key]
                    /\ m_reservation.token # 0
    <2>1. Reserved => m_reservation.token \in 1..MaxToken
      BY AdmissionAssumption DEF AdmissionInv, PolicyInv, PolicyTypes
    <2>. QED BY <2>1, QueueTypes, AdmissionAssumption, SMT DEF AdmissionInv, GateInv
  <1>. HIDE DEF first
  <1>3. TokensOwn'
    <2>1. /\ \A u \in Threads : assigned[u].token <= admission_sequence
          /\ \A u, v \in Threads : assigned[u].token = assigned[v].token /\ assigned[u].token # 0 => u = v
      BY DEF AdmissionInv, TokensOwn
    <2>2. \A u \in Threads : assigned'[u] = assigned[u] \/ assigned'[u].token = 0
      BY SMT DEF None
    <2>3. admission_sequence' = admission_sequence /\ 0 <= admission_sequence
      BY AdmissionAssumption, SMT DEF AdmissionInv, AdmissionTypeOK
    <2>. QED BY <2>1, <2>2, <2>3, SMT DEF TokensOwn
  <1>4. ASSUME Reserved' PROVE Reserved /\ m_reservation' = m_reservation /\ first # t
    <2>1. m_reservation' = m_reservation /\ Reserved /\ ~ReservedFor(assigned[t].token)
      BY <1>4 DEF Reserved
    <2>. QED BY <2>1, <1>2, SMT DEF ReservedFor
  <1>5. ASSUME Reserved' PROVE /\ m_waiters' # <<>> /\ Head(m_waiters') = first
                               /\ pc'[first] \in {"admitted", "unwind"}
                               /\ assigned'[first] = assigned[first]
    BY <1>1, <1>2, <1>4, <1>5 DEF Waiting
  <1>6. ASSUME NEW u \in Threads, pc'[u] = "admitted", assigned'[u].key # NoReservation
        PROVE  Reserved' /\ m_reservation'.token = assigned'[u].token /\ m_reservation'.key = assigned'[u].key
    <2>1. u # t /\ pc[u] = "admitted" /\ assigned'[u] = assigned[u]
      BY <1>1, <1>6 DEF WithTicket
    <2>2. Reserved /\ m_reservation.token = assigned[u].token /\ m_reservation.key = assigned[u].key
      BY <1>6, <2>1 DEF AdmissionInv, GateInv
    <2>3. assigned[t].token # assigned[u].token
      BY <1>2, <2>1, <2>2 DEF AdmissionInv, TokensOwn
    <2>4. m_reservation' = m_reservation
      BY <2>2, <2>3 DEF ReservedFor
    <2>. QED BY <2>1, <2>2, <2>4 DEF Reserved
  <1>7. GateInv'
    BY <1>2, <1>4, <1>5, <1>6 DEF GateInv
  <1>. QED BY <1>1, <1>3, <1>7

\* The step of a thread and of the coordinator, as the recovery gate sees it: one
\* of its calls, or nothing.  A thread without an assignment has token 0, which
\* never holds the reservation.
LEMMA AdmissionStepsPolicy ==
  ASSUME AdmissionInv, [AdmissionNext]_admissionVars
  PROVE  [PolicyNext]_policyVars
  <1>0. /\ Tokens = 1..MaxToken /\ MaxToken \in Nat /\ admission_sequence \in 0..MaxToken
        /\ \A t \in Threads : assigned[t].token \in 0..MaxToken /\ assigned[t].key \in Policies \cup {NoReservation}
        /\ Reserved => m_reservation.token \in Tokens
    BY QueueTypes, AdmissionAssumption DEF AdmissionInv, AdmissionTypeOK, PolicyInv, PolicyTypes
  <1>1. ASSUME NEW t \in Threads, Release(assigned[t].token) PROVE [PolicyNext]_policyVars
    <2>1. CASE assigned[t].token \in Tokens
      BY <1>1, <2>1 DEF PolicyNext
    <2>2. CASE assigned[t].token = 0
      <3>1. ~ReservedFor(0)
        BY <1>0, SMT DEF ReservedFor
      <3>. QED BY <1>1, <2>2, <3>1 DEF Release, policyVars
    <2>. QED BY <1>0, <2>1, <2>2, SMT
  <1>2. ASSUME NEW t \in Threads, AssignConnection(t) PROVE [PolicyNext]_policyVars
    <2>1. admission_sequence' \in Tokens
      <3>1. admission_sequence' = admission_sequence + 1 /\ admission_sequence < MaxToken
        BY <1>2 DEF AssignConnection, TokenLeft
      <3>. QED BY <1>0, <3>1, SMT
    <2>. QED BY <1>2, <2>1 DEF AssignConnection, PolicyNext
  <1>3. ASSUME NEW t \in Threads, TcpStarted(t) PROVE [PolicyNext]_policyVars
    <2>1. CASE assigned[t].key = NoReservation
      BY <1>3, <2>1 DEF TcpStarted
    <2>2. CASE assigned[t].key # NoReservation
      <3>1. PICK now \in Times : Started(assigned[t].key, assigned[t].token, now)
        BY <1>3, <2>2 DEF TcpStarted
      <3>2. assigned[t].token \in Tokens /\ assigned[t].key \in Policies
        BY <1>0, <2>2, <3>1 DEF Started, ReservedFor
      <3>. QED BY <3>1, <3>2 DEF PolicyNext
    <2>. QED BY <2>1, <2>2
  <1>4. ASSUME NEW t \in Threads, ThreadStep(t) PROVE [PolicyNext]_policyVars
    <2>1. CASE AssignConnection(t) \/ TcpStarted(t)
      BY <2>1, <1>2, <1>3
    <2>2. CASE Captured(t) \/ ReleaseAdmission(t)
      BY <2>2, <1>1 DEF Captured, ReleaseAdmission
    <2>3. CASE ProbeRefused(t)
      BY <2>3 DEF ProbeRefused, PolicyNext
    <2>4. CASE Enqueue(t) \/ AssignResolve(t) \/ Throws(t) \/ Handler(t)
      BY <2>4 DEF Enqueue, AssignResolve, Throws, Handler
    <2>5. CASE Wait(t) \/ Resolved(t) \/ NotCaptured(t) \/ LocalUnavailable(t) \/ Evaluated(t) \/ Leave(t)
      BY <2>5 DEF Wait, Resolved, NotCaptured, LocalUnavailable, Evaluated, Leave, ElseUnchanged
    <2>. QED BY <1>4, <2>1, <2>2, <2>3, <2>4, <2>5 DEF ThreadStep
  <1>5. CASE Refresh
    BY <1>5 DEF Refresh, PolicyNext
  <1>6. CASE \/ \E t \in Threads : StartThread(t)
             \/ EndRun \/ EndRunNotify \/ JoinThreads \/ StopUnlocked \/ StopUnlockedNotify
    BY <1>6 DEF StartThread, ElseUnchanged, EndRun, EndRunNotify, JoinThreads, StopUnlocked, StopUnlockedNotify
  <1>7. CASE UNCHANGED admissionVars
    BY <1>7 DEF admissionVars
  <1>. QED BY <1>4, <1>5, <1>6, <1>7 DEF AdmissionNext

-----------------------------------------------------------------------------
(* Every step keeps the invariant.                                         *)

\* One thread moves on its own.
LEMMA AtMoves ==
  ASSUME pc \in [Threads -> Places], NEW t \in Threads, NEW to \in Places
  PROVE  /\ At(t, to) \in [Threads -> Places] /\ At(t, to)[t] = to
         /\ \A u \in Threads : u # t => At(t, to)[u] = pc[u]
  BY DEF At

\* The steps that change the threads' control and neither queue nor reservation.
LEMMA QuietStepsKeep ==
  ASSUME AdmissionInv, NEW t \in Threads, ElseUnchanged,
         \/ Wait(t) \/ Resolved(t) \/ NotCaptured(t) \/ LocalUnavailable(t)
         \/ Evaluated(t) \/ Leave(t) \/ StartThread(t)
  PROVE  AdmissionTypeOK' /\ QueueInv' /\ TokensOwn' /\ GateInv'
  <1>0. /\ pc \in [Threads -> Places] /\ AdmissionTypeOK /\ (\A u \in Range(m_waiters) : pc[u] \in WithTicket)
        /\ admission_sequence \in Nat
    BY QueueTypes, AdmissionAssumption, SMT DEF AdmissionInv, QueueInv, AdmissionTypeOK
  <1>1. UNCHANGED <<m_waiters, assigned, m_reservation, threw, admission_sequence, stop, failed, coordinator, stopper>>
    BY DEF ElseUnchanged, policyVars, controlVars
  <1>2. pc' \in [Threads -> Places] /\ \A u \in Threads : Moves(u)
    <2>1. CASE Wait(t)
      <3>. DEFINE to == IF cancelled THEN "unwind" ELSE IF IsHead(t) THEN "timed" ELSE "parked"
      <3>1. pc' = At(t, to) /\ pc[t] \in {"parked", "timed", "woken"}
        BY <2>1 DEF Wait, Waits, Waiting
      <3>2. to \in Places /\ to \in WithTicket /\ (IsHead(t) => to # "parked") /\ to # "admitted"
        BY DEF Places, WithTicket
      <3>. HIDE DEF to
      <3>. QED BY <3>1, <3>2, <1>0, AtMoves, SMT DEF Moves
    <2>2. ASSUME pc[t] \in {"resolving", "captured"}, pc' = NotifyHead(At(t, "unwind"), m_waiters) \/ pc' = At(t, "unwind")
          PROVE  pc' \in [Threads -> Places] /\ \A u \in Threads : Moves(u)
      <3>1. "unwind" \in Places /\ t \notin Range(m_waiters) /\ pc[t] # "admitted" /\ pc[t] # "unwind" /\ "unwind" # "admitted"
        BY <2>2, <1>0 DEF Places, WithTicket
      <3>2. ~IsHead(t)
        BY <3>1, QueueTypes DEF IsHead
      <3>3. /\ At(t, "unwind") \in [Threads -> Places] /\ At(t, "unwind")[t] = "unwind"
            /\ \A u \in Threads : u # t => At(t, "unwind")[u] = pc[u]
        BY <1>0, <3>1, AtMoves, SMT
      <3>4. /\ pc' \in [Threads -> Places]
            /\ \A u \in Threads : \/ pc'[u] = At(t, "unwind")[u]
                                  \/ At(t, "unwind")[u] \in Waiting /\ pc'[u] = "woken"
        BY <2>2, <3>3, NotifyMoves DEF NotifyHead
      <3>. QED BY <3>1, <3>2, <3>3, <3>4 DEF Moves, Waiting
    <2>3. CASE Resolved(t) \/ Evaluated(t)
      BY <2>2, <2>3 DEF Resolved, Evaluated
    <2>4. CASE NotCaptured(t)
      <3>1. pc[t] = "admitted" /\ pc' = At(t, "unwind") /\ "unwind" \in Places /\ "unwind" \in WithTicket
        BY <2>4 DEF NotCaptured, Places, WithTicket
      <3>. QED BY <3>1, <1>0, AtMoves, SMT DEF Moves
    <2>5. CASE LocalUnavailable(t)
      BY <2>5, <1>0, NotifyMoves DEF LocalUnavailable, NotifyHead, Moves
    <2>6. ASSUME pc[t] \in {"loop", "unborn"}, NEW to \in {"gone", "loop"}, pc' = At(t, to)
          PROVE  pc' \in [Threads -> Places] /\ \A u \in Threads : Moves(u)
      <3>1. to \in Places /\ t \notin Range(m_waiters) /\ to # "admitted" /\ pc[t] # "admitted" /\ pc[t] # "unwind"
        BY <2>6, <1>0 DEF Places, WithTicket
      <3>2. ~IsHead(t)
        BY <3>1, QueueTypes DEF IsHead
      <3>. QED BY <2>6, <3>1, <3>2, <1>0, AtMoves, SMT DEF Moves
    <2>7. CASE Leave(t) \/ StartThread(t)
      BY <2>6, <2>7 DEF Leave, StartThread
    <2>. QED BY <2>1, <2>3, <2>4, <2>5, <2>7
  <1>3. QueueInv' /\ TokensOwn' /\ GateInv'
    BY <1>0, <1>1, <1>2, MoveKeeps, SMT
  <1>4. AdmissionTypeOK'
    BY <1>0, <1>1, <1>2 DEF AdmissionTypeOK, Places
  <1>. QED BY <1>3, <1>4

\* Enqueue: the new ticket is the last one, and its thread is awake.
LEMMA EnqueueKeeps ==
  ASSUME AdmissionInv, NEW t \in Threads, Enqueue(t)
  PROVE  AdmissionTypeOK' /\ QueueInv' /\ TokensOwn' /\ GateInv'
  <1>0. /\ pc \in [Threads -> Places] /\ m_waiters \in Seq(Threads) /\ Range(m_waiters) \subseteq Threads
        /\ AdmissionTypeOK /\ Distinct(m_waiters) /\ (\A u \in Range(m_waiters) : pc[u] \in WithTicket)
        /\ m_waiters # <<>> => Head(m_waiters) \in Threads /\ Head(m_waiters) \in Range(m_waiters)
    BY QueueTypes DEF AdmissionInv, QueueInv
  <1>1. /\ pc[t] = "loop" /\ m_waiters' = Append(m_waiters, t) /\ pc' = At(t, "woken")
        /\ UNCHANGED <<assigned, m_reservation, threw, admission_sequence, stop, failed, coordinator, stopper>>
    BY DEF Enqueue, policyVars, controlVars
  <1>2. t \notin Range(m_waiters)
    BY <1>0, <1>1 DEF WithTicket
  <1>3. Distinct(m_waiters') /\ Range(m_waiters') = Range(m_waiters) \cup {t} /\ m_waiters' \in Seq(Threads)
    BY <1>0, <1>1, <1>2, AppendDistinct, SMT
  <1>4. m_waiters' # <<>> /\ Head(m_waiters') = IF m_waiters = <<>> THEN t ELSE Head(m_waiters)
    BY <1>0, <1>1, SMT
  <1>5. /\ pc' \in [Threads -> Places] /\ pc'[t] = "woken"
        /\ \A u \in Threads : u # t => pc'[u] = pc[u]
    <2>1. "woken" \in Places
      BY DEF Places
    <2>. QED BY <1>0, <1>1, <2>1, AtMoves, SMT
  <1>6. QueueInv'
    <2>1. \A u \in Range(m_waiters') : pc'[u] \in WithTicket
      BY <1>0, <1>3, <1>5 DEF WithTicket
    <2>2. HeadHasDeadline'
      BY <1>0, <1>2, <1>4, <1>5 DEF HeadHasDeadline, AdmissionInv, QueueInv
    <2>3. \A u \in Threads : pc'[u] = "admitted" => IsHead(u)'
      BY <1>4, <1>5 DEF IsHead, AdmissionInv, QueueInv
    <2>. QED BY <1>3, <2>1, <2>2, <2>3 DEF QueueInv
  <1>7. TokensOwn'
    BY <1>1 DEF AdmissionInv, TokensOwn
  <1>8. GateInv'
    <2>1. Reserved' = Reserved /\ m_reservation' = m_reservation /\ assigned' = assigned
      BY <1>1 DEF Reserved
    <2>2. Reserved => m_waiters # <<>>
      BY DEF AdmissionInv, GateInv
    <2>3. Reserved => Head(m_waiters') = Head(m_waiters) /\ pc'[Head(m_waiters)] = pc[Head(m_waiters)]
      BY <2>2, <1>0, <1>2, <1>4, <1>5
    <2>4. \A u \in Threads : pc'[u] = "admitted" => pc[u] = "admitted"
      BY <1>5
    <2>. QED BY <2>1, <2>2, <2>3, <2>4, <1>4 DEF AdmissionInv, GateInv
  <1>9. AdmissionTypeOK'
    BY <1>0, <1>1, <1>3, <1>5 DEF AdmissionTypeOK, Places
  <1>. QED BY <1>6, <1>7, <1>8, <1>9

\* The head that is about to get work holds no reservation: nobody does.
LEMMA TurnFree ==
  ASSUME AdmissionInv, NEW t \in Threads, MyTurn(t)
  PROVE  /\ ~Reserved /\ m_waiters # <<>> /\ Head(m_waiters) = t
         /\ \A u \in Threads : pc[u] # "admitted"
  <1>1. m_waiters # <<>> /\ Head(m_waiters) = t /\ pc[t] \in {"parked", "timed", "woken"}
    BY DEF MyTurn, IsHead, Waits, Waiting
  <1>2. ~Reserved
    BY <1>1 DEF AdmissionInv, GateInv
  <1>3. \A u \in Threads : pc[u] # "admitted"
    BY <1>1 DEF AdmissionInv, QueueInv, IsHead
  <1>. QED BY <1>1, <1>2, <1>3

\* Next admits the head: it gets a number nobody had, and the reservation or none.
LEMMA AssignKeeps ==
  ASSUME AdmissionInv, NEW t \in Threads, AssignConnection(t)
  PROVE  AdmissionTypeOK' /\ QueueInv' /\ TokensOwn' /\ GateInv'
  <1>. DEFINE n == admission_sequence + 1
  <1>0. /\ pc \in [Threads -> Places] /\ AdmissionTypeOK /\ Distinct(m_waiters)
        /\ (\A u \in Range(m_waiters) : pc[u] \in WithTicket)
        /\ assigned \in [Threads -> [token : 0..MaxToken, key : Policies \cup {NoReservation}]]
        /\ (m_waiters # <<>> => Head(m_waiters) \in Threads) /\ Range(m_waiters) \subseteq Threads
    BY QueueTypes DEF AdmissionInv, QueueInv
  <1>1. /\ ~Reserved /\ m_waiters # <<>> /\ Head(m_waiters) = t
        /\ \A u \in Threads : pc[u] # "admitted"
    BY TurnFree DEF AssignConnection
  <1>2. /\ admission_sequence' = n /\ pc' = At(t, "admitted")
        /\ UNCHANGED <<m_waiters, threw, stop, failed, coordinator, stopper>>
    BY DEF AssignConnection, controlVars
  <1>3. n \in 1..MaxToken /\ admission_sequence \in Nat /\ n \in Nat /\ n > admission_sequence
    BY <1>0, AdmissionAssumption, SMT DEF AssignConnection, TokenLeft, AdmissionTypeOK
  <1>. HIDE DEF n
  <1>4. PICK key \in Policies \cup {NoReservation} :
          /\ assigned' = [assigned EXCEPT ![t] = [token |-> n, key |-> key]]
          /\ \/ key = NoReservation /\ UNCHANGED m_reservation
             \/ key \in Policies /\ m_reservation' = [key |-> key, token |-> n]
    BY <1>2 DEF AssignConnection, policyVars, Reserve
  <1>5. /\ assigned' \in [Threads -> [token : 0..MaxToken, key : Policies \cup {NoReservation}]]
        /\ assigned'[t] = [token |-> n, key |-> key]
        /\ \A u \in Threads : u # t => assigned'[u] = assigned[u]
    <2>1. [token |-> n, key |-> key] \in [token : 0..MaxToken, key : Policies \cup {NoReservation}]
      BY <1>3, AdmissionAssumption, SMT
    <2>. QED BY <1>0, <1>4, <2>1
  <1>6. /\ pc' \in [Threads -> Places] /\ pc'[t] = "admitted"
        /\ \A u \in Threads : u # t => pc'[u] = pc[u]
    <2>1. "admitted" \in Places
      BY DEF Places
    <2>. QED BY <1>0, <1>2, <2>1, AtMoves, SMT
  <1>7. QueueInv'
    <2>1. \A u \in Range(m_waiters) : pc'[u] \in WithTicket
      BY <1>0, <1>6 DEF WithTicket
    <2>2. \A u \in Threads : pc'[u] = "admitted" => u = t
      BY <1>1, <1>6
    <2>. QED BY <1>0, <1>1, <1>2, <1>6, <2>1, <2>2 DEF QueueInv, HeadHasDeadline, IsHead
  <1>8. TokensOwn'
    <2>1. /\ \A u \in Threads : assigned[u].token <= admission_sequence /\ assigned[u].token \in Nat
          /\ \A u, v \in Threads : assigned[u].token = assigned[v].token /\ assigned[u].token # 0 => u = v
      BY <1>0, AdmissionAssumption, SMT DEF AdmissionInv, TokensOwn
    <2>2. \A u \in Threads : u # t => assigned'[u].token < n
      BY <1>3, <1>5, <2>1, SMT
    <2>3. \A u \in Threads : assigned'[u].token <= n
      BY <1>3, <1>5, <2>2, <2>1, SMT
    <2>4. assigned'[t].token = n
      BY <1>5, SMT
    <2>5. \A u, v \in Threads : assigned'[u].token = assigned'[v].token /\ assigned'[u].token # 0 => u = v
      <3>. SUFFICES ASSUME NEW u \in Threads, NEW v \in Threads, assigned'[u].token = assigned'[v].token,
                           assigned'[u].token # 0
                    PROVE  u = v
        OBVIOUS
      <3>1. CASE u # t /\ v # t
        BY <3>1, <1>5, <2>1, SMT
      <3>2. CASE u = t
        BY <3>2, <2>2, <2>4, <1>3, SMT
      <3>3. CASE v = t
        BY <3>3, <2>2, <2>4, <1>3, SMT
      <3>. QED BY <3>1, <3>2, <3>3
    <2>. QED BY <2>3, <2>5, <1>2 DEF TokensOwn
  <1>9. GateInv'
    <2>1. CASE key = NoReservation
      <3>1. ~Reserved' /\ assigned'[t].key = NoReservation
        BY <2>1, <1>1, <1>4, <1>5, AdmissionAssumption DEF Reserved
      <3>. QED BY <3>1, <1>1, <1>6 DEF GateInv
    <2>2. CASE key \in Policies
      <3>1. m_reservation' = [key |-> key, token |-> n]
        BY <2>2, <1>4, AdmissionAssumption
      <3>2. Reserved'
        BY <2>2, <3>1, <1>3, AdmissionAssumption, SMT DEF Reserved
      <3>3. m_reservation'.key = key /\ m_reservation'.token = n
        BY <3>1
      <3>. QED BY <3>2, <3>3, <1>1, <1>2, <1>5, <1>6, SMT DEF GateInv
    <2>. QED BY <2>1, <2>2
  <1>10. AdmissionTypeOK'
    <2>1. n \in 0..MaxToken
      BY <1>3, AdmissionAssumption, SMT
    <2>. QED BY <1>0, <1>2, <1>5, <1>6, <2>1 DEF AdmissionTypeOK, Places
  <1>. QED BY <1>7, <1>8, <1>9, <1>10

\* Every way out of the queue gives the reservation back if the thread has it.
LEMMA LeavingStepsKeep ==
  ASSUME AdmissionInv, NEW t \in Threads,
         AssignResolve(t) \/ TcpStarted(t) \/ Captured(t) \/ ReleaseAdmission(t)
  PROVE  AdmissionTypeOK' /\ QueueInv' /\ TokensOwn' /\ GateInv'
  <1>. DEFINE out == IF AssignResolve(t) THEN "resolving" ELSE
                     IF TcpStarted(t) THEN "connected" ELSE
                     IF Captured(t) THEN "captured" ELSE
                     IF t \in threw THEN "handler" ELSE "loop"
  <1>1. out \in Places \ WithTicket /\ RemoveTicket(t, At(t, out))
    BY DEF Places, WithTicket, AssignResolve, TcpStarted, Captured, ReleaseAdmission
  <1>. HIDE DEF out
  <1>2. UNCHANGED <<threw, admission_sequence, stop, failed, coordinator, stopper>>
    BY DEF AssignResolve, TcpStarted, Captured, ReleaseAdmission, controlVars
  <1>3. m_reservation' = IF ReservedFor(assigned[t].token) THEN NoReservation ELSE m_reservation
    <2>1. CASE AssignResolve(t)
      BY <2>1, TurnFree DEF AssignResolve, policyVars, ReservedFor
    <2>2. CASE TcpStarted(t)
      <3>1. CASE assigned[t].key = NoReservation
        <4>1. IsHead(t)
          BY <2>2 DEF TcpStarted, AdmissionInv, QueueInv
        <4>2. ~Reserved
          <5>1. Reserved => m_reservation.key \in Policies
            BY DEF AdmissionInv, PolicyInv, PolicyTypes
          <5>2. Reserved => assigned[t].key = m_reservation.key
            BY <4>1, SMT DEF AdmissionInv, GateInv, IsHead
          <5>. QED BY <3>1, <5>1, <5>2, AdmissionAssumption
        <4>. QED BY <2>2, <3>1, <4>2 DEF TcpStarted, policyVars, ReservedFor
      <3>2. CASE assigned[t].key # NoReservation
        BY <2>2, <3>2 DEF TcpStarted, Started
      <3>. QED BY <3>1, <3>2
    <2>3. CASE Captured(t) \/ ReleaseAdmission(t)
      BY <2>3 DEF Captured, ReleaseAdmission, Release
    <2>. QED BY <2>1, <2>2, <2>3
  <1>4. /\ assigned' \in [Threads -> [token : 0..MaxToken, key : Policies \cup {NoReservation}]]
        /\ assigned'[t] \in {assigned[t], None}
        /\ \A u \in Threads : u # t => assigned'[u] = assigned[u]
    <2>1. assigned \in [Threads -> [token : 0..MaxToken, key : Policies \cup {NoReservation}]]
      BY QueueTypes
    <2>2. assigned' = assigned \/ assigned' = [assigned EXCEPT ![t] = None]
      BY DEF AssignResolve, TcpStarted, Captured, ReleaseAdmission
    <2>3. None \in [token : 0..MaxToken, key : Policies \cup {NoReservation}]
      BY AdmissionAssumption, SMT DEF None
    <2>. QED BY <2>1, <2>2, <2>3
  <1>5. QueueInv' /\ TokensOwn' /\ GateInv'
    BY <1>1, <1>2, <1>3, <1>4, LeaveKeeps
  <1>6. m_waiters' \in Seq(Threads) /\ pc' \in [Threads -> Places]
    BY <1>1, RemoveKeeps
  <1>7. AdmissionTypeOK'
    BY <1>2, <1>4, <1>6 DEF AdmissionInv, AdmissionTypeOK, Places
  <1>. QED BY <1>5, <1>7

\* The thread's other steps, and those of the coordinator and of StopUnlocked.
LEMMA OtherStepsKeep ==
  ASSUME AdmissionInv,
         \/ \E t \in Threads : ProbeRefused(t) \/ Throws(t) \/ Handler(t)
         \/ Refresh \/ EndRun \/ EndRunNotify \/ JoinThreads \/ StopUnlocked \/ StopUnlockedNotify
         \/ UNCHANGED admissionVars
  PROVE  AdmissionTypeOK' /\ QueueInv' /\ TokensOwn' /\ GateInv'
  <1>0. /\ pc \in [Threads -> Places] /\ AdmissionTypeOK /\ (\A u \in Range(m_waiters) : pc[u] \in WithTicket)
        /\ admission_sequence \in 0..MaxToken /\ MaxToken \in Nat
        /\ stop \in BOOLEAN /\ failed \in BOOLEAN
    BY QueueTypes, AdmissionAssumption DEF AdmissionInv, QueueInv, AdmissionTypeOK
  <1>1. UNCHANGED <<m_waiters, assigned, m_reservation>>
    BY DEF ProbeRefused, ReserveRefused, Due, Throws, Handler, Refresh, Retain, Keep, EndRun, EndRunNotify, JoinThreads,
           StopUnlocked, StopUnlockedNotify, admissionVars, policyVars, threadVars
  <1>2. admission_sequence' \in 0..MaxToken /\ admission_sequence' >= admission_sequence
    <2>1. \/ admission_sequence' = admission_sequence
          \/ admission_sequence' = admission_sequence + 1 /\ admission_sequence < MaxToken
      BY DEF ProbeRefused, TokenLeft, Throws, Handler, Refresh, EndRun, EndRunNotify, JoinThreads,
           StopUnlocked, StopUnlockedNotify, admissionVars, threadVars
    <2>. QED BY <1>0, <2>1, SMT
  <1>3. /\ threw' \subseteq Threads /\ stop' \in BOOLEAN /\ failed' \in BOOLEAN
        /\ coordinator' \in {"run", "notify", "join", "done"} /\ stopper' \in {"idle", "notify", "join"}
    <2>1. /\ threw \subseteq Threads
          /\ coordinator \in {"run", "notify", "join", "done"} /\ stopper \in {"idle", "notify", "join"}
      BY <1>0 DEF AdmissionTypeOK
    <2>2. threw' = threw \/ \E t \in Threads : threw' = threw \cup {t}
      BY DEF ProbeRefused, Throws, Handler, Refresh, EndRun, EndRunNotify, JoinThreads,
           StopUnlocked, StopUnlockedNotify, admissionVars, threadVars
    <2>3. (stop' = stop \/ stop' = TRUE) /\ (failed' = failed \/ failed' = TRUE)
      BY DEF ProbeRefused, Throws, Handler, Refresh, EndRun, EndRunNotify, JoinThreads,
           StopUnlocked, StopUnlockedNotify, admissionVars, controlVars
    <2>4. /\ coordinator' \in {coordinator, "notify", "join", "done"}
          /\ stopper' \in {stopper, "notify", "join"}
      BY DEF ProbeRefused, Throws, Handler, Refresh, EndRun, EndRunNotify, JoinThreads,
           StopUnlocked, StopUnlockedNotify, admissionVars, controlVars
    <2>. QED BY <1>0, <2>1, <2>2, <2>3, <2>4
  <1>4. pc' \in [Threads -> Places] /\ \A u \in Threads : Moves(u)
    <2>1. ASSUME NEW t \in Threads, ProbeRefused(t) PROVE pc' \in [Threads -> Places] /\ \A u \in Threads : Moves(u)
      <3>1. pc' = At(t, "woken") /\ pc[t] \in {"parked", "timed", "woken"} /\ "woken" \in Places /\ "woken" \in WithTicket
        BY <2>1 DEF ProbeRefused, MyTurn, Waits, Waiting, Places, WithTicket
      <3>. QED BY <3>1, <1>0, AtMoves, SMT DEF Moves
    <2>2. ASSUME NEW t \in Threads, Throws(t) PROVE pc' \in [Threads -> Places] /\ \A u \in Threads : Moves(u)
      <3>1. pc' = At(t, "unwind") /\ "unwind" \in Places /\ "unwind" \in WithTicket
        BY <2>2 DEF Throws, Places, WithTicket
      <3>. QED BY <3>1, <1>0, AtMoves, SMT DEF Moves
    <2>3. ASSUME NEW t \in Threads, Handler(t) PROVE pc' \in [Threads -> Places] /\ \A u \in Threads : Moves(u)
      <3>1. pc[t] = "handler" /\ pc' = Notify(At(t, "gone"), Range(m_waiters))
        BY <2>3 DEF Handler, NotifyAll
      <3>2. "gone" \in Places /\ t \notin Range(m_waiters)
        BY <3>1, <1>0 DEF Places, WithTicket
      <3>3. ~IsHead(t)
        BY <3>2, QueueTypes DEF IsHead
      <3>4. /\ At(t, "gone") \in [Threads -> Places] /\ At(t, "gone")[t] = "gone"
            /\ \A u \in Threads : u # t => At(t, "gone")[u] = pc[u]
        BY <3>2, <1>0, AtMoves, SMT
      <3>5. /\ pc' \in [Threads -> Places]
            /\ \A u \in Threads : \/ pc'[u] = At(t, "gone")[u]
                                  \/ At(t, "gone")[u] \in Waiting /\ pc'[u] = "woken"
        BY <3>1, <3>4, NotifyMoves
      <3>. QED BY <3>1, <3>2, <3>3, <3>4, <3>5 DEF Moves, Waiting
    <2>4. CASE Refresh \/ EndRunNotify \/ StopUnlockedNotify
      <3>1. PICK ts : pc' = Notify(pc, ts)
        BY <2>4 DEF Refresh, EndRunNotify, StopUnlockedNotify, NotifyHead, NotifyAll
      <3>. QED BY <3>1, <1>0, NotifyMoves DEF Moves
    <2>5. CASE EndRun \/ JoinThreads \/ StopUnlocked \/ UNCHANGED admissionVars
      BY <2>5, <1>0 DEF EndRun, JoinThreads, StopUnlocked, admissionVars, threadVars, Moves
    <2>. QED BY <2>1, <2>2, <2>3, <2>4, <2>5
  <1>5. QueueInv' /\ TokensOwn' /\ GateInv'
    <2>1. admission_sequence' \in Nat
      BY <1>0, <1>2, SMT
    <2>. QED BY <2>1, <1>1, <1>2, <1>4, MoveKeeps
  <1>6. AdmissionTypeOK'
    BY <1>0, <1>1, <1>2, <1>3, <1>4 DEF AdmissionTypeOK, Places
  <1>. QED BY <1>5, <1>6

LEMMA AdmissionInvNext == AdmissionInv /\ [AdmissionNext]_admissionVars => AdmissionInv'
  <1>. SUFFICES ASSUME AdmissionInv, [AdmissionNext]_admissionVars PROVE AdmissionInv'
    OBVIOUS
  <1>1. PolicyInv'
    BY AdmissionStepsPolicy, PolicyInvNext DEF AdmissionInv
  <1>2. AdmissionTypeOK' /\ QueueInv' /\ TokensOwn' /\ GateInv'
    <2>1. ASSUME NEW t \in Threads,
                 \/ Wait(t) \/ Resolved(t) \/ NotCaptured(t) \/ LocalUnavailable(t)
                 \/ Evaluated(t) \/ Leave(t) \/ StartThread(t)
          PROVE  AdmissionTypeOK' /\ QueueInv' /\ TokensOwn' /\ GateInv'
      <3>1. ElseUnchanged
        BY <2>1 DEF Wait, Resolved, NotCaptured, LocalUnavailable, Evaluated, Leave, StartThread
      <3>. QED BY <2>1, <3>1, QuietStepsKeep
    <2>2. ASSUME NEW t \in Threads, AssignResolve(t) \/ TcpStarted(t) \/ Captured(t) \/ ReleaseAdmission(t)
          PROVE  AdmissionTypeOK' /\ QueueInv' /\ TokensOwn' /\ GateInv'
      BY <2>2, LeavingStepsKeep
    <2>3. ASSUME NEW t \in Threads, Enqueue(t) \/ AssignConnection(t)
          PROVE  AdmissionTypeOK' /\ QueueInv' /\ TokensOwn' /\ GateInv'
      BY <2>3, EnqueueKeeps, AssignKeeps
    <2>4. CASE \/ \E t \in Threads : ProbeRefused(t) \/ Throws(t) \/ Handler(t)
               \/ Refresh \/ EndRun \/ EndRunNotify \/ JoinThreads \/ StopUnlocked \/ StopUnlockedNotify
               \/ UNCHANGED admissionVars
      BY <2>4, OtherStepsKeep
    <2>. QED BY <2>1, <2>2, <2>3, <2>4 DEF AdmissionNext, ThreadStep
  <1>. QED BY <1>1, <1>2 DEF AdmissionInv

-----------------------------------------------------------------------------
\* For any threads: no ticket in the queue dangles and none is there twice; a
\* connection between its assignment and its start is at the head, and the one
\* recovery reservation is with it, through every early return, exception and
\* stop (Connect and ~ReleaseAdmission, p2c_worker_impl.cpp:826).
THEOREM AdmissionAlwaysSound == AdmissionSpec => []AdmissionSound
  <1>1. AdmissionInv => AdmissionSound
    <2>. SUFFICES ASSUME AdmissionInv PROVE AdmissionSound
      OBVIOUS
    <2>1. TicketsLive
      BY QueueTypes, DistinctCount DEF AdmissionInv, QueueInv, WithTicket, TicketsLive
    <2>2. ReservationHeldByHead
      BY DEF AdmissionInv, QueueInv, GateInv, ReservationHeldByHead, ReservedFor, ReservedKey
    <2>. QED BY <2>1, <2>2 DEF AdmissionSound
  <1>. QED BY <1>1, AdmissionInvInit, AdmissionInvNext, PTL DEF AdmissionSpec

\* For any threads: the head of the queue never sleeps without a deadline, so no
\* wake-up that P2CFifoAdmission::Remove owes it is lost (p2c_admission.h).
THEOREM HeadAlwaysHasDeadline == AdmissionSpec => []HeadHasDeadline
  <1>1. AdmissionInv => HeadHasDeadline
    BY DEF AdmissionInv, QueueInv
  <1>. QED BY <1>1, AdmissionInvInit, AdmissionInvNext, PTL DEF AdmissionSpec

\* The connection threads use the recovery gate as its specification allows, for
\* any number of threads: what they do to it is one of its calls or nothing.
THEOREM AdmissionImplementsPolicy == AdmissionSpec => PolicySpec
  <1>1. AdmissionInit => PolicyInit
    BY DEF AdmissionInit
  <1>2. AdmissionInv /\ [AdmissionNext]_admissionVars => [PolicyNext]_policyVars
    BY AdmissionStepsPolicy
  <1>. QED BY <1>1, <1>2, AdmissionInvInit, AdmissionInvNext, PTL DEF AdmissionSpec, PolicySpec

\* So the starts of any number of connection threads keep the documented pace,
\* whoever is stopped, fails or throws (Started, p2c_recovery_policy.h:119).
THEOREM ThreadsStartPaced == AdmissionSpec => []StartsPaced
  BY AdmissionImplementsPolicy, StartsAlwaysPaced, PTL
=============================================================================

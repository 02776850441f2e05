---------------------------- MODULE P2CAdmission ----------------------------
(***************************************************************************)
(* The admission of the automatic-claim worker's connection threads        *)
(* (Impl::Connect of wallet/p2c_worker_impl.cpp over P2CFifoAdmission of   *)
(* wallet/p2c_admission.h), with the recovery gate of P2CRecoveryPolicy.   *)
(* Threads queue with a ticket; only the head asks Next for work, and it   *)
(* sleeps with a deadline; the others sleep until somebody notifies them.  *)
(*                                                                         *)
(* A critical section of work_mutex is one step.  A thread that waits on   *)
(* its ticket is "parked" (no timer) or "timed"; a notify_one to a thread  *)
(* that waits makes it "woken", one to any other thread is lost.  stop and *)
(* failed are written without work_mutex except in the thread's handler.   *)
(* What Next decides (catalog, rate, economics) is a free choice here.     *)
(***************************************************************************)
EXTENDS P2CRecoveryPolicy

CONSTANTS Threads,           \* connection threads
          MaxToken           \* bound on admission_sequence (2^64 - 1 in the code)

ASSUME AdmissionAssumption ==
    /\ MaxToken \in Nat /\ Tokens = 1..MaxToken
    /\ NoReservation \notin Policies \cup [key : Policies, token : Tokens]

VARIABLES m_waiters,         \* tickets in order of arrival, a ticket being its thread
          pc,                \* control of each connection thread
          assigned,          \* per thread: [token, key] of its assignment, or None
          threw,             \* threads unwinding from an exception
          admission_sequence,
          stop, failed,
          coordinator,       \* "run", "notify", "join", "done"
          stopper            \* StopUnlocked: "idle", "notify", "join"

threadVars == <<pc, assigned, threw, admission_sequence>>
controlVars == <<stop, failed, coordinator, stopper>>
admissionVars == <<policyVars, m_waiters, threadVars, controlVars>>

\* No assignment; an assignment without a recovery probe has no policy key.
None == [token |-> 0, key |-> NoReservation]

cancelled == stop \/ failed

AdmissionInit ==
    /\ PolicyInit
    /\ m_waiters = <<>>
    /\ pc = [t \in Threads |-> "unborn"]
    /\ assigned = [t \in Threads |-> None]
    /\ threw = {}
    /\ admission_sequence = 0
    /\ stop = FALSE /\ failed = FALSE
    /\ coordinator = "run" /\ stopper = "idle"

-----------------------------------------------------------------------------
(* P2CFifoAdmission                                                        *)

Waiting == {"parked", "timed"}
IsHead(t) == m_waiters # <<>> /\ Head(m_waiters) = t

\* Mutant: the notification reaches no waiting thread.
NotifyNobody(control, ts) == control

\* pc after wake.notify_one on the tickets of ts.
Notify(control, ts) ==
    [t \in Threads |-> IF t \in ts /\ control[t] \in Waiting THEN "woken" ELSE control[t]]
NotifyHead(control, queue) ==
    Notify(control, IF queue = <<>> THEN {} ELSE {Head(queue)})
NotifyAll(control) == Notify(control, Range(m_waiters))

\* Mutant: the departing head tells nobody.
RemoveTicketQuietly(t, control) ==
    /\ m_waiters' = EraseNode(m_waiters, t)
    /\ pc' = control

\* P2CFifoAdmission::Remove in a step that leaves the threads' control at `control`.
RemoveTicket(t, control) ==
    LET rest == EraseNode(m_waiters, t)
    IN  /\ m_waiters' = rest
        /\ pc' = IF IsHead(t) THEN NotifyHead(control, rest) ELSE control

-----------------------------------------------------------------------------
(* Connect                                                                 *)

At(t, to) == [pc EXCEPT ![t] = to]

\* The rest of a step that changes the threads' control only.
ElseUnchanged == UNCHANGED <<policyVars, m_waiters, assigned, threw, admission_sequence, controlVars>>

\* Enqueue and the first test of the inner loop are one critical section of the
\* code and two steps here, which only adds interleavings.
Enqueue(t) ==
    /\ pc[t] = "loop" /\ ~cancelled
    /\ m_waiters' = Append(m_waiters, t)
    /\ pc' = At(t, "woken")
    /\ UNCHANGED <<policyVars, assigned, threw, admission_sequence, controlVars>>

Waits(t) == pc[t] \in Waiting \cup {"woken"}
MyTurn(t) == Waits(t) /\ ~cancelled /\ IsHead(t)

\* The inner loop: leave when cancelled, sleep untimed unless at the head, and
\* at the head sleep until retry_at or for 100 ms when Next assigns nothing.
Wait(t) ==
    /\ Waits(t)
    /\ pc' = At(t, IF cancelled THEN "unwind" ELSE IF IsHead(t) THEN "timed" ELSE "parked")
    /\ ElseUnchanged

\* Next assigns a DNS resolution: the head leaves the queue at once.
AssignResolve(t) ==
    /\ MyTurn(t)
    /\ RemoveTicket(t, At(t, "resolving"))
    /\ UNCHANGED <<policyVars, assigned, threw, admission_sequence, controlVars>>

\* Next throws "P2C admission sequence exhausted" when no number is left.
TokenLeft == admission_sequence < MaxToken

\* Next assigns a connection, with the recovery reservation if it is a probe.
AssignConnection(t) ==
    /\ MyTurn(t) /\ TokenLeft
    /\ admission_sequence' = admission_sequence + 1
    /\ pc' = At(t, "admitted")
    /\ \/ /\ assigned' = [assigned EXCEPT ![t] = [token |-> admission_sequence', key |-> NoReservation]]
          /\ UNCHANGED policyVars
       \/ \E key \in Policies, now \in Times :
             /\ assigned' = [assigned EXCEPT ![t] = [token |-> admission_sequence', key |-> key]]
             /\ Reserve(key, admission_sequence', now)
    /\ UNCHANGED <<m_waiters, threw, controlVars>>

\* Reserve refuses: the token is spent and Next looks at its candidates again.
ProbeRefused(t) ==
    /\ MyTurn(t) /\ TokenLeft
    /\ \E key \in Policies, now \in Times : ReserveRefused(key, now)
    /\ admission_sequence' = admission_sequence + 1
    /\ pc' = At(t, "woken")
    /\ UNCHANGED <<m_waiters, assigned, threw, controlVars>>

\* An exception leaves Next (the sequence is exhausted, a save fails) or a later
\* step of the loop body; the guard object runs before the thread's handler.
Throws(t) ==
    /\ MyTurn(t) \/ pc[t] \in {"resolving", "admitted", "connected", "captured"}
    /\ threw' = threw \cup {t}
    /\ pc' = At(t, "unwind")
    /\ UNCHANGED <<policyVars, m_waiters, assigned, admission_sequence, controlVars>>

\* DNS is back, and the group may be ready again: the head is told.
Resolved(t) ==
    pc[t] = "resolving" /\ pc' = NotifyHead(At(t, "unwind"), m_waiters) /\ ElseUnchanged

\* No endpoint, the claim gone or its budget spent: continue before capturing.
NotCaptured(t) == pc[t] = "admitted" /\ pc' = At(t, "unwind") /\ ElseUnchanged

\* on_local_unavailable: the ready sets changed, so the head is told.
LocalUnavailable(t) ==
    pc[t] \in {"admitted", "connected"} /\ pc' = NotifyHead(pc, m_waiters) /\ ElseUnchanged

\* on_tcp_started with eligible_to_start true.
TcpStarted(t) ==
    /\ pc[t] = "admitted" /\ ~cancelled
    /\ IF assigned[t].key = NoReservation THEN UNCHANGED policyVars
       ELSE \E now \in Times : Started(assigned[t].key, assigned[t].token, now)
    /\ RemoveTicket(t, At(t, "connected"))
    /\ UNCHANGED <<assigned, threw, admission_sequence, controlVars>>

\* CaptureP2CTlsParsed returned, started or not: reservation and ticket go.
Captured(t) ==
    /\ pc[t] \in {"admitted", "connected"}
    /\ Release(assigned[t].token)
    /\ RemoveTicket(t, At(t, "captured"))
    /\ UNCHANGED <<assigned, threw, admission_sequence, controlVars>>

\* The loop body ends: a completed proof tells the head, anything else nobody.
Evaluated(t) ==
    /\ pc[t] = "captured"
    /\ \/ pc' = NotifyHead(At(t, "unwind"), m_waiters)
       \/ pc' = At(t, "unwind")
    /\ ElseUnchanged

\* Mutant: an exceptional exit skips the guard object.
ReleaseAdmissionOnReturn(t) ==
    /\ pc[t] = "unwind"
    /\ Release(IF t \in threw THEN 0 ELSE assigned[t].token)
    /\ IF t \in threw THEN UNCHANGED m_waiters /\ pc' = At(t, "handler")
       ELSE RemoveTicket(t, At(t, "loop"))
    /\ assigned' = [assigned EXCEPT ![t] = None]
    /\ UNCHANGED <<threw, admission_sequence, controlVars>>

\* ~ReleaseAdmission, then the next round of the loop or the handler.
ReleaseAdmission(t) ==
    /\ pc[t] = "unwind"
    /\ Release(assigned[t].token)
    /\ RemoveTicket(t, At(t, IF t \in threw THEN "handler" ELSE "loop"))
    /\ assigned' = [assigned EXCEPT ![t] = None]
    /\ UNCHANGED <<threw, admission_sequence, controlVars>>

Handler(t) ==
    /\ pc[t] = "handler"
    /\ failed' = TRUE
    /\ pc' = NotifyAll(At(t, "gone"))
    /\ UNCHANGED <<policyVars, m_waiters, assigned, threw, admission_sequence, stop, coordinator, stopper>>

Leave(t) == pc[t] = "loop" /\ cancelled /\ pc' = At(t, "gone") /\ ElseUnchanged

-----------------------------------------------------------------------------
(* The coordinator (Run) and the caller of StopUnlocked                    *)

StartThread(t) ==
    /\ coordinator = "run" /\ ~cancelled /\ pc[t] = "unborn"
    /\ pc' = At(t, "loop")
    /\ ElseUnchanged

\* Refresh: policies out of the catalog are dropped and the head is told.
Refresh ==
    /\ coordinator = "run"
    /\ \E policies \in SUBSET Policies : Retain(policies)
    /\ pc' = NotifyHead(pc, m_waiters)
    /\ UNCHANGED <<m_waiters, assigned, threw, admission_sequence, controlVars>>

\* The loop ends (stop, failed, or an exception of its own): StopAndJoin.
EndRun ==
    /\ coordinator = "run"
    /\ coordinator' = "notify" /\ stop' = TRUE
    /\ UNCHANGED <<policyVars, m_waiters, threadVars, failed, stopper>>

EndRunNotify ==
    /\ coordinator = "notify"
    /\ coordinator' = "join" /\ pc' = NotifyAll(pc)
    /\ UNCHANGED <<policyVars, m_waiters, assigned, threw, admission_sequence, stop, failed, stopper>>

Joinable == \A t \in Threads : pc[t] \in {"unborn", "gone"}

JoinThreads ==
    /\ coordinator = "join" /\ Joinable
    /\ coordinator' = "done"
    /\ UNCHANGED <<policyVars, m_waiters, threadVars, stop, failed, stopper>>

StopUnlocked ==
    /\ stopper = "idle"
    /\ stopper' = "notify" /\ stop' = TRUE
    /\ UNCHANGED <<policyVars, m_waiters, threadVars, failed, coordinator>>

StopUnlockedNotify ==
    /\ stopper = "notify"
    /\ stopper' = "join" /\ pc' = NotifyAll(pc)
    /\ UNCHANGED <<policyVars, m_waiters, assigned, threw, admission_sequence, stop, failed, coordinator>>

-----------------------------------------------------------------------------
ThreadStep(t) ==
    \/ Enqueue(t) \/ Wait(t) \/ AssignResolve(t)
    \/ AssignConnection(t) \/ ProbeRefused(t) \/ Throws(t) \/ Resolved(t)
    \/ NotCaptured(t) \/ LocalUnavailable(t) \/ TcpStarted(t) \/ Captured(t)
    \/ Evaluated(t) \/ ReleaseAdmission(t) \/ Handler(t) \/ Leave(t)

\* UpdateEconomicOrder also asks the policy when a recovery is due.  Due makes room
\* for an entry and never touches the reservation; the policy's own specification
\* takes that step at any time.
AdmissionNext ==
    \/ \E t \in Threads : ThreadStep(t) \/ StartThread(t)
    \/ Refresh \/ EndRun \/ EndRunNotify \/ JoinThreads
    \/ StopUnlocked \/ StopUnlockedNotify

AdmissionSpec == AdmissionInit /\ [][AdmissionNext]_admissionVars

\* What the scheduler guarantees: a thread that is not parked does not stay for
\* ever where it can run (a timed one when its deadline passes), captures and
\* resolutions return, and the coordinator and the stopping caller run.  A
\* parked thread needs a wake-up.
FairAdmissionSpec ==
    /\ AdmissionSpec
    /\ \A t \in Threads :
         /\ \A place \in {"woken", "resolving", "admitted", "connected", "captured", "unwind", "handler"} :
              []<>(pc[t] # place)
         /\ \A place \in {"loop", "timed"} : []<>~(pc[t] = place /\ cancelled)
    /\ []<>~(stop /\ coordinator = "run")
    /\ []<>(coordinator # "notify") /\ []<>~(coordinator = "join" /\ Joinable)
    /\ []<>(stopper # "notify")

-----------------------------------------------------------------------------
\* Types of the admission's own state.
AdmissionTypeOK ==
    /\ m_waiters \in Seq(Threads)
    /\ pc \in [Threads -> {"unborn", "loop", "parked", "timed", "woken", "resolving", "admitted",
                            "connected", "captured", "unwind", "handler", "gone"}]
    /\ assigned \in [Threads -> [token : 0..MaxToken, key : Policies \cup {NoReservation}]]
    /\ threw \subseteq Threads
    /\ admission_sequence \in 0..MaxToken
    /\ {stop, failed} \subseteq BOOLEAN
    /\ coordinator \in {"run", "notify", "join", "done"}
    /\ stopper \in {"idle", "notify", "join"}

\* No wake-up is lost: whatever leaves the queue, by whatever way out of
\* Connect, the thread at its head never sleeps without a deadline ("One
\* deadline-owning head; other workers sleep without timer polling").
HeadHasDeadline == m_waiters # <<>> => pc[Head(m_waiters)] # "parked"

\* A ticket is a stack object of Connect's loop body.  The queue never holds the
\* ticket of a thread outside that body, nor one ticket twice, nor the ticket
\* of a thread whose connection has started: no pointer in m_waiters dangles.
TicketsLive ==
    /\ \A t \in Range(m_waiters) : pc[t] \in {"parked", "timed", "woken", "admitted", "unwind"}
    /\ Cardinality(Range(m_waiters)) = Len(m_waiters)

\* Between its assignment and its TCP start a connection keeps the head of the
\* queue, and the one recovery reservation belongs to that connection: it is
\* neither leaked by a failed start, an exception or a stop, nor held by two, nor
\* taken from the probe on its way (Started would throw, p2c_recovery_policy.h:121).
ReservationHeldByHead ==
    /\ \A t \in Threads : pc[t] = "admitted" =>
         /\ IsHead(t)
         /\ assigned[t].key # NoReservation => ReservedFor(assigned[t].token) /\ ReservedKey(assigned[t].key)
    /\ Reserved => /\ m_waiters # <<>>
                   /\ pc[Head(m_waiters)] \in {"admitted", "unwind"}
                   /\ assigned[Head(m_waiters)] = [token |-> m_reservation.token, key |-> m_reservation.key]

\* A stop request wakes every sleeping thread, so that the coordinator's join of
\* the connection threads returns.  (stop is for ever.)
JoinReturns == []<>(stop => coordinator = "done")

\* The queue and the gate agree: no ticket dangles, and the reservation is with the
\* connection at the head, until every exit of Connect has given both back
\* (ReleaseAdmission, p2c_worker_impl.cpp:826).
AdmissionSound == TicketsLive /\ ReservationHeldByHead
=============================================================================

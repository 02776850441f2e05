------------------------------ MODULE P2CRsaProbe ------------------------------
(***************************************************************************)
(* The detached threads that ask a domain for RSA while a confirmation is  *)
(* open (startRsaProbe, qt/p2ccreatedialog.cpp, and ProbeP2CRsaForTest,    *)
(* wallet/p2c_tls.cpp) and the coordinator that ends them before the       *)
(* process tears down what they use (P2CRsaProbeLifecycle).                *)
(*                                                                         *)
(* A probe is numbered after its confirmation.  Its thread touches process *)
(* state in two phases and resolves the domain between them, outside any   *)
(* phase and for as long as the resolver likes, perhaps for ever.          *)
(***************************************************************************)
EXTENDS Naturals, FiniteSets

CONSTANTS Probes,            \* numbers of the confirmations
          MaxActiveProbes    \* detached threads at a time (4 in startRsaProbe)

VARIABLES probe,             \* RsaProbeState and thread of each
          active_probes,     \* the count startRsaProbe bounds
          m_stopping, m_active, \* the coordinator
          torn               \* Stop has returned, process state is being destroyed

probeVars == <<probe, active_probes, m_stopping, m_active, torn>>
stopVars == <<m_stopping, torn>>

Unborn == [pc |-> "unborn", cancelled |-> FALSE, rsa_verified |-> FALSE,
           late |-> FALSE, verified |-> FALSE]

\* steady_clock::now() >= deadline, from some moment on; once the probe is cancelled
\* nobody asks.
DeadlinePasses(p) ==
    /\ probe[p].pc # "unborn" /\ ~probe[p].cancelled /\ ~probe[p].late
    /\ probe' = [probe EXCEPT ![p].late = TRUE]
    /\ UNCHANGED <<active_probes, m_active, stopVars>>

\* The lambda expired of ProbeP2CRsaForTest.
Expired(p) == m_stopping \/ probe[p].cancelled \/ probe[p].late

StartsThread(n) == n < MaxActiveProbes

\* The state of probe p and its thread, which is not started where too many are
\* running or where creating it fails.
Started(p, created) ==
    /\ probe' = [probe EXCEPT ![p].pc = IF created THEN "start" ELSE "done"]
    /\ active_probes' = IF created THEN active_probes + 1 ELSE active_probes
    /\ created => StartsThread(active_probes)

-----------------------------------------------------------------------------
(* P2CRsaProbeLifecycle                                                    *)

MayEnter == ~m_stopping
TryEnter == MayEnter /\ m_active' = m_active + 1
\* Mutant: the first phase is not ended before the lookup.
LeavesDeferred(n) == n
Leaves(n) == n - 1

\* Stop sets m_stopping and waits until no phase is active, under the mutex of
\* TryEnter: it returns at once where none is.
Stop ==
    /\ ~m_stopping
    /\ m_stopping' = TRUE
    /\ torn' = (m_active = 0)
    /\ UNCHANGED <<probe, active_probes, m_active>>
StopReturns ==
    /\ m_stopping /\ ~torn
    /\ m_active = 0
    /\ torn' = TRUE
    /\ UNCHANGED <<probe, active_probes, m_active, m_stopping>>

-----------------------------------------------------------------------------
(* ProbeP2CRsaForTest and the end of the thread                            *)

At(p, label) == probe[p].pc = label
Goto(p, label) == probe' = [probe EXCEPT ![p].pc = label]

\* The thread ends and gives its place back.
Ends(p) == Goto(p, "done") /\ active_probes' = active_probes - 1
Fails(p) == Ends(p) /\ UNCHANGED <<m_active, stopVars>>

\* The check and the first phase, in which the proxies are read and the resolver is
\* copied; a proxy ends the probe.
EnterFirst(p) ==
    /\ At(p, "start")
    /\ \/ Expired(p) /\ Fails(p)
       \/ ~Expired(p) /\ Goto(p, "first") /\ TryEnter /\ UNCHANGED <<active_probes, stopVars>>
LeaveFirst(p) ==
    /\ At(p, "first")
    /\ \/ ~Expired(p) /\ Goto(p, "dns") /\ UNCHANGED active_probes
       \/ Ends(p)
    /\ m_active' = Leaves(m_active)
    /\ UNCHANGED stopVars

\* LookupHost returns and the second phase begins, unless Stop was called.
Resolved(p) ==
    /\ At(p, "dns")
    /\ \/ Goto(p, "second") /\ TryEnter /\ UNCHANGED <<active_probes, stopVars>>
       \/ ~MayEnter /\ Fails(p)

\* The capture and the verification, which fail for any reason or end with a proof
\* that the domain serves RSA; the phase lasts until they have returned.  The
\* thread's own check of the deadline and of cancellation follows at once.
LeaveSecond(p) ==
    /\ At(p, "second")
    /\ \/ ~Expired(p) /\ UNCHANGED active_probes
          /\ probe' = [probe EXCEPT ![p].pc = "store", ![p].verified = TRUE]
       \/ Ends(p)
    /\ m_active' = m_active - 1
    /\ UNCHANGED stopVars

\* rsa_verified.store, on a state the page may have given up meanwhile.
StoreVerdict(p) ==
    /\ At(p, "store")
    /\ probe' = [probe EXCEPT ![p].rsa_verified = TRUE, ![p].pc = "done"]
    /\ active_probes' = active_probes - 1
    /\ UNCHANGED <<m_active, stopVars>>

ProbeSteps(p) ==
    EnterFirst(p) \/ LeaveFirst(p) \/ Resolved(p) \/ LeaveSecond(p) \/ StoreVerdict(p)
ProbeNext ==
    \/ Stop \/ StopReturns
    \/ \E p \in Probes : DeadlinePasses(p) \/ ProbeSteps(p)

ProbeInit ==
    /\ probe = [p \in Probes |-> Unborn]
    /\ active_probes = 0 /\ m_active = 0
    /\ m_stopping = FALSE /\ torn = FALSE

\* Threads leave their phases, clocks advance and Stop returns when it can, but
\* nothing makes a resolver answer.  (Stated of the states, as weak fairness of the
\* steps would be: each of these is a state the step in question leaves.)
ProbeFairness ==
    /\ []<>(torn \/ ~m_stopping \/ m_active # 0)
    /\ \A p \in Probes : /\ []<>(probe[p].pc \notin {"start", "first", "second"})
                         /\ []<>(probe[p].pc = "unborn" \/ probe[p].cancelled \/ probe[p].late)

-----------------------------------------------------------------------------
(* Properties                                                              *)

InPhase == {p \in Probes : probe[p].pc \in {"first", "second"}}

ProbeTypeOK ==
    /\ active_probes \in 0..MaxActiveProbes /\ m_active \in Nat
    /\ m_stopping \in BOOLEAN /\ torn \in BOOLEAN
    /\ \A p \in Probes :
         /\ probe[p].pc \in {"unborn", "start", "first", "dns", "second", "store", "done"}
         /\ probe[p].cancelled \in BOOLEAN /\ probe[p].rsa_verified \in BOOLEAN
         /\ probe[p].late \in BOOLEAN /\ probe[p].verified \in BOOLEAN

\* Once Stop has returned (ShutdownP2CRsaProbes, called before the models and the
\* node are destroyed, bitcoin.cpp:388) no probe is in a phase and none enters one,
\* even one whose resolver answers only now.
NoPhaseAfterStop == torn => InPhase = {}

\* Stop returns although a resolver may never answer (p2c_tls.cpp:556): it waits
\* for phases, which end, and no phase spans the lookup.  (m_stopping is for ever.)
ShutdownEnds == []<>(m_stopping => torn)
=============================================================================

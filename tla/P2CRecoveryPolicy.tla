------------------------- MODULE P2CRecoveryPolicy -------------------------
(***************************************************************************)
(* P2CRecoveryPolicy (wallet/p2c_recovery_policy.h): the gate in front of  *)
(* connections to bounties below the measured economic floor.  A policy is *)
(* a (domain, mask) pair.  The owner holds work_mutex around every call,   *)
(* so a call is one step.  Time is counted in whole units, and `now` is    *)
(* whatever the caller read: it may lag behind a time already seen.        *)
(***************************************************************************)
EXTENDS Integers, Sequences, FiniteSets, Functions

CONSTANTS Policies,               \* (domain, mask) pairs
          MAX_POLICIES,           \* 256
          BOOTSTRAP_STARTS,       \* 32
          BOOTSTRAP_INTERVAL,     \* 0.25 s
          RECOVERY_INTERVAL,      \* 60 s
          Tokens,                 \* admission_sequence numbers
          MaxTime,                \* bound on the callers' clock
          NoReservation           \* std::nullopt

ASSUME PolicyAssumption ==
    /\ {MAX_POLICIES, BOOTSTRAP_STARTS, BOOTSTRAP_INTERVAL, RECOVERY_INTERVAL, MaxTime} \subseteq Nat
    /\ MAX_POLICIES >= 2 /\ BOOTSTRAP_STARTS > 0 /\ RECOVERY_INTERVAL >= BOOTSTRAP_INTERVAL

VARIABLES m_probes,               \* policy -> [started, due, times]; times is history:
                                  \* when the policy started since its entry was made
          m_recent,               \* the policies, least recently started first
          m_next_global_start,    \* earliest time of the next start
          m_now,                  \* latest time seen
          m_reservation,          \* [key, token], or NoReservation
          starts                  \* history: times of all starts

tableVars == <<m_probes, m_recent>>
policyVars == <<tableVars, m_next_global_start, m_now, m_reservation, starts>>

Times == 0..MaxTime

\* s without its elements outside K, in their order: the n-th one left is the
\* one with n of them up to it.  (SelectSeq in closed form.)
Retained(s, K) ==
    LET left == {i \in DOMAIN s : s[i] \in K}
    IN  [n \in 1..Cardinality(left) |->
            s[CHOOSE i \in left : Cardinality({j \in left : j <= i}) = n]]

\* list::erase, at a position and of the node of an element.
Erase(s, k) == SubSeq(s, 1, k - 1) \o SubSeq(s, k + 1, Len(s))
EraseNode(s, e) == IF e \in Range(s) THEN Erase(s, CHOOSE k \in DOMAIN s : s[k] = e) ELSE s

Later(a, b) == IF a >= b THEN a ELSE b

PolicyInit ==
    /\ m_probes = <<>> /\ m_recent = <<>>
    /\ m_next_global_start = 0 /\ m_now = 0
    /\ m_reservation = NoReservation
    /\ starts = <<>>

Reserved == m_reservation # NoReservation
ReservedFor(token) == Reserved /\ m_reservation.token = token
ReservedKey(key) == Reserved /\ m_reservation.key = key

\* Time never runs backwards for the policy.
Advance(now) == Later(m_now, now)

\* The position in m_recent of the policy to evict: the oldest unreserved one.
Oldest == IF ReservedKey(m_recent[1]) THEN 2 ELSE 1

\* The policies that stay when a new one is added.
Kept == IF Cardinality(DOMAIN m_probes) = MAX_POLICIES THEN Erase(m_recent, Oldest) ELSE m_recent

\* m_probes and m_recent after Entry(key, now), which adds a missing policy.
Entry(key, now) ==
    IF key \in DOMAIN m_probes THEN [probes |-> m_probes, recent |-> m_recent]
    ELSE [probes |-> [p \in Range(Kept) \cup {key} |->
                        IF p = key THEN [started |-> 0, due |-> now, times |-> <<>>] ELSE m_probes[p]],
          recent |-> Append(Kept, key)]

DueAt(key, now) == Later(Entry(key, Advance(now)).probes[key].due, m_next_global_start)

\* What a call of Due leaves behind.
Look(key, now) ==
    /\ m_now' = Advance(now)
    /\ m_probes' = Entry(key, Advance(now)).probes
    /\ m_recent' = Entry(key, Advance(now)).recent
    /\ UNCHANGED <<m_next_global_start, starts>>

Due(key, now) == Look(key, now) /\ UNCHANGED m_reservation

\* Reserve returns true, or false; a reservation that is out hides the table.
Reserve(key, token, now) ==
    /\ ~Reserved /\ DueAt(key, now) <= Advance(now)
    /\ Look(key, now)
    /\ m_reservation' = [key |-> key, token |-> token]
ReserveRefused(key, now) ==
    \/ ~Reserved /\ DueAt(key, now) > Advance(now) /\ Due(key, now)
    \/ /\ Reserved /\ m_now' = Advance(now)
       /\ UNCHANGED <<tableVars, m_next_global_start, m_reservation, starts>>

\* Release: nothing happens for a token that holds no reservation.
Release(token) ==
    /\ m_reservation' = IF ReservedFor(token) THEN NoReservation ELSE m_reservation
    /\ UNCHANGED <<tableVars, m_next_global_start, m_now, starts>>

Interval(started) == IF started < BOOTSTRAP_STARTS THEN BOOTSTRAP_INTERVAL ELSE RECOVERY_INTERVAL

\* Mutant: the shared deadline is left where it was.
GlobalDeadlineKept(now) == m_next_global_start

GlobalDeadline(now) == Later(m_next_global_start, now + BOOTSTRAP_INTERVAL)

\* The reserved operation reaches TCP; with any other key or token Started throws.
Started(key, token, now) ==
    LET time    == Advance(now)
        entry   == Entry(key, time)
        probe   == entry.probes[key]
        started == IF probe.started < BOOTSTRAP_STARTS THEN probe.started + 1 ELSE BOOTSTRAP_STARTS
    IN  /\ ReservedFor(token) /\ m_reservation.key = key
        /\ m_now' = time
        /\ m_probes' = [entry.probes EXCEPT ![key] =
             [started |-> started, due |-> time + Interval(started), times |-> Append(probe.times, time)]]
        /\ m_recent' = Append(EraseNode(entry.recent, key), key)
        /\ m_next_global_start' = GlobalDeadline(time)
        /\ m_reservation' = NoReservation
        /\ starts' = Append(starts, time)

\* Retain keeps the given policies and the reserved one.  Clear keeps none.
Keep(policies) ==
    /\ m_probes' = [p \in DOMAIN m_probes \cap policies |-> m_probes[p]]
    /\ m_recent' = Retained(m_recent, policies)
    /\ UNCHANGED <<m_next_global_start, m_now, m_reservation, starts>>
Retain(policies) == Keep({p \in Policies : p \in policies \/ ReservedKey(p)})
Clear == Keep({})

\* Any caller, with any token, in any order.
PolicyNext ==
    \/ \E key \in Policies, now \in Times :
          \/ Due(key, now) \/ ReserveRefused(key, now)
          \/ \E token \in Tokens : Reserve(key, token, now) \/ Started(key, token, now)
    \/ \E token \in Tokens : Release(token)
    \/ \E policies \in SUBSET Policies : Retain(policies)
    \/ Clear

PolicySpec == PolicyInit /\ [][PolicyNext]_policyVars

-----------------------------------------------------------------------------
\* Types: the table stays within MAX_POLICIES, and m_recent lists exactly its
\* policies, each once (every State holds a valid position in the list).
PolicyTypeOK ==
    /\ DOMAIN m_probes \subseteq Policies
    /\ \A p \in DOMAIN m_probes :
         m_probes[p].started \in 0..BOOTSTRAP_STARTS /\ m_probes[p].due \in Nat
    /\ Cardinality(DOMAIN m_probes) <= MAX_POLICIES
    /\ Len(m_recent) = Cardinality(DOMAIN m_probes) /\ Range(m_recent) = DOMAIN m_probes
    /\ m_now \in Times /\ m_next_global_start \in Nat
    /\ Reserved => m_reservation \in [key : Policies, token : Tokens]

\* However the policies are evicted, retained or cleared between two starts,
\* the two are at least BOOTSTRAP_INTERVAL apart: "the global four-start/s
\* deadline survives eviction/retention/clear and prevents churn bursts"
\* (p2c_recovery_policy.h:70).
StartsSpaced == \A i \in 2..Len(starts) : starts[i] - starts[i-1] >= BOOTSTRAP_INTERVAL

\* While a policy keeps its entry it has BOOTSTRAP_STARTS quick starts; from
\* then on two of its starts are at least RECOVERY_INTERVAL apart, whatever
\* order reservations, refusals and clock readings come in (Reserve, Started).
RecoveryPaced ==
    \A p \in DOMAIN m_probes :
        LET times == m_probes[p].times
        IN  \A i \in (BOOTSTRAP_STARTS + 1)..Len(times) : times[i] - times[i-1] >= RECOVERY_INTERVAL

\* Recovery samples are as rare as documented, over all policies and for each:
\* the table is consistent, and no order of Reserve, Started, Release, Retain and
\* Clear gets a start past either deadline (p2c_recovery_policy.h:126).
StartsPaced == PolicyTypeOK /\ StartsSpaced /\ RecoveryPaced

\* A policy with a reservation out keeps its entry, and with it its count of
\* starts, through evictions and Retain; only Clear takes it away (Entry, Retain).
ReservedKept ==
    [][Reserved /\ m_reservation.key \in DOMAIN m_probes /\ ~Clear =>
         m_reservation.key \in DOMAIN m_probes']_policyVars
=============================================================================

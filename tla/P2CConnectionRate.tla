------------------------- MODULE P2CConnectionRate -------------------------
(***************************************************************************)
(* P2CConnectionRateLimiter (wallet/p2c_connection_rate.h) and its callers *)
(* in wallet/p2c_worker_impl.cpp.  The thread at the head of the admission *)
(* queue passes the gate in Next, and charges its connection later, when   *)
(* TCP starts (on_tcp_started); in between any time passes, the catalogue  *)
(* may close, and the connection may fail.  ReservationHeldByHead of       *)
(* P2CAdmission is why there is one such thread at a time.  All calls are  *)
(* under work_mutex, and the steady clock never runs backwards.            *)
(***************************************************************************)
EXTENDS Integers, Sequences

CONSTANTS SECOND,        \* clock units in one second (10^9 in the code)
          Rates,         \* configurations: -1 unlimited, 0 disabled, n starts per second
          MaxClock,      \* bound on the clock
          MaxStarts      \* bound on the charged starts of one configuration

ASSUME RateAssumption ==
    /\ {SECOND, MaxClock, MaxStarts} \subseteq Nat /\ SECOND > 0
    /\ Rates \subseteq Int /\ \A r \in Rates : r >= -1

VARIABLES rate,
          m_next,        \* the shared deadline; Unset is std::nullopt
          m_idle,
          head,          \* the head of the queue: "waits" or "assigned"
          clock,         \* latest reading of the clock
          charged        \* history: [time, resumed] of the starts charged since Configure

rateVars == <<rate, m_next, m_idle, head, clock, charged>>

Unset == -1
LaterOf(a, b) == IF a >= b THEN a ELSE b

Blocked(now) == now < m_next

\* The time between two starts, rounded up to the clock.
ChargeInterval == (SECOND + rate - 1) \div rate

\* Mutant: the next start is due one interval after this one.
AdvancedFromNow(now) == now + ChargeInterval

\* The deadline moves on by one interval, from now when there was no demand.
Advanced(now) == (IF m_next = Unset \/ m_idle THEN LaterOf(m_next, now) ELSE m_next) + ChargeInterval

\* Mutant: lateness accumulates without limit.
DeadlineUnclamped(now) == Advanced(now)

\* At most one second of lateness is kept.
Deadline(now) == LaterOf(Advanced(now), now - SECOND)

RecordStart(now) ==
    /\ m_next' = Deadline(now)
    /\ m_idle' = FALSE
    /\ charged' = Append(charged, [time |-> now, resumed |-> m_idle])

RateInit ==
    /\ rate = 0 /\ m_next = Unset /\ m_idle = TRUE
    /\ head = "waits" /\ clock = 0 /\ charged = <<>>

\* Configure: the workers are joined, then the limiter starts afresh.
Configure ==
    /\ rate' \in Rates
    /\ m_next' = Unset /\ m_idle' = TRUE
    /\ head' = "waits" /\ charged' = <<>>
    /\ UNCHANGED clock

\* Next assigns a connection to the head of the queue.
NextAssigns(now) ==
    /\ rate # 0 /\ head = "waits"
    /\ rate > 0 => ~Blocked(now)
    /\ head' = "assigned" /\ clock' = now
    /\ UNCHANGED <<rate, m_next, m_idle, charged>>

\* No assignable work: the head's Next finds none, or Refresh closes the
\* catalogue while the head's connection is on its way.
MarkIdle ==
    /\ rate # 0 /\ m_idle' = TRUE
    /\ UNCHANGED <<rate, m_next, head, clock, charged>>

TcpStarts(now) ==
    /\ head = "assigned" /\ Len(charged) < MaxStarts
    /\ IF rate > 0 THEN RecordStart(now) ELSE UNCHANGED <<m_next, m_idle, charged>>
    /\ head' = "waits" /\ clock' = now
    /\ UNCHANGED rate

\* The connection is given up before TCP starts: nothing is charged.
NotStarted ==
    /\ head = "assigned" /\ head' = "waits"
    /\ UNCHANGED <<rate, m_next, m_idle, clock, charged>>

RateNext ==
    \/ Configure \/ MarkIdle \/ NotStarted
    \/ \E now \in clock..MaxClock : NextAssigns(now) \/ TcpStarts(now)

RateSpec == RateInit /\ [][RateNext]_rateVars

-----------------------------------------------------------------------------
\* Types of the limiter; a deadline is set exactly when the configuration in
\* force has charged a start (connection_rate = {} in Configure).
RateTypeOK ==
    /\ rate \in Rates \cup {0}
    /\ m_next \in Nat \cup {Unset} /\ m_idle \in BOOLEAN
    /\ head \in {"waits", "assigned"} /\ clock \in 0..MaxClock
    /\ charged \in Seq([time : 0..MaxClock, resumed : BOOLEAN])
    /\ m_next = Unset <=> charged = <<>>

Gap(i, j) == charged[j].time - charged[i].time

\* However late the starts come, they never bunch up by more than the credit
\* of one second: "retain at most one second of accumulated lateness"
\* (p2c_connection_rate.h:16).  A hundred a second may be 102 at one instant.
BurstBounded ==
    \A j \in 1..Len(charged), i \in 1..Len(charged) :
        i < j => Gap(i, j) + SECOND >= (j - i - 1) * ChargeInterval

\* From the first start after a time without work the full interval lies
\* between starts: "True idle time banks no credit" (p2c_connection_rate.h:17),
\* also when the work went away between the gate and the start.
IdleBanksNothing ==
    \A j \in 1..Len(charged), i \in 1..Len(charged) :
        i < j /\ charged[i].resumed => Gap(i, j) >= (j - i) * ChargeInterval

\* The limiter keeps the configured rate up to the credit it documents: at most
\* a second of lateness, and none for idle time (RecordStart,
\* p2c_connection_rate.h:46).
RateKept == BurstBounded /\ IdleBanksNothing

\* Since the demand resumed at start i, no start came more than a second late.
OnTime(i) ==
    \A k \in i..Len(charged) :
        /\ k > i => ~charged[k].resumed
        /\ Gap(i, k) - SECOND <= (k - i + 1) * ChargeInterval

\* Under continuous demand a late timer or an occupied worker costs no start:
\* the deadline keeps the cadence of the first one ("timer delays and occupied
\* workers preserve the bounded catch-up cadence", p2c_connection_rate.h:18).
CadenceKept ==
    \A i \in 1..Len(charged) : charged[i].resumed /\ OnTime(i) =>
        m_next = charged[i].time + (Len(charged) - i + 1) * ChargeInterval
=============================================================================

----------------------------- MODULE P2CScheduler -----------------------------
(* The scheduler of the automatic claim worker (wallet/p2c_worker_impl.cpp):  *)
(* which bounty of which domain the next connection is for.  Domains are kept *)
(* in indexes that are updated one domain at a time (UpdateEconomicOrder) by  *)
(* the coordinator's Refresh, by Next, by DNS answers, by connection starts   *)
(* and by timers, while connection threads hold the DomainWork of a domain    *)
(* that may have been retired and replaced.                                   *)
(* A time is what is left until it.  A score is a reward times a rate.  Rate  *)
(* limits and the queue for admission are the subject of P2CConnectionRate    *)
(* and P2CAdmission: here one thread at a time is between Next and its TCP    *)
(* start.                                                                     *)
EXTENDS Integers, FiniteSets, FiniteSetsExt

CONSTANTS Threads,
          Bounties,             \* outpoints, in their order
          Domains,              \* domain names, in their order
          DomainOf, MaskOf, Reward, \* of each bounty
          MAX_MONEY,            \* bound on a reward
          Limit,                \* per bounty: the successful captures it is worth, or None
          Observations,         \* what a Refresh may find: the recent bounties, those of them
                                \* locked or spent, and the policies with a low measured rate
          HIGH, LOW,            \* the two rates
          MIN_P2C_EXPECTED_RETURN,
          MAX_PENDING_CLAIMS,
          DNS_REFRESH,          \* time between two resolutions
          Watched,              \* a domain whose turns are counted
          None

Masks == {MaskOf[b] : b \in Bounties}
PolicyKeys == {<<DomainOf[b], MaskOf[b]>> : b \in Bounties}

ASSUME SchedulerAssumption ==
    /\ IsFiniteSet(Threads) /\ IsFiniteSet(Bounties) /\ IsFiniteSet(Domains)
    /\ Bounties \subseteq Nat /\ Domains \subseteq Nat /\ Watched \in Domains
    /\ DomainOf \in [Bounties -> Domains]
    /\ Reward \in [Bounties -> 0..MAX_MONEY]
    /\ Limit \in [Bounties -> (Nat \ {0}) \cup {None}]
    /\ \A o \in Observations : o.recent \subseteq Bounties /\ o.lost \subseteq Bounties
    /\ {HIGH, LOW, MAX_MONEY} \subseteq Nat
    /\ {DNS_REFRESH, MAX_PENDING_CLAIMS} \subseteq Nat \ {0}
    /\ None \notin Nat /\ None \notin Threads
    /\ None \notin [t : Threads, prepared_only : BOOLEAN, turns : Nat]

VARIABLES groups,        \* the DomainWork of the domains that have one
          index,         \* the five ordered sets of domains
          catalog_ready, domain_after, prefer_reward,
          proposals,     \* bounties with a saved challenge
          claim_cache,   \* bounties with a cached claim
          unavailable,   \* those whose claim is cancelled
          completed,     \* bounties with a proof to be submitted
          successes,     \* bounty_successful_connections
          due,           \* the wait that P2CRecoveryPolicy::Due tells, the same for all policies
          reservation,   \* the thread with the recovery reservation, or None
          away,          \* the wait until the endpoints' family has a route
          thread,        \* the connection threads
          loop,          \* the loop of Next under work_mutex, or None
          offered,       \* history: Watched was a candidate when the assigned domain was chosen
          skipped        \* history: connections to others that were chosen in its place, while it is ready

claimVars == <<proposals, claim_cache, unavailable, completed, successes>>
turnVars == <<domain_after, prefer_reward>>
recoveryVars == <<due, reservation>>
historyVars == <<offered, skipped>>
vars == <<groups, index, catalog_ready, turnVars, claimVars, recoveryVars, away, thread, loop, historyVars>>

-----------------------------------------------------------------------------
(* The indexes                                                             *)

\* The order of pairs of a score and a PriorityKey; g and h hold the rates.
Score(g, b) == Reward[b] * g.rate[MaskOf[b]]
Precedes(g, b, h, c) ==
    \/ Score(g, b) > Score(h, c)
    \/ Score(g, b) = Score(h, c) /\ Reward[b] > Reward[c]
    \/ Score(g, b) = Score(h, c) /\ Reward[b] = Reward[c] /\ b <= c
Best(g, S) == IF S = {} THEN None ELSE CHOOSE b \in S : \A c \in S : Precedes(g, b, g, c)

\* What an update of group n depends on besides the group.
Env == [ready |-> catalog_ready, away |-> away, due |-> due]

Waiting(e, g) == {m \in g.recovery : e.due > 0 /\ \E b \in g.bounties : MaskOf[b] = m}
Open(g, waiting) == {b \in g.bounties : MaskOf[b] \notin waiting}
HasWork(e, g, open) == open # {} /\ ~g.resolving /\ e.ready
Unresolved(g) == ~g.endpoints /\ g.resolve_after > 0
NoneAvailable(e, g) == g.endpoints /\ g.resolve_after > 0 /\ e.away > 0
Ready(e, g) == g.economic_key # None /\ ~g.resolving /\ e.ready /\ ~Unresolved(g) /\ ~NoneAvailable(e, g)

Dues(e, g, waiting, open) ==
    {e.due : m \in waiting}
    \cup {w \in {g.resolve_after} : HasWork(e, g, open) /\ Unresolved(g)}
    \cup {w \in {1} : HasWork(e, g, open) /\ NoneAvailable(e, g)}
Earliest(dues) == IF dues = {} THEN None ELSE Min(dues)
KeyedOver(e, g, waiting, open) ==
    [g EXCEPT !.economic_key = Best(g, open),
              !.prepared_economic_key = Best(g, open \cap g.prepared),
              !.schedule_after = Earliest(Dues(e, g, waiting, open))]
Keyed(e, g) == KeyedOver(e, g, Waiting(e, g), Open(g, Waiting(e, g)))

\* Under the keys they hold, where the groups gs are entered and what is erased first.
Entries(e, gs) ==
    LET names == {n \in DOMAIN gs : Ready(e, gs[n])}
        prepared == {n \in names : gs[n].prepared_economic_key # None}
        scheduled == {n \in DOMAIN gs : gs[n].schedule_after # None /\ ~gs[n].resolving}
    IN  [economic_order |-> {<<gs[n].economic_key, n>> : n \in names},
         ready_domains |-> names,
         prepared_economic_order |-> {<<gs[n].prepared_economic_key, n>> : n \in prepared},
         ready_prepared_domains |-> prepared,
         scheduled_domains |-> {<<gs[n].schedule_after, n>> : n \in scheduled}]
\* Mutant: the entry of the prepared leader is left.
ErasedNotPrepared(ix, gs) ==
    [ix EXCEPT !.economic_order = @ \ {<<gs[n].economic_key, n>> : n \in DOMAIN gs},
               !.ready_domains = @ \ DOMAIN gs, !.ready_prepared_domains = @ \ DOMAIN gs,
               !.scheduled_domains = @ \ {<<gs[n].schedule_after, n>> : n \in DOMAIN gs}]
Erased(ix, gs) ==
    [economic_order |-> ix.economic_order \ {<<gs[n].economic_key, n>> : n \in DOMAIN gs},
     ready_domains |-> ix.ready_domains \ DOMAIN gs,
     prepared_economic_order |->
        ix.prepared_economic_order \ {<<gs[n].prepared_economic_key, n>> : n \in DOMAIN gs},
     ready_prepared_domains |-> ix.ready_prepared_domains \ DOMAIN gs,
     scheduled_domains |-> ix.scheduled_domains \ {<<gs[n].schedule_after, n>> : n \in DOMAIN gs}]
Joined(ix, iy) ==
    [economic_order |-> ix.economic_order \cup iy.economic_order,
     ready_domains |-> ix.ready_domains \cup iy.ready_domains,
     prepared_economic_order |-> ix.prepared_economic_order \cup iy.prepared_economic_order,
     ready_prepared_domains |-> ix.ready_prepared_domains \cup iy.ready_prepared_domains,
     scheduled_domains |-> ix.scheduled_domains \cup iy.scheduled_domains]
EmptyIndex == [economic_order |-> {}, ready_domains |-> {}, prepared_economic_order |-> {},
               ready_prepared_domains |-> {}, scheduled_domains |-> {}]

\* UpdateEconomicOrder, of the groups that became gs; u holds all groups and the
\* index.  It touches the entries of its own domain only, so a loop of it is one step.
Entered(e, u, gs, ks) ==
    [groups |-> [n \in DOMAIN u.groups \cup DOMAIN ks |-> IF n \in DOMAIN ks THEN ks[n] ELSE u.groups[n]],
     index |-> Joined(Erased(u.index, gs), Entries(e, ks))]
UpdateGroups(e, u, gs) == Entered(e, u, gs, [n \in DOMAIN gs |-> Keyed(e, gs[n])])
UpdateEconomicOrder(e, u, n, g) == UpdateGroups(e, u, [m \in {n} |-> g])
UpdateAll(e, u, names) == UpdateGroups(e, u, [n \in names |-> u.groups[n]])

Become(u) == \E v \in {u} : groups' = v.groups /\ index' = v.index
Current == [groups |-> groups, index |-> index]
Update(n, g) == Become(UpdateEconomicOrder(Env, Current, n, g))

Forgotten(g, bs) == [g EXCEPT !.prepared = @ \ bs]
Live == DOMAIN groups

\* ForgetPrepared.
ForgetPrepared(u, b) ==
    IF DomainOf[b] \in DOMAIN u.groups /\ b \in u.groups[DomainOf[b]].prepared
    THEN UpdateEconomicOrder(Env, u, DomainOf[b], Forgotten(u.groups[DomainOf[b]], {b}))
    ELSE u

\* PromoteScheduled.
DueDomains == {s \in index.scheduled_domains : s[1] = 0}
PromoteScheduled ==
    UpdateAll(Env, [Current EXCEPT !.index.scheduled_domains = @ \ DueDomains], {s[2] : s \in DueDomains} \cap Live)

-----------------------------------------------------------------------------
(* Claims                                                                  *)

Idle == [pc |-> "queue", b |-> None, retired |-> FALSE, economic |-> FALSE, probe |-> FALSE,
         prepared_only |-> FALSE, orphan |-> FALSE]
\* use_count above one; a claim erased under its users is nobody's entry.
InUse(b) == \E t \in Threads : thread[t].b = b /\ ~thread[t].orphan
\* The DomainWork that t holds is the one in groups.
Holds(t, n) == n \in Live /\ ~thread[t].retired
ConnectionLimitExceeded(b) == Limit[b] # None /\ successes[b] >= Limit[b]
Cancelled(t) == thread[t].orphan \/ thread[t].b \in unavailable

-----------------------------------------------------------------------------
(* Refresh                                                                 *)

NewGroup ==
    [bounties |-> {}, prepared |-> {}, rate |-> [m \in Masks |-> HIGH], recovery |-> {}, endpoints |-> FALSE,
     economic_key |-> None, prepared_economic_key |-> None, resolve_after |-> 0, schedule_after |-> None,
     resolving |-> FALSE]

IsP2CClaimWorthAttempting(b, rate) == Reward[b] * rate >= MIN_P2C_EXPECTED_RETURN

\* Per policy the bounties worth their effort, or else the best of the others to
\* sample the policy with.
ConnectionRate(p, low) == IF p \in low THEN LOW ELSE HIGH
Worth(S, low) == {b \in S : IsP2CClaimWorthAttempting(b, ConnectionRate(<<DomainOf[b], MaskOf[b]>>, low))}
InDomain(S, n) == {b \in S : DomainOf[b] = n}
Preferred(b, c) == Reward[b] > Reward[c] \/ (Reward[b] = Reward[c] /\ b <= c)
SamePolicy(b, c) == DomainOf[b] = DomainOf[c] /\ MaskOf[b] = MaskOf[c]
Sampled(S, worth) ==
    {b \in S \ worth : \A c \in S : SamePolicy(b, c) => c \notin worth /\ Preferred(b, c)}

Rebuilt(n, worth, sampled, low) ==
    [(IF n \in Live THEN groups[n] ELSE NewGroup) EXCEPT
        !.bounties = InDomain(worth \cup sampled, n), !.prepared = InDomain(worth \cup sampled, n) \cap proposals,
        !.rate = [m \in Masks |-> ConnectionRate(<<n, m>>, low)],
        !.recovery = {MaskOf[b] : b \in InDomain(sampled, n)},
        !.economic_key = None, !.prepared_economic_key = None, !.schedule_after = None]
Rebuild(e, worth, sampled, low) ==
    UpdateGroups(e, [groups |-> <<>>, index |-> EmptyIndex],
                 [n \in {DomainOf[b] : b \in worth \cup sampled} |-> Rebuilt(n, worth, sampled, low)])

\* Refresh, with the recent bounties of the catalog, those of them or of the cache
\* that are locked or spent, and the measured rates.
Retired(recent) == {b \in claim_cache \ completed : ~InUse(b) /\ (b \notin recent \/ b \in unavailable)}
\* The group that t holds is erased from groups.
Retires(t) == thread[t].pc \in {"resolve", "assigned"} /\ DomainOf[thread[t].b] \notin DOMAIN groups'
Eligible(S) == {b \in S : b \notin unavailable' /\ ~ConnectionLimitExceeded(b)}
RebuildFrom(ready, S, low) ==
    \E eligible \in {Eligible(S)} : \E worth \in {Worth(eligible, low)} : \E sampled \in {Sampled(eligible, worth)} :
        Become(Rebuild([Env EXCEPT !.ready = ready], worth, sampled, low))
Refresh(ready, recent, lost, low) ==
    /\ loop = None
    /\ catalog_ready' = ready
    /\ claim_cache' = claim_cache \ Retired(recent)
    /\ unavailable' = {b \in claim_cache' : ~ready \/ b \in lost \cup unavailable}
    /\ successes' = [b \in Bounties |-> IF b \in recent \cup claim_cache' \cup completed THEN successes[b] ELSE 0]
    /\ RebuildFrom(ready, IF ready THEN recent \ lost ELSE {}, low)
    /\ thread' = [t \in Threads |-> [thread[t] EXCEPT !.retired = @ \/ Retires(t)]]
    /\ UNCHANGED <<turnVars, proposals, completed, recoveryVars, away, loop>>

\* Refresh where the catalog cannot be read.
RefreshFails ==
    /\ loop = None
    /\ catalog_ready' = FALSE
    /\ index' = [EmptyIndex EXCEPT !.scheduled_domains = index.scheduled_domains]
    /\ UNCHANGED <<groups, turnVars, claimVars, recoveryVars, away, thread, loop>>

-----------------------------------------------------------------------------
(* Next: a step is an iteration of its loop, all of them under work_mutex. *)
(* An iteration starts from the groups and the index u.                    *)

Again(l) == loop' = [l EXCEPT !.turns = @ + 1]

\* The candidate: the first domain of the economic order, or the next of the fair
\* rotation.
Orders(u, l) == IF l.prepared_only THEN u.index.prepared_economic_order ELSE u.index.economic_order
Names(u, l) == IF l.prepared_only THEN u.index.ready_prepared_domains ELSE u.index.ready_domains
\* Mutant: lower_bound for upper_bound.
AfterOrSame(names) == {n \in names : domain_after # None /\ n >= domain_after}
After(names) == {n \in names : domain_after # None /\ n > domain_after}
FairDomain(names) == IF After(names) = {} THEN Min(names) ELSE Min(After(names))
EconomicDomain(gs, orders) ==
    (CHOOSE x \in orders : \A y \in orders : Precedes(gs[x[2]], x[1], gs[y[2]], y[1]))[2]
ChosenDomain(u, l) == IF prefer_reward THEN EconomicDomain(u.groups, Orders(u, l)) ELSE FairDomain(Names(u, l))
NoCandidate(u, l) == IF prefer_reward THEN Orders(u, l) = {} ELSE Names(u, l) = {}
Leader(g, l) == IF l.prepared_only THEN g.prepared_economic_key ELSE g.economic_key

\* Mutant: the bounty stays in its mask's order.
DiscardedKept(g, b) == Forgotten(g, {b})
Discarded(g, b) == [Forgotten(g, {b}) EXCEPT !.bounties = @ \ {b}]
Discard(u, l, b) ==
    /\ Become(UpdateEconomicOrder(Env, u, DomainOf[b], Discarded(u.groups[DomainOf[b]], b)))
    /\ Again(l) /\ UNCHANGED <<thread, reservation>>

Assigned(l, b, pc, probe) ==
    /\ thread' = [thread EXCEPT ![l.t] =
          [pc |-> pc, b |-> b, retired |-> FALSE, economic |-> prefer_reward /\ pc = "assigned", probe |-> probe,
           prepared_only |-> l.prepared_only /\ pc = "assigned", orphan |-> FALSE]]
    /\ loop' = None

Refused(u, n) == UpdateEconomicOrder(Env, u, n, u.groups[n])
Reservable == reservation = None /\ due = 0
Assign(u, l, b, n, g) ==
    \/ /\ g.resolve_after = 0
       /\ Become(UpdateEconomicOrder(Env, u, n, [g EXCEPT !.resolving = TRUE]))
       /\ Assigned(l, b, "resolve", FALSE) /\ UNCHANGED reservation
    \/ /\ g.resolve_after > 0 /\ MaskOf[b] \in g.recovery /\ ~Reservable
       /\ Become(Refused(u, n)) /\ Again(l) /\ UNCHANGED <<reservation, thread>>
    \/ /\ g.resolve_after > 0 /\ (MaskOf[b] \in g.recovery => Reservable)
       /\ reservation' = IF MaskOf[b] \in g.recovery THEN l.t ELSE reservation
       /\ Become(u) /\ Assigned(l, b, "assigned", MaskOf[b] \in g.recovery)
AssignFrom(u, l, b) == Assign(u, l, b, DomainOf[b], u.groups[DomainOf[b]])

\* PrepareP2CClaim or ResumeP2CClaim, which may refuse; a refusal also stands for a
\* payout that is no longer worth attempting.
Prepared(u, b) ==
    UpdateEconomicOrder(Env, u, DomainOf[b], [u.groups[DomainOf[b]] EXCEPT !.prepared = @ \cup {b}])
Prepare(u, l, b, saved, cache) ==
    \/ Discard(u, l, b) /\ proposals' = saved /\ claim_cache' = cache
    \/ /\ proposals' = saved \cup {b}
       /\ claim_cache' = cache \cup {b}
       /\ AssignFrom(Prepared(u, b), l, b)

\* The first saved challenge that is neither proved nor worked on.
Evictable == {b \in proposals : b \notin completed /\ ~(b \in claim_cache /\ InUse(b))}
EvictThenPrepare(u, l, b, old) ==
    /\ Prepare(ForgetPrepared(u, old), l, b, proposals \ {old}, claim_cache \ {old})
    /\ unavailable' = unavailable \ {old}

Full == Cardinality(proposals) >= MAX_PENDING_CLAIMS
Iterate(u, l, b) ==
    \/ /\ ConnectionLimitExceeded(b) \/ b \in unavailable
       /\ Discard(u, l, b) /\ UNCHANGED <<proposals, claim_cache, unavailable>>
    \/ /\ ~ConnectionLimitExceeded(b)
       /\ \/ /\ b \in claim_cache \ unavailable
             /\ AssignFrom(u, l, b) /\ UNCHANGED <<proposals, claim_cache, unavailable>>
          \/ /\ b \notin claim_cache
             /\ b \in proposals \/ ~Full
             /\ Prepare(u, l, b, proposals, claim_cache) /\ UNCHANGED unavailable
          \/ /\ b \notin claim_cache /\ b \notin proposals /\ Full
             /\ IF Evictable # {} THEN EvictThenPrepare(u, l, b, Min(Evictable))
                ELSE /\ Become(u) /\ Again([l EXCEPT !.prepared_only = TRUE])
                     /\ UNCHANGED <<proposals, claim_cache, unavailable, thread, reservation>>

NextFrom(u, l) ==
    /\ IF NoCandidate(u, l) THEN Become(u) /\ loop' = None /\ UNCHANGED <<proposals, claim_cache, unavailable, thread, reservation>>
       ELSE Iterate(u, l, Leader(u.groups[ChosenDomain(u, l)], l))
    /\ UNCHANGED <<catalog_ready, turnVars, completed, successes, due, away>>

BeginNext(t) ==
    /\ loop = None /\ catalog_ready
    /\ thread[t].pc = "queue" /\ \A u \in Threads : thread[u].pc # "assigned"
    /\ NextFrom(PromoteScheduled, [t |-> t, prepared_only |-> FALSE, turns |-> 0])
ContinueNext == loop # None /\ NextFrom(Current, loop)

-----------------------------------------------------------------------------
(* Connect                                                                 *)

ReleaseReservation(t) == reservation' = IF reservation = t THEN None ELSE reservation
Leave(t) == thread' = [thread EXCEPT ![t] = Idle]

\* The answer of the resolver, for a group that may have been retired meanwhile.
\* Mutant: an answer that comes while the catalog is closed is dropped.
ResolvedWhenReady(t, n) == Holds(t, n) /\ catalog_ready
ResolvedCurrent(t, n) == Holds(t, n)
EndResolve(t, ok) ==
    LET n == DomainOf[thread[t].b]
    IN  /\ loop = None /\ thread[t].pc = "resolve"
        /\ IF ResolvedCurrent(t, n)
           THEN Update(n, [groups[n] EXCEPT !.resolving = FALSE, !.endpoints = ok,
                                            !.resolve_after = IF ok THEN DNS_REFRESH ELSE 1])
           ELSE UNCHANGED <<groups, index>>
        /\ Leave(t)
        /\ UNCHANGED <<catalog_ready, turnVars, claimVars, recoveryVars, away, loop>>

\* Everything that ends an attempt before its TCP start.
GiveUp(t) ==
    /\ loop = None /\ thread[t].pc = "assigned"
    /\ ReleaseReservation(t) /\ Leave(t)
    /\ UNCHANGED <<groups, index, catalog_ready, turnVars, claimVars, due, away, loop>>

\* on_local_unavailable: the family of the endpoint has no route.
Reject(t) ==
    /\ loop = None /\ thread[t].pc = "assigned"
    /\ away' = 1
    /\ Become(UpdateAll([Env EXCEPT !.away = 1], Current, Live))
    /\ ReleaseReservation(t) /\ Leave(t)
    /\ UNCHANGED <<catalog_ready, turnVars, claimVars, due, loop>>

EligibleToStart(t) ==
    LET b == thread[t].b
        n == DomainOf[b]
    IN  /\ catalog_ready /\ ~Cancelled(t) /\ Holds(t, n)
        /\ b = IF thread[t].prepared_only THEN groups[n].prepared_economic_key ELSE groups[n].economic_key
        /\ (MaskOf[b] \in groups[n].recovery) = thread[t].probe
        /\ thread[t].probe => reservation = t
        /\ groups[n].endpoints /\ away = 0
        /\ ~ConnectionLimitExceeded(b)

\* on_tcp_started; a recovery start moves the deadline of all policies.
TcpStarted(t) ==
    LET b == thread[t].b
        n == DomainOf[b]
    IN  /\ loop = None /\ thread[t].pc = "assigned" /\ EligibleToStart(t)
        /\ due' = IF thread[t].probe THEN 1 ELSE due
        /\ ReleaseReservation(t)
        /\ domain_after' = IF thread[t].economic THEN domain_after ELSE n
        /\ prefer_reward' = ~thread[t].economic
        /\ Become(UpdateEconomicOrder([Env EXCEPT !.due = due'], Current, n, groups[n]))
        /\ thread' = [thread EXCEPT ![t] = [Idle EXCEPT !.pc = "started", !.b = b]]
        /\ UNCHANGED <<catalog_ready, claimVars, away, loop>>

\* The end of a connection: without a capture, with one, or with one whose work
\* hash meets the target.
Counted(b) == [successes EXCEPT ![b] = IF Limit[b] = None THEN @ ELSE @ + 1]
CaptureEnds(t, outcome) ==
    /\ loop = None /\ thread[t].pc = "started"
    /\ successes' = IF outcome = "failed" THEN successes ELSE Counted(thread[t].b)
    /\ IF outcome = "proof" /\ ~Cancelled(t)
       THEN completed' = completed \cup {thread[t].b} /\ unavailable' = unavailable \cup {thread[t].b}
       ELSE UNCHANGED <<completed, unavailable>>
    /\ Leave(t)
    /\ UNCHANGED <<groups, index, catalog_ready, turnVars, proposals, claim_cache, recoveryVars, away, loop>>

-----------------------------------------------------------------------------
(* The coordinator, and time                                               *)

\* SubmitReady: the proof of b is submitted, or its bounty was lost.
SubmitReady(b) ==
    /\ loop = None
    /\ Become(ForgetPrepared(Current, b))
    /\ completed' = completed \ {b} /\ proposals' = proposals \ {b}
    /\ claim_cache' = claim_cache \ {b} /\ unavailable' = unavailable \ {b}
    /\ thread' = [t \in Threads |-> IF thread[t].b = b THEN [thread[t] EXCEPT !.orphan = TRUE] ELSE thread[t]]
    /\ UNCHANGED <<successes, catalog_ready, turnVars, recoveryVars, away, loop>>

Promote ==
    /\ loop = None /\ DueDomains # {}
    /\ Become(PromoteScheduled)
    /\ UNCHANGED <<catalog_ready, turnVars, claimVars, recoveryVars, away, thread, loop>>

Less(w) == IF w = None \/ w = 0 THEN w ELSE w - 1
Tick ==
    /\ loop = None
    /\ groups' = [n \in Live |-> [groups[n] EXCEPT !.resolve_after = Less(@), !.schedule_after = Less(@)]]
    /\ index' = [index EXCEPT !.scheduled_domains = {<<Less(s[1]), s[2]>> : s \in @}]
    /\ due' = Less(due)
    /\ away' = Less(away)
    /\ UNCHANGED <<catalog_ready, turnVars, claimVars, reservation, thread, loop>>

Init ==
    /\ groups = <<>> /\ index = EmptyIndex
    /\ catalog_ready = FALSE /\ domain_after = None /\ prefer_reward = FALSE
    /\ proposals = {} /\ claim_cache = {} /\ unavailable = {} /\ completed = {}
    /\ successes = [b \in Bounties |-> 0]
    /\ due = 0 /\ reservation = None
    /\ away = 0
    /\ thread = [t \in Threads |-> Idle] /\ loop = None
    /\ offered = FALSE /\ skipped = 0

Step ==
    \/ \E o \in Observations : Refresh(TRUE, o.recent, o.lost, o.low)
    \/ Refresh(FALSE, Bounties, {}, {})
    \/ RefreshFails \/ Promote \/ Tick \/ ContinueNext
    \/ \E b \in completed : SubmitReady(b)
    \/ \E t \in Threads :
          \/ BeginNext(t) \/ GiveUp(t) \/ Reject(t) \/ TcpStarted(t)
          \/ \E ok \in BOOLEAN : EndResolve(t, ok)
          \/ \E outcome \in {"failed", "captured", "proof"} : CaptureEnds(t, outcome)

\* The history: what the last choice was made from, and the connections that started.
Candidates(l) == Names(IF loop = None THEN PromoteScheduled ELSE Current, l)
Offers(t) == IF thread[t].pc = "assigned" THEN offered ELSE Watched \in Candidates(thread'[t])
Starts(t) == thread[t].pc = "assigned" /\ thread'[t].pc = "started"
SkippedBy(t) == IF DomainOf[thread[t].b] = Watched \/ ~offered THEN 0 ELSE skipped + 1
Skips ==
    /\ offered' = \E t \in Threads : thread'[t].pc = "assigned" /\ Offers(t)
    /\ \/ Watched \notin index'.ready_domains /\ skipped' = 0
       \/ /\ Watched \in index'.ready_domains
          /\ \/ \E t \in Threads : Starts(t) /\ skipped' = SkippedBy(t)
             \/ (\A t \in Threads : ~Starts(t)) /\ UNCHANGED skipped

Next == Step /\ Skips
Spec == Init /\ [][Next]_vars

-----------------------------------------------------------------------------
(* Properties                                                              *)

TypeOK ==
    /\ \A n \in Live : groups[n].bounties \subseteq Bounties /\ groups[n].prepared \subseteq groups[n].bounties
    /\ Cardinality(proposals) <= MAX_PENDING_CLAIMS
    /\ unavailable \subseteq claim_cache /\ claim_cache \subseteq proposals /\ completed \subseteq proposals
    /\ domain_after \in Domains \cup {None} /\ reservation \in Threads \cup {None}

\* Next never meets a domain that is gone or a leader that is no longer listed: what
\* the indexes hold are current groups under their current keys, so that groups.at and
\* the assertions on the candidate hold (p2c_worker_impl.cpp:706, 727).
IndexesValid ==
    /\ \A x \in index.economic_order :
          x[2] \in Live /\ x[1] = groups[x[2]].economic_key /\ x[1] \in groups[x[2]].bounties
    /\ \A x \in index.prepared_economic_order :
          x[2] \in Live /\ x[1] = groups[x[2]].prepared_economic_key /\ x[1] \in groups[x[2]].bounties
    /\ index.ready_domains = {x[2] : x \in index.economic_order}
    /\ index.ready_prepared_domains = {x[2] : x \in index.prepared_economic_order}

\* No domain with work is forgotten: it is in the ready sets, or it has a timer that
\* will put it there, or a thread that holds this very group is resolving it and will
\* ("A refresh may have retired this domain while DNS ran", p2c_worker_impl.cpp:859).
NoDomainForgotten ==
    catalog_ready => \A n \in Live :
        groups[n].bounties = {}
        \/ n \in index.ready_domains
        \/ (~groups[n].resolving /\ \E s \in index.scheduled_domains : s[2] = n)
        \/ (groups[n].resolving /\ \E t \in Threads : thread[t].pc = "resolve" /\ DomainOf[thread[t].b] = n /\ Holds(t, n))

\* What the indexes call prepared has its challenge saved, so that no slot is needed
\* for it when every saved challenge is live ("Defensive against a retired saved
\* proposal", p2c_worker_impl.cpp:733).
PreparedSaved == \A n \in Live : groups[n].prepared \subseteq proposals

\* Next comes to an end under work_mutex: each turn of its loop loses a bounty, a
\* policy that must wait, or the choice of unprepared bounties.
NextEnds == loop # None => loop.turns <= 2 * Cardinality(Bounties) + 1

\* A domain that is among the candidates gets its connection within two rounds of the
\* domains, however the rewards compare, and whatever refreshes, answers and timers come
\* between a choice and its start (the fair rotation by domain_after,
\* p2c_worker_impl.cpp:709).
FairTurn == skipped < 2 * Cardinality(Domains)

\* The budget of a bounty is overshot by the attempts in flight only.
BudgetKept == \A b \in Bounties : Limit[b] # None => successes[b] < Limit[b] + Cardinality(Threads)

\* What one decision of the scheduler rests on, taken together: the indexes describe
\* the groups, prepared bounties have their challenge, and no bounty is connected to
\* beyond its budget (Next and Connect under work_mutex, p2c_worker_impl.cpp:687, 881).
ScheduleSound == TypeOK /\ IndexesValid /\ PreparedSaved /\ BudgetKept
=============================================================================

------------------------- MODULE P2CSchedulerProofs -------------------------
(***************************************************************************)
(* The scheduler of the claim worker for every number of threads, bounties *)
(* and domains, and every schedule of refreshes, DNS answers and timers.   *)
(*                                                                         *)
(* An update of groups keeps the index consistent with them and attends to *)
(* the updated groups, whatever the rest of the index holds (UpdateFacts); *)
(* the actions are then compared by the groups they update.                *)
(***************************************************************************)
EXTENDS P2CScheduler, FiniteSetFacts, TLAPS

\* Zenon is the prover of this module; a leaf that needs another one names it.
USE Zenon

Key == Bounties \cup {None}
Group ==
    [bounties : SUBSET Bounties, prepared : SUBSET Bounties, rate : [Masks -> {HIGH, LOW}], recovery : SUBSET Masks,
     endpoints : BOOLEAN, economic_key : Key, prepared_economic_key : Key, resolve_after : Nat,
     schedule_after : Nat \cup {None}, resolving : BOOLEAN]
EnvType == [ready : BOOLEAN, away : Nat, due : Nat]
ThreadType ==
    [pc : {"queue", "resolve", "assigned", "started"}, b : Key, retired : BOOLEAN, economic : BOOLEAN, probe : BOOLEAN,
     prepared_only : BOOLEAN, orphan : BOOLEAN]
LoopType == [t : Threads, prepared_only : BOOLEAN, turns : Nat]

\* A group of domain n, before or after its keys are computed.
GroupOf(n, g) == g \in Group /\ g.prepared \subseteq g.bounties /\ \A b \in g.bounties : DomainOf[b] = n

\* The index is that of the groups.
IndexOf(gs, ix) ==
    /\ ix.economic_order = {<<gs[n].economic_key, n>> : n \in ix.ready_domains}
    /\ ix.prepared_economic_order = {<<gs[n].prepared_economic_key, n>> : n \in ix.ready_prepared_domains}
    /\ ix.ready_domains \subseteq DOMAIN gs /\ ix.ready_prepared_domains \subseteq DOMAIN gs
    /\ ix.scheduled_domains \subseteq Nat \X Domains
    /\ \A n \in ix.ready_domains : gs[n].economic_key \in gs[n].bounties
    /\ \A n \in ix.ready_prepared_domains : gs[n].prepared_economic_key \in gs[n].prepared
GroupsOK(gs) ==
    /\ DOMAIN gs \subseteq Domains /\ gs = [n \in DOMAIN gs |-> gs[n]]
    /\ \A n \in DOMAIN gs : GroupOf(n, gs[n])
WorkOK(u) ==
    /\ u = [groups |-> u.groups, index |-> u.index]
    /\ DOMAIN u.index = DOMAIN EmptyIndex
    /\ GroupsOK(u.groups) /\ IndexOf(u.groups, u.index)

\* gs are groups of u that keep their keys, or that u has no entries of.
Updates(u, gs) ==
    /\ GroupsOK(gs)
    /\ \A n \in DOMAIN gs \cap u.index.ready_domains : gs[n].economic_key = u.groups[n].economic_key
    /\ \A n \in DOMAIN gs \cap u.index.ready_prepared_domains :
          gs[n].prepared_economic_key = u.groups[n].prepared_economic_key

\* What an update leaves of a group.
SameWork(g, h) ==
    /\ g.bounties = h.bounties /\ g.prepared = h.prepared /\ g.rate = h.rate /\ g.recovery = h.recovery
    /\ g.endpoints = h.endpoints /\ g.resolve_after = h.resolve_after /\ g.resolving = h.resolving
Scheduled(ix, n) == \E s \in ix.scheduled_domains : s[2] = n
Attended(gs, ix, n) ==
    gs[n].bounties = {} \/ n \in ix.ready_domains \/ gs[n].resolving \/ Scheduled(ix, n)
\* The keys are not those of a policy that must wait.
Unstale(g) ==
    /\ g.economic_key # None => MaskOf[g.economic_key] \notin g.recovery
    /\ g.prepared_economic_key # None => MaskOf[g.prepared_economic_key] \notin g.recovery

\* The invariant.
Types ==
    /\ {catalog_ready, prefer_reward, offered} \subseteq BOOLEAN /\ {due, away, skipped} \subseteq Nat
    /\ domain_after \in Domains \cup {None} /\ reservation \in Threads \cup {None}
    /\ proposals \subseteq Bounties /\ successes \in [Bounties -> Nat]
    /\ thread \in [Threads -> ThreadType] /\ loop \in LoopType \cup {None}

Claims ==
    /\ Cardinality(proposals) <= MAX_PENDING_CLAIMS
    /\ unavailable \subseteq claim_cache /\ claim_cache \subseteq proposals /\ completed \subseteq proposals
    /\ PreparedSaved
    /\ \A t \in Threads : thread[t].pc # "queue" => thread[t].b \in Bounties
    /\ \A t \in Threads : thread[t].b # None /\ ~thread[t].orphan => thread[t].b \in claim_cache

\* One thread at a time is between Next and its TCP start.
Turns ==
    /\ \A t, u \in Threads : thread[t].pc = "assigned" /\ thread[u].pc = "assigned" => t = u
    /\ loop # None => thread[loop.t].pc = "queue" /\ \A t \in Threads : thread[t].pc # "assigned"
    /\ reservation # None => thread[reservation].pc = "assigned"
    /\ \A t \in Threads : thread[t].pc = "assigned" => thread[t].economic = prefer_reward

Started(b) == {t \in Threads : thread[t].pc = "started" /\ thread[t].b = b}
Budgeted ==
    \A b \in Bounties : Limit[b] # None =>
        successes[b] + Cardinality(Started(b)) < Limit[b] + Cardinality(Threads)

\* What the loop of Next has left to lose.
Listed(gs) == {b \in Bounties : DomainOf[b] \in DOMAIN gs /\ b \in gs[DomainOf[b]].bounties}
Stale(gs) ==
    {b \in Bounties :
        LET n == DomainOf[b]
        IN  /\ due > 0 /\ n \in DOMAIN gs
            /\ b \in {gs[n].economic_key, gs[n].prepared_economic_key} /\ MaskOf[b] \in gs[n].recovery}
Left(l, gs) == l.turns + Cardinality(Listed(gs)) + Cardinality(Stale(gs))
MaxLeft(l) == 2 * Cardinality(Bounties) + (IF l.prepared_only THEN 1 ELSE 0)
Shrinks == loop # None => Left(loop, groups) <= MaxLeft(loop)

\* The domains whose fair turn comes before that of Watched.
Ahead(d) ==
    {m \in Domains \ {Watched} :
        \/ (d = None \/ d >= Watched) /\ m < Watched
        \/ d # None /\ d >= Watched /\ m > d
        \/ d # None /\ d < Watched /\ d < m /\ m < Watched}
Rotates ==
    /\ skipped + 2 * Cardinality(Ahead(domain_after)) + (IF prefer_reward THEN 1 ELSE 0) < 2 * Cardinality(Domains)
    /\ \A t \in Threads : thread[t].pc = "assigned" /\ offered /\ ~prefer_reward =>
          DomainOf[thread[t].b] \in Ahead(domain_after) \cup {Watched}

\* Every group is ready, or timed, or resolved by a thread that holds it.
AllAttended(u) == catalog_ready => \A n \in DOMAIN u.groups : Attended(u.groups, u.index, n)
ResolverOf(n, t) == thread[t].pc = "resolve" /\ DomainOf[thread[t].b] = n /\ ~thread[t].retired
Resolvers(gs) == \A n \in DOMAIN gs : gs[n].resolving => \E t \in Threads : ResolverOf(n, t)

SchedulerInv ==
    /\ Types /\ WorkOK(Current) /\ Claims /\ AllAttended(Current) /\ Resolvers(groups)
    /\ Turns /\ Budgeted /\ Shrinks /\ Rotates

-----------------------------------------------------------------------------
(* Numbers                                                                 *)

LEMMA MinNat == ASSUME LibraryFacts, NEW T \in SUBSET Nat, T # {} PROVE Min(T) \in T /\ \A y \in T : Min(T) <= y
  BY DEF LibraryFacts, LeastFact, Min

\* A number may grow by one where another one shrinks.
LEMMA OneTraded ==
  ASSUME NEW m \in Nat, NEW k \in Nat, NEW l \in Nat, NEW n \in Nat, m + k < l + n
  PROVE  \A x : x = m \/ x = m + 1 => x + (k - 1) < l + n
  BY SMT

\* The greatest value of a bounded function.
LEMMA GreatestValue ==
  ASSUME LibraryFacts, NEW X, X # {}, NEW K \in Nat, NEW s \in [X -> 0..K]
  PROVE  \E x \in X : \A y \in X : s[y] <= s[x]
  <1>. DEFINE T == {K - s[x] : x \in X}
  <1>1. \A x \in X : s[x] \in Nat /\ s[x] <= K /\ K - s[x] \in Nat
    BY SMT
  <1>2. T \in SUBSET Nat /\ T # {}
    BY <1>1
  <1>3. PICK t \in T : \A y \in T : t <= y
    BY <1>2 DEF LibraryFacts, LeastFact
  <1>4. PICK x \in X : t = K - s[x]
    BY <1>3
  <1>5. ASSUME NEW y \in X PROVE s[y] <= s[x]
    <2>1. K - s[x] <= K - s[y]
      BY <1>3, <1>4
    <2>. QED BY <1>1, <2>1, SMT
  <1>. QED BY <1>5

FirstOf(X, s, r, i, x) ==
    \A y \in X : \/ s[x] > s[y]
                 \/ s[x] = s[y] /\ r[x] > r[y]
                 \/ s[x] = s[y] /\ r[x] = r[y] /\ i[x] <= i[y]

\* The lexicographic order of the pairs of a score and a PriorityKey has a first one.
LEMMA FirstInOrder ==
  ASSUME LibraryFacts, NEW X, X # {}, NEW K \in Nat, NEW s \in [X -> 0..K], NEW r \in [X -> 0..K], NEW i \in [X -> Nat]
  PROVE  \E x \in X : FirstOf(X, s, r, i, x)
  <1>1. PICK a \in X : \A y \in X : s[y] <= s[a]
    BY GreatestValue
  <1>. DEFINE Y == {y \in X : s[y] = s[a]}
              rr == [y \in Y |-> r[y]]
  <1>2. Y # {} /\ rr \in [Y -> 0..K] /\ Y \subseteq X
    OBVIOUS
  <1>3. PICK b \in Y : \A y \in Y : rr[y] <= rr[b]
    BY <1>2, GreatestValue
  <1>. DEFINE Z == {y \in Y : r[y] = r[b]}
              T == {i[y] : y \in Z}
  <1>4. T \in SUBSET Nat /\ T # {}
    BY <1>3
  <1>5. PICK t \in T : \A y \in T : t <= y
    BY <1>4 DEF LibraryFacts, LeastFact
  <1>6. PICK x \in Z : t = i[x]
    BY <1>5
  <1>7. x \in X /\ s[x] = s[a] /\ r[x] = r[b]
    BY <1>6
  <1>8. ASSUME NEW y \in X PROVE \/ s[x] > s[y]
                                 \/ s[x] = s[y] /\ r[x] > r[y]
                                 \/ s[x] = s[y] /\ r[x] = r[y] /\ i[x] <= i[y]
    <2>1. s[y] \in Int /\ s[x] \in Int /\ r[x] \in Int /\ r[y] \in Int /\ s[y] <= s[x]
      BY <1>1, <1>7, SMT
    <2>2. s[y] = s[x] => r[y] <= r[x]
      BY <1>3, <1>7
    <2>3. s[y] = s[x] /\ r[y] = r[x] => i[x] <= i[y]
      BY <1>5, <1>6, <1>7
    <2>. QED BY <2>1, <2>2, <2>3, SMT
  <1>. QED BY <1>7, <1>8 DEF FirstOf

-----------------------------------------------------------------------------
(* UpdateEconomicOrder on a group                                          *)

LEMMA ConstantFacts ==
  /\ HIGH \in Nat /\ LOW \in Nat /\ MAX_MONEY \in Nat /\ DNS_REFRESH \in Nat
  /\ \A b \in Bounties : b \in Nat /\ b # None /\ DomainOf[b] \in Domains /\ Reward[b] \in 0..MAX_MONEY /\ MaskOf[b] \in Masks
  /\ \A n \in Domains : n \in Nat /\ n # None
  BY SchedulerAssumption DEF Masks

\* The fields of a group.
LEMMA GroupFacts ==
  ASSUME NEW g \in Group
  PROVE  /\ g.bounties \subseteq Bounties /\ g.prepared \subseteq Bounties /\ g.rate \in [Masks -> {HIGH, LOW}]
         /\ g.recovery \subseteq Masks /\ g.endpoints \in BOOLEAN /\ g.economic_key \in Key
         /\ g.prepared_economic_key \in Key /\ g.resolve_after \in Nat /\ g.schedule_after \in Nat \cup {None}
         /\ g.resolving \in BOOLEAN
  BY DEF Group

MaxScore == MAX_MONEY * HIGH + MAX_MONEY * LOW + MAX_MONEY

LEMMA TimesMonotone == ASSUME NEW a \in Nat, NEW b \in Nat, NEW c \in Nat, a <= b PROVE a * c \in Nat /\ a * c <= b * c
  <1>1. (b - a) * c \in Nat /\ b - a \in Nat
    BY SMT
  <1>2. b * c = (b - a) * c + a * c
    BY SMT
  <1>. QED BY <1>1, <1>2, SMT

LEMMA ScoreBound ==
  ASSUME NEW g, g.rate \in [Masks -> {HIGH, LOW}], NEW b \in Bounties
  PROVE  Score(g, b) \in 0..MaxScore /\ Reward[b] \in 0..MaxScore /\ MaxScore \in Nat
  <1>1. Reward[b] \in Nat /\ Reward[b] <= MAX_MONEY /\ HIGH \in Nat /\ LOW \in Nat /\ MAX_MONEY \in Nat /\ MaskOf[b] \in Masks
    BY ConstantFacts, SMT
  <1>2. /\ Reward[b] * HIGH \in Nat /\ Reward[b] * HIGH <= MAX_MONEY * HIGH
        /\ Reward[b] * LOW \in Nat /\ Reward[b] * LOW <= MAX_MONEY * LOW
    BY <1>1, TimesMonotone
  <1>3. MAX_MONEY * HIGH \in Nat /\ MAX_MONEY * LOW \in Nat
    BY <1>1, SMT
  <1>4. g.rate[MaskOf[b]] = HIGH \/ g.rate[MaskOf[b]] = LOW
    BY <1>1
  <1>5. Score(g, b) = Reward[b] * HIGH \/ Score(g, b) = Reward[b] * LOW
    BY <1>4 DEF Score
  <1>. QED BY <1>1, <1>2, <1>3, <1>5, SMT DEF MaxScore

\* The leader of a set of bounties is one of them.
LEMMA BestIn ==
  ASSUME LibraryFacts, NEW g, g.rate \in [Masks -> {HIGH, LOW}], NEW S \in SUBSET Bounties
  PROVE  IF S = {} THEN Best(g, S) = None ELSE Best(g, S) \in S /\ Best(g, S) # None
  <1>1. CASE S = {}
    BY <1>1 DEF Best
  <1>2. CASE S # {}
    <2>. DEFINE s == [b \in S |-> Score(g, b)]
                r == [b \in S |-> Reward[b]]
                i == [b \in S |-> b]
    <2>1. MaxScore \in Nat /\ s \in [S -> 0..MaxScore] /\ r \in [S -> 0..MaxScore] /\ i \in [S -> Nat]
      BY <1>2, ScoreBound, ConstantFacts
    <2>. HIDE DEF s, r, i
    <2>2. PICK x \in S : FirstOf(S, s, r, i, x)
      BY <1>2, <2>1, FirstInOrder
    <2>3. \A y \in S : s[y] = Score(g, y) /\ r[y] = Reward[y] /\ i[y] = y
      BY DEF s, r, i
    <2>4. \A y \in S : Precedes(g, x, g, y)
      BY <2>2, <2>3 DEF Precedes, FirstOf
    <2>5. Best(g, S) \in S
      BY <1>2, <2>4 DEF Best
    <2>. QED BY <1>2, <2>5, ConstantFacts
  <1>. QED BY <1>1, <1>2

LEMMA EarliestIn ==
  ASSUME LibraryFacts, NEW T \in SUBSET Nat
  PROVE  IF T = {} THEN Earliest(T) = None ELSE Earliest(T) \in Nat /\ Earliest(T) # None
  BY MinNat, SchedulerAssumption DEF Earliest

LEMMA KeyedFacts ==
  ASSUME LibraryFacts, NEW n, NEW g, GroupOf(n, g), NEW e \in EnvType, NEW k, k = Keyed(e, g)
  PROVE  LET open == Open(g, Waiting(e, g))
         IN  /\ GroupOf(n, k) /\ SameWork(k, g)
             /\ IF open = {} THEN k.economic_key = None ELSE k.economic_key \in open /\ k.economic_key # None
             /\ IF open \cap g.prepared = {} THEN k.prepared_economic_key = None
                ELSE k.prepared_economic_key \in open \cap g.prepared /\ k.prepared_economic_key # None
             /\ Dues(e, g, Waiting(e, g), open) # {} => k.schedule_after # None
  <1>. DEFINE waiting == Waiting(e, g)
              open == Open(g, waiting)
              dues == Dues(e, g, waiting, open)
  <1>1. g \in Group /\ g.prepared \subseteq g.bounties /\ \A b \in g.bounties : DomainOf[b] = n
    BY DEF GroupOf
  <1>2. open \subseteq g.bounties /\ g.bounties \subseteq Bounties /\ g.rate \in [Masks -> {HIGH, LOW}] /\ g.resolve_after \in Nat
    BY <1>1, GroupFacts DEF Open
  <1>3. dues \in SUBSET Nat
    BY <1>2, SMT DEF Dues, EnvType
  <1>4. k = [g EXCEPT !.economic_key = Best(g, open), !.prepared_economic_key = Best(g, open \cap g.prepared),
                      !.schedule_after = Earliest(dues)]
    BY DEF Keyed, KeyedOver
  <1>. HIDE DEF waiting, open, dues
  <1>5. IF open = {} THEN Best(g, open) = None ELSE Best(g, open) \in open /\ Best(g, open) # None
    BY <1>2, BestIn
  <1>6. IF open \cap g.prepared = {} THEN Best(g, open \cap g.prepared) = None
        ELSE Best(g, open \cap g.prepared) \in open \cap g.prepared /\ Best(g, open \cap g.prepared) # None
    <2>1. open \cap g.prepared \in SUBSET Bounties
      BY <1>2
    <2>. QED BY <1>2, <2>1, BestIn
  <1>7. IF dues = {} THEN Earliest(dues) = None ELSE Earliest(dues) \in Nat /\ Earliest(dues) # None
    BY <1>3, EarliestIn
  <1>8. Best(g, open) \in Key /\ Best(g, open \cap g.prepared) \in Key /\ Earliest(dues) \in Nat \cup {None}
    BY <1>2, <1>5, <1>6, <1>7 DEF Key
  <1>9. k \in Group
    BY <1>1, <1>4, <1>8 DEF Group
  <1>10. k.economic_key = Best(g, open) /\ k.prepared_economic_key = Best(g, open \cap g.prepared) /\ k.schedule_after = Earliest(dues)
    BY <1>1, <1>4 DEF Group
  <1>11. SameWork(k, g)
    BY <1>1, <1>4 DEF Group, SameWork
  <1>12. GroupOf(n, k)
    BY <1>1, <1>9, <1>11 DEF GroupOf, SameWork
  <1>. QED BY <1>5, <1>6, <1>7, <1>10, <1>11, <1>12 DEF open, dues, waiting

\* A policy that must wait leads nothing, and a group with bounties is ready, or has
\* a timer, or is being resolved.
LEMMA KeyedWaits ==
  ASSUME LibraryFacts, NEW n, NEW g, GroupOf(n, g), NEW e \in EnvType, e.due > 0
  PROVE  Unstale(Keyed(e, g))
  <1>. DEFINE k == Keyed(e, g)
              open == Open(g, Waiting(e, g))
  <1>1. /\ k.economic_key # None => k.economic_key \in open
        /\ k.prepared_economic_key # None => k.prepared_economic_key \in open
        /\ SameWork(k, g)
    BY KeyedFacts
  <1>2. \A b \in open : MaskOf[b] \notin g.recovery
    BY DEF Open, Waiting
  <1>. HIDE DEF k, open
  <1>3. Unstale(k)
    BY <1>1, <1>2 DEF Unstale, SameWork
  <1>. QED BY <1>3 DEF k

LEMMA KeyedAttended ==
  ASSUME LibraryFacts, NEW n, NEW g, GroupOf(n, g), NEW e \in EnvType, e.ready, g.bounties # {}, ~g.resolving, NEW k, k = Keyed(e, g)
  PROVE  Ready(e, k) \/ k.schedule_after # None
  <1>. DEFINE waiting == Waiting(e, g)
              open == Open(g, waiting)
              dues == Dues(e, g, waiting, open)
  <1>1. /\ SameWork(k, g)
        /\ open # {} => k.economic_key # None
        /\ dues # {} => k.schedule_after # None
    BY KeyedFacts
  <1>2. CASE waiting # {}
    <2>1. dues # {}
      BY <1>2 DEF Dues
    <2>. QED BY <1>1, <2>1
  <1>3. CASE waiting = {}
    <2>1. open # {}
      BY <1>3 DEF Open
    <2>2. HasWork(e, g, open)
      BY <2>1 DEF HasWork
    <2>3. CASE Unresolved(g) \/ NoneAvailable(e, g)
      <3>1. dues # {}
        BY <2>2, <2>3 DEF Dues
      <3>. QED BY <1>1, <3>1
    <2>4. CASE ~Unresolved(g) /\ ~NoneAvailable(e, g)
      <3>. HIDE DEF open, dues
      <3>. QED BY <1>1, <2>1, <2>4 DEF Ready, Unresolved, NoneAvailable, SameWork
    <2>. QED BY <2>3, <2>4
  <1>. QED BY <1>2, <1>3

-----------------------------------------------------------------------------
(* UpdateEconomicOrder on groups and their index                           *)

\* What an update makes of the groups gs of u.
Updated(e, u, gs, v) ==
    /\ WorkOK(v)
    /\ DOMAIN v.groups = DOMAIN u.groups \cup DOMAIN gs
    /\ \A n \in DOMAIN gs : SameWork(v.groups[n], gs[n])
    /\ \A n \in DOMAIN u.groups \ DOMAIN gs :
          /\ v.groups[n] = u.groups[n]
          /\ n \in v.index.ready_domains <=> n \in u.index.ready_domains
          /\ Scheduled(u.index, n) => Scheduled(v.index, n)
    /\ e.ready => \A n \in DOMAIN gs : Attended(v.groups, v.index, n)
    /\ e.due > 0 => \A n \in DOMAIN gs : Unstale(v.groups[n])

LEMMA UpdateFacts ==
  ASSUME LibraryFacts, NEW e \in EnvType, NEW u, WorkOK(u), NEW gs, Updates(u, gs)
  PROVE  Updated(e, u, gs, UpdateGroups(e, u, gs))
  <1>. DEFINE D == DOMAIN gs
              ks == [n \in D |-> Keyed(e, gs[n])]
              v == UpdateGroups(e, u, gs)
              names == {n \in D : Ready(e, ks[n])}
              prepared == {n \in names : ks[n].prepared_economic_key # None}
              scheduled == {n \in D : ks[n].schedule_after # None /\ ~ks[n].resolving}
  <1>1. /\ GroupsOK(u.groups) /\ GroupsOK(gs) /\ IndexOf(u.groups, u.index)
        /\ \A n \in D \cap u.index.ready_domains : gs[n].economic_key = u.groups[n].economic_key
        /\ \A n \in D \cap u.index.ready_prepared_domains : gs[n].prepared_economic_key = u.groups[n].prepared_economic_key
    BY DEF WorkOK, Updates
  <1>2. DOMAIN ks = D /\ \A n \in D : ks[n] = Keyed(e, gs[n])
    OBVIOUS
  <1>3. \A n \in D : GroupOf(n, gs[n])
    BY <1>1 DEF GroupsOK
  <1>4. ASSUME NEW n \in D
        PROVE  /\ GroupOf(n, ks[n]) /\ SameWork(ks[n], gs[n])
               /\ ks[n].economic_key # None => ks[n].economic_key \in ks[n].bounties
               /\ ks[n].prepared_economic_key # None => ks[n].prepared_economic_key \in ks[n].prepared
    <2>1. LET open == Open(gs[n], Waiting(e, gs[n]))
          IN  /\ GroupOf(n, ks[n]) /\ SameWork(ks[n], gs[n])
              /\ IF open = {} THEN ks[n].economic_key = None ELSE ks[n].economic_key \in open /\ ks[n].economic_key # None
              /\ IF open \cap gs[n].prepared = {} THEN ks[n].prepared_economic_key = None
                 ELSE ks[n].prepared_economic_key \in open \cap gs[n].prepared /\ ks[n].prepared_economic_key # None
      BY <1>2, <1>3, KeyedFacts
    <2>2. Open(gs[n], Waiting(e, gs[n])) \subseteq gs[n].bounties
      BY DEF Open
    <2>. QED BY <2>1, <2>2 DEF SameWork
  <1>5. /\ v = [groups |-> v.groups, index |-> v.index]
        /\ v.groups = [n \in DOMAIN u.groups \cup D |-> IF n \in D THEN ks[n] ELSE u.groups[n]]
        /\ v.index = Joined(Erased(u.index, gs), Entries(e, ks))
    BY <1>2 DEF UpdateGroups, Entered
  <1>. HIDE DEF ks, v
  <1>6. /\ DOMAIN v.groups = DOMAIN u.groups \cup D
        /\ \A n \in D : v.groups[n] = ks[n]
        /\ \A n \in DOMAIN u.groups \ D : v.groups[n] = u.groups[n]
        /\ v.groups = [n \in DOMAIN v.groups |-> v.groups[n]]
    BY <1>5
  <1>7. /\ v.index.ready_domains = (u.index.ready_domains \ D) \cup names
        /\ v.index.economic_order =
             (u.index.economic_order \ {<<gs[n].economic_key, n>> : n \in D}) \cup {<<ks[n].economic_key, n>> : n \in names}
        /\ v.index.ready_prepared_domains = (u.index.ready_prepared_domains \ D) \cup prepared
        /\ v.index.prepared_economic_order =
             (u.index.prepared_economic_order \ {<<gs[n].prepared_economic_key, n>> : n \in D})
               \cup {<<ks[n].prepared_economic_key, n>> : n \in prepared}
        /\ v.index.scheduled_domains =
             (u.index.scheduled_domains \ {<<gs[n].schedule_after, n>> : n \in D})
               \cup {<<ks[n].schedule_after, n>> : n \in scheduled}
        /\ DOMAIN v.index = DOMAIN EmptyIndex
    BY <1>2, <1>5, SMT DEF Joined, Erased, Entries, EmptyIndex
  <1>. HIDE DEF D, names, prepared, scheduled
  <1>8. GroupsOK(v.groups)
    BY <1>1, <1>4, <1>6 DEF GroupsOK, D
  <1>9. v.index.economic_order = {<<v.groups[n].economic_key, n>> : n \in v.index.ready_domains}
    <2>1. u.index.economic_order = {<<u.groups[n].economic_key, n>> : n \in u.index.ready_domains}
          /\ u.index.ready_domains \subseteq DOMAIN u.groups
      BY <1>1 DEF IndexOf
    <2>2. names \subseteq D
      BY DEF names
    <2>3. u.index.economic_order \ {<<gs[n].economic_key, n>> : n \in D}
            = {<<u.groups[n].economic_key, n>> : n \in u.index.ready_domains \ D}
      BY <1>1, <2>1, SMT
    <2>4. ASSUME NEW n \in v.index.ready_domains
          PROVE  <<v.groups[n].economic_key, n>> \in v.index.economic_order
      BY <1>6, <1>7, <2>1, <2>2, <2>3, SMT
    <2>5. ASSUME NEW x \in v.index.economic_order
          PROVE  \E n \in v.index.ready_domains : x = <<v.groups[n].economic_key, n>>
      BY <1>6, <1>7, <2>1, <2>2, <2>3, SMT
    <2>. QED BY <2>4, <2>5
  <1>10. v.index.prepared_economic_order = {<<v.groups[n].prepared_economic_key, n>> : n \in v.index.ready_prepared_domains}
    <2>1. u.index.prepared_economic_order = {<<u.groups[n].prepared_economic_key, n>> : n \in u.index.ready_prepared_domains}
          /\ u.index.ready_prepared_domains \subseteq DOMAIN u.groups
      BY <1>1 DEF IndexOf
    <2>2. prepared \subseteq D
      BY DEF names, prepared
    <2>3. u.index.prepared_economic_order \ {<<gs[n].prepared_economic_key, n>> : n \in D}
            = {<<u.groups[n].prepared_economic_key, n>> : n \in u.index.ready_prepared_domains \ D}
      BY <1>1, <2>1, SMT
    <2>4. ASSUME NEW n \in v.index.ready_prepared_domains
          PROVE  <<v.groups[n].prepared_economic_key, n>> \in v.index.prepared_economic_order
      BY <1>6, <1>7, <2>1, <2>2, <2>3, SMT
    <2>5. ASSUME NEW x \in v.index.prepared_economic_order
          PROVE  \E n \in v.index.ready_prepared_domains : x = <<v.groups[n].prepared_economic_key, n>>
      BY <1>6, <1>7, <2>1, <2>2, <2>3, SMT
    <2>. QED BY <2>4, <2>5
  <1>11. v.index.scheduled_domains \subseteq Nat \X Domains
    <2>1. u.index.scheduled_domains \subseteq Nat \X Domains /\ D \subseteq Domains
      BY <1>1 DEF IndexOf, GroupsOK, D
    <2>2. \A n \in scheduled : n \in Domains /\ ks[n].schedule_after \in Nat
      BY <1>4, <2>1, GroupFacts DEF scheduled, GroupOf
    <2>. QED BY <1>7, <2>1, <2>2, SMT
  <1>12. IndexOf(v.groups, v.index)
    <2>1. v.index.ready_domains \subseteq DOMAIN v.groups /\ v.index.ready_prepared_domains \subseteq DOMAIN v.groups
      BY <1>1, <1>6, <1>7 DEF IndexOf, names, prepared
    <2>2. \A n \in v.index.ready_domains : v.groups[n].economic_key \in v.groups[n].bounties
      BY <1>1, <1>4, <1>6, <1>7 DEF IndexOf, names, Ready
    <2>3. \A n \in v.index.ready_prepared_domains : v.groups[n].prepared_economic_key \in v.groups[n].prepared
      BY <1>1, <1>4, <1>6, <1>7 DEF IndexOf, names, prepared
    <2>. QED BY <1>9, <1>10, <1>11, <2>1, <2>2, <2>3 DEF IndexOf
  <1>13. WorkOK(v)
    BY <1>5, <1>7, <1>8, <1>12 DEF WorkOK
  <1>14. ASSUME NEW n \in DOMAIN u.groups \ D
         PROVE  /\ v.groups[n] = u.groups[n]
                /\ n \in v.index.ready_domains <=> n \in u.index.ready_domains
                /\ Scheduled(u.index, n) => Scheduled(v.index, n)
    <2>1. n \in v.index.ready_domains <=> n \in u.index.ready_domains
      BY <1>7 DEF names
    <2>2. ASSUME NEW s \in u.index.scheduled_domains, s[2] = n PROVE s \in v.index.scheduled_domains
      BY <1>7, <2>2, SMT
    <2>. QED BY <1>6, <2>1, <2>2 DEF Scheduled
  <1>15. ASSUME e.ready, NEW n \in D PROVE Attended(v.groups, v.index, n)
    <2>1. SUFFICES ASSUME ks[n].bounties # {}, ~ks[n].resolving PROVE n \in v.index.ready_domains \/ Scheduled(v.index, n)
      BY <1>6 DEF Attended
    <2>2. gs[n].bounties # {} /\ ~gs[n].resolving
      BY <1>4, <2>1 DEF SameWork
    <2>3. Ready(e, ks[n]) \/ ks[n].schedule_after # None
      BY <1>2, <1>3, <1>15, <2>2, KeyedAttended
    <2>4. CASE Ready(e, ks[n])
      BY <1>7, <2>4 DEF names
    <2>5. CASE ks[n].schedule_after # None
      <3>1. <<ks[n].schedule_after, n>> \in v.index.scheduled_domains /\ <<ks[n].schedule_after, n>>[2] = n
        BY <1>7, <2>1, <2>5 DEF scheduled
      <3>. QED BY <3>1 DEF Scheduled
    <2>. QED BY <2>3, <2>4, <2>5
  <1>16. ASSUME e.due > 0, NEW n \in D PROVE Unstale(v.groups[n])
    BY <1>2, <1>3, <1>6, <1>16, KeyedWaits, SMT
  <1>17. \A n \in D : SameWork(v.groups[n], gs[n])
    BY <1>4, <1>6
  <1>. QED BY <1>6, <1>13, <1>14, <1>15, <1>16, <1>17 DEF Updated, v, D

-----------------------------------------------------------------------------
(* Updates of one group                                                    *)

OneUpdated(e, u, n, g, v) ==
    /\ WorkOK(v)
    /\ DOMAIN v.groups = DOMAIN u.groups
    /\ SameWork(v.groups[n], g)
    /\ \A m \in DOMAIN u.groups \ {n} :
          /\ v.groups[m] = u.groups[m]
          /\ m \in v.index.ready_domains <=> m \in u.index.ready_domains
          /\ Scheduled(u.index, m) => Scheduled(v.index, m)
    /\ e.ready => Attended(v.groups, v.index, n)
    /\ e.due > 0 => Unstale(v.groups[n])

LEMMA UpdateOne ==
  ASSUME LibraryFacts, NEW e \in EnvType, NEW u, WorkOK(u), NEW n \in DOMAIN u.groups, NEW g, GroupOf(n, g),
         g.economic_key = u.groups[n].economic_key, g.prepared_economic_key = u.groups[n].prepared_economic_key
  PROVE  OneUpdated(e, u, n, g, UpdateEconomicOrder(e, u, n, g))
  <1>. DEFINE gs == [m \in {n} |-> g]
              v == UpdateEconomicOrder(e, u, n, g)
  <1>1. DOMAIN gs = {n} /\ gs[n] = g /\ gs = [m \in DOMAIN gs |-> gs[m]]
    OBVIOUS
  <1>2. n \in Domains
    BY DEF WorkOK, GroupsOK
  <1>3. v = UpdateGroups(e, u, gs)
    BY DEF UpdateEconomicOrder
  <1>. HIDE DEF gs, v
  <1>4. Updates(u, gs)
    BY <1>1, <1>2 DEF Updates, GroupsOK
  <1>5. Updated(e, u, gs, v)
    BY <1>3, <1>4, UpdateFacts
  <1>6. OneUpdated(e, u, n, g, v)
    BY <1>1, <1>5 DEF Updated, OneUpdated
  <1>. QED BY <1>6 DEF v

\* A step of Next that only takes away from the groups.
Keeps(e, u, v) ==
    /\ WorkOK(v) /\ DOMAIN v.groups = DOMAIN u.groups
    /\ \A n \in DOMAIN u.groups :
          /\ v.groups[n].bounties \subseteq u.groups[n].bounties
          /\ v.groups[n].resolving = u.groups[n].resolving
          /\ v.groups[n].recovery = u.groups[n].recovery
          /\ v.groups[n].resolve_after = u.groups[n].resolve_after
          /\ e.ready /\ Attended(u.groups, u.index, n) => Attended(v.groups, v.index, n)
          /\ e.due > 0 => \A k \in {v.groups[n].economic_key, v.groups[n].prepared_economic_key} \ {None} :
                MaskOf[k] \in v.groups[n].recovery => k \in {u.groups[n].economic_key, u.groups[n].prepared_economic_key}

LEMMA KeepsSame == ASSUME NEW e, NEW u, WorkOK(u) PROVE Keeps(e, u, u)
  BY DEF Keeps

LEMMA KeepsTwice == ASSUME NEW e, NEW u, NEW v, NEW w, Keeps(e, u, v), Keeps(e, v, w) PROVE Keeps(e, u, w)
  <1>1. WorkOK(w) /\ DOMAIN w.groups = DOMAIN u.groups /\ DOMAIN v.groups = DOMAIN u.groups
    BY DEF Keeps
  <1>2. ASSUME NEW n \in DOMAIN u.groups
        PROVE  /\ w.groups[n].bounties \subseteq u.groups[n].bounties
               /\ w.groups[n].resolving = u.groups[n].resolving
               /\ w.groups[n].recovery = u.groups[n].recovery
               /\ w.groups[n].resolve_after = u.groups[n].resolve_after
               /\ e.ready /\ Attended(u.groups, u.index, n) => Attended(w.groups, w.index, n)
    BY <1>1 DEF Keeps
  <1>3. ASSUME NEW n \in DOMAIN u.groups, e.due > 0,
               NEW k \in {w.groups[n].economic_key, w.groups[n].prepared_economic_key} \ {None}, MaskOf[k] \in w.groups[n].recovery
        PROVE  k \in {u.groups[n].economic_key, u.groups[n].prepared_economic_key}
    <2>1. k \in {v.groups[n].economic_key, v.groups[n].prepared_economic_key} \ {None}
      BY <1>1, <1>3 DEF Keeps
    <2>2. MaskOf[k] \in v.groups[n].recovery
      BY <1>1, <1>3 DEF Keeps
    <2>. QED BY <1>3, <2>1, <2>2 DEF Keeps
  <1>. QED BY <1>1, <1>2, <1>3 DEF Keeps

LEMMA OneKeeps ==
  ASSUME NEW e, NEW u, NEW n \in DOMAIN u.groups, NEW g, NEW v, OneUpdated(e, u, n, g, v), WorkOK(u),
         g.bounties \subseteq u.groups[n].bounties, g.resolving = u.groups[n].resolving,
         g.recovery = u.groups[n].recovery, g.resolve_after = u.groups[n].resolve_after
  PROVE  Keeps(e, u, v)
  <1>1. WorkOK(v) /\ DOMAIN v.groups = DOMAIN u.groups /\ SameWork(v.groups[n], g)
    BY DEF OneUpdated
  <1>2. ASSUME NEW m \in DOMAIN u.groups
        PROVE  /\ v.groups[m].bounties \subseteq u.groups[m].bounties
               /\ v.groups[m].resolving = u.groups[m].resolving
               /\ v.groups[m].recovery = u.groups[m].recovery
               /\ v.groups[m].resolve_after = u.groups[m].resolve_after
    BY <1>1 DEF OneUpdated, SameWork
  <1>3. ASSUME NEW m \in DOMAIN u.groups, e.ready, Attended(u.groups, u.index, m) PROVE Attended(v.groups, v.index, m)
    <2>1. CASE m = n
      BY <1>3, <2>1 DEF OneUpdated
    <2>2. CASE m # n
      BY <1>3, <2>2 DEF OneUpdated, Attended
    <2>. QED BY <2>1, <2>2
  <1>4. ASSUME NEW m \in DOMAIN u.groups, e.due > 0,
               NEW k \in {v.groups[m].economic_key, v.groups[m].prepared_economic_key} \ {None}, MaskOf[k] \in v.groups[m].recovery
        PROVE  k \in {u.groups[m].economic_key, u.groups[m].prepared_economic_key}
    <2>1. CASE m = n
      BY <1>4, <2>1 DEF OneUpdated, Unstale
    <2>2. CASE m # n
      BY <1>4, <2>2 DEF OneUpdated
    <2>. QED BY <2>1, <2>2
  <1>. QED BY <1>1, <1>2, <1>3, <1>4 DEF Keeps

\* The saved challenges among P are what the groups of u call prepared.
SavedIn(u, P) == \A n \in DOMAIN u.groups : u.groups[n].prepared \subseteq P

\* A group of which bounties or prepared bounties are taken.
Taken(n, h, S, P, g) ==
    /\ GroupOf(n, g) /\ g.economic_key = h.economic_key /\ g.prepared_economic_key = h.prepared_economic_key
    /\ g.bounties = S /\ g.prepared = P
    /\ g.resolving = h.resolving /\ g.recovery = h.recovery /\ g.resolve_after = h.resolve_after

LEMMA TakenGroup ==
  ASSUME NEW u, WorkOK(u), NEW n \in DOMAIN u.groups, NEW S, NEW P, S \subseteq u.groups[n].bounties, P \subseteq S
  PROVE  Taken(n, u.groups[n], S, P, [u.groups[n] EXCEPT !.prepared = P, !.bounties = S])
  <1>1. u.groups[n] \in Group /\ \A b \in u.groups[n].bounties : DomainOf[b] = n
    BY DEF WorkOK, GroupsOK, GroupOf
  <1>2. u.groups[n].bounties \subseteq Bounties
    BY <1>1, GroupFacts
  <1>. QED BY <1>1, <1>2 DEF Group, GroupOf, Taken

-----------------------------------------------------------------------------
(* The updates that an iteration of Next makes                             *)

LEMMA EnvTyped == ASSUME Types PROVE Env \in EnvType /\ Env.ready = catalog_ready /\ Env.due = due /\ Env.away = away
  BY DEF Types, Env, EnvType

LEMMA OneSaved ==
  ASSUME NEW e, NEW u, NEW n \in DOMAIN u.groups, NEW g, NEW v, OneUpdated(e, u, n, g, v), NEW P, NEW Q,
         SavedIn(u, P), g.prepared \subseteq Q, \A m \in DOMAIN u.groups \ {n} : u.groups[m].prepared \subseteq P => u.groups[m].prepared \subseteq Q
  PROVE  SavedIn(v, Q)
  <1>1. ASSUME NEW m \in DOMAIN v.groups PROVE v.groups[m].prepared \subseteq Q
    <2>1. CASE m = n
      BY <2>1 DEF OneUpdated, SameWork
    <2>2. CASE m # n
      BY <2>2 DEF OneUpdated, SavedIn
    <2>. QED BY <2>1, <2>2
  <1>. QED BY <1>1 DEF SavedIn

\* Bounties are prepared in the group of their own domain only.
LEMMA PreparedDomain ==
  ASSUME NEW u, WorkOK(u), NEW n \in DOMAIN u.groups, NEW b \in u.groups[n].prepared
  PROVE  b \in u.groups[n].bounties /\ DomainOf[b] = n /\ b \in Bounties
  BY GroupFacts DEF WorkOK, GroupsOK, GroupOf

LEMMA ForgetKeeps ==
  ASSUME LibraryFacts, Types, NEW u, WorkOK(u), NEW b \in Bounties, NEW v, v = ForgetPrepared(u, b)
  PROVE  /\ Keeps(Env, u, v) /\ \A P : SavedIn(u, P) => SavedIn(v, P \ {b})
         /\ \A n \in DOMAIN u.groups : v.groups[n].bounties = u.groups[n].bounties
  <1>. DEFINE n == DomainOf[b]
  <1>1. CASE n \in DOMAIN u.groups /\ b \in u.groups[n].prepared
    <2>. DEFINE g == [u.groups[n] EXCEPT !.prepared = u.groups[n].prepared \ {b}, !.bounties = u.groups[n].bounties]
    <2>1. u.groups[n] \in Group /\ u.groups[n].prepared \subseteq u.groups[n].bounties
      BY <1>1 DEF WorkOK, GroupsOK, GroupOf
    <2>2. g = Forgotten(u.groups[n], {b})
      BY <2>1 DEF Forgotten, Group
    <2>3. /\ GroupOf(n, g) /\ g.economic_key = u.groups[n].economic_key
          /\ g.prepared_economic_key = u.groups[n].prepared_economic_key
          /\ g.bounties = u.groups[n].bounties /\ g.prepared = u.groups[n].prepared \ {b}
          /\ g.resolving = u.groups[n].resolving /\ g.recovery = u.groups[n].recovery /\ g.resolve_after = u.groups[n].resolve_after
      <3>1. u.groups[n].prepared \ {b} \subseteq u.groups[n].bounties
        BY <2>1
      <3>2. Taken(n, u.groups[n], u.groups[n].bounties, u.groups[n].prepared \ {b}, g)
        BY <1>1, <3>1, TakenGroup
      <3>. QED BY <3>2 DEF Taken
    <2>. HIDE DEF g
    <2>4. v = UpdateEconomicOrder(Env, u, n, g)
      BY <1>1, <2>2 DEF ForgetPrepared
    <2>5. OneUpdated(Env, u, n, g, v)
      BY <1>1, <2>3, <2>4, UpdateOne, EnvTyped, SMT
    <2>6. Keeps(Env, u, v)
      BY <1>1, <2>3, <2>5, OneKeeps
    <2>7. ASSUME NEW P, SavedIn(u, P) PROVE SavedIn(v, P \ {b})
      <3>1. g.prepared \subseteq P \ {b}
        BY <1>1, <2>3, <2>7 DEF SavedIn
      <3>2. \A m \in DOMAIN u.groups \ {n} : b \notin u.groups[m].prepared
        BY PreparedDomain
      <3>. QED BY <1>1, <2>5, <2>7, <3>1, <3>2, OneSaved, SMT
    <2>8. \A m \in DOMAIN u.groups : v.groups[m].bounties = u.groups[m].bounties
      BY <2>3, <2>5 DEF OneUpdated, SameWork
    <2>. QED BY <2>6, <2>7, <2>8
  <1>2. CASE ~(n \in DOMAIN u.groups /\ b \in u.groups[n].prepared)
    <2>1. v = u
      BY <1>2 DEF ForgetPrepared
    <2>2. \A m \in DOMAIN u.groups : b \notin u.groups[m].prepared
      BY <1>2, PreparedDomain
    <2>. QED BY <2>1, <2>2, KeepsSame DEF SavedIn
  <1>. QED BY <1>1, <1>2

LEMMA PreparedKeeps ==
  ASSUME LibraryFacts, Types, NEW u, WorkOK(u), NEW b \in Bounties, DomainOf[b] \in DOMAIN u.groups, b \in u.groups[DomainOf[b]].bounties,
         NEW v, v = Prepared(u, b)
  PROVE  /\ Keeps(Env, u, v) /\ \A P : SavedIn(u, P) => SavedIn(v, P \cup {b})
         /\ \A n \in DOMAIN u.groups : v.groups[n].bounties = u.groups[n].bounties
  <1>. DEFINE n == DomainOf[b]
              g == [u.groups[n] EXCEPT !.prepared = u.groups[n].prepared \cup {b}, !.bounties = u.groups[n].bounties]
  <1>1. u.groups[n] \in Group /\ u.groups[n].prepared \subseteq u.groups[n].bounties
    BY DEF WorkOK, GroupsOK, GroupOf
  <1>2. g = [u.groups[n] EXCEPT !.prepared = @ \cup {b}]
    BY <1>1 DEF Group
  <1>3. /\ GroupOf(n, g) /\ g.economic_key = u.groups[n].economic_key
        /\ g.prepared_economic_key = u.groups[n].prepared_economic_key
        /\ g.bounties = u.groups[n].bounties /\ g.prepared = u.groups[n].prepared \cup {b}
        /\ g.resolving = u.groups[n].resolving /\ g.recovery = u.groups[n].recovery /\ g.resolve_after = u.groups[n].resolve_after
    <2>1. u.groups[n].prepared \cup {b} \subseteq u.groups[n].bounties
      BY <1>1
    <2>2. Taken(n, u.groups[n], u.groups[n].bounties, u.groups[n].prepared \cup {b}, g)
      BY <2>1, TakenGroup
    <2>. QED BY <2>2 DEF Taken
  <1>. HIDE DEF g
  <1>4. v = UpdateEconomicOrder(Env, u, n, g)
    BY <1>2 DEF Prepared
  <1>5. OneUpdated(Env, u, n, g, v)
    BY <1>3, <1>4, UpdateOne, EnvTyped
  <1>6. Keeps(Env, u, v)
    BY <1>3, <1>5, OneKeeps
  <1>7. ASSUME NEW P, SavedIn(u, P) PROVE SavedIn(v, P \cup {b})
    <2>1. g.prepared \subseteq P \cup {b}
      BY <1>3, <1>7 DEF SavedIn
    <2>. QED BY <1>5, <1>7, <2>1, OneSaved, SMT
  <1>8. \A m \in DOMAIN u.groups : v.groups[m].bounties = u.groups[m].bounties
    BY <1>3, <1>5 DEF OneUpdated, SameWork
  <1>. QED BY <1>6, <1>7, <1>8

LEMMA DiscardKeeps ==
  ASSUME LibraryFacts, Types, NEW u, WorkOK(u), NEW b \in Bounties, DomainOf[b] \in DOMAIN u.groups,
         NEW v, v = UpdateEconomicOrder(Env, u, DomainOf[b], Discarded(u.groups[DomainOf[b]], b))
  PROVE  Keeps(Env, u, v) /\ (\A P : SavedIn(u, P) => SavedIn(v, P)) /\ b \notin Listed(v.groups)
  <1>. DEFINE n == DomainOf[b]
              g == [u.groups[n] EXCEPT !.prepared = u.groups[n].prepared \ {b}, !.bounties = u.groups[n].bounties \ {b}]
  <1>1. u.groups[n] \in Group /\ u.groups[n].prepared \subseteq u.groups[n].bounties
    BY DEF WorkOK, GroupsOK, GroupOf
  <1>2. g = Discarded(u.groups[n], b)
    BY <1>1 DEF Discarded, Forgotten, Group
  <1>3. /\ GroupOf(n, g) /\ g.economic_key = u.groups[n].economic_key
        /\ g.prepared_economic_key = u.groups[n].prepared_economic_key
        /\ g.bounties = u.groups[n].bounties \ {b} /\ g.prepared = u.groups[n].prepared \ {b}
        /\ g.resolving = u.groups[n].resolving /\ g.recovery = u.groups[n].recovery /\ g.resolve_after = u.groups[n].resolve_after
    <2>1. u.groups[n].prepared \ {b} \subseteq u.groups[n].bounties \ {b} /\ u.groups[n].bounties \ {b} \subseteq u.groups[n].bounties
      BY <1>1
    <2>2. Taken(n, u.groups[n], u.groups[n].bounties \ {b}, u.groups[n].prepared \ {b}, g)
      BY <2>1, TakenGroup
    <2>. QED BY <2>2 DEF Taken
  <1>. HIDE DEF g
  <1>4. OneUpdated(Env, u, n, g, v)
    BY <1>2, <1>3, UpdateOne, EnvTyped
  <1>5. Keeps(Env, u, v)
    <2>1. g.bounties \subseteq u.groups[n].bounties
      BY <1>3
    <2>. QED BY <1>3, <1>4, <2>1, OneKeeps
  <1>6. ASSUME NEW P, SavedIn(u, P) PROVE SavedIn(v, P)
    <2>1. g.prepared \subseteq P
      BY <1>3, <1>6 DEF SavedIn
    <2>. QED BY <1>4, <1>6, <2>1, OneSaved, SMT
  <1>7. b \notin Listed(v.groups)
    BY <1>3, <1>4 DEF Listed, OneUpdated, SameWork
  <1>. QED BY <1>5, <1>6, <1>7

LEMMA RefusedKeeps ==
  ASSUME LibraryFacts, Types, NEW u, WorkOK(u), NEW b \in Bounties, DomainOf[b] \in DOMAIN u.groups, NEW v, v = Refused(u, DomainOf[b])
  PROVE  Keeps(Env, u, v) /\ (\A P : SavedIn(u, P) => SavedIn(v, P)) /\ b \notin Stale(v.groups)
  <1>. DEFINE n == DomainOf[b]
              g == u.groups[n]
  <1>1. GroupOf(n, g)
    BY DEF WorkOK, GroupsOK
  <1>2. OneUpdated(Env, u, n, g, v)
    BY <1>1, UpdateOne, EnvTyped DEF Refused
  <1>3. Keeps(Env, u, v)
    BY <1>2, OneKeeps
  <1>4. ASSUME NEW P, SavedIn(u, P) PROVE SavedIn(v, P)
    <2>1. g.prepared \subseteq P
      BY <1>4 DEF SavedIn
    <2>. QED BY <1>2, <1>4, <2>1, OneSaved, SMT
  <1>5. b \notin Stale(v.groups)
    <2>1. due > 0 => Unstale(v.groups[n])
      BY <1>2, EnvTyped DEF OneUpdated
    <2>. QED BY <2>1, ConstantFacts DEF Stale, Unstale
  <1>. QED BY <1>3, <1>4, <1>5

LEMMA KeepsLess ==
  ASSUME Types, NEW u, NEW v, Keeps(Env, u, v)
  PROVE  Listed(v.groups) \subseteq Listed(u.groups) /\ Stale(v.groups) \subseteq Stale(u.groups)
  <1>1. Listed(v.groups) \subseteq Listed(u.groups)
    BY DEF Keeps, Listed
  <1>2. ASSUME NEW b \in Stale(v.groups) PROVE b \in Stale(u.groups)
    <2>. DEFINE n == DomainOf[b]
    <2>1. /\ b \in Bounties /\ due > 0 /\ n \in DOMAIN v.groups /\ MaskOf[b] \in v.groups[n].recovery
          /\ b \in {v.groups[n].economic_key, v.groups[n].prepared_economic_key} \ {None}
      BY <1>2, ConstantFacts DEF Stale
    <2>2. n \in DOMAIN u.groups /\ MaskOf[b] \in u.groups[n].recovery
      BY <2>1 DEF Keeps
    <2>3. b \in {u.groups[n].economic_key, u.groups[n].prepared_economic_key}
      BY <2>1, <2>2, EnvTyped DEF Keeps
    <2>. QED BY <2>1, <2>2, <2>3 DEF Stale
  <1>. QED BY <1>1, <1>2

\* What the loop has left is less by the bounty that was lost or must wait.
LEMMA LessLeft ==
  ASSUME LibraryFacts, Types, NEW u, NEW v, Keeps(Env, u, v), NEW b,
         \/ b \in Listed(u.groups) /\ b \notin Listed(v.groups)
         \/ b \in Stale(u.groups) /\ b \notin Stale(v.groups)
  PROVE  /\ Cardinality(Listed(v.groups)) \in Nat /\ Cardinality(Stale(v.groups)) \in Nat
         /\ Cardinality(Listed(u.groups)) \in Nat /\ Cardinality(Stale(u.groups)) \in Nat
         /\ Cardinality(Listed(v.groups)) + Cardinality(Stale(v.groups)) + 1 <= Cardinality(Listed(u.groups)) + Cardinality(Stale(u.groups))
  <1>. DEFINE A == Listed(u.groups)
              B == Stale(u.groups)
              C == Listed(v.groups)
              D == Stale(v.groups)
  <1>1. A \subseteq Bounties /\ B \subseteq Bounties
    BY DEF Listed, Stale
  <1>2. IsFiniteSet(A) /\ IsFiniteSet(B)
    BY <1>1, SchedulerAssumption DEF LibraryFacts, SubsetFact
  <1>3. C \subseteq A /\ D \subseteq B
    BY KeepsLess
  <1>. HIDE DEF A, B, C, D
  <1>4. /\ IsFiniteSet(C) /\ IsFiniteSet(D)
        /\ Cardinality(A) \in Nat /\ Cardinality(B) \in Nat /\ Cardinality(C) \in Nat /\ Cardinality(D) \in Nat
        /\ Cardinality(C) <= Cardinality(A) /\ Cardinality(D) <= Cardinality(B)
    BY <1>2, <1>3 DEF LibraryFacts, CardinalityFact, SubsetFact
  <1>5. C # A => Cardinality(C) < Cardinality(A)
    BY <1>2, <1>3, <1>4, SMT DEF LibraryFacts, SubsetFact
  <1>6. D # B => Cardinality(D) < Cardinality(B)
    BY <1>2, <1>3, <1>4, SMT DEF LibraryFacts, SubsetFact
  <1>7. C # A \/ D # B
    BY DEF A, B, C, D
  <1>8. Cardinality(C) + Cardinality(D) + 1 <= Cardinality(A) + Cardinality(B)
    BY <1>4, <1>5, <1>6, <1>7, SMT
  <1>. QED BY <1>4, <1>8 DEF A, B, C, D

\* The fair rotation: the choice is Watched or a domain whose turn comes before.
LEMMA FairChoice ==
  ASSUME LibraryFacts, Types, NEW names \in SUBSET Domains, names # {}
  PROVE  /\ FairDomain(names) \in names
         /\ Watched \in names => FairDomain(names) \in Ahead(domain_after) \cup {Watched}
  <1>. DEFINE n == FairDomain(names)
              T == After(names)
  <1>1. Domains \subseteq Nat /\ names \subseteq Nat /\ T \subseteq names /\ Watched \in Nat /\ None \notin Nat
    BY SchedulerAssumption DEF After
  <1>2. domain_after # None => domain_after \in Nat
    BY <1>1 DEF Types
  <1>3. CASE T = {}
    <2>1. n \in names /\ \A m \in names : n <= m
      BY <1>1, <1>3, MinNat DEF FairDomain
    <2>2. ASSUME Watched \in names, n # Watched PROVE n \in Ahead(domain_after)
      <3>1. n < Watched /\ n \in Domains
        <4>1. n <= Watched /\ n \in Nat /\ n \in Domains /\ Watched \in Nat
          BY <1>1, <2>1, <2>2
        <4>. HIDE DEF n
        <4>. QED BY ONLY <2>2, <4>1, SMT
      <3>2. domain_after = None \/ domain_after >= Watched
        BY <1>1, <1>2, <1>3, <2>2, SMT DEF After
      <3>. QED BY <3>1, <3>2, <2>2 DEF Ahead
    <2>. QED BY <2>1, <2>2
  <1>4. CASE T # {}
    <2>1. n \in T /\ \A m \in T : n <= m
      BY <1>1, <1>4, MinNat DEF FairDomain
    <2>2. n \in names /\ domain_after # None /\ n > domain_after
      BY <2>1 DEF After
    <2>3. ASSUME Watched \in names, n # Watched PROVE n \in Ahead(domain_after)
      <3>1. CASE domain_after < Watched
        <4>1. Watched \in T
          BY <2>2, <2>3, <3>1 DEF After
        <4>2. n < Watched
          <5>1. n <= Watched /\ n \in Nat /\ Watched \in Nat
            BY <1>1, <2>1, <4>1
          <5>. HIDE DEF n
          <5>. QED BY ONLY <2>3, <5>1, SMT
        <4>. QED BY <2>2, <2>3, <3>1, <4>2 DEF Ahead
      <3>2. CASE domain_after >= Watched
        BY <2>2, <2>3, <3>2 DEF Ahead
      <3>. QED BY <1>1, <1>2, <2>2, <3>1, <3>2, SMT
    <2>. QED BY <2>2, <2>3
  <1>. QED BY <1>3, <1>4

\* The economic order has a first entry.
LEMMA EconomicChoice ==
  ASSUME LibraryFacts, NEW gs, NEW orders, orders # {}, \A x \in orders : x[1] \in Bounties /\ gs[x[2]].rate \in [Masks -> {HIGH, LOW}]
  PROVE  \E x \in orders : EconomicDomain(gs, orders) = x[2]
  <1>. DEFINE s == [x \in orders |-> Score(gs[x[2]], x[1])]
              r == [x \in orders |-> Reward[x[1]]]
              i == [x \in orders |-> x[1]]
  <1>0. \A x \in orders : Score(gs[x[2]], x[1]) \in 0..MaxScore /\ Reward[x[1]] \in 0..MaxScore /\ MaxScore \in Nat /\ x[1] \in Nat
    BY ScoreBound, ConstantFacts
  <1>1. MaxScore \in Nat /\ s \in [orders -> 0..MaxScore] /\ r \in [orders -> 0..MaxScore] /\ i \in [orders -> Nat]
    BY <1>0
  <1>2. \A y \in orders : s[y] = Score(gs[y[2]], y[1]) /\ r[y] = Reward[y[1]] /\ i[y] = y[1]
    OBVIOUS
  <1>. HIDE DEF s, r, i
  <1>3. PICK x \in orders : FirstOf(orders, s, r, i, x)
    BY <1>1, FirstInOrder
  <1>4. \A y \in orders : Precedes(gs[x[2]], x[1], gs[y[2]], y[1])
    BY <1>2, <1>3, SMT DEF Precedes, FirstOf
  <1>. QED BY <1>4 DEF EconomicDomain

\* The candidate of an iteration: the leader of a group.
Candidate(u, l, n, b) ==
    /\ n \in DOMAIN u.groups /\ b \in Bounties /\ DomainOf[b] = n /\ b \in u.groups[n].bounties
    /\ b \in {u.groups[n].economic_key, u.groups[n].prepared_economic_key}
    /\ l.prepared_only => b \in u.groups[n].prepared
    /\ ~prefer_reward /\ Watched \in Names(u, l) => n \in Ahead(domain_after) \cup {Watched}

LEMMA CandidateFacts ==
  ASSUME LibraryFacts, Types, NEW u, WorkOK(u), NEW l \in LoopType, ~NoCandidate(u, l), NEW n, n = ChosenDomain(u, l)
  PROVE  Candidate(u, l, n, Leader(u.groups[n], l))
  <1>. DEFINE b == Leader(u.groups[n], l)
  <1>1. GroupsOK(u.groups) /\ IndexOf(u.groups, u.index)
    BY DEF WorkOK
  <1>2. \A m \in DOMAIN u.groups : /\ m \in Domains /\ u.groups[m].bounties \subseteq Bounties /\ u.groups[m].prepared \subseteq u.groups[m].bounties
                                   /\ u.groups[m].rate \in [Masks -> {HIGH, LOW}] /\ \A c \in u.groups[m].bounties : DomainOf[c] = m
    BY <1>1, GroupFacts DEF GroupsOK, GroupOf
  <1>3. Names(u, l) \in SUBSET Domains /\ Names(u, l) \subseteq DOMAIN u.groups
    BY <1>1, <1>2 DEF IndexOf, Names
  <1>4. /\ Orders(u, l) = {<<Leader(u.groups[m], l), m>> : m \in Names(u, l)}
        /\ \A m \in Names(u, l) : Leader(u.groups[m], l) \in u.groups[m].bounties /\ (l.prepared_only => Leader(u.groups[m], l) \in u.groups[m].prepared)
    <2>1. CASE l.prepared_only
      <3>1. \A m \in u.index.ready_prepared_domains : u.groups[m].prepared_economic_key \in u.groups[m].prepared
        BY <1>1 DEF IndexOf
      <3>2. Names(u, l) = u.index.ready_prepared_domains /\ Orders(u, l) = u.index.prepared_economic_order
        BY <2>1 DEF Names, Orders
      <3>3. \A m \in Names(u, l) : Leader(u.groups[m], l) = u.groups[m].prepared_economic_key
        BY <2>1 DEF Leader
      <3>4. u.index.prepared_economic_order = {<<u.groups[m].prepared_economic_key, m>> : m \in u.index.ready_prepared_domains}
        BY <1>1 DEF IndexOf
      <3>5. Orders(u, l) = {<<Leader(u.groups[m], l), m>> : m \in Names(u, l)}
        BY <3>2, <3>3, <3>4
      <3>. QED BY <1>2, <1>3, <3>1, <3>2, <3>3, <3>5, SMT
    <2>2. CASE ~l.prepared_only
      <3>1. \A m \in u.index.ready_domains : u.groups[m].economic_key \in u.groups[m].bounties
        BY <1>1 DEF IndexOf
      <3>2. Names(u, l) = u.index.ready_domains /\ Orders(u, l) = u.index.economic_order
        BY <2>2 DEF Names, Orders
      <3>3. \A m \in Names(u, l) : Leader(u.groups[m], l) = u.groups[m].economic_key
        BY <2>2 DEF Leader
      <3>4. u.index.economic_order = {<<u.groups[m].economic_key, m>> : m \in u.index.ready_domains}
        BY <1>1 DEF IndexOf
      <3>5. Orders(u, l) = {<<Leader(u.groups[m], l), m>> : m \in Names(u, l)}
        BY <3>2, <3>3, <3>4
      <3>. QED BY <2>2, <3>1, <3>2, <3>3, <3>5
    <2>. QED BY <2>1, <2>2
  <1>5. n \in Names(u, l) /\ (~prefer_reward /\ Watched \in Names(u, l) => n \in Ahead(domain_after) \cup {Watched})
    <2>1. CASE prefer_reward
      <3>1. Orders(u, l) # {} /\ n = EconomicDomain(u.groups, Orders(u, l))
        BY <2>1 DEF NoCandidate, ChosenDomain
      <3>2. ASSUME NEW x \in Orders(u, l) PROVE x[2] \in Names(u, l) /\ x[1] \in Bounties /\ u.groups[x[2]].rate \in [Masks -> {HIGH, LOW}]
        <4>1. PICK m \in Names(u, l) : x = <<Leader(u.groups[m], l), m>>
          BY <1>4
        <4>2. x[1] = Leader(u.groups[m], l) /\ x[2] = m
          BY <4>1
        <4>. QED BY <1>2, <1>3, <1>4, <4>2, SMT
      <3>3. \E x \in Orders(u, l) : EconomicDomain(u.groups, Orders(u, l)) = x[2]
        BY <3>1, <3>2, EconomicChoice
      <3>. QED BY <2>1, <3>1, <3>2, <3>3
    <2>2. CASE ~prefer_reward
      BY <1>3, <2>2, FairChoice DEF NoCandidate, ChosenDomain
    <2>. QED BY <2>1, <2>2
  <1>6. b \in {u.groups[n].economic_key, u.groups[n].prepared_economic_key}
    BY DEF Leader
  <1>7. b \in u.groups[n].bounties /\ (l.prepared_only => b \in u.groups[n].prepared)
    BY <1>4, <1>5
  <1>8. n \in DOMAIN u.groups
    BY <1>3, <1>5
  <1>. HIDE DEF b
  <1>9. b \in Bounties /\ DomainOf[b] = n
    BY <1>2, <1>7, <1>8
  <1>10. Candidate(u, l, n, b)
    BY <1>5, <1>6, <1>7, <1>8, <1>9 DEF Candidate
  <1>. QED BY <1>10 DEF b

-----------------------------------------------------------------------------
(* An iteration of Next                                                    *)

\* An iteration that loses a bounty, or one that must wait, and one that finds work.
Turned(u, l, v, P) ==
    /\ Keeps(Env, u, v) /\ SavedIn(v, P)
    /\ \E b \in Bounties : \/ b \in Listed(u.groups) /\ b \notin Listed(v.groups)
                           \/ b \in Stale(u.groups) /\ b \notin Stale(v.groups)
    /\ loop' = [l EXCEPT !.turns = @ + 1] /\ UNCHANGED <<thread, reservation>>
GivenTo(u, l, n, b, v, x) ==
    /\ x \in ThreadType /\ thread' = [thread EXCEPT ![l.t] = x]
    /\ x.b = b /\ ~x.retired /\ ~x.orphan
    /\ x.pc = "resolve" \/ (x.pc = "assigned" /\ x.economic = prefer_reward /\ x.prepared_only = l.prepared_only)
    /\ \A m \in DOMAIN u.groups : v.groups[m].resolving => u.groups[m].resolving \/ (m = n /\ x.pc = "resolve")
    /\ reservation' = reservation \/ (x.pc = "assigned" /\ reservation' = l.t)
Chosen(u, l, n, b, v, P) ==
    /\ WorkOK(v) /\ DOMAIN v.groups = DOMAIN u.groups /\ SavedIn(v, P)
    /\ catalog_ready => \A m \in DOMAIN u.groups : Attended(u.groups, u.index, m) => Attended(v.groups, v.index, m)
    /\ loop' = None
    /\ \E x : GivenTo(u, l, n, b, v, x)

LEMMA BecomeCurrent == ASSUME NEW v, WorkOK(v), Become(v) PROVE Current' = v
  BY DEF WorkOK, Become, Current

LEMMA DiscardStep ==
  ASSUME LibraryFacts, Types, NEW u, WorkOK(u), NEW l, NEW n, NEW b, Candidate(u, l, n, b),
         NEW w, Keeps(Env, u, w), NEW P, SavedIn(w, P), Discard(w, l, b)
  PROVE  Turned(u, l, Current', P)
  <1>. DEFINE v == UpdateEconomicOrder(Env, w, DomainOf[b], Discarded(w.groups[DomainOf[b]], b))
  <1>1. b \in Bounties /\ DomainOf[b] = n /\ n \in DOMAIN u.groups /\ n \in DOMAIN w.groups /\ WorkOK(w)
    BY DEF Candidate, Keeps
  <1>2. Keeps(Env, w, v) /\ SavedIn(v, P) /\ b \notin Listed(v.groups)
    BY <1>1, DiscardKeeps, SMT
  <1>3. Become(v) /\ loop' = [l EXCEPT !.turns = @ + 1] /\ UNCHANGED <<thread, reservation>>
    BY DEF Discard, Again
  <1>. HIDE DEF v
  <1>4. Keeps(Env, u, v)
    BY <1>2, KeepsTwice
  <1>5. Current' = v
    BY <1>3, <1>4, BecomeCurrent DEF Keeps
  <1>6. b \in Listed(u.groups)
    BY <1>1 DEF Candidate, Listed
  <1>. QED BY <1>1, <1>2, <1>3, <1>4, <1>5, <1>6 DEF Turned

ThreadGiven(l, b, pc, x) ==
    /\ x \in ThreadType /\ thread' = [thread EXCEPT ![l.t] = x] /\ x.pc = pc /\ x.b = b /\ ~x.retired /\ ~x.orphan
    /\ pc = "assigned" => x.economic = prefer_reward /\ x.prepared_only = l.prepared_only

LEMMA AssignedGives ==
  ASSUME Types, NEW l \in LoopType, NEW b \in Bounties, NEW pc \in {"resolve", "assigned"}, NEW probe \in BOOLEAN,
         Assigned(l, b, pc, probe)
  PROVE  \E x : ThreadGiven(l, b, pc, x)
  <1>. DEFINE x == [pc |-> pc, b |-> b, retired |-> FALSE, economic |-> prefer_reward /\ pc = "assigned", probe |-> probe,
                    prepared_only |-> l.prepared_only /\ pc = "assigned", orphan |-> FALSE]
  <1>1. (prefer_reward /\ pc = "assigned") \in BOOLEAN /\ (l.prepared_only /\ pc = "assigned") \in BOOLEAN /\ l.prepared_only \in BOOLEAN /\ prefer_reward \in BOOLEAN
    BY DEF LoopType, Types
  <1>2. x \in ThreadType
    BY <1>1 DEF ThreadType, Key
  <1>3. thread' = [thread EXCEPT ![l.t] = x] /\ loop' = None
    BY DEF Assigned
  <1>4. x.pc = pc /\ x.b = b /\ ~x.retired /\ ~x.orphan /\ (pc = "assigned" => x.economic = prefer_reward /\ x.prepared_only = l.prepared_only)
    BY <1>1
  <1>. HIDE DEF x
  <1>. QED BY <1>2, <1>3, <1>4 DEF ThreadGiven

LEMMA AssignStep ==
  ASSUME LibraryFacts, Types, reservation = None, NEW u, WorkOK(u), NEW l \in LoopType, NEW n, NEW b, Candidate(u, l, n, b),
         NEW w, Keeps(Env, u, w), NEW P, SavedIn(w, P), AssignFrom(w, l, b)
  PROVE  Turned(u, l, Current', P) \/ Chosen(u, l, n, b, Current', P)
  <1>. DEFINE g == w.groups[n]
  <1>1. b \in Bounties /\ DomainOf[b] = n /\ n \in DOMAIN u.groups /\ n \in DOMAIN w.groups /\ WorkOK(w) /\ DOMAIN w.groups = DOMAIN u.groups
    BY DEF Candidate, Keeps
  <1>2. GroupOf(n, g) /\ g \in Group
    BY <1>1 DEF WorkOK, GroupsOK, GroupOf
  <1>3. Assign(w, l, b, n, g)
    BY <1>1 DEF AssignFrom
  <1>4. \A m \in DOMAIN u.groups : /\ w.groups[m].resolving = u.groups[m].resolving
                                   /\ catalog_ready /\ Attended(u.groups, u.index, m) => Attended(w.groups, w.index, m)
    BY EnvTyped DEF Keeps
  <1>5. CASE /\ Become(UpdateEconomicOrder(Env, w, n, [g EXCEPT !.resolving = TRUE]))
             /\ Assigned(l, b, "resolve", FALSE) /\ UNCHANGED reservation
    <2>. DEFINE h == [g EXCEPT !.resolving = TRUE]
                v == UpdateEconomicOrder(Env, w, n, h)
    <2>1. /\ GroupOf(n, h) /\ h.economic_key = g.economic_key /\ h.prepared_economic_key = g.prepared_economic_key
          /\ h.resolving = TRUE /\ h.prepared = g.prepared
      BY <1>2 DEF GroupOf, Group
    <2>. HIDE DEF h
    <2>2. OneUpdated(Env, w, n, h, v)
      BY <1>1, <2>1, UpdateOne, EnvTyped
    <2>3. Become(v)
      BY <1>5 DEF h
    <2>. HIDE DEF v
    <2>4. Current' = v /\ WorkOK(v) /\ DOMAIN v.groups = DOMAIN u.groups
      BY <1>1, <2>2, <2>3, BecomeCurrent DEF OneUpdated
    <2>5. SavedIn(v, P)
      <3>1. h.prepared \subseteq P
        BY <1>1, <2>1 DEF SavedIn
      <3>. QED BY <1>1, <2>2, <3>1, OneSaved, SMT
    <2>6. ASSUME NEW m \in DOMAIN u.groups, catalog_ready, Attended(u.groups, u.index, m) PROVE Attended(v.groups, v.index, m)
      <3>1. CASE m = n
        BY <2>2, <2>6, <3>1, EnvTyped DEF OneUpdated
      <3>2. CASE m # n
        BY <1>1, <1>4, <2>2, <2>6, <3>2 DEF OneUpdated, Attended
      <3>. QED BY <3>1, <3>2
    <2>7. PICK x : ThreadGiven(l, b, "resolve", x)
      BY <1>1, <1>5, AssignedGives
    <2>8. \A m \in DOMAIN u.groups : v.groups[m].resolving => u.groups[m].resolving \/ m = n
      BY <1>1, <1>4, <2>2 DEF OneUpdated
    <2>9. GivenTo(u, l, n, b, v, x)
      BY <1>5, <2>7, <2>8 DEF GivenTo, ThreadGiven
    <2>10. loop' = None
      BY <1>5 DEF Assigned
    <2>11. Chosen(u, l, n, b, v, P)
      BY <2>4, <2>5, <2>6, <2>9, <2>10 DEF Chosen
    <2>. QED BY <2>4, <2>11
  <1>6. CASE /\ MaskOf[b] \in g.recovery /\ ~Reservable
             /\ Become(Refused(w, n)) /\ Again(l) /\ UNCHANGED <<reservation, thread>>
    <2>. DEFINE v == Refused(w, n)
    <2>1. Keeps(Env, w, v) /\ SavedIn(v, P) /\ b \notin Stale(v.groups)
      BY <1>1, RefusedKeeps
    <2>2. Become(v)
      BY <1>6
    <2>. HIDE DEF v
    <2>3. Keeps(Env, u, v)
      BY <2>1, KeepsTwice
    <2>4. Current' = v
      BY <2>2, <2>3, BecomeCurrent DEF Keeps
    <2>5. due > 0
      BY <1>6, SMT DEF Reservable, Types
    <2>6. b \in Stale(u.groups)
      <3>1. MaskOf[b] \in u.groups[n].recovery
        BY <1>1, <1>6 DEF Keeps
      <3>. QED BY <1>1, <2>5, <3>1 DEF Stale, Candidate
    <2>7. Turned(u, l, v, P)
      BY <1>1, <1>6, <2>1, <2>3, <2>6 DEF Turned, Again
    <2>. QED BY <2>4, <2>7
  <1>7. CASE /\ reservation' = IF MaskOf[b] \in g.recovery THEN l.t ELSE reservation
             /\ Become(w) /\ Assigned(l, b, "assigned", MaskOf[b] \in g.recovery)
    <2>1. Current' = w
      BY <1>1, <1>7, BecomeCurrent
    <2>2. (MaskOf[b] \in g.recovery) \in BOOLEAN
      BY SMT
    <2>3. PICK x : ThreadGiven(l, b, "assigned", x)
      BY <1>1, <1>7, <2>2, AssignedGives
    <2>4. GivenTo(u, l, n, b, w, x)
      BY <1>4, <1>7, <2>3 DEF GivenTo, ThreadGiven
    <2>5. loop' = None
      BY <1>7 DEF Assigned
    <2>6. Chosen(u, l, n, b, w, P)
      BY <1>1, <1>4, <2>4, <2>5 DEF Chosen
    <2>. QED BY <2>1, <2>6
  <1>. QED BY <1>3, <1>5, <1>6, <1>7 DEF Assign

LEMMA PrepareStep ==
  ASSUME LibraryFacts, Types, reservation = None, NEW u, WorkOK(u), NEW l \in LoopType, NEW n, NEW b, Candidate(u, l, n, b),
         NEW w, Keeps(Env, u, w), w.groups[n].bounties = u.groups[n].bounties,
         NEW saved, SavedIn(w, saved), NEW cache, Prepare(w, l, b, saved, cache)
  PROVE  \/ proposals' = saved /\ claim_cache' = cache /\ Turned(u, l, Current', saved)
         \/ /\ proposals' = saved \cup {b} /\ claim_cache' = cache \cup {b}
            /\ Turned(u, l, Current', saved \cup {b}) \/ Chosen(u, l, n, b, Current', saved \cup {b})
  <1>1. CASE Discard(w, l, b) /\ proposals' = saved /\ claim_cache' = cache
    BY <1>1, DiscardStep
  <1>2. CASE proposals' = saved \cup {b} /\ claim_cache' = cache \cup {b} /\ AssignFrom(Prepared(w, b), l, b)
    <2>. DEFINE v == Prepared(w, b)
    <2>1. b \in Bounties /\ DomainOf[b] = n /\ n \in DOMAIN w.groups /\ b \in w.groups[n].bounties /\ WorkOK(w)
      BY DEF Candidate, Keeps
    <2>2. Keeps(Env, w, v) /\ SavedIn(v, saved \cup {b})
      BY <2>1, PreparedKeeps
    <2>. HIDE DEF v
    <2>3. Keeps(Env, u, v)
      BY <2>2, KeepsTwice
    <2>4. Turned(u, l, Current', saved \cup {b}) \/ Chosen(u, l, n, b, Current', saved \cup {b})
      BY <1>2, <2>2, <2>3, AssignStep DEF v
    <2>. QED BY <1>2, <2>4
  <1>. QED BY <1>1, <1>2 DEF Prepare

\* The saved challenges, the cached claims and the cancelled ones.
ClaimSets(P, C, U) ==
    /\ P \subseteq Bounties /\ Cardinality(P) <= MAX_PENDING_CLAIMS
    /\ U \subseteq C /\ C \subseteq P /\ completed \subseteq P
    /\ \A t \in Threads : thread[t].b # None /\ ~thread[t].orphan => thread[t].b \in C

LEMMA ClaimSetsNow == ASSUME Types, Claims PROVE ClaimSets(proposals, claim_cache, unavailable)
  BY DEF Types, Claims, ClaimSets

LEMMA ClaimSetsAdd ==
  ASSUME LibraryFacts, NEW P, NEW C, NEW U, ClaimSets(P, C, U), NEW b \in Bounties, b \in P \/ Cardinality(P) < MAX_PENDING_CLAIMS
  PROVE  ClaimSets(P \cup {b}, C \cup {b}, U)
  <1>1. IsFiniteSet(P) /\ Cardinality(P) \in Nat /\ MAX_PENDING_CLAIMS \in Nat
    BY SchedulerAssumption DEF LibraryFacts, CardinalityFact, SubsetFact, ClaimSets
  <1>2. Cardinality(P \cup {b}) = IF b \in P THEN Cardinality(P) ELSE Cardinality(P) + 1
    BY <1>1 DEF LibraryFacts, AddFact
  <1>3. Cardinality(P \cup {b}) <= MAX_PENDING_CLAIMS
    BY <1>1, <1>2, SMT DEF ClaimSets
  <1>. QED BY <1>3 DEF ClaimSets

\* A claim that is not in use and not completed may be dropped.
LEMMA ClaimSetsDrop ==
  ASSUME LibraryFacts, NEW P, NEW C, NEW U, ClaimSets(P, C, U), NEW b \in P, b \notin completed,
         \A t \in Threads : thread[t].b = b => thread[t].orphan
  PROVE  /\ ClaimSets(P \ {b}, C \ {b}, U \ {b})
         /\ Cardinality(P \ {b}) < MAX_PENDING_CLAIMS
  <1>1. IsFiniteSet(P) /\ Cardinality(P) \in Nat /\ MAX_PENDING_CLAIMS \in Nat /\ Cardinality(P) <= MAX_PENDING_CLAIMS
    BY SchedulerAssumption DEF LibraryFacts, CardinalityFact, SubsetFact, ClaimSets
  <1>2. Cardinality(P \ {b}) = Cardinality(P) - 1
    BY <1>1 DEF LibraryFacts, RemoveFact
  <1>3. Cardinality(P \ {b}) < MAX_PENDING_CLAIMS /\ Cardinality(P \ {b}) <= MAX_PENDING_CLAIMS
    BY <1>1, <1>2, SMT
  <1>. QED BY <1>3 DEF ClaimSets

Bounced(u, l, v) ==
    /\ v = u /\ ~l.prepared_only /\ loop' = [l EXCEPT !.prepared_only = TRUE, !.turns = @ + 1]
    /\ UNCHANGED <<thread, reservation>>
Idles(u, v) == v = u /\ loop' = None /\ UNCHANGED <<thread, reservation>>
Picked(u, l, v, P) == \E n, b : Candidate(u, l, n, b) /\ b \in claim_cache' /\ Chosen(u, l, n, b, v, P)
Iterated(u, l, v) ==
    /\ ClaimSets(proposals', claim_cache', unavailable')
    /\ \/ Turned(u, l, v, proposals')
       \/ Picked(u, l, v, proposals')
       \/ SavedIn(u, proposals') /\ (Bounced(u, l, v) \/ Idles(u, v))

LEMMA IterateStep ==
  ASSUME LibraryFacts, Types, Claims, reservation = None, NEW u, WorkOK(u), SavedIn(u, proposals), NEW l \in LoopType,
         NEW n, NEW b, Candidate(u, l, n, b), Iterate(u, l, b)
  PROVE  Iterated(u, l, Current')
  <1>0. ClaimSets(proposals, claim_cache, unavailable) /\ Keeps(Env, u, u) /\ b \in Bounties
    BY ClaimSetsNow, KeepsSame DEF Candidate
  <1>1. CASE Discard(u, l, b) /\ UNCHANGED <<proposals, claim_cache, unavailable>>
    <2>1. Turned(u, l, Current', proposals)
      BY <1>0, <1>1, DiscardStep
    <2>. QED BY <1>0, <1>1, <2>1 DEF Iterated
  <1>2. CASE b \in claim_cache \ unavailable /\ AssignFrom(u, l, b) /\ UNCHANGED <<proposals, claim_cache, unavailable>>
    <2>1. Turned(u, l, Current', proposals) \/ Chosen(u, l, n, b, Current', proposals)
      BY <1>0, <1>2, AssignStep
    <2>. QED BY <1>0, <1>2, <2>1 DEF Iterated, Picked
  <1>3. CASE (b \in proposals \/ ~Full) /\ Prepare(u, l, b, proposals, claim_cache) /\ UNCHANGED unavailable
    <2>1. \/ proposals' = proposals /\ claim_cache' = claim_cache /\ Turned(u, l, Current', proposals)
          \/ /\ proposals' = proposals \cup {b} /\ claim_cache' = claim_cache \cup {b}
             /\ Turned(u, l, Current', proposals \cup {b}) \/ Chosen(u, l, n, b, Current', proposals \cup {b})
      BY <1>0, <1>3, PrepareStep
    <2>2. b \in proposals \/ Cardinality(proposals) < MAX_PENDING_CLAIMS
      <3>1. Cardinality(proposals) \in Nat /\ MAX_PENDING_CLAIMS \in Nat
        BY SchedulerAssumption DEF LibraryFacts, CardinalityFact, SubsetFact, Types
      <3>. QED BY <1>3, <3>1, SMT DEF Full
    <2>3. ClaimSets(proposals \cup {b}, claim_cache \cup {b}, unavailable)
      BY <1>0, <2>2, ClaimSetsAdd
    <2>. QED BY <1>0, <1>3, <2>1, <2>3 DEF Iterated, Picked
  <1>4. CASE b \notin proposals /\ Evictable # {} /\ EvictThenPrepare(u, l, b, Min(Evictable))
    <2>. DEFINE old == Min(Evictable)
                w == ForgetPrepared(u, old)
    <2>1. Evictable \in SUBSET Nat
      BY SchedulerAssumption DEF Evictable, Types
    <2>2. old \in Evictable
      BY <1>4, <2>1, MinNat
    <2>3. /\ Prepare(w, l, b, proposals \ {old}, claim_cache \ {old})
          /\ unavailable' = unavailable \ {old}
      BY <1>4 DEF EvictThenPrepare
    <2>. HIDE DEF old
    <2>4. old \in proposals /\ old \in Bounties /\ old \notin completed /\ \A t \in Threads : thread[t].b = old => thread[t].orphan
      BY <2>2, <1>0, SchedulerAssumption DEF Evictable, InUse, Types, ClaimSets
    <2>5. ClaimSets(proposals \ {old}, claim_cache \ {old}, unavailable \ {old}) /\ Cardinality(proposals \ {old}) < MAX_PENDING_CLAIMS
      BY <1>0, <2>4, ClaimSetsDrop
    <2>6. Keeps(Env, u, w) /\ SavedIn(w, proposals \ {old}) /\ w.groups[n].bounties = u.groups[n].bounties
      BY <2>4, ForgetKeeps, SMT DEF Candidate
    <2>. HIDE DEF w
    <2>7. \/ proposals' = proposals \ {old} /\ claim_cache' = claim_cache \ {old} /\ Turned(u, l, Current', proposals \ {old})
          \/ /\ proposals' = (proposals \ {old}) \cup {b} /\ claim_cache' = (claim_cache \ {old}) \cup {b}
             /\ Turned(u, l, Current', (proposals \ {old}) \cup {b}) \/ Chosen(u, l, n, b, Current', (proposals \ {old}) \cup {b})
      BY <2>3, <2>6, PrepareStep
    <2>8. ClaimSets((proposals \ {old}) \cup {b}, (claim_cache \ {old}) \cup {b}, unavailable \ {old})
      BY <1>0, <2>5, ClaimSetsAdd
    <2>. QED BY <2>3, <2>5, <2>7, <2>8 DEF Iterated, Picked
  <1>5. CASE /\ b \notin proposals /\ Become(u) /\ Again([l EXCEPT !.prepared_only = TRUE])
             /\ UNCHANGED <<proposals, claim_cache, unavailable, thread, reservation>>
    <2>1. Current' = u
      BY <1>5, BecomeCurrent
    <2>2. ~l.prepared_only
      BY <1>5 DEF Candidate, SavedIn
    <2>3. loop' = [l EXCEPT !.prepared_only = TRUE, !.turns = @ + 1]
      BY <1>5 DEF Again, LoopType
    <2>. QED BY <1>0, <1>5, <2>1, <2>2, <2>3 DEF Iterated, Bounced
  <1>. QED BY <1>1, <1>2, <1>3, <1>4, <1>5 DEF Iterate

LEMMA NextStep ==
  ASSUME LibraryFacts, Types, Claims, reservation = None, NEW u, WorkOK(u), SavedIn(u, proposals), NEW l \in LoopType, NextFrom(u, l)
  PROVE  Iterated(u, l, Current')
  <1>1. CASE NoCandidate(u, l)
    <2>1. Become(u) /\ loop' = None /\ UNCHANGED <<proposals, claim_cache, unavailable, thread, reservation>>
      BY <1>1 DEF NextFrom
    <2>2. Current' = u
      BY <2>1, BecomeCurrent
    <2>. QED BY <2>1, <2>2, ClaimSetsNow DEF Iterated, Idles
  <1>2. CASE ~NoCandidate(u, l)
    <2>1. PICK n, b : Candidate(u, l, n, b) /\ Iterate(u, l, b)
      BY <1>2, CandidateFacts DEF NextFrom
    <2>. QED BY <2>1, IterateStep
  <1>. QED BY <1>1, <1>2

-----------------------------------------------------------------------------
(* Updates of groups that did not change                                   *)

AllUpdated(e, u, names, v) ==
    /\ WorkOK(v) /\ DOMAIN v.groups = DOMAIN u.groups
    /\ \A n \in DOMAIN u.groups : SameWork(v.groups[n], u.groups[n])
    /\ e.ready => \A n \in names : Attended(v.groups, v.index, n)
    /\ \A n \in DOMAIN u.groups \ names :
          /\ n \in v.index.ready_domains <=> n \in u.index.ready_domains
          /\ Scheduled(u.index, n) => Scheduled(v.index, n)

LEMMA UpdateAllFacts ==
  ASSUME LibraryFacts, NEW e \in EnvType, NEW u, WorkOK(u), NEW names, names \subseteq DOMAIN u.groups
  PROVE  AllUpdated(e, u, names, UpdateAll(e, u, names))
  <1>. DEFINE gs == [n \in names |-> u.groups[n]]
              v == UpdateAll(e, u, names)
  <1>1. DOMAIN gs = names /\ gs = [n \in DOMAIN gs |-> gs[n]] /\ \A n \in names : gs[n] = u.groups[n]
    OBVIOUS
  <1>2. v = UpdateGroups(e, u, gs)
    BY DEF UpdateAll
  <1>. HIDE DEF gs, v
  <1>3. Updates(u, gs)
    BY <1>1 DEF Updates, WorkOK, GroupsOK
  <1>4. Updated(e, u, gs, v)
    BY <1>2, <1>3, UpdateFacts
  <1>5. ASSUME NEW n \in DOMAIN u.groups PROVE SameWork(v.groups[n], u.groups[n])
    <2>1. CASE n \in names
      BY <1>1, <1>4, <2>1 DEF Updated
    <2>2. CASE n \notin names
      BY <1>1, <1>4, <2>2 DEF Updated, SameWork
    <2>. QED BY <2>1, <2>2
  <1>6. WorkOK(v) /\ DOMAIN v.groups = DOMAIN u.groups
    BY <1>1, <1>4 DEF Updated
  <1>7. e.ready => \A n \in names : Attended(v.groups, v.index, n)
    BY <1>1, <1>4 DEF Updated
  <1>8. \A n \in DOMAIN u.groups \ names :
          /\ n \in v.index.ready_domains <=> n \in u.index.ready_domains
          /\ Scheduled(u.index, n) => Scheduled(v.index, n)
    BY <1>1, <1>4 DEF Updated
  <1>9. AllUpdated(e, u, names, v)
    BY <1>5, <1>6, <1>7, <1>8 DEF AllUpdated
  <1>. QED BY <1>9 DEF v

LEMMA AllUpdatedAttended ==
  ASSUME NEW e, e.ready = catalog_ready, NEW u, NEW names, NEW v, AllUpdated(e, u, names, v), 
         catalog_ready => \A n \in DOMAIN u.groups \ names : Attended(u.groups, u.index, n)
  PROVE  AllAttended(v)
  <1>1. ASSUME catalog_ready, NEW n \in DOMAIN v.groups PROVE Attended(v.groups, v.index, n)
    <2>1. n \in DOMAIN u.groups /\ SameWork(v.groups[n], u.groups[n])
      BY DEF AllUpdated
    <2>2. CASE n \in names
      BY <1>1, <2>2 DEF AllUpdated
    <2>3. CASE n \notin names
      BY <1>1, <2>1, <2>3 DEF AllUpdated, Attended, SameWork
    <2>. QED BY <2>2, <2>3
  <1>. QED BY <1>1 DEF AllAttended

LEMMA AllUpdatedSaved ==
  ASSUME NEW e, NEW u, NEW names, NEW v, AllUpdated(e, u, names, v), NEW P, SavedIn(u, P)
  PROVE  SavedIn(v, P)
  BY DEF AllUpdated, SavedIn, SameWork

LEMMA AllUpdatedResolvers ==
  ASSUME NEW e, NEW u, NEW names, NEW v, AllUpdated(e, u, names, v), Resolvers(u.groups)
  PROVE  Resolvers(v.groups)
  BY DEF AllUpdated, Resolvers, SameWork

\* PromoteScheduled loses no domain: those whose timers it takes are entered anew.
LEMMA PromoteFacts ==
  ASSUME LibraryFacts, Types, WorkOK(Current), NEW v, v = PromoteScheduled
  PROVE  /\ WorkOK(v) /\ \A P : SavedIn(Current, P) => SavedIn(v, P)
         /\ AllAttended(Current) => AllAttended(v)
         /\ Resolvers(groups) => Resolvers(v.groups)
  <1>. DEFINE ix == [index EXCEPT !.scheduled_domains = @ \ DueDomains]
              u == [groups |-> groups, index |-> ix]
              names == {s[2] : s \in DueDomains} \cap Live
  <1>1. WorkOK([groups |-> groups, index |-> index]) /\ DOMAIN index = DOMAIN EmptyIndex /\ GroupsOK(groups) /\ IndexOf(groups, index)
    BY DEF WorkOK, Current
  <1>2. u = [Current EXCEPT !.index.scheduled_domains = @ \ DueDomains]
    BY SMT DEF Current
  <1>3. /\ DOMAIN ix = DOMAIN index /\ ix.scheduled_domains = index.scheduled_domains \ DueDomains
        /\ ix.economic_order = index.economic_order /\ ix.ready_domains = index.ready_domains
        /\ ix.prepared_economic_order = index.prepared_economic_order /\ ix.ready_prepared_domains = index.ready_prepared_domains
    BY <1>1 DEF EmptyIndex
  <1>4. v = UpdateAll(Env, u, names)
    BY <1>2 DEF PromoteScheduled
  <1>. HIDE DEF ix
  <1>5. WorkOK(u)
    <2>1. IndexOf(groups, ix)
      BY <1>1, <1>3 DEF IndexOf
    <2>. QED BY <1>1, <1>3, <2>1 DEF WorkOK
  <1>6. u.groups = groups /\ u.index = ix /\ names \subseteq DOMAIN u.groups /\ Current.groups = groups /\ Current.index = index
    BY DEF Live, Current
  <1>7. ASSUME AllAttended(Current), catalog_ready, NEW n \in DOMAIN u.groups \ names PROVE Attended(u.groups, u.index, n)
    <2>1. Attended(groups, index, n)
      BY <1>6, <1>7 DEF AllAttended
    <2>2. Scheduled(index, n) => Scheduled(ix, n)
      <3>. SUFFICES ASSUME NEW s \in index.scheduled_domains, s[2] = n PROVE \E r \in ix.scheduled_domains : r[2] = n
        BY DEF Scheduled
      <3>1. s \notin DueDomains
        BY <1>6, <1>7 DEF Live
      <3>. QED BY <1>3, <3>1
    <2>. QED BY <1>3, <1>6, <2>1, <2>2 DEF Attended
  <1>. HIDE DEF u, names
  <1>8. AllUpdated(Env, u, names, v)
    BY <1>4, <1>5, <1>6, UpdateAllFacts, EnvTyped
  <1>9. WorkOK(v)
    BY <1>8 DEF AllUpdated
  <1>10. ASSUME NEW P, SavedIn(Current, P) PROVE SavedIn(v, P)
    <2>1. SavedIn(u, P)
      BY <1>6, <1>10 DEF SavedIn
    <2>. QED BY <1>8, <2>1, AllUpdatedSaved
  <1>11. AllAttended(Current) => AllAttended(v)
    BY <1>7, <1>8, AllUpdatedAttended, EnvTyped
  <1>12. Resolvers(groups) => Resolvers(v.groups)
    BY <1>6, <1>8, AllUpdatedResolvers
  <1>. QED BY <1>9, <1>10, <1>11, <1>12

-----------------------------------------------------------------------------
(* The history, and the steps of Next                                      *)

LEMMA AheadFinite ==
  ASSUME LibraryFacts, NEW d
  PROVE  Cardinality(Ahead(d)) \in Nat /\ IsFiniteSet(Ahead(d)) /\ Cardinality(Domains) \in Nat /\ Cardinality(Ahead(d)) < Cardinality(Domains)
  <1>1. IsFiniteSet(Domains) /\ Watched \in Domains
    BY SchedulerAssumption
  <1>2. IsFiniteSet(Domains \ {Watched}) /\ Cardinality(Domains \ {Watched}) = Cardinality(Domains) - 1 /\ Cardinality(Domains) \in Nat
    BY <1>1 DEF LibraryFacts, CardinalityFact, RemoveFact
  <1>3. Ahead(d) \subseteq Domains \ {Watched}
    BY DEF Ahead
  <1>4. IsFiniteSet(Ahead(d)) /\ Cardinality(Ahead(d)) \in Nat /\ Cardinality(Ahead(d)) <= Cardinality(Domains \ {Watched})
    BY <1>2, <1>3 DEF LibraryFacts, CardinalityFact, SubsetFact
  <1>. QED BY <1>2, <1>4, SMT

LEMMA SkipsQuiet ==
  ASSUME Types, Skips, \A t \in Threads : ~Starts(t)
  PROVE  skipped' \in {0, skipped} /\ skipped' \in Nat /\ offered' \in BOOLEAN
  BY SMT DEF Types, Skips

\* Rotates when no connection starts.
LEMMA RotatesQuiet ==
  ASSUME LibraryFacts, Types, Rotates, Skips, UNCHANGED turnVars, \A t \in Threads : ~Starts(t),
         \A t \in Threads : thread'[t].pc = "assigned" /\ offered' /\ ~prefer_reward => DomainOf[thread'[t].b] \in Ahead(domain_after) \cup {Watched}
  PROVE  Rotates'
  <1>1. skipped' \in {0, skipped} /\ skipped \in Nat /\ skipped' \in Nat /\ domain_after' = domain_after /\ prefer_reward' = prefer_reward
    BY SkipsQuiet DEF turnVars, Types
  <1>2. Ahead(domain_after)' = Ahead(domain_after)
    BY <1>1 DEF Ahead
  <1>3. Cardinality(Ahead(domain_after)) \in Nat /\ Cardinality(Domains) \in Nat
    BY AheadFinite
  <1>4. skipped + 2 * Cardinality(Ahead(domain_after)) + (IF prefer_reward THEN 1 ELSE 0) < 2 * Cardinality(Domains)
    BY DEF Rotates
  <1>5. skipped' + 2 * Cardinality(Ahead(domain_after)) + (IF prefer_reward THEN 1 ELSE 0) < 2 * Cardinality(Domains)
    BY <1>1, <1>3, <1>4, SMT
  <1>. QED BY <1>1, <1>2, <1>5 DEF Rotates

\* Rotates when no thread is given work.
LEMMA RotatesRest ==
  ASSUME LibraryFacts, Types, Rotates, Skips, UNCHANGED turnVars,
         \A t \in Threads : /\ thread'[t].pc = "assigned" => thread[t].pc = "assigned" /\ thread'[t].b = thread[t].b
                            /\ ~Starts(t)
  PROVE  Rotates' /\ skipped' \in Nat /\ offered' \in BOOLEAN
  <1>1. offered' => offered
    BY DEF Skips, Offers
  <1>2. \A t \in Threads : thread'[t].pc = "assigned" /\ offered' /\ ~prefer_reward => DomainOf[thread'[t].b] \in Ahead(domain_after) \cup {Watched}
    BY <1>1 DEF Rotates
  <1>. QED BY <1>2, RotatesQuiet, SkipsQuiet

\* What an iteration of Next starts from.
Loopable(u, l) ==
    /\ WorkOK(u) /\ SavedIn(u, proposals) /\ Resolvers(u.groups) /\ AllAttended(u)
    /\ l \in LoopType /\ Left(l, u.groups) <= MaxLeft(l)
    /\ thread[l.t].pc = "queue" /\ \A t \in Threads : thread[t].pc # "assigned"
    /\ u = IF loop = None THEN PromoteScheduled ELSE Current

LEMMA LeftTypes ==
  ASSUME LibraryFacts, NEW gs
  PROVE  /\ Cardinality(Listed(gs)) \in Nat /\ Cardinality(Listed(gs)) <= Cardinality(Bounties)
         /\ Cardinality(Stale(gs)) \in Nat /\ Cardinality(Stale(gs)) <= Cardinality(Bounties) /\ Cardinality(Bounties) \in Nat
  <1>1. IsFiniteSet(Bounties) /\ Listed(gs) \subseteq Bounties /\ Stale(gs) \subseteq Bounties
    BY SchedulerAssumption DEF Listed, Stale
  <1>2. IsFiniteSet(Listed(gs)) /\ Cardinality(Listed(gs)) <= Cardinality(Bounties)
    BY <1>1 DEF LibraryFacts, SubsetFact
  <1>3. IsFiniteSet(Stale(gs)) /\ Cardinality(Stale(gs)) <= Cardinality(Bounties)
    BY <1>1 DEF LibraryFacts, SubsetFact
  <1>. QED BY <1>1, <1>2, <1>3 DEF LibraryFacts, CardinalityFact

\* The loop has less left after an iteration.
LEMMA ShrinksNext ==
  ASSUME LibraryFacts, Types, NEW u, NEW l, Loopable(u, l), Iterated(u, l, Current'), UNCHANGED due
  PROVE  Shrinks' /\ loop' \in LoopType \cup {None}
  <1>1. l \in LoopType /\ Left(l, u.groups) <= MaxLeft(l) /\ l.turns \in Nat /\ l.t \in Threads
    BY DEF Loopable, LoopType
  <1>2. Stale(groups)' = Stale(groups') /\ Listed(groups)' = Listed(groups') /\ Current'.groups = groups'
    BY DEF Stale, Listed, Current
  <1>3. CASE loop' = None
    BY <1>3 DEF Shrinks
  <1>4. CASE Turned(u, l, Current', proposals')
    <2>1. PICK b \in Bounties : \/ b \in Listed(u.groups) /\ b \notin Listed(Current'.groups)
                                \/ b \in Stale(u.groups) /\ b \notin Stale(Current'.groups)
      BY <1>4 DEF Turned
    <2>2. Keeps(Env, u, Current')
      BY <1>4 DEF Turned
    <2>3. /\ Cardinality(Listed(groups')) \in Nat /\ Cardinality(Stale(groups')) \in Nat
          /\ Cardinality(Listed(u.groups)) \in Nat /\ Cardinality(Stale(u.groups)) \in Nat
          /\ Cardinality(Listed(groups')) + Cardinality(Stale(groups')) + 1 <= Cardinality(Listed(u.groups)) + Cardinality(Stale(u.groups))
      BY <1>2, <2>1, <2>2, LessLeft
    <2>4. loop' = [l EXCEPT !.turns = @ + 1]
      BY <1>4 DEF Turned
    <2>5. loop'.turns = l.turns + 1 /\ loop'.prepared_only = l.prepared_only /\ loop' \in LoopType
      BY <1>1, <2>4, SMT DEF LoopType
    <2>6. MaxLeft(l) \in Nat /\ MaxLeft(loop)' = MaxLeft(l)
      BY <2>5, LeftTypes, SMT DEF MaxLeft
    <2>7. l.turns + Cardinality(Listed(u.groups)) + Cardinality(Stale(u.groups)) <= MaxLeft(l)
      BY <1>1 DEF Left
    <2>8. loop'.turns + Cardinality(Listed(groups')) + Cardinality(Stale(groups')) <= MaxLeft(l)
      BY <1>1, <2>3, <2>5, <2>6, <2>7, SMT
    <2>. QED BY <1>2, <2>5, <2>6, <2>8 DEF Shrinks, Left
  <1>5. CASE Bounced(u, l, Current')
    <2>1. u.groups = groups' /\ ~l.prepared_only /\ loop' = [l EXCEPT !.prepared_only = TRUE, !.turns = @ + 1]
      BY <1>2, <1>5 DEF Bounced
    <2>2. loop'.turns = l.turns + 1 /\ loop'.prepared_only = TRUE /\ loop' \in LoopType
      <3>1. l = [t |-> l.t, prepared_only |-> l.prepared_only, turns |-> l.turns]
        BY <1>1 DEF LoopType
      <3>2. loop' = [t |-> l.t, prepared_only |-> TRUE, turns |-> l.turns + 1]
        BY <2>1, <3>1
      <3>. QED BY <1>1, <3>2, SMT DEF LoopType
    <2>3. Cardinality(Bounties) \in Nat /\ Cardinality(Listed(groups')) \in Nat /\ Cardinality(Stale(groups')) \in Nat
      BY LeftTypes
    <2>4. MaxLeft(l) = 2 * Cardinality(Bounties) /\ MaxLeft(loop)' = 2 * Cardinality(Bounties) + 1
      BY <2>1, <2>2, <2>3, SMT DEF MaxLeft
    <2>5. l.turns + Cardinality(Listed(groups')) + Cardinality(Stale(groups')) <= 2 * Cardinality(Bounties)
      BY <1>1, <2>1, <2>4 DEF Left
    <2>6. loop'.turns + Cardinality(Listed(groups')) + Cardinality(Stale(groups')) <= 2 * Cardinality(Bounties) + 1
      BY <1>1, <2>2, <2>3, <2>5, SMT
    <2>. QED BY <1>2, <2>2, <2>4, <2>6 DEF Shrinks, Left
  <1>6. Turned(u, l, Current', proposals') \/ Picked(u, l, Current', proposals') \/ Bounced(u, l, Current') \/ Idles(u, Current')
    BY DEF Iterated
  <1>7. Picked(u, l, Current', proposals') \/ Idles(u, Current') => loop' = None
    BY DEF Picked, Chosen, Idles
  <1>. QED BY <1>3, <1>4, <1>5, <1>6, <1>7

\* The work list after an iteration.
LEMMA WorkNext ==
  ASSUME Types, NEW u, NEW l, Loopable(u, l), NEW v, Iterated(u, l, v)
  PROVE  /\ WorkOK(v) /\ SavedIn(v, proposals')
         /\ catalog_ready => \A n \in DOMAIN v.groups : Attended(v.groups, v.index, n)
  <1>1. WorkOK(u) /\ (catalog_ready => \A n \in DOMAIN u.groups : Attended(u.groups, u.index, n))
    BY DEF Loopable, AllAttended
  <1>2. CASE Turned(u, l, v, proposals')
    <2>1. Keeps(Env, u, v) /\ SavedIn(v, proposals')
      BY <1>2 DEF Turned
    <2>. QED BY <1>1, <2>1, EnvTyped DEF Keeps
  <1>3. CASE Picked(u, l, v, proposals')
    <2>1. PICK n, b : Chosen(u, l, n, b, v, proposals')
      BY <1>3 DEF Picked
    <2>. QED BY <1>1, <2>1 DEF Chosen
  <1>4. CASE SavedIn(u, proposals') /\ (Bounced(u, l, v) \/ Idles(u, v))
    <2>1. v = u
      BY <1>4 DEF Bounced, Idles
    <2>. QED BY <1>1, <1>4, <2>1
  <1>. QED BY <1>2, <1>3, <1>4 DEF Iterated

\* The threads after an iteration: one of them may have been given the candidate.
Gave(u, l, v) ==
    \E n, b, x : Candidate(u, l, n, b) /\ b \in claim_cache' /\ GivenTo(u, l, n, b, v, x) /\ loop' = None

LEMMA ThreadsNext ==
  ASSUME Types, NEW u, NEW l, NEW v, Iterated(u, l, v)
  PROVE  Gave(u, l, v) \/ UNCHANGED <<thread, reservation>>
  BY DEF Iterated, Turned, Picked, Chosen, Bounced, Idles, Gave

LEMMA ResolversNext ==
  ASSUME Types, NEW u, NEW l, Loopable(u, l), NEW v, Iterated(u, l, v)
  PROVE  \A n \in DOMAIN v.groups : v.groups[n].resolving => \E t \in Threads : ResolverOf(n, t)'
  <1>1. l \in LoopType /\ l.t \in Threads /\ thread[l.t].pc = "queue" /\ \A n \in DOMAIN u.groups : u.groups[n].resolving => \E t \in Threads : ResolverOf(n, t)
    BY DEF Loopable, LoopType, Resolvers
  <1>2. ASSUME DOMAIN v.groups = DOMAIN u.groups, \A n \in DOMAIN u.groups : v.groups[n].resolving => u.groups[n].resolving, thread' = thread,
               NEW n \in DOMAIN v.groups, v.groups[n].resolving
        PROVE  \E t \in Threads : ResolverOf(n, t)'
    BY <1>1, <1>2 DEF ResolverOf
  <1>3. CASE Turned(u, l, v, proposals')
    <2>1. Keeps(Env, u, v) /\ thread' = thread
      BY <1>3 DEF Turned
    <2>2. DOMAIN v.groups = DOMAIN u.groups /\ \A n \in DOMAIN u.groups : v.groups[n].resolving => u.groups[n].resolving
      BY <2>1 DEF Keeps
    <2>. QED BY <1>2, <2>1, <2>2
  <1>4. CASE Picked(u, l, v, proposals')
    <2>1. PICK n, b : Candidate(u, l, n, b) /\ Chosen(u, l, n, b, v, proposals')
      BY <1>4 DEF Picked
    <2>2. PICK x : GivenTo(u, l, n, b, v, x)
      BY <2>1 DEF Chosen
    <2>3. DomainOf[b] = n
      BY <2>1 DEF Candidate
    <2>4. /\ \A t \in Threads \ {l.t} : thread'[t] = thread[t]
          /\ thread'[l.t] = x /\ x.b = b /\ ~x.retired
      BY <1>1, <2>2 DEF GivenTo, Types
    <2>5. ASSUME NEW m \in DOMAIN v.groups, v.groups[m].resolving PROVE \E t \in Threads : ResolverOf(m, t)'
      <3>0. m \in DOMAIN u.groups
        BY <2>1 DEF Chosen
      <3>1. CASE u.groups[m].resolving
        <4>1. PICK t \in Threads : ResolverOf(m, t)
          BY <1>1, <3>0, <3>1
        <4>2. t # l.t
          BY <1>1, <4>1 DEF ResolverOf
        <4>. QED BY <2>4, <4>1, <4>2 DEF ResolverOf
      <3>2. CASE m = n /\ x.pc = "resolve"
        BY <1>1, <2>3, <2>4, <3>2 DEF ResolverOf
      <3>. QED BY <2>2, <2>5, <3>0, <3>1, <3>2 DEF GivenTo
    <2>. QED BY <2>5
  <1>5. CASE Bounced(u, l, v) \/ Idles(u, v)
    <2>1. v = u /\ thread' = thread
      BY <1>5 DEF Bounced, Idles
    <2>. QED BY <1>2, <2>1
  <1>. QED BY <1>3, <1>4, <1>5 DEF Iterated

LEMMA NextInv ==
  ASSUME LibraryFacts, SchedulerInv, NEW u, NEW l, Loopable(u, l), NextFrom(u, l), Skips
  PROVE  SchedulerInv'
  <1>. USE DEF SchedulerInv
  <1>1. l \in LoopType /\ l.t \in Threads /\ thread[l.t].pc = "queue" /\ (\A t \in Threads : thread[t].pc # "assigned") /\ WorkOK(u) /\ SavedIn(u, proposals)
    BY DEF Loopable, LoopType
  <1>2. reservation = None
    BY <1>1 DEF Turns, Types
  <1>3. UNCHANGED <<catalog_ready, turnVars, completed, successes, due, away>>
    BY DEF NextFrom
  <1>4. Iterated(u, l, Current')
    BY <1>1, <1>2, NextStep
  <1>5. WorkOK(Current) /\ WorkOK(Current)'
    BY <1>4, WorkNext
  <1>6. SavedIn(Current', proposals') /\ (catalog_ready => \A n \in DOMAIN Current'.groups : Attended(Current'.groups, Current'.index, n))
    BY <1>4, WorkNext
  <1>7. AllAttended(Current)'
    BY <1>3, <1>6 DEF AllAttended
  <1>8. Resolvers(groups)'
    <2>1. Current'.groups = groups'
      BY DEF Current
    <2>. QED BY <1>4, <2>1, ResolversNext DEF Resolvers
  <1>9. Gave(u, l, Current') \/ UNCHANGED <<thread, reservation>>
    BY <1>4, ThreadsNext
  <1>10. ASSUME Gave(u, l, Current')
         PROVE  \E b \in Bounties, x \in ThreadType :
                   /\ \A t \in Threads \ {l.t} : thread'[t] = thread[t]
                   /\ thread'[l.t] = x /\ thread' \in [Threads -> ThreadType] /\ x.b = b /\ b \in claim_cache' /\ ~x.orphan
                   /\ x.pc = "resolve" \/ (x.pc = "assigned" /\ x.economic = prefer_reward)
                   /\ reservation' = reservation \/ (x.pc = "assigned" /\ reservation' = l.t)
                   /\ loop' = None
                   /\ x.pc = "assigned" /\ ~prefer_reward /\ Watched \in Names(u, x) => DomainOf[b] \in Ahead(domain_after) \cup {Watched}
    <2>1. PICK n, b, x : Candidate(u, l, n, b) /\ b \in claim_cache' /\ GivenTo(u, l, n, b, Current', x) /\ loop' = None
      BY <1>10 DEF Gave
    <2>2. b \in Bounties /\ DomainOf[b] = n /\ (~prefer_reward /\ Watched \in Names(u, l) => n \in Ahead(domain_after) \cup {Watched})
      BY <2>1 DEF Candidate
    <2>3. x.pc = "assigned" => Names(u, x) = Names(u, l)
      BY <2>1 DEF GivenTo, Names
    <2>4. x \in ThreadType /\ thread' = [thread EXCEPT ![l.t] = x] /\ thread \in [Threads -> ThreadType]
      BY <2>1 DEF GivenTo, Types
    <2>5. thread' \in [Threads -> ThreadType] /\ thread'[l.t] = x /\ \A t \in Threads \ {l.t} : thread'[t] = thread[t]
      BY <1>1, <2>4
    <2>. QED BY <2>1, <2>2, <2>3, <2>4, <2>5 DEF GivenTo
  <1>11. \A t \in Threads : ~Starts(t)
    BY <1>1 DEF Starts
  <1>12. Shrinks' /\ loop' \in LoopType \cup {None}
    BY <1>3, <1>4, ShrinksNext
  <1>13. ClaimSets(proposals', claim_cache', unavailable')
    BY <1>4 DEF Iterated
  <1>14. Types'
    <2>1. thread' \in [Threads -> ThreadType] /\ reservation' \in Threads \cup {None}
      BY <1>1, <1>2, <1>9, <1>10 DEF Types
    <2>2. skipped' \in Nat /\ offered' \in BOOLEAN
      BY <1>11, SkipsQuiet
    <2>. QED BY <1>3, <1>12, <1>13, <2>1, <2>2 DEF Types, ClaimSets, turnVars
  <1>15. Claims'
    <2>1. PreparedSaved'
      BY <1>6 DEF PreparedSaved, SavedIn, Current, Live
    <2>2. \A t \in Threads : thread'[t].pc # "queue" => thread'[t].b \in Bounties
      BY <1>9, <1>10 DEF Claims
    <2>3. \A t \in Threads : thread'[t].b # None /\ ~thread'[t].orphan => thread'[t].b \in claim_cache'
      BY <1>9, <1>10, <1>13 DEF ClaimSets
    <2>. QED BY <1>3, <1>13, <2>1, <2>2, <2>3 DEF Claims, ClaimSets
  <1>16. Turns'
    <2>1. CASE UNCHANGED <<thread, reservation>>
      <3>1. loop' # None => loop'.t = l.t
        BY <1>1, <1>4 DEF Iterated, Turned, Bounced, Idles, Picked, Chosen, LoopType
      <3>. QED BY <1>1, <1>2, <1>3, <2>1, <3>1 DEF Turns
    <2>2. CASE Gave(u, l, Current')
      BY <1>1, <1>2, <1>3, <1>10, <2>2, SchedulerAssumption, SMT DEF Turns, turnVars
    <2>. QED BY <1>9, <2>1, <2>2
  <1>17. Budgeted'
    <2>1. ASSUME NEW b PROVE Started(b)' = Started(b)
      BY <1>1, <1>9, <1>10 DEF Started
    <2>. QED BY <1>3, <2>1 DEF Budgeted
  <1>18. Rotates'
    <2>1. ASSUME NEW t \in Threads, thread'[t].pc = "assigned", offered', ~prefer_reward PROVE DomainOf[thread'[t].b] \in Ahead(domain_after) \cup {Watched}
      <3>1. Gave(u, l, Current')
        BY <1>1, <1>9, <2>1
      <3>2. PICK b \in Bounties, x \in ThreadType :
               /\ \A s \in Threads \ {l.t} : thread'[s] = thread[s]
               /\ thread'[l.t] = x /\ x.b = b
               /\ x.pc = "assigned" /\ ~prefer_reward /\ Watched \in Names(u, x) => DomainOf[b] \in Ahead(domain_after) \cup {Watched}
        BY <1>10, <3>1
      <3>3. \A s \in Threads : thread'[s].pc = "assigned" => s = l.t
        BY <1>1, <3>2
      <3>4. PICK s \in Threads : thread'[s].pc = "assigned" /\ Offers(s)
        BY <2>1 DEF Skips
      <3>5. Watched \in Names(u, x)
        BY <1>1, <3>2, <3>3, <3>4 DEF Offers, Candidates, Loopable
      <3>. QED BY <2>1, <3>2, <3>3, <3>5
    <2>. QED BY <1>3, <1>11, <2>1, RotatesQuiet
  <1>. QED BY <1>5, <1>7, <1>8, <1>12, <1>14, <1>15, <1>16, <1>17, <1>18

LEMMA ContinueInv == ASSUME LibraryFacts, SchedulerInv, ContinueNext, Skips PROVE SchedulerInv'
  <1>1. loop # None /\ loop \in LoopType /\ NextFrom(Current, loop)
    BY DEF ContinueNext, SchedulerInv, Types
  <1>2. Current.groups = groups /\ SavedIn(Current, proposals)
    BY DEF Current, SchedulerInv, Claims, PreparedSaved, SavedIn, Live
  <1>3. Loopable(Current, loop)
    BY <1>1, <1>2 DEF Loopable, SchedulerInv, Shrinks, Turns
  <1>. QED BY <1>1, <1>3, NextInv

LEMMA BeginInv == ASSUME LibraryFacts, SchedulerInv, NEW t \in Threads, BeginNext(t), Skips PROVE SchedulerInv'
  <1>. DEFINE u == PromoteScheduled
              l == [t |-> t, prepared_only |-> FALSE, turns |-> 0]
  <1>1. loop = None /\ NextFrom(u, l) /\ thread[t].pc = "queue" /\ \A s \in Threads : thread[s].pc # "assigned"
    BY DEF BeginNext
  <1>2. l \in LoopType /\ l.t = t /\ l.turns = 0 /\ l.prepared_only = FALSE
    BY DEF LoopType
  <1>3. SavedIn(Current, proposals)
    BY DEF Current, SchedulerInv, Claims, PreparedSaved, SavedIn, Live
  <1>4. WorkOK(u) /\ SavedIn(u, proposals) /\ AllAttended(u) /\ Resolvers(u.groups)
    BY <1>3, PromoteFacts DEF SchedulerInv
  <1>. HIDE DEF u, l
  <1>5. Left(l, u.groups) <= MaxLeft(l)
    <2>1. /\ Cardinality(Listed(u.groups)) \in Nat /\ Cardinality(Listed(u.groups)) <= Cardinality(Bounties)
          /\ Cardinality(Stale(u.groups)) \in Nat /\ Cardinality(Stale(u.groups)) <= Cardinality(Bounties) /\ Cardinality(Bounties) \in Nat
      BY LeftTypes
    <2>2. MaxLeft(l) = 2 * Cardinality(Bounties)
      BY <1>2, <2>1, SMT DEF MaxLeft
    <2>. QED BY <1>2, <2>1, <2>2, SMT DEF Left
  <1>6. u = PromoteScheduled
    BY DEF u
  <1>7. Loopable(u, l)
    BY <1>1, <1>2, <1>4, <1>5, <1>6 DEF Loopable
  <1>. QED BY <1>1, <1>7, NextInv

-----------------------------------------------------------------------------
(* The steps that leave the threads alone                                  *)

LEMMA QuietInv ==
  ASSUME LibraryFacts, SchedulerInv, Skips, loop = None, UNCHANGED <<turnVars, claimVars, reservation, thread, loop>>,
         catalog_ready' \in BOOLEAN, {due', away'} \subseteq Nat, WorkOK(Current'), SavedIn(Current', proposals),
         catalog_ready' => \A n \in DOMAIN Current'.groups : Attended(Current'.groups, Current'.index, n),
         Resolvers(Current'.groups)
  PROVE  SchedulerInv'
  <1>. USE DEF SchedulerInv
  <1>1. /\ UNCHANGED <<domain_after, prefer_reward, proposals, claim_cache, unavailable, completed, successes, reservation, thread, loop>>
        /\ Current'.groups = groups'
    BY DEF turnVars, claimVars, Current
  <1>2. \A t \in Threads : ~Starts(t)
    BY <1>1 DEF Starts
  <1>3. Rotates' /\ skipped' \in Nat /\ offered' \in BOOLEAN
    BY <1>1, <1>2, RotatesRest
  <1>4. Types'
    BY <1>1, <1>3 DEF Types
  <1>5. Claims'
    BY <1>1 DEF Claims, PreparedSaved, SavedIn, Live
  <1>6. AllAttended(Current)' /\ WorkOK(Current)'
    BY DEF AllAttended
  <1>7. Resolvers(groups)'
    BY <1>1, SMT DEF Resolvers, ResolverOf
  <1>8. Turns' /\ Budgeted' /\ Shrinks'
    BY <1>1 DEF Turns, Budgeted, Started, Shrinks
  <1>. QED BY <1>3, <1>4, <1>5, <1>6, <1>7, <1>8

LEMMA PromoteInv == ASSUME LibraryFacts, SchedulerInv, Promote, Skips PROVE SchedulerInv'
  <1>. DEFINE v == PromoteScheduled
  <1>1. SavedIn(Current, proposals)
    BY DEF Current, SchedulerInv, Claims, PreparedSaved, SavedIn, Live
  <1>2. WorkOK(v) /\ SavedIn(v, proposals) /\ AllAttended(v) /\ Resolvers(v.groups)
    BY <1>1, PromoteFacts DEF SchedulerInv
  <1>3. Become(v) /\ loop = None /\ UNCHANGED <<catalog_ready, turnVars, claimVars, reservation, due, away, thread, loop>>
    BY DEF Promote, recoveryVars
  <1>. HIDE DEF v
  <1>4. Current' = v
    BY <1>2, <1>3, BecomeCurrent
  <1>. QED BY <1>2, <1>3, <1>4, QuietInv DEF AllAttended, SchedulerInv, Types

LEMMA RefreshFailsInv == ASSUME LibraryFacts, SchedulerInv, RefreshFails, Skips PROVE SchedulerInv'
  <1>1. /\ loop = None /\ catalog_ready' = FALSE /\ index' = [EmptyIndex EXCEPT !.scheduled_domains = index.scheduled_domains]
        /\ UNCHANGED <<groups, turnVars, claimVars, reservation, due, away, thread, loop>>
    BY DEF RefreshFails, recoveryVars
  <1>2. GroupsOK(groups) /\ IndexOf(groups, index)
    BY DEF SchedulerInv, WorkOK, Current
  <1>3. /\ DOMAIN index' = DOMAIN EmptyIndex /\ index'.economic_order = {} /\ index'.ready_domains = {} /\ index'.prepared_economic_order = {}
        /\ index'.ready_prepared_domains = {} /\ index'.scheduled_domains = index.scheduled_domains
    BY <1>1 DEF EmptyIndex
  <1>4. IndexOf(groups, index')
    BY <1>2, <1>3 DEF IndexOf
  <1>5. Current' = [groups |-> groups, index |-> index']
    BY <1>1 DEF Current
  <1>6. WorkOK(Current')
    BY <1>2, <1>3, <1>4, <1>5 DEF WorkOK
  <1>7. SavedIn(Current', proposals) /\ Resolvers(Current'.groups)
    BY <1>5 DEF SchedulerInv, Claims, PreparedSaved, SavedIn, Live
  <1>. QED BY <1>1, <1>6, <1>7, QuietInv DEF SchedulerInv, Types

LEMMA LessNat == ASSUME NEW w \in Nat \cup {None} PROVE Less(w) \in Nat \cup {None} /\ (w \in Nat => Less(w) \in Nat)
  BY SchedulerAssumption, SMT DEF Less

LEMMA TickInv == ASSUME LibraryFacts, SchedulerInv, Tick, Skips PROVE SchedulerInv'
  <1>1. /\ loop = None /\ due' = Less(due) /\ away' = Less(away)
        /\ groups' = [n \in Live |-> [groups[n] EXCEPT !.resolve_after = Less(@), !.schedule_after = Less(@)]]
        /\ index' = [index EXCEPT !.scheduled_domains = {<<Less(s[1]), s[2]>> : s \in @}]
        /\ UNCHANGED <<catalog_ready, turnVars, claimVars, reservation, thread, loop>>
    BY DEF Tick
  <1>2. GroupsOK(groups) /\ IndexOf(groups, index) /\ DOMAIN index = DOMAIN EmptyIndex
    BY DEF SchedulerInv, WorkOK, Current
  <1>3. DOMAIN groups' = DOMAIN groups /\ groups' = [n \in DOMAIN groups' |-> groups'[n]]
    BY <1>1 DEF Live
  <1>4. ASSUME NEW n \in DOMAIN groups
        PROVE  /\ GroupOf(n, groups'[n]) /\ groups'[n].economic_key = groups[n].economic_key
               /\ groups'[n].prepared_economic_key = groups[n].prepared_economic_key /\ groups'[n].bounties = groups[n].bounties
               /\ groups'[n].prepared = groups[n].prepared /\ groups'[n].resolving = groups[n].resolving
    <2>. DEFINE g == groups[n]
                a == Less(g.resolve_after)
                c == Less(g.schedule_after)
    <2>1. GroupOf(n, g) /\ g \in Group
      BY <1>2 DEF GroupsOK, GroupOf
    <2>2. a \in Nat /\ c \in Nat \cup {None}
      <3>1. g.resolve_after \in Nat /\ g.schedule_after \in Nat \cup {None}
        BY <2>1, GroupFacts
      <3>. QED BY <3>1, LessNat
    <2>3. groups'[n] = [g EXCEPT !.resolve_after = a, !.schedule_after = c]
      BY <1>1, <2>1 DEF Live, Group
    <2>. HIDE DEF g, a, c
    <2>4. groups'[n] \in Group
      BY <2>1, <2>2, <2>3 DEF Group
    <2>5. /\ groups'[n].economic_key = g.economic_key
          /\ groups'[n].prepared_economic_key = g.prepared_economic_key /\ groups'[n].bounties = g.bounties
          /\ groups'[n].prepared = g.prepared /\ groups'[n].resolving = g.resolving
      BY <2>1, <2>3 DEF Group
    <2>. QED BY <2>1, <2>4, <2>5 DEF GroupOf, g
  <1>5. /\ DOMAIN index' = DOMAIN EmptyIndex /\ index'.economic_order = index.economic_order /\ index'.ready_domains = index.ready_domains
        /\ index'.prepared_economic_order = index.prepared_economic_order /\ index'.ready_prepared_domains = index.ready_prepared_domains
        /\ index'.scheduled_domains = {<<Less(s[1]), s[2]>> : s \in index.scheduled_domains}
    BY <1>1, <1>2 DEF EmptyIndex
  <1>6. index'.scheduled_domains \subseteq Nat \X Domains
    <2>1. ASSUME NEW s \in index.scheduled_domains PROVE <<Less(s[1]), s[2]>> \in Nat \X Domains
      <3>1. s[1] \in Nat /\ s[2] \in Domains
        BY <1>2 DEF IndexOf
      <3>. QED BY <3>1, LessNat
    <2>. QED BY <1>5, <2>1
  <1>7. IndexOf(groups', index')
    <2>1. index.ready_domains \subseteq DOMAIN groups /\ index.ready_prepared_domains \subseteq DOMAIN groups
      BY <1>2 DEF IndexOf
    <2>2. index'.economic_order = {<<groups'[n].economic_key, n>> : n \in index'.ready_domains}
      <3>1. index.economic_order = {<<groups[n].economic_key, n>> : n \in index.ready_domains}
        BY <1>2 DEF IndexOf
      <3>. QED BY <1>4, <1>5, <2>1, <3>1
    <2>3. index'.prepared_economic_order = {<<groups'[n].prepared_economic_key, n>> : n \in index'.ready_prepared_domains}
      <3>1. index.prepared_economic_order = {<<groups[n].prepared_economic_key, n>> : n \in index.ready_prepared_domains}
        BY <1>2 DEF IndexOf
      <3>. QED BY <1>4, <1>5, <2>1, <3>1
    <2>. QED BY <1>2, <1>3, <1>4, <1>5, <1>6, <2>1, <2>2, <2>3 DEF IndexOf
  <1>8. GroupsOK(groups')
    BY <1>2, <1>3, <1>4 DEF GroupsOK
  <1>9. Current' = [groups |-> groups', index |-> index']
    BY DEF Current
  <1>10. WorkOK(Current')
    BY <1>5, <1>7, <1>8, <1>9 DEF WorkOK
  <1>11. SavedIn(Current', proposals)
    BY <1>3, <1>4, <1>9 DEF SchedulerInv, Claims, PreparedSaved, SavedIn, Live
  <1>12. Resolvers(Current'.groups)
    BY <1>3, <1>4, <1>9 DEF SchedulerInv, Resolvers
  <1>13. ASSUME catalog_ready', NEW n \in DOMAIN groups' PROVE Attended(groups', index', n)
    <2>1. Attended(groups, index, n)
      BY <1>1, <1>3, <1>13 DEF SchedulerInv, AllAttended, Current
    <2>2. Scheduled(index, n) => Scheduled(index', n)
      <3>. SUFFICES ASSUME NEW s \in index.scheduled_domains, s[2] = n PROVE \E r \in index'.scheduled_domains : r[2] = n
        BY DEF Scheduled
      <3>1. <<Less(s[1]), s[2]>> \in index'.scheduled_domains /\ <<Less(s[1]), s[2]>>[2] = n
        BY <1>5
      <3>. QED BY <3>1
    <2>. QED BY <1>3, <1>4, <1>5, <2>1, <2>2 DEF Attended
  <1>14. {due', away'} \subseteq Nat /\ catalog_ready' \in BOOLEAN
    BY <1>1, LessNat DEF SchedulerInv, Types
  <1>. QED BY <1>1, <1>9, <1>10, <1>11, <1>12, <1>13, <1>14, QuietInv

-----------------------------------------------------------------------------
(* The steps that end the work of a thread                                 *)

DoneBy(t) ==
    /\ \A s \in Threads \ {t} : thread'[s] = thread[s]
    /\ thread'[t] = Idle /\ thread' \in [Threads -> ThreadType] /\ reservation' \in Threads \cup {None}
    /\ skipped' \in Nat /\ offered' \in BOOLEAN
    /\ Turns' /\ Rotates' /\ Shrinks'

LEMMA LeaveFacts ==
  ASSUME LibraryFacts, SchedulerInv, Skips, NEW t \in Threads, loop = None, UNCHANGED <<turnVars, loop>>, Leave(t), ReleaseReservation(t)
  PROVE  DoneBy(t)
  <1>. USE DEF SchedulerInv
  <1>1. thread' = [thread EXCEPT ![t] = Idle] /\ thread \in [Threads -> ThreadType] /\ UNCHANGED <<domain_after, prefer_reward, loop>>
        /\ reservation \in Threads \cup {None}
    BY DEF Leave, Types, turnVars
  <1>2. Idle \in ThreadType /\ Idle.pc = "queue" /\ Idle.b = None
    BY DEF Idle, ThreadType, Key
  <1>3. thread' \in [Threads -> ThreadType] /\ thread'[t] = Idle /\ \A s \in Threads \ {t} : thread'[s] = thread[s]
    BY <1>1, <1>2
  <1>4. reservation' = (IF reservation = t THEN None ELSE reservation) /\ reservation' \in Threads \cup {None}
    BY <1>1 DEF ReleaseReservation
  <1>5. \A s \in Threads : /\ thread'[s].pc = "assigned" => thread[s].pc = "assigned" /\ thread'[s].b = thread[s].b
                           /\ ~Starts(s)
    BY <1>2, <1>3 DEF Starts
  <1>6. Rotates' /\ skipped' \in Nat /\ offered' \in BOOLEAN
    BY <1>5, RotatesRest
  <1>7. Turns'
    <2>1. \A r, s \in Threads : thread'[r].pc = "assigned" /\ thread'[s].pc = "assigned" => r = s
      BY <1>5 DEF Turns
    <2>2. reservation' # None => thread'[reservation'].pc = "assigned"
      BY <1>3, <1>4 DEF Turns
    <2>3. \A s \in Threads : thread'[s].pc = "assigned" => thread'[s].economic = prefer_reward'
      BY <1>1, <1>2, <1>3 DEF Turns
    <2>. QED BY <1>1, <2>1, <2>2, <2>3 DEF Turns
  <1>8. Shrinks'
    BY <1>1 DEF Shrinks
  <1>. QED BY <1>3, <1>4, <1>6, <1>7, <1>8 DEF DoneBy

\* The claims when thread t is done.
LEMMA LeaveClaims ==
  ASSUME Claims, NEW t \in Threads, DoneBy(t), UNCHANGED <<proposals, claim_cache>>, completed' \subseteq proposals,
         unavailable' \subseteq claim_cache, SavedIn(Current', proposals)
  PROVE  Claims'
  <1>1. Idle.pc = "queue" /\ Idle.b = None
    BY DEF Idle
  <1>2. PreparedSaved'
    BY DEF PreparedSaved, SavedIn, Live, Current
  <1>. QED BY <1>1, <1>2 DEF Claims, DoneBy

LEMMA LeaveBudget ==
  ASSUME LibraryFacts, Types, Budgeted, NEW t \in Threads, DoneBy(t), UNCHANGED successes
  PROVE  Budgeted'
  <1>1. ASSUME NEW b \in Bounties, Limit[b] # None PROVE successes'[b] + Cardinality(Started(b)') < Limit[b] + Cardinality(Threads)
    <2>1. Started(b)' \subseteq Started(b) /\ Started(b) \subseteq Threads
      BY SMT DEF DoneBy, Started, Idle
    <2>2. IsFiniteSet(Threads) /\ Limit[b] \in Nat /\ successes[b] \in Nat /\ successes' = successes
      BY <1>1, SchedulerAssumption DEF Types
    <2>3. IsFiniteSet(Started(b)) /\ Cardinality(Threads) \in Nat
      BY <2>1, <2>2 DEF LibraryFacts, CardinalityFact, SubsetFact
    <2>4. IsFiniteSet(Started(b)') /\ Cardinality(Started(b)') <= Cardinality(Started(b))
      BY <2>1, <2>3 DEF LibraryFacts, SubsetFact
    <2>5. Cardinality(Started(b)) \in Nat /\ Cardinality(Started(b)') \in Nat
      BY <2>3, <2>4 DEF LibraryFacts, CardinalityFact
    <2>6. successes[b] + Cardinality(Started(b)) < Limit[b] + Cardinality(Threads)
      BY <1>1 DEF Budgeted
    <2>. QED BY <2>2, <2>3, <2>4, <2>5, <2>6, SMT
  <1>. QED BY <1>1 DEF Budgeted

\* The resolvers are others.
LEMMA LeaveResolvers ==
  ASSUME NEW t \in Threads, DoneBy(t), NEW gs, Resolvers(gs), thread[t].pc # "resolve", NEW hs, DOMAIN hs = DOMAIN gs,
         \A n \in DOMAIN hs : hs[n].resolving = gs[n].resolving
  PROVE  \A n \in DOMAIN hs : hs[n].resolving => \E s \in Threads : ResolverOf(n, s)'
  <1>1. ASSUME NEW n, NEW s \in Threads, ResolverOf(n, s) PROVE ResolverOf(n, s)'
    <2>1. s # t
      BY <1>1 DEF ResolverOf
    <2>2. thread'[s] = thread[s]
      BY <2>1 DEF DoneBy
    <2>. QED BY <1>1, <2>2 DEF ResolverOf
  <1>. QED BY <1>1 DEF Resolvers

LEMMA GiveUpInv == ASSUME LibraryFacts, SchedulerInv, NEW t \in Threads, GiveUp(t), Skips PROVE SchedulerInv'
  <1>. USE DEF SchedulerInv
  <1>1. /\ loop = None /\ thread[t].pc = "assigned" /\ ReleaseReservation(t) /\ Leave(t)
        /\ UNCHANGED <<groups, index, catalog_ready, turnVars, proposals, claim_cache, unavailable, completed, successes, due, away, loop>>
    BY DEF GiveUp, claimVars
  <1>2. DoneBy(t)
    BY <1>1, LeaveFacts
  <1>3. Current' = Current /\ SavedIn(Current, proposals)
    BY <1>1 DEF Current, Claims, PreparedSaved, SavedIn, Live
  <1>4. Claims'
    BY <1>1, <1>2, <1>3, LeaveClaims DEF Claims
  <1>5. Budgeted'
    BY <1>1, <1>2, LeaveBudget
  <1>6. Types'
    BY <1>1, <1>2 DEF Types, DoneBy, turnVars
  <1>7. WorkOK(Current)' /\ AllAttended(Current)'
    BY <1>1, <1>3 DEF AllAttended
  <1>8. Resolvers(groups)'
    <2>1. \A n \in DOMAIN groups : groups[n].resolving => \E s \in Threads : ResolverOf(n, s)'
      BY <1>1, <1>2, LeaveResolvers
    <2>. QED BY <1>1, <2>1 DEF Resolvers
  <1>. QED BY <1>2, <1>4, <1>5, <1>6, <1>7, <1>8 DEF DoneBy

LEMMA RejectInv == ASSUME LibraryFacts, SchedulerInv, NEW t \in Threads, Reject(t), Skips PROVE SchedulerInv'
  <1>. USE DEF SchedulerInv
  <1>. DEFINE e == [Env EXCEPT !.away = 1]
              v == UpdateAll(e, Current, Live)
  <1>1. /\ loop = None /\ thread[t].pc = "assigned" /\ ReleaseReservation(t) /\ Leave(t) /\ away' = 1 /\ Become(v)
        /\ UNCHANGED <<catalog_ready, turnVars, proposals, claim_cache, unavailable, completed, successes, due, loop>>
    BY DEF Reject, claimVars
  <1>2. e \in EnvType /\ e.ready = catalog_ready
    BY EnvTyped DEF EnvType
  <1>3. Current.groups = groups /\ Live = DOMAIN groups
    BY DEF Current, Live
  <1>. HIDE DEF e
  <1>4. AllUpdated(e, Current, Live, v)
    BY <1>2, <1>3, UpdateAllFacts
  <1>. HIDE DEF v
  <1>5. Current' = v /\ WorkOK(v) /\ groups' = v.groups
    BY <1>1, <1>4, BecomeCurrent DEF AllUpdated, Become
  <1>6. DoneBy(t)
    BY <1>1, LeaveFacts
  <1>7. SavedIn(Current', proposals)
    <2>1. SavedIn(Current, proposals)
      BY <1>3 DEF Claims, PreparedSaved, SavedIn
    <2>. QED BY <1>4, <1>5, <2>1, AllUpdatedSaved
  <1>8. Claims'
    BY <1>1, <1>6, <1>7, LeaveClaims DEF Claims
  <1>9. Budgeted'
    BY <1>1, <1>6, LeaveBudget
  <1>10. Types'
    BY <1>1, <1>6, SMT DEF Types, DoneBy, turnVars
  <1>11. AllAttended(v)
    BY <1>2, <1>3, <1>4, AllUpdatedAttended DEF AllAttended
  <1>12. WorkOK(Current)' /\ AllAttended(Current)'
    BY <1>1, <1>5, <1>11 DEF AllAttended
  <1>13. Resolvers(groups)'
    <2>1. DOMAIN v.groups = DOMAIN groups /\ \A n \in DOMAIN v.groups : v.groups[n].resolving = groups[n].resolving
      BY <1>3, <1>4 DEF AllUpdated, SameWork
    <2>2. \A n \in DOMAIN v.groups : v.groups[n].resolving => \E s \in Threads : ResolverOf(n, s)'
      BY <1>1, <1>6, <2>1, LeaveResolvers
    <2>. QED BY <1>5, <2>2 DEF Resolvers
  <1>. QED BY <1>6, <1>8, <1>9, <1>10, <1>12, <1>13 DEF DoneBy

LEMMA EndResolveInv == ASSUME LibraryFacts, SchedulerInv, NEW t \in Threads, NEW ok \in BOOLEAN, EndResolve(t, ok), Skips PROVE SchedulerInv'
  <1>. USE DEF SchedulerInv
  <1>. DEFINE n == DomainOf[thread[t].b]
              after == IF ok THEN DNS_REFRESH ELSE 1
              g == [groups[n] EXCEPT !.resolving = FALSE, !.endpoints = ok, !.resolve_after = after]
              v == UpdateEconomicOrder(Env, Current, n, g)
  <1>1. /\ loop = None /\ thread[t].pc = "resolve" /\ Leave(t)
        /\ UNCHANGED <<catalog_ready, turnVars, proposals, claim_cache, unavailable, completed, successes, due, reservation, away, loop>>
        /\ IF Holds(t, n) THEN Become(v) ELSE UNCHANGED <<groups, index>>
    BY DEF EndResolve, claimVars, recoveryVars, ResolvedCurrent, Update
  <1>2. ReleaseReservation(t)
    BY <1>1 DEF ReleaseReservation, Turns, Types
  <1>3. DoneBy(t)
    BY <1>1, <1>2, LeaveFacts
  <1>4. Current.groups = groups /\ Live = DOMAIN groups /\ Current.index = index /\ Current'.groups = groups' /\ Current'.index = index'
        /\ SavedIn(Current, proposals)
    BY DEF Current, Live, Claims, PreparedSaved, SavedIn
  <1>6. /\ WorkOK(Current') /\ SavedIn(Current', proposals)
        /\ catalog_ready => \A m \in DOMAIN groups' : Attended(groups', index', m)
        /\ \A m \in DOMAIN groups' : groups'[m].resolving => m \in DOMAIN groups /\ groups[m].resolving /\ ~(Holds(t, n) /\ m = n)
    <2>1. CASE Holds(t, n)
      <3>1. n \in DOMAIN groups /\ GroupOf(n, groups[n]) /\ groups[n] \in Group
        BY <1>4, <2>1 DEF Holds, WorkOK, GroupsOK, GroupOf
      <3>2. after \in Nat
        BY ConstantFacts
      <3>. HIDE DEF after
      <3>3. /\ GroupOf(n, g) /\ g.economic_key = groups[n].economic_key /\ g.prepared_economic_key = groups[n].prepared_economic_key
            /\ g.resolving = FALSE /\ g.prepared = groups[n].prepared
        BY <3>1, <3>2 DEF GroupOf, Group
      <3>. HIDE DEF g
      <3>4. OneUpdated(Env, Current, n, g, v)
        BY <1>4, <3>1, <3>3, UpdateOne, EnvTyped
      <3>. HIDE DEF v, n
      <3>5. Current' = v /\ WorkOK(v) /\ groups' = v.groups /\ index' = v.index
        BY <1>1, <2>1, <3>4, BecomeCurrent DEF OneUpdated, Become
      <3>6. SavedIn(v, proposals)
        <4>1. g.prepared \subseteq proposals
          BY <1>4, <3>1, <3>3 DEF SavedIn
        <4>. QED BY <1>4, <3>1, <3>4, <4>1, OneSaved, SMT
      <3>7. ASSUME catalog_ready, NEW m \in DOMAIN v.groups PROVE Attended(v.groups, v.index, m)
        <4>1. CASE m = n
          BY <3>4, <3>7, <4>1, EnvTyped DEF OneUpdated
        <4>2. CASE m # n
          BY <1>4, <3>4, <3>7, <4>2 DEF OneUpdated, Attended, AllAttended
        <4>. QED BY <4>1, <4>2
      <3>8. \A m \in DOMAIN v.groups : v.groups[m].resolving => m \in DOMAIN groups /\ groups[m].resolving /\ m # n
        BY <1>4, <3>3, <3>4 DEF OneUpdated, SameWork
      <3>. QED BY <3>5, <3>6, <3>7, <3>8
    <2>2. CASE ~Holds(t, n)
      <3>1. UNCHANGED <<groups, index>>
        BY <1>1, <2>2
      <3>. QED BY <1>4, <2>2, <3>1 DEF Current, AllAttended
    <2>. QED BY <2>1, <2>2
  <1>7. Claims'
    BY <1>1, <1>3, <1>6, LeaveClaims DEF Claims
  <1>8. Budgeted'
    BY <1>1, <1>3, LeaveBudget
  <1>9. Types'
    BY <1>1, <1>3 DEF Types, DoneBy, turnVars
  <1>10. WorkOK(Current)' /\ AllAttended(Current)'
    BY <1>1, <1>4, <1>6 DEF AllAttended
  <1>11. Resolvers(groups)'
    <2>1. ASSUME NEW m \in DOMAIN groups', groups'[m].resolving PROVE \E s \in Threads : ResolverOf(m, s)'
      <3>1. m \in DOMAIN groups /\ groups[m].resolving /\ ~(Holds(t, n) /\ m = n)
        BY <1>6, <2>1
      <3>2. PICK s \in Threads : ResolverOf(m, s)
        BY <3>1 DEF Resolvers
      <3>3. s # t
        BY <1>4, <3>1, <3>2 DEF ResolverOf, Holds
      <3>. QED BY <1>3, <3>2, <3>3 DEF ResolverOf, DoneBy
    <2>. QED BY <2>1 DEF Resolvers
  <1>. QED BY <1>3, <1>7, <1>8, <1>9, <1>10, <1>11 DEF DoneBy

LEMMA CaptureInv ==
  ASSUME LibraryFacts, SchedulerInv, NEW t \in Threads, NEW outcome, CaptureEnds(t, outcome), Skips
  PROVE  SchedulerInv'
  <1>. USE DEF SchedulerInv
  <1>. DEFINE b == thread[t].b
  <1>1. /\ loop = None /\ thread[t].pc = "started" /\ Leave(t)
        /\ successes' = (IF outcome = "failed" THEN successes ELSE Counted(b))
        /\ IF outcome = "proof" /\ ~Cancelled(t)
           THEN completed' = completed \cup {b} /\ unavailable' = unavailable \cup {b}
           ELSE UNCHANGED <<completed, unavailable>>
        /\ UNCHANGED <<groups, index, catalog_ready, turnVars, proposals, claim_cache, due, reservation, away, loop>>
    BY DEF CaptureEnds, recoveryVars
  <1>2. ReleaseReservation(t)
    BY <1>1 DEF ReleaseReservation, Turns, Types
  <1>3. DoneBy(t)
    BY <1>1, <1>2, LeaveFacts
  <1>4. Current' = Current /\ SavedIn(Current', proposals)
    BY <1>1 DEF Current, Claims, PreparedSaved, SavedIn, Live
  <1>5. b \in Bounties /\ b # None
    BY <1>1, ConstantFacts DEF Claims
  <1>6. completed' \subseteq proposals /\ unavailable' \subseteq claim_cache
    <2>1. ~Cancelled(t) => b \in claim_cache
      BY <1>5 DEF Cancelled, Claims
    <2>. QED BY <1>1, <2>1 DEF Claims
  <1>7. Claims'
    BY <1>1, <1>3, <1>4, <1>6, LeaveClaims
  <1>8. /\ successes' \in [Bounties -> Nat]
        /\ \A c \in Bounties : successes'[c] = successes[c] \/ (c = b /\ successes'[c] = successes[c] + 1)
    BY <1>1, <1>5, SMT DEF Types, Counted
  <1>9. Budgeted'
    <2>1. ASSUME NEW c \in Bounties, Limit[c] # None PROVE successes'[c] + Cardinality(Started(c)') < Limit[c] + Cardinality(Threads)
      <3>1. IsFiniteSet(Threads) /\ Limit[c] \in Nat /\ successes[c] \in Nat /\ Started(c) \subseteq Threads
        BY <2>1, SchedulerAssumption DEF Types, Started
      <3>2. IsFiniteSet(Started(c)) /\ Cardinality(Threads) \in Nat /\ Cardinality(Started(c)) \in Nat
        BY <3>1 DEF LibraryFacts, CardinalityFact, SubsetFact
      <3>3. successes[c] + Cardinality(Started(c)) < Limit[c] + Cardinality(Threads)
        BY <2>1 DEF Budgeted
      <3>4. CASE c = b
        <4>1. Started(c)' = Started(c) \ {t} /\ t \in Started(c)
          BY <1>1, <1>3, <3>4, SMT DEF DoneBy, Started, Idle
        <4>2. Cardinality(Started(c)') = Cardinality(Started(c)) - 1
          BY <3>2, <4>1 DEF LibraryFacts, RemoveFact
        <4>3. successes'[c] = successes[c] \/ successes'[c] = successes[c] + 1
          BY <1>8
        <4>. QED BY <3>1, <3>2, <3>3, <4>2, <4>3, OneTraded
      <3>5. CASE c # b
        <4>1. Started(c)' = Started(c)
          BY <1>1, <1>3, <3>5, SMT DEF DoneBy, Started, Idle
        <4>2. successes'[c] = successes[c]
          BY <1>8, <3>5
        <4>. QED BY <3>3, <4>1, <4>2
      <3>. QED BY <3>4, <3>5
    <2>. QED BY <2>1 DEF Budgeted
  <1>10. Types'
    BY <1>1, <1>3, <1>8 DEF Types, DoneBy, turnVars
  <1>11. WorkOK(Current)' /\ AllAttended(Current)'
    BY <1>1, <1>4 DEF AllAttended
  <1>12. Resolvers(groups)'
    <2>1. \A n \in DOMAIN groups : groups[n].resolving => \E s \in Threads : ResolverOf(n, s)'
      BY <1>1, <1>3, LeaveResolvers
    <2>. QED BY <1>1, <2>1 DEF Resolvers
  <1>. QED BY <1>3, <1>7, <1>9, <1>10, <1>11, <1>12 DEF DoneBy

-----------------------------------------------------------------------------
(* The start of a connection                                               *)

\* A domain that had its turn is behind Watched.
LEMMA AheadShrinks ==
  ASSUME LibraryFacts, Types, NEW n \in Ahead(domain_after)
  PROVE  Cardinality(Ahead(n)) + 1 <= Cardinality(Ahead(domain_after))
  <1>1. Domains \subseteq Nat /\ Watched \in Nat /\ None \notin Nat /\ n \in Nat
    BY SchedulerAssumption DEF Ahead
  <1>2. domain_after # None => domain_after \in Nat
    BY <1>1 DEF Types
  <1>3. ASSUME NEW m \in Ahead(n) PROVE m \in Ahead(domain_after) \ {n}
    BY <1>1, <1>2, <1>3, SMT DEF Ahead
  <1>4. Ahead(n) \subseteq Ahead(domain_after) \ {n}
    BY <1>3
  <1>5. IsFiniteSet(Ahead(domain_after)) /\ Cardinality(Ahead(domain_after)) \in Nat /\ Cardinality(Ahead(n)) \in Nat
    BY AheadFinite
  <1>6. IsFiniteSet(Ahead(domain_after) \ {n}) /\ Cardinality(Ahead(domain_after) \ {n}) = Cardinality(Ahead(domain_after)) - 1
    BY <1>5 DEF LibraryFacts, RemoveFact
  <1>7. Cardinality(Ahead(n)) <= Cardinality(Ahead(domain_after) \ {n})
    BY <1>4, <1>6 DEF LibraryFacts, SubsetFact
  <1>. QED BY <1>5, <1>6, <1>7, SMT

LEMMA RotatesStart ==
  ASSUME LibraryFacts, SchedulerInv, Skips, NEW t \in Threads, thread[t].pc = "assigned", thread'[t].pc = "started",
         \A s \in Threads \ {t} : thread'[s] = thread[s], DomainOf[thread[t].b] \in Domains,
         domain_after' = IF thread[t].economic THEN domain_after ELSE DomainOf[thread[t].b],
         prefer_reward' = ~thread[t].economic
  PROVE  Rotates' /\ skipped' \in Nat /\ offered' \in BOOLEAN
  <1>. USE DEF SchedulerInv
  <1>. DEFINE n == DomainOf[thread[t].b]
              A == Cardinality(Ahead(domain_after))
              B == Cardinality(Ahead(n))
              D == Cardinality(Domains)
  <1>1. thread[t].economic = prefer_reward /\ prefer_reward \in BOOLEAN /\ skipped \in Nat /\ offered \in BOOLEAN
    BY DEF Turns, Types
  <1>2. \A s \in Threads : thread'[s].pc # "assigned"
    BY DEF Turns
  <1>3. ~offered' /\ offered' \in BOOLEAN
    BY <1>2 DEF Skips
  <1>4. \A s \in Threads : Starts(s) => s = t
    BY DEF Starts
  <1>5. Starts(t)
    BY DEF Starts
  <1>6. skipped' = 0 \/ skipped' = SkippedBy(t)
    BY <1>4, <1>5 DEF Skips
  <1>7. skipped' = 0 \/ (n # Watched /\ offered /\ skipped' = skipped + 1)
    BY <1>6 DEF SkippedBy
  <1>8. A \in Nat /\ B \in Nat /\ D \in Nat /\ A < D /\ B < D
    BY AheadFinite
  <1>9. skipped + 2 * A + (IF prefer_reward THEN 1 ELSE 0) < 2 * D
    BY DEF Rotates
  <1>10. ASSUME ~prefer_reward, offered, n # Watched PROVE B + 1 <= A
    <2>1. n \in Ahead(domain_after)
      BY <1>10 DEF Rotates
    <2>. QED BY <2>1, AheadShrinks
  <1>. HIDE DEF n, A, B, D
  <1>11. CASE prefer_reward
    <2>1. domain_after' = domain_after /\ prefer_reward' = FALSE
      BY <1>1, <1>11
    <2>2. skipped' + 2 * A < 2 * D /\ skipped' \in Nat
      BY <1>1, <1>7, <1>8, <1>9, <1>11, SMT
    <2>3. Cardinality(Ahead(domain_after))' = A
      BY <2>1 DEF A, Ahead
    <2>. QED BY <1>2, <1>3, <2>1, <2>2, <2>3, <1>8, SMT DEF Rotates, D
  <1>12. CASE ~prefer_reward
    <2>1. domain_after' = n /\ prefer_reward' = TRUE
      BY <1>1, <1>12 DEF n
    <2>2. skipped' + 2 * B + 1 < 2 * D /\ skipped' \in Nat
      BY <1>1, <1>7, <1>8, <1>9, <1>10, <1>12, SMT
    <2>3. Cardinality(Ahead(domain_after))' = B
      BY <2>1 DEF B, Ahead
    <2>. QED BY <1>2, <1>3, <2>1, <2>2, <2>3, <1>8 DEF Rotates, D
  <1>. QED BY <1>1, <1>11, <1>12

LEMMA StartInv == ASSUME LibraryFacts, SchedulerInv, NEW t \in Threads, TcpStarted(t), Skips PROVE SchedulerInv'
  <1>. USE DEF SchedulerInv
  <1>. DEFINE b == thread[t].b
              n == DomainOf[b]
              e == [Env EXCEPT !.due = due']
              v == UpdateEconomicOrder(e, Current, n, groups[n])
              x == [Idle EXCEPT !.pc = "started", !.b = b]
  <1>1. /\ loop = None /\ thread[t].pc = "assigned" /\ ReleaseReservation(t)
        /\ due' = (IF thread[t].probe THEN 1 ELSE due)
        /\ domain_after' = (IF thread[t].economic THEN domain_after ELSE n)
        /\ prefer_reward' = ~thread[t].economic
        /\ Become(v) /\ thread' = [thread EXCEPT ![t] = x]
        /\ UNCHANGED <<catalog_ready, proposals, claim_cache, unavailable, completed, successes, away, loop>>
    BY DEF TcpStarted, claimVars
  <1>2. n \in DOMAIN groups /\ ~Cancelled(t) /\ ~ConnectionLimitExceeded(b)
    BY DEF TcpStarted, EligibleToStart, Holds, Live
  <1>3. b \in Bounties /\ n \in Domains /\ b # None
    BY <1>1, ConstantFacts DEF Claims
  <1>4. b \in claim_cache
    BY <1>2, <1>3 DEF Cancelled, Claims
  <1>5. due' \in Nat
    BY <1>1 DEF Types
  <1>6. e \in EnvType /\ e.ready = catalog_ready
    BY <1>5, EnvTyped DEF EnvType
  <1>7. x \in ThreadType /\ x.pc = "started" /\ x.b = b /\ ~x.orphan
    BY <1>3 DEF Idle, ThreadType, Key
  <1>8. /\ thread' \in [Threads -> ThreadType] /\ thread'[t] = x /\ \A s \in Threads \ {t} : thread'[s] = thread[s]
    BY <1>1, <1>7 DEF Types
  <1>. HIDE DEF x, e
  <1>9. Rotates' /\ skipped' \in Nat /\ offered' \in BOOLEAN
    BY <1>1, <1>3, <1>7, <1>8, RotatesStart
  <1>10. Current.groups = groups /\ Current.index = index /\ SavedIn(Current, proposals) /\ GroupOf(n, groups[n])
    BY <1>2 DEF Current, Claims, PreparedSaved, SavedIn, Live, WorkOK, GroupsOK
  <1>11. OneUpdated(e, Current, n, groups[n], v)
    BY <1>2, <1>6, <1>10, UpdateOne
  <1>. HIDE DEF v
  <1>12. Current' = v /\ WorkOK(v) /\ groups' = v.groups /\ index' = v.index
    BY <1>1, <1>11, BecomeCurrent DEF OneUpdated, Become
  <1>13. SavedIn(v, proposals)
    <2>1. groups[n].prepared \subseteq proposals
      BY <1>2, <1>10 DEF SavedIn
    <2>. QED BY <1>2, <1>10, <1>11, <2>1, OneSaved, SMT
  <1>14. Claims'
    <2>1. PreparedSaved'
      BY <1>1, <1>12, <1>13 DEF PreparedSaved, SavedIn, Live
    <2>2. \A s \in Threads : thread'[s].pc # "queue" => thread'[s].b \in Bounties
      BY <1>3, <1>7, <1>8 DEF Claims
    <2>3. \A s \in Threads : thread'[s].b # None /\ ~thread'[s].orphan => thread'[s].b \in claim_cache
      BY <1>4, <1>7, <1>8 DEF Claims
    <2>. QED BY <1>1, <2>1, <2>2, <2>3 DEF Claims
  <1>15. ASSUME catalog_ready, NEW m \in DOMAIN v.groups PROVE Attended(v.groups, v.index, m)
    <2>1. CASE m = n
      BY <1>6, <1>11, <1>15, <2>1 DEF OneUpdated
    <2>2. CASE m # n
      BY <1>10, <1>11, <1>15, <2>2 DEF OneUpdated, Attended, AllAttended
    <2>. QED BY <2>1, <2>2
  <1>16. WorkOK(Current)' /\ AllAttended(Current)'
    BY <1>1, <1>12, <1>15 DEF AllAttended
  <1>17. Resolvers(groups)'
    <2>1. ASSUME NEW m \in DOMAIN v.groups, v.groups[m].resolving PROVE \E s \in Threads : ResolverOf(m, s)'
      <3>1. m \in DOMAIN groups /\ groups[m].resolving
        BY <1>10, <1>11, <2>1 DEF OneUpdated, SameWork
      <3>2. PICK s \in Threads : ResolverOf(m, s)
        BY <3>1 DEF Resolvers
      <3>3. s # t
        BY <1>1, <3>2 DEF ResolverOf
      <3>. QED BY <1>8, <3>2, <3>3 DEF ResolverOf
    <2>. QED BY <1>12, <2>1 DEF Resolvers
  <1>18. reservation' = None
    BY <1>1 DEF ReleaseReservation, Turns, Types
  <1>19. Turns'
    BY <1>1, <1>7, <1>8, <1>18 DEF Turns
  <1>20. Types'
    BY <1>1, <1>3, <1>5, <1>8, <1>9, <1>18 DEF Types
  <1>21. Shrinks'
    BY <1>1 DEF Shrinks
  <1>22. Budgeted'
    <2>1. ASSUME NEW c \in Bounties, Limit[c] # None PROVE successes'[c] + Cardinality(Started(c)') < Limit[c] + Cardinality(Threads)
      <3>1. IsFiniteSet(Threads) /\ Limit[c] \in Nat /\ successes[c] \in Nat /\ Started(c)' \subseteq Threads /\ successes' = successes
        BY <1>1, <2>1, SchedulerAssumption DEF Types, Started
      <3>2. IsFiniteSet(Started(c)') /\ Cardinality(Threads) \in Nat /\ Cardinality(Started(c)') <= Cardinality(Threads)
        BY <3>1 DEF LibraryFacts, CardinalityFact, SubsetFact
      <3>3. Cardinality(Started(c)') \in Nat
        BY <3>2 DEF LibraryFacts, CardinalityFact
      <3>4. CASE c = b
        <4>1. successes[c] < Limit[c]
          BY <1>2, <2>1, <3>1, <3>4, SMT DEF ConnectionLimitExceeded
        <4>. QED BY <3>1, <3>2, <3>3, <4>1, SMT
      <3>5. CASE c # b
        <4>1. Started(c)' = Started(c)
          BY <1>1, <1>7, <1>8, <3>5 DEF Started
        <4>2. successes[c] + Cardinality(Started(c)) < Limit[c] + Cardinality(Threads)
          BY <2>1 DEF Budgeted
        <4>. QED BY <3>1, <4>1, <4>2
      <3>. QED BY <3>4, <3>5
    <2>. QED BY <2>1 DEF Budgeted
  <1>. QED BY <1>9, <1>14, <1>16, <1>17, <1>19, <1>20, <1>21, <1>22

-----------------------------------------------------------------------------
(* The coordinator                                                         *)

LEMMA SubmitInv == ASSUME LibraryFacts, SchedulerInv, NEW b \in completed, SubmitReady(b), Skips PROVE SchedulerInv'
  <1>. USE DEF SchedulerInv
  <1>. DEFINE v == ForgetPrepared(Current, b)
  <1>1. /\ loop = None /\ Become(v)
        /\ completed' = completed \ {b} /\ proposals' = proposals \ {b}
        /\ claim_cache' = claim_cache \ {b} /\ unavailable' = unavailable \ {b}
        /\ thread' = [t \in Threads |-> IF thread[t].b = b THEN [thread[t] EXCEPT !.orphan = TRUE] ELSE thread[t]]
        /\ UNCHANGED <<successes, catalog_ready, domain_after, prefer_reward, due, reservation, away, loop>>
    BY DEF SubmitReady, turnVars, recoveryVars
  <1>2. b \in proposals /\ b \in Bounties
    BY DEF Claims, Types
  <1>3. Current.groups = groups /\ Current.index = index /\ SavedIn(Current, proposals)
    BY DEF Current, Claims, PreparedSaved, SavedIn, Live
  <1>4. Keeps(Env, Current, v) /\ SavedIn(v, proposals \ {b})
    BY <1>2, <1>3, ForgetKeeps
  <1>. HIDE DEF v
  <1>5. Current' = v /\ WorkOK(v) /\ groups' = v.groups /\ index' = v.index
    BY <1>1, <1>4, BecomeCurrent DEF Keeps, Become
  <1>6. ASSUME NEW t \in Threads
        PROVE  /\ thread'[t] \in ThreadType /\ thread'[t].pc = thread[t].pc /\ thread'[t].b = thread[t].b /\ thread'[t].retired = thread[t].retired
               /\ thread'[t].economic = thread[t].economic /\ thread'[t].orphan = (thread[t].orphan \/ thread[t].b = b)
    <2>1. thread[t] \in ThreadType
      BY DEF Types
    <2>2. thread'[t] = IF thread[t].b = b THEN [thread[t] EXCEPT !.orphan = TRUE] ELSE thread[t]
      BY <1>1
    <2>. QED BY <2>1, <2>2 DEF ThreadType
  <1>7. thread' \in [Threads -> ThreadType]
    <2>1. DOMAIN thread' = Threads /\ thread' = [t \in Threads |-> thread'[t]]
      BY <1>1
    <2>. QED BY <1>6, <2>1
  <1>8. Rotates' /\ skipped' \in Nat /\ offered' \in BOOLEAN
    <2>1. \A t \in Threads : ~Starts(t)
      BY <1>6 DEF Starts
    <2>. QED BY <1>1, <1>6, <2>1, RotatesRest DEF turnVars
  <1>9. Types'
    BY <1>1, <1>7, <1>8 DEF Types
  <1>10. Claims'
    <2>1. Cardinality(proposals') <= MAX_PENDING_CLAIMS
      <3>1. IsFiniteSet(proposals) /\ Cardinality(proposals) \in Nat /\ MAX_PENDING_CLAIMS \in Nat /\ Cardinality(proposals) <= MAX_PENDING_CLAIMS
        BY SchedulerAssumption DEF LibraryFacts, CardinalityFact, SubsetFact, Types, Claims
      <3>2. Cardinality(proposals \ {b}) = Cardinality(proposals) - 1
        BY <1>2, <3>1 DEF LibraryFacts, RemoveFact
      <3>. QED BY <1>1, <3>1, <3>2, SMT
    <2>2. PreparedSaved'
      BY <1>1, <1>4, <1>5 DEF PreparedSaved, SavedIn, Live
    <2>3. unavailable' \subseteq claim_cache' /\ claim_cache' \subseteq proposals' /\ completed' \subseteq proposals'
      BY <1>1 DEF Claims
    <2>4. \A t \in Threads : thread'[t].pc # "queue" => thread'[t].b \in Bounties
      BY <1>6 DEF Claims
    <2>5. \A t \in Threads : thread'[t].b # None /\ ~thread'[t].orphan => thread'[t].b \in claim_cache'
      BY <1>1, <1>6 DEF Claims
    <2>. QED BY <2>1, <2>2, <2>3, <2>4, <2>5 DEF Claims
  <1>11. WorkOK(Current)' /\ AllAttended(Current)'
    <2>1. ASSUME catalog_ready, NEW m \in DOMAIN v.groups PROVE Attended(v.groups, v.index, m)
      BY <1>3, <1>4, <2>1, EnvTyped DEF Keeps, AllAttended
    <2>. QED BY <1>1, <1>5, <2>1 DEF AllAttended
  <1>12. Resolvers(groups)'
    <2>1. \A m \in DOMAIN v.groups : m \in DOMAIN groups /\ v.groups[m].resolving = groups[m].resolving
      BY <1>3, <1>4 DEF Keeps
    <2>2. \A m, t : t \in Threads /\ ResolverOf(m, t) => ResolverOf(m, t)'
      BY <1>6 DEF ResolverOf
    <2>. QED BY <1>5, <2>1, <2>2 DEF Resolvers
  <1>13. Turns'
    <2>1. \A r, s \in Threads : thread'[r].pc = "assigned" /\ thread'[s].pc = "assigned" => r = s
      BY <1>6, SMT DEF Turns
    <2>2. reservation' # None => thread'[reservation'].pc = "assigned"
      <3>1. reservation' = reservation /\ reservation \in Threads \cup {None}
        BY <1>1 DEF Types
      <3>. QED BY <1>6, <3>1 DEF Turns
    <2>3. \A s \in Threads : thread'[s].pc = "assigned" => thread'[s].economic = prefer_reward'
      BY <1>1, <1>6 DEF Turns
    <2>. QED BY <1>1, <2>1, <2>2, <2>3 DEF Turns
  <1>14. Budgeted'
    <2>1. ASSUME NEW c PROVE Started(c)' = Started(c)
      BY <1>6 DEF Started
    <2>. QED BY <1>1, <2>1 DEF Budgeted
  <1>15. Shrinks'
    BY <1>1 DEF Shrinks
  <1>. QED BY <1>8, <1>9, <1>10, <1>11, <1>12, <1>13, <1>14, <1>15

\* No groups, and an empty index.
LEMMA EmptyWork == WorkOK([groups |-> <<>>, index |-> EmptyIndex]) /\ DOMAIN <<>> = {}
  <1>. DEFINE f == <<>>
  <1>1. DOMAIN f = {}
    BY SMT
  <1>2. f = [n \in DOMAIN f |-> f[n]]
    BY SMT
  <1>3. GroupsOK(f)
    BY <1>1, <1>2 DEF GroupsOK
  <1>4. IndexOf(f, EmptyIndex)
    BY <1>1 DEF IndexOf, EmptyIndex
  <1>. QED BY <1>1, <1>3, <1>4 DEF WorkOK, EmptyIndex

\* The group of domain n that Refresh enters.
LEMMA RebuiltGroup ==
  ASSUME WorkOK(Current), NEW worth, NEW sampled, NEW low, worth \cup sampled \subseteq Bounties, NEW n, NEW g, g = Rebuilt(n, worth, sampled, low)
  PROVE  GroupOf(n, g) /\ g.prepared \subseteq proposals /\ (g.resolving => n \in DOMAIN groups /\ groups[n].resolving)
  <1>. DEFINE h == IF n \in Live THEN groups[n] ELSE NewGroup
              bs == InDomain(worth \cup sampled, n)
              rates == [m \in Masks |-> ConnectionRate(<<n, m>>, low)]
              rec == {MaskOf[b] : b \in InDomain(sampled, n)}
  <1>1. NewGroup \in Group /\ ~NewGroup.resolving
    BY ConstantFacts DEF NewGroup, Group, Key
  <1>2. h \in Group /\ (h.resolving => n \in DOMAIN groups /\ groups[n].resolving)
    BY <1>1 DEF Live, WorkOK, GroupsOK, GroupOf, Current
  <1>3. bs \subseteq Bounties /\ (\A b \in bs : DomainOf[b] = n)
    BY DEF InDomain
  <1>4. rates \in [Masks -> {HIGH, LOW}]
    BY DEF ConnectionRate
  <1>5. rec \subseteq Masks
    BY DEF InDomain, Masks
  <1>6. g = [h EXCEPT !.bounties = bs, !.prepared = bs \cap proposals, !.rate = rates, !.recovery = rec,
                      !.economic_key = None, !.prepared_economic_key = None, !.schedule_after = None]
    BY DEF Rebuilt
  <1>. HIDE DEF h, bs, rates, rec
  <1>7. g \in Group
    <2>1. g = [bounties |-> bs, prepared |-> bs \cap proposals, rate |-> rates, recovery |-> rec, endpoints |-> h.endpoints,
               economic_key |-> None, prepared_economic_key |-> None, resolve_after |-> h.resolve_after,
               schedule_after |-> None, resolving |-> h.resolving]
      BY <1>2, <1>6 DEF Group
    <2>2. h.endpoints \in BOOLEAN /\ h.resolve_after \in Nat /\ h.resolving \in BOOLEAN
      BY <1>2, GroupFacts
    <2>. QED BY <1>3, <1>4, <1>5, <2>1, <2>2, SMT DEF Group, Key
  <1>8. g.bounties = bs /\ g.prepared = bs \cap proposals /\ g.resolving = h.resolving
    BY <1>2, <1>6 DEF Group
  <1>. QED BY <1>2, <1>3, <1>7, <1>8 DEF GroupOf

\* The work list that Refresh builds.
LEMMA RebuildFacts ==
  ASSUME LibraryFacts, WorkOK(Current), NEW e \in EnvType, NEW worth, NEW sampled, NEW low, worth \cup sampled \subseteq Bounties,
         NEW v, v = Rebuild(e, worth, sampled, low)
  PROVE  /\ WorkOK(v) /\ SavedIn(v, proposals)
         /\ e.ready => \A n \in DOMAIN v.groups : Attended(v.groups, v.index, n)
         /\ \A n \in DOMAIN v.groups : v.groups[n].resolving => n \in DOMAIN groups /\ groups[n].resolving
  <1>. DEFINE names == {DomainOf[b] : b \in worth \cup sampled}
              gs == [n \in names |-> Rebuilt(n, worth, sampled, low)]
              u == [groups |-> <<>>, index |-> EmptyIndex]
  <1>1. WorkOK(u) /\ DOMAIN u.groups = {} /\ u.index.ready_domains = {} /\ u.index.ready_prepared_domains = {}
    BY EmptyWork DEF EmptyIndex
  <1>2. names \subseteq Domains
    BY ConstantFacts
  <1>3. v = UpdateGroups(e, u, gs)
    BY DEF Rebuild
  <1>4. DOMAIN gs = names /\ gs = [n \in DOMAIN gs |-> gs[n]] /\ \A n \in names : gs[n] = Rebuilt(n, worth, sampled, low)
    OBVIOUS
  <1>. HIDE DEF gs, u, names
  <1>5. ASSUME NEW n \in names
        PROVE  GroupOf(n, gs[n]) /\ gs[n].prepared \subseteq proposals /\ (gs[n].resolving => n \in DOMAIN groups /\ groups[n].resolving)
    <2>1. gs[n] = Rebuilt(n, worth, sampled, low)
      BY <1>4
    <2>. QED BY <2>1, RebuiltGroup
  <1>6. Updates(u, gs)
    BY <1>1, <1>2, <1>4, <1>5 DEF Updates, GroupsOK
  <1>7. Updated(e, u, gs, v)
    BY <1>1, <1>3, <1>6, UpdateFacts
  <1>8. WorkOK(v) /\ DOMAIN v.groups = names
    BY <1>1, <1>4, <1>7 DEF Updated
  <1>9. \A n \in names : SameWork(v.groups[n], gs[n])
    BY <1>4, <1>7 DEF Updated
  <1>10. e.ready => \A n \in names : Attended(v.groups, v.index, n)
    BY <1>4, <1>7 DEF Updated
  <1>. QED BY <1>5, <1>8, <1>9, <1>10 DEF SavedIn, SameWork

LEMMA RefreshInv ==
  ASSUME LibraryFacts, SchedulerInv, NEW ready \in BOOLEAN, NEW recent, recent \subseteq Bounties, NEW lost, NEW low, Refresh(ready, recent, lost, low), Skips
  PROVE  SchedulerInv'
  <1>. USE DEF SchedulerInv
  <1>1. /\ loop = None /\ catalog_ready' = ready
        /\ claim_cache' = claim_cache \ Retired(recent)
        /\ unavailable' = {b \in claim_cache' : ~ready \/ b \in lost \cup unavailable}
        /\ successes' = [b \in Bounties |-> IF b \in recent \cup claim_cache' \cup completed THEN successes[b] ELSE 0]
        /\ RebuildFrom(ready, IF ready THEN recent \ lost ELSE {}, low)
        /\ thread' = [t \in Threads |-> [thread[t] EXCEPT !.retired = @ \/ Retires(t)]]
        /\ UNCHANGED <<domain_after, prefer_reward, proposals, completed, due, reservation, away, loop>>
    BY DEF Refresh, turnVars, recoveryVars
  <1>. DEFINE e == [Env EXCEPT !.ready = ready]
  <1>2. e \in EnvType /\ e.ready = ready
    BY EnvTyped DEF EnvType
  <1>. HIDE DEF e
  <1>3. PICK worth, sampled : worth \cup sampled \subseteq Bounties /\ Become(Rebuild(e, worth, sampled, low))
    <2>. DEFINE S == IF ready THEN recent \ lost ELSE {}
    <2>1. S \subseteq Bounties /\ RebuildFrom(ready, S, low)
      BY <1>1
    <2>. HIDE DEF S
    <2>2. Become(Rebuild(e, Worth(Eligible(S), low), Sampled(Eligible(S), Worth(Eligible(S), low)), low))
      BY <2>1 DEF RebuildFrom, e
    <2>3. Worth(Eligible(S), low) \cup Sampled(Eligible(S), Worth(Eligible(S), low)) \subseteq Bounties
      BY <2>1 DEF Worth, Sampled, Eligible
    <2>. QED BY <2>2, <2>3
  <1>. DEFINE v == Rebuild(e, worth, sampled, low)
  <1>4. /\ WorkOK(v) /\ SavedIn(v, proposals)
        /\ ready => \A n \in DOMAIN v.groups : Attended(v.groups, v.index, n)
        /\ \A n \in DOMAIN v.groups : v.groups[n].resolving => n \in DOMAIN groups /\ groups[n].resolving
    BY <1>2, <1>3, RebuildFacts
  <1>5. Become(v)
    BY <1>3
  <1>. HIDE DEF v
  <1>6. Current' = v /\ groups' = v.groups /\ index' = v.index
    BY <1>4, <1>5, BecomeCurrent DEF Become
  <1>7. ASSUME NEW t \in Threads
        PROVE  /\ thread'[t] \in ThreadType /\ thread'[t].pc = thread[t].pc /\ thread'[t].b = thread[t].b
               /\ thread'[t].economic = thread[t].economic /\ thread'[t].orphan = thread[t].orphan
               /\ thread'[t].retired = (thread[t].retired \/ Retires(t))
    <2>1. thread[t] \in ThreadType
      BY DEF Types
    <2>2. thread[t].retired \in BOOLEAN /\ (thread[t].retired \/ Retires(t)) \in BOOLEAN
      BY <2>1 DEF ThreadType
    <2>3. thread'[t] = [thread[t] EXCEPT !.retired = (thread[t].retired \/ Retires(t))]
      BY <1>1, <2>1 DEF ThreadType
    <2>. QED BY <2>1, <2>2, <2>3 DEF ThreadType
  <1>8. thread' \in [Threads -> ThreadType]
    <2>1. thread' = [t \in Threads |-> thread'[t]]
      BY <1>1
    <2>. QED BY <1>7, <2>1
  <1>9. Rotates' /\ skipped' \in Nat /\ offered' \in BOOLEAN
    <2>1. \A t \in Threads : ~Starts(t)
      BY <1>7 DEF Starts
    <2>. QED BY <1>1, <1>7, <2>1, RotatesRest DEF turnVars
  <1>10. successes' \in [Bounties -> Nat] /\ \A b \in Bounties : successes'[b] = successes[b] \/ successes'[b] = 0
    BY <1>1 DEF Types
  <1>11. Types'
    BY <1>1, <1>8, <1>9, <1>10 DEF Types
  <1>12. Claims'
    <2>1. PreparedSaved'
      BY <1>1, <1>4, <1>6 DEF PreparedSaved, SavedIn, Live
    <2>2. unavailable' \subseteq claim_cache' /\ claim_cache' \subseteq claim_cache
      BY <1>1
    <2>3. \A t \in Threads : thread'[t].pc # "queue" => thread'[t].b \in Bounties
      BY <1>7 DEF Claims
    <2>4. ASSUME NEW t \in Threads, thread'[t].b # None, ~thread'[t].orphan PROVE thread'[t].b \in claim_cache'
      <3>1. thread[t].b \in claim_cache /\ InUse(thread[t].b) /\ thread'[t].b = thread[t].b
        BY <1>7, <2>4 DEF Claims, InUse
      <3>. QED BY <1>1, <3>1, SMT DEF Retired
    <2>. QED BY <1>1, <2>1, <2>2, <2>3, <2>4 DEF Claims
  <1>13. WorkOK(Current)' /\ AllAttended(Current)'
    BY <1>1, <1>4, <1>6 DEF AllAttended
  <1>14. Resolvers(groups)'
    <2>1. ASSUME NEW n \in DOMAIN v.groups, v.groups[n].resolving PROVE \E t \in Threads : ResolverOf(n, t)'
      <3>1. PICK t \in Threads : ResolverOf(n, t)
        BY <1>4, <2>1 DEF Resolvers
      <3>2. ~Retires(t)
        BY <1>6, <3>1 DEF Retires, ResolverOf
      <3>. QED BY <1>7, <3>1, <3>2 DEF ResolverOf
    <2>. QED BY <1>6, <2>1 DEF Resolvers
  <1>15. Turns'
    <2>1. \A r, s \in Threads : thread'[r].pc = "assigned" /\ thread'[s].pc = "assigned" => r = s
      BY <1>7, SMT DEF Turns
    <2>2. reservation' # None => thread'[reservation'].pc = "assigned"
      <3>1. reservation' = reservation /\ reservation \in Threads \cup {None}
        BY <1>1 DEF Types
      <3>. QED BY <1>7, <3>1 DEF Turns
    <2>3. \A s \in Threads : thread'[s].pc = "assigned" => thread'[s].economic = prefer_reward'
      BY <1>1, <1>7 DEF Turns
    <2>. QED BY <1>1, <2>1, <2>2, <2>3 DEF Turns
  <1>16. Budgeted'
    <2>1. ASSUME NEW c \in Bounties, Limit[c] # None PROVE successes'[c] + Cardinality(Started(c)') < Limit[c] + Cardinality(Threads)
      <3>1. Started(c)' = Started(c) /\ Started(c) \subseteq Threads
        BY <1>7 DEF Started
      <3>2. IsFiniteSet(Threads) /\ Limit[c] \in Nat /\ Limit[c] > 0 /\ successes[c] \in Nat
        BY <2>1, SchedulerAssumption, SMT DEF Types
      <3>3. IsFiniteSet(Started(c)) /\ Cardinality(Started(c)) <= Cardinality(Threads)
        BY <3>1, <3>2 DEF LibraryFacts, SubsetFact
      <3>4. Cardinality(Started(c)) \in Nat /\ Cardinality(Threads) \in Nat
        BY <3>2, <3>3 DEF LibraryFacts, CardinalityFact
      <3>5. successes[c] + Cardinality(Started(c)) < Limit[c] + Cardinality(Threads)
        BY <2>1 DEF Budgeted
      <3>6. successes'[c] = successes[c] \/ successes'[c] = 0
        BY <1>10
      <3>. QED BY <3>1, <3>2, <3>3, <3>4, <3>5, <3>6, SMT
    <2>. QED BY <2>1 DEF Budgeted
  <1>17. Shrinks'
    BY <1>1 DEF Shrinks
  <1>. QED BY <1>9, <1>11, <1>12, <1>13, <1>14, <1>15, <1>16, <1>17

-----------------------------------------------------------------------------
(* The theorems                                                            *)

LEMMA SchedulerInvInit == ASSUME LibraryFacts PROVE Init => SchedulerInv
  <1>. SUFFICES ASSUME Init PROVE SchedulerInv
    OBVIOUS
  <1>1. Current = [groups |-> <<>>, index |-> EmptyIndex] /\ groups = <<>> /\ DOMAIN groups = {}
    BY EmptyWork DEF Init, Current
  <1>2. WorkOK(Current) /\ DOMAIN Current.groups = {}
    BY <1>1, EmptyWork
  <1>3. Idle \in ThreadType /\ Idle.pc = "queue" /\ Idle.b = None
    BY DEF Idle, ThreadType, Key
  <1>4. thread \in [Threads -> ThreadType] /\ \A t \in Threads : thread[t].pc = "queue" /\ thread[t].b = None
    BY <1>3 DEF Init
  <1>5. Types
    <2>1. /\ catalog_ready = FALSE /\ prefer_reward = FALSE /\ offered = FALSE /\ due = 0 /\ away = 0 /\ skipped = 0
          /\ domain_after = None /\ reservation = None /\ loop = None /\ proposals = {}
      BY DEF Init
    <2>2. successes \in [Bounties -> Nat]
      BY DEF Init
    <2>3. catalog_ready \in BOOLEAN /\ prefer_reward \in BOOLEAN /\ offered \in BOOLEAN
      BY <2>1
    <2>4. due \in Nat /\ away \in Nat /\ skipped \in Nat
      BY <2>1
    <2>5. {catalog_ready, prefer_reward, offered} \subseteq BOOLEAN /\ {due, away, skipped} \subseteq Nat
      BY ONLY <2>3, <2>4
    <2>6. domain_after \in Domains \cup {None} /\ reservation \in Threads \cup {None} /\ loop \in LoopType \cup {None} /\ proposals \subseteq Bounties
      BY <2>1
    <2>. QED BY ONLY <1>4, <2>2, <2>5, <2>6 DEF Types
  <1>6. Claims
    <2>1. Cardinality({}) <= MAX_PENDING_CLAIMS
      BY SchedulerAssumption, SMT DEF LibraryFacts, EmptyFact
    <2>. QED BY <1>1, <1>4, <2>1 DEF Init, Claims, PreparedSaved, Live
  <1>7. AllAttended(Current) /\ Resolvers(groups)
    BY <1>1, <1>2 DEF AllAttended, Resolvers
  <1>8. Turns /\ Shrinks
    BY <1>4 DEF Init, Turns, Shrinks
  <1>9. Budgeted
    <2>1. ASSUME NEW b \in Bounties, Limit[b] # None PROVE successes[b] + Cardinality(Started(b)) < Limit[b] + Cardinality(Threads)
      <3>1. Started(b) = {}
        BY <1>4 DEF Started
      <3>2. Limit[b] \in Nat /\ Limit[b] > 0 /\ Cardinality(Threads) \in Nat /\ successes[b] = 0
        BY <2>1, SchedulerAssumption, SMT DEF LibraryFacts, CardinalityFact, Init
      <3>3. Cardinality(Started(b)) = 0
        BY <3>1 DEF LibraryFacts, EmptyFact
      <3>. QED BY <3>2, <3>3, SMT
    <2>. QED BY <2>1 DEF Budgeted
  <1>10. Rotates
    <2>1. Cardinality(Ahead(domain_after)) \in Nat /\ Cardinality(Domains) \in Nat /\ Cardinality(Ahead(domain_after)) < Cardinality(Domains)
      BY AheadFinite
    <2>2. skipped + 2 * Cardinality(Ahead(domain_after)) + (IF prefer_reward THEN 1 ELSE 0) < 2 * Cardinality(Domains)
      BY <2>1, SMT DEF Init
    <2>. QED BY <1>4, <2>2 DEF Rotates
  <1>. QED BY <1>2, <1>5, <1>6, <1>7, <1>8, <1>9, <1>10 DEF SchedulerInv

LEMMA SchedulerInvNext == ASSUME LibraryFacts PROVE SchedulerInv /\ [Next]_vars => SchedulerInv'
  <1>. SUFFICES ASSUME SchedulerInv, [Next]_vars PROVE SchedulerInv'
    OBVIOUS
  <1>1. CASE UNCHANGED vars
    <2>1. UNCHANGED <<groups, index, catalog_ready, domain_after, prefer_reward, proposals, claim_cache, unavailable, completed, successes,
                      due, reservation, away, thread, loop, offered, skipped>>
      BY <1>1 DEF vars, claimVars, turnVars, recoveryVars, historyVars
    <2>2. Current' = Current
      BY <2>1 DEF Current
    <2>3. Types' /\ Claims' /\ Turns' /\ AllAttended(Current)' /\ WorkOK(Current)'
      BY <2>1, <2>2 DEF SchedulerInv, Types, Claims, PreparedSaved, Live, Turns, AllAttended
    <2>4. Resolvers(groups)'
      BY <2>1 DEF SchedulerInv, Resolvers, ResolverOf
    <2>5. Budgeted' /\ Rotates'
      BY <2>1 DEF SchedulerInv, Budgeted, Started, Rotates, Ahead
    <2>6. Shrinks'
      BY <2>1 DEF SchedulerInv, Shrinks, Left, MaxLeft, Listed, Stale
    <2>. QED BY <2>3, <2>4, <2>5, <2>6 DEF SchedulerInv
  <1>2. CASE Step /\ Skips
    <2>1. ASSUME NEW o \in Observations, Refresh(TRUE, o.recent, o.lost, o.low) PROVE SchedulerInv'
      BY <1>2, <2>1, RefreshInv, SchedulerAssumption
    <2>2. CASE Refresh(FALSE, Bounties, {}, {})
      BY <1>2, <2>2, RefreshInv
    <2>3. CASE RefreshFails \/ Promote \/ Tick \/ ContinueNext
      BY <1>2, <2>3, RefreshFailsInv, PromoteInv, TickInv, ContinueInv
    <2>4. ASSUME NEW b \in completed, SubmitReady(b) PROVE SchedulerInv'
      BY <1>2, <2>4, SubmitInv
    <2>5. ASSUME NEW t \in Threads, BeginNext(t) \/ GiveUp(t) \/ Reject(t) \/ TcpStarted(t) PROVE SchedulerInv'
      BY <1>2, <2>5, BeginInv, GiveUpInv, RejectInv, StartInv
    <2>6. ASSUME NEW t \in Threads, NEW ok \in BOOLEAN, EndResolve(t, ok) PROVE SchedulerInv'
      BY <1>2, <2>6, EndResolveInv
    <2>7. ASSUME NEW t \in Threads, NEW outcome, CaptureEnds(t, outcome) PROVE SchedulerInv'
      BY <1>2, <2>7, CaptureInv
    <2>. QED BY <1>2, <2>1, <2>2, <2>3, <2>4, <2>5, <2>6, <2>7 DEF Step
  <1>. QED BY <1>1, <1>2 DEF Next

\* The indexes, the saved challenges and the budgets follow from the invariant.
LEMMA InvSound == ASSUME LibraryFacts PROVE SchedulerInv => ScheduleSound
  <1>. SUFFICES ASSUME SchedulerInv PROVE ScheduleSound
    OBVIOUS
  <1>. USE DEF SchedulerInv
  <1>1. GroupsOK(groups) /\ IndexOf(groups, index)
    BY DEF WorkOK, Current
  <1>2. \A n \in Live : groups[n].bounties \subseteq Bounties /\ groups[n].prepared \subseteq groups[n].bounties
    BY <1>1, GroupFacts DEF GroupsOK, GroupOf, Live
  <1>3. TypeOK
    BY <1>2 DEF TypeOK, Claims, Types
  <1>4. IndexesValid
    <2>1. ASSUME NEW x \in index.economic_order
          PROVE  x[2] \in index.ready_domains /\ x[2] \in Live /\ x[1] = groups[x[2]].economic_key /\ x[1] \in groups[x[2]].bounties
      <3>1. PICK n \in index.ready_domains : x = <<groups[n].economic_key, n>>
        BY <1>1 DEF IndexOf
      <3>. QED BY <1>1, <3>1 DEF IndexOf, Live
    <2>2. ASSUME NEW x \in index.prepared_economic_order
          PROVE  /\ x[2] \in index.ready_prepared_domains /\ x[2] \in Live /\ x[1] = groups[x[2]].prepared_economic_key
                 /\ x[1] \in groups[x[2]].bounties
      <3>1. PICK n \in index.ready_prepared_domains : x = <<groups[n].prepared_economic_key, n>>
        BY <1>1 DEF IndexOf
      <3>. QED BY <1>1, <1>2, <3>1 DEF IndexOf, Live
    <2>3. index.ready_domains = {x[2] : x \in index.economic_order}
      <3>1. ASSUME NEW n \in index.ready_domains PROVE <<groups[n].economic_key, n>> \in index.economic_order /\ <<groups[n].economic_key, n>>[2] = n
        BY <1>1 DEF IndexOf
      <3>2. \A n \in {x[2] : x \in index.economic_order} : n \in index.ready_domains
        BY <2>1
      <3>3. \A n \in index.ready_domains : n \in {x[2] : x \in index.economic_order}
        BY <3>1
      <3>. QED BY <3>2, <3>3
    <2>4. index.ready_prepared_domains = {x[2] : x \in index.prepared_economic_order}
      <3>1. ASSUME NEW n \in index.ready_prepared_domains
            PROVE  <<groups[n].prepared_economic_key, n>> \in index.prepared_economic_order /\ <<groups[n].prepared_economic_key, n>>[2] = n
        BY <1>1 DEF IndexOf
      <3>2. \A n \in {x[2] : x \in index.prepared_economic_order} : n \in index.ready_prepared_domains
        BY <2>2
      <3>3. \A n \in index.ready_prepared_domains : n \in {x[2] : x \in index.prepared_economic_order}
        BY <3>1
      <3>. QED BY <3>2, <3>3
    <2>. QED BY <2>1, <2>2, <2>3, <2>4 DEF IndexesValid
  <1>5. BudgetKept
    <2>1. ASSUME NEW b \in Bounties, Limit[b] # None PROVE successes[b] < Limit[b] + Cardinality(Threads)
      <3>1. IsFiniteSet(Threads) /\ Started(b) \subseteq Threads /\ Limit[b] \in Nat /\ successes[b] \in Nat
        BY <2>1, SchedulerAssumption DEF Started, Types
      <3>2. Cardinality(Started(b)) \in Nat /\ Cardinality(Threads) \in Nat
        BY <3>1 DEF LibraryFacts, CardinalityFact, SubsetFact
      <3>3. successes[b] + Cardinality(Started(b)) < Limit[b] + Cardinality(Threads)
        BY <2>1 DEF Budgeted
      <3>. QED BY <3>1, <3>2, <3>3, SMT
    <2>. QED BY <2>1 DEF BudgetKept
  <1>. QED BY <1>3, <1>4, <1>5 DEF ScheduleSound, Claims


\* So does the bound on the turns of the loop.
LEMMA InvEnds == ASSUME LibraryFacts PROVE SchedulerInv => NextEnds
  <1>. SUFFICES ASSUME SchedulerInv, loop # None PROVE loop.turns <= 2 * Cardinality(Bounties) + 1
    BY DEF NextEnds
  <1>1. loop \in LoopType /\ Left(loop, groups) <= MaxLeft(loop)
    BY DEF SchedulerInv, Types, Shrinks
  <1>2. Cardinality(Listed(groups)) \in Nat /\ Cardinality(Stale(groups)) \in Nat /\ Cardinality(Bounties) \in Nat
    BY LeftTypes
  <1>3. loop.turns \in Nat
    BY <1>1 DEF LoopType
  <1>. QED BY <1>1, <1>2, <1>3, SMT DEF Left, MaxLeft


\* And the bound on the connections that pass a domain over.
LEMMA InvFair == ASSUME LibraryFacts PROVE SchedulerInv => FairTurn
  <1>. SUFFICES ASSUME SchedulerInv PROVE skipped < 2 * Cardinality(Domains)
    BY DEF FairTurn
  <1>1. skipped \in Nat /\ Cardinality(Ahead(domain_after)) \in Nat /\ Cardinality(Domains) \in Nat
    BY AheadFinite DEF SchedulerInv, Types
  <1>2. skipped + 2 * Cardinality(Ahead(domain_after)) + (IF prefer_reward THEN 1 ELSE 0) < 2 * Cardinality(Domains)
    BY DEF SchedulerInv, Rotates
  <1>. QED BY <1>1, <1>2, SMT


-----------------------------------------------------------------------------
(* The facts from the library                                              *)

\* What being finite and having a size are.
LEMMA FiniteIs == \A S : Finite(S) <=> \E seq \in Seq(S) : \A s \in S : \E n \in 1..Len(seq) : seq[n] = s
  BY DEF Finite, IsFiniteSet

\* The size of a set, element by element.
LEMMA SizeIs ==
  \A S : Size(S) = LET CS[T \in SUBSET S] == IF T = {} THEN 0 ELSE 1 + CS[T \ {CHOOSE x : x \in T}]
                   IN  CS[S]
  BY DEF Size, Cardinality

\* What has to be shown of them.
LEMMA SizesSuffice == SizeFacts /\ LeastFact => LibraryFacts
  BY DEF SizeFacts, Finite, Size, LibraryFacts, CardinalityFact, EmptyFact, SubsetFact,
     AddFact, RemoveFact

LOCAL INSTANCE FiniteSetTheorems

\* The library's operators are the model's.
LEMMA SameOperators == /\ \A S : Finite(S) <=> IsFiniteSet(S)
                       /\ \A S : Size(S) = Cardinality(S)
  <1>1. \A S : Finite(S) <=> IsFiniteSet(S)
    BY FiniteIs DEF IsFiniteSet
  <1>2. \A S : Size(S) = Cardinality(S)
    BY SizeIs DEF Cardinality
  <1>. QED BY <1>1, <1>2

\* A set of natural numbers has a least one.
LEMMA LeastFactHolds == LeastFact
  <1>. SUFFICES ASSUME NEW T \in SUBSET Nat, T # {} PROVE \E x \in T : \A y \in T : x <= y
    BY DEF LeastFact
  <1>. DEFINE R == OpToRel(<, Nat)
  <1>1. \A x, y \in Nat : <<y, x>> \in R <=> y < x
    BY DEF OpToRel
  <1>2. IsWellFoundedOn(R, Nat)
    BY NatLessThanWellFounded
  <1>. HIDE DEF R
  <1>3. \E x \in T : \A y \in T : ~(<<y, x>> \in R)
    BY ONLY <1>2, WFMin, T \subseteq Nat, T # {}, Zenon
  <1>4. PICK x \in T : \A y \in T : ~(<<y, x>> \in R)
    BY <1>3
  <1>5. x \in Nat /\ \A y \in T : y \in Nat
    OBVIOUS
  <1>6. \A y \in T : ~(y < x)
    BY <1>1, <1>4, <1>5
  <1>7. \A y \in T : x <= y
    BY ONLY <1>5, <1>6, SMT
  <1>. QED BY <1>7

\* The library's theorems, of the model's operators.
LEMMA LibraryFactsHold == LibraryFacts
  <1>1. \A S : Finite(S) => Size(S) \in Nat
    BY SameOperators, FS_CardinalityType
  <1>2. Finite({}) /\ Size({}) = 0 /\ \A S : Finite(S) => (Size(S) = 0 <=> S = {})
    BY SameOperators, FS_EmptySet
  <1>3. ASSUME NEW S, NEW T \in SUBSET S, Finite(S)
        PROVE  Finite(T) /\ Size(T) <= Size(S) /\ (Size(S) = Size(T) => S = T)
    BY <1>3, SameOperators, FS_Subset
  <1>4. ASSUME NEW S, NEW x, Finite(S)
        PROVE  Finite(S \cup {x}) /\ Size(S \cup {x}) = IF x \in S THEN Size(S) ELSE Size(S) + 1
    BY <1>4, SameOperators, FS_AddElement
  <1>5. ASSUME NEW S, NEW x, Finite(S)
        PROVE  Finite(S \ {x}) /\ Size(S \ {x}) = IF x \in S THEN Size(S) - 1 ELSE Size(S)
    BY <1>5, SameOperators, FS_RemoveElement
  <1>6. SizeFacts
    BY <1>1, <1>2, <1>3, <1>4, <1>5 DEF SizeFacts
  <1>. QED BY <1>6, LeastFactHolds, SizesSuffice

-----------------------------------------------------------------------------
(* The theorems                                                            *)

\* The invariant of the scheduler holds whatever order refreshes, iterations of Next, DNS
\* answers, connection starts and timers come in (p2c_worker_impl.cpp:404-995).
THEOREM SchedulerInvariance == Spec => []SchedulerInv
  <1>1. Init => SchedulerInv
    BY LibraryFactsHold, SchedulerInvInit
  <1>2. SchedulerInv /\ [Next]_vars => SchedulerInv'
    BY LibraryFactsHold, SchedulerInvNext
  <1>. QED BY <1>1, <1>2, PTL DEF Spec

\* The indexes that Next reads always describe current groups under their current
\* leaders, prepared bounties have a saved challenge, and a bounty's budget of captures is
\* overshot by fewer than the number of threads (p2c_worker_impl.cpp:404-459, 687-818).
THEOREM ScheduleAlwaysSound == Spec => []ScheduleSound
  <1>1. SchedulerInv => ScheduleSound
    BY LibraryFactsHold, InvSound
  <1>. QED BY <1>1, SchedulerInvariance, PTL

\* A domain with bounties is always ready, or timed, or being resolved by a thread that
\* still holds its group, so no refresh that overtakes a DNS answer and no timer that is
\* taken off the schedule forgets it (p2c_worker_impl.cpp:404-459, 519-672, 859).
THEOREM DomainsNeverForgotten == Spec => []NoDomainForgotten
  <1>1. SchedulerInv => NoDomainForgotten
    BY DEF SchedulerInv, AllAttended, Resolvers, ResolverOf, Attended, Scheduled, NoDomainForgotten, Current, Live, Holds
  <1>. QED BY <1>1, SchedulerInvariance, PTL

\* The loop of Next under work_mutex makes at most two turns for each bounty and one
\* more, for any number of domains, policies and saved challenges (p2c_worker_impl.cpp:699).
THEOREM NextAlwaysEnds == Spec => []NextEnds
  <1>1. SchedulerInv => NextEnds
    BY LibraryFactsHold, InvEnds
  <1>. QED BY <1>1, SchedulerInvariance, PTL

\* A domain that stays among the candidates is passed over by fewer connections than two
\* rounds of the domains, for any rewards and any number of domains (the alternation of
\* prefer_reward and the rotation by domain_after, p2c_worker_impl.cpp:709-722).
THEOREM TurnsAlwaysFair == Spec => []FairTurn
  <1>1. SchedulerInv => FairTurn
    BY LibraryFactsHold, InvFair
  <1>. QED BY <1>1, SchedulerInvariance, PTL
=============================================================================

---------------------------- MODULE RandomXProofs ----------------------------
(***************************************************************************)
(* Proofs about RandomXCache, for any set of keys and threads, and about   *)
(* RandomXKeys, for any epoch, lag and branches.                           *)
(*                                                                         *)
(* OutstandingBuildsBounded is not inductive by itself.  It follows from   *)
(* two facts that are: the cache holds at most MAX_FAST_CONTEXTS entries,  *)
(* and every task that still runs is the unfinished future of one of them. *)
(* HashUsesItsKey needs the LIGHT slot to agree with m_light_key whenever  *)
(* it is not empty.  The key schedule keeps both, because it prepares only *)
(* keys of the cache.  KeyAnnounced is arithmetic about epochs, and        *)
(* CurrentDatasetKept needs the eviction order: no two entries are of one  *)
(* age, and the current key's is the youngest once UpdateTip prepared it.  *)
(***************************************************************************)
EXTENDS RandomXKeys, FiniteSetTheorems, SequenceTheorems, TLAPS

\* Zenon is the prover of this module; a leaf that needs another one names it.
USE Zenon

\* Every outstanding task is the unfinished future of an entry.
BuildsHaveEntries == \A b \in running : \E e \in m_fast : e.build = b /\ ~Ready(e)

FastBounded == IsFiniteSet(m_fast) /\ Cardinality(m_fast) <= MAX_FAST_CONTEXTS

LightAgrees == m_light # None => KeyOf(m_light) = m_light_key

RequestsNamed ==
    \A t \in Threads : /\ pc[t] \in {"light", "build", "hash"} => want[t] \in Keys
                       /\ pc[t] = "hash" => KeyOf(got[t]) = want[t]

CacheInv == CacheTypeOK /\ FastBounded /\ BuildsHaveEntries /\ LightAgrees /\ RequestsNamed

-----------------------------------------------------------------------------

\* A set covered by a function on a finite set is finite and no larger: used
\* for the entries a step rewrites and for the build numbers of the entries.
LEMMA CoveredSet ==
    ASSUME NEW S, IsFiniteSet(S), NEW T, NEW f \in [S -> T],
           \A t \in T : \E s \in S : f[s] = t
    PROVE  IsFiniteSet(T) /\ Cardinality(T) <= Cardinality(S)
<1>1. f \in Surjection(S, T)
  BY DEF Surjection
<1>. QED  BY <1>1, FS_Surjection

\* Admitting an entry for a key in place of evicted ready entries keeps the
\* cache within its bound when there is room after the eviction.
LEMMA AdmitKeepsInv ==
    ASSUME CacheInv, NEW key \in Keys, NEW STATE evicted, evicted \subseteq m_fast,
           m_clock < MaxClock, \A e \in evicted : Ready(e),
           Cardinality(m_fast \ evicted) < MAX_FAST_CONTEXTS,
           Admit(key, evicted), UNCHANGED <<lightVars, threadVars>>
    PROVE  CacheInv'
<1> DEFINE new == [key |-> key, last_prepare |-> m_clock + 1,
                   build |-> m_clock + 1, future |-> "building"]
<1> USE CacheAssumption DEF MAX_FAST_CONTEXTS
<1>1. new \in Entries /\ ~Ready(new)
  BY SMT DEF Entries, Ready, CacheInv, CacheTypeOK
<1>2. CacheTypeOK'
  <2>1. m_clock' \in 0..MaxClock /\ running' \subseteq 1..m_clock'
    <3>1. m_clock \in Nat /\ m_clock' = m_clock + 1 /\ m_clock' <= MaxClock
      BY SMT DEF CacheInv, CacheTypeOK, Admit
    <3>2. \A b \in running : b \in 1..m_clock
      BY DEF CacheInv, CacheTypeOK
    <3>3. \A b \in running' : b \in 1..(m_clock + 1)
      BY <3>1, <3>2, SMT DEF Admit
    <3>. QED  BY <3>1, <3>3, SMT
  <2>2. m_fast' \subseteq Entries
    BY <1>1 DEF CacheInv, CacheTypeOK, Admit
  <2>. QED  BY <2>1, <2>2 DEF CacheInv, CacheTypeOK, lightVars, threadVars
<1>3. FastBounded'
  <2>1. IsFiniteSet(m_fast \ evicted)
    BY FS_Subset DEF CacheInv, FastBounded
  <2>2. Cardinality(m_fast \ evicted) \in Nat
    BY <2>1, FS_CardinalityType
  <2>3. m_fast' = (m_fast \ evicted) \cup {new}
    BY DEF Admit
  <2> HIDE DEF new
  <2>4. /\ IsFiniteSet(m_fast')
        /\ \/ Cardinality(m_fast') = Cardinality(m_fast \ evicted)
           \/ Cardinality(m_fast') = Cardinality(m_fast \ evicted) + 1
    BY <2>1, <2>3, FS_AddElement
  <2>. QED  BY <2>2, <2>4, SMT DEF FastBounded
<1>4. BuildsHaveEntries'
  <2> SUFFICES ASSUME NEW b \in running'
               PROVE  \E e \in m_fast' : e.build = b /\ ~Ready(e)
    BY DEF BuildsHaveEntries, Ready
  <2>1. CASE b = m_clock + 1
    BY <2>1, <1>1 DEF Admit
  <2>2. CASE b \in running
    <3>1. PICK e \in m_fast : e.build = b /\ ~Ready(e)
      BY <2>2 DEF CacheInv, BuildsHaveEntries
    <3>. QED  BY <3>1 DEF Admit
  <2>. QED  BY <2>1, <2>2 DEF Admit
<1>5. (LightAgrees /\ RequestsNamed)'
  BY DEF CacheInv, LightAgrees, RequestsNamed, lightVars, threadVars
<1>. QED  BY <1>2, <1>3, <1>4, <1>5 DEF CacheInv

\* Prepare keeps the invariant: it evicts a ready entry only, and starts a build only when
\* the cache has room for its entry.
LEMMA PrepareKeepsInv ==
    ASSUME CacheInv, NEW key \in Keys, Prepare(key)
    PROVE  CacheInv'
<1> USE CacheAssumption DEF MAX_FAST_CONTEXTS
<1>1. CASE Refresh(key)
  <2> DEFINE touch(e) == IF e.key = key THEN [e EXCEPT !.last_prepare = m_clock + 1] ELSE e
  <2>1. m_fast' = {touch(e) : e \in m_fast}
    BY <1>1 DEF Refresh
  <2>2. \A e \in m_fast : /\ touch(e) \in Entries
                          /\ touch(e).build = e.build
                          /\ touch(e).future = e.future
    BY SMT DEF CacheInv, CacheTypeOK, Entries, Prepare
  <2>3. CacheTypeOK'
    BY <1>1, <2>1, <2>2, SMT
       DEF CacheInv, CacheTypeOK, Prepare, Refresh, lightVars, threadVars
  <2>4. FastBounded'
    <3> DEFINE f == [e \in m_fast |-> touch(e)]
    <3>1. f \in [m_fast -> m_fast'] /\ \A y \in m_fast' : \E e \in m_fast : f[e] = y
      BY <2>1
    <3>2. Cardinality(m_fast) \in Nat /\ IsFiniteSet(m_fast)
      BY FS_CardinalityType DEF CacheInv, FastBounded
    <3> HIDE DEF f
    <3>3. IsFiniteSet(m_fast') /\ Cardinality(m_fast') <= Cardinality(m_fast)
      BY <3>1, <3>2, CoveredSet
    <3>4. Cardinality(m_fast') \in Nat
      BY <3>3, FS_CardinalityType
    <3>. QED  BY <3>2, <3>3, <3>4, SMT DEF CacheInv, FastBounded
  <2>5. BuildsHaveEntries'
    <3> SUFFICES ASSUME NEW b \in running'
                 PROVE  \E e \in m_fast' : e.build = b /\ ~Ready(e)
      BY DEF BuildsHaveEntries, Ready
    <3>1. PICK e \in m_fast : e.build = b /\ ~Ready(e)
      BY <1>1 DEF CacheInv, BuildsHaveEntries, Refresh
    <3>2. touch(e) \in m_fast'
      BY <2>1
    <3>3. touch(e).build = b /\ ~Ready(touch(e))
      BY <2>2, <3>1 DEF Ready
    <3>. QED  BY <3>2, <3>3
  <2>6. (LightAgrees /\ RequestsNamed)'
    BY DEF CacheInv, LightAgrees, RequestsNamed, Prepare, lightVars, threadVars
  <2>. QED  BY <2>3, <2>4, <2>5, <2>6 DEF CacheInv
<1>2. CASE Cardinality(m_fast) # MAX_FAST_CONTEXTS /\ Admit(key, {})
  <2>1. m_fast \ {} = m_fast /\ Cardinality(m_fast) \in Nat
    BY FS_CardinalityType DEF CacheInv, FastBounded
  <2>2. Cardinality(m_fast \ {}) < MAX_FAST_CONTEXTS
    BY <1>2, <2>1, SMT DEF CacheInv, FastBounded
  <2>. QED  BY <1>2, <2>2, AdmitKeepsInv DEF Prepare
<1>3. CASE Cardinality(m_fast) = MAX_FAST_CONTEXTS /\ Oldest # {} /\ Admit(key, Oldest)
  <2>1. PICK e : e \in Oldest
    BY <1>3
  <2>2. Oldest \subseteq m_fast /\ \A o \in Oldest : Ready(o)
    BY DEF Oldest
  <2>3. /\ IsFiniteSet(m_fast \ {e})
        /\ Cardinality(m_fast \ {e}) = Cardinality(m_fast) - 1
    BY <2>1, <2>2, FS_RemoveElement DEF CacheInv, FastBounded
  <2>4. /\ IsFiniteSet(m_fast \ Oldest)
        /\ Cardinality(m_fast \ Oldest) <= Cardinality(m_fast \ {e})
    <3>1. m_fast \ Oldest \in SUBSET (m_fast \ {e})
      BY <2>1
    <3>. QED  BY <2>3, <3>1, FS_Subset
  <2>5. Cardinality(m_fast \ Oldest) \in Nat
    BY <2>4, FS_CardinalityType
  <2>6. Cardinality(m_fast \ Oldest) < MAX_FAST_CONTEXTS
    BY <1>3, <2>3, <2>4, <2>5, SMT
  <2>. QED  BY <1>3, <2>2, <2>6, AdmitKeepsInv DEF Prepare
<1>4. CASE UNCHANGED <<m_clock, m_fast, running>>
  BY <1>4 DEF Prepare, CacheInv, CacheTypeOK, FastBounded, BuildsHaveEntries, Ready,
              LightAgrees, RequestsNamed, lightVars, threadVars
<1>. QED  BY <1>1, <1>2, <1>3, <1>4 DEF Prepare, AdmitNew

\* A build that ends, with a dataset, the LIGHT fallback or an exception, frees what it
\* occupied in the same step.
LEMMA FinishBuildKeepsInv ==
    ASSUME CacheInv, NEW build \in running, NEW result \in BuildResults,
           FinishBuild(build, result)
    PROVE  CacheInv'
<1> USE CacheAssumption DEF MAX_FAST_CONTEXTS
<1> DEFINE done(e) == IF e.build = build THEN [e EXCEPT !.future = result] ELSE e
<1>1. m_fast' = {done(e) : e \in m_fast}
  BY DEF FinishBuild
<1>2. \A e \in m_fast : done(e) \in Entries
  BY SMT DEF CacheInv, CacheTypeOK, Entries, BuildResults
<1>3. CacheTypeOK'
  BY <1>1, <1>2, SMT DEF CacheInv, CacheTypeOK, FinishBuild, lightVars, threadVars
<1>4. FastBounded'
  <2> DEFINE f == [e \in m_fast |-> done(e)]
  <2>1. f \in [m_fast -> m_fast'] /\ \A y \in m_fast' : \E e \in m_fast : f[e] = y
    BY <1>1
  <2>2. Cardinality(m_fast) \in Nat /\ IsFiniteSet(m_fast)
    BY FS_CardinalityType DEF CacheInv, FastBounded
  <2> HIDE DEF f
  <2>3. IsFiniteSet(m_fast') /\ Cardinality(m_fast') <= Cardinality(m_fast)
    BY <2>1, <2>2, CoveredSet
  <2>4. Cardinality(m_fast') \in Nat
    BY <2>3, FS_CardinalityType
  <2>. QED  BY <2>2, <2>3, <2>4, SMT DEF CacheInv, FastBounded
<1>5. BuildsHaveEntries'
  <2> SUFFICES ASSUME NEW b \in running'
               PROVE  \E e \in m_fast' : e.build = b /\ ~Ready(e)
    BY DEF BuildsHaveEntries, Ready
  <2>1. b \in running /\ b # build
    BY DEF FinishBuild
  <2>2. PICK e \in m_fast : e.build = b /\ ~Ready(e)
    BY <2>1 DEF CacheInv, BuildsHaveEntries
  <2>3. done(e) = e
    BY <2>1, <2>2
  <2>. QED  BY <1>1, <2>2, <2>3
<1>6. (LightAgrees /\ RequestsNamed)'
  BY DEF CacheInv, LightAgrees, RequestsNamed, FinishBuild, lightVars, threadVars
<1>. QED  BY <1>3, <1>4, <1>5, <1>6 DEF CacheInv

\* The steps of a hashing thread keep the invariant, a LIGHT build that fails included.
LEMMA HashThreadKeepsInv ==
    ASSUME CacheInv, NEW t \in Threads, HashThread(t)
    PROVE  CacheInv'
<1> USE CacheAssumption DEF MAX_FAST_CONTEXTS
<1>1. ASSUME NEW key \in Keys, GetFast(t, key)  PROVE CacheInv'
  <2>1. m_fast' \subseteq m_fast /\ \A e \in m_fast : ~Ready(e) => e \in m_fast'
    BY <1>1 DEF GetFast, Ready
  <2>2. FastBounded'
    <3>1. IsFiniteSet(m_fast) /\ Cardinality(m_fast) \in Nat
      BY FS_CardinalityType DEF CacheInv, FastBounded
    <3>2. IsFiniteSet(m_fast') /\ Cardinality(m_fast') <= Cardinality(m_fast)
      BY <2>1, <3>1, FS_Subset
    <3>3. Cardinality(m_fast') \in Nat
      BY <3>2, FS_CardinalityType
    <3>. QED  BY <3>1, <3>2, <3>3, SMT DEF CacheInv, FastBounded
  <2>3. BuildsHaveEntries'
    BY <1>1, <2>1, SMT DEF CacheInv, BuildsHaveEntries, Ready, GetFast
  <2>4. CacheTypeOK'
    BY <1>1, <2>1, SMT DEF CacheInv, CacheTypeOK, GetFast, lightVars, Contexts
  <2>5. LightAgrees' /\ RequestsNamed'
    BY <1>1, SMT DEF CacheInv, CacheTypeOK, LightAgrees, RequestsNamed, GetFast, lightVars, KeyOf
  <2>. QED  BY <2>2, <2>3, <2>4, <2>5 DEF CacheInv
<1>2. ASSUME UNCHANGED <<m_clock, m_fast, running>>,
             CacheTypeOK' /\ LightAgrees' /\ RequestsNamed'
      PROVE  CacheInv'
  BY <1>2 DEF CacheInv, FastBounded, BuildsHaveEntries, Ready
<1>3. CASE LightEnter(t)
  BY <1>2, <1>3, SMT DEF LightEnter, CacheInv, CacheTypeOK, LightAgrees, RequestsNamed
<1>4. CASE LightBuilt(t)
  BY <1>2, <1>4 DEF LightBuilt, CacheInv, CacheTypeOK, LightAgrees, RequestsNamed,
                    Contexts, KeyOf
<1>5. CASE LightFailed(t)
  BY <1>2, <1>5 DEF LightFailed, CacheInv, CacheTypeOK, LightAgrees, RequestsNamed
<1>6. CASE HashDone(t)
  BY <1>2, <1>6 DEF HashDone, CacheInv, CacheTypeOK, LightAgrees, RequestsNamed, lightVars
<1>. QED  BY <1>1, <1>3, <1>4, <1>5, <1>6 DEF HashThread, GetStep

-----------------------------------------------------------------------------

\* The invariant holds of the empty cache.
LEMMA CacheStart == CacheInit => CacheInv
  BY CacheAssumption, FS_EmptySet, SMT
     DEF CacheInit, CacheInv, CacheTypeOK, FastBounded, BuildsHaveEntries, LightAgrees,
         RequestsNamed, MAX_FAST_CONTEXTS

\* Every step of the cache keeps it.
LEMMA CacheStep == ASSUME CacheInv, [CacheNext]_cacheVars PROVE CacheInv'
<1>1. CASE \E key \in Keys : Prepare(key)
  BY <1>1, PrepareKeepsInv
<1>2. CASE \E build \in running, result \in BuildResults : FinishBuild(build, result)
  BY <1>2, FinishBuildKeepsInv
<1>3. CASE \E t \in Threads : HashThread(t)
  BY <1>3, HashThreadKeepsInv
<1>4. CASE UNCHANGED cacheVars
  BY <1>4 DEF cacheVars, lightVars, threadVars, CacheInv, CacheTypeOK, FastBounded,
              BuildsHaveEntries, Ready, LightAgrees, RequestsNamed
<1>. QED  BY <1>1, <1>2, <1>3, <1>4 DEF CacheNext

\* The inductive invariant holds in every reachable state of the cache.
THEOREM CacheInvariance == CacheSpec => []CacheInv
<1>. QED  BY CacheStart, CacheStep, PTL DEF CacheSpec

\* The tasks that run are no more than the entries they are futures of.
LEMMA InvBoundsBuilds == CacheInv => OutstandingBuildsBounded
<1> SUFFICES ASSUME CacheInv PROVE Cardinality(running) <= 2
  BY DEF OutstandingBuildsBounded, MAX_FAST_CONTEXTS
<1> DEFINE numbers == {e.build : e \in m_fast}
           f == [e \in m_fast |-> e.build]
<1>1. f \in [m_fast -> numbers] /\ \A n \in numbers : \E e \in m_fast : f[e] = n
  OBVIOUS
<1>2. IsFiniteSet(m_fast) /\ Cardinality(m_fast) \in Nat
  BY FS_CardinalityType DEF CacheInv, FastBounded
<1>3. IsFiniteSet(numbers) /\ Cardinality(numbers) <= Cardinality(m_fast)
  BY <1>1, <1>2, CoveredSet
<1>4. running \in SUBSET numbers
  BY DEF CacheInv, BuildsHaveEntries
<1>5. IsFiniteSet(running) /\ Cardinality(running) <= Cardinality(numbers)
  BY <1>3, <1>4, FS_Subset
<1>6. Cardinality(running) \in Nat /\ Cardinality(numbers) \in Nat
  BY <1>3, <1>5, FS_CardinalityType
<1>. QED  BY <1>2, <1>3, <1>5, <1>6, SMT DEF CacheInv, FastBounded, MAX_FAST_CONTEXTS

LEMMA InvNamesHashes == CacheInv => HashUsesItsKey
  BY DEF CacheInv, RequestsNamed, HashUsesItsKey

\* At most MAX_FAST_CONTEXTS FAST builds are outstanding, whatever keys are
\* prepared and however lookups erase failed entries (Prepare and Get).
THEOREM BuildsBounded == CacheSpec => []OutstandingBuildsBounded
<1>. QED  BY InvBoundsBuilds, CacheInvariance, PTL

\* Every hash is computed with a context of the key it was asked for (Get).
THEOREM RightContext == CacheSpec => []HashUsesItsKey
<1>. QED  BY InvNamesHashes, CacheInvariance, PTL

-----------------------------------------------------------------------------
(* The key schedule                                                        *)

\* No two entries have one key or one age, and none is younger than m_clock.
AgesDistinct ==
    /\ \A e, o \in m_fast : e.key = o.key \/ e.last_prepare = o.last_prepare => e = o
    /\ \A e \in m_fast : e.last_prepare <= m_clock

KeysTypeOK ==
    /\ chain \in Chains
    /\ preparing \in Seq(Keys)
    /\ miner_key \in Keys \cup {None}
    /\ interposed \in BOOLEAN

\* Before UpdateTip prepares the second key, the entry of the first, if it has one, is
\* the youngest, unless the miner prepared a key in between.
FirstKeyYoungest ==
    preparing # <<>> =>
        \/ preparing = PrepareRandomXKeys(chain)
        \/ /\ Len(preparing) = 1
           /\ ~interposed => \A e \in FindFast(GetRandomXKey(chain)) : e.last_prepare = m_clock

KeysInv == CacheInv /\ KeysTypeOK /\ AgesDistinct /\ FirstKeyYoungest

-----------------------------------------------------------------------------

LEMMA TimesAtLeast == ASSUME NEW q \in Int, NEW t \in Nat, q >= 1, t > 0 PROVE q * t >= t
  BY SMT

\* A quotient is known from the multiples around the dividend.
LEMMA DivUnique ==
    ASSUME NEW p \in Nat, NEW t \in Nat, t > 0, NEW a \in Nat, p * t <= a, a < p * t + t
    PROVE  a \div t = p /\ a % t = a - p * t
<1>1. a \div t \in Nat /\ a % t \in 0..(t - 1)
  BY SMT
<1>2. a % t = a - t * (a \div t)
  BY SMT
<1>3. PICK q \in Nat, r \in 0..(t - 1) : q = a \div t /\ r = a % t /\ r = a - t * q
  BY <1>1, <1>2
<1>4. (p - q) * t = p * t - t * q /\ (q - p) * t = t * q - p * t
  BY SMT
<1>5. p * t \in Int /\ t * q \in Int
  BY SMT
<1>6. ~(p - q >= 1)
  BY <1>3, <1>4, <1>5, TimesAtLeast, SMT
<1>7. ~(q - p >= 1)
  BY <1>3, <1>4, <1>5, TimesAtLeast, SMT
<1>8. q = p
  BY <1>6, <1>7, SMT
<1>9. p * t = t * p
  BY SMT
<1>. QED  BY <1>3, <1>5, <1>8, <1>9

\* Every height lies in an epoch, which starts at a multiple of the epoch's length.
LEMMA EpochOf ==
    ASSUME NEW a \in Nat
    PROVE  \E p \in Nat : /\ p * randomx_epoch_blocks \in Nat
                          /\ p * randomx_epoch_blocks <= a
                          /\ a < p * randomx_epoch_blocks + randomx_epoch_blocks
                          /\ a \div randomx_epoch_blocks = p
                          /\ a - (a % randomx_epoch_blocks) = p * randomx_epoch_blocks
<1>0. PICK t \in Nat : t = randomx_epoch_blocks /\ t > 0
  BY EpochAssumption, SMT
<1>1. a \div t \in Nat /\ a % t \in 0..(t - 1)
  BY <1>0, SMT
<1>2. a % t = a - t * (a \div t)
  BY <1>0, SMT
<1>3. PICK q \in Nat, r \in 0..(t - 1) : q = a \div t /\ r = a % t /\ r = a - t * q
  BY <1>1, <1>2
<1>4. q * t = t * q /\ q * t \in Nat
  BY SMT
<1>5. q * t <= a /\ a < q * t + t /\ a - r = q * t
  BY <1>3, <1>4, <1>0, SMT
<1>. QED  BY <1>0, <1>3, <1>4, <1>5

\* A multiple of the epoch's length leaves no remainder.
LEMMA EpochStart ==
    ASSUME NEW p \in Nat
    PROVE  (p * randomx_epoch_blocks) % randomx_epoch_blocks = 0
<1>0. PICK t \in Nat : t = randomx_epoch_blocks /\ t > 0
  BY EpochAssumption, SMT
<1>1. PICK a \in Nat : a = p * t
  BY SMT
<1>2. a % t = a - p * t
  BY <1>0, <1>1, DivUnique, SMT
<1>. QED  BY <1>0, <1>1, <1>2, SMT

\* The seed height is the start of an epoch, randomx_epoch_lag below the height at least
\* when it is not the bootstrap's.
LEMMA SeedHeight ==
    ASSUME NEW n \in Nat
    PROVE  /\ RandomXSeedHeight(n) \in Nat
           /\ RandomXSeedHeight(n) % randomx_epoch_blocks = 0
           /\ n > 0 => RandomXSeedHeight(n) < n
           /\ RandomXSeedHeight(n) # 0 =>
                \E p \in Nat : /\ RandomXSeedHeight(n) = p * randomx_epoch_blocks
                               /\ p * randomx_epoch_blocks + randomx_epoch_lag <= n
                               /\ n < p * randomx_epoch_blocks + randomx_epoch_blocks
                                        + randomx_epoch_lag
<1>0. PICK t \in Nat, l \in Nat : t = randomx_epoch_blocks /\ l = randomx_epoch_lag /\ t > l /\ l > 0
  BY EpochAssumption, SMT
<1>1. CASE n <= l
  <2>1. RandomXSeedHeight(n) = 0
    BY <1>0, <1>1 DEF RandomXSeedHeight
  <2>2. 0 % t = 0
    BY <1>0, SMT
  <2>. QED  BY <1>0, <2>1, <2>2, SMT
<1>2. CASE n > l
  <2>1. PICK a \in Nat : a = n - l
    BY <1>2, SMT
  <2>2. PICK p \in Nat : p * t \in Nat /\ p * t <= a /\ a < p * t + t /\ a \div t = p
    BY <1>0, EpochOf
  <2>3. RandomXSeedHeight(n) = p * t
    BY <1>0, <1>2, <2>1, <2>2, SMT DEF RandomXSeedHeight
  <2>4. (p * t) % t = 0
    BY <1>0, EpochStart
  <2>5. PICK s \in Nat : s = p * t
    BY <2>2
  <2>6. s + l <= n /\ n < s + t + l /\ s < n
    BY <1>0, <2>1, <2>2, <2>5, SMT
  <2>. QED  BY <1>0, <2>3, <2>4, <2>5, <2>6
<1>. QED  BY <1>0, <1>1, <1>2, SMT

\* The seed height stays that of an epoch until randomx_epoch_lag blocks into the next.
LEMMA SeedHeightOf ==
    ASSUME NEW p \in Nat, NEW n \in Nat, p * randomx_epoch_blocks + randomx_epoch_lag <= n,
           n < p * randomx_epoch_blocks + randomx_epoch_blocks + randomx_epoch_lag
    PROVE  RandomXSeedHeight(n) = p * randomx_epoch_blocks
<1>0. PICK t \in Nat, l \in Nat : t = randomx_epoch_blocks /\ l = randomx_epoch_lag /\ t > l /\ l > 0
  BY EpochAssumption, SMT
<1>1. PICK s \in Nat : s = p * t
  BY SMT
<1>2. s + l <= n /\ n < s + t + l
  BY <1>0, <1>1
<1>3. CASE n <= l
  <2>1. s = 0
    BY <1>2, <1>3, SMT
  <2>. QED  BY <1>0, <1>1, <1>3, <2>1 DEF RandomXSeedHeight
<1>4. CASE n > l
  <2>1. PICK a \in Nat : a = n - l
    BY <1>4, SMT
  <2>2. s <= a /\ a < s + t
    BY <1>2, <2>1, SMT
  <2>3. a \div t = p
    BY <1>0, <1>1, <2>2, DivUnique, SMT
  <2>. QED  BY <1>0, <1>4, <2>1, <2>3, SMT DEF RandomXSeedHeight
<1>. QED  BY <1>3, <1>4, SMT

-----------------------------------------------------------------------------

\* A chain is a sequence of labels no longer than MaxHeight.
LEMMA ChainShape ==
    ASSUME NEW c
    PROVE  c \in Chains <=> /\ c \in Seq(Branches \cup {None})
                            /\ Len(c) <= MaxHeight
                            /\ \A i \in 1..Len(c) : c[i] \in Labels(i)
<1> DEFINE B == Branches \cup {None}
<1> HIDE DEF B
<1>1. ASSUME NEW h \in 0..MaxHeight, c \in [1..h -> B]
      PROVE  c \in Seq(B) /\ Len(c) <= MaxHeight
  BY <1>1, EpochAssumption, SMT
<1>2. ASSUME c \in Seq(B), Len(c) <= MaxHeight
      PROVE  \E h \in 0..MaxHeight : c \in [1..h -> B]
  BY <1>2, EpochAssumption, SMT
<1>3. c \in UNION {[1..h -> B] : h \in 0..MaxHeight} <=> c \in Seq(B) /\ Len(c) <= MaxHeight
  BY <1>1, <1>2
<1>. QED  BY <1>3 DEF Chains, B

\* A prefix of a chain is a chain, and of a prefix too.
LEMMA AncestorShape ==
    ASSUME NEW c \in Chains, NEW h \in 0..Len(c)
    PROVE  /\ Ancestor(c, h) \in Chains
           /\ Len(Ancestor(c, h)) = h
           /\ \A k \in 0..h : Ancestor(Ancestor(c, h), k) = Ancestor(c, k)
<1> DEFINE B == Branches \cup {None}
<1>1. /\ c \in Seq(B) /\ Len(c) \in Nat /\ Len(c) <= MaxHeight
      /\ \A i \in 1..Len(c) : c[i] \in Labels(i)
  BY ChainShape, LenProperties
<1> HIDE DEF B
<1>2. \A k \in 0..Len(c) : /\ Ancestor(c, k) \in Seq(B) /\ Len(Ancestor(c, k)) = k
                           /\ \A i \in 1..k : Ancestor(c, k)[i] = c[i]
  BY <1>1, SMT DEF Ancestor
<1>3. Ancestor(c, h) \in Chains
  <2>1. Len(Ancestor(c, h)) <= MaxHeight
    BY <1>1, <1>2, EpochAssumption, SMT
  <2>2. \A i \in 1..Len(Ancestor(c, h)) : Ancestor(c, h)[i] \in Labels(i)
    BY <1>1, <1>2, SMT
  <2>. QED  BY <1>2, <2>1, <2>2, ChainShape DEF B
<1>4. ASSUME NEW k \in 0..h PROVE Ancestor(Ancestor(c, h), k) = Ancestor(c, k)
  <2> DEFINE d == Ancestor(c, h)
  <2>1. d \in Seq(B) /\ Len(d) = h /\ \A i \in 1..h : d[i] = c[i]
    BY <1>2
  <2> HIDE DEF d
  <2>2. /\ Ancestor(d, k) \in Seq(B) /\ Len(Ancestor(d, k)) = k
        /\ \A i \in 1..k : Ancestor(d, k)[i] = d[i]
    BY <2>1, <1>1, SMT DEF Ancestor
  <2>3. /\ Ancestor(c, k) \in Seq(B) /\ Len(Ancestor(c, k)) = k
        /\ \A i \in 1..k : Ancestor(c, k)[i] = c[i]
    BY <1>1, <1>2, SMT
  <2>4. \A i \in 1..k : Ancestor(d, k)[i] = Ancestor(c, k)[i]
    BY <2>1, <2>2, <2>3, SMT
  <2>. QED  BY <2>2, <2>3, <2>4, SeqEqual DEF d
<1>. QED  BY <1>2, <1>3, <1>4

\* A chain a block longer, with a label of its height, is a chain.
LEMMA AppendShape ==
    ASSUME NEW c \in Chains, Len(c) < MaxHeight, NEW b \in Labels(Len(c) + 1)
    PROVE  Append(c, b) \in Chains
<1> DEFINE B == Branches \cup {None}
<1>1. /\ c \in Seq(B) /\ Len(c) \in Nat /\ Len(c) <= MaxHeight
      /\ \A i \in 1..Len(c) : c[i] \in Labels(i)
  BY ChainShape, LenProperties
<1>2. b \in B
  BY DEF Labels
<1> HIDE DEF B
<1>3. /\ Append(c, b) \in Seq(B) /\ Len(Append(c, b)) = Len(c) + 1
      /\ Append(c, b)[Len(c) + 1] = b
      /\ \A i \in 1..Len(c) : Append(c, b)[i] = c[i]
  BY <1>1, <1>2, AppendProperties, SMT
<1>4. \A i \in 1..(Len(c) + 1) : i \in 1..Len(c) \/ i = Len(c) + 1
  BY <1>1, SMT
<1>5. \A i \in 1..Len(Append(c, b)) : Append(c, b)[i] \in Labels(i)
  BY <1>1, <1>3, <1>4
<1>6. Len(Append(c, b)) <= MaxHeight
  BY <1>1, <1>3, EpochAssumption, SMT
<1>. QED  BY <1>3, <1>5, <1>6, ChainShape DEF B

\* The key the next block needs is a key of the cache, the block at the seed height.
LEMMA CurrentKey ==
    ASSUME NEW c \in Chains
    PROVE  GetRandomXKey(c) \in Keys
<1>1. Len(c) \in Nat
  BY ChainShape, LenProperties
<1>2. PICK s \in 0..Len(c) : s = RandomXSeedHeight(Len(c) + 1) /\ s % randomx_epoch_blocks = 0
  <2>1. PICK n \in Nat : n = Len(c) + 1 /\ n > 0
    BY <1>1, SMT
  <2>. QED  BY <1>1, <2>1, SeedHeight, SMT
<1>. QED  BY <1>2, AncestorShape, KeysAssumption DEF GetRandomXKey

\* Both keys that PrepareRandomXKeys names are keys of the cache, the current one first.
LEMMA PreparedKeys ==
    ASSUME NEW c \in Chains
    PROVE  /\ PrepareRandomXKeys(c) \in Seq(Keys)
           /\ PrepareRandomXKeys(c) # <<>>
           /\ Head(PrepareRandomXKeys(c)) = GetRandomXKey(c)
           /\ Len(PrepareRandomXKeys(c)) <= 2
<1>1. Len(c) \in Nat
  BY ChainShape, LenProperties
<1> DEFINE key_height == Len(c) - (Len(c) % randomx_epoch_blocks)
<1>2. key_height \in 0..Len(c) /\ key_height % randomx_epoch_blocks = 0
  <2>1. PICK p \in Nat : /\ p * randomx_epoch_blocks \in Nat
                         /\ p * randomx_epoch_blocks <= Len(c)
                         /\ key_height = p * randomx_epoch_blocks
    BY <1>1, EpochOf
  <2>2. (p * randomx_epoch_blocks) % randomx_epoch_blocks = 0
    BY EpochStart
  <2>. QED  BY <1>1, <2>1, <2>2, SMT
<1>3. Ancestor(c, key_height) \in Keys
  BY <1>2, AncestorShape, KeysAssumption
<1>4. GetRandomXKey(c) \in Keys
  BY CurrentKey
<1>5. \/ PrepareRandomXKeys(c) = <<GetRandomXKey(c)>>
      \/ PrepareRandomXKeys(c) = <<GetRandomXKey(c), Ancestor(c, key_height)>>
  BY DEF PrepareRandomXKeys
<1>6. \A k, l \in Keys : /\ <<k>> \in Seq(Keys) /\ <<k>> # <<>> /\ Head(<<k>>) = k /\ Len(<<k>>) = 1
                         /\ <<k, l>> \in Seq(Keys) /\ <<k, l>> # <<>> /\ Head(<<k, l>>) = k
                         /\ Len(<<k, l>>) = 2
  BY SMT
<1> HIDE DEF key_height
<1>7. CASE PrepareRandomXKeys(c) = <<GetRandomXKey(c)>>
  BY <1>4, <1>6, <1>7, SMT
<1>8. CASE PrepareRandomXKeys(c) = <<GetRandomXKey(c), Ancestor(c, key_height)>>
  BY <1>3, <1>4, <1>6, <1>8, SMT
<1>. QED  BY <1>5, <1>7, <1>8


\* Every tip from a key block to the block that needs its key prepares the key: within the
\* lag as the next key, and after it as the current one.
LEMMA TipsPrepare ==
    ASSUME NEW c \in Chains, NEW h \in 0..Len(c), GetRandomXKey(Ancestor(c, h)) # <<>>
    PROVE  LET key == GetRandomXKey(Ancestor(c, h))
           IN  /\ Len(key) + randomx_epoch_lag <= h + 1
               /\ \A i \in Len(key)..h : key \in Range(PrepareRandomXKeys(Ancestor(c, i)))
<1> DEFINE key == GetRandomXKey(Ancestor(c, h))
<1>0. Len(c) \in Nat /\ h \in Nat /\ h + 1 \in Nat /\ h + 1 > 0
  BY ChainShape, LenProperties, SMT
<1>a. PICK t \in Nat, l \in Nat : t = randomx_epoch_blocks /\ l = randomx_epoch_lag /\ t > l /\ l > 0
  BY EpochAssumption, SMT
<1>b. PICK n \in Nat : n = h + 1 /\ n > 0
  BY <1>0
<1>1. PICK s \in Nat : s = RandomXSeedHeight(n) /\ s <= h
  BY <1>0, <1>b, SeedHeight, SMT
<1>2. key = Ancestor(c, s) /\ Len(key) = s
  <2>1. Len(Ancestor(c, h)) = h
    BY AncestorShape
  <2>2. key = Ancestor(Ancestor(c, h), s)
    BY <1>1, <1>b, <2>1 DEF GetRandomXKey
  <2>3. s \in 0..h /\ s \in 0..Len(c)
    BY <1>0, <1>1, SMT
  <2>. QED  BY <2>2, <2>3, AncestorShape, SMT
<1>3. s # 0
  <2> SUFFICES ASSUME s = 0 PROVE FALSE
    OBVIOUS
  <2>. QED  BY <1>2, SMT DEF Ancestor
<1>4. PICK p \in Nat : s = p * t /\ s + l <= n /\ n < s + t + l
  BY <1>a, <1>1, <1>3, SeedHeight
<1>5. ASSUME NEW i \in s..h
      PROVE  key \in Range(PrepareRandomXKeys(Ancestor(c, i)))
  <2> DEFINE d == Ancestor(c, i)
             key_height == Len(d) - (Len(d) % randomx_epoch_blocks)
  <2>0. i \in Nat /\ i \in 0..Len(c) /\ s \in 0..i /\ s <= i /\ i <= h
    BY <1>0, <1>1, <1>5, SMT
  <2>1. Len(d) = i /\ Ancestor(d, s) = key
    BY <1>2, <2>0, AncestorShape
  <2>2. CASE i + 1 >= s + l
    <3>1. PICK m \in Nat : m = i + 1
      BY <2>0, SMT
    <3>2. s + l <= m /\ m < s + t + l
      BY <1>b, <1>4, <2>0, <2>2, <3>1, SMT
    <3>3. RandomXSeedHeight(m) = s
      BY <1>a, <1>4, <3>2, SeedHeightOf
    <3>4. GetRandomXKey(d) = key
      BY <2>1, <3>1, <3>3 DEF GetRandomXKey
    <3> HIDE DEF d, key, key_height
    <3>5. PrepareRandomXKeys(d) = <<key>> \/ PrepareRandomXKeys(d) = <<key, Ancestor(d, key_height)>>
      BY <3>4 DEF PrepareRandomXKeys, key_height
    <3>6. key \in Range(<<key>>) /\ key \in Range(<<key, Ancestor(d, key_height)>>)
      BY SMT DEF Range
    <3>. QED  BY <3>5, <3>6 DEF d, key
  <2>3. CASE i + 1 < s + l
    <3>1. s <= i /\ i < s + t
      BY <1>a, <2>0, <2>3, SMT
    <3>2. i % t = i - s
      <4>1. p * t <= i /\ i < p * t + t
        BY <1>4, <3>1
      <4>2. t > 0
        BY <1>a, SMT
      <4>3. i % t = i - p * t
        BY <2>0, <4>1, <4>2, DivUnique
      <4>. QED  BY <1>4, <4>3
    <3>3. key_height = s
      BY <1>a, <2>0, <2>1, <3>2, SMT
    <3>4. i < s + l
      BY <1>a, <2>0, <2>3, SMT
    <3> HIDE DEF d, key, key_height
    <3>5. PrepareRandomXKeys(d) = <<GetRandomXKey(d), Ancestor(d, key_height)>>
      <4>1. ~(key_height = 0 \/ Len(d) >= key_height + randomx_epoch_lag)
        BY <1>a, <1>3, <2>0, <2>1, <3>3, <3>4, SMT
      <4>. QED  BY <4>1 DEF PrepareRandomXKeys, key_height
    <3>6. key \in Range(<<GetRandomXKey(d), key>>)
      BY SMT DEF Range
    <3>. QED  BY <2>1, <3>3, <3>5, <3>6 DEF d, key
  <2>. QED  BY <1>a, <2>0, <2>2, <2>3, SMT
<1>6. Len(key) + randomx_epoch_lag <= h + 1
  BY <1>a, <1>b, <1>2, <1>4
<1>. QED  BY <1>2, <1>5, <1>6

\* KeyAnnounced is a fact about chains, whatever the cache does.
LEMMA ChainsAnnounce == chain \in Chains => KeyAnnounced
  BY TipsPrepare DEF KeyAnnounced

-----------------------------------------------------------------------------

\* Every step of the key schedule is a step of the cache, or leaves the cache alone.
LEMMA KeysStepCache ==
    ASSUME KeysTypeOK, [Next]_vars
    PROVE  [CacheNext]_cacheVars
<1>1. CASE ConnectTip \/ DisconnectTip
  BY <1>1 DEF ConnectTip, DisconnectTip, UpdateTip
<1>2. CASE PrepareNextKey
  <2>1. Head(preparing) \in Keys
    <3>1. preparing \in Seq(Keys) /\ preparing # <<>>
      BY <1>2 DEF PrepareNextKey, KeysTypeOK
    <3>. QED  BY <3>1, SMT
  <2>. QED  BY <1>2, <2>1 DEF PrepareNextKey, CacheNext
<1>3. CASE MinerDeriveKey
  BY <1>3 DEF MinerDeriveKey
<1>4. CASE MinerPrepareKey
  <2>1. miner_key \in Keys
    BY <1>4 DEF MinerPrepareKey, KeysTypeOK
  <2>. QED  BY <1>4, <2>1 DEF MinerPrepareKey, CacheNext
<1>5. CASE \/ \E build \in running, result \in BuildResults : FinishBuild(build, result)
           \/ \E t \in Threads : HashThread(t)
  BY <1>5 DEF CacheNext
<1>6. CASE UNCHANGED vars
  BY <1>6 DEF vars
<1>. QED  BY <1>1, <1>2, <1>3, <1>4, <1>5, <1>6 DEF Next

\* The keys that are handed on are keys of the cache.
LEMMA KeysStepTypes ==
    ASSUME KeysTypeOK, [Next]_vars
    PROVE  KeysTypeOK'
<1>1. CASE ConnectTip
  <2>1. PICK b \in Labels(Len(chain) + 1) : UpdateTip(Append(chain, b))
    BY <1>1 DEF ConnectTip
  <2>2. chain' \in Chains
    BY <1>1, <2>1, AppendShape DEF ConnectTip, UpdateTip, KeysTypeOK
  <2>. QED  BY <2>1, <2>2, PreparedKeys DEF UpdateTip, KeysTypeOK
<1>2. CASE DisconnectTip
  <2>1. chain \in Chains /\ chain # <<>> /\ chain \in Seq(Branches \cup {None})
    BY <1>2, ChainShape DEF DisconnectTip, KeysTypeOK
  <2>2. Len(chain) - 1 \in 0..Len(chain)
    BY <2>1, SMT
  <2>3. chain' \in Chains
    BY <1>2, <2>1, <2>2, AncestorShape DEF DisconnectTip, UpdateTip
  <2>. QED  BY <1>2, <2>3, PreparedKeys DEF DisconnectTip, UpdateTip, KeysTypeOK
<1>3. CASE PrepareNextKey
  <2>1. Tail(preparing) \in Seq(Keys)
    <3>1. preparing \in Seq(Keys) /\ preparing # <<>>
      BY <1>3 DEF PrepareNextKey, KeysTypeOK
    <3>. QED  BY <3>1, SMT
  <2>. QED  BY <1>3, <2>1 DEF PrepareNextKey, KeysTypeOK
<1>4. CASE MinerDeriveKey
  BY <1>4, CurrentKey DEF MinerDeriveKey, KeysTypeOK
<1>5. CASE MinerPrepareKey
  <2>1. interposed' \in BOOLEAN
    BY <1>5 DEF MinerPrepareKey
  <2>. QED  BY <1>5, <2>1 DEF MinerPrepareKey, KeysTypeOK
<1>6. CASE UNCHANGED keyVars
  BY <1>6 DEF keyVars, KeysTypeOK
<1>. QED  BY <1>1, <1>2, <1>3, <1>4, <1>5, <1>6 DEF Next, vars

\* What Prepare(key) does to the eviction order: entries of other keys keep their age or
\* leave, and the key's entry, if it has one, is the youngest.
LEMMA PrepareAges ==
    ASSUME CacheInv, AgesDistinct, NEW key \in Keys, Prepare(key)
    PROVE  /\ AgesDistinct'
           /\ \A e \in m_fast' : e.key = key => e.last_prepare = m_clock'
<1>0. m_clock \in Nat /\ m_fast \subseteq Entries
  BY SMT DEF CacheInv, CacheTypeOK
<1>a. \A e \in m_fast : e.last_prepare \in Nat
  BY <1>0, SMT DEF Entries
<1>b. \A e \in m_fast : e.last_prepare <= m_clock
  BY DEF AgesDistinct
<1>c. \A e, o \in m_fast : e.key = o.key \/ e.last_prepare = o.last_prepare => e = o
  BY DEF AgesDistinct
<1>1. CASE Refresh(key)
  <2> DEFINE touch(e) == IF e.key = key THEN [e EXCEPT !.last_prepare = m_clock + 1] ELSE e
  <2>1. m_fast' = {touch(e) : e \in m_fast} /\ m_clock' = m_clock + 1
    BY <1>1 DEF Refresh
  <2>2. \A e \in m_fast : /\ touch(e).key = e.key
                          /\ e.key = key => touch(e).last_prepare = m_clock + 1
                          /\ e.key # key => touch(e) = e
    BY <1>0 DEF Entries
  <2> HIDE DEF touch
  <2>3. ASSUME NEW e \in m_fast, NEW o \in m_fast,
               touch(e).key = touch(o).key \/ touch(e).last_prepare = touch(o).last_prepare
        PROVE  touch(e) = touch(o)
    <3>1. CASE e.key = o.key
      BY <1>c, <3>1
    <3>2. CASE e.key = key /\ o.key # key
      <4>1. touch(e).last_prepare = m_clock + 1 /\ touch(o).last_prepare <= m_clock /\ touch(o).last_prepare \in Nat
        BY <1>a, <1>b, <2>2, <3>2
      <4>. QED  BY <1>0, <2>2, <2>3, <3>2, <4>1, SMT
    <3>3. CASE o.key = key /\ e.key # key
      <4>1. touch(o).last_prepare = m_clock + 1 /\ touch(e).last_prepare <= m_clock /\ touch(e).last_prepare \in Nat
        BY <1>a, <1>b, <2>2, <3>3
      <4>. QED  BY <1>0, <2>2, <2>3, <3>3, <4>1, SMT
    <3>4. CASE e.key # key /\ o.key # key
      BY <1>c, <2>2, <2>3, <3>4
    <3>. QED  BY <3>1, <3>2, <3>3, <3>4
  <2>4. \A e \in m_fast : touch(e).last_prepare <= m_clock + 1
    BY <1>0, <1>a, <1>b, <2>2, SMT
  <2>5. \A x \in m_fast' : \E e \in m_fast : x = touch(e)
    BY <2>1
  <2>6. \A x, y \in m_fast' : x.key = y.key \/ x.last_prepare = y.last_prepare => x = y
    <3> SUFFICES ASSUME NEW x \in m_fast', NEW y \in m_fast',
                        x.key = y.key \/ x.last_prepare = y.last_prepare
                 PROVE  x = y
      OBVIOUS
    <3>1. PICK e \in m_fast, o \in m_fast : x = touch(e) /\ y = touch(o)
      BY <2>5
    <3>. QED  BY <2>3, <3>1
  <2>7. \A x \in m_fast' : x.last_prepare <= m_clock'
    BY <2>1, <2>4, <2>5
  <2>8. \A x \in m_fast' : x.key = key => x.last_prepare = m_clock'
    BY <2>1, <2>2, <2>5
  <2>. QED  BY <2>6, <2>7, <2>8 DEF AgesDistinct
<1>2. ASSUME FindFast(key) = {}, NEW STATE evicted, Admit(key, evicted)
      PROVE  /\ AgesDistinct'
             /\ \A e \in m_fast' : e.key = key => e.last_prepare = m_clock'
  <2> DEFINE new == [key |-> key, last_prepare |-> m_clock + 1,
                     build |-> m_clock + 1, future |-> "building"]
  <2>1. m_fast' = (m_fast \ evicted) \cup {new} /\ m_clock' = m_clock + 1
    BY <1>2 DEF Admit
  <2>2. new.key = key /\ new.last_prepare = m_clock + 1
    OBVIOUS
  <2> HIDE DEF new
  <2>3. \A e \in m_fast : e.key # key
    BY <1>2 DEF FindFast
  <2>4. \A e \in m_fast : e.last_prepare # m_clock + 1 /\ e.last_prepare <= m_clock + 1
    BY <1>0, <1>a, <1>b, SMT
  <2>5. m_clock + 1 <= m_clock + 1
    BY <1>0, SMT
  <2>6. \A e \in m_fast' : e = new \/ e \in m_fast
    BY <2>1
  <2>7. \A e, o \in m_fast' : e.key = o.key \/ e.last_prepare = o.last_prepare => e = o
    BY <1>c, <2>2, <2>3, <2>4, <2>6
  <2>8. \A e \in m_fast' : e.last_prepare <= m_clock'
    BY <2>1, <2>2, <2>4, <2>5, <2>6
  <2>9. \A e \in m_fast' : e.key = key => e.last_prepare = m_clock'
    BY <2>1, <2>2, <2>3, <2>6
  <2>. QED  BY <2>7, <2>8, <2>9 DEF AgesDistinct
<1>3. ASSUME FindFast(key) = {}, UNCHANGED <<m_clock, m_fast>>
      PROVE  /\ AgesDistinct'
             /\ \A e \in m_fast' : e.key = key => e.last_prepare = m_clock'
  BY <1>3 DEF AgesDistinct, FindFast
<1>. QED  BY <1>1, <1>2, <1>3 DEF Prepare, AdmitNew

\* A build that ends, and the steps of a hashing thread, leave every entry its key and its
\* age; they may only remove entries.
LEMMA OthersKeepAges ==
    ASSUME CacheInv, NEW build, NEW result, NEW t,
           FinishBuild(build, result) \/ HashThread(t)
    PROVE  /\ m_clock' = m_clock
           /\ \A x \in m_fast' : \E e \in m_fast : x.key = e.key /\ x.last_prepare = e.last_prepare
           /\ AgesDistinct => AgesDistinct'
<1>1. CASE FinishBuild(build, result)
  <2> DEFINE done(e) == IF e.build = build THEN [e EXCEPT !.future = result] ELSE e
  <2>1. m_fast' = {done(e) : e \in m_fast} /\ m_clock' = m_clock
    BY <1>1 DEF FinishBuild
  <2>2. \A e \in m_fast : done(e).key = e.key /\ done(e).last_prepare = e.last_prepare
    BY DEF CacheInv, CacheTypeOK, Entries
  <2> HIDE DEF done
  <2>3. \A x \in m_fast' : \E e \in m_fast : x = done(e)
    BY <2>1
  <2>4. ASSUME AgesDistinct PROVE AgesDistinct'
    <3>1. \A x, y \in m_fast' : x.key = y.key \/ x.last_prepare = y.last_prepare => x = y
      <4> SUFFICES ASSUME NEW x \in m_fast', NEW y \in m_fast',
                          x.key = y.key \/ x.last_prepare = y.last_prepare
                   PROVE  x = y
        OBVIOUS
      <4>1. PICK e \in m_fast, o \in m_fast : x = done(e) /\ y = done(o)
        BY <2>3
      <4>2. e.key = o.key \/ e.last_prepare = o.last_prepare
        BY <2>2, <4>1
      <4>3. e = o
        BY <2>4, <4>2 DEF AgesDistinct
      <4>. QED  BY <4>1, <4>3
    <3>2. \A x \in m_fast' : x.last_prepare <= m_clock'
      BY <2>1, <2>2, <2>3, <2>4, SMT DEF AgesDistinct
    <3>. QED  BY <3>1, <3>2 DEF AgesDistinct
  <2>. QED  BY <2>1, <2>2, <2>3, <2>4
<1>2. CASE HashThread(t)
  <2>1. m_clock' = m_clock /\ m_fast' \subseteq m_fast
    BY <1>2 DEF HashThread, GetFast, GetStep, LightEnter, LightBuilt, LightFailed, HashDone
  <2>. QED  BY <2>1 DEF AgesDistinct
<1>. QED  BY <1>1, <1>2

\* What is left of one key, and of two.
LEMMA ShortTail ==
    ASSUME NEW S, NEW q \in Seq(S), q # <<>>
    PROVE  /\ Len(q) = 1 => Tail(q) = <<>>
           /\ Len(q) <= 2 /\ Tail(q) # <<>> => Len(Tail(q)) = 1
<1>1. Tail(q) \in Seq(S) /\ Len(Tail(q)) = Len(q) - 1 /\ Len(q) \in Nat /\ Len(Tail(q)) \in Nat
  BY HeadTailProperties, LenProperties
<1>2. Len(Tail(q)) = 0 <=> Tail(q) = <<>>
  BY <1>1, EmptySeq
<1>3. Len(q) = 1 => Len(Tail(q)) = 0
  BY <1>1, SMT
<1>4. Len(q) <= 2 /\ Len(Tail(q)) # 0 => Len(Tail(q)) = 1
  BY <1>1, SMT
<1>. QED  BY <1>2, <1>3, <1>4

\* The order of UpdateTip's preparations is kept by every step.
LEMMA KeysStepOrder ==
    ASSUME KeysInv, [Next]_vars
    PROVE  (AgesDistinct /\ FirstKeyYoungest)'
<1>0. CacheInv /\ KeysTypeOK /\ AgesDistinct /\ FirstKeyYoungest
  BY DEF KeysInv
<1>1. CASE ConnectTip \/ DisconnectTip
  <2>1. UNCHANGED cacheVars /\ preparing' = PrepareRandomXKeys(chain)'
    BY <1>1 DEF ConnectTip, DisconnectTip, UpdateTip, PrepareRandomXKeys, GetRandomXKey, Ancestor
  <2>. QED  BY <1>0, <2>1 DEF cacheVars, AgesDistinct, FirstKeyYoungest
<1>2. CASE PrepareNextKey
  <2>1. preparing # <<>> /\ preparing \in Seq(Keys) /\ Prepare(Head(preparing))
    BY <1>0, <1>2 DEF PrepareNextKey, KeysTypeOK
  <2>2. Head(preparing) \in Keys
    BY <2>1, SMT
  <2>3. /\ AgesDistinct'
        /\ \A e \in m_fast' : e.key = Head(preparing) => e.last_prepare = m_clock'
    BY <1>0, <2>1, <2>2, PrepareAges
  <2>4. preparing' = Tail(preparing) /\ chain' = chain
    BY <1>2 DEF PrepareNextKey
  <2>5. CASE preparing = PrepareRandomXKeys(chain)
    <3>1. Head(preparing) = GetRandomXKey(chain) /\ Len(preparing) <= 2
      BY <1>0, <2>5, PreparedKeys DEF KeysTypeOK
    <3>2. Tail(preparing) # <<>> => Len(Tail(preparing)) = 1
      BY <2>1, <3>1, ShortTail
    <3>3. \A e \in FindFast(GetRandomXKey(chain))' : e.last_prepare = m_clock'
      BY <2>3, <2>4, <3>1 DEF FindFast, GetRandomXKey, Ancestor
    <3>. QED  BY <2>3, <2>4, <3>2, <3>3 DEF FirstKeyYoungest
  <2>6. CASE Len(preparing) = 1
    <3>1. Tail(preparing) = <<>>
      BY <2>1, <2>6, ShortTail
    <3>. QED  BY <2>3, <2>4, <3>1 DEF FirstKeyYoungest
  <2>. QED  BY <1>0, <2>1, <2>5, <2>6 DEF FirstKeyYoungest
<1>3. CASE MinerDeriveKey
  <2>1. UNCHANGED <<cacheVars, chain, preparing, interposed>>
    BY <1>3 DEF MinerDeriveKey
  <2>. QED  BY <1>0, <2>1 DEF cacheVars, AgesDistinct, FirstKeyYoungest, FindFast,
                  PrepareRandomXKeys, GetRandomXKey, Ancestor
<1>4. CASE MinerPrepareKey
  <2>1. miner_key \in Keys /\ Prepare(miner_key)
    BY <1>0, <1>4 DEF MinerPrepareKey, KeysTypeOK
  <2>2. AgesDistinct'
    BY <1>0, <2>1, PrepareAges
  <2>3. interposed' = (preparing # <<>>) /\ preparing' = preparing /\ chain' = chain
    BY <1>4 DEF MinerPrepareKey
  <2>. QED  BY <1>0, <2>2, <2>3 DEF FirstKeyYoungest, PrepareRandomXKeys, GetRandomXKey, Ancestor
<1>5. CASE /\ \/ \E build \in running, result \in BuildResults : FinishBuild(build, result)
              \/ \E t \in Threads : HashThread(t)
           /\ UNCHANGED keyVars
  <2>1. /\ m_clock' = m_clock
        /\ \A x \in m_fast' : \E e \in m_fast : x.key = e.key /\ x.last_prepare = e.last_prepare
        /\ AgesDistinct'
    BY <1>0, <1>5, OthersKeepAges
  <2>2. UNCHANGED <<chain, preparing, interposed>>
    BY <1>5 DEF keyVars
  <2>3. (\A e \in FindFast(GetRandomXKey(chain)) : e.last_prepare = m_clock)
           => (\A e \in FindFast(GetRandomXKey(chain))' : e.last_prepare = m_clock')
    BY <2>1, <2>2 DEF FindFast, GetRandomXKey, Ancestor
  <2>. QED  BY <1>0, <2>1, <2>2, <2>3 DEF FirstKeyYoungest, PrepareRandomXKeys, GetRandomXKey, Ancestor
<1>6. CASE UNCHANGED vars
  BY <1>0, <1>6 DEF vars, cacheVars, keyVars, AgesDistinct, FirstKeyYoungest, FindFast,
               PrepareRandomXKeys, GetRandomXKey, Ancestor
<1>. QED  BY <1>1, <1>2, <1>3, <1>4, <1>5, <1>6 DEF Next

-----------------------------------------------------------------------------

LEMMA KeysStart == Init => KeysInv
<1> SUFFICES ASSUME Init PROVE KeysInv
  OBVIOUS
<1>1. CacheInv
  BY CacheStart DEF Init
<1>2. KeysTypeOK
  BY PreparedKeys DEF Init, KeysTypeOK
<1>3. AgesDistinct
  BY DEF Init, CacheInit, AgesDistinct
<1>4. FirstKeyYoungest
  BY DEF Init, FirstKeyYoungest
<1>. QED  BY <1>1, <1>2, <1>3, <1>4 DEF KeysInv

LEMMA KeysStep == ASSUME KeysInv, [Next]_vars PROVE KeysInv'
<1>1. CacheInv'
  BY KeysStepCache, CacheStep DEF KeysInv
<1>2. KeysTypeOK'
  BY KeysStepTypes DEF KeysInv
<1>. QED  BY <1>1, <1>2, KeysStepOrder DEF KeysInv

\* UpdateTip evicts the current key's dataset only for a build that still runs in the other
\* slot, or after the miner prepared a key of its own.
LEMMA StepKeepsDataset ==
    ASSUME KeysInv, PrepareNextKey, ~interposed, NEW e \in FindFast(GetRandomXKey(chain)),
           \A o \in m_fast : Ready(o)
    PROVE  \E o \in m_fast' : o.key = e.key
<1> DEFINE key == Head(preparing)
<1>1. e \in m_fast /\ e.key = GetRandomXKey(chain) /\ Prepare(key) /\ preparing # <<>>
  BY DEF FindFast, PrepareNextKey
<1>2. CASE Refresh(key)
  <2>1. e.key = key => [e EXCEPT !.last_prepare = m_clock + 1] \in m_fast'
    BY <1>1, <1>2 DEF Refresh
  <2>2. e.key # key => e \in m_fast'
    BY <1>1, <1>2 DEF Refresh
  <2>3. [e EXCEPT !.last_prepare = m_clock + 1].key = e.key
    BY <1>1 DEF KeysInv, CacheInv, CacheTypeOK, Entries
  <2>. QED  BY <2>1, <2>2, <2>3
<1>3. CASE Admit(key, {})
  BY <1>1, <1>3 DEF Admit
<1>4. CASE FindFast(key) = {} /\ Cardinality(m_fast) = MAX_FAST_CONTEXTS /\ Admit(key, Oldest)
  <2>1. CASE e \notin Oldest
    BY <1>1, <1>4, <2>1 DEF Admit
  <2>2. CASE e \in Oldest
    <3>1. key # e.key
      BY <1>1, <1>4 DEF FindFast
    <3>2. preparing # PrepareRandomXKeys(chain)
      BY <1>1, <3>1, PreparedKeys DEF KeysInv, KeysTypeOK
    <3>3. e.last_prepare = m_clock
      BY <1>1, <3>2 DEF KeysInv, FirstKeyYoungest
    <3>4. PICK o \in m_fast : o # e
      <4> SUFFICES ASSUME \A o \in m_fast : o = e PROVE FALSE
        OBVIOUS
      <4>1. m_fast = {e}
        BY <1>1
      <4>2. Cardinality(m_fast) = 1
        BY <4>1, FS_Singleton
      <4>. QED  BY <1>4, <4>2, SMT DEF MAX_FAST_CONTEXTS
    <3>5. e.last_prepare <= o.last_prepare
      BY <2>2, <3>4 DEF Oldest
    <3>6. o.last_prepare <= m_clock
      BY <3>4 DEF KeysInv, AgesDistinct
    <3>7. m_clock \in Nat /\ o.last_prepare \in Nat
      BY <3>4, SMT DEF KeysInv, CacheInv, CacheTypeOK, Entries
    <3>8. o.last_prepare = e.last_prepare
      BY <3>3, <3>5, <3>6, <3>7, SMT
    <3>. QED  BY <1>1, <3>4, <3>8 DEF KeysInv, AgesDistinct
  <2>. QED  BY <2>1, <2>2
<1>5. CASE m_fast' = m_fast
  BY <1>1, <1>5
<1>. QED  BY <1>1, <1>2, <1>3, <1>4, <1>5 DEF Prepare, AdmitNew

-----------------------------------------------------------------------------

\* The inductive invariant of the cache under the key schedule.
THEOREM KeysInvariance == Spec => []KeysInv
<1>. QED  BY KeysStart, KeysStep, PTL DEF Spec

\* The cache under UpdateTip, start-up and the miner takes only steps of the cache alone:
\* what they prepare are keys, however the chain reorganises (pow.cpp, RandomXContextCache).
THEOREM ScheduleUsesCache == Spec => CacheInit /\ [][CacheNext]_cacheVars
<1>1. Init => CacheInit
  BY DEF Init
<1>2. KeysInv /\ [Next]_vars => [CacheNext]_cacheVars
  BY KeysStepCache DEF KeysInv
<1>. QED  BY <1>1, <1>2, KeysInvariance, PTL DEF Spec

\* So the schedule keeps the bound on outstanding dataset builds and hashes with the right
\* contexts.
THEOREM ScheduleKeepsCache == Spec => [](OutstandingBuildsBounded /\ HashUsesItsKey)
<1>1. KeysInv => OutstandingBuildsBounded /\ HashUsesItsKey
  BY InvBoundsBuilds, InvNamesHashes DEF KeysInv
<1>. QED  BY <1>1, KeysInvariance, PTL

\* For every epoch and lag, a key is announced by every tip from its key block on before a
\* block needs it (RandomXSeedHeight with PrepareRandomXKeys).
THEOREM KeysAlwaysAnnounced == Spec => []KeyAnnounced
<1>1. KeysInv => KeyAnnounced
  BY ChainsAnnounce DEF KeysInv, KeysTypeOK
<1>. QED  BY <1>1, KeysInvariance, PTL

\* UpdateTip never gives up the ready dataset of the current key for the next one, but for
\* an unfinished build or a key of the miner in between (PrepareRandomXKeys with Prepare).
THEOREM CurrentDatasetAlwaysKept == Spec => CurrentDatasetKept
<1> DEFINE Kept == PrepareNextKey /\ ~interposed =>
                     \A e \in FindFast(GetRandomXKey(chain)) :
                         \/ \E o \in m_fast' : o.key = e.key
                         \/ \E o \in m_fast : ~Ready(o)
<1>1. KeysInv /\ [Next]_vars => [Kept]_vars
  BY StepKeepsDataset
<1>. QED  BY <1>1, KeysInvariance, PTL DEF Spec, CurrentDatasetKept

=============================================================================

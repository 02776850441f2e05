---------------------------- MODULE RandomXCache ----------------------------
(***************************************************************************)
(* RandomXContextCache (crypto/randomx_cache.h) and the callers in pow.cpp *)
(* that reach it.  The cache keeps trusted FAST preparation (m_fast, under *)
(* m_fast_mutex) apart from on-demand LIGHT hashing (m_light, under        *)
(* m_light_mutex).                                                         *)
(*                                                                         *)
(* Each critical section is one action.  A FAST build runs as its own      *)
(* task; a LIGHT build runs in the hashing thread with m_light_mutex held, *)
(* so the two ends of it are two actions of that thread.  The vector       *)
(* m_fast is a set of entries: its order is never observed, because        *)
(* FindFast looks up by key and the eviction scan compares last_prepare.   *)
(* The hash itself is not computed: a context is the pair of its key and   *)
(* its memory mode.                                                        *)
(***************************************************************************)
EXTENDS Integers, FiniteSets

CONSTANTS Keys,              \* RandomX keys callers may ask for
          Threads,           \* threads that hash
          None,              \* a null ContextPtr, a free mutex, a zero uint256
          MaxClock           \* bound on m_clock (unbounded in the code)

ASSUME CacheAssumption ==
    /\ MaxClock \in Nat
    /\ None \notin Keys
    /\ None \notin Threads
    /\ None \notin Keys \X {"FAST", "LIGHT"}

\* static constexpr size_t MAX_FAST_CONTEXTS{2}
MAX_FAST_CONTEXTS == 2

VARIABLES m_clock,           \* preparation counter
          m_fast,            \* entries: key, last_prepare, build, state of the future
          running,           \* build numbers of the std::async tasks not finished
          m_light,           \* the LIGHT context, or None
          m_light_key,       \* the key m_light was last built for
          m_light_mutex,     \* the thread holding it, or None when free
          pc, want, got      \* per hashing thread: control, key asked, context leased

lightVars == <<m_light, m_light_key, m_light_mutex>>
threadVars == <<pc, want, got>>
cacheVars == <<m_clock, m_fast, running, lightVars, threadVars>>

Contexts == Keys \X {"FAST", "LIGHT"}
KeyOf(context) == context[1]

\* What MakeRandomXContext(key, FAST) can end with: the dataset, the LIGHT
\* fallback taken when the dataset cannot be had, or the fallback's exception.
BuildResults == {"FAST", "LIGHT", "failed"}
Entries == [key : Keys, last_prepare : 1..MaxClock, build : 1..MaxClock,
            future : BuildResults \cup {"building"}]

FindFast(key) == {e \in m_fast : e.key = key}
Ready(e) == e.future # "building"

CacheInit ==
    /\ m_clock = 0
    /\ m_fast = {}
    /\ running = {}
    /\ m_light = None
    /\ m_light_key = None
    /\ m_light_mutex = None
    /\ pc = [t \in Threads |-> "idle"]
    /\ want = [t \in Threads |-> None]
    /\ got = [t \in Threads |-> None]

-----------------------------------------------------------------------------
(* Prepare(key, FAST)                                                      *)

\* Mutant: preparing a known key leaves its place in the eviction order.
RefreshForgotten(key) ==
    /\ FindFast(key) # {}
    /\ m_clock' = m_clock + 1
    /\ UNCHANGED <<m_fast, running>>

\* The entry is already there: only its place in the eviction order changes.
Refresh(key) ==
    /\ FindFast(key) # {}
    /\ m_clock' = m_clock + 1
    /\ m_fast' = {IF e.key = key THEN [e EXCEPT !.last_prepare = m_clock + 1] ELSE e
                     : e \in m_fast}
    /\ UNCHANGED running

Admit(key, evicted) ==
    /\ m_clock' = m_clock + 1
    /\ running' = running \cup {m_clock + 1}
    /\ m_fast' = (m_fast \ evicted) \cup
                   {[key |-> key, last_prepare |-> m_clock + 1,
                     build |-> m_clock + 1, future |-> "building"]}

\* Mutant: the eviction scan without its Ready test.
OldestWithUnfinished == {e \in m_fast : \A o \in m_fast : e.last_prepare <= o.last_prepare}

\* The entry the eviction scan stops at: the ready one prepared longest ago.
Oldest ==
    {e \in m_fast : Ready(e) /\ \A o \in m_fast : Ready(o) => e.last_prepare <= o.last_prepare}

\* Room left, one ready entry to evict, or (no effect) every entry unfinished.
AdmitNew(key) ==
    /\ FindFast(key) = {}
    /\ \/ Cardinality(m_fast) # MAX_FAST_CONTEXTS /\ Admit(key, {})
       \/ Cardinality(m_fast) = MAX_FAST_CONTEXTS /\ Oldest # {} /\ Admit(key, Oldest)
       \/ /\ Cardinality(m_fast) = MAX_FAST_CONTEXTS /\ Oldest = {}
          /\ UNCHANGED <<m_clock, m_fast, running>>

Prepare(key) ==
    /\ m_clock < MaxClock
    /\ Refresh(key) \/ AdmitNew(key)
    /\ UNCHANGED <<lightVars, threadVars>>

\* A std::async task returns or throws; its shared_future becomes ready.
FinishBuild(build, result) ==
    /\ build \in running
    /\ running' = running \ {build}
    /\ m_fast' = {IF e.build = build THEN [e EXCEPT !.future = result] ELSE e : e \in m_fast}
    /\ UNCHANGED <<m_clock, lightVars, threadVars>>

-----------------------------------------------------------------------------
(* Get(key, prefer_fast) with prefer_fast = randomx_fast_mode = TRUE       *)

\* The first critical section.  A ready FAST entry is leased; one whose build
\* failed is erased, and the request goes on to LIGHT.
GetFast(t, key) ==
    /\ pc[t] = "idle"
    /\ want' = [want EXCEPT ![t] = key]
    /\ \/ \E e \in FindFast(key) :
            /\ e.future \in {"FAST", "LIGHT"}
            /\ got' = [got EXCEPT ![t] = <<key, e.future>>]
            /\ pc' = [pc EXCEPT ![t] = "hash"]
            /\ UNCHANGED m_fast
       \/ /\ \A e \in FindFast(key) : e.future \in {"building", "failed"}
          /\ m_fast' = {e \in m_fast : ~(e.key = key /\ e.future = "failed")}
          /\ pc' = [pc EXCEPT ![t] = "light"]
          /\ UNCHANGED got
    /\ UNCHANGED <<m_clock, running, lightVars>>

\* Mutant: the new key is recorded, and the old context kept, before the factory runs.
LightEnterKeyFirst(t) ==
    /\ pc[t] = "light"
    /\ m_light_mutex = None
    /\ IF m_light # None /\ want[t] = m_light_key
         THEN /\ got' = [got EXCEPT ![t] = m_light]
              /\ pc' = [pc EXCEPT ![t] = "hash"]
              /\ UNCHANGED <<m_light_key, m_light_mutex>>
         ELSE /\ m_light_key' = want[t]
              /\ m_light_mutex' = t
              /\ pc' = [pc EXCEPT ![t] = "build"]
              /\ UNCHANGED got
    /\ UNCHANGED <<m_clock, m_fast, running, m_light, want>>

\* m_light_mutex is taken; the single LIGHT entry serves its own key only, and
\* is dropped before a build for another key begins.
LightEnter(t) ==
    /\ pc[t] = "light"
    /\ m_light_mutex = None
    /\ IF m_light # None /\ want[t] = m_light_key
         THEN /\ got' = [got EXCEPT ![t] = m_light]
              /\ pc' = [pc EXCEPT ![t] = "hash"]
              /\ UNCHANGED <<m_light, m_light_mutex>>
         ELSE /\ m_light' = None
              /\ m_light_mutex' = t
              /\ pc' = [pc EXCEPT ![t] = "build"]
              /\ UNCHANGED got
    /\ UNCHANGED <<m_clock, m_fast, running, m_light_key, want>>

\* The factory returned: the context, then its key, are stored.
LightBuilt(t) ==
    /\ pc[t] = "build"
    /\ m_light' = <<want[t], "LIGHT">>
    /\ m_light_key' = want[t]
    /\ got' = [got EXCEPT ![t] = <<want[t], "LIGHT">>]
    /\ pc' = [pc EXCEPT ![t] = "hash"]
    /\ m_light_mutex' = None
    /\ UNCHANGED <<m_clock, m_fast, running, want>>

\* Mutant: the exception leaves Get with m_light_mutex held.
LightFailedStillLocked(t) ==
    /\ pc[t] = "build"
    /\ pc' = [pc EXCEPT ![t] = "idle"]
    /\ want' = [want EXCEPT ![t] = None]
    /\ UNCHANGED <<m_clock, m_fast, running, lightVars, got>>

\* The factory threw: m_light stays null, m_light_key keeps the old key, and
\* the exception leaves Get.
LightFailed(t) ==
    /\ pc[t] = "build"
    /\ m_light_mutex' = None
    /\ pc' = [pc EXCEPT ![t] = "idle"]
    /\ want' = [want EXCEPT ![t] = None]
    /\ UNCHANGED <<m_clock, m_fast, running, m_light, m_light_key, got>>

\* GetPoWHash drops its lease when Calculate has returned.
HashDone(t) ==
    /\ pc[t] = "hash"
    /\ pc' = [pc EXCEPT ![t] = "idle"]
    /\ got' = [got EXCEPT ![t] = None]
    /\ want' = [want EXCEPT ![t] = None]
    /\ UNCHANGED <<m_clock, m_fast, running, lightVars>>

GetStep(t) == LightEnter(t) \/ LightBuilt(t) \/ LightFailed(t) \/ HashDone(t)
HashThread(t) == (\E key \in Keys : GetFast(t, key)) \/ GetStep(t)

CacheNext ==
    \/ \E key \in Keys : Prepare(key)
    \/ \E build \in running, result \in BuildResults : FinishBuild(build, result)
    \/ \E t \in Threads : HashThread(t)

\* A thread inside Get or Calculate keeps running, and std::mutex hands
\* m_light_mutex on.  FAST builds get no fairness: one may take for ever.
HashFairness == \A t \in Threads : SF_cacheVars(LightEnter(t)) /\ WF_cacheVars(GetStep(t))

CacheSpec == CacheInit /\ [][CacheNext]_cacheVars /\ HashFairness

-----------------------------------------------------------------------------
(* Properties                                                              *)

CacheTypeOK ==
    /\ m_clock \in 0..MaxClock
    /\ m_fast \subseteq Entries
    /\ running \subseteq 1..m_clock
    /\ m_light \in Contexts \cup {None}
    /\ m_light_key \in Keys \cup {None}
    /\ m_light_mutex \in Threads \cup {None}
    /\ pc \in [Threads -> {"idle", "light", "build", "hash"}]
    /\ want \in [Threads -> Keys \cup {None}]
    /\ got \in [Threads -> Contexts \cup {None}]

\* However many keys are prepared, and however builds and failed lookups
\* interleave, at most MAX_FAST_CONTEXTS dataset builds are outstanding:
\* eviction and the erasure of failed entries in Get never lose sight of a
\* task that still runs (comment before Prepare, randomx_cache.h:80).
OutstandingBuildsBounded == Cardinality(running) <= MAX_FAST_CONTEXTS

\* A hash is computed with the context of the key it was asked for, although
\* the LIGHT slot is shared, emptied before a rebuild and left empty, under its
\* old key, by a failed one (Get, randomx_cache.h:70).
HashUsesItsKey == \A t \in Threads : pc[t] = "hash" => KeyOf(got[t]) = want[t]

\* A hash request always ends, by a context or an exception, even if no FAST
\* build ever finishes (Get never waits for a FAST build, randomx_cache.h:67).
EveryHashEnds == \A t \in Threads : pc[t] # "idle" ~> pc[t] = "idle"

=============================================================================

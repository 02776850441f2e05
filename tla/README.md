# Verification of ConnectCoin's own machinery in TLA+

ConnectCoin is a fork of Bitcoin Core. Most of its C++ is inherited; what is its
own is a second kind of output, *pay to connect* (P2C), and RandomX proof of
work. A P2C output is a bounty on a domain: it is spent by a TLS 1.3 transcript
of a connection to that domain, bound to the spending transaction by a challenge
in the ClientHello. Around this the fork adds a page and an RPC that create
bounties, a wallet worker that claims them automatically, a node catalog of open
bounties, a cache of RandomX datasets with its key schedule, a CPU miner, and a
headers synchronisation that has to know the key of every header it checks. These
parts are concurrent and, in the case of the worker, persistent. They are the
subject of this development.

All paths below are relative to `src/src/`.

## 1. The parts and how they interact

| part | what is hard about it | modules |
|---|---|---|
| Bounty creation batch: `wallet/p2c.cpp`, coin locks of `wallet/wallet.cpp` | locks owned by an address that may be reused, partial commits, the user's own locks | `P2CTransactionBatch` |
| RSA probe: `wallet/p2c_tls.cpp`, `wallet/p2c_tls_lifecycle.h` | detached threads against the shutdown of the process | `P2CRsaProbe` |
| Creation page: `qt/p2ccreatedialog.cpp` | nested event loops in which the page or its wallet disappears | `P2CCreateDialog` |
| Automatic claim worker: `wallet/p2c_worker_impl.cpp` | a crash between two durable effects, failing writes, two threads on one challenge | `P2CWorker`, `ClaimLedger`, `P2CWorkerLedger` |
| Claim scheduler: `Refresh`, `Next` and `Connect` of the same file | five ordered indexes with copied keys, groups retired under the threads that hold them | `P2CScheduler` |
| Connection admission: `wallet/p2c_admission.h` and `Connect` | lost wake-ups, dangling tickets, leaked reservations | `P2CAdmission` |
| Recovery policy: `wallet/p2c_recovery_policy.h` | pacing across evictions and a clock that lags | `P2CRecoveryPolicy` |
| Connection rate: `wallet/p2c_connection_rate.h` | banked credit, late starts | `P2CConnectionRate` |
| Bounty catalog: `node/p2c_bounty_catalog.h`, `node/interfaces.cpp` | reorganisations during a scan, failures inside a block | `P2CBountyCatalog` |
| RandomX cache: `crypto/randomx_cache.h` | eviction against unfinished builds, exceptions | `RandomXCache` |
| RandomX key schedule: `pow.cpp`, `validation.cpp` | lag arithmetic, two slots for three users | `RandomXKeys` |
| CPU miner: `node/cpu_miner_impl.cpp`, `node/miner.cpp` | stops and exceptions at every point, stale solutions, nonce wrap | `CpuMiner` |
| Retargeting: `pow.cpp`, `arith_uint256.cpp`, `chain.cpp` | overflow and rounding | `Difficulty` |
| Headers synchronisation: `headerssync.cpp`, `net_processing.cpp` | two walks over a peer's chain, each with its own keys; throttled requests | `HeadersSync`, `PeerHeaders` |

The wallet creates bounties through the page, confirmed blocks bring them into the
catalog, and the worker of another wallet reads the catalog, chooses a bounty
(scheduler), waits for its turn (admission, rate, recovery policy), connects, and
submits the proof. Blocks are hashed by the miner and checked by validation and by
the headers synchronisation, all with datasets of the cache for keys of the schedule.

Correctness, as far as these parts decide it, is this: expensive work (a proof, a
dataset, a nonce range) is not lost and not repeated; what was made durable can be
read back; every thread can be stopped; a bounded resource stays bounded; coins
reserved for one purpose return or are spent for it; and what one part hands to
another (snapshot, key, solution, header) is consistent with the chain it was
computed from. `PROJECT.json` lists the hazards line by line with the properties
that would catch each.

## 2. Modules

    P2CTransactionBatch + P2CRsaProbe <--- P2CCreateDialog   (EXTENDS both; the page also
                                                              implements the batch specification)
    P2CWorker <--- P2CWorkerLedger ---> ClaimLedger          (INSTANCE: refinement)
    P2CScheduler
    P2CRecoveryPolicy <--- P2CAdmission                      (EXTENDS: threads and the gate)
    P2CConnectionRate
    P2CBountyCatalog
    RandomXCache <--- RandomXKeys                            (EXTENDS: keys and the cache)
    CpuMiner
    Difficulty <--- HeadersSync <--- PeerHeaders             (EXTENDS)

Each run has an `MC*` module with the values of its constants. Operators commented
"Mutant:" are plausible mistakes in the operator that follows; no specification
uses them. Proofs are in modules of their own, named `*Proofs`.

**P2CTransactionBatch.** One action per operation under `cs_wallet`: preparing a
batch, adding the alternative with the other signature mask, selecting, `Commit`,
one transaction at a time, with the failure of any of them, and destruction. The
wallet knows a batch by its address only, and the allocator gives the address of a
destroyed batch to the next one as early as it can. The user locks, unlocks and
spends coins at will (`Contested` bounds which ones). A commit that
fails leaves the transaction it failed at in the wallet or not, for `AddToWallet` may
throw before or after it took it. What is spent stays spent: abandoned and conflicted
transactions are left out.

**P2CRsaProbe.** A probe thread touches process state in two phases and resolves a
name between them, outside any phase, perhaps for ever. The shutdown lets no thread
enter a phase and waits for those inside. Network results are free choices.

**P2CCreateDialog.** The GUI thread is always in some event loop; `gui` says which
call it is nested in. Timers, unloading of the wallet and destruction of the page
are events of every loop, clicks of the outermost one only, because the nested ones
show modal dialogs. Tasks go to the wallet's worker through a queue. `sendtop2c` is
a second user of batches; it starts none once the node is being interrupted. The
page is attached to one wallet once. The error path of freezing is left out: that
it cannot be reached is `FreezeReady`, a part of `CreationSound`.

**P2CWorker.** One action per critical section of `work_mutex`. A claim transaction
is its bounty, payout key and fee; a `ClaimWork` object is a transaction and a
number that tells objects apart, because the code cancels objects, not transactions.
`db` is the record under `STATE_KEY`, `walletTxs` what `CommitTransaction` stored.
A step that saves takes `SaveOk` or, within `MaxSaveFailures`, `SaveFails`, which
leaves memory changed and raises the exception the code would raise. `SubmitOne` has
two durable effects and is two steps. `Crash` keeps `db` and `walletTxs` and loses
the rest. `CoinChange` moves bounties between unspent, spent in the mempool and
spent. Which bounty is next is left open, so every economic order is covered.

**ClaimLedger, P2CWorkerLedger.** The ledger is the worker's promise without
threads, sessions or saves: one proof per bounty and at most a limit of them,
submission only of a recorded proof, and giving up only for a bounty that has been
spent. The ledger's proofs are those of the saved record that the wallet does not
have yet, so the ledger sees exactly what would survive a crash now.

**P2CScheduler.** A domain's `DomainWork` is an entry of the partial function
`groups`; a thread that holds one that was erased from the map is `retired`. `index`
is the five ordered sets. `UpdateGroups` is `UpdateEconomicOrder` for a set of
domains at once: one update touches the entries of its own domain only, so the loops
over it in `Refresh`, `PromoteScheduled` and `on_local_unavailable` are one step.
`Next` is one step per iteration of its loop, with `work_mutex` held throughout
(`loop`), so that its termination is a property and not an assumption. A time is what
is left until it; `Tick` lets it pass. Scores are rewards times a measured rate, of
which there are two. The wait that `P2CRecoveryPolicy::Due` reports is one for all
policies, there is one address family, and the FIFO is reduced to "one thread
between `Next` and its TCP start". `PrepareP2CClaim` may refuse, which also stands
for a payout no longer worth it. The branch of `Next` for a prepared bounty without
a saved challenge is left out: that it cannot be reached is `PreparedSaved`, a part
of `ScheduleSound`. Persistence is `P2CWorker`'s subject. Two history variables count
the connections that were given to others while a domain was among the candidates.

**P2CRecoveryPolicy, P2CConnectionRate.** One action per method, since the owner
holds `work_mutex`. `starts`, `times` and `charged` record when connections started.
Operations on lists that the libraries define by recursion (`SelectSeq`, `RemoveAt`,
`RemoveFirst`) are written in closed form, for the proofs; `MCP2CScheduler` has TLC
compare them with the library's.

**P2CAdmission.** The loop body of `Connect` over the FIFO. A waiting thread is
"parked" (no timer) or "timed"; a notification to a thread that is not waiting is
lost, as with a condition variable. `stop` is set without the mutex, and the
notification that follows it is a separate step. `Throws` stands for every exception
in the body, and the guard object's destructor is `ReleaseAdmission`.

**P2CBountyCatalog.** Chains are sequences of blocks, blocks of transactions, and an
outpoint is created by one transaction only (it holds its hash). The scan holds
`m_p2c_mutex` and not `cs_main`, so the chain moves between any two of its steps. A
block is applied or undone one transaction per step, and the scan may fail or be
cancelled at each, which drops the catalog.

**RandomXCache.** A critical section of `m_fast_mutex` or `m_light_mutex` is one
action. `m_fast` is a set of entries with their `last_prepare` stamp and the state of
the future; `running` is the set of tasks that still occupy memory, which the code
has no variable for. A LIGHT build is two actions with the mutex held. A build may
end with a dataset, with the LIGHT fallback or with an exception.

**RandomXKeys.** A chain is a sequence of branch labels, a block hash a prefix of
it. `UpdateTip` sets the keys to prepare; they reach the cache one at a time, as
`PrepareRandomXKeys` passes them, and the miner may prepare its own key between
them (`interposed`). The networks whose key rotates are modelled (`EpochAssumption`).

**CpuMiner.** The coordinator has one action per read or write of shared state
between two synchronisation points. Which nonces of a template are valid is chosen
when the template is made. Thread creation may fail, hashing may throw, node
interrupts and tip changes come at any step. `SubmitBlock` is storing, activation
and the validation callback as separate steps; the reason it returns is computed from
`accepted`, `new_block` and the verdict the callback caught, if it caught one.

**Difficulty, HeadersSync, PeerHeaders.** The arithmetic is over a word of `BITS`
bits and bytes of `BYTE` bits, with wrap-around as in `arith_uint256`. The sync
object is a record, its methods are operators. A commitment is the header it was
taken of; that the salted bits of two headers agree by luck is a choice of the
environment. The peer sends any run of connected headers, asked or unasked (unasked
ones are single announcements); others may add headers to the index between the
check of a message and the rest of its processing. Peers answer within
`HEADERS_RESPONSE_TIME`, are neither manual nor exempt from being banned, and the
other contextual header rules are taken to hold, so that no header of the index is
marked invalid. A compact target has no sign bit. The minimum-difficulty and BIP94
rules of test networks are not modelled, and `m_minimum_required_work` is constant.

## 3. Runs

| run | instance | distinct states |
|---|---|---|
| `cache` | 3 keys, 2 hashing threads, clock to 3 | 385,414 |
| `keys` | 2 branches, epochs of 3, lag 2, height to 6, clock to 8, no hashing threads | 1,159,908 |
| `worker_crash` | 2 bounties, 1 thread, cache of 1, 2 addresses, 2 calls, 1 crash | 760,638 |
| `worker_threads` | 1 bounty, 2 threads, 2 calls, 1 crash, 1 failing write | 498,447 |
| `worker_unsaved_connect`, `worker_unsaved_submit` | 1 bounty, 2 threads, 1 failing write | (violations) |
| `catalog` | a bounty, a claim of it that creates another, a claim of that; blocks of 2, height to 3, 3 tip changes, window of 2 | 234,599 |
| `scheduler` | 2 domains, 3 bounties, 2 threads, 1 saved challenge, 2 observations of which one lists 1 of the domains; 3 policies in a table of 2, 2 tokens, time to 5; rates -1, 0, 1 and 2 per second of 2 units, clock and starts to 7 | 305,427 |
| `headers_sync` | 12-bit targets, adjustment every 2 blocks, epochs of 2, lag 1, an honest chain to height 6 with forks, 2 headers per message | 204,454 |
| `creation` | 2 coins, 2 addresses, 2 probes of which 1 active, 1 contested coin | 538,330 |
| `admission` | 3 threads, 1 policy, 2 tokens, no time | 639,497 |
| `miner` | 2 threads, 3 nonces, 2 rounds, 2 starts, 2 tip changes | 1,630,364 |

**What they show.**

* `cache`: no more datasets are under construction than slots; a hash never uses a
  context of another key; every request ends, whether or not a context can be built.
* `keys`: a key is announced for the whole lag before it is needed; `UpdateTip` gives
  up the ready dataset of the current key only when the other slot holds an unfinished
  build, or when the miner prepared a key between its two calls.
* `worker_crash`: what was saved loads again; a challenge is saved before a connection
  uses it and a proof before it is submitted; payouts go where they were authorised;
  the worker implements the ledger, so no completed proof is lost in a crash.
* `worker_threads`: the live work on one bounty has one challenge; `Stop` and control
  calls return; a completed proof does not wait for ever, failing writes included.
* `catalog`: between two blocks the catalog is exactly the unspent bounties of the
  block it is dated by; a snapshot belongs to one chain that was active during its
  scan; a scan ends although the chain keeps moving.
* `scheduler`: the indexes hold current groups under current keys; prepared bounties
  have their challenge; no bounty is connected to beyond its budget and the threads in
  flight; every domain with work is ready, timed or being resolved; a call of `Next`
  ends; a domain among the candidates gets its turn. Recovery starts keep both
  intervals; ordinary starts bunch up by at most a second's credit, and a start less
  than a second late does not shift the later ones. The scheduler and the two pacers
  share no state, so each moves with the others at rest.
* `headers_sync`: every stored header was mined with its own chain's key at the exact
  difficulty, and no sync is left waiting; the sync hands over only headers that are
  earned and connect, and turns no honest peer away; the chain of an honest peer with
  enough work ends up in the index. The peer may also be one that sends whatever it
  has mined.
* `creation`: a reservation has one live owner and returns; the user's locks are kept;
  what is committed is what the confirmation showed; the page follows the batch
  specification; creation and shutdown proceed through every nested loop.
* `admission`: no ticket dangles, no reservation leaks, the head of the queue always
  has a deadline, and `join` returns.
* `miner`: the status tells the truth; only solutions of the very block are submitted
  and only blocks of the chain are counted; every nonce is hashed once; sessions end.

**Bounds.** Each instance is the smallest in which the hazard happens: three keys for
two slots, three policies for two entries, a second bounty to evict the first from a
cache of one, a second branch for each reorganisation, two threads for each race, one
crash or failed write at every step, three threads in the FIFO so that one is neither
head nor next. Clocks, counters and numbers of calls are bounded in the guards by
the constants named `Max...`. The proofs of section 4 hold for all values.

**Deadlock** is checked except in `keys` (the clock reaches its bound), `creation` (the
process has exited), `admission` (all threads joined, or its numbers used up) and `headers_sync` (nobody has
anything left to send).

**Fairness.** What the code guarantees is that a thread that can run does. Where an
actor always leaves a place by its own step, this is stated of the state,
`[]<>(not at the place)`, which then says the same as weak fairness and is cheaper to
check. `cache` needs strong fairness of `LightEnter`, a mutex that others take and
release repeatedly; everything else is weak. For the catalog a scan that is under way
takes steps for ever or ends. In `creation` the task queue empties, replies are
consumed, timers fire and probes leave their phases, but neither the resolver nor the
user is assumed to do anything. In `headers_sync` messages are processed and the honest
peer answers. No fairness is assumed of failures, crashes, tip changes, notifications
or network results. A property `[]<>(P => Q)` is used for "P leads to Q" where P, once
true, stays until Q.

## 4. Proofs

Eight modules hold theorems checked by TLAPS, for every value of the constants that
the named assumptions (`CacheAssumption`, `WorkerAssumption`, ...) allow. All say little
more than which sets are finite, which numbers natural, and which values differ.

Every safety invariant and every safety action property that a run checks is proved,
except the two of `headers_sync`.

| module | what is proved | inductive invariant |
|---|---|---|
| `RandomXProofs` | `BuildsBounded`, `RightContext`; the key schedule drives the cache only by the cache's steps (`ScheduleUsesCache`), so it inherits both; `KeysAlwaysAnnounced` and `CurrentDatasetAlwaysKept` for every epoch and lag | `CacheInv`: a running build has an entry and the entries fit the slots. `KeysInv`: stamps are distinct and the first key of an update is the youngest |
| `P2CWorkerProofs` | `SavedAlwaysLoads`, `ChallengesAgree`, `PayoutsAuthorised`; when writes do not fail `SubmitsOnlySaved`, `ConnectsOnlySaved`, `ProofsNeverLost` and the refinement `WorkerImplementsLedger` | `WorkerInv`: live work is cached, cached work pays an authorised key, completion cancels the rest. `SavedInv`, `DurableInv`: outside a save, record and memory agree |
| `P2CCreationProofs` | for the batches alone `ReservationsAlwaysSound`, `UsersKeepTheirLocks`; for the whole page `CreationAlwaysSound`, `AlwaysCommitsWhatWasShown` and the refinement `CreationImplementsBatch`, which gives it the first two | `BatchInv`: owners are alive, a batch knows what it reserved, no coin is spent twice. `DialogInv` adds who holds each batch at each point of the nested calls, the counts of probes and threads, and what a confirmation was shown |
| `P2CPacingProofs` | `RateAlwaysKept`, `CadenceNeverLost`, `StartsAlwaysPaced`, `ReservationKeepsEntry` | `RateInv`: the deadline is what the starts were charged. `PolicyInv`: every entry's deadline is ahead of its last start, and an entry is evicted only when it is due |
| `P2CAdmissionProofs` | `AdmissionAlwaysSound`, `HeadAlwaysHasDeadline`; the threads drive the policy only by its steps (`AdmissionImplementsPolicy`), hence `ThreadsStartPaced` | `AdmissionInv`: tickets in the queue are those of waiting threads, and the one reservation is with the thread past the gate |
| `P2CBountyCatalogProofs` | `CatalogAlwaysMatchesTip`, `SnapshotAlwaysConsistent` for any transactions, blocks, reorganisations and failures | `CatalogInv`: the tip, the fork and the target of a scan are related as its place requires (`Fits`); between two transactions of a block the catalog is that of the part which is applied (`Held`); the chain the wallet will be given was active during the scan (`Witnessed`) |
| `P2CSchedulerProofs` | `ScheduleAlwaysSound`, `DomainsNeverForgotten`, `NextAlwaysEnds`, `TurnsAlwaysFair` for any domains, bounties, threads, rates | `SchedulerInv`: each index is a function of the groups; a resolving group has one thread that holds it; each turn of `Next` drops a bounty from a finite set; a connection that passes over a domain moves `domain_after` towards it |
| `CpuMinerProofs` | `StatusAlwaysTrue`, `BlocksAlwaysEarned`, `NoncesAlwaysCovered` | `MinerInv`: which threads exist in which state of the session, and that each worker's nonces are one residue class |

Some of the arguments, in words.

*Catalog.* Between two transactions of a block the catalog is the one of the part that
is applied. A block is undone from its last transaction on, so the two directions pass
through the same catalogs. Of validation the argument needs only that a block spends
what exists and that an outpoint is created once in a chain. A snapshot may be handed
out when its chain is no longer active; `Witnessed` carries that it was, during the scan.

*Scheduler.* None of the four properties is inductive. The indexes are copies of keys,
so the invariant says what each is, given the groups, and `UpdateGroups` is shown once
to re-establish it whatever it was given (lemmas on `Erased`, `Joined` and `Entries`);
each action is then about its group only. `FairTurn` needs an order argument: the number
of candidate domains between `domain_after` and the watched one, cyclically, bounds the
connections still to come; every second choice is by reward, which gives the factor two.
`NextEnds` needs a measure: an iteration that does not return loses a bounty, or a policy
that must wait, or the choice of unprepared bounties, and an evicted challenge gives none
of them back.

*Worker.* `SubmitsDurably`, `ConnectsDurably` and the refinement are proved under
`MaxSaveFailures = 0`. With failing writes they do not hold of the code: see section 5.

*Creation.* The page's invariant has a clause for every place the GUI thread can be
nested in, and says which batch that place holds. The refinement of the batch
specification is then the case split over the page's actions.

The invariants with many clauses (`DialogInv`, `SchedulerInv`) were checked by TLC on the
instances of section 3 before they were proved.

*Provers.* Each proof module starts with `USE Zenon`; a leaf that needs arithmetic, records
or sequences names `SMT`. `P2CSchedulerProofs` is the largest, and what it uses of the
library's theorems on finite sets is stated in `FiniteSetFacts` as `LibraryFacts`: its
lemmas assume it, `LibraryFactsHold` proves it from an instance of the library near the
end of the module, and the theorems have no such assumption.

**Left to model checking, and why.** *Liveness* (`EveryHashEnds`, `StopEnds`,
`ProofsSubmitted`, `ScanEnds`, `HonestChainStored`, `CreationProceeds`,
`ReservationsReturn`, `JoinReturns`, `MinerStops`): TLAPS 1.4.5 has neither `ENABLED` nor
the rules for fairness. *`HeadersSound` and `SyncStepSound`*: they rest on what the
retargeting arithmetic computes for a whole chain and on sums of work along it, that is
on recursive functions over the chain and on non-linear arithmetic with truncating
division; the first would need induction with an operator as a parameter, which the
installed provers cannot instantiate, the second is beyond their arithmetic. (Where an
induction can be put as the existence of a least element the proofs do it: `LeastFact`
and `LeastNat`, from the library's theorem on well-founded relations, is how the best bounty of a finite
set is known to exist.) That the closed forms of list operations in the two pacers equal
the library's recursive ones is an `ASSUME` that TLC evaluates in `MCP2CScheduler`.

## 5. Findings

Both are about a write that fails: `Save` throws in the connection thread, whose handler
sets `failed` only after `work_mutex` was released. Without failing writes both
properties are proved.

* `worker_unsaved_connect`: a comment in `Next` (`wallet/p2c_worker_impl.cpp:792`) says
  "Fixed challenge is durable before ANY TLS connection." The new challenge is in the
  cache before its write; when the write fails, another thread can be assigned the
  cached challenge and connect with it before the session stops.
* `worker_unsaved_submit`: a comment at the saved claims
  (`wallet/p2c_worker_impl.cpp:205`) says "Persist a completed proof BEFORE submitting
  it". `Connect` appends the proof to `completed` before its write; when the write
  fails, the coordinator's `SubmitReady` can submit it before the session stops.

## 6. Abstractions that add behaviours

The worker's choice of the next bounty, `PrepareP2CClaim`'s refusals, all network
results, failures of hashing, thread creation, allocation and block reads, and the lucky
agreement of header commitments are free choices. An address is reused by the allocator
as soon as it can be. A probe may hang in the resolver for ever. A property that holds
here holds of the code with fewer of these behaviours, except the liveness ones, whose
fairness is listed above.

## 7. Not modelled

The inherited parts of Bitcoin Core (scripts, mempool, block storage, P2P beyond
headers, wallet beyond locks and `CommitTransaction`), the verifier of TLS
transcripts and certificates (parsing and cryptography), the RandomX VM pool and the
bundled libraries, `P2CLocalEndpointPolicy`, claim fees, performance windows and endpoint
ranking (sequential numeric code; the scheduler sees two rates), GUI layout, RPC formatting, and the translation catalogues under
`qt/locale`, which are data. `PROJECT.json` names each with its reason.

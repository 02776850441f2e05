------------------------------ MODULE P2CWorker ------------------------------
(***************************************************************************)
(* The automatic claim worker of a wallet (wallet/p2c_worker_impl.cpp):    *)
(* the coordinator thread (Run), its connection threads (Connect), the     *)
(* control calls (Configure, Stop, Shutdown), the state the worker saves   *)
(* in the wallet database, and the chain it claims bounties from.          *)
(*                                                                         *)
(* This module is about which claims exist, who may work on them, and what *)
(* is durable when.  Which eligible bounty is tried next, and when, is     *)
(* left open: Refresh offers any set of them and Next takes any one.       *)
(*                                                                         *)
(* Steps are atomic where the code holds work_mutex across them.  A Save   *)
(* is the last durable effect of its critical section, so it is part of    *)
(* the step; SubmitOne has two durable effects (CommitTransaction, then    *)
(* Save) and is two steps, with work_mutex held in between.  Between two   *)
(* proofs of one SubmitReady the model lets the lock go, which only adds   *)
(* behaviours.                                                             *)
(***************************************************************************)
EXTENDS Integers, Sequences, FiniteSets

CONSTANTS Outpoints,           \* P2C bounties
          Destinations,        \* payout keys a claim may name
          Mine,                \* the destinations whose key is in the wallet
          RewardAddresses,     \* settings of Configure; None: pay to the wallet
          Fees,                \* fees a new claim transaction may be given
          Threads,             \* connection threads (concurrency)
          MAX_PENDING_CLAIMS,
          None,
          MaxCalls,            \* bound on Configure, Stop and Shutdown calls
          MaxCrashes,          \* bound on process crashes
          MaxSaveFailures      \* bound on failing database writes

\* A claim transaction without its proof: bounty, payout key and fee, fixed
\* for ever by the challenge derived from it.
Tx == [prevout : Outpoints, dest : Destinations, fee : Fees]

\* A completed proof, with the reward address authorised for it (None: any
\* key of the wallet).
Claims == [tx : Tx, dest : Destinations \cup {None}]

\* What is saved under STATE_KEY.
Records == [pending : SUBSET Tx, ready : Claims \cup {None}, completed : Seq(Claims)]

\* A ClaimWork object; no tells apart objects made from one transaction.
Works == [tx : Tx, no : 0..Cardinality(Threads)]

\* A control call in progress: restart with a reward address, or stop.
Calls == [op : {"start", "stop"}, dest : Destinations \cup {None}]

ASSUME WorkerAssumption ==
    /\ MAX_PENDING_CLAIMS \in Nat \ {0}
    /\ Mine \subseteq Destinations
    /\ RewardAddresses \subseteq Destinations \cup {None}
    /\ MaxCalls \in Nat
    /\ IsFiniteSet(Threads)
    /\ MaxCrashes \in Nat
    /\ MaxSaveFailures \in Nat
    /\ None \notin Destinations \cup Claims \cup Works \cup Calls
    /\ None \notin Records

VARIABLES
    \* durable: the record under STATE_KEY and the wallet's transactions
    db, walletTxs,
    \* the chain: each bounty is "open", spent in the "mempool", or "spent"
    coin,
    \* Impl
    proposals, claim_cache, unavailable, ready, completed,
    payout_destination, offered,
    stop_requested, failed, closing,
    \* control: the call holding control_mutex; Run; SubmitOne past its commit
    control, run, forgetting,
    \* per connection thread: control and the ClaimWork it shares
    pc, work,
    calls, crashes, saveFailures

chainVars == <<walletTxs, coin>>
claimVars == <<proposals, claim_cache, unavailable, ready, completed>>
flagVars == <<stop_requested, failed>>
controlVars == <<closing, control, payout_destination, calls>>
threadVars == <<pc, work>>
vars == <<db, chainVars, claimVars, offered, flagVars, controlVars, run, forgetting,
          threadVars, crashes, saveFailures>>

-----------------------------------------------------------------------------
(* Helpers                                                                 *)

\* Mutant: a key of the wallet is accepted whatever address is configured.
IsP2CClaimPayoutAnyOwn(tx, destination) == tx.dest \in Mine \/ tx.dest = destination

IsP2CClaimPayout(tx, destination) ==
    IF destination = None THEN tx.dest \in Mine ELSE tx.dest = destination

\* What Save() writes and Load() reads.
Memory == [pending |-> proposals, ready |-> ready, completed |-> completed]

\* Completed proofs, the one in the ready slot included: of a record, in memory
\* and in the database.
ProofsIn(record) ==
    {record.completed[i] : i \in DOMAIN record.completed} \cup ({record.ready} \ {None})
Held == ProofsIn(Memory)
SavedProofs == IF db = None THEN {} ELSE ProofsIn(db)
HasCompleted(outpoint) == \E c \in Held : c.tx.prevout = outpoint

\* use_count() == 1: only claim_cache refers to the object.
Idle(w) == \A t \in Threads : work[t] # w

\* An object somebody still refers to, after the step.
LiveNext(w) == w \in claim_cache' \/ \E t \in Threads : work'[t] = w

ForOutpoint(set, outpoint) == {w \in set : w.tx.prevout = outpoint}
PendingFor(outpoint) == {tx \in proposals : tx.prevout = outpoint}

\* Mutant: Save runs before the change it should make durable.
SaveEarly ==
    /\ db' = Memory
    /\ UNCHANGED saveFailures

\* Save() writes what memory holds at the end of the step, or throws.
SaveOk ==
    /\ db' = Memory'
    /\ UNCHANGED saveFailures
SaveFails ==
    /\ saveFailures < MaxSaveFailures
    /\ saveFailures' = saveFailures + 1
    /\ UNCHANGED db

Init ==
    /\ db = None
    /\ walletTxs = {}
    /\ coin = [o \in Outpoints |-> "open"]
    /\ proposals = {} /\ claim_cache = {} /\ unavailable = {}
    /\ ready = None /\ completed = <<>>
    /\ payout_destination = None
    /\ offered = {}
    /\ stop_requested = FALSE /\ failed = FALSE /\ closing = FALSE
    /\ control = None /\ run = "off" /\ forgetting = FALSE
    /\ pc = [t \in Threads |-> "off"]
    /\ work = [t \in Threads |-> None]
    /\ calls = 0 /\ crashes = 0 /\ saveFailures = 0

-----------------------------------------------------------------------------
(* Configure, Stop, Shutdown                                               *)

\* The call takes control_mutex and asks a running worker to stop.
StopUnlocked(call, close) ==
    /\ control = None
    /\ calls < MaxCalls
    /\ calls' = calls + 1
    /\ control' = call
    /\ closing' = close
    /\ stop_requested' = (stop_requested \/ run # "off")
    /\ UNCHANGED <<db, chainVars, claimVars, offered, failed, payout_destination, run,
                   forgetting, threadVars, crashes, saveFailures>>

Configure(destination) == ~closing /\ StopUnlocked([op |-> "start", dest |-> destination], FALSE)
Stop == StopUnlocked([op |-> "stop", dest |-> None], closing)
Shutdown == StopUnlocked([op |-> "stop", dest |-> None], TRUE)

\* thread.join() returned.  Configure installs the new settings and starts Run,
\* unless the thread cannot be created or the new rate is 0.
Joined ==
    /\ control # None
    /\ run \in {"off", "ended"}
    /\ control' = None
    /\ IF control.op = "start"
         THEN /\ payout_destination' = control.dest
              /\ \/ run' \in {"load", "off"} /\ stop_requested' = FALSE
                 \/ run' = "off" /\ UNCHANGED stop_requested
         ELSE /\ run' = "off"
              /\ UNCHANGED <<payout_destination, stop_requested>>
    /\ UNCHANGED <<db, chainVars, claimVars, offered, failed, closing, calls, forgetting,
                   threadVars, crashes, saveFailures>>

-----------------------------------------------------------------------------
(* Run: start-up                                                           *)

\* Does Load() take the record, or throw "Invalid saved P2C ..."?
Loadable(record) ==
    /\ Cardinality(record.pending) <= MAX_PENDING_CLAIMS
    /\ Len(record.completed) + (IF record.ready = None THEN 0 ELSE 1) <= MAX_PENDING_CLAIMS
    /\ \A i, j \in DOMAIN record.completed :
         record.completed[i].tx.prevout = record.completed[j].tx.prevout => i = j
    /\ record.ready # None =>
         \A i \in DOMAIN record.completed :
             record.completed[i].tx.prevout # record.ready.tx.prevout

\* Load() and the clearing of the schedule.  Without a record memory is kept; a
\* record that is rejected ends the session (what it leaves in memory is not
\* used: the next session loads again).
Load ==
    /\ run = "load"
    /\ IF db = None
         THEN run' = "resubmit" /\ UNCHANGED <<proposals, ready, completed>>
         ELSE IF Loadable(db)
                THEN /\ proposals' = db.pending
                     /\ ready' = db.ready
                     /\ completed' = db.completed
                     /\ run' = "resubmit"
                ELSE run' = "ended" /\ UNCHANGED <<proposals, ready, completed>>
    /\ claim_cache' = {} /\ unavailable' = {} /\ offered' = {} /\ failed' = FALSE
    /\ UNCHANGED <<db, chainVars, stop_requested, controlVars, forgetting, threadVars,
                   crashes, saveFailures>>

\* Unfinished challenges that pay to another destination are dropped; Save.
DropOtherPayouts ==
    /\ run = "prune"
    /\ proposals' = {tx \in proposals : IsP2CClaimPayout(tx, payout_destination)}
    /\ UNCHANGED <<claim_cache, unavailable, ready, completed>>
    /\ \/ SaveOk /\ run' = "first"
       \/ SaveFails /\ run' = "ended"
    /\ UNCHANGED <<chainVars, offered, flagVars, controlVars, forgetting, threadVars, crashes>>

-----------------------------------------------------------------------------
(* Run: SubmitReady, at start-up ("resubmit") and in the loop ("submit")   *)

\* An exception out of Run: before the loop there is nobody to join; in the
\* loop StopAndJoin cancels and joins the connection threads.
Throw ==
    IF run \in {"submit", "refresh"}
      THEN run' = "abort" /\ stop_requested' = TRUE
      ELSE run' = "ended" /\ UNCHANGED stop_requested

\* The claim SubmitOne works on: the ready slot, filled from the queue.
Next1 == IF ready # None THEN ready ELSE Head(completed)
Rest == IF ready # None THEN completed ELSE Tail(completed)

\* SubmitOne forgets the bounty: schedule, cached object, proposal, ready slot.
Forget(claim) ==
    /\ ready' = None
    /\ completed' = Rest
    /\ claim_cache' = claim_cache \ ForOutpoint(claim_cache, claim.tx.prevout)
    /\ proposals' = proposals \ PendingFor(claim.tx.prevout)
    /\ forgetting' = TRUE
    /\ UNCHANGED <<run, stop_requested, threadVars>>
    /\ unavailable' = {w \in unavailable : LiveNext(w)}

\* A crash lost the Save after an earlier commit: the wallet has the transaction.
Recognize(claim) ==
    /\ claim.tx \in walletTxs
    /\ Forget(claim)
    /\ UNCHANGED chainVars

\* CompleteP2CClaim succeeded.  The node may still refuse it ("stored").
Commit(claim) ==
    /\ claim.tx \notin walletTxs
    /\ coin[claim.tx.prevout] = "open"
    /\ IsP2CClaimPayout(claim.tx, claim.dest)
    /\ walletTxs' = walletTxs \cup {claim.tx}
    /\ coin' \in {coin, [coin EXCEPT ![claim.tx.prevout] = "mempool"]}
    /\ Forget(claim)

\* Mutant: a failed submission is taken for a lost race without a look at the coin.
LostRaceUnchecked(claim) ==
    /\ claim.tx \notin walletTxs
    /\ Forget(claim)
    /\ UNCHANGED chainVars

\* CompleteP2CClaim failed and somebody else spent the bounty.
LostRace(claim) ==
    /\ claim.tx \notin walletTxs
    /\ coin[claim.tx.prevout] # "open"
    /\ Forget(claim)
    /\ UNCHANGED chainVars

\* It failed otherwise (fee policy, lock, reorg), or walletbroadcast is off: the
\* proof stays in the ready slot and the session ends with an error.
Retain(claim) ==
    /\ claim.tx \notin walletTxs
    /\ coin[claim.tx.prevout] = "open"
    /\ ready' = claim
    /\ completed' = Rest
    /\ Throw
    /\ UNCHANGED <<proposals, claim_cache, unavailable, forgetting, chainVars, threadVars>>

SubmitOne ==
    /\ run \in {"resubmit", "submit"}
    /\ ~forgetting
    /\ ~stop_requested
    /\ Held # {}
    /\ \/ Recognize(Next1) \/ Commit(Next1) \/ LostRace(Next1) \/ Retain(Next1)
    /\ UNCHANGED <<db, offered, failed, controlVars, crashes, saveFailures>>

\* The Save that ends SubmitOne.
SaveForgotten ==
    /\ forgetting
    /\ forgetting' = FALSE
    /\ UNCHANGED <<chainVars, claimVars, offered, failed, controlVars, threadVars, crashes>>
    /\ \/ SaveOk /\ UNCHANGED <<run, stop_requested>>
       \/ SaveFails /\ Throw

\* Mutant: the coordinator goes on with proofs left in the queue.
SubmitDoneEarly ==
    /\ run \in {"resubmit", "submit"}
    /\ ~forgetting
    /\ run' = IF run = "resubmit" THEN "prune" ELSE "refresh"
    /\ UNCHANGED <<db, chainVars, claimVars, offered, flagVars, controlVars, forgetting,
                   threadVars, crashes, saveFailures>>

SubmitDone ==
    /\ run \in {"resubmit", "submit"}
    /\ ~forgetting
    /\ stop_requested \/ Held = {}
    /\ run' = IF run = "resubmit" THEN "prune" ELSE "refresh"
    /\ UNCHANGED <<db, chainVars, claimVars, offered, flagVars, controlVars, forgetting,
                   threadVars, crashes, saveFailures>>

-----------------------------------------------------------------------------
(* Run: Refresh ("first" at start-up, "refresh" in the loop) and the loop  *)

Refreshing == run \in {"first", "refresh"}

\* scanP2CBounties returned false: no bounty may be tried until the next scan.
RefreshUnavailable ==
    /\ Refreshing
    /\ offered' = {}
    /\ run' = "loop"
    /\ UNCHANGED <<db, chainVars, claimVars, flagVars, controlVars, forgetting, threadVars,
                   crashes, saveFailures>>

\* Mutant: an object is retired although a connection thread shares it.
RetiredInUse(recent) ==
    {w \in claim_cache : /\ ~HasCompleted(w.tx.prevout)
                         /\ w.tx.prevout \notin recent \/ w \in unavailable}

\* The cached objects Refresh retires: idle, without a proof, and aged out or
\* cancelled.
Retired(recent) ==
    {w \in claim_cache : /\ Idle(w) /\ ~HasCompleted(w.tx.prevout)
                         /\ w.tx.prevout \notin recent \/ w \in unavailable}

\* A scan succeeded.  recent is the snapshot, blocked the bounties the wallet
\* may not claim now (locked, immature, not yet confirmed), wallet_ready false
\* while the wallet is behind the chain.  Objects are retired before availability
\* is looked up again; economics and connection budgets, or a stop while the
\* schedule is rebuilt, may keep any bounty out of it.
Refresh(recent, blocked, wallet_ready) ==
    /\ Refreshing
    /\ LET retired == Retired(recent)
           spoiled == {w \in claim_cache \ retired :
                         \/ ~wallet_ready
                         \/ coin[w.tx.prevout] # "open"
                         \/ w.tx.prevout \in blocked}
       IN  /\ claim_cache' = claim_cache \ retired
           /\ unavailable' = (unavailable \ retired) \cup spoiled
           /\ offered' \in SUBSET {o \in recent : /\ wallet_ready
                                                  /\ coin[o] # "mempool"
                                                  /\ ForOutpoint(claim_cache' \cap unavailable', o) = {}}
    /\ run' = "loop"
    /\ UNCHANGED <<db, chainVars, proposals, ready, completed, flagVars, controlVars,
                   forgetting, threadVars, crashes, saveFailures>>

\* The fee for new claims cannot be computed: Refresh throws.
RefreshThrows ==
    /\ Refreshing
    /\ Throw
    /\ UNCHANGED <<db, chainVars, claimVars, offered, failed, controlVars, forgetting,
                   threadVars, crashes, saveFailures>>

\* No refresh is due.
RefreshNotDue ==
    /\ run = "refresh"
    /\ run' = "loop"
    /\ UNCHANGED <<db, chainVars, claimVars, offered, flagVars, controlVars, forgetting,
                   threadVars, crashes, saveFailures>>

\* The loop's test.
LoopTest ==
    /\ run = "loop"
    /\ IF stop_requested \/ failed
         THEN run' = "join" /\ stop_requested' = TRUE
         ELSE run' = "grow" /\ UNCHANGED stop_requested
    /\ UNCHANGED <<db, chainVars, claimVars, offered, failed, controlVars, forgetting,
                   threadVars, crashes, saveFailures>>

\* pool_growth adds a connection thread while there is work for it.
StartThread(t) ==
    /\ run = "grow"
    /\ pc[t] = "off"
    /\ ~stop_requested /\ ~failed
    /\ offered # {}
    /\ pc' = [pc EXCEPT ![t] = "next"]
    /\ UNCHANGED <<db, chainVars, claimVars, offered, flagVars, controlVars, run, forgetting,
                   work, crashes, saveFailures>>

GrowDone ==
    /\ run = "grow"
    /\ run' = "submit"
    /\ UNCHANGED <<db, chainVars, claimVars, offered, flagVars, controlVars, forgetting,
                   threadVars, crashes, saveFailures>>

Joinable == \A t \in Threads : pc[t] \in {"off", "done"}

\* All connection threads are joined; a clean session ends with a Save.
JoinThreads ==
    /\ run \in {"join", "abort"} /\ Joinable
    /\ pc' = [t \in Threads |-> "off"]
    /\ run' = "ended"
    /\ UNCHANGED <<chainVars, claimVars, offered, flagVars, controlVars, forgetting, work, crashes>>
    /\ IF run = "abort" \/ failed THEN UNCHANGED <<db, saveFailures>> ELSE SaveOk \/ SaveFails

-----------------------------------------------------------------------------
(* Connect: one connection thread                                          *)

\* work_mutex is free: the coordinator holds it between the steps of SubmitOne.
Unlocked == ~forgetting

\* Mutant: only a failed thread, not a stop request, ends the others.
CancelledByFailure == failed

Cancelled == stop_requested \/ failed

\* The thread drops its assignment and starts over.
Release(t, to) ==
    /\ pc' = [pc EXCEPT ![t] = to]
    /\ work' = [work EXCEPT ![t] = None]

Uncache(evicted) == {w \in claim_cache : \A tx \in evicted : tx.prevout # w.tx.prevout}

\* Next() passes over a candidate: its object is cancelled, its proposal cannot
\* be made or resumed, or it is not worth a connection.  The eviction that made
\* room for a new proposal is not undone, and not saved.
SkipBounty(t, o, evicted) ==
    /\ pc[t] = "next" /\ Unlocked /\ ~Cancelled
    /\ o \in offered
    /\ offered' = offered \ {o}
    /\ proposals' = proposals \ evicted
    /\ claim_cache' = Uncache(evicted)
    /\ UNCHANGED <<db, chainVars, ready, completed, flagVars, controlVars, run, forgetting,
                   threadVars, crashes, saveFailures>>
    /\ unavailable' = {w \in unavailable : LiveNext(w)}

\* Next() assigns a bounty whose challenge is already cached and not cancelled.
AssignCached(t, o) ==
    /\ pc[t] = "next" /\ Unlocked /\ ~Cancelled
    /\ o \in offered
    /\ \E w \in ForOutpoint(claim_cache, o) \ unavailable : work' = [work EXCEPT ![t] = w]
    /\ pc' = [pc EXCEPT ![t] = "assigned"]
    /\ UNCHANGED <<db, chainVars, claimVars, offered, flagVars, controlVars, run, forgetting,
                   crashes, saveFailures>>

\* Mutant: a proposal is evicted although its proof is completed.
EvictableCompleted == {tx \in proposals : \A w \in ForOutpoint(claim_cache, tx.prevout) : Idle(w)}

\* The proposals that may be evicted for a new one: neither completed nor in use.
Evictable == {tx \in proposals : /\ ~HasCompleted(tx.prevout)
                                 /\ \A w \in ForOutpoint(claim_cache, tx.prevout) : Idle(w)}

\* The proposals Next gives up before it makes one for o: nothing if there is
\* room or o has one, else a single evictable one.  All slots live: no way.
Evictions(o) ==
    IF PendingFor(o) # {} \/ Cardinality(proposals) < MAX_PENDING_CLAIMS
      THEN {{}}
      ELSE {{tx} : tx \in Evictable}

\* PrepareP2CClaim makes a transaction that pays to the configured destination;
\* ResumeP2CClaim takes a saved one only if it still does.
ClaimTxs(o) ==
    IF PendingFor(o) # {}
      THEN {tx \in PendingFor(o) : IsP2CClaimPayout(tx, payout_destination)}
      ELSE {tx \in Tx : tx.prevout = o /\ IsP2CClaimPayout(tx, payout_destination)}

\* The least number that makes a new object of tx.
FreshWork(tx) ==
    LET shared == {w \in claim_cache \cup {work[t] : t \in Threads} : w # None /\ w.tx = tx}
        used == {w.no : w \in shared}
        free == (0..Cardinality(Threads)) \ used
    IN  {[tx |-> tx, no |-> n] : n \in {m \in free : \A l \in free : m <= l}}

\* Next() makes or resumes a challenge, caches it and saves it, then assigns it.
\* A failing Save leaves the challenge cached and throws out of Connect.
AssignNew(t, o, tx, evicted, w) ==
    /\ pc[t] = "next" /\ Unlocked /\ ~Cancelled
    /\ o \in offered
    /\ coin[o] = "open"
    /\ ForOutpoint(claim_cache, o) = {}
    /\ proposals' = (proposals \ evicted) \cup {tx}
    /\ claim_cache' = Uncache(evicted) \cup {w}
    /\ UNCHANGED <<ready, completed>>
    /\ \/ /\ SaveOk
          /\ pc' = [pc EXCEPT ![t] = "assigned"]
          /\ work' = [work EXCEPT ![t] = w]
       \/ /\ SaveFails
          /\ Release(t, "throw")
    /\ unavailable' = {v \in unavailable : LiveNext(v)}
    /\ UNCHANGED <<chainVars, offered, flagVars, controlVars, run, forgetting, crashes>>

\* before_tcp_start and on_tcp_started: a connection begins on the challenge.
StartConnection(t) ==
    /\ pc[t] = "assigned" /\ Unlocked /\ ~Cancelled
    /\ work[t] \notin unavailable
    /\ work[t].tx.prevout \in offered
    /\ pc' = [pc EXCEPT ![t] = "capture"]
    /\ UNCHANGED <<db, chainVars, claimVars, offered, flagVars, controlVars, run, forgetting,
                   work, crashes, saveFailures>>

\* DNS only, no endpoint, not eligible any more, cancelled, transport failure,
\* invalid certificate or a hash above the target: the attempt ends.
EndAttempt(t) ==
    /\ pc[t] \in {"assigned", "capture"}
    /\ Release(t, "next")
    /\ UNCHANGED <<db, chainVars, proposals, claim_cache, ready, completed, offered, flagVars,
                   controlVars, run, forgetting, crashes, saveFailures>>
    /\ unavailable' = {w \in unavailable : LiveNext(w)}

\* A captured proof is valid and meets the target.
Win(t) ==
    /\ pc[t] = "capture"
    /\ pc' = [pc EXCEPT ![t] = "won"]
    /\ UNCHANGED <<db, chainVars, claimVars, offered, flagVars, controlVars, run, forgetting,
                   work, crashes, saveFailures>>

\* The proof is appended and saved, unless the object was cancelled meanwhile.
Complete(t) ==
    /\ pc[t] = "won" /\ Unlocked
    /\ work[t] \notin unavailable
    /\ completed' = Append(completed, [tx |-> work[t].tx, dest |-> payout_destination])
    /\ UNCHANGED <<chainVars, proposals, claim_cache, ready, offered, flagVars, controlVars,
                   run, forgetting, crashes>>
    /\ \/ SaveOk /\ Release(t, "next")
       \/ SaveFails /\ Release(t, "throw")
    /\ unavailable' = {w \in unavailable \cup {work[t]} : LiveNext(w)}

TooLate(t) ==
    /\ pc[t] = "won" /\ Unlocked
    /\ work[t] \in unavailable
    /\ Release(t, "next")
    /\ UNCHANGED <<db, chainVars, proposals, claim_cache, ready, completed, offered, flagVars,
                   controlVars, run, forgetting, crashes, saveFailures>>
    /\ unavailable' = {w \in unavailable : LiveNext(w)}

\* The handler around Connect takes work_mutex and sets failed.
CatchSearchError(t) ==
    /\ pc[t] = "throw" /\ Unlocked
    /\ failed' = TRUE
    /\ pc' = [pc EXCEPT ![t] = "done"]
    /\ UNCHANGED <<db, chainVars, claimVars, offered, stop_requested, controlVars, run,
                   forgetting, work, crashes, saveFailures>>

Leave(t) ==
    /\ pc[t] = "next" /\ Cancelled
    /\ pc' = [pc EXCEPT ![t] = "done"]
    /\ UNCHANGED <<db, chainVars, claimVars, offered, flagVars, controlVars, run, forgetting,
                   work, crashes, saveFailures>>

\* What a thread does next inside Connect, the attempt's outcome aside.
ThreadStep(t) ==
    \/ EndAttempt(t) \/ Complete(t) \/ TooLate(t) \/ CatchSearchError(t) \/ Leave(t)

Connect(t) ==
    \/ ThreadStep(t)
    \/ StartConnection(t)
    \/ Win(t)
    \/ \E o \in Outpoints :
         \/ AssignCached(t, o)
         \/ \E evicted \in {{}} \cup Evictions(o) : SkipBounty(t, o, evicted)
         \/ \E evicted \in Evictions(o), tx \in ClaimTxs(o) :
              \E w \in FreshWork(tx) : AssignNew(t, o, tx, evicted, w)

-----------------------------------------------------------------------------
(* The rest of the world                                                   *)

\* Other spenders, blocks and reorganisations.
CoinChange(o) ==
    /\ \E c \in {"open", "mempool", "spent"} \ {coin[o]} : coin' = [coin EXCEPT ![o] = c]
    /\ UNCHANGED <<db, walletTxs, claimVars, offered, flagVars, controlVars, run, forgetting,
                   threadVars, crashes, saveFailures>>

\* The process dies and is started again; nothing but the database survives.
Crash ==
    /\ crashes < MaxCrashes
    /\ crashes' = crashes + 1
    /\ proposals' = {} /\ claim_cache' = {} /\ unavailable' = {}
    /\ ready' = None /\ completed' = <<>>
    /\ payout_destination' = None
    /\ offered' = {}
    /\ stop_requested' = FALSE /\ failed' = FALSE /\ closing' = FALSE
    /\ control' = None /\ run' = "off" /\ forgetting' = FALSE
    /\ pc' = [t \in Threads |-> "off"]
    /\ work' = [t \in Threads |-> None]
    /\ UNCHANGED <<db, chainVars, calls, saveFailures>>

RunStep ==
    \/ Load \/ DropOtherPayouts \/ SubmitOne \/ SaveForgotten \/ SubmitDone
    \/ RefreshUnavailable \/ RefreshThrows \/ RefreshNotDue
    \/ \E recent, blocked \in SUBSET Outpoints, wallet_ready \in BOOLEAN :
         Refresh(recent, blocked, wallet_ready)
    \/ LoopTest \/ GrowDone \/ JoinThreads

Next ==
    \/ RunStep
    \/ \E t \in Threads : StartThread(t) \/ Connect(t)
    \/ \E destination \in RewardAddresses : Configure(destination)
    \/ Stop \/ Shutdown \/ Joined
    \/ \E o \in Outpoints : CoinChange(o)
    \/ Crash

\* Neither Run nor a connection thread stays for ever where it can take a step; a
\* capture returns: its cancellation is polled, and it has a deadline.  A control
\* call that has waited for the end of Run goes on.
Fairness ==
    /\ \A place \in {"load", "prune", "first", "refresh", "loop", "grow"} : []<>(run # place)
    /\ \A place \in {"resubmit", "submit"} : []<>(run # place \/ forgetting)
    /\ []<>~forgetting
    /\ \A place \in {"join", "abort"} : []<>~(run = place /\ Joinable)
    /\ []<>~(control # None /\ run \in {"off", "ended"})
    /\ \A t \in Threads :
         /\ \A place \in {"assigned", "capture"} : []<>(pc[t] # place)
         /\ \A place \in {"won", "throw"} : []<>~(pc[t] = place /\ Unlocked)
         /\ []<>~(pc[t] = "next" /\ Cancelled)

Spec == Init /\ [][Next]_vars /\ Fairness

-----------------------------------------------------------------------------
(* Properties                                                              *)

TypeOK ==
    /\ db \in Records \cup {None}
    /\ walletTxs \subseteq Tx
    /\ coin \in [Outpoints -> {"open", "mempool", "spent"}]
    /\ proposals \subseteq Tx
    /\ claim_cache \subseteq Works /\ unavailable \subseteq Works
    /\ ready \in Claims \cup {None} /\ completed \in Seq(Claims)
    /\ payout_destination \in Destinations \cup {None}
    /\ offered \subseteq Outpoints
    /\ stop_requested \in BOOLEAN /\ failed \in BOOLEAN /\ closing \in BOOLEAN
    /\ control \in Calls \cup {None}
    /\ run \in {"off", "load", "resubmit", "prune", "first", "refresh", "loop", "grow", "submit",
                "join", "abort", "ended"}
    /\ forgetting \in BOOLEAN
    /\ pc \in [Threads -> {"off", "next", "assigned", "capture", "won", "throw", "done"}]
    /\ work \in [Threads -> Works \cup {None}]
    /\ calls \in 0..MaxCalls /\ crashes \in 0..MaxCrashes /\ saveFailures \in 0..MaxSaveFailures

\* Load never refuses what Save wrote ("Invalid saved P2C completed claims",
\* p2c_worker_impl.cpp:319): whatever sequence of wins, failed submissions,
\* restarts and address changes led to it, the record has at most one proof per
\* bounty and stays within MAX_PENDING_CLAIMS.
SavedStateLoads == db # None => Loadable(db)

\* Every authorised destination is kept: a completed proof, in memory or saved,
\* pays to the reward address that was configured when it was searched for, so a
\* change of address cannot leave a proof that IsP2CClaimPayout then refuses
\* (Run, p2c_worker_impl.cpp:1014).
PayoutAuthorised ==
    \A c \in Held \cup SavedProofs :
        IF c.dest = None THEN c.tx.dest \in Mine ELSE c.tx.dest = c.dest

\* Two threads never search one bounty with different challenges: all objects
\* that may still complete agree on the bounty's transaction, and that is the
\* one the schedule would hand out and eviction protects (Next and Refresh).
OneLiveChallenge ==
    \A t \in Threads :
        work[t] # None /\ work[t] \notin unavailable =>
            work[t] \in claim_cache /\ PendingFor(work[t].tx.prevout) = {work[t].tx}

\* "Fixed challenge is durable before ANY TLS connection" (p2c_worker_impl.cpp:792).
ConnectsDurably ==
    [][\A t \in Threads : pc[t] = "assigned" /\ pc'[t] = "capture" =>
           db # None /\ work[t].tx \in db.pending]_vars

\* "Persist a completed proof BEFORE submitting it" (p2c_worker_impl.cpp:205).
SubmitsDurably ==
    [][\A tx \in walletTxs' \ walletTxs : \E c \in SavedProofs : c.tx = tx]_vars

\* The proofs the worker can still submit: those in memory while a session has
\* them loaded, those in the database otherwise.
Proofs == IF run \in {"off", "load", "ended"} THEN SavedProofs ELSE Held

\* A completed proof is never lost: it stays, through crashes, restarts and
\* address changes, until its transaction is in the wallet or its bounty is
\* seen spent ("Do not throw away expensive successful work", :380).
ProofsKept ==
    [][\A c \in Proofs : c \notin Proofs' =>
           c.tx \in walletTxs' \/ coin[c.tx.prevout] # "open"]_vars

\* A stop request ends the session: every connection thread leaves Connect and
\* is joined, whatever it was doing (StopUnlocked waits for this).
StopEnds == []<>(control = None)

\* A completed proof does not wait behind the search: it is submitted, found
\* spent, or the session ends.
ProofsSubmitted ==
    \A o \in Outpoints : HasCompleted(o) /\ run # "off" ~> ~HasCompleted(o) \/ run = "ended"
=============================================================================

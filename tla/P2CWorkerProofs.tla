---------------------------- MODULE P2CWorkerProofs ---------------------------
(***************************************************************************)
(* The inductive invariant of P2CWorker, for any number of bounties,       *)
(* threads, control calls, crashes and failing writes, and the theorems    *)
(* that follow from it.                                                    *)
(*                                                                         *)
(* None of the properties is inductive. That a saved record always loads   *)
(* rests on the bound on completed proofs, which no code checks when a     *)
(* proof is appended: it holds because every completed proof keeps its     *)
(* cached challenge, hence its proposal (ProofsCached), the thread that    *)
(* appends one works on a further proposal (LiveCached,                    *)
(* CompletedCancelled) and proposals are bounded. ProofsCached in turn     *)
(* holds only in sessions that entered the loop with nothing left to       *)
(* submit (StartsEmpty).                                                   *)
(*                                                                         *)
(* Types are kept by every step. WorkerInv is kept first by the steps that *)
(* add no claim (start-up and crashes, control, Refresh and the assignment *)
(* of cached work), then by those that add or take one: a new proposal, a  *)
(* completed proof and SubmitOne.                                          *)
(***************************************************************************)
EXTENDS P2CWorkerLedger, FiniteSetTheorems, TLAPS

\* Zenon is the prover of this module; a leaf that needs another one names it.
USE Zenon

LoopPhases == {"refresh", "loop", "grow", "submit", "join", "abort"}
StartPhases == {"resubmit", "prune", "first"}

\* A record that Load accepts, with one proposal for a bounty and every proof
\* paying to the address it was authorised for.
Authorised(c) == IF c.dest = None THEN c.tx.dest \in Mine ELSE c.tx.dest = c.dest
Good(record) ==
    /\ IsFiniteSet(record.pending)
    /\ Loadable(record)
    /\ \A tx1, tx2 \in record.pending : tx1.prevout = tx2.prevout => tx1 = tx2
    /\ \A c \in ProofsIn(record) : Authorised(c)
RecordsGood == Good(Memory) /\ (db # None => Good(db))

\* Connection threads run in the loop only, and share an object while they work.
ThreadsInLoop ==
    \A t \in Threads : /\ pc[t] # "off" => run \in LoopPhases
                       /\ work[t] # None <=> pc[t] \in {"assigned", "capture", "won"}

\* The loop is entered with all proofs submitted, unless a stop was requested.
StartsEmpty == run \in {"prune", "first"} => stop_requested \/ Held = {}
Searching == run \in LoopPhases /\ (~stop_requested \/ \E t \in Threads : pc[t] # "off")

\* The cache: one object for a bounty, made from its proposal, paying to the
\* configured address; empty until the loop starts.
CacheSound ==
    /\ \A v, w \in claim_cache : v.tx.prevout = w.tx.prevout => v = w
    /\ \A w \in claim_cache : w.tx \in proposals
    /\ run \in StartPhases => claim_cache = {}
    /\ run \in LoopPhases => \A w \in claim_cache : IsP2CClaimPayout(w.tx, payout_destination)

WorkPays ==
    \A t \in Threads : work[t] # None => IsP2CClaimPayout(work[t].tx, payout_destination)

\* An object that is not cancelled is the cached one.
LiveCached == \A t \in Threads : work[t] # None /\ work[t] \notin unavailable => work[t] \in claim_cache

\* A completed claim is cancelled for everybody, and stays cached while the
\* session searches.
CompletedCancelled ==
    \A w \in claim_cache \cup {work[t] : t \in Threads} :
        w # None /\ HasCompleted(w.tx.prevout) => w \in unavailable
ProofsCached == Searching => \A c \in Held : \E w \in claim_cache : w.tx = c.tx

WorkerInv ==
    /\ TypeOK /\ RecordsGood /\ (forgetting => run \in {"resubmit", "submit"})
    /\ ThreadsInLoop /\ StartsEmpty /\ CacheSound /\ WorkPays
    /\ LiveCached /\ CompletedCancelled /\ ProofsCached

-----------------------------------------------------------------------------
(* Types                                                                   *)

\* The record a Save writes is typed when memory is.
LEMMA SaveTyped ==
    ASSUME TypeOK, proposals' \subseteq Tx, ready' \in Claims \cup {None}, completed' \in Seq(Claims),
           SaveOk \/ SaveFails
    PROVE  /\ db' \in Records \cup {None}
           /\ saveFailures' \in 0..MaxSaveFailures
<1>1. CASE SaveOk
  BY <1>1 DEF SaveOk, Memory, TypeOK, Records
<1>2. CASE SaveFails
  BY <1>2, WorkerAssumption, SMT DEF SaveFails, TypeOK
<1>. QED  BY <1>1, <1>2

\* Forgetting a submitted proof keeps the types of the claims.
LEMMA ForgetTyped ==
    ASSUME TypeOK, NEW claim \in Claims, Forget(claim), Held # {}
    PROVE  /\ proposals' \subseteq Tx /\ claim_cache' \subseteq Works /\ unavailable' \subseteq Works
           /\ ready' = None /\ completed' \in Seq(Claims) /\ forgetting' = TRUE
           /\ UNCHANGED <<run, stop_requested, pc, work>>
<1>1. Rest \in Seq(Claims)
  BY SMT DEF TypeOK, Rest, Held, ProofsIn, Memory
<1>. QED  BY <1>1 DEF TypeOK, Forget, threadVars, ForOutpoint, PendingFor

\* The claim SubmitOne takes next, m_ready_claim or the head of m_completed_claims,
\* is one the worker holds.
LEMMA Next1Typed ==
    ASSUME TypeOK, Held # {}
    PROVE  Next1 \in Claims /\ Next1 \in Held /\ Next1.tx \in Tx
<1>1. Next1 \in Claims /\ Next1 \in Held
  BY SMT DEF TypeOK, Next1, Held, ProofsIn, Memory
<1>. QED  BY <1>1 DEF Claims

\* SubmitOne keeps the types, whichever way the submission ends.
LEMMA SubmitOneTyped ==
    ASSUME TypeOK, SubmitOne
    PROVE  TypeOK'
<1> DEFINE claim == Next1
<1>1. claim \in Claims /\ claim.tx \in Tx
  BY Next1Typed DEF SubmitOne
<1>2. Rest \in Seq(Claims)
  BY SMT DEF TypeOK, Rest, Held, ProofsIn, Memory, SubmitOne
<1>3. CASE Recognize(claim)
  <2>1. Forget(claim) /\ UNCHANGED chainVars
    BY <1>3 DEF Recognize
  <2>. QED  BY <2>1, <1>1, ForgetTyped DEF SubmitOne, TypeOK, chainVars, controlVars
<1>4. CASE Commit(claim)
  <2>1. Forget(claim)
    BY <1>4 DEF Commit
  <2>2. walletTxs' \subseteq Tx /\ coin' \in [Outpoints -> {"open", "mempool", "spent"}]
    BY <1>1, <1>4, ZenonT(30) DEF Commit, TypeOK, Tx
  <2> HIDE DEF claim
  <2>. QED  BY <2>1, <2>2, <1>1, ForgetTyped, ZenonT(30) DEF SubmitOne, TypeOK, controlVars
<1>5. CASE LostRace(claim)
  <2>1. Forget(claim) /\ UNCHANGED chainVars
    BY <1>5 DEF LostRace
  <2>. QED  BY <2>1, <1>1, ForgetTyped DEF SubmitOne, TypeOK, chainVars, controlVars
<1>6. CASE Retain(claim)
  BY <1>6, <1>1, <1>2 DEF Retain, Throw, SubmitOne, TypeOK, chainVars, controlVars, threadVars
<1>. QED  BY <1>3, <1>4, <1>5, <1>6 DEF SubmitOne

\* Dropping the assignment of a thread keeps the types of its state.
LEMMA ReleaseTyped ==
    ASSUME TypeOK, NEW t \in Threads,
           NEW to \in {"next", "throw"}, Release(t, to)
    PROVE  /\ pc' \in [Threads -> {"off", "next", "assigned", "capture", "won", "throw", "done"}]
           /\ work' \in [Threads -> Works \cup {None}]
BY DEF TypeOK, Release

\* Every step of the coordinator keeps the types.
LEMMA RunTyped ==
    ASSUME TypeOK, RunStep
    PROVE  TypeOK'
<1>1. CASE Load
  BY <1>1, ZenonT(30) DEF Load, TypeOK, Records, chainVars, controlVars, threadVars
<1>2. CASE DropOtherPayouts
  <2>1. SaveOk \/ SaveFails
    BY <1>2 DEF DropOtherPayouts
  <2>2. proposals' \subseteq Tx /\ UNCHANGED <<ready, completed>>
    BY <1>2 DEF DropOtherPayouts, TypeOK
  <2>. QED  BY <1>2, <2>1, <2>2, SaveTyped, SMT
       DEF DropOtherPayouts, TypeOK, chainVars, flagVars, controlVars, threadVars
<1>3. CASE SubmitOne
  BY <1>3, SubmitOneTyped
<1>4. CASE SaveForgotten
  <2>1. (SaveOk \/ SaveFails) /\ UNCHANGED claimVars
    BY <1>4 DEF SaveForgotten
  <2>. QED  BY <1>4, <2>1, SaveTyped, ZenonT(30)
       DEF SaveForgotten, Throw, TypeOK, chainVars, claimVars, controlVars, threadVars
<1>5. CASE SubmitDone \/ RefreshUnavailable \/ RefreshThrows \/ RefreshNotDue \/ LoopTest \/ GrowDone
  BY <1>5, ZenonT(30) DEF SubmitDone, RefreshUnavailable, RefreshThrows, RefreshNotDue, LoopTest,
     GrowDone,
              Throw, TypeOK, chainVars, claimVars, flagVars, controlVars, threadVars
<1>6. ASSUME NEW recent \in SUBSET Outpoints, NEW blocked \in SUBSET Outpoints,
             NEW wallet_ready \in BOOLEAN, Refresh(recent, blocked, wallet_ready)
      PROVE  TypeOK'
  BY <1>6, SMT DEF Refresh, Retired, TypeOK, chainVars, flagVars, controlVars, threadVars
<1>7. CASE JoinThreads
  <2>1. (SaveOk \/ SaveFails \/ UNCHANGED <<db, saveFailures>>) /\ UNCHANGED claimVars
    BY <1>7 DEF JoinThreads
  <2>2. /\ db' \in Records \cup {None}
        /\ saveFailures' \in 0..MaxSaveFailures
    BY <2>1, SaveTyped DEF TypeOK, claimVars
  <2>. QED  BY <1>7, <2>1, <2>2
       DEF JoinThreads, TypeOK, chainVars, claimVars, flagVars, controlVars, threadVars
<1>. QED  BY <1>1, <1>2, <1>3, <1>4, <1>5, <1>6, <1>7 DEF RunStep

\* Every step of a connection thread keeps the types.
LEMMA ConnectTyped ==
    ASSUME TypeOK, ThreadsInLoop, NEW t \in Threads, Connect(t) \/ StartThread(t)
    PROVE  TypeOK'
<1>1. CASE StartThread(t) \/ StartConnection(t) \/ Win(t) \/ CatchSearchError(t) \/ Leave(t)
  <2>1. pc' \in [Threads -> {"off", "next", "assigned", "capture", "won", "throw", "done"}]
    BY <1>1 DEF StartThread, StartConnection, Win, CatchSearchError, Leave, TypeOK
  <2>2. failed' \in BOOLEAN
    BY <1>1 DEF StartThread, StartConnection, Win, CatchSearchError, Leave, TypeOK, flagVars
  <2>3. UNCHANGED <<db, chainVars, claimVars, offered, stop_requested, controlVars, run,
                    forgetting, work, crashes, saveFailures>>
    BY <1>1 DEF StartThread, StartConnection, Win, CatchSearchError, Leave, flagVars
  <2>. QED  BY <2>1, <2>2, <2>3, SMT DEF TypeOK, chainVars, claimVars, controlVars
<1>2. CASE EndAttempt(t) \/ TooLate(t)
  <2>1. Release(t, "next")
    BY <1>2 DEF EndAttempt, TooLate
  <2>. QED  BY <1>2, <2>1, ReleaseTyped, SMT
       DEF EndAttempt, TooLate, TypeOK, chainVars, flagVars, controlVars
<1>3. CASE Complete(t)
  <2>1. pc' \in [Threads -> {"off", "next", "assigned", "capture", "won", "throw", "done"}]
        /\ work' \in [Threads -> Works \cup {None}]
    BY <1>3, ReleaseTyped DEF Complete
  <2>2. work[t] \in Works
    BY <1>3 DEF Complete, ThreadsInLoop, TypeOK
  <2>3. [tx |-> work[t].tx, dest |-> payout_destination] \in Claims
    BY <2>2 DEF TypeOK, Claims, Works
  <2>4. completed' \in Seq(Claims) /\ (SaveOk \/ SaveFails) /\ UNCHANGED <<proposals, ready>>
    BY <1>3, <2>3, SMT DEF Complete, TypeOK
  <2>5. unavailable' \subseteq Works
    BY <1>3, <2>2 DEF Complete, TypeOK
  <2>. QED  BY <1>3, <2>1, <2>4, <2>5, SaveTyped, SMT
       DEF Complete, TypeOK, chainVars, flagVars, controlVars
<1>4. ASSUME NEW o \in Outpoints, AssignCached(t, o)
      PROVE  TypeOK'
  BY <1>4, SMT DEF AssignCached, ForOutpoint, TypeOK, chainVars, claimVars, flagVars, controlVars
<1>5. ASSUME NEW o \in Outpoints, NEW evicted \in {{}} \cup Evictions(o), SkipBounty(t, o, evicted)
      PROVE  TypeOK'
  BY <1>5, SMTT(30) DEF SkipBounty, Uncache, TypeOK, chainVars, flagVars, controlVars, threadVars
<1>6. ASSUME NEW o \in Outpoints, NEW evicted \in Evictions(o), NEW tx \in ClaimTxs(o),
             NEW w \in FreshWork(tx), AssignNew(t, o, tx, evicted, w)
      PROVE  TypeOK'
  <2>1. tx \in Tx
    BY DEF ClaimTxs, PendingFor, TypeOK
  <2>2. w \in Works
    BY <2>1, SMT DEF FreshWork, Works
  <2>3. /\ pc' \in [Threads -> {"off", "next", "assigned", "capture", "won", "throw", "done"}]
        /\ work' \in [Threads -> Works \cup {None}]
    BY <1>6, <2>2, ReleaseTyped, ZenonT(30) DEF AssignNew, TypeOK
  <2>4. /\ proposals' \subseteq Tx /\ claim_cache' \subseteq Works /\ unavailable' \subseteq Works
        /\ UNCHANGED <<ready, completed>> /\ (SaveOk \/ SaveFails)
    BY <1>6, <2>1, <2>2 DEF AssignNew, Uncache, TypeOK
  <2>. QED  BY <1>6, <2>3, <2>4, SaveTyped, SMT
       DEF AssignNew, TypeOK, chainVars, flagVars, controlVars
<1>. QED  BY <1>1, <1>2, <1>3, <1>4, <1>5, <1>6 DEF Connect, ThreadStep

\* So do the control calls and the rest of the world.
LEMMA ControlTyped ==
    ASSUME TypeOK,
           \/ \E destination \in RewardAddresses : Configure(destination)
           \/ Stop \/ Shutdown \/ Joined \/ Crash
           \/ \E o \in Outpoints : CoinChange(o)
    PROVE  TypeOK'
<1> USE WorkerAssumption
<1>1. ASSUME NEW call \in Calls, NEW close \in BOOLEAN, StopUnlocked(call, close)
      PROVE  TypeOK'
  BY <1>1, SMT DEF StopUnlocked, TypeOK, chainVars, claimVars, threadVars
<1>2. ASSUME NEW destination \in RewardAddresses, Configure(destination)
      PROVE  TypeOK'
  <2>1. [op |-> "start", dest |-> destination] \in Calls
    BY DEF Calls
  <2>. QED  BY <1>1, <1>2, <2>1 DEF Configure
<1>3. CASE Stop \/ Shutdown
  <2>1. [op |-> "stop", dest |-> None] \in Calls
    BY DEF Calls
  <2>2. closing \in BOOLEAN
    BY DEF TypeOK
  <2>. QED  BY <1>1, <1>3, <2>1, <2>2 DEF Stop, Shutdown
<1>4. CASE Joined
  BY <1>4, ZenonT(30) DEF Joined, TypeOK, Calls, chainVars, claimVars, threadVars
<1>5. CASE Crash
  <2>1. crashes' \in 0..MaxCrashes
    BY <1>5, SMT DEF Crash, TypeOK
  <2>2. completed' \in Seq(Claims)
    BY <1>5, SMT DEF Crash
  <2>. QED  BY <1>5, <2>1, <2>2 DEF Crash, TypeOK, chainVars
<1>6. ASSUME NEW o \in Outpoints, CoinChange(o)
      PROVE  TypeOK'
  BY <1>6, SMT DEF CoinChange, TypeOK, claimVars, flagVars, controlVars, threadVars
<1>. QED  BY <1>2, <1>3, <1>4, <1>5, <1>6

-----------------------------------------------------------------------------
(* Steps that leave the claims alone                                       *)

Saved == db' = Memory' \/ UNCHANGED db

\* The record is good after a Save of good memory, which either writes that memory or
\* fails and leaves the older record.
LEMMA SavedRecords ==
    ASSUME RecordsGood, Good(Memory'), Saved
    PROVE  RecordsGood'
<1>1. Good(Memory)'
  BY DEF Good, Loadable, ProofsIn, Authorised, Memory
<1>2. CASE db' = Memory'
  BY <1>1, <1>2 DEF RecordsGood
<1>3. CASE UNCHANGED db
  BY <1>1, <1>3 DEF RecordsGood
<1>. QED  BY <1>2, <1>3 DEF Saved

\* A step that changes neither the claims nor what threads share keeps the
\* invariant if it keeps threads in the loop, enters the loop with nothing to
\* submit, and changes the reward address outside sessions only.
LEMMA ControlKeepsInv ==
    ASSUME WorkerInv, TypeOK', UNCHANGED <<claimVars, work>>, Saved,
           forgetting' => run' \in {"resubmit", "submit"}, ThreadsInLoop', StartsEmpty',
           Searching' => Searching \/ Held = {},
           run' \in StartPhases => claim_cache = {},
           run' \in LoopPhases => run \in StartPhases \cup LoopPhases,
           UNCHANGED payout_destination \/ (run' \notin LoopPhases /\ \A t \in Threads : work[t] = None)
    PROVE  WorkerInv'
<1>1. Memory' = Memory /\ Held' = Held
  BY SMT DEF Memory, Held, ProofsIn, claimVars
<1>2. RecordsGood'
  BY <1>1, SavedRecords DEF WorkerInv, RecordsGood
<1>3. CacheSound'
  BY DEF WorkerInv, CacheSound, claimVars, IsP2CClaimPayout
<1>4. WorkPays'
  BY DEF WorkerInv, WorkPays, claimVars, IsP2CClaimPayout
<1>5. LiveCached' /\ CompletedCancelled'
  BY <1>1 DEF WorkerInv, LiveCached, CompletedCancelled, HasCompleted, claimVars
<1>6. ProofsCached'
  BY <1>1 DEF WorkerInv, ProofsCached, claimVars
<1>. QED  BY <1>2, <1>3, <1>4, <1>5, <1>6 DEF WorkerInv

\* The control calls.
LEMMA CallKeepsInv ==
    ASSUME WorkerInv, TypeOK',
           \/ \E destination \in RewardAddresses : Configure(destination)
           \/ Stop \/ Shutdown
    PROVE  WorkerInv'
<1>1. PICK call, close : StopUnlocked(call, close)
  BY DEF Configure, Stop, Shutdown
<1>2. /\ UNCHANGED <<db, claimVars, run, forgetting, pc, work, payout_destination>>
      /\ stop_requested => stop_requested'
  BY <1>1 DEF StopUnlocked, threadVars, WorkerInv, TypeOK
<1>3. Held' = Held
  BY <1>2 DEF Held, ProofsIn, Memory, claimVars
<1>4. ThreadsInLoop' /\ StartsEmpty' /\ (Searching' => Searching)
  BY <1>2, <1>3 DEF WorkerInv, ThreadsInLoop, StartsEmpty, Searching
<1>. QED  BY <1>2, <1>4, ControlKeepsInv
     DEF WorkerInv, CacheSound, Saved, LoopPhases, StartPhases

\* The control call that joined Run keeps the invariant when it installs a new
\* destination: no connection thread is left with work for the old one.
LEMMA JoinedKeepsInv ==
    ASSUME WorkerInv, TypeOK', Joined
    PROVE  WorkerInv'
<1>1. \A t \in Threads : pc[t] = "off" /\ work[t] = None
  BY DEF Joined, WorkerInv, ThreadsInLoop, TypeOK, LoopPhases
<1>2. UNCHANGED <<db, claimVars, forgetting, pc, work>> /\ run' \in {"load", "off"}
  BY DEF Joined, threadVars
<1>3. ~forgetting
  BY DEF Joined, WorkerInv
<1>4. ThreadsInLoop' /\ StartsEmpty' /\ ~Searching'
  BY <1>1, <1>2 DEF ThreadsInLoop, StartsEmpty, Searching, LoopPhases
<1>. QED  BY <1>1, <1>2, <1>3, <1>4, ControlKeepsInv DEF Saved, LoopPhases, StartPhases

\* The coordinator's steps between submissions and refreshes.
LEMMA LoopKeepsInv ==
    ASSUME WorkerInv, TypeOK',
           SubmitDone \/ RefreshUnavailable \/ RefreshThrows \/ RefreshNotDue \/ LoopTest \/ GrowDone
    PROVE  WorkerInv'
<1>1. UNCHANGED <<db, claimVars, payout_destination, forgetting, pc, work>>
  BY DEF SubmitDone, RefreshUnavailable, RefreshThrows, RefreshNotDue, LoopTest, GrowDone,
         controlVars, threadVars
<1>2. ~forgetting
  BY DEF SubmitDone, RefreshUnavailable, RefreshThrows, RefreshNotDue, LoopTest, GrowDone,
         WorkerInv, Refreshing
<1>3. Held' = Held
  BY <1>1 DEF Held, ProofsIn, Memory, claimVars
<1>4. /\ stop_requested => stop_requested'
      /\ run \in {"resubmit", "first"} \cup LoopPhases
      /\ run = "resubmit" => run' = "prune" /\ (stop_requested \/ Held = {}) /\ UNCHANGED stop_requested
      /\ run = "first" => run' \in {"loop", "ended"} /\ UNCHANGED stop_requested
      /\ run \in LoopPhases => run' \in LoopPhases
  BY DEF SubmitDone, RefreshUnavailable, RefreshThrows, RefreshNotDue, LoopTest, GrowDone,
         WorkerInv, TypeOK, Refreshing, Throw, LoopPhases, flagVars
<1>5. ThreadsInLoop'
  BY <1>1, <1>4 DEF WorkerInv, ThreadsInLoop, LoopPhases
<1>6. StartsEmpty'
  BY <1>3, <1>4 DEF StartsEmpty, LoopPhases
<1>7. Searching' => Searching \/ Held = {}
  <2>1. CASE run \in LoopPhases
    BY <2>1, <1>1, <1>4 DEF Searching
  <2>2. CASE run = "first"
    BY <2>2, <1>1, <1>4 DEF Searching, WorkerInv, StartsEmpty, ThreadsInLoop, LoopPhases
  <2>3. CASE run = "resubmit"
    BY <2>3, <1>4 DEF Searching, LoopPhases
  <2>. QED  BY <2>1, <2>2, <2>3, <1>4
<1>8. run' \in StartPhases => claim_cache = {}
  BY <1>4 DEF WorkerInv, CacheSound, StartPhases, LoopPhases
<1>. QED  BY <1>1, <1>2, <1>4, <1>5, <1>6, <1>7, <1>8, ControlKeepsInv
     DEF Saved, StartPhases

\* The steps of a connection thread that neither take nor drop an assignment.
LEMMA ThreadControlKeepsInv ==
    ASSUME WorkerInv, TypeOK', NEW t \in Threads,
           StartThread(t) \/ StartConnection(t) \/ Win(t) \/ CatchSearchError(t) \/ Leave(t)
    PROVE  WorkerInv'
<1>1. UNCHANGED <<db, claimVars, payout_destination, stop_requested, run, forgetting, work>>
  BY DEF StartThread, StartConnection, Win, CatchSearchError, Leave, controlVars, flagVars
<1>2. Held' = Held
  BY <1>1 DEF Held, ProofsIn, Memory, claimVars
<1>3. run \in LoopPhases
  BY DEF StartThread, StartConnection, Win, CatchSearchError, Leave, WorkerInv, ThreadsInLoop,
         LoopPhases
<1>4. ThreadsInLoop'
  <2> SUFFICES ASSUME NEW u \in Threads
               PROVE  /\ pc'[u] # "off" => run' \in LoopPhases
                      /\ work'[u] # None <=> pc'[u] \in {"assigned", "capture", "won"}
    BY DEF ThreadsInLoop
  <2>1. CASE u = t
    BY <2>1, <1>1, <1>3, ZenonT(30) DEF StartThread, StartConnection, Win, CatchSearchError, Leave,
       WorkerInv,
                            ThreadsInLoop, TypeOK
  <2>2. CASE u # t
    BY <2>2, <1>1, ZenonT(30) DEF StartThread, StartConnection, Win, CatchSearchError, Leave, WorkerInv,
                      ThreadsInLoop, TypeOK
  <2>. QED  BY <2>1, <2>2
<1>5. Searching' => Searching
  BY <1>1, <1>3 DEF Searching, StartThread, StartConnection, Win, CatchSearchError, Leave
<1>6. StartsEmpty'
  BY <1>1, <1>2 DEF WorkerInv, StartsEmpty
<1>. QED  BY <1>1, <1>3, <1>4, <1>5, <1>6, ControlKeepsInv
     DEF WorkerInv, Saved, StartPhases, LoopPhases

\* A bounty spent or restored by the chain keeps the invariant: the worker learns of
\* it only in Refresh.
LEMMA CoinKeepsInv ==
    ASSUME WorkerInv, TypeOK', NEW o \in Outpoints, CoinChange(o)
    PROVE  WorkerInv'
<1>1. UNCHANGED <<db, claimVars, payout_destination, stop_requested, run, forgetting, pc, work>>
  BY DEF CoinChange, flagVars, controlVars, threadVars
<1>2. Held' = Held
  BY <1>1 DEF Held, ProofsIn, Memory, claimVars
<1>3. ThreadsInLoop' /\ StartsEmpty' /\ (Searching' => Searching)
  BY <1>1, <1>2 DEF WorkerInv, ThreadsInLoop, StartsEmpty, Searching
<1>. QED  BY <1>1, <1>3, ControlKeepsInv DEF WorkerInv, CacheSound, Saved

\* The two steps that only write memory to the database.
LEMMA SaveKeepsInv ==
    ASSUME WorkerInv, TypeOK', SaveForgotten \/ JoinThreads
    PROVE  WorkerInv'
<1>1. UNCHANGED <<claimVars, payout_destination, work>> /\ Saved
  BY DEF SaveForgotten, JoinThreads, SaveOk, SaveFails, Saved, controlVars, threadVars
<1>2. Held' = Held
  BY <1>1 DEF Held, ProofsIn, Memory, claimVars
<1>3. CASE SaveForgotten
  <2>1. /\ UNCHANGED pc /\ ~forgetting' /\ run \in {"resubmit", "submit"}
        /\ \/ UNCHANGED <<run, stop_requested>>
           \/ run = "submit" /\ run' = "abort" /\ stop_requested'
           \/ run = "resubmit" /\ run' = "ended"
    BY <1>3 DEF SaveForgotten, Throw, threadVars, WorkerInv
  <2>2. ThreadsInLoop' /\ StartsEmpty' /\ (Searching' => Searching)
    BY <1>1, <1>2, <2>1, SMT DEF WorkerInv, ThreadsInLoop, StartsEmpty, Searching, LoopPhases
  <2>. QED  BY <1>1, <2>1, <2>2, ControlKeepsInv DEF WorkerInv, CacheSound, StartPhases,
               LoopPhases
<1>4. CASE JoinThreads
  <2>1. /\ run' = "ended" /\ run \in {"join", "abort"} /\ ~forgetting /\ UNCHANGED forgetting
        /\ \A t \in Threads : pc'[t] = "off" /\ work[t] = None
    BY <1>4 DEF JoinThreads, Joinable, WorkerInv, ThreadsInLoop, TypeOK
  <2>2. ThreadsInLoop' /\ StartsEmpty' /\ ~Searching'
    BY <1>1, <2>1 DEF ThreadsInLoop, StartsEmpty, Searching, LoopPhases
  <2>. QED  BY <1>1, <2>1, <2>2, ControlKeepsInv DEF StartPhases, LoopPhases
<1>. QED  BY <1>3, <1>4

-----------------------------------------------------------------------------
(* Start-up and crashes: no thread runs and nothing is cached              *)

LEMMA NoThreads ==
    ASSUME WorkerInv, run \notin LoopPhases
    PROVE  \A t \in Threads : pc[t] = "off" /\ work[t] = None
BY DEF WorkerInv, ThreadsInLoop

\* What is left to show for a step that leaves the cache empty and no thread.
LEMMA EmptyKeepsInv ==
    ASSUME TypeOK', RecordsGood', claim_cache' = {}, run' \notin LoopPhases, ~forgetting',
           StartsEmpty', \A t \in Threads : pc'[t] = "off" /\ work'[t] = None
    PROVE  WorkerInv'
<1>1. ThreadsInLoop' /\ WorkPays' /\ LiveCached' /\ CompletedCancelled'
  BY DEF ThreadsInLoop, WorkPays, LiveCached, CompletedCancelled
<1>2. CacheSound' /\ ProofsCached'
  BY DEF CacheSound, ProofsCached, Searching
<1>. QED  BY <1>1, <1>2 DEF WorkerInv

\* Load at the start of a session keeps the invariant, whether it accepts the record,
\* finds none or rejects it.
LEMMA LoadKeepsInv ==
    ASSUME WorkerInv, TypeOK', Load
    PROVE  WorkerInv'
<1>1. /\ \A t \in Threads : pc'[t] = "off" /\ work'[t] = None
      /\ ~forgetting' /\ UNCHANGED db
      /\ run' \in {"resubmit", "ended"} /\ claim_cache' = {}
  BY NoThreads DEF Load, WorkerInv, LoopPhases, threadVars
<1>2. Good(Memory')
  <2>1. CASE UNCHANGED <<proposals, ready, completed>>
    <3>1. Memory' = Memory
      BY <2>1 DEF Memory
    <3>. QED  BY <3>1 DEF WorkerInv, RecordsGood
  <2>2. CASE /\ db # None
             /\ proposals' = db.pending /\ ready' = db.ready /\ completed' = db.completed
    <3>1. Memory' = db
      BY <2>2 DEF Memory, WorkerInv, TypeOK, Records
    <3>. QED  BY <2>2, <3>1 DEF WorkerInv, RecordsGood
  <2>. QED  BY <2>1, <2>2 DEF Load
<1>3. RecordsGood'
  BY <1>1, <1>2, SavedRecords DEF WorkerInv, Saved
<1>4. StartsEmpty'
  BY <1>1 DEF StartsEmpty
<1>. QED  BY <1>1, <1>3, <1>4, EmptyKeepsInv DEF LoopPhases

\* Dropping proposals keeps a record good.
LEMMA FewerPending ==
    ASSUME NEW record, Good(record), NEW other, other.pending \subseteq record.pending,
           other.ready = record.ready, other.completed = record.completed
    PROVE  Good(other)
<1>1. IsFiniteSet(other.pending) /\ Cardinality(other.pending) <= Cardinality(record.pending)
  BY FS_Subset DEF Good
<1>2. Cardinality(other.pending) \in Nat /\ Cardinality(record.pending) \in Nat
  BY <1>1, FS_CardinalityType DEF Good
<1>3. ProofsIn(other) = ProofsIn(record)
  BY DEF ProofsIn
<1>4. Loadable(other)
  <2>1. Cardinality(other.pending) <= MAX_PENDING_CLAIMS
    BY <1>1, <1>2, WorkerAssumption, SMT DEF Good, Loadable
  <2>. QED  BY <2>1 DEF Good, Loadable
<1>. QED  BY <1>1, <1>3, <1>4 DEF Good

\* Dropping the proposals that do not pay to the configured destination, before the
\* search starts, keeps the invariant, whether or not the record can be written.
LEMMA DropOtherPayoutsKeepsInv ==
    ASSUME WorkerInv, TypeOK', DropOtherPayouts
    PROVE  WorkerInv'
<1>1. /\ \A t \in Threads : pc'[t] = "off" /\ work'[t] = None
      /\ claim_cache' = {} /\ ~forgetting' /\ run' \in {"first", "ended"}
      /\ UNCHANGED <<ready, completed, stop_requested>>
  BY NoThreads DEF DropOtherPayouts, WorkerInv, CacheSound, LoopPhases, StartPhases, threadVars,
                   flagVars
<1>2. Good(Memory')
  <2>1. Memory'.pending \subseteq Memory.pending
    BY DEF DropOtherPayouts, Memory
  <2>2. Memory'.ready = Memory.ready /\ Memory'.completed = Memory.completed
    BY <1>1 DEF Memory
  <2>. QED  BY <2>1, <2>2, FewerPending DEF WorkerInv, RecordsGood
<1>3. RecordsGood'
  BY <1>2, SavedRecords DEF DropOtherPayouts, SaveOk, SaveFails, Saved, WorkerInv
<1>4. StartsEmpty'
  <2>1. Held' = Held
    BY <1>1 DEF Held, ProofsIn, Memory
  <2>. QED  BY <1>1, <2>1 DEF StartsEmpty, WorkerInv, DropOtherPayouts
<1>. QED  BY <1>1, <1>3, <1>4, EmptyKeepsInv DEF LoopPhases

\* The empty record is good.
LEMMA EmptyGood ==
    Good([pending |-> {}, ready |-> None, completed |-> <<>>])
<1> DEFINE r == [pending |-> {}, ready |-> None, completed |-> <<>>]
<1>1. IsFiniteSet({}) /\ Cardinality({}) = 0
  BY FS_EmptySet
<1>2. DOMAIN r.completed = {} /\ Len(r.completed) = 0
  BY SMT
<1>3. Loadable(r)
  BY <1>1, <1>2, WorkerAssumption, SMT DEF Loadable
<1>4. ProofsIn(r) = {}
  BY <1>2 DEF ProofsIn
<1>. QED  BY <1>1, <1>3, <1>4 DEF Good

\* A crash loses memory and keeps the record, hence the invariant.
LEMMA CrashKeepsInv ==
    ASSUME WorkerInv, TypeOK', Crash
    PROVE  WorkerInv'
<1>1. Memory' = [pending |-> {}, ready |-> None, completed |-> <<>>] /\ UNCHANGED db
  BY DEF Crash, Memory
<1>2. RecordsGood'
  BY <1>1, EmptyGood, SavedRecords DEF WorkerInv, Saved
<1>3. StartsEmpty'
  BY DEF Crash, StartsEmpty
<1>. QED  BY <1>2, <1>3, EmptyKeepsInv DEF Crash, LoopPhases

\* The worker starts in the invariant.
LEMMA InitKeepsInv ==
    ASSUME Init
    PROVE  WorkerInv
<1>1. TypeOK
  <2>1. calls \in 0..MaxCalls /\ crashes \in 0..MaxCrashes /\ saveFailures \in 0..MaxSaveFailures
    BY WorkerAssumption, SMT DEF Init
  <2>2. completed \in Seq(Claims)
    BY SMT DEF Init
  <2>. QED  BY <2>1, <2>2 DEF Init, TypeOK
<1>2. RecordsGood
  BY EmptyGood DEF Init, RecordsGood, Memory
<1>3. ThreadsInLoop /\ WorkPays /\ LiveCached /\ CompletedCancelled
  BY DEF Init, ThreadsInLoop, WorkPays, LiveCached, CompletedCancelled
<1>4. StartsEmpty /\ CacheSound /\ ProofsCached
  BY DEF Init, StartsEmpty, CacheSound, ProofsCached, Searching, LoopPhases, StartPhases
<1>. QED  BY <1>1, <1>2, <1>3, <1>4 DEF WorkerInv, Init

-----------------------------------------------------------------------------
(* Refresh, cached work and eviction                                       *)

\* Refresh keeps the invariant: it cancels and uncaches the work of retired bounties only.
LEMMA RefreshKeepsInv ==
    ASSUME WorkerInv, TypeOK', NEW recent \in SUBSET Outpoints, NEW blocked \in SUBSET Outpoints,
           NEW wallet_ready \in BOOLEAN, Refresh(recent, blocked, wallet_ready)
    PROVE  WorkerInv'
<1> DEFINE retired == Retired(recent)
<1>1. /\ UNCHANGED <<db, proposals, ready, completed, payout_destination, stop_requested, forgetting,
                     pc, work>>
      /\ run \in {"first", "refresh"} /\ run' = "loop" /\ ~forgetting
      /\ claim_cache' = claim_cache \ retired
      /\ unavailable \ retired \subseteq unavailable'
  BY DEF Refresh, Refreshing, flagVars, controlVars, threadVars, WorkerInv
<1>2. Held' = Held /\ Memory' = Memory
  BY <1>1 DEF Held, ProofsIn, Memory
<1>3. \A w \in retired : Idle(w) /\ ~HasCompleted(w.tx.prevout)
  BY DEF Retired
<1> HIDE DEF retired
<1>4. RecordsGood'
  BY <1>1, <1>2, SavedRecords DEF WorkerInv, Saved, RecordsGood
<1>5. ThreadsInLoop' /\ StartsEmpty'
  BY <1>1 DEF WorkerInv, ThreadsInLoop, StartsEmpty, LoopPhases
<1>6. CacheSound'
  BY <1>1 DEF WorkerInv, CacheSound, IsP2CClaimPayout, LoopPhases, StartPhases
<1>7. WorkPays'
  BY <1>1 DEF WorkerInv, WorkPays, IsP2CClaimPayout
<1>8. LiveCached'
  BY <1>1, <1>3, ZenonT(30) DEF WorkerInv, LiveCached, Idle
<1>9. CompletedCancelled'
  BY <1>1, <1>2, <1>3, SMT DEF WorkerInv, CompletedCancelled, HasCompleted, Idle
<1>10. ProofsCached'
  <2> SUFFICES ASSUME Searching', NEW c \in Held
               PROVE  \E w \in claim_cache' : w.tx = c.tx
    BY <1>2 DEF ProofsCached
  <2>1. run = "refresh" /\ Searching
    BY <1>1 DEF Searching, WorkerInv, ThreadsInLoop, StartsEmpty, LoopPhases
  <2>2. PICK w \in claim_cache : w.tx = c.tx
    BY <2>1 DEF WorkerInv, ProofsCached
  <2>3. HasCompleted(w.tx.prevout)
    BY <2>2 DEF HasCompleted
  <2>. QED  BY <1>1, <1>3, <2>2, <2>3
<1>. QED  BY <1>1, <1>4, <1>5, <1>6, <1>7, <1>8, <1>9, <1>10, ZenonT(30) DEF WorkerInv

\* Giving up an assignment: the object is cancelled for nobody else.
LEMMA DropKeepsInv ==
    ASSUME WorkerInv, TypeOK', NEW t \in Threads, EndAttempt(t) \/ TooLate(t)
    PROVE  WorkerInv'
<1>1. /\ UNCHANGED <<db, proposals, claim_cache, ready, completed, payout_destination,
                     stop_requested, run, forgetting>>
      /\ pc[t] \in {"assigned", "capture", "won"}
      /\ pc' = [pc EXCEPT ![t] = "next"] /\ work' = [work EXCEPT ![t] = None]
      /\ \A w \in unavailable : LiveNext(w) => w \in unavailable'
  BY DEF EndAttempt, TooLate, Release, flagVars, controlVars
<1>2. Held' = Held /\ Memory' = Memory
  BY <1>1 DEF Held, ProofsIn, Memory
<1>3. \A u \in Threads : /\ pc'[u] = IF u = t THEN "next" ELSE pc[u]
                         /\ work'[u] = IF u = t THEN None ELSE work[u]
  BY <1>1 DEF WorkerInv, TypeOK
<1>4. RecordsGood'
  BY <1>1, <1>2, SavedRecords DEF WorkerInv, Saved, RecordsGood
<1>5. ThreadsInLoop'
  BY <1>1, <1>3, SMT DEF WorkerInv, ThreadsInLoop
<1>6. StartsEmpty'
  BY <1>1, <1>2, ZenonT(30) DEF WorkerInv, StartsEmpty
<1>7. CacheSound' /\ WorkPays'
  BY <1>1, <1>3, SMT DEF WorkerInv, CacheSound, WorkPays, IsP2CClaimPayout
<1>8. LiveCached'
  BY <1>1, <1>3, SMTT(30) DEF WorkerInv, LiveCached, LiveNext
<1>9. CompletedCancelled'
  BY <1>1, <1>2, <1>3, SMT DEF WorkerInv, CompletedCancelled, HasCompleted, LiveNext
<1>10. ProofsCached'
  BY <1>1, <1>2, <1>3 DEF WorkerInv, ProofsCached, Searching
<1>. QED  BY <1>1, <1>4, <1>5, <1>6, <1>7, <1>8, <1>9, <1>10, ZenonT(30) DEF WorkerInv

\* A thread that takes the cached challenge of a bounty works on the object in the cache.
LEMMA AssignCachedKeepsInv ==
    ASSUME WorkerInv, TypeOK', NEW t \in Threads, NEW o \in Outpoints, AssignCached(t, o)
    PROVE  WorkerInv'
<1>1. PICK w \in claim_cache : w \notin unavailable /\ work' = [work EXCEPT ![t] = w]
  BY DEF AssignCached, ForOutpoint
<1>2. /\ UNCHANGED <<db, claimVars, payout_destination, stop_requested, run, forgetting>>
      /\ pc[t] = "next" /\ pc' = [pc EXCEPT ![t] = "assigned"]
  BY DEF AssignCached, flagVars, controlVars
<1>3. Held' = Held /\ Memory' = Memory
  BY <1>2 DEF Held, ProofsIn, Memory, claimVars
<1>4. \A u \in Threads : /\ pc'[u] = IF u = t THEN "assigned" ELSE pc[u]
                         /\ work'[u] = IF u = t THEN w ELSE work[u]
  BY <1>1, <1>2, ZenonT(30) DEF WorkerInv, TypeOK
<1>5. w # None /\ run \in LoopPhases
  BY <1>2, WorkerAssumption, SMT DEF WorkerInv, TypeOK, ThreadsInLoop
<1>6. RecordsGood'
  BY <1>2, <1>3, SavedRecords DEF WorkerInv, Saved, RecordsGood
<1>7. ThreadsInLoop'
  BY <1>2, <1>4, <1>5 DEF WorkerInv, ThreadsInLoop
<1>8. StartsEmpty'
  BY <1>2, <1>3 DEF WorkerInv, StartsEmpty
<1>9. CacheSound' /\ WorkPays'
  BY <1>2, <1>4, <1>5 DEF WorkerInv, CacheSound, WorkPays, IsP2CClaimPayout, claimVars
<1>10. LiveCached'
  BY <1>2, <1>4, ZenonT(30) DEF WorkerInv, LiveCached, claimVars
<1>11. CompletedCancelled'
  BY <1>2, <1>3, <1>4, SMT DEF WorkerInv, CompletedCancelled, HasCompleted, claimVars
<1>12. ProofsCached'
  BY <1>2, <1>3, <1>4 DEF WorkerInv, ProofsCached, Searching, claimVars
<1>. QED  BY <1>2, <1>6, <1>7, <1>8, <1>9, <1>10, <1>11, <1>12, ZenonT(30) DEF WorkerInv

\* What eviction removes from the cache is idle and has no completed proof.
LEMMA EvictionSafe ==
    ASSUME WorkerInv, NEW o \in Outpoints, NEW evicted \in {{}} \cup Evictions(o),
           NEW w \in claim_cache, w \notin Uncache(evicted)
    PROVE  Idle(w) /\ ~HasCompleted(w.tx.prevout)
<1>1. PICK tx \in evicted : tx.prevout = w.tx.prevout
  BY DEF Uncache
<1>2. tx \in Evictable
  BY <1>1 DEF Evictions
<1>. QED  BY <1>1, <1>2 DEF Evictable, ForOutpoint

\* What eviction leaves in the cache still has its proposal.
LEMMA EvictionPending ==
    ASSUME WorkerInv, NEW o \in Outpoints, NEW evicted \in {{}} \cup Evictions(o),
           NEW w \in Uncache(evicted)
    PROVE  w \in claim_cache /\ w.tx \in proposals \ evicted
BY DEF WorkerInv, CacheSound, Uncache

\* A bounty passed over after an eviction keeps the invariant: the evicted proposal had
\* no proof that depends on it.
LEMMA SkipBountyKeepsInv ==
    ASSUME WorkerInv, TypeOK', NEW t \in Threads, NEW o \in Outpoints,
           NEW evicted \in {{}} \cup Evictions(o), SkipBounty(t, o, evicted)
    PROVE  WorkerInv'
<1>1. /\ UNCHANGED <<db, ready, completed, payout_destination, stop_requested, run, forgetting,
                     pc, work>>
      /\ pc[t] = "next" /\ ~stop_requested
      /\ proposals' = proposals \ evicted /\ claim_cache' = Uncache(evicted)
      /\ \A w \in unavailable : LiveNext(w) => w \in unavailable'
  BY DEF SkipBounty, flagVars, controlVars, threadVars, Cancelled
<1>2. Held' = Held
  BY <1>1 DEF Held, ProofsIn, Memory
<1>3. Good(Memory')
  <2>1. Memory'.pending \subseteq Memory.pending
    BY <1>1 DEF Memory
  <2>2. Memory'.ready = Memory.ready /\ Memory'.completed = Memory.completed
    BY <1>1 DEF Memory
  <2>. QED  BY <2>1, <2>2, FewerPending DEF WorkerInv, RecordsGood
<1>4. RecordsGood'
  BY <1>1, <1>3, SavedRecords DEF WorkerInv, Saved
<1>5. ThreadsInLoop' /\ StartsEmpty'
  BY <1>1, <1>2 DEF WorkerInv, ThreadsInLoop, StartsEmpty
<1>6. CacheSound' /\ WorkPays'
  BY <1>1, EvictionPending, ZenonT(30) DEF WorkerInv, CacheSound, WorkPays, IsP2CClaimPayout
<1>7. LiveCached'
  BY <1>1, EvictionSafe DEF WorkerInv, LiveCached, LiveNext, Idle
<1>8. CompletedCancelled'
  BY <1>1, <1>2, EvictionPending, SMTT(30) DEF WorkerInv, CompletedCancelled, HasCompleted, LiveNext
<1>9. ProofsCached'
  BY <1>1, <1>2, EvictionSafe, SMT DEF WorkerInv, ProofsCached, Searching, HasCompleted
<1>. QED  BY <1>1, <1>4, <1>5, <1>6, <1>7, <1>8, <1>9, ZenonT(30) DEF WorkerInv

-----------------------------------------------------------------------------
(* New work and completion                                                 *)

\* A new proposal keeps the record good: the eviction made room for it.
LEMMA NewProposalGood ==
    ASSUME WorkerInv, NEW o \in Outpoints, NEW evicted \in Evictions(o), NEW tx \in ClaimTxs(o),
           proposals' = (proposals \ evicted) \cup {tx}, UNCHANGED <<ready, completed>>
    PROVE  Good(Memory')
<1>1. tx.prevout = o
  BY DEF ClaimTxs, PendingFor
<1>2. IsFiniteSet(proposals) /\ Cardinality(proposals) \in Nat
      /\ Cardinality(proposals) <= MAX_PENDING_CLAIMS
  BY FS_CardinalityType DEF WorkerInv, RecordsGood, Good, Loadable, Memory
<1>3. \A tx1, tx2 \in proposals : tx1.prevout = tx2.prevout => tx1 = tx2
  BY DEF WorkerInv, RecordsGood, Good, Memory
<1>4. /\ IsFiniteSet(proposals') /\ Cardinality(proposals') <= MAX_PENDING_CLAIMS
      /\ \A tx1, tx2 \in proposals' : tx1.prevout = tx2.prevout => tx1 = tx2
  <2>1. CASE PendingFor(o) # {}
    <3>1. tx \in proposals /\ evicted = {}
      BY <2>1 DEF ClaimTxs, PendingFor, Evictions
    <3>2. proposals' = proposals
      BY <3>1
    <3>. QED  BY <3>2, <1>2, <1>3
  <2>2. CASE PendingFor(o) = {}
    <3>1. \A tx1 \in proposals : tx1.prevout # o
      BY <2>2 DEF PendingFor
    <3>2. \A tx1, tx2 \in proposals' : tx1.prevout = tx2.prevout => tx1 = tx2
      BY <3>1, <1>1, <1>3
    <3>3. tx \notin proposals \ evicted
      BY <3>1, <1>1
    <3>4. /\ IsFiniteSet(proposals \ evicted) /\ Cardinality(proposals \ evicted) \in Nat
          /\ Cardinality(proposals \ evicted) < MAX_PENDING_CLAIMS
      <4>1. CASE Cardinality(proposals) < MAX_PENDING_CLAIMS
        <5>1. evicted = {}
          BY <4>1 DEF Evictions
        <5>2. proposals \ evicted = proposals
          BY <5>1
        <5>. QED  BY <4>1, <5>2, <1>2
      <4>2. CASE ~(Cardinality(proposals) < MAX_PENDING_CLAIMS)
        <5>1. PICK e \in Evictable : evicted = {e}
          BY <2>2, <4>2 DEF Evictions
        <5>2. e \in proposals
          BY <5>1 DEF Evictable
        <5>3. /\ IsFiniteSet(proposals \ evicted)
              /\ Cardinality(proposals \ evicted) = Cardinality(proposals) - 1
          BY <1>2, <5>1, <5>2, FS_RemoveElement
        <5>4. Cardinality(proposals \ evicted) \in Nat
          BY <5>3, FS_CardinalityType
        <5>. QED  BY <1>2, <5>3, <5>4, WorkerAssumption, SMT
      <4>. QED  BY <4>1, <4>2
    <3>5. /\ IsFiniteSet(proposals')
          /\ Cardinality(proposals') = Cardinality(proposals \ evicted) + 1
      BY <3>3, <3>4, FS_AddElement, ZenonT(30)
    <3>. QED  BY <3>2, <3>4, <3>5, WorkerAssumption, SMT
  <2>. QED  BY <2>1, <2>2
<1>5. Loadable(Memory')
  BY <1>4, SMT DEF WorkerInv, RecordsGood, Good, Loadable, Memory
<1>6. ProofsIn(Memory') = ProofsIn(Memory)
  BY DEF ProofsIn, Memory
<1>. QED  BY <1>4, <1>5, <1>6 DEF WorkerInv, RecordsGood, Good, Memory

\* A new challenge enters the cache together with its proposal, within the bound.
LEMMA AssignNewKeepsInv ==
    ASSUME WorkerInv, TypeOK', NEW t \in Threads, NEW o \in Outpoints, NEW evicted \in Evictions(o),
           NEW tx \in ClaimTxs(o), NEW w \in FreshWork(tx), AssignNew(t, o, tx, evicted, w)
    PROVE  WorkerInv'
<1>1. /\ UNCHANGED <<ready, completed, payout_destination, stop_requested, run, forgetting>>
      /\ pc[t] = "next" /\ ~stop_requested /\ ForOutpoint(claim_cache, o) = {}
      /\ proposals' = (proposals \ evicted) \cup {tx} /\ claim_cache' = Uncache(evicted) \cup {w}
      /\ \A v \in unavailable : LiveNext(v) => v \in unavailable'
      /\ Saved
  BY DEF AssignNew, SaveOk, SaveFails, Saved, flagVars, controlVars, Cancelled
<1>2. Held' = Held
  BY <1>1, ZenonT(30) DEF Held, ProofsIn, Memory
<1>3. w.tx = tx /\ tx.prevout = o /\ IsP2CClaimPayout(tx, payout_destination)
  BY SMT DEF FreshWork, ClaimTxs, PendingFor
<1>4. w # None
  BY <1>1, WorkerAssumption DEF TypeOK
<1>5. \E v \in {w, None}, p \in {"assigned", "throw"} :
          /\ v # None <=> p = "assigned"
          /\ \A u \in Threads : /\ pc'[u] = IF u = t THEN p ELSE pc[u]
                                /\ work'[u] = IF u = t THEN v ELSE work[u]
  <2>1. CASE pc' = [pc EXCEPT ![t] = "assigned"] /\ work' = [work EXCEPT ![t] = w]
    BY <1>4, <2>1, ZenonT(30) DEF WorkerInv, TypeOK
  <2>2. CASE Release(t, "throw")
    BY <2>2, SMT DEF WorkerInv, TypeOK, Release
  <2>. QED  BY <2>1, <2>2 DEF AssignNew
<1>6. PICK v \in {w, None}, p \in {"assigned", "throw"} :
          /\ v # None <=> p = "assigned"
          /\ \A u \in Threads : /\ pc'[u] = IF u = t THEN p ELSE pc[u]
                                /\ work'[u] = IF u = t THEN v ELSE work[u]
  BY <1>5
<1>7. work[t] = None /\ run \in LoopPhases /\ Searching
  BY <1>1 DEF WorkerInv, ThreadsInLoop, Searching
<1>8. ~HasCompleted(o)
  BY <1>1, <1>7 DEF WorkerInv, ProofsCached, HasCompleted, ForOutpoint
<1>9. RecordsGood'
  BY <1>1, NewProposalGood, SavedRecords DEF WorkerInv
<1>10. ThreadsInLoop'
  BY <1>1, <1>6, <1>7 DEF WorkerInv, ThreadsInLoop
<1>11. StartsEmpty'
  BY <1>1, <1>2 DEF WorkerInv, StartsEmpty
<1>12. CacheSound'
  <2>1. \A x \in Uncache(evicted) : x \in claim_cache /\ x.tx \in proposals \ evicted /\ x.tx.prevout # o
    BY <1>1, EvictionPending DEF ForOutpoint
  <2>2. \A x, y \in claim_cache' : x.tx.prevout = y.tx.prevout => x = y
    BY <1>1, <1>3, <2>1 DEF WorkerInv, CacheSound
  <2>3. \A x \in claim_cache' : x.tx \in proposals'
    BY <1>1, <1>3, <2>1
  <2>4. \A x \in claim_cache' : IsP2CClaimPayout(x.tx, payout_destination)
    BY <1>1, <1>3, <1>7, <2>1 DEF WorkerInv, CacheSound
  <2>. QED  BY <1>1, <1>7, <2>2, <2>3, <2>4 DEF CacheSound, LoopPhases, StartPhases,
               IsP2CClaimPayout
<1>13. WorkPays'
  BY <1>1, <1>3, <1>6 DEF WorkerInv, WorkPays, IsP2CClaimPayout
<1>14. LiveCached'
  <2> SUFFICES ASSUME NEW u \in Threads, work'[u] # None, work'[u] \notin unavailable'
               PROVE  work'[u] \in claim_cache'
    BY DEF LiveCached
  <2>1. CASE u = t
    BY <1>1, <1>6, <2>1
  <2>2. CASE u # t
    <3>1. work[u] = work'[u] /\ work[u] \notin unavailable
      BY <1>1, <1>6, <2>2 DEF LiveNext
    <3>2. work[u] \in claim_cache
      BY <3>1 DEF WorkerInv, LiveCached
    <3>3. work[u] \in Uncache(evicted)
      BY <3>2, EvictionSafe DEF Idle
    <3>. QED  BY <1>1, <3>1, <3>3
  <2>. QED  BY <2>1, <2>2
<1>15. CompletedCancelled'
  <2> SUFFICES ASSUME NEW x \in claim_cache' \cup {work'[u] : u \in Threads}, x # None,
                      HasCompleted(x.tx.prevout)
               PROVE  x \in unavailable'
    BY <1>2 DEF CompletedCancelled, HasCompleted
  <2>1. x # w
    BY <1>3, <1>8
  <2>2. x \in claim_cache \cup {work[u] : u \in Threads}
    BY <1>1, <1>6, <2>1 DEF Uncache
  <2>3. x \in unavailable
    BY <2>2, ZenonT(30) DEF WorkerInv, CompletedCancelled
  <2>. QED  BY <1>1, <2>3 DEF LiveNext
<1>16. ProofsCached'
  BY <1>1, <1>2, <1>7, EvictionSafe, SMT DEF WorkerInv, ProofsCached, HasCompleted
<1>. QED  BY <1>1, <1>9, <1>10, <1>11, <1>12, <1>13, <1>14, <1>15, <1>16, ZenonT(30) DEF WorkerInv

\* Every completed proof, and the object a winning thread holds, is the proposal
\* of a bounty of its own: so there is room for one more proof.
LEMMA RoomForProof ==
    ASSUME WorkerInv, NEW t \in Threads, pc[t] = "won", work[t] \notin unavailable
    PROVE  Len(completed) + (IF ready = None THEN 0 ELSE 1) < MAX_PENDING_CLAIMS
<1> DEFINE n == Len(completed) + 1
           lo == IF ready = None THEN 1 ELSE 0
           f == [i \in lo..n |-> IF i = 0 THEN ready.tx ELSE IF i = n THEN work[t].tx ELSE completed[i].tx]
<1>1. n \in Nat \ {0} /\ lo \in {0, 1} /\ completed \in Seq(Claims)
  BY SMT DEF WorkerInv, TypeOK
<1>2. work[t] # None /\ Searching
  BY DEF WorkerInv, ThreadsInLoop, Searching
<1>3. \A c \in Held : c.tx \in proposals
  BY <1>2 DEF WorkerInv, ProofsCached, CacheSound
<1>4. work[t].tx \in proposals /\ ~HasCompleted(work[t].tx.prevout)
  BY <1>2 DEF WorkerInv, LiveCached, CacheSound, CompletedCancelled
<1>5. \A i \in 1..Len(completed) : completed[i] \in Held
  BY <1>1, SMT DEF Held, ProofsIn, Memory
<1>6. ready # None => ready \in Held
  BY DEF Held, ProofsIn, Memory
<1>7. ASSUME NEW i \in lo..n
      PROVE  /\ f[i] \in proposals
             /\ f[i].prevout = IF i = 0 THEN ready.tx.prevout
                               ELSE IF i = n THEN work[t].tx.prevout ELSE completed[i].tx.prevout
  BY <1>1, <1>3, <1>4, <1>5, <1>6, SMTT(30)
<1>8. ASSUME NEW i \in lo..n, NEW j \in lo..n, f[i] = f[j]
      PROVE  i = j
  <2>1. \A k \in lo..n : k \in 1..Len(completed) \/ k = n \/ (k = 0 /\ ready # None)
    BY <1>1, SMTT(30)
  <2>2. \A k, l \in 1..Len(completed) : completed[k].tx.prevout = completed[l].tx.prevout => k = l
    BY <1>1, SMTT(30) DEF WorkerInv, RecordsGood, Good, Loadable, Memory
  <2>3. ready # None => \A k \in 1..Len(completed) : completed[k].tx.prevout # ready.tx.prevout
    BY <1>1, SMT DEF WorkerInv, RecordsGood, Good, Loadable, Memory
  <2>4. \A k \in 1..Len(completed) : completed[k].tx.prevout # work[t].tx.prevout
    BY <1>4, <1>5 DEF HasCompleted
  <2>5. ready # None => ready.tx.prevout # work[t].tx.prevout
    BY <1>4, <1>6 DEF HasCompleted
  <2>. QED  BY <1>1, <1>7, <1>8, <2>1, <2>2, <2>3, <2>4, <2>5, SMTT(30)
<1>9. f \in [lo..n -> proposals]
  BY <1>7
<1> HIDE DEF f
<1>10. f \in Injection(lo..n, proposals)
  BY <1>8, <1>9 DEF Injection, IsInjective
<1>11. IsFiniteSet(proposals) /\ Cardinality(proposals) <= MAX_PENDING_CLAIMS
  BY DEF WorkerInv, RecordsGood, Good, Loadable, Memory
<1>12. Cardinality(lo..n) <= Cardinality(proposals)
  BY <1>10, <1>11, FS_Injection
<1>13. Cardinality(lo..n) = n - lo + 1
  <2>1. lo \in Int /\ n \in Int /\ ~(lo > n)
    BY <1>1, SMT
  <2> HIDE DEF lo, n
  <2>. QED  BY <2>1, FS_Interval
<1>14. Cardinality(proposals) \in Nat
  BY <1>11, FS_CardinalityType
<1>. QED  BY <1>1, <1>11, <1>12, <1>13, <1>14, WorkerAssumption, SMTT(30)

\* A completed proof is appended within the bound that Load checks, and every object of
\* its bounty is cancelled, so that a second winner is late.
LEMMA CompleteKeepsInv ==
    ASSUME WorkerInv, TypeOK', NEW t \in Threads, Complete(t)
    PROVE  WorkerInv'
<1> DEFINE c == [tx |-> work[t].tx, dest |-> payout_destination]
<1>1. /\ UNCHANGED <<proposals, claim_cache, ready, payout_destination, stop_requested, run, forgetting>>
      /\ pc[t] = "won" /\ work[t] \notin unavailable /\ ~forgetting
      /\ completed' = Append(completed, c) /\ Saved
      /\ \A w \in unavailable \cup {work[t]} : LiveNext(w) => w \in unavailable'
  BY DEF Complete, SaveOk, SaveFails, Saved, Unlocked, flagVars, controlVars
<1>2. \E p \in {"next", "throw"} :
          \A u \in Threads : /\ pc'[u] = IF u = t THEN p ELSE pc[u]
                             /\ work'[u] = IF u = t THEN None ELSE work[u]
  <2>1. PICK p \in {"next", "throw"} : Release(t, p)
    BY DEF Complete
  <2>. QED  BY <2>1 DEF Release, WorkerInv, TypeOK
<1>3. completed \in Seq(Claims) /\ c.tx = work[t].tx /\ c.dest = payout_destination
  BY DEF WorkerInv, TypeOK
<1>4. work[t] # None /\ run \in LoopPhases /\ Searching
  BY <1>1 DEF WorkerInv, ThreadsInLoop, Searching
<1>5. c # None
  <2>1. work[t] \in Works
    BY <1>4, ZenonT(30) DEF WorkerInv, TypeOK
  <2>2. c \in Claims
    BY <2>1 DEF WorkerInv, TypeOK, Works, Claims
  <2>. QED  BY <2>2, WorkerAssumption
<1>6. work[t] \in claim_cache /\ ~HasCompleted(work[t].tx.prevout)
  BY <1>1, <1>4, ZenonT(30) DEF WorkerInv, LiveCached, CompletedCancelled
<1> HIDE DEF c
<1>7. /\ Len(completed') = Len(completed) + 1
      /\ DOMAIN completed' = 1..(Len(completed) + 1)
      /\ \A i \in 1..Len(completed) : completed'[i] = completed[i]
      /\ completed'[Len(completed) + 1] = c
  <2>1. completed' \in Seq(Claims)
    BY ZenonT(30) DEF TypeOK
  <2>. QED  BY <1>1, <1>3, <2>1, SMT
<1>8. Held' = Held \cup {c}
  BY <1>1, <1>3, <1>5, <1>7, SMT DEF Held, ProofsIn, Memory
<1>9. Good(Memory')
  <2>1. Loadable(Memory')
    <3>1. Len(completed) + (IF ready = None THEN 0 ELSE 1) < MAX_PENDING_CLAIMS
      BY <1>1, RoomForProof, ZenonT(30)
    <3>2. Len(completed') + (IF ready' = None THEN 0 ELSE 1) <= MAX_PENDING_CLAIMS
      BY <1>1, <1>3, <1>7, <3>1, WorkerAssumption, SMTT(30)
    <3>3. \A i \in 1..Len(completed) : completed[i] \in Held
      BY <1>3, SMT DEF Held, ProofsIn, Memory
    <3>4. ready # None => ready \in Held
      BY DEF Held, ProofsIn, Memory
    <3>5. \A d \in Held : d.tx.prevout # c.tx.prevout
      BY <1>3, <1>6, ZenonT(30) DEF HasCompleted
    <3>6. \A i, j \in 1..Len(completed) :
              completed[i].tx.prevout = completed[j].tx.prevout => i = j
      BY <1>3, SMTT(30) DEF WorkerInv, RecordsGood, Good, Loadable, Memory
    <3>7. ready # None => \A i \in 1..Len(completed) : completed[i].tx.prevout # ready.tx.prevout
      BY <1>3, SMT DEF WorkerInv, RecordsGood, Good, Loadable, Memory
    <3>8. \A i \in DOMAIN completed' : i \in 1..Len(completed) \/ i = Len(completed) + 1
      BY <1>3, <1>7, SMT
    <3>9. \A i, j \in DOMAIN completed' :
              completed'[i].tx.prevout = completed'[j].tx.prevout => i = j
      BY <1>7, <3>3, <3>5, <3>6, <3>8, ZenonT(30)
    <3>10. ready' # None => \A i \in DOMAIN completed' : completed'[i].tx.prevout # ready'.tx.prevout
      BY <1>1, <1>7, <3>4, <3>5, <3>7, <3>8, ZenonT(30)
    <3>11. Cardinality(proposals') <= MAX_PENDING_CLAIMS
      BY <1>1, ZenonT(30) DEF WorkerInv, RecordsGood, Good, Loadable, Memory
    <3>. QED  BY <3>2, <3>9, <3>10, <3>11 DEF Loadable, Memory
  <2>2. Authorised(c)
    BY <1>3, <1>4 DEF WorkerInv, WorkPays, IsP2CClaimPayout, Authorised
  <2>3. \A d \in ProofsIn(Memory') : Authorised(d)
    BY <1>8, <2>2 DEF Held, WorkerInv, RecordsGood, Good
  <2>. QED  BY <1>1, <2>1, <2>3 DEF WorkerInv, RecordsGood, Good, Memory
<1>10. RecordsGood'
  BY <1>1, <1>9, SavedRecords DEF WorkerInv
<1>11. ThreadsInLoop'
  BY <1>1, <1>2, <1>4 DEF WorkerInv, ThreadsInLoop
<1>12. StartsEmpty'
  BY <1>1, <1>4 DEF StartsEmpty, LoopPhases
<1>13. CacheSound' /\ WorkPays'
  BY <1>1, <1>2 DEF WorkerInv, CacheSound, WorkPays, IsP2CClaimPayout
<1>14. LiveCached'
  BY <1>1, <1>2 DEF WorkerInv, LiveCached, LiveNext
<1>15. CompletedCancelled'
  <2> SUFFICES ASSUME NEW w \in claim_cache' \cup {work'[u] : u \in Threads}, w # None,
                      NEW d \in Held \cup {c}, d.tx.prevout = w.tx.prevout
               PROVE  w \in unavailable'
    BY <1>8 DEF CompletedCancelled, HasCompleted
  <2>1. w \in claim_cache \cup {work[u] : u \in Threads} /\ LiveNext(w)
    BY <1>1, <1>2 DEF LiveNext
  <2>2. w \in unavailable \/ w = work[t]
    <3>1. CASE d \in Held
      BY <2>1, <3>1, ZenonT(30) DEF WorkerInv, CompletedCancelled, HasCompleted
    <3>2. CASE d = c
      <4>1. w \in unavailable \/ w \in claim_cache
        BY <2>1 DEF WorkerInv, LiveCached
      <4>. QED  BY <1>3, <1>6, <3>2, <4>1, ZenonT(30) DEF WorkerInv, CacheSound
    <3>. QED  BY <3>1, <3>2
  <2>. QED  BY <1>1, <2>1, <2>2
<1>16. ProofsCached'
  BY <1>1, <1>3, <1>4, <1>6, <1>8, ZenonT(30) DEF WorkerInv, ProofsCached
<1>. QED  BY <1>1, <1>10, <1>11, <1>12, <1>13, <1>14, <1>15, <1>16, ZenonT(30) DEF WorkerInv

-----------------------------------------------------------------------------
(* SubmitOne                                                               *)

\* The claim SubmitOne takes and the ones it leaves are those held, and no two
\* of them are for one bounty.
LEMMA QueueSplit ==
    ASSUME WorkerInv, Held # {}
    PROVE  /\ Next1 \in Held /\ Rest \in Seq(Claims)
           /\ Held = {Next1} \cup {Rest[i] : i \in DOMAIN Rest}
           /\ Len(Rest) + 1 = Len(completed) + (IF ready = None THEN 0 ELSE 1)
           /\ \A i, j \in DOMAIN Rest : Rest[i].tx.prevout = Rest[j].tx.prevout => i = j
           /\ \A i \in DOMAIN Rest : Rest[i].tx.prevout # Next1.tx.prevout
<1>1. /\ completed \in Seq(Claims)
      /\ \A i, j \in DOMAIN completed : completed[i].tx.prevout = completed[j].tx.prevout => i = j
      /\ ready # None => \A i \in DOMAIN completed : completed[i].tx.prevout # ready.tx.prevout
  BY DEF WorkerInv, TypeOK, RecordsGood, Good, Loadable, Memory
<1>2. Held = {completed[i] : i \in DOMAIN completed} \cup ({ready} \ {None})
  BY DEF Held, ProofsIn, Memory
<1>3. CASE ready # None
  BY <1>1, <1>2, <1>3, ZenonT(30) DEF Next1, Rest
<1>4. CASE ready = None
  <2>1. completed # <<>>
    BY <1>1, <1>2, <1>4, SMT
  <2>2. /\ Rest \in Seq(Claims) /\ Len(Rest) = Len(completed) - 1
        /\ \A i \in 1..(Len(completed) - 1) : Rest[i] = completed[i + 1]
        /\ Next1 = completed[1] /\ Len(completed) \in Nat \ {0}
    BY <1>1, <1>4, <2>1, SMT DEF Next1, Rest
  <2>3. DOMAIN Rest = 1..(Len(completed) - 1) /\ DOMAIN completed = 1..Len(completed)
    BY <1>1, <2>2, SMT
  <2>4. \A i \in DOMAIN Rest : i + 1 \in DOMAIN completed /\ Rest[i] = completed[i + 1]
    BY <2>2, <2>3, SMT
  <2>5. \A i \in DOMAIN completed : i = 1 \/ (i - 1 \in DOMAIN Rest /\ Rest[i - 1] = completed[i])
    BY <2>2, <2>3, SMT
  <2>6. Held = {Next1} \cup {Rest[i] : i \in DOMAIN Rest}
    <3>1. Held = {completed[i] : i \in DOMAIN completed}
      BY <1>2, <1>4
    <3>2. 1 \in DOMAIN completed
      BY <2>2, <2>3, SMT
    <3>3. ASSUME NEW c \in Held
          PROVE  c = Next1 \/ \E i \in DOMAIN Rest : c = Rest[i]
      <4>1. PICK i \in DOMAIN completed : c = completed[i]
        BY <3>1
      <4>. QED  BY <2>2, <2>5, <4>1
    <3>4. Next1 \in Held /\ \A i \in DOMAIN Rest : Rest[i] \in Held
      BY <2>2, <2>4, <3>1, <3>2, ZenonT(30)
    <3>. QED  BY <3>3, <3>4
  <2>7. \A i, j \in DOMAIN Rest : Rest[i].tx.prevout = Rest[j].tx.prevout => i = j
    <3> TAKE i, j \in DOMAIN Rest
    <3> HAVE Rest[i].tx.prevout = Rest[j].tx.prevout
    <3>1. i + 1 = j + 1
      BY <1>1, <2>4, SMT
    <3>. QED  BY <2>3, <3>1, SMT
  <2>8. \A i \in DOMAIN Rest : Rest[i].tx.prevout # Next1.tx.prevout
    <3> TAKE i \in DOMAIN Rest
    <3>1. i + 1 # 1 /\ 1 \in DOMAIN completed
      BY <2>2, <2>3, SMT
    <3>. QED  BY <1>1, <2>2, <2>4, <3>1, ZenonT(30)
  <2>. QED  BY <1>4, <2>2, <2>6, <2>7, <2>8, SMTT(30)
<1>. QED  BY <1>3, <1>4, ZenonT(30)

\* Forgetting a submitted claim, or one lost to somebody else.
LEMMA ForgetKeepsInv ==
    ASSUME WorkerInv, TypeOK', Held # {}, Forget(Next1), UNCHANGED <<db, payout_destination>>,
           run \in {"resubmit", "submit"}, ~stop_requested
    PROVE  WorkerInv'
<1> DEFINE claim == Next1
<1>1. /\ ready' = None /\ completed' = Rest /\ forgetting'
      /\ claim_cache' = claim_cache \ ForOutpoint(claim_cache, claim.tx.prevout)
      /\ proposals' = proposals \ PendingFor(claim.tx.prevout)
      /\ UNCHANGED <<run, stop_requested, pc, work>>
      /\ \A w \in unavailable : LiveNext(w) => w \in unavailable'
  BY DEF Forget, threadVars
<1>2. Held' = {Rest[i] : i \in DOMAIN Rest}
  BY <1>1 DEF Held, ProofsIn, Memory
<1>3. \A c \in Held' : c \in Held /\ c.tx.prevout # claim.tx.prevout
  BY <1>2, QueueSplit, ZenonT(30)
<1>4. HasCompleted(claim.tx.prevout)
  BY QueueSplit DEF HasCompleted
<1>5. Good(Memory')
  <2>1. IsFiniteSet(proposals') /\ Cardinality(proposals') <= MAX_PENDING_CLAIMS
    <3>1. /\ IsFiniteSet(proposals) /\ Cardinality(proposals) \in Nat
          /\ Cardinality(proposals) <= MAX_PENDING_CLAIMS
      BY FS_CardinalityType DEF WorkerInv, RecordsGood, Good, Loadable, Memory
    <3>2. proposals' \subseteq proposals
      BY <1>1
    <3>3. IsFiniteSet(proposals') /\ Cardinality(proposals') <= Cardinality(proposals)
      BY <3>1, <3>2, FS_Subset
    <3>4. Cardinality(proposals') \in Nat
      BY <3>3, FS_CardinalityType, ZenonT(30)
    <3>. QED  BY <3>1, <3>3, <3>4, WorkerAssumption, SMTT(30)
  <2>2. Len(Rest) <= MAX_PENDING_CLAIMS
    <3>1. Len(completed) + (IF ready = None THEN 0 ELSE 1) <= MAX_PENDING_CLAIMS
      BY DEF WorkerInv, RecordsGood, Good, Loadable, Memory
    <3>2. Rest \in Seq(Claims)
      BY QueueSplit
    <3>3. Len(Rest) \in Nat
      BY ONLY <3>2, SMT
    <3>. QED  BY <3>1, <3>3, QueueSplit, WorkerAssumption, SMTT(30)
  <2>3. Loadable(Memory')
    <3>1. \A i, j \in DOMAIN Rest : Rest[i].tx.prevout = Rest[j].tx.prevout => i = j
      BY QueueSplit
    <3>2. Len(Rest) \in Nat
      <4>1. Rest \in Seq(Claims)
        BY QueueSplit
      <4>. QED  BY <4>1, SMT
    <3>. QED  BY <1>1, <2>1, <2>2, <3>1, <3>2, SMT DEF Loadable, Memory
  <2>4. \A c \in ProofsIn(Memory') : Authorised(c)
    BY <1>3 DEF Held, WorkerInv, RecordsGood, Good
  <2>5. \A tx1, tx2 \in proposals' : tx1.prevout = tx2.prevout => tx1 = tx2
    BY <1>1 DEF WorkerInv, RecordsGood, Good, Memory
  <2>. QED  BY <2>1, <2>3, <2>4, <2>5, ZenonT(30) DEF Good, Memory
<1>6. RecordsGood'
  BY <1>5, SavedRecords DEF WorkerInv, Saved
<1>7. ThreadsInLoop' /\ StartsEmpty'
  BY <1>1 DEF WorkerInv, ThreadsInLoop, StartsEmpty
<1>8. CacheSound' /\ WorkPays'
  BY <1>1 DEF WorkerInv, CacheSound, WorkPays, IsP2CClaimPayout, ForOutpoint, PendingFor
<1>9. LiveCached'
  <2> SUFFICES ASSUME NEW t \in Threads, work[t] # None, work[t] \notin unavailable'
               PROVE  work[t] \in claim_cache'
    BY <1>1 DEF LiveCached
  <2>1. work[t] \notin unavailable
    BY <1>1 DEF LiveNext
  <2>2. work[t] \in claim_cache /\ work[t].tx.prevout # claim.tx.prevout
    BY <1>4, <2>1 DEF WorkerInv, LiveCached, CompletedCancelled
  <2>. QED  BY <1>1, <2>2 DEF ForOutpoint
<1>10. CompletedCancelled'
  BY <1>1, <1>3 DEF WorkerInv, CompletedCancelled, HasCompleted, LiveNext
<1>11. ProofsCached'
  BY <1>1, <1>3 DEF WorkerInv, ProofsCached, Searching, ForOutpoint
<1>. QED  BY <1>1, <1>6, <1>7, <1>8, <1>9, <1>10, <1>11, ZenonT(30) DEF WorkerInv

\* A claim that cannot be submitted now waits in the ready slot.
LEMMA RetainKeepsInv ==
    ASSUME WorkerInv, TypeOK', Held # {}, Retain(Next1), UNCHANGED <<db, payout_destination>>,
           run \in {"resubmit", "submit"}, ~forgetting, ~stop_requested
    PROVE  WorkerInv'
<1>1. /\ ready' = Next1 /\ completed' = Rest
      /\ UNCHANGED <<proposals, claim_cache, unavailable, forgetting, pc, work>>
      /\ \/ run = "submit" /\ run' = "abort"
         \/ run = "resubmit" /\ run' = "ended"
  BY DEF Retain, Throw, threadVars
<1>2. Next1 # None
  BY Next1Typed, WorkerAssumption DEF WorkerInv
<1>3. Held' = Held
  <2>1. Held' = {Rest[i] : i \in DOMAIN Rest} \cup {Next1}
    BY <1>1, <1>2 DEF Held, ProofsIn, Memory
  <2>. QED  BY <2>1, QueueSplit
<1>4. Good(Memory')
  <2>1. Loadable(Memory')
    BY <1>1, <1>2, QueueSplit, ZenonT(30) DEF WorkerInv, RecordsGood, Good, Loadable, Memory
  <2>2. \A c \in ProofsIn(Memory') : Authorised(c)
    BY <1>3 DEF Held, WorkerInv, RecordsGood, Good
  <2>. QED  BY <1>1, <2>1, <2>2, ZenonT(30) DEF WorkerInv, RecordsGood, Good, Memory
<1>5. RecordsGood'
  BY <1>4, SavedRecords DEF WorkerInv, Saved
<1>6. ThreadsInLoop' /\ StartsEmpty'
  BY <1>1 DEF WorkerInv, ThreadsInLoop, StartsEmpty, LoopPhases
<1>7. CacheSound' /\ WorkPays'
  BY <1>1 DEF WorkerInv, CacheSound, WorkPays, IsP2CClaimPayout, LoopPhases, StartPhases
<1>8. LiveCached' /\ CompletedCancelled'
  BY <1>1, <1>3 DEF WorkerInv, LiveCached, CompletedCancelled, HasCompleted
<1>9. ProofsCached'
  BY <1>1, <1>3 DEF WorkerInv, ProofsCached, Searching, LoopPhases
<1>. QED  BY <1>1, <1>5, <1>6, <1>7, <1>8, <1>9 DEF WorkerInv

\* SubmitOne keeps the invariant whether the claim is submitted, dropped or retained.
LEMMA SubmitOneKeepsInv ==
    ASSUME WorkerInv, TypeOK', SubmitOne
    PROVE  WorkerInv'
<1>1. /\ Held # {} /\ run \in {"resubmit", "submit"} /\ ~forgetting /\ ~stop_requested
      /\ UNCHANGED <<db, payout_destination>>
  BY DEF SubmitOne, controlVars
<1>2. CASE Recognize(Next1) \/ Commit(Next1) \/ LostRace(Next1)
  BY <1>1, <1>2, ForgetKeepsInv DEF Recognize, Commit, LostRace
<1>3. CASE Retain(Next1)
  BY <1>1, <1>3, RetainKeepsInv
<1>. QED  BY <1>2, <1>3 DEF SubmitOne

-----------------------------------------------------------------------------
(* The theorems                                                            *)

LEMMA NextKeepsInv ==
    ASSUME WorkerInv, [Next]_vars
    PROVE  WorkerInv'
<1>1. CASE RunStep
  <2>1. TypeOK'
    BY <1>1, RunTyped DEF WorkerInv
  <2>. QED  BY <1>1, <2>1, LoadKeepsInv, DropOtherPayoutsKeepsInv, SubmitOneKeepsInv, SaveKeepsInv,
               LoopKeepsInv, RefreshKeepsInv, ZenonT(30) DEF RunStep
<1>2. ASSUME NEW t \in Threads, StartThread(t) \/ Connect(t)
      PROVE  WorkerInv'
  <2>1. TypeOK'
    BY <1>2, ConnectTyped DEF WorkerInv
  <2>. QED  BY <1>2, <2>1, ThreadControlKeepsInv, DropKeepsInv, CompleteKeepsInv,
               AssignCachedKeepsInv, SkipBountyKeepsInv, AssignNewKeepsInv, ZenonT(30) DEF Connect, ThreadStep
<1>3. CASE \/ \E destination \in RewardAddresses : Configure(destination)
           \/ Stop \/ Shutdown
  <2>1. TypeOK'
    BY <1>3, ControlTyped DEF WorkerInv
  <2>. QED  BY <1>3, <2>1, CallKeepsInv
<1>4. CASE Joined
  <2>1. TypeOK'
    BY <1>4, ControlTyped, ZenonT(30) DEF WorkerInv
  <2>. QED  BY <1>4, <2>1, JoinedKeepsInv
<1>5. CASE Crash
  <2>1. TypeOK'
    BY <1>5, ControlTyped DEF WorkerInv
  <2>. QED  BY <1>5, <2>1, CrashKeepsInv
<1>6. ASSUME NEW o \in Outpoints, CoinChange(o)
      PROVE  WorkerInv'
  <2>1. TypeOK'
    BY <1>6, ControlTyped DEF WorkerInv
  <2>. QED  BY <1>6, <2>1, CoinKeepsInv
<1>7. CASE UNCHANGED vars
  <2>1. UNCHANGED <<db, chainVars, claimVars, offered, flagVars, controlVars, run, forgetting,
                    threadVars, crashes, saveFailures>>
    BY <1>7, ZenonT(30) DEF vars
  <2>2. TypeOK'
    BY <2>1, SMT DEF WorkerInv, TypeOK, chainVars, claimVars, flagVars, controlVars, threadVars
  <2>3. UNCHANGED <<db, claimVars, payout_destination, stop_requested, run, forgetting, pc, work>>
    BY <2>1 DEF flagVars, controlVars, threadVars
  <2>4. Held' = Held
    BY <2>3 DEF Held, ProofsIn, Memory, claimVars
  <2>5. ThreadsInLoop' /\ StartsEmpty' /\ (Searching' => Searching)
    BY <2>3, <2>4 DEF WorkerInv, ThreadsInLoop, StartsEmpty, Searching
  <2>. QED  BY <2>2, <2>3, <2>5, ControlKeepsInv DEF WorkerInv, CacheSound, Saved
<1>. QED  BY <1>1, <1>2, <1>3, <1>4, <1>5, <1>6, <1>7, ZenonT(30) DEF Next

\* The inductive invariant holds in every reachable state of the worker.
THEOREM WorkerInvariance == Spec => []WorkerInv
<1>1. Init => WorkerInv
  BY InitKeepsInv
<1>2. WorkerInv /\ [Next]_vars => WorkerInv'
  BY NextKeepsInv
<1>. QED  BY <1>1, <1>2, PTL DEF Spec

\* Load never refuses what Save wrote: no run of the worker, with any number of
\* threads, restarts, crashes and failing writes, saves more proofs than
\* MAX_PENDING_CLAIMS or two proofs for one bounty.
THEOREM SavedAlwaysLoads == Spec => []SavedStateLoads
<1>1. WorkerInv => SavedStateLoads
  BY DEF WorkerInv, RecordsGood, Good, SavedStateLoads
<1>. QED  BY <1>1, WorkerInvariance, PTL

\* All threads that may still complete a bounty search with one challenge, the
\* one that is cached and that eviction protects.
THEOREM ChallengesAgree == Spec => []OneLiveChallenge
<1>1. ASSUME WorkerInv, NEW t \in Threads, work[t] # None, work[t] \notin unavailable
      PROVE  work[t] \in claim_cache /\ PendingFor(work[t].tx.prevout) = {work[t].tx}
  <2>1. work[t] \in claim_cache /\ work[t].tx \in proposals
    BY <1>1 DEF WorkerInv, LiveCached, CacheSound
  <2>2. \A tx1, tx2 \in proposals : tx1.prevout = tx2.prevout => tx1 = tx2
    BY <1>1 DEF WorkerInv, RecordsGood, Good, Memory
  <2>. QED  BY <2>1, <2>2 DEF PendingFor
<1>2. WorkerInv => OneLiveChallenge
  BY <1>1 DEF OneLiveChallenge
<1>. QED  BY <1>2, WorkerInvariance, PTL

\* A completed proof pays to the address it was authorised for, however often
\* the reward address changes between its search and its submission.
THEOREM PayoutsAuthorised == Spec => []PayoutAuthorised
<1>1. WorkerInv => PayoutAuthorised
  BY DEF WorkerInv, RecordsGood, Good, PayoutAuthorised, Held, SavedProofs, Authorised
<1>. QED  BY <1>1, WorkerInvariance, PTL

-----------------------------------------------------------------------------
(* What is durable when, as long as no database write fails, and from it   *)
(* that the worker implements the claim ledger.  The inductive core is     *)
(* that in a session the saved proofs are exactly the held ones, except    *)
(* between the two durable effects of SubmitOne, when one more is saved.   *)

InSession == run \notin {"off", "load", "ended"}

SavedInv ==
    /\ db = None => Held = {} /\ proposals = {}
    /\ InSession => /\ db # None => proposals \subseteq db.pending
                    /\ ~forgetting => Held = SavedProofs
                    /\ forgetting => \E c \in SavedProofs : SavedProofs = Held \cup {c}

DurableInv == WorkerInv /\ SavedInv

-----------------------------------------------------------------------------
(* SavedInv is kept                                                        *)

\* Without failing writes a step that saves does save.
LEMMA NoSaveFails ==
    ASSUME MaxSaveFailures = 0, TypeOK
    PROVE  ~SaveFails
<1>1. saveFailures \in 0..MaxSaveFailures
  BY DEF TypeOK
<1>2. saveFailures \in 0..0
  BY <1>1, MaxSaveFailures = 0
<1>3. ~(saveFailures < 0)
  BY ONLY <1>2, SMT
<1>. QED  BY <1>3, MaxSaveFailures = 0 DEF SaveFails

\* Claims of the three kinds make a record.
LEMMA RecordMade ==
    ASSUME NEW p \in SUBSET Tx, NEW r \in Claims \cup {None}, NEW c \in Seq(Claims)
    PROVE  LET m == [pending |-> p, ready |-> r, completed |-> c] IN m \in Records /\ m # None
<1>1. [pending |-> p, ready |-> r, completed |-> c] \in Records
  BY SMT DEF Records
<1>2. None \notin Records
  BY WorkerAssumption
<1>. QED  BY <1>1, <1>2

\* What Save would write of the present memory is a record.
LEMMA MemoryRecord ==
    ASSUME TypeOK
    PROVE  Memory \in Records /\ Memory # None
<1>1. proposals \in SUBSET Tx /\ ready \in Claims \cup {None} /\ completed \in Seq(Claims)
  BY DEF TypeOK
<1>. QED  BY <1>1, RecordMade DEF Memory

\* A step that saves memory makes it durable.
LEMMA SaveEstablishes ==
    ASSUME TypeOK', db' = Memory', ~forgetting'
    PROVE  SavedInv' /\ SavedProofs' = Held'
<1>1. db' # None
  <2>1. proposals' \in SUBSET Tx /\ ready' \in Claims \cup {None} /\ completed' \in Seq(Claims)
    BY DEF TypeOK
  <2>2. Memory' # None
    BY <2>1, RecordMade DEF Memory
  <2>. QED  BY <2>2
<1>2. SavedProofs' = Held'
  BY <1>1 DEF SavedProofs, Held
<1>3. proposals' \subseteq db'.pending
  BY DEF Memory
<1>. QED  BY <1>1, <1>2, <1>3, ZenonT(30) DEF SavedInv

\* A step that touches neither memory nor the database keeps the invariant
\* unless it starts a session.
LEMMA QuietKeeps ==
    ASSUME SavedInv, UNCHANGED <<db, proposals, ready, completed, forgetting>>, InSession' => InSession
    PROVE  SavedInv' /\ Held' = Held /\ SavedProofs' = SavedProofs
<1>1. Held' = Held /\ SavedProofs' = SavedProofs
  BY DEF Held, SavedProofs, ProofsIn, Memory
<1>. QED  BY <1>1 DEF SavedInv

\* After a Load that the session goes on from, memory agrees with the record; Load
\* itself removes no saved proof.
LEMMA LoadKeeps ==
    ASSUME DurableInv, Load
    PROVE  SavedInv' /\ SavedProofs' = SavedProofs
<1>1. UNCHANGED db /\ ~forgetting' /\ SavedProofs' = SavedProofs
  BY DEF Load, DurableInv, WorkerInv, SavedProofs, ProofsIn
<1>2. CASE db = None
  <2>1. Held' = Held
    BY <1>2 DEF Load, Held, ProofsIn, Memory
  <2>. QED  BY <1>1, <1>2, <2>1 DEF Load, DurableInv, SavedInv, SavedProofs
<1>3. CASE db # None
  <2>1. Loadable(db)
    BY <1>3 DEF DurableInv, WorkerInv, RecordsGood, Good
  <2>2. proposals' = db.pending /\ ready' = db.ready /\ completed' = db.completed
    BY <1>3, <2>1 DEF Load
  <2>3. Held' = SavedProofs
    BY <1>3, <2>2 DEF Held, SavedProofs, ProofsIn, Memory
  <2>. QED  BY <1>1, <1>3, <2>2, <2>3 DEF SavedInv
<1>. QED  BY <1>2, <1>3

\* Forgetting a claim in memory leaves one saved proof more than held ones.
LEMMA ForgetKeeps ==
    ASSUME DurableInv, Held # {}, run \in {"resubmit", "submit"}, ~forgetting,
           Forget(Next1), UNCHANGED db
    PROVE  SavedInv' /\ SavedProofs' = SavedProofs /\ Next1 \in SavedProofs
           /\ SavedProofs = Held' \cup {Next1}
<1>1. Held = SavedProofs /\ SavedProofs' = SavedProofs
  BY DEF DurableInv, SavedInv, InSession, SavedProofs, ProofsIn
<1>2. Held' = {Rest[i] : i \in DOMAIN Rest}
  BY DEF Forget, Held, ProofsIn, Memory
<1>3. SavedProofs = Held' \cup {Next1} /\ Next1 \in SavedProofs
  BY <1>1, <1>2, QueueSplit DEF DurableInv
<1>4. db # None
  BY <1>3 DEF SavedProofs
<1>5. proposals' \subseteq db'.pending
  BY <1>4 DEF DurableInv, SavedInv, InSession, Forget
<1>. QED  BY <1>1, <1>3, <1>4, <1>5 DEF SavedInv, Forget

\* A claim SubmitOne retains is still held and still saved.
LEMMA RetainKeeps ==
    ASSUME DurableInv, Held # {}, run \in {"resubmit", "submit"}, ~forgetting,
           Retain(Next1), UNCHANGED db
    PROVE  SavedInv' /\ SavedProofs' = SavedProofs /\ Held' = Held
<1>1. Next1 # None
  BY Next1Typed, WorkerAssumption DEF DurableInv, WorkerInv
<1>2. Held' = {Rest[i] : i \in DOMAIN Rest} \cup {Next1}
  BY <1>1 DEF Retain, Held, ProofsIn, Memory
<1>3. Held' = Held
  BY <1>2, QueueSplit DEF DurableInv
<1>4. SavedProofs' = SavedProofs
  BY DEF SavedProofs, ProofsIn
<1>. QED  BY <1>3, <1>4 DEF DurableInv, SavedInv, InSession, Retain

\* Passing over a bounty, with or without an eviction, touches no proof.
LEMMA SkipKeeps ==
    ASSUME SavedInv, NEW t \in Threads, NEW o, NEW evicted, SkipBounty(t, o, evicted)
    PROVE  SavedInv' /\ SavedProofs' = SavedProofs /\ Held' = Held
<1>1. /\ UNCHANGED <<db, ready, completed, run, forgetting>>
      /\ proposals' \subseteq proposals
  BY DEF SkipBounty
<1>2. Held' = Held /\ SavedProofs' = SavedProofs
  BY <1>1 DEF Held, SavedProofs, ProofsIn, Memory
<1>. QED  BY <1>1, <1>2 DEF SavedInv, InSession

-----------------------------------------------------------------------------
(* What a step may do to the saved proofs and the wallet                   *)

Quiet ==
    /\ UNCHANGED <<walletTxs, coin>> /\ SavedProofs' = SavedProofs
    /\ forgetting' => forgetting /\ Held' = Held

CoinMoves ==
    /\ UNCHANGED walletTxs /\ SavedProofs' = SavedProofs
    /\ \E o \in Outpoints : \A p \in Outpoints \ {o} : coin'[p] = coin[p]
    /\ forgetting' => forgetting /\ Held' = Held

\* SubmitOne up to its Save: the claim is still saved, no longer held.
Forgotten(claim) ==
    /\ claim \in Claims /\ claim \in SavedProofs /\ run \in {"resubmit", "submit"} /\ ~forgetting
    /\ SavedProofs' = SavedProofs /\ SavedProofs = Held' \cup {claim}
DropsProof(claim) ==
    /\ Forgotten(claim) /\ UNCHANGED <<walletTxs, coin>>
    /\ claim.tx \in walletTxs \/ coin[claim.tx.prevout] # "open"
CommitsProof(claim) ==
    /\ Forgotten(claim)
    /\ claim.tx \notin walletTxs /\ walletTxs' = walletTxs \cup {claim.tx}
    /\ \A p \in Outpoints \ {claim.tx.prevout} : coin'[p] = coin[p]
    /\ coin[claim.tx.prevout] = "open"

SavesForgotten ==
    /\ forgetting /\ ~forgetting' /\ UNCHANGED <<walletTxs, coin>> /\ SavedProofs' = Held

FindsProof(c) ==
    /\ UNCHANGED <<walletTxs, coin>> /\ ~forgetting'
    /\ c \in Claims /\ SavedProofs' = SavedProofs \cup {c}
    /\ \A d \in SavedProofs : d.tx.prevout # c.tx.prevout
    /\ IsFiniteSet(SavedProofs) /\ Cardinality(SavedProofs) < MAX_PENDING_CLAIMS

StepShape ==
    \/ Quiet \/ CoinMoves \/ SavesForgotten
    \/ \E c \in Claims : DropsProof(c) \/ CommitsProof(c) \/ FindsProof(c)

\* The held proofs are no more than the slots they wait in.
LEMMA HeldBounded ==
    ASSUME TypeOK
    PROVE  /\ IsFiniteSet(Held)
           /\ Cardinality(Held) <= Len(completed) + (IF ready = None THEN 0 ELSE 1)
<1> DEFINE n == Len(completed)
           S == {completed[i] : i \in 1..n}
           f == [i \in 1..n |-> completed[i]]
<1>1. n \in Nat /\ completed \in Seq(Claims)
  <2>1. completed \in Seq(Claims)
    BY DEF TypeOK
  <2>. QED  BY ONLY <2>1, SMT
<1>2. Held = S \cup ({ready} \ {None})
  BY <1>1, SMT DEF Held, ProofsIn, Memory
<1>3. f \in Surjection(1..n, S)
  <2>1. f \in [1..n -> S] /\ \A s \in S : \E i \in 1..n : f[i] = s
    OBVIOUS
  <2>. QED  BY <2>1 DEF Surjection
<1>4. IsFiniteSet(1..n) /\ Cardinality(1..n) = n
  BY <1>1, FS_Interval, SMTT(30)
<1> HIDE DEF f, S
<1>5. IsFiniteSet(S) /\ Cardinality(S) <= n
  BY ONLY <1>3, <1>4, FS_Surjection, SMT
<1>6. Cardinality(S) \in Nat
  BY <1>5, FS_CardinalityType
<1>7. CASE ready = None
  <2>1. Held = S
    BY <1>2, <1>7
  <2>. QED  BY <1>1, <1>5, <1>6, <1>7, <2>1, SMT
<1>8. CASE ready # None
  <2>1. Held = S \cup {ready}
    BY <1>2, <1>8
  <2>2. IsFiniteSet(Held) /\ (Cardinality(Held) = Cardinality(S) \/ Cardinality(Held) = Cardinality(S) + 1)
    BY <1>5, <2>1, FS_AddElement
  <2>. QED  BY <1>1, <1>5, <1>6, <1>8, <2>2, SMT
<1>. QED  BY <1>7, <1>8

\* Completing a claim saves it in the same step, when writes do not fail: the ledger
\* finds a proof.
LEMMA CompleteShape ==
    ASSUME MaxSaveFailures = 0, DurableInv, TypeOK', NEW t \in Threads, Complete(t)
    PROVE  SavedInv' /\ \E c \in Claims : FindsProof(c)
<1> DEFINE c == [tx |-> work[t].tx, dest |-> payout_destination]
<1>1. /\ db' = Memory' /\ ~forgetting /\ UNCHANGED <<forgetting, walletTxs, coin, ready>>
      /\ pc[t] = "won" /\ work[t] \notin unavailable /\ completed' = Append(completed, c)
  BY NoSaveFails DEF DurableInv, WorkerInv, Complete, SaveOk, Unlocked, chainVars
<1>2. SavedInv' /\ SavedProofs' = Held'
  BY <1>1, SaveEstablishes
<1>3. work[t] \in Works /\ run \in LoopPhases
  BY <1>1, ZenonT(30) DEF DurableInv, WorkerInv, TypeOK, ThreadsInLoop
<1>4. c \in Claims /\ c # None /\ c.tx = work[t].tx
  BY <1>3, WorkerAssumption, SMT DEF DurableInv, WorkerInv, TypeOK, Works, Claims
<1> HIDE DEF c
<1>5. SavedProofs = Held
  BY <1>1, <1>3 DEF DurableInv, SavedInv, InSession, LoopPhases
<1>6. Held' = Held \cup {c}
  <2>1. completed \in Seq(Claims) /\ completed' \in Seq(Claims)
    BY DEF DurableInv, WorkerInv, TypeOK
  <2>2. /\ DOMAIN completed' = (DOMAIN completed) \cup {Len(completed) + 1}
        /\ \A i \in DOMAIN completed : completed'[i] = completed[i]
        /\ completed'[Len(completed) + 1] = c
    BY <1>1, <2>1, SMT
  <2>. QED  BY <1>1, <2>2, SMT DEF Held, ProofsIn, Memory
<1>7. \A d \in Held : d.tx.prevout # c.tx.prevout
  <2>1. work[t] # None
    BY <1>3, WorkerAssumption
  <2>. QED  BY <1>1, <1>4, <2>1 DEF DurableInv, WorkerInv, CompletedCancelled, HasCompleted
<1>8. IsFiniteSet(Held) /\ Cardinality(Held) < MAX_PENDING_CLAIMS
  <2>1. Len(completed) + (IF ready = None THEN 0 ELSE 1) < MAX_PENDING_CLAIMS
    BY <1>1, RoomForProof DEF DurableInv
  <2>2. /\ IsFiniteSet(Held)
        /\ Cardinality(Held) <= Len(completed) + (IF ready = None THEN 0 ELSE 1)
    BY HeldBounded DEF DurableInv, WorkerInv
  <2>3. Cardinality(Held) \in Nat
    BY <2>2, FS_CardinalityType
  <2>4. Len(completed) \in Nat
    <3>1. completed \in Seq(Claims)
      BY DEF DurableInv, WorkerInv, TypeOK
    <3>. QED  BY <3>1, SMT
  <2>. QED  BY <2>1, <2>2, <2>3, <2>4, WorkerAssumption, SMT
<1>9. FindsProof(c)
  BY <1>1, <1>2, <1>4, <1>5, <1>6, <1>7, <1>8, ZenonT(30) DEF FindsProof
<1>. QED  BY <1>2, <1>4, <1>9

\* Every outcome of SubmitOne (recognised, committed, lost, retained) keeps SavedInv
\* and has one of the shapes above.
LEMMA SubmitOneShape ==
    ASSUME DurableInv, SubmitOne
    PROVE  SavedInv' /\ StepShape
<1>1. /\ Held # {} /\ run \in {"resubmit", "submit"} /\ ~forgetting /\ UNCHANGED db
  BY DEF SubmitOne
<1>2. Next1 \in Claims
  BY <1>1, Next1Typed DEF DurableInv, WorkerInv
<1>3. ASSUME Forget(Next1)
      PROVE  SavedInv' /\ Forgotten(Next1)
  BY <1>1, <1>2, <1>3, ForgetKeeps DEF Forgotten
<1>4. CASE Recognize(Next1) \/ LostRace(Next1)
  <2>1. SavedInv' /\ DropsProof(Next1)
    BY <1>3, <1>4 DEF Recognize, LostRace, DropsProof, chainVars
  <2>. QED  BY <1>2, <2>1 DEF StepShape
<1>5. CASE Commit(Next1)
  <2>1. \A p \in Outpoints \ {Next1.tx.prevout} : coin'[p] = coin[p]
    BY <1>5 DEF Commit, DurableInv, WorkerInv, TypeOK
  <2>2. SavedInv' /\ CommitsProof(Next1)
    BY <1>3, <1>5, <2>1 DEF Commit, CommitsProof
  <2>. QED  BY <1>2, <2>2 DEF StepShape
<1>6. CASE Retain(Next1)
  <2>1. SavedInv' /\ SavedProofs' = SavedProofs /\ UNCHANGED <<walletTxs, coin, forgetting>>
    BY <1>1, <1>6, RetainKeeps DEF Retain, chainVars
  <2>. QED  BY <1>1, <2>1 DEF StepShape, Quiet
<1>. QED  BY <1>4, <1>5, <1>6 DEF SubmitOne

\* The steps that save memory without changing the proofs in it.
LEMMA SaveShape ==
    ASSUME MaxSaveFailures = 0, DurableInv, TypeOK',
           \/ DropOtherPayouts \/ SaveForgotten \/ JoinThreads
           \/ \E t \in Threads, o \in Outpoints : \E evicted \in Evictions(o), tx \in ClaimTxs(o) :
                \E w \in FreshWork(tx) : AssignNew(t, o, tx, evicted, w)
    PROVE  SavedInv' /\ StepShape
<1> USE NoSaveFails DEF DurableInv, WorkerInv
<1>1. CASE DropOtherPayouts
  <2>1. /\ db' = Memory' /\ ~forgetting /\ UNCHANGED <<walletTxs, coin, forgetting, ready, completed>>
        /\ Held = SavedProofs
    BY <1>1 DEF DropOtherPayouts, SaveOk, chainVars, SavedInv, InSession
  <2>2. Held' = Held
    BY <2>1 DEF Held, ProofsIn, Memory
  <2>. QED  BY <2>1, <2>2, SaveEstablishes DEF StepShape, Quiet
<1>2. CASE SaveForgotten
  <2>1. db' = Memory' /\ forgetting /\ ~forgetting' /\ UNCHANGED <<walletTxs, coin, claimVars>>
    BY <1>2 DEF SaveForgotten, SaveOk, chainVars
  <2>2. Held' = Held
    BY <2>1 DEF Held, ProofsIn, Memory, claimVars
  <2>. QED  BY <2>1, <2>2, SaveEstablishes DEF StepShape, SavesForgotten
<1>3. CASE JoinThreads
  <2>1. /\ ~forgetting /\ UNCHANGED <<walletTxs, coin, forgetting, claimVars>>
        /\ run' = "ended" /\ Held = SavedProofs
        /\ db' = Memory' \/ UNCHANGED db
    BY <1>3 DEF JoinThreads, SaveOk, chainVars, SavedInv, InSession
  <2>2. Held' = Held
    BY <2>1 DEF Held, ProofsIn, Memory, claimVars
  <2>3. CASE db' = Memory'
    BY <2>1, <2>2, <2>3, SaveEstablishes DEF StepShape, Quiet
  <2>4. CASE UNCHANGED db
    BY <2>1, <2>2, <2>4, QuietKeeps DEF StepShape, Quiet, InSession, claimVars
  <2>. QED  BY <2>1, <2>3, <2>4, ZenonT(30)
<1>4. ASSUME NEW t \in Threads, NEW o \in Outpoints, NEW evicted \in Evictions(o),
             NEW tx \in ClaimTxs(o), NEW w \in FreshWork(tx), AssignNew(t, o, tx, evicted, w)
      PROVE  SavedInv' /\ StepShape
  <2>1. /\ db' = Memory' /\ ~forgetting /\ UNCHANGED <<walletTxs, coin, forgetting, ready, completed>>
        /\ pc[t] = "next"
    BY <1>4 DEF AssignNew, SaveOk, chainVars, Unlocked
  <2>2. Held = SavedProofs
    BY <2>1 DEF ThreadsInLoop, LoopPhases, SavedInv, InSession
  <2>3. Held' = Held
    BY <2>1 DEF Held, ProofsIn, Memory
  <2>. QED  BY <2>1, <2>2, <2>3, SaveEstablishes, ZenonT(30) DEF StepShape, Quiet
<1>. QED  BY <1>1, <1>2, <1>3, <1>4, ZenonT(30)

\* When writes do not fail, every step keeps DurableInv and has one of the shapes above.
LEMMA EveryStep ==
    ASSUME MaxSaveFailures = 0, DurableInv, [Next]_vars
    PROVE  DurableInv' /\ StepShape
<1>1. WorkerInv' /\ TypeOK'
  BY NextKeepsInv DEF DurableInv, WorkerInv
<1> SUFFICES SavedInv' /\ StepShape
  BY <1>1 DEF DurableInv
<1>2. ASSUME UNCHANGED <<db, walletTxs, coin, proposals, ready, completed, forgetting>>,
             InSession' => InSession
      PROVE  SavedInv' /\ StepShape
  BY <1>2, QuietKeeps DEF DurableInv, StepShape, Quiet
<1>3. CASE RunStep
  <2>1. CASE Load
    <3>1. UNCHANGED <<walletTxs, coin>> /\ ~forgetting'
      BY <2>1 DEF Load, chainVars, DurableInv, WorkerInv
    <3>. QED  BY <2>1, <3>1, LoadKeeps DEF StepShape, Quiet
  <2>2. CASE SubmitOne
    BY <2>2, SubmitOneShape
  <2>3. CASE DropOtherPayouts \/ SaveForgotten \/ JoinThreads
    BY <1>1, <2>3, SaveShape
  <2>4. CASE SubmitDone \/ RefreshUnavailable \/ RefreshThrows \/ RefreshNotDue \/ LoopTest \/ GrowDone
    <3>1. InSession
      BY <2>4 DEF SubmitDone, RefreshUnavailable, RefreshThrows, RefreshNotDue, LoopTest,
         GrowDone,
                  Refreshing, InSession
    <3>2. UNCHANGED <<db, chainVars, claimVars, forgetting>>
      BY <2>4 DEF SubmitDone, RefreshUnavailable, RefreshThrows, RefreshNotDue, LoopTest,
         GrowDone
    <3>. QED  BY <1>2, <3>1, <3>2 DEF chainVars, claimVars
  <2>5. ASSUME NEW recent \in SUBSET Outpoints, NEW blocked \in SUBSET Outpoints,
               NEW wallet_ready \in BOOLEAN, Refresh(recent, blocked, wallet_ready)
        PROVE  SavedInv' /\ StepShape
    BY <1>2, <2>5 DEF Refresh, Refreshing, InSession, chainVars
  <2>. QED  BY <1>3, <2>1, <2>2, <2>3, <2>4, <2>5, ZenonT(30) DEF RunStep
<1>4. ASSUME NEW t \in Threads, StartThread(t) \/ Connect(t)
      PROVE  SavedInv' /\ StepShape
  <2>1. CASE \/ StartThread(t) \/ StartConnection(t) \/ Win(t) \/ CatchSearchError(t) \/ Leave(t)
             \/ EndAttempt(t) \/ TooLate(t) \/ \E o \in Outpoints : AssignCached(t, o)
    <3>1. UNCHANGED <<db, chainVars, proposals, ready, completed, run, forgetting>>
      BY <2>1 DEF StartThread, StartConnection, Win, CatchSearchError, Leave, EndAttempt,
         TooLate,
                  AssignCached, claimVars
    <3>. QED  BY <1>2, <3>1 DEF chainVars, InSession
  <2>2. CASE Complete(t)
    BY <1>1, <2>2, CompleteShape DEF StepShape
  <2>3. ASSUME NEW o \in Outpoints, NEW evicted, SkipBounty(t, o, evicted)
        PROVE  SavedInv' /\ StepShape
    <3>1. UNCHANGED <<walletTxs, coin, forgetting>>
      BY <2>3 DEF SkipBounty, chainVars
    <3>. QED  BY <2>3, <3>1, SkipKeeps DEF DurableInv, StepShape, Quiet
  <2>4. ASSUME NEW o \in Outpoints, NEW evicted \in Evictions(o), NEW tx \in ClaimTxs(o),
               NEW w \in FreshWork(tx), AssignNew(t, o, tx, evicted, w)
        PROVE  SavedInv' /\ StepShape
    BY <1>1, <2>4, SaveShape
  <2>. QED  BY <1>4, <2>1, <2>2, <2>3, <2>4 DEF Connect, ThreadStep
<1>5. CASE \/ \E destination \in RewardAddresses : Configure(destination)
           \/ Stop \/ Shutdown
  BY <1>2, <1>5, ZenonT(30) DEF Configure, Stop, Shutdown, StopUnlocked, chainVars, claimVars, InSession
<1>6. CASE Joined
  BY <1>2, <1>6 DEF Joined, chainVars, claimVars, InSession
<1>7. CASE Crash
  <2>1. /\ UNCHANGED <<db, walletTxs, coin>> /\ ~forgetting' /\ ~InSession'
        /\ proposals' = {} /\ ready' = None /\ completed' = <<>>
    BY <1>7 DEF Crash, chainVars, InSession
  <2>2. Held' = {} /\ SavedProofs' = SavedProofs
    BY <2>1, SMT DEF Held, SavedProofs, ProofsIn, Memory
  <2>. QED  BY <2>1, <2>2 DEF SavedInv, StepShape, Quiet
<1>8. ASSUME NEW o \in Outpoints, CoinChange(o)
      PROVE  SavedInv' /\ StepShape
  <2>1. UNCHANGED <<db, walletTxs, claimVars, run, forgetting>>
    BY <1>8 DEF CoinChange
  <2>2. \A p \in Outpoints \ {o} : coin'[p] = coin[p]
    BY <1>8 DEF CoinChange, DurableInv, WorkerInv, TypeOK
  <2>3. SavedInv' /\ Held' = Held /\ SavedProofs' = SavedProofs
    BY <2>1, QuietKeeps DEF DurableInv, claimVars, InSession
  <2>. QED  BY <2>1, <2>2, <2>3 DEF StepShape, CoinMoves
<1>9. CASE UNCHANGED vars
  BY <1>2, <1>9, ZenonT(30) DEF vars, chainVars, claimVars, InSession
<1>. QED  BY <1>3, <1>4, <1>5, <1>6, <1>7, <1>8, <1>9, ZenonT(30) DEF Next

-----------------------------------------------------------------------------
(* The theorems                                                            *)

\* As long as no write fails, what a session holds is what is saved, up to the
\* one claim SubmitOne is about to forget.
THEOREM DurableInvariance ==
    ASSUME MaxSaveFailures = 0
    PROVE  Spec => []DurableInv
<1>1. Init => DurableInv
  <2>1. ASSUME Init PROVE SavedInv
    <3>1. proposals = {} /\ ready = None /\ completed = <<>> /\ run = "off"
      BY <2>1 DEF Init
    <3>2. Memory.ready = None /\ Memory.completed = <<>>
      BY <3>1, SMT DEF Memory
    <3>3. Held = {}
      BY <3>2, SMT DEF Held, ProofsIn
    <3>. QED  BY <3>1, <3>3 DEF SavedInv, InSession
  <2>. QED  BY <2>1, InitKeepsInv DEF DurableInv
<1>2. DurableInv /\ [Next]_vars => DurableInv'
  BY EveryStep
<1>. QED  BY <1>1, <1>2, PTL DEF Spec

\* "Persist a completed proof BEFORE submitting it": the wallet never gets a
\* claim transaction whose proof is not in the saved record.
THEOREM SubmitsOnlySaved ==
    ASSUME MaxSaveFailures = 0
    PROVE  Spec => SubmitsDurably
<1> DEFINE Durable == \A tx \in walletTxs' \ walletTxs : \E c \in SavedProofs : c.tx = tx
<1>1. DurableInv /\ [Next]_vars => Durable
  <2> SUFFICES ASSUME DurableInv, [Next]_vars PROVE Durable
    OBVIOUS
  <2>1. StepShape
    BY EveryStep
  <2>. QED  BY <2>1 DEF StepShape, Quiet, CoinMoves, SavesForgotten, DropsProof, CommitsProof,
                        Forgotten, FindsProof
<1>2. DurableInv /\ [Next]_vars => [Durable]_vars
  BY <1>1
<1>. QED  BY <1>2, DurableInvariance, PTL DEF Spec, SubmitsDurably

\* Only StartConnection makes an assigned thread connect.
LEMMA OnlyStartConnects ==
    ASSUME TypeOK, [Next]_vars, NEW t \in Threads, pc[t] = "assigned", pc'[t] = "capture"
    PROVE  work[t] \notin unavailable
<1>1. pc \in [Threads -> {"off", "next", "assigned", "capture", "won", "throw", "done"}] /\ pc' # pc
  BY DEF TypeOK
<1>2. CASE \/ RunStep \/ Stop \/ Shutdown \/ Joined \/ Crash \/ UNCHANGED vars
           \/ \E destination \in RewardAddresses : Configure(destination)
           \/ \E o \in Outpoints : CoinChange(o)
  <2>1. \/ UNCHANGED pc
        \/ pc' = [s \in Threads |-> "off"]
    BY <1>2 DEF RunStep, Load, DropOtherPayouts, SubmitOne, Recognize, Commit, LostRace,
       Retain, Forget,
                SaveForgotten, SubmitDone, RefreshUnavailable, RefreshThrows, RefreshNotDue, Refresh,
                LoopTest, GrowDone, JoinThreads, Stop, Shutdown, StopUnlocked, Joined, Crash, Configure,
                CoinChange, vars, threadVars
  <2>. QED  BY <1>1, <2>1, ZenonT(30)
<1>3. ASSUME NEW s \in Threads, StartThread(s) \/ Connect(s), ~StartConnection(s)
      PROVE  FALSE
  <2>1. \E to \in {"next", "won", "throw", "done", "assigned"} : pc' = [pc EXCEPT ![s] = to]
             \/ UNCHANGED pc
    BY <1>3, ZenonT(30) DEF StartThread, Connect, ThreadStep, EndAttempt, Complete, TooLate,
       CatchSearchError, Leave,
                Win, AssignCached, SkipBounty, AssignNew, Release, threadVars
  <2>. QED  BY <1>1, <2>1
<1>4. ASSUME NEW s \in Threads, StartConnection(s)
      PROVE  work[t] \notin unavailable
  <2>1. s = t
    BY <1>1, <1>4 DEF StartConnection
  <2>. QED  BY <1>4, <2>1 DEF StartConnection
<1>. QED  BY <1>2, <1>3, <1>4, ZenonT(30) DEF Next

\* "Fixed challenge is durable before ANY TLS connection": a connection is only
\* started on a challenge that is in the saved record.
THEOREM ConnectsOnlySaved ==
    ASSUME MaxSaveFailures = 0
    PROVE  Spec => ConnectsDurably
<1> DEFINE Durable == \A t \in Threads : pc[t] = "assigned" /\ pc'[t] = "capture" =>
                          db # None /\ work[t].tx \in db.pending
<1>1. DurableInv /\ [Next]_vars => Durable
  <2> SUFFICES ASSUME DurableInv, [Next]_vars, NEW t \in Threads,
                      pc[t] = "assigned", pc'[t] = "capture"
               PROVE  db # None /\ work[t].tx \in db.pending
    OBVIOUS
  <2>1. work[t] # None /\ InSession
    BY DEF DurableInv, WorkerInv, ThreadsInLoop, LoopPhases, InSession
  <2>2. work[t] \notin unavailable
    BY OnlyStartConnects DEF DurableInv, WorkerInv
  <2>3. work[t].tx \in proposals
    BY <2>1, <2>2 DEF DurableInv, WorkerInv, LiveCached, CacheSound
  <2>. QED  BY <2>1, <2>3 DEF DurableInv, SavedInv
<1>2. DurableInv /\ [Next]_vars => [Durable]_vars
  BY <1>1
<1>. QED  BY <1>2, DurableInvariance, PTL DEF Spec, ConnectsDurably

\* A completed proof is never lost: through crashes, restarts and address
\* changes it stays until the wallet has its transaction or its bounty was
\* seen spent.
THEOREM ProofsNeverLost ==
    ASSUME MaxSaveFailures = 0
    PROVE  Spec => ProofsKept
<1> DEFINE Kept == \A c \in Proofs : c \notin Proofs' =>
                       c.tx \in walletTxs' \/ coin[c.tx.prevout] # "open"
<1>1. DurableInv /\ [Next]_vars => Kept
  <2> SUFFICES ASSUME DurableInv, [Next]_vars, NEW c \in Proofs, c \notin Proofs'
               PROVE  c.tx \in walletTxs' \/ coin[c.tx.prevout] # "open"
    OBVIOUS
  <2>1. DurableInv' /\ StepShape
    BY EveryStep
  <2>2. /\ forgetting /\ InSession => c \in Held
        /\ c \in SavedProofs
    BY DEF Proofs, DurableInv, SavedInv, InSession
  <2>3. c \notin SavedProofs' \/ (forgetting' /\ InSession' /\ c \notin Held')
    BY <2>1 DEF Proofs, DurableInv, SavedInv, InSession
  <2>4. (forgetting => InSession) /\ (forgetting' => InSession')
    BY <2>1 DEF DurableInv, WorkerInv, InSession
  <2>5. CASE Quiet \/ CoinMoves \/ SavesForgotten
    BY <2>2, <2>3, <2>4, <2>5 DEF Quiet, CoinMoves, SavesForgotten
  <2>6. ASSUME NEW d \in Claims, DropsProof(d) \/ CommitsProof(d) \/ FindsProof(d)
        PROVE  c.tx \in walletTxs' \/ coin[c.tx.prevout] # "open"
    BY <2>2, <2>3, <2>6 DEF DropsProof, CommitsProof, FindsProof, Forgotten
  <2>. QED  BY <2>1, <2>5, <2>6, ZenonT(30) DEF StepShape
<1>2. DurableInv /\ [Next]_vars => [Kept]_vars
  BY <1>1
<1>. QED  BY <1>2, DurableInvariance, PTL DEF Spec, ProofsKept


-----------------------------------------------------------------------------
(* Refinement                                                              *)

\* contested holds every bounty that is not open, and the claim SubmitOne is
\* about to forget is submitted or contested.
HistoryInv ==
    /\ \A o \in Outpoints : coin[o] # "open" => o \in contested
    /\ forgetting => \A c \in SavedProofs \ Held : c.tx \in walletTxs \/ c.tx.prevout \in contested

Waiting == {c \in SavedProofs : c.tx \notin walletTxs}

\* The saved record has one proof for a bounty.
LEMMA OneSavedProof ==
    ASSUME WorkerInv, NEW c \in SavedProofs, NEW d \in SavedProofs, c.tx.prevout = d.tx.prevout
    PROVE  c = d
<1>1. db # None /\ Loadable(db) /\ c \in ProofsIn(db) /\ d \in ProofsIn(db)
  BY DEF SavedProofs, WorkerInv, RecordsGood, Good
<1>. QED  BY <1>1 DEF Loadable, ProofsIn

\* When writes do not fail, every step keeps the history that the mapping to the
\* ledger uses.
LEMMA HistoryKept ==
    ASSUME MaxSaveFailures = 0, DurableInv, HistoryInv, [HistoryNext]_<<vars, contested>>
    PROVE  HistoryInv'
<1>1. [Next]_vars
  BY DEF HistoryNext
<1>2. StepShape /\ TypeOK /\ contested \subseteq contested'
  BY <1>1, EveryStep DEF DurableInv, WorkerInv, HistoryNext
<1>3. \A o \in Outpoints : coin'[o] # "open" => o \in contested'
  BY DEF HistoryInv, HistoryNext, vars, chainVars
<1>4. ASSUME Quiet \/ CoinMoves \/ SavesForgotten, forgetting', NEW c \in SavedProofs' \ Held'
      PROVE  c.tx \in walletTxs' \/ c.tx.prevout \in contested'
  BY <1>2, <1>4 DEF HistoryInv, Quiet, CoinMoves, SavesForgotten
<1>5. ASSUME NEW d \in Claims, DropsProof(d) \/ CommitsProof(d) \/ FindsProof(d), forgetting',
             NEW c \in SavedProofs' \ Held'
      PROVE  c.tx \in walletTxs' \/ c.tx.prevout \in contested'
  <2>1. c = d /\ d.tx.prevout \in Outpoints
    BY <1>5 DEF DropsProof, CommitsProof, FindsProof, Forgotten, Claims, Tx
  <2>. QED  BY <1>2, <1>5, <2>1 DEF DropsProof, CommitsProof, FindsProof, HistoryInv
<1>. QED  BY <1>2, <1>3, <1>4, <1>5 DEF HistoryInv, StepShape

\* Every step of the worker is a step of the ledger or leaves it alone.
LEMMA StepRefines ==
    ASSUME MaxSaveFailures = 0, DurableInv, HistoryInv, [HistoryNext]_<<vars, contested>>
    PROVE  [Ledger!LedgerNext]_(Ledger!ledgerVars)
<1>1. [Next]_vars /\ TypeOK /\ WorkerInv
  BY DEF HistoryNext, DurableInv, WorkerInv
<1>2. StepShape
  BY <1>1, EveryStep
<1>3. \A o \in Outpoints : coin[o] # "open" => o \in contested
  BY DEF HistoryInv
<1>4. contested' = contested \cup {o \in Outpoints : coin'[o] # "open"}
  BY <1>3 DEF HistoryNext, vars, chainVars
<1>5. ASSUME Waiting' = Waiting, UNCHANGED <<walletTxs, contested>>
      PROVE  UNCHANGED Ledger!ledgerVars
  BY <1>5 DEF Ledger!ledgerVars, Waiting
<1>6. ASSUME UNCHANGED coin
      PROVE  UNCHANGED contested
  BY <1>3, <1>4, <1>6
<1>7. CASE Quiet
  <2>1. Waiting' = Waiting
    BY <1>7 DEF Quiet, Waiting
  <2>. QED  BY <1>5, <1>6, <1>7, <2>1 DEF Quiet
<1>8. CASE CoinMoves
  <2>1. Waiting' = Waiting /\ UNCHANGED walletTxs
    BY <1>8 DEF CoinMoves, Waiting
  <2>2. PICK o \in Outpoints : \A p \in Outpoints \ {o} : coin'[p] = coin[p]
    BY <1>8 DEF CoinMoves
  <2>3. contested' = contested \/ contested' = contested \cup {o}
    BY <1>3, <1>4, <2>2
  <2>4. CASE contested' = contested \cup {o}
    <3>1. Ledger!Contest(o)
      BY <2>1, <2>4 DEF Ledger!Contest, Waiting
    <3>. QED  BY <3>1 DEF Ledger!LedgerNext
  <2>. QED  BY <1>5, <2>1, <2>3, <2>4
<1>9. CASE SavesForgotten
  <2>1. UNCHANGED <<walletTxs, contested>>
    BY <1>6, <1>9 DEF SavesForgotten
  <2>2. PICK c \in SavedProofs : SavedProofs = Held \cup {c}
    BY <1>1, <1>9 DEF SavesForgotten, DurableInv, SavedInv, WorkerInv, InSession
  <2>3. CASE c \in Held \/ c.tx \in walletTxs
    <3>1. Waiting' = Waiting
      BY <1>9, <2>1, <2>2, <2>3 DEF SavesForgotten, Waiting
    <3>. QED  BY <1>5, <2>1, <3>1, ZenonT(30)
  <2>4. CASE c \notin Held /\ c.tx \notin walletTxs
    <3>1. c.tx.prevout \in contested /\ c \in Waiting
      BY <1>9, <2>4 DEF SavesForgotten, HistoryInv, Waiting
    <3>2. Waiting' = Waiting \ {c}
      BY <1>9, <2>1, <2>2, <2>4 DEF SavesForgotten, Waiting
    <3>3. Ledger!GiveUp(c)
      BY <2>1, <3>1, <3>2 DEF Ledger!GiveUp, Waiting
    <3>. QED  BY <3>1, <3>3 DEF Ledger!LedgerNext, Waiting
  <2>. QED  BY <2>3, <2>4
<1>10. ASSUME NEW c \in Claims, DropsProof(c)
       PROVE  UNCHANGED Ledger!ledgerVars
  <2>1. Waiting' = Waiting
    BY <1>10 DEF DropsProof, Forgotten, Waiting
  <2>. QED  BY <1>5, <1>6, <1>10, <2>1 DEF DropsProof
<1>11. ASSUME NEW c \in Claims, CommitsProof(c)
       PROVE  Ledger!LedgerNext
  <2>1. c \in SavedProofs /\ c \in Waiting /\ SavedProofs' = SavedProofs
    BY <1>11 DEF CommitsProof, Forgotten, Waiting
  <2>2. \A d \in SavedProofs : d.tx = c.tx => d = c
    BY <1>1, <2>1, OneSavedProof, ZenonT(30)
  <2>3. Waiting' = Waiting \ {c}
    BY <1>11, <2>1, <2>2 DEF CommitsProof, Waiting
  <2>4. contested' \in {contested, contested \cup {c.tx.prevout}}
    BY <1>3, <1>4, <1>11 DEF CommitsProof
  <2>5. Ledger!Submit(c)
    BY <1>11, <2>1, <2>3, <2>4 DEF CommitsProof, Ledger!Submit, Waiting
  <2>. QED  BY <2>1, <2>5 DEF Ledger!LedgerNext, Waiting
<1>12. ASSUME NEW c \in Claims, FindsProof(c)
       PROVE  [Ledger!LedgerNext]_(Ledger!ledgerVars)
  <2>1. UNCHANGED <<walletTxs, contested>>
    BY <1>6, <1>12 DEF FindsProof
  <2>2. CASE c.tx \in walletTxs
    <3>1. Waiting' = Waiting
      BY <1>12, <2>1, <2>2 DEF FindsProof, Waiting
    <3>. QED  BY <1>5, <2>1, <3>1
  <2>3. CASE c.tx \notin walletTxs
    <3>1. Waiting' = Waiting \cup {c}
      BY <1>12, <2>1, <2>3 DEF FindsProof, Waiting
    <3>2. Cardinality(Waiting) < MAX_PENDING_CLAIMS
      <4>1. IsFiniteSet(SavedProofs) /\ Cardinality(SavedProofs) < MAX_PENDING_CLAIMS
        BY <1>12 DEF FindsProof
      <4>2. Waiting \subseteq SavedProofs
        BY DEF Waiting
      <4>3. IsFiniteSet(Waiting) /\ Cardinality(Waiting) <= Cardinality(SavedProofs)
        BY <4>1, <4>2, FS_Subset
      <4>4. Cardinality(Waiting) \in Nat /\ Cardinality(SavedProofs) \in Nat
        BY <4>1, <4>3, FS_CardinalityType, ZenonT(30)
      <4>. QED  BY <4>1, <4>3, <4>4, WorkerAssumption, SMT
    <3>3. \A d \in Waiting : d.tx.prevout # c.tx.prevout
      BY <1>12 DEF FindsProof, Waiting
    <3>4. Ledger!Cardinality(Waiting) = Cardinality(Waiting)
      BY DEF Ledger!Cardinality, Cardinality, Ledger!IsFiniteSet, IsFiniteSet
    <3>5. Ledger!Prove(c)
      BY <2>1, <3>1, <3>2, <3>3, <3>4 DEF Ledger!Prove, Waiting
    <3>6. c \in Claims \cap (Waiting' \ Waiting)
      BY <3>1, <3>3
    <3>. QED  BY <3>5, <3>6 DEF Ledger!LedgerNext, Waiting
  <2>. QED  BY <2>2, <2>3
<1>. QED  BY <1>2, <1>7, <1>8, <1>9, <1>10, <1>11, <1>12, ZenonT(30) DEF StepShape

\* The worker implements the claim ledger.
THEOREM WorkerImplementsLedger ==
    ASSUME MaxSaveFailures = 0
    PROVE  HistorySpec => ImplementsLedger
<1>1. HistoryInit => DurableInv /\ HistoryInv /\ Ledger!LedgerInit
  <2> SUFFICES ASSUME HistoryInit PROVE DurableInv /\ HistoryInv /\ Ledger!LedgerInit
    OBVIOUS
  <2>1. SavedProofs = {} /\ Init /\ contested = {} /\ walletTxs = {}
    BY DEF HistoryInit, Init, SavedProofs
  <2>2. DurableInv
    <3>1. SavedInv
      BY <2>1, SMT DEF Init, SavedInv, InSession, Held, ProofsIn, Memory
    <3>. QED  BY <2>1, <3>1, InitKeepsInv DEF DurableInv
  <2>3. HistoryInv /\ Ledger!LedgerInit
    BY <2>1 DEF Init, HistoryInv, Ledger!LedgerInit
  <2>. QED  BY <2>2, <2>3
<1>2. DurableInv /\ HistoryInv /\ [HistoryNext]_<<vars, contested>> => DurableInv' /\ HistoryInv'
  <2>1. [HistoryNext]_<<vars, contested>> => [Next]_vars
    BY DEF HistoryNext
  <2>. QED  BY <2>1, EveryStep, HistoryKept
<1>3. DurableInv /\ HistoryInv /\ [HistoryNext]_<<vars, contested>>
        => [Ledger!LedgerNext]_(Ledger!ledgerVars)
  BY StepRefines
<1>. QED  BY <1>1, <1>2, <1>3, PTL DEF HistorySpec, ImplementsLedger, Ledger!LedgerSpec
==============================================================================

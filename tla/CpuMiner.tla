------------------------------ MODULE CpuMiner ------------------------------
(***************************************************************************)
(* node/cpu_miner_impl.cpp: the built-in CPU miner.  Start and Stop come   *)
(* from the RPC server and the GUI; Run is the coordinator thread, which   *)
(* in every round takes a block template, starts hash workers on disjoint  *)
(* nonce sequences, waits, joins them and submits what they found.         *)
(*                                                                         *)
(* A critical section of m_mutex or cs_main is one step, and so is every   *)
(* read or write of an atomic between two of them.  A template is its      *)
(* previous block and the number of its round (the fresh extraNonce makes  *)
(* every round's header its own); which of its nonces are valid is chosen  *)
(* when it is made.  RandomX hashing is RandomXCache's subject.            *)
(***************************************************************************)
EXTENDS Integers, FiniteSets

CONSTANTS MaxThreads,        \* MAX_CPU_MINING_THREADS
          MaxNonce,          \* UINT32_MAX
          MaxTip,            \* bound on the tip changes of the node
          MaxRound,          \* bound on templates
          MaxStarts          \* bound on Start calls

ASSUME MinerAssumption ==
    MaxThreads # 0 /\ {MaxThreads, MaxNonce, MaxTip, MaxRound, MaxStarts} \subseteq Nat

Workers == 0..(MaxThreads - 1)
Nonces == 0..MaxNonce

VARIABLES m_status,          \* [running, stopping, state, error, blocks]; blocks is the
                             \* set of the rounds counted, of which the code keeps the size
          m_stop,
          node,              \* [tip, behind (a better header is known), m_interrupt,
                             \* connected: rounds whose block was connected to the tip]
          pc,                \* coordinator: "none" when Run is not executing
          threads,           \* argument of Run
          block,             \* this round's template: [prev, round, valid]
          round,             \* the round's locals: [done, finished, solution, failure]
          worker,            \* per worker: [pc, nonce, header, tried]; tried is history
          startCalls

vars == <<m_status, m_stop, node, pc, threads, block, round, worker, startCalls>>

None == -1
NoBlock == [prev |-> None, round |-> 0, valid |-> {}]
NewRound == [done |-> FALSE, finished |-> 0, solution |-> None, failure |-> FALSE]
NoWorker == [pc |-> "none", nonce |-> 0, header |-> NoBlock, tried |-> {}]

Init ==
    /\ m_status = [running |-> FALSE, stopping |-> FALSE, state |-> "stopped", error |-> FALSE,
                   blocks |-> {}]
    /\ m_stop = TRUE
    /\ node \in [tip : {0}, behind : BOOLEAN, m_interrupt : {FALSE}, connected : {{}}]
    /\ pc = "none" /\ threads = 1 /\ block = NoBlock /\ round = NewRound
    /\ worker = [w \in Workers |-> NoWorker]
    /\ startCalls = 0

Cancelled == m_stop \/ node.m_interrupt
Alive(w) == worker[w].pc \in {"check", "hash", "ended"}

-----------------------------------------------------------------------------
(* Start, Stop and the node                                                *)

\* Run starts, or its thread cannot be created.
Start(n) ==
    /\ startCalls < MaxStarts /\ startCalls' = startCalls + 1
    /\ ~node.m_interrupt /\ ~m_status.running /\ pc = "none"
    /\ threads' = n
    /\ \E started \in BOOLEAN :
         /\ m_status' = [running |-> started, stopping |-> FALSE, error |-> FALSE, blocks |-> {},
                         state |-> IF started THEN "starting" ELSE "stopped"]
         /\ m_stop' = ~started
         /\ pc' = IF started THEN "loop" ELSE "none"
    /\ UNCHANGED <<node, block, round, worker>>

Stop ==
    /\ m_stop' = TRUE
    /\ m_status' = IF m_status.running THEN [m_status EXCEPT !.stopping = TRUE, !.state = "stopping"]
                                       ELSE m_status
    /\ UNCHANGED <<node, pc, threads, block, round, worker, startCalls>>

\* The node after the block of the round became its tip.
BlockConnected == [node EXCEPT !.tip = @ + 1, !.connected = @ \cup {block.round}]

\* Until its activation the block of the round can become the tip if the tip is
\* still its parent: a block with no more work than the tip is not connected.
Connectable == node.tip = block.prev /\ node.tip < MaxTip /\ block.round \notin node.connected

\* Validation moves the tip (to the miner's stored block, if a thread of the
\* node activates it first), headers arrive, or the node is interrupted.
NodeStep ==
    /\ \/ node.tip < MaxTip /\ \E behind \in BOOLEAN :
             node' = [node EXCEPT !.tip = @ + 1, !.behind = behind]
       \/ pc = "activating" /\ Connectable /\ node' = BlockConnected
       \/ node' = [node EXCEPT !.behind = ~@]
       \/ node' = [node EXCEPT !.m_interrupt = TRUE]
    /\ UNCHANGED <<m_status, m_stop, pc, threads, block, round, worker, startCalls>>

-----------------------------------------------------------------------------
(* Run: the coordinator                                                    *)

\* A step of the coordinator that changes its control and nothing else.
Go(from, to) == pc = from /\ pc' = to
Quietly == UNCHANGED <<m_status, m_stop, node, threads, block, round, worker, startCalls>>

\* Mutant: the loop looks at the node's interrupt only.
LoopEndsInterruptOnly == node.m_interrupt

LoopEnds == Cancelled

\* The head of the loop; the locals of the round before it are gone.
LoopTest ==
    /\ Go("loop", IF LoopEnds THEN "end" ELSE "tip")
    /\ block' = [NoBlock EXCEPT !.round = block.round]
    /\ round' = NewRound
    /\ UNCHANGED <<m_status, m_stop, node, threads, worker, startCalls>>

ReadTip == Go("tip", IF node.behind THEN "waiting" ELSE "template") /\ Quietly

\* Under m_mutex: a requested stop stays visible.
Announce(shown) == m_status' = IF m_stop THEN m_status ELSE [m_status EXCEPT !.state = shown]

Report ==
    /\ \/ Go("waiting", "loop") /\ Announce("waiting")
       \/ Go("announce", "spawn") /\ Announce("mining")
    /\ UNCHANGED <<m_stop, node, threads, block, round, worker, startCalls>>

\* createNewBlock: a template on the tip, nothing, or an exception.
CreateTemplate ==
    \/ (Go("template", "end") \/ Go("template", "throw")) /\ Quietly
    \/ /\ Go("template", "recheck") /\ ~m_stop /\ block.round < MaxRound
       /\ block' \in [prev : {node.tip}, round : {block.round + 1}, valid : SUBSET Nonces]
       /\ UNCHANGED <<m_status, m_stop, node, threads, round, worker, startCalls>>

\* The template must still be on the tip, and its target valid.
RecheckTip ==
    /\ \/ block.prev # node.tip /\ Go("recheck", "loop")
       \/ block.prev = node.tip /\ (Go("recheck", "announce") \/ Go("recheck", "throw"))
    /\ Quietly

Spawned == Cardinality({w \in Workers : worker[w].pc # "none"})
MoreWorkers == Spawned < threads /\ ~round.done /\ ~Cancelled

SpawnWorker ==
    /\ Go("spawn", "spawn") /\ MoreWorkers
    /\ worker' = [worker EXCEPT ![Spawned] =
                    [pc |-> "check", nonce |-> Spawned, header |-> block, tried |-> {}]]
    /\ UNCHANGED <<m_status, m_stop, node, threads, block, round, startCalls>>

SpawnEnds == Go("spawn", "watch") /\ ~MoreWorkers /\ Quietly

\* Mutant: an exception leaves the round without joining its workers.
UnwindUnjoined == "throw"

\* ~WorkerGroup joins before the handler runs.
Unwind == "unwind"

\* The watch loop ends (a result, a stop, exhaustion, a new tip or the refresh
\* time: at any moment, as far as this model knows), reading the tip throws, or
\* creating a thread does.
RoundEnds ==
    /\ Go("watch", "join") \/ Go("watch", Unwind) \/ (MoreWorkers /\ Go("spawn", Unwind))
    /\ round' = [round EXCEPT !.done = TRUE]
    /\ UNCHANGED <<m_status, m_stop, node, threads, block, worker, startCalls>>

Joined == \A w \in Workers : ~Alive(w)

\* Join, then: rethrow a worker's exception, submit a solution, or go round.
Join ==
    /\ Joined
    /\ \/ Go("unwind", "throw")
       \/ Go("join", IF round.failure THEN "throw"
                     ELSE IF round.solution # None /\ ~Cancelled THEN "submit" ELSE "loop")
    /\ worker' = [w \in Workers |-> IF Alive(w) THEN worker[w] ELSE NoWorker]
    /\ UNCHANGED <<m_status, m_stop, node, threads, block, round, startCalls>>

CheckTip == Go("submit", IF node.tip = block.prev THEN "submitting" ELSE "loop") /\ Quietly

\* What the BlockChecked callback has told SubmitBlock of its block, if anything.
Verdicts == {"valid", "invalid", "none"}

\* The reason SubmitBlock gives: the block was known, it was accepted or refused
\* without a verdict (it is stored and not connected, or the activation failed),
\* or it is invalid.
Reason(accepted, new_block, verdict) ==
    CASE accepted /\ ~new_block -> "duplicate"
      [] ~accepted /\ verdict # "invalid" -> "inconclusive"
      [] accepted /\ new_block /\ verdict = "none" -> "inconclusive"
      [] verdict = "invalid" /\ (accepted => new_block) -> "invalid"
      [] OTHER -> ""

\* Mutant: a block that was stored and not connected counts as well.
AcceptedIfStored(accepted, new_block, verdict) == accepted /\ new_block
Accepted(accepted, new_block, verdict) ==
    accepted /\ new_block /\ Reason(accepted, new_block, verdict) = ""

\* ++blocks and no error, or the reason.
Counted(accepted) ==
    m_status' = [m_status EXCEPT !.error = ~accepted,
                                 !.blocks = IF accepted THEN @ \cup {block.round} ELSE @]

\* ProcessNewBlock: the checks fail, or the block, which is new, is stored.
StoreBlock ==
    /\ \/ Go("submitting", "loop") /\ Counted(Accepted(FALSE, FALSE, "invalid"))
       \/ Go("submitting", "activating") /\ UNCHANGED m_status
    /\ UNCHANGED <<m_stop, node, threads, block, round, worker, startCalls>>

\* ActivateBestChain: the block is connected now, has been, or is not (the tip
\* moved, the block proves invalid, or the node is interrupted).  The activation
\* may fail in each case, also after a block was found valid: ConnectTip reports
\* the verdict before it writes the chain state and sets the tip.
ActivateBlock ==
    /\ Go("activating", "loop")
    /\ \E accepted \in BOOLEAN, verdict \in Verdicts :
         /\ \/ verdict = "valid" /\ Connectable /\ node' = BlockConnected
            \/ verdict = "valid" /\ block.round \in node.connected /\ node' = node
            \/ (verdict = "valid" => ~accepted) /\ block.round \notin node.connected /\ node' = node
         /\ Counted(Accepted(accepted, TRUE, verdict))
    /\ UNCHANGED <<m_stop, threads, block, round, worker, startCalls>>

\* The handler, and the status of a session that is over.
EndRun ==
    /\ \/ Go("throw", "end") /\ m_status' = [m_status EXCEPT !.error = TRUE]
       \/ /\ Go("end", "none")
          /\ m_status' = [m_status EXCEPT !.running = FALSE, !.stopping = FALSE,
                                          !.state = IF m_status.error THEN "error" ELSE "stopped"]
    /\ UNCHANGED <<m_stop, node, threads, block, round, worker, startCalls>>

Run ==
    \/ LoopTest \/ ReadTip \/ Report \/ CreateTemplate \/ RecheckTip \/ SpawnWorker
    \/ SpawnEnds \/ RoundEnds \/ Join \/ CheckTip \/ StoreBlock \/ ActivateBlock \/ EndRun

-----------------------------------------------------------------------------
(* The hash workers                                                        *)

SearchOver(w) == worker[w].nonce > MaxNonce \/ round.done \/ Cancelled

\* Mutant: the stride is added in 32 bits.
NextNonce32(n) == (n + threads) % (MaxNonce + 1)

\* The stride is added in 64 bits, so the loop variable passes UINT32_MAX.
NextNonce(n) == n + threads

WorkerCheck(w) ==
    /\ worker[w].pc = "check"
    /\ worker' = [worker EXCEPT ![w].pc = IF SearchOver(w) THEN "ended" ELSE "hash"]
    /\ UNCHANGED round

\* One hash: the first valid nonce of the round becomes its solution.
WorkerHash(w) ==
    LET n == worker[w].nonce
        valid == n \in worker[w].header.valid
    IN  /\ worker[w].pc = "hash"
        /\ worker' = [worker EXCEPT ![w].pc = IF valid THEN "ended" ELSE "check",
                                    ![w].nonce = IF valid THEN n ELSE NextNonce(n),
                                    ![w].tried = @ \cup {n}]
        /\ round' = IF valid THEN [round EXCEPT !.done = TRUE,
                                                !.solution = IF @ = None THEN n ELSE @]
                    ELSE round

WorkerThrows(w) ==
    /\ worker[w].pc = "hash"
    /\ worker' = [worker EXCEPT ![w].pc = "ended"]
    /\ round' = [round EXCEPT !.failure = TRUE, !.done = TRUE]

WorkerFinishes(w) ==
    /\ worker[w].pc = "ended"
    /\ worker' = [worker EXCEPT ![w].pc = "finished"]
    /\ round' = [round EXCEPT !.finished = @ + 1]

WorkerStep(w) ==
    /\ WorkerCheck(w) \/ WorkerHash(w) \/ WorkerThrows(w) \/ WorkerFinishes(w)
    /\ UNCHANGED <<m_status, m_stop, node, pc, threads, block, startCalls>>

Next ==
    \/ \E n \in 1..MaxThreads : Start(n)
    \/ Stop \/ NodeStep \/ Run
    \/ \E w \in Workers : WorkerStep(w)

Spec == Init /\ [][Next]_vars

Places == {"loop", "tip", "waiting", "template", "recheck", "announce", "spawn", "watch", "join",
           "unwind", "submit", "submitting", "activating", "throw", "end"}

\* The coordinator and the workers are threads of their own; their waits are
\* bounded (100 ms, 50 ms, the refresh time) and hashes end: neither stays for
\* ever at a place where it can take a step.
FairSpec ==
    /\ Spec
    /\ \A place \in Places : []<>(pc # place \/ (place \in {"join", "unwind"} /\ ~Joined))
    /\ \A w \in Workers, place \in {"check", "hash", "ended"} : []<>(worker[w].pc # place)

-----------------------------------------------------------------------------
MinerTypeOK ==
    /\ m_status \in [running : BOOLEAN, stopping : BOOLEAN, error : BOOLEAN, blocks : SUBSET (1..MaxRound),
                     state : {"stopped", "starting", "waiting", "mining", "stopping", "error"}]
    /\ m_stop \in BOOLEAN /\ threads \in 1..MaxThreads /\ block.round \in 0..MaxRound
    /\ node \in [tip : 0..MaxTip, behind : BOOLEAN, m_interrupt : BOOLEAN,
                  connected : SUBSET (1..MaxRound)]
    /\ pc \in Places \cup {"none"}
    /\ round \in [done : BOOLEAN, finished : 0..MaxThreads, solution : Nonces \cup {None}, failure : BOOLEAN]
    /\ \A w \in Workers : worker[w].pc = "hash" => worker[w].nonce \in Nonces

\* While GetStatus says the miner is not running, no thread of a session is left:
\* no coordinator in its body, no worker hashing, on any way a session can end
\* ("The previous coordinator has finished all work before clearing running",
\* cpu_miner_impl.cpp:72).
QuietWhenStopped == ~m_status.running => pc = "none" /\ \A w \in Workers : ~Alive(w)

\* The nonce put into a submitted block was found for that block's own header,
\* never for the header of an earlier round whose worker was still hashing
\* (WorkerGroup::Join before the solution is read, cpu_miner_impl.cpp:241).
SubmitsOwnSolution == pc = "submitting" => round.solution \in block.valid

\* Every block the status counts was connected to the tip it was mined on, also
\* when the tip moves between the miner's check and the submission, or another
\* thread of the node connects the block ("The block was accepted but not
\* connected", node/miner.cpp:476; ++m_status.blocks, cpu_miner_impl.cpp:262).
CountsConnected == m_status.blocks \subseteq node.connected

\* No nonce of a round is hashed by two workers, and a round that ends because
\* all its workers finished has hashed every 32-bit nonce, UINT32_MAX included
\* ("without wraparound, duplicate work", cpu_miner_impl.cpp:210).
NoncesCovered ==
    /\ \A v, w \in Workers : v # w => worker[v].tried \cap worker[w].tried = {}
    /\ pc = "watch" /\ round.finished = threads /\ ~round.done /\ ~Cancelled =>
         UNION {worker[w].tried : w \in Workers} = Nonces

\* A requested stop stays visible to GetStatus until the session has ended: no
\* later report of the coordinator overwrites it (cpu_miner_impl.cpp:141, 182).
StopShown == m_status.running /\ m_stop => m_status.stopping /\ m_status.state = "stopping"

\* A stop request ends the session (Stop is asynchronous; Run leaves its loop).
\* (m_status.stopping is cleared with m_status.running only.)
MinerStops == []<>(m_status.stopping => ~m_status.running)

\* GetStatus tells the truth: "not running" means that nothing of a session is left,
\* and a stop request shows until then (cpu_miner_impl.cpp:72, 141, 182).
StatusTrue == QuietWhenStopped /\ StopShown

\* What the miner submits is a solution of that very block, and what it counts is in
\* the chain (cpu_miner_impl.cpp:241-262).
BlocksEarned == SubmitsOwnSolution /\ CountsConnected
=============================================================================

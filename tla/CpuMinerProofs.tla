--------------------------- MODULE CpuMinerProofs ---------------------------
(***************************************************************************)
(* The miner for every number of threads, nonces, rounds and sessions.     *)
(* The workers of a round exist only between its spawn loop and its join,  *)
(* and hold the round's own template; they are numbered from 0 without a   *)
(* gap, and worker w has tried every nonce below its own that leaves the   *)
(* remainder w when divided by the number of threads, and no other residue.*)
(***************************************************************************)
EXTENDS CpuMiner, FiniteSetTheorems, TLAPS

\* Zenon is the prover of this module; a leaf that needs another one names it.
USE Zenon

Blocks == [prev : Int, round : 0..MaxRound, valid : SUBSET Nonces]
WorkerStates == [pc : {"none", "check", "hash", "ended", "finished"}, nonce : Nat, header : Blocks,
                 tried : SUBSET Nonces]

\* Places of Run before a round's workers, with them, and after them.
Before == {"tip", "waiting", "template", "recheck", "announce"}
InRound == {"spawn", "watch", "join", "unwind"}
After == {"submit", "submitting", "activating"}

MinerTypes ==
    /\ m_status \in [running : BOOLEAN, stopping : BOOLEAN, error : BOOLEAN, blocks : SUBSET (1..MaxRound),
                     state : {"stopped", "starting", "waiting", "mining", "stopping", "error"}]
    /\ m_stop \in BOOLEAN /\ threads \in 1..MaxThreads /\ block \in Blocks
    /\ node \in [tip : 0..MaxTip, behind : BOOLEAN, m_interrupt : BOOLEAN,
                  connected : SUBSET (1..MaxRound)]
    /\ pc \in Places \cup {"none"}
    /\ round \in [done : BOOLEAN, finished : Nat, solution : Nonces \cup {None}, failure : BOOLEAN]
    /\ worker \in [Workers -> WorkerStates]

\* The session: Run is executing exactly while the status says so, and a round's
\* block and locals are fresh when its workers start.
SessionInv ==
    /\ m_status.running <=> pc # "none"
    /\ pc \in Before => round = NewRound
    /\ pc \in {"recheck", "announce"} \cup InRound \cup After => block.round >= 1
    /\ pc \in After => round.solution # None
    /\ round.solution # None => round.solution \in block.valid

Exists(w) == worker[w].pc # "none"

\* The workers of a round: they are joined before anything else happens.
WorkersInv ==
    /\ pc \notin InRound => \A w \in Workers : worker[w] = NoWorker
    /\ \A w \in Workers : Exists(w) => worker[w].header = block /\ w < threads
    /\ \A v, w \in Workers : v < w /\ Exists(w) => Exists(v)
    /\ pc \in InRound => round.finished = Cardinality({w \in Workers : worker[w].pc = "finished"})
    /\ \A w \in Workers : ~Exists(w) => worker[w].tried = {}

\* The nonces of a worker.
NoncesInv ==
    \A w \in Workers : Exists(w) =>
        /\ worker[w].nonce % threads = w
        /\ worker[w].pc = "hash" => worker[w].nonce \in Nonces
        /\ \A n \in worker[w].tried : n % threads = w
        /\ \A n \in Nonces : n % threads = w /\ n < worker[w].nonce => n \in worker[w].tried
        /\ worker[w].pc \in {"ended", "finished"} => worker[w].nonce > MaxNonce \/ round.done \/ Cancelled

MinerInv == MinerTypes /\ SessionInv /\ WorkersInv /\ NoncesInv /\ StopShown /\ CountsConnected

-----------------------------------------------------------------------------
(* Remainders, and the numbering of the workers                            *)

LEMMA TimesAtLeast == ASSUME NEW q \in Int, NEW t \in Nat, q >= 1, t > 0 PROVE q * t >= t
  BY SMT

\* What a division leaves.
LEMMA DivMod ==
  ASSUME NEW a \in Nat, NEW t \in Nat, t > 0
  PROVE  a \div t \in Nat /\ a % t \in 0..(t - 1) /\ a % t = a - t * (a \div t)
  <1>1. a \div t \in Nat /\ a % t \in 0..(t - 1)
    BY SMT
  <1>2. a % t = a - t * (a \div t)
    BY SMT
  <1>. QED BY <1>1, <1>2

\* Two numbers with the same remainder that are less than t apart are equal.
LEMMA SameRemainder ==
  ASSUME NEW p \in Int, NEW q \in Int, NEW r \in Int, NEW t \in Nat, NEW a \in Int, NEW b \in Int,
         t > 0, a = p * t + r, b = q * t + r, b <= a, a < b + t
  PROVE  a = b
  <1>1. (p - q) * t = a - b /\ (q - p) * t = b - a
    BY SMT
  <1>2. ~(p - q >= 1)
    BY <1>1, TimesAtLeast, SMT
  <1>3. ~(q - p >= 1)
    BY <1>1, TimesAtLeast, SMT
  <1>. QED BY <1>2, <1>3, SMT

\* Between two nonces of a worker there is none with its remainder.
LEMMA ModClose ==
  ASSUME NEW a \in Nat, NEW b \in Nat, NEW t \in Nat, t > 0, a % t = b % t, b <= a, a < b + t
  PROVE  a = b
  <1>1. PICK p \in Nat : p = a \div t /\ a % t = a - t * p
    BY DivMod
  <1>2. PICK q \in Nat : q = b \div t /\ b % t = b - t * q
    BY DivMod, SMT
  <1>3. PICK r \in Int : r = a % t /\ r = b % t
    BY DivMod, SMT
  <1>4. a = p * t + r /\ b = q * t + r
    <2>1. r = a - t * p /\ r = b - t * q
      BY <1>1, <1>2, <1>3
    <2>. QED BY <2>1, SMT
  <1>. QED BY <1>4, SameRemainder, SMT

LEMMA ModSmall == ASSUME NEW a \in Nat, NEW t \in Nat, a < t PROVE a % t = a
  <1>1. a \div t = 0
    BY SMT
  <1>2. a % t = a - t * 0
    BY <1>1, DivMod, SMT
  <1>. QED BY <1>2, SMT

LEMMA ModAdd == ASSUME NEW a \in Nat, NEW t \in Nat, t > 0 PROVE (a + t) % t = a % t
  <1>. DEFINE b == a + t
  <1>0. b \in Nat /\ b = a + t
    BY SMT
  <1>. HIDE DEF b
  <1>1. PICK p \in Nat, r \in 0..(t - 1) : p = a \div t /\ r = a % t /\ r = a - t * p
    BY DivMod
  <1>2. PICK q \in Nat, s \in 0..(t - 1) : q = b \div t /\ s = b % t /\ s = b - t * q
    BY <1>0, DivMod
  <1>3. (p + 1 - q) * t = s - r /\ (q - (p + 1)) * t = r - s
    <2>1. a = t * p + r /\ b = t * q + s
      BY <1>0, <1>1, <1>2, SMT
    <2>2. t * p + r + t = t * q + s
      BY <2>1, <1>0
    <2>. QED BY <2>2, SMT
  <1>4. ~(p + 1 - q >= 1) /\ ~(q - (p + 1) >= 1)
    BY <1>3, TimesAtLeast, SMT
  <1>5. p + 1 = q
    BY <1>4, SMT
  <1>6. s = r
    BY <1>3, <1>5, SMT
  <1>. QED BY <1>1, <1>2, <1>6 DEF b
\* A set of worker numbers without a gap is the set of the first ones.
LEMMA NoGap ==
  ASSUME NEW M \in Nat, NEW D \in SUBSET (0..(M - 1)),
         \A v, w \in 0..(M - 1) : v < w /\ w \in D => v \in D
  PROVE  Cardinality(D) \in Nat /\ D = 0..(Cardinality(D) - 1)
  <1>. DEFINE n == Cardinality(D)
  <1>1. IsFiniteSet(0..(M - 1)) /\ Cardinality(0..(M - 1)) = M
    <2>1. IsFiniteSet(0..(M - 1)) /\ Cardinality(0..(M - 1)) = IF 0 > M - 1 THEN 0 ELSE (M - 1) - 0 + 1
      BY FS_Interval, SMT
    <2>. QED BY <2>1, SMT
  <1>2. IsFiniteSet(D) /\ n \in Nat /\ n <= M
    BY <1>1, FS_Subset, FS_CardinalityType, ZenonT(30)
  <1>. HIDE DEF n
  <1>3. n \notin D
    <2>. SUFFICES ASSUME n \in D PROVE FALSE
      OBVIOUS
    <2>1. 0..n \in SUBSET D
      BY <1>2, SMT
    <2>2. Cardinality(0..n) = n + 1
      <3>1. Cardinality(0..n) = IF 0 > n THEN 0 ELSE n - 0 + 1
        BY <1>2, FS_Interval, SMT
      <3>. QED BY <3>1, <1>2, SMT
    <2>3. Cardinality(0..n) <= n
      BY <1>2, <2>1, FS_Subset DEF n
    <2>. QED BY <1>2, <2>2, <2>3, SMT
  <1>4. D \in SUBSET (0..(n - 1))
    <2>. SUFFICES ASSUME NEW d \in D PROVE d \in 0..(n - 1)
      OBVIOUS
    <2>1. d \in 0..(M - 1) /\ d # n
      BY <1>3
    <2>2. ~(n < d)
      BY <1>2, <1>3, <2>1, SMT
    <2>. QED BY <1>2, <2>1, <2>2, SMT
  <1>5. IsFiniteSet(0..(n - 1)) /\ Cardinality(0..(n - 1)) = n
    <2>1. IsFiniteSet(0..(n - 1)) /\ Cardinality(0..(n - 1)) = IF 0 > n - 1 THEN 0 ELSE (n - 1) - 0 + 1
      BY <1>2, FS_Interval, SMT
    <2>. QED BY <2>1, <1>2, SMT
  <1>6. D = 0..(n - 1)
    BY <1>4, <1>5, FS_Subset DEF n
  <1>. QED BY <1>2, <1>6 DEF n

LEMMA MinerConstants ==
  /\ MaxThreads \in Nat /\ MaxThreads > 0 /\ MaxNonce \in Nat /\ MaxTip \in Nat /\ MaxRound \in Nat /\ MaxStarts \in Nat
  BY MinerAssumption, SMT

LEMMA MinerInvInit == Init => MinerInv
  <1>. SUFFICES ASSUME Init PROVE MinerInv
    OBVIOUS
  <1>0. /\ m_status = [running |-> FALSE, stopping |-> FALSE, state |-> "stopped", error |-> FALSE, blocks |-> {}]
        /\ pc = "none" /\ round = NewRound /\ block = NoBlock /\ threads = 1
        /\ \A w \in Workers : worker[w] = NoWorker
    BY DEF Init
  <1>1. NoBlock \in Blocks
    BY MinerConstants, SMT DEF NoBlock, None, Blocks
  <1>2. MinerTypes
    <2>1. NoWorker \in WorkerStates
      BY <1>1 DEF NoWorker, WorkerStates
    <2>2. NewRound \in [done : BOOLEAN, finished : Nat, solution : Nonces \cup {None}, failure : BOOLEAN]
      BY DEF NewRound
    <2>3. worker \in [Workers -> WorkerStates]
      BY <2>1 DEF Init
    <2>4. 1 \in 1..MaxThreads /\ 0 \in 0..MaxTip
      BY MinerConstants, SMT
    <2>5. node \in [tip : 0..MaxTip, behind : BOOLEAN, m_interrupt : BOOLEAN, connected : SUBSET (1..MaxRound)]
      BY <2>4 DEF Init
    <2>6. m_stop \in BOOLEAN
      BY DEF Init
    <2>. QED BY <1>0, <1>1, <2>2, <2>3, <2>4, <2>5, <2>6 DEF MinerTypes
  <1>3. SessionInv
    BY <1>0 DEF SessionInv, Before, InRound, After, NewRound
  <1>4. WorkersInv /\ NoncesInv
    BY <1>0, SMT DEF WorkersInv, NoncesInv, Exists, NoWorker, InRound
  <1>5. StopShown /\ CountsConnected
    BY <1>0 DEF StopShown, CountsConnected
  <1>. QED BY <1>2, <1>3, <1>4, <1>5 DEF MinerInv

-----------------------------------------------------------------------------
(* What steps that leave the workers alone keep                            *)

LEMMA NoncesKept ==
  ASSUME NoncesInv, UNCHANGED <<worker, threads>>, round.done => round'.done, Cancelled => Cancelled'
  PROVE  NoncesInv'
  BY DEF NoncesInv, Exists

LEMMA WorkersKept ==
  ASSUME WorkersInv, UNCHANGED <<worker, threads, block>>, round'.finished = round.finished,
         pc \in InRound <=> pc' \in InRound
  PROVE  WorkersInv'
  BY DEF WorkersInv, Exists

\* Nobody of a round is left outside it.
LEMMA NobodyOutside ==
  ASSUME WorkersInv, pc \notin InRound
  PROVE  \A w \in Workers : /\ worker[w] = NoWorker /\ worker[w].pc = "none" /\ worker[w].tried = {}
                            /\ ~Exists(w)
  <1>1. NoWorker.pc = "none" /\ NoWorker.tried = {}
    BY DEF NoWorker
  <1>. QED BY <1>1 DEF WorkersInv, Exists

\* Start: a session begins, or its thread cannot be created.
LEMMA StartKeeps == ASSUME MinerInv, NEW n \in 1..MaxThreads, Start(n) PROVE MinerInv'
  <1>0. MinerTypes /\ SessionInv /\ WorkersInv
    BY DEF MinerInv
  <1>1. PICK started \in BOOLEAN :
          /\ m_status' = [running |-> started, stopping |-> FALSE, error |-> FALSE, blocks |-> {},
                          state |-> IF started THEN "starting" ELSE "stopped"]
          /\ m_stop' = ~started /\ pc' = IF started THEN "loop" ELSE "none"
    BY DEF Start
  <1>2. pc = "none" /\ threads' = n /\ UNCHANGED <<node, block, round, worker>>
    BY DEF Start
  <1>3. \A w \in Workers : worker'[w] = NoWorker /\ worker'[w].pc = "none" /\ worker'[w].tried = {}
    BY <1>0, <1>2, NobodyOutside DEF InRound
  <1>4. MinerTypes'
    <2>1. m_status' \in [running : BOOLEAN, stopping : BOOLEAN, error : BOOLEAN, blocks : SUBSET (1..MaxRound),
                     state : {"stopped", "starting", "waiting", "mining", "stopping", "error"}]
      BY <1>1
    <2>2. m_stop' \in BOOLEAN
      BY <1>1
    <2>. QED BY <1>0, <1>1, <1>2, <2>1, <2>2 DEF MinerTypes, Places
  <1>5. SessionInv'
    BY <1>0, <1>1, <1>2 DEF SessionInv, Before, InRound, After
  <1>6. WorkersInv' /\ NoncesInv'
    BY <1>1, <1>3 DEF WorkersInv, NoncesInv, Exists, InRound
  <1>7. StopShown' /\ CountsConnected'
    BY <1>1 DEF StopShown, CountsConnected
  <1>. QED BY <1>4, <1>5, <1>6, <1>7 DEF MinerInv

LEMMA StopKeeps == ASSUME MinerInv, Stop PROVE MinerInv'
  <1>0. MinerTypes /\ SessionInv /\ WorkersInv /\ NoncesInv /\ CountsConnected
    BY DEF MinerInv
  <1>1. m_stop' = TRUE /\ UNCHANGED <<node, pc, threads, block, round, worker>>
    BY DEF Stop
  <1>2. /\ m_status' \in [running : BOOLEAN, stopping : BOOLEAN, error : BOOLEAN, blocks : SUBSET (1..MaxRound),
                     state : {"stopped", "starting", "waiting", "mining", "stopping", "error"}]
        /\ m_status'.running = m_status.running /\ m_status'.blocks = m_status.blocks
        /\ m_status.running => m_status'.stopping /\ m_status'.state = "stopping"
    BY <1>0 DEF Stop, MinerTypes
  <1>3. MinerTypes'
    BY <1>0, <1>1, <1>2 DEF MinerTypes
  <1>4. SessionInv'
    BY <1>0, <1>1, <1>2 DEF SessionInv
  <1>5. WorkersInv'
    BY <1>0, <1>1, WorkersKept
  <1>6. NoncesInv'
    BY <1>0, <1>1, NoncesKept DEF Cancelled
  <1>7. StopShown' /\ CountsConnected'
    BY <1>0, <1>1, <1>2 DEF StopShown, CountsConnected
  <1>. QED BY <1>3, <1>4, <1>5, <1>6, <1>7 DEF MinerInv

\* The chain after the round's block became the tip, while Run activates it.
LEMMA ConnectedTypes ==
  ASSUME MinerTypes, block.round >= 1, Connectable
  PROVE  /\ BlockConnected \in [tip : 0..MaxTip, behind : BOOLEAN, m_interrupt : BOOLEAN, connected : SUBSET (1..MaxRound)]
         /\ BlockConnected.connected = node.connected \cup {block.round}
         /\ BlockConnected.m_interrupt = node.m_interrupt
  <1>1. /\ node \in [tip : 0..MaxTip, behind : BOOLEAN, m_interrupt : BOOLEAN, connected : SUBSET (1..MaxRound)]
        /\ block.round \in 1..MaxRound
    BY MinerConstants, SMT DEF MinerTypes, Blocks
  <1>2. node.tip + 1 \in 0..MaxTip
    BY <1>1, MinerConstants, SMT DEF Connectable
  <1>3. node.connected \cup {block.round} \in SUBSET (1..MaxRound)
    BY <1>1
  <1>4. BlockConnected = [node EXCEPT !.tip = node.tip + 1, !.connected = node.connected \cup {block.round}]
    BY DEF BlockConnected
  <1>. QED BY <1>1, <1>2, <1>3, <1>4

LEMMA NodeKeeps == ASSUME MinerInv, NodeStep PROVE MinerInv'
  <1>0. MinerTypes /\ SessionInv /\ WorkersInv /\ NoncesInv /\ CountsConnected /\ StopShown
    BY DEF MinerInv
  <1>1. UNCHANGED <<m_status, m_stop, pc, threads, block, round, worker>>
    BY DEF NodeStep
  <1>2. /\ node' \in [tip : 0..MaxTip, behind : BOOLEAN, m_interrupt : BOOLEAN, connected : SUBSET (1..MaxRound)]
        /\ node.connected \subseteq node'.connected /\ (node.m_interrupt => node'.m_interrupt)
    <2>0. node \in [tip : 0..MaxTip, behind : BOOLEAN, m_interrupt : BOOLEAN, connected : SUBSET (1..MaxRound)]
      BY <1>0 DEF MinerTypes
    <2>1. CASE node.tip < MaxTip /\ \E behind \in BOOLEAN : node' = [node EXCEPT !.tip = @ + 1, !.behind = behind]
      <3>1. node.tip + 1 \in 0..MaxTip
        BY <2>0, <2>1, MinerConstants, SMT
      <3>2. PICK behind \in BOOLEAN : node' = [node EXCEPT !.tip = node.tip + 1, !.behind = behind]
        BY <2>1
      <3>. QED BY <2>0, <3>1, <3>2
    <2>2. CASE pc = "activating" /\ Connectable /\ node' = BlockConnected
      <3>1. block.round >= 1
        BY <1>0, <2>2 DEF SessionInv, After
      <3>. QED BY <1>0, <2>2, <3>1, ConnectedTypes
    <2>3. CASE node' = [node EXCEPT !.behind = ~@] \/ node' = [node EXCEPT !.m_interrupt = TRUE]
      BY <2>0, <2>3
    <2>. QED BY <2>1, <2>2, <2>3 DEF NodeStep
  <1>3. MinerTypes'
    BY <1>0, <1>1, <1>2, SMT DEF MinerTypes
  <1>4. SessionInv'
    BY <1>0, <1>1 DEF SessionInv
  <1>5. WorkersInv'
    BY <1>0, <1>1, WorkersKept
  <1>6. NoncesInv'
    BY <1>0, <1>1, <1>2, NoncesKept DEF Cancelled
  <1>7. StopShown' /\ CountsConnected'
    BY <1>0, <1>1, <1>2 DEF StopShown, CountsConnected
  <1>. QED BY <1>3, <1>4, <1>5, <1>6, <1>7 DEF MinerInv

-----------------------------------------------------------------------------
(* The coordinator                                                         *)

\* A step that changes where Run is, and nothing else.
LEMMA QuietKeeps ==
  ASSUME MinerInv, Quietly, pc \in Places, pc' \in Places,
         pc \in InRound <=> pc' \in InRound,
         pc' \in Before => pc \in Before,
         pc' \in {"recheck", "announce"} \cup After => pc \in {"recheck", "announce"} \cup After,
         pc' \in After => pc \in After
  PROVE  MinerInv'
  <1>0. MinerTypes /\ SessionInv /\ WorkersInv /\ NoncesInv /\ CountsConnected /\ StopShown
    BY DEF MinerInv
  <1>1. UNCHANGED <<m_status, m_stop, node, threads, block, round, worker>>
    BY DEF Quietly
  <1>2. MinerTypes'
    BY <1>0, <1>1, SMT DEF MinerTypes
  <1>3. pc # "none" /\ pc' # "none"
    BY DEF Places
  <1>4. SessionInv'
    BY <1>0, <1>1, <1>3 DEF SessionInv
  <1>5. WorkersInv' /\ NoncesInv'
    BY <1>0, <1>1, WorkersKept, NoncesKept DEF Cancelled
  <1>6. StopShown' /\ CountsConnected'
    BY <1>0, <1>1 DEF StopShown, CountsConnected
  <1>. QED BY <1>2, <1>4, <1>5, <1>6 DEF MinerInv

LEMMA QuietSteps ==
  ASSUME MinerInv,
         \/ ReadTip \/ RecheckTip \/ SpawnEnds \/ CheckTip
         \/ (Go("template", "end") \/ Go("template", "throw")) /\ Quietly
  PROVE  MinerInv'
  <1>1. Quietly
    BY DEF ReadTip, RecheckTip, SpawnEnds, CheckTip
  <1>2. \/ pc = "tip" /\ pc' \in {"waiting", "template"}
        \/ pc = "recheck" /\ pc' \in {"loop", "announce", "throw"}
        \/ pc = "spawn" /\ pc' = "watch"
        \/ pc = "submit" /\ pc' \in {"submitting", "loop"}
        \/ pc = "template" /\ pc' \in {"end", "throw"}
    BY DEF ReadTip, RecheckTip, SpawnEnds, CheckTip, Go
  <1>3. pc \in Places /\ pc' \in Places /\ (pc \in InRound <=> pc' \in InRound)
    BY <1>2 DEF Places, InRound
  <1>4. /\ pc' \in Before => pc \in Before
        /\ pc' \in {"recheck", "announce"} \cup After => pc \in {"recheck", "announce"} \cup After
        /\ pc' \in After => pc \in After
    BY <1>2 DEF Before, After
  <1>. QED BY <1>1, <1>3, <1>4, QuietKeeps

\* The head of the loop forgets the round before.
LEMMA LoopKeeps == ASSUME MinerInv, LoopTest PROVE MinerInv'
  <1>0. MinerTypes /\ SessionInv /\ WorkersInv /\ NoncesInv /\ CountsConnected /\ StopShown
    BY DEF MinerInv
  <1>1. /\ pc = "loop" /\ pc' \in {"end", "tip"} /\ block' = [NoBlock EXCEPT !.round = block.round] /\ round' = NewRound
        /\ UNCHANGED <<m_status, m_stop, node, threads, worker>>
    BY DEF LoopTest, Go
  <1>2. \A w \in Workers : worker[w] = NoWorker /\ worker[w].pc = "none" /\ worker[w].tried = {} /\ ~Exists(w)
    BY <1>0, <1>1, NobodyOutside DEF InRound
  <1>3. NewRound \in [done : BOOLEAN, finished : Nat, solution : Nonces \cup {None}, failure : BOOLEAN]
        /\ NewRound.solution = None
    BY DEF NewRound
  <1>4. block' \in Blocks
    BY <1>0, <1>1, SMT DEF MinerTypes, Blocks, NoBlock, None
  <1>5. MinerTypes'
    BY <1>0, <1>1, <1>3, <1>4, SMT DEF MinerTypes, Places
  <1>6. SessionInv'
    BY <1>0, <1>1, <1>3 DEF SessionInv, Before, InRound, After
  <1>7. WorkersInv' /\ NoncesInv'
    <2>1. \A w \in Workers : ~Exists(w)'
      BY <1>1, <1>2 DEF Exists
    <2>. QED BY <1>1, <1>2, <2>1 DEF WorkersInv, NoncesInv, InRound
  <1>8. StopShown' /\ CountsConnected'
    BY <1>0, <1>1 DEF StopShown, CountsConnected
  <1>. QED BY <1>5, <1>6, <1>7, <1>8 DEF MinerInv

\* A template: a block of the next round.
LEMMA TemplateKeeps ==
  ASSUME MinerInv, Go("template", "recheck"), block.round < MaxRound,
         block' \in [prev : {node.tip}, round : {block.round + 1}, valid : SUBSET Nonces],
         UNCHANGED <<m_status, m_stop, node, threads, round, worker, startCalls>>
  PROVE  MinerInv'
  <1>0. MinerTypes /\ SessionInv /\ WorkersInv /\ NoncesInv /\ CountsConnected /\ StopShown
    BY DEF MinerInv
  <1>1. pc = "template" /\ pc' = "recheck"
    BY DEF Go
  <1>2. \A w \in Workers : worker[w] = NoWorker /\ worker[w].pc = "none" /\ worker[w].tried = {} /\ ~Exists(w)
    BY <1>0, <1>1, NobodyOutside DEF InRound
  <1>3. block.round + 1 \in 0..MaxRound /\ block.round + 1 >= 1 /\ node.tip \in Int
    BY <1>0, MinerConstants, SMT DEF MinerTypes, Blocks
  <1>4. block' \in Blocks /\ block'.round >= 1
    BY <1>3 DEF Blocks
  <1>5. round = NewRound /\ NewRound.solution = None
    BY <1>0, <1>1 DEF SessionInv, Before, NewRound
  <1>6. MinerTypes'
    BY <1>0, <1>1, <1>4, SMT DEF MinerTypes, Places
  <1>7. SessionInv'
    BY <1>0, <1>1, <1>4, <1>5 DEF SessionInv, Before, InRound, After
  <1>8. WorkersInv' /\ NoncesInv'
    <2>1. \A w \in Workers : ~Exists(w)'
      BY <1>2 DEF Exists
    <2>. QED BY <1>1, <1>2, <2>1 DEF WorkersInv, NoncesInv, InRound
  <1>9. StopShown' /\ CountsConnected'
    BY <1>0, <1>1 DEF StopShown, CountsConnected
  <1>. QED BY <1>6, <1>7, <1>8, <1>9 DEF MinerInv

\* Reports of the state; the second one is where the workers' part begins.
LEMMA ReportKeeps == ASSUME MinerInv, Report PROVE MinerInv'
  <1>0. MinerTypes /\ SessionInv /\ WorkersInv /\ NoncesInv /\ CountsConnected /\ StopShown
    BY DEF MinerInv
  <1>1. /\ pc \in {"waiting", "announce"} /\ pc' \in {"loop", "spawn"} /\ (pc' = "spawn" => pc = "announce")
        /\ UNCHANGED <<m_stop, node, threads, block, round, worker>>
    BY DEF Report, Go
  <1>2. /\ m_status' \in [running : BOOLEAN, stopping : BOOLEAN, error : BOOLEAN, blocks : SUBSET (1..MaxRound),
                     state : {"stopped", "starting", "waiting", "mining", "stopping", "error"}]
        /\ m_status'.running = m_status.running /\ m_status'.blocks = m_status.blocks
        /\ m_stop => m_status' = m_status
    BY <1>0, SMT DEF Report, Announce, MinerTypes
  <1>3. \A w \in Workers : worker[w] = NoWorker /\ worker[w].pc = "none" /\ worker[w].tried = {} /\ ~Exists(w)
    BY <1>0, <1>1, NobodyOutside DEF InRound
  <1>4. MinerTypes'
    BY <1>0, <1>1, <1>2, SMT DEF MinerTypes, Places
  <1>5. SessionInv'
    BY <1>0, <1>1, <1>2 DEF SessionInv, Before, InRound, After
  <1>6. WorkersInv'
    <2>1. {w \in Workers : worker'[w].pc = "finished"} = {}
      BY <1>1, <1>3
    <2>2. round'.finished = 0
      BY <1>0, <1>1, SMT DEF SessionInv, Before, NewRound
    <2>3. Cardinality({w \in Workers : worker'[w].pc = "finished"}) = 0
      BY <2>1, FS_EmptySet
    <2>4. \A w \in Workers : ~Exists(w)'
      BY <1>1, <1>3 DEF Exists
    <2>. QED BY <1>1, <1>3, <2>2, <2>3, <2>4 DEF WorkersInv, InRound
  <1>7. NoncesInv'
    BY <1>0, <1>1, NoncesKept DEF Cancelled
  <1>8. StopShown' /\ CountsConnected'
    BY <1>0, <1>1, <1>2 DEF StopShown, CountsConnected
  <1>. QED BY <1>4, <1>5, <1>6, <1>7, <1>8 DEF MinerInv

\* The next worker starts at its own number, which is the number of those there.
LEMMA SpawnKeeps == ASSUME MinerInv, SpawnWorker PROVE MinerInv'
  <1>. DEFINE crew == {w \in Workers : worker[w].pc # "none"}
              new == [pc |-> "check", nonce |-> Spawned, header |-> block, tried |-> {}]
  <1>0. MinerTypes /\ SessionInv /\ WorkersInv /\ NoncesInv /\ CountsConnected /\ StopShown
    BY DEF MinerInv
  <1>1. /\ pc = "spawn" /\ pc' = "spawn" /\ Spawned < threads
        /\ worker' = [worker EXCEPT ![Spawned] = new]
        /\ UNCHANGED <<m_status, m_stop, node, threads, block, round>>
    BY DEF SpawnWorker, Go, MoreWorkers
  <1>2. Spawned \in Nat /\ crew = 0..(Spawned - 1)
    <2>1. crew \in SUBSET (0..(MaxThreads - 1))
      BY DEF Workers
    <2>2. \A v, w \in 0..(MaxThreads - 1) : v < w /\ w \in crew => v \in crew
      BY <1>0 DEF WorkersInv, Exists, Workers
    <2>3. Spawned = Cardinality(crew)
      BY DEF Spawned
    <2>. HIDE DEF crew
    <2>. QED BY <2>1, <2>2, <2>3, MinerConstants, NoGap
  <1>3. threads \in Nat /\ threads > 0 /\ threads <= MaxThreads /\ block \in Blocks /\ worker \in [Workers -> WorkerStates]
    BY <1>0, MinerConstants, SMT DEF MinerTypes
  <1>4. Spawned \in Workers /\ worker[Spawned].pc = "none"
    <2>1. Spawned \in Workers
      BY <1>1, <1>2, <1>3, MinerConstants, SMT DEF Workers
    <2>2. Spawned \notin crew
      BY <1>2, SMT
    <2>. QED BY <2>1, <2>2
  <1>5. \A v \in Workers : v < Spawned <=> worker[v].pc # "none"
    <2>1. \A v \in Workers : v \in Nat
      BY SMT DEF Workers
    <2>2. \A v \in Workers : v \in 0..(Spawned - 1) <=> v < Spawned
      BY <1>2, <2>1, SMT
    <2>. QED BY <1>2, <2>2
  <1>. HIDE DEF crew
  <1>6. PICK k \in Workers : k = Spawned
    BY <1>4
  <1>7. /\ new \in WorkerStates /\ new.pc = "check" /\ new.nonce = k /\ new.header = block /\ new.tried = {}
        /\ k \in Nat /\ k < threads
    BY <1>1, <1>2, <1>3, <1>6 DEF WorkerStates
  <1>. HIDE DEF new
  <1>8. /\ worker' \in [Workers -> WorkerStates] /\ worker'[k] = new
        /\ \A w \in Workers : w # k => worker'[w] = worker[w]
    BY <1>1, <1>3, <1>6, <1>7
  <1>9. MinerTypes'
    BY <1>0, <1>1, <1>8, SMT DEF MinerTypes
  <1>10. SessionInv'
    BY <1>0, <1>1 DEF SessionInv
  <1>11. WorkersInv'
    <2>1. {w \in Workers : worker'[w].pc = "finished"} = {w \in Workers : worker[w].pc = "finished"}
      BY <1>4, <1>6, <1>7, <1>8
    <2>2. \A w \in Workers : Exists(w)' => worker'[w].header = block' /\ w < threads'
      BY <1>0, <1>1, <1>7, <1>8 DEF WorkersInv, Exists
    <2>3. \A v, w \in Workers : v < w /\ Exists(w)' => Exists(v)'
      <3>. SUFFICES ASSUME NEW v \in Workers, NEW w \in Workers, v < w, worker'[w].pc # "none"
                    PROVE  worker'[v].pc # "none"
        BY DEF Exists
      <3>0. v \in Nat /\ w \in Nat
        BY SMT DEF Workers
      <3>1. CASE v = k
        BY <3>1, <1>7, <1>8
      <3>2. CASE v # k /\ w = k
        BY <3>2, <1>5, <1>6, <1>8
      <3>3. CASE v # k /\ w # k
        BY <3>3, <1>0, <1>8 DEF WorkersInv, Exists
      <3>. QED BY <3>1, <3>2, <3>3
    <2>4. \A w \in Workers : ~Exists(w)' => worker'[w].tried = {}
      BY <1>0, <1>7, <1>8 DEF WorkersInv, Exists
    <2>5. round'.finished = Cardinality({w \in Workers : worker'[w].pc = "finished"})
      BY <1>0, <1>1, <2>1 DEF WorkersInv, InRound
    <2>. QED BY <1>1, <2>2, <2>3, <2>4, <2>5 DEF WorkersInv, InRound
  <1>12. NoncesInv'
    <2>1. k % threads = k
      BY <1>3, <1>7, ModSmall
    <2>2. \A n \in Nonces : n % threads = k /\ n < k => FALSE
      <3>. SUFFICES ASSUME NEW n \in Nonces, n % threads = k, n < k PROVE FALSE
        OBVIOUS
      <3>1. n \in Nat /\ n < threads
        BY <1>3, <1>7, SMT DEF Nonces
      <3>. QED BY <3>1, <1>3, <1>7, ModSmall, SMT
    <2>3. \A w \in Workers : w # k => Exists(w)' = Exists(w) /\ worker'[w] = worker[w]
      BY <1>8 DEF Exists
    <2>4. UNCHANGED <<threads, round>> /\ Cancelled' = Cancelled
      BY <1>1 DEF Cancelled
    <2>. QED BY <1>0, <1>7, <1>8, <2>1, <2>2, <2>3, <2>4, ZenonT(30) DEF NoncesInv
  <1>13. StopShown' /\ CountsConnected'
    BY <1>0, <1>1 DEF StopShown, CountsConnected
  <1>. QED BY <1>9, <1>10, <1>11, <1>12, <1>13 DEF MinerInv

\* The watch loop or the spawn loop ends.
LEMMA RoundEndsKeeps == ASSUME MinerInv, RoundEnds PROVE MinerInv'
  <1>0. MinerTypes /\ SessionInv /\ WorkersInv /\ NoncesInv /\ CountsConnected /\ StopShown
    BY DEF MinerInv
  <1>1. /\ pc \in {"watch", "spawn"} /\ pc' \in {"join", "unwind"}
        /\ round' = [round EXCEPT !.done = TRUE]
        /\ UNCHANGED <<m_status, m_stop, node, threads, block, worker>>
    BY DEF RoundEnds, Go, Unwind
  <1>2. /\ round' \in [done : BOOLEAN, finished : Nat, solution : Nonces \cup {None}, failure : BOOLEAN]
        /\ round'.done /\ round'.finished = round.finished /\ round'.solution = round.solution
    BY <1>0, <1>1 DEF MinerTypes
  <1>3. MinerTypes'
    BY <1>0, <1>1, <1>2, SMT DEF MinerTypes, Places
  <1>4. SessionInv'
    BY <1>0, <1>1, <1>2 DEF SessionInv, Before, InRound, After
  <1>5. WorkersInv'
    BY <1>0, <1>1, <1>2, WorkersKept DEF InRound
  <1>6. NoncesInv'
    BY <1>0, <1>1, <1>2, NoncesKept DEF Cancelled
  <1>7. StopShown' /\ CountsConnected'
    BY <1>0, <1>1 DEF StopShown, CountsConnected
  <1>. QED BY <1>3, <1>4, <1>5, <1>6, <1>7 DEF MinerInv

\* Join: nobody is left of the round, and a solution is submitted if there is one.
LEMMA JoinKeeps == ASSUME MinerInv, Join PROVE MinerInv'
  <1>0. MinerTypes /\ SessionInv /\ WorkersInv /\ NoncesInv /\ CountsConnected /\ StopShown
    BY DEF MinerInv
  <1>1. /\ pc \in {"unwind", "join"} /\ pc' \in {"throw", "submit", "loop"}
        /\ pc' = "submit" => round.solution # None
        /\ UNCHANGED <<m_status, m_stop, node, threads, block, round>>
    BY DEF Join, Go
  <1>2. worker' = [w \in Workers |-> NoWorker]
    BY DEF Join, Joined
  <1>3. NoWorker \in WorkerStates /\ NoWorker.pc = "none" /\ NoWorker.tried = {}
    <2>1. NoBlock \in Blocks
      BY MinerConstants, SMT DEF NoBlock, None, Blocks
    <2>. QED BY <2>1 DEF NoWorker, WorkerStates
  <1>4. worker' \in [Workers -> WorkerStates] /\ \A w \in Workers : worker'[w] = NoWorker
    BY <1>2, <1>3
  <1>5. MinerTypes'
    BY <1>0, <1>1, <1>4, SMT DEF MinerTypes, Places
  <1>6. SessionInv'
    BY <1>0, <1>1 DEF SessionInv, Before, InRound, After
  <1>7. WorkersInv' /\ NoncesInv'
    <2>1. \A w \in Workers : ~Exists(w)' /\ worker'[w].tried = {}
      BY <1>3, <1>4 DEF Exists
    <2>. QED BY <1>1, <1>4, <2>1 DEF WorkersInv, NoncesInv, InRound
  <1>8. StopShown' /\ CountsConnected'
    BY <1>0, <1>1 DEF StopShown, CountsConnected
  <1>. QED BY <1>5, <1>6, <1>7, <1>8 DEF MinerInv

\* SubmitBlock says true only of a block that was found valid and whose activation
\* did not fail.
LEMMA AcceptedIsValid ==
    ASSUME NEW accepted \in BOOLEAN, NEW verdict \in Verdicts, Accepted(accepted, TRUE, verdict)
    PROVE  accepted /\ verdict = "valid"
  <1>0. accepted
    BY DEF Accepted
  <1>1. CASE verdict = "none"
    BY <1>1, SMT DEF Accepted, Reason
  <1>2. CASE verdict = "invalid"
    BY <1>2, SMT DEF Accepted, Reason
  <1>. QED BY <1>0, <1>1, <1>2 DEF Verdicts

\* The submission of the block, and the end of the session.
LEMMA SubmitKeeps == ASSUME MinerInv, StoreBlock \/ ActivateBlock \/ EndRun PROVE MinerInv'
  <1>0. MinerTypes /\ SessionInv /\ WorkersInv /\ NoncesInv /\ CountsConnected /\ StopShown
    BY DEF MinerInv
  <1>1. /\ \/ pc = "submitting" /\ pc' \in {"loop", "activating"}
           \/ pc = "activating" /\ pc' = "loop"
           \/ pc = "throw" /\ pc' = "end"
           \/ pc = "end" /\ pc' = "none"
        /\ UNCHANGED <<m_stop, threads, block, round, worker>>
    BY DEF StoreBlock, ActivateBlock, EndRun, Go
  <1>2. /\ node' \in [tip : 0..MaxTip, behind : BOOLEAN, m_interrupt : BOOLEAN, connected : SUBSET (1..MaxRound)]
        /\ node.connected \subseteq node'.connected /\ node'.m_interrupt = node.m_interrupt
    <2>0. node \in [tip : 0..MaxTip, behind : BOOLEAN, m_interrupt : BOOLEAN, connected : SUBSET (1..MaxRound)]
      BY <1>0 DEF MinerTypes
    <2>1. CASE ActivateBlock /\ Connectable /\ node' = BlockConnected
      <3>1. block.round >= 1
        BY <1>0, <2>1 DEF SessionInv, After, ActivateBlock, Go
      <3>. QED BY <1>0, <2>1, <3>1, ConnectedTypes
    <2>2. CASE node' = node
      BY <2>0, <2>2
    <2>. QED BY <2>1, <2>2 DEF StoreBlock, ActivateBlock, EndRun
  <1>3. /\ m_status' \in [running : BOOLEAN, stopping : BOOLEAN, error : BOOLEAN, blocks : SUBSET (1..MaxRound),
                     state : {"stopped", "starting", "waiting", "mining", "stopping", "error"}]
        /\ pc' # "none" => /\ m_status'.running = m_status.running /\ m_status'.stopping = m_status.stopping
                           /\ m_status'.state = m_status.state
        /\ pc' = "none" => ~m_status'.running
        /\ m_status'.blocks \subseteq node'.connected
    <2>0. /\ m_status \in [running : BOOLEAN, stopping : BOOLEAN, error : BOOLEAN, blocks : SUBSET (1..MaxRound),
                     state : {"stopped", "starting", "waiting", "mining", "stopping", "error"}]
          /\ m_status.blocks \subseteq node'.connected
      BY <1>0, <1>2 DEF MinerTypes, CountsConnected
    <2>1. ASSUME NEW accepted \in BOOLEAN, Counted(accepted), accepted => block.round \in node'.connected, pc' = "loop"
          PROVE  <1>3
      <3>1. PICK counted \in SUBSET (1..MaxRound) :
              /\ counted \subseteq node'.connected
              /\ m_status' = [m_status EXCEPT !.error = ~accepted, !.blocks = counted]
        BY <2>0, <2>1, <1>2, ZenonT(30) DEF Counted
      <3>. QED BY <2>0, <2>1, <3>1
    <2>2. CASE ActivateBlock
      <3>0. pc' = "loop"
        BY <2>2 DEF ActivateBlock, Go
      <3>1. PICK accepted \in BOOLEAN, verdict \in Verdicts :
              /\ \/ verdict = "valid" /\ Connectable /\ node' = BlockConnected
                 \/ verdict = "valid" /\ block.round \in node.connected /\ node' = node
                 \/ (verdict = "valid" => ~accepted) /\ block.round \notin node.connected /\ node' = node
              /\ Counted(Accepted(accepted, TRUE, verdict))
        BY <2>2 DEF ActivateBlock
      <3>2. Accepted(accepted, TRUE, verdict) \in BOOLEAN
        BY DEF Accepted
      <3>3. accepted /\ verdict = "valid" => block.round \in node'.connected
        <4>1. node \in [tip : 0..MaxTip, behind : BOOLEAN, m_interrupt : BOOLEAN, connected : SUBSET (1..MaxRound)]
          BY <1>0 DEF MinerTypes
        <4>2. block.round \in BlockConnected.connected
          BY <4>1 DEF BlockConnected
        <4>. QED BY <3>1, <4>2
      <3>4. Accepted(accepted, TRUE, verdict) => block.round \in node'.connected
        BY <3>3, AcceptedIsValid
      <3>. QED BY <2>1, <3>0, <3>1, <3>2, <3>4
    <2>3. CASE StoreBlock
      <3>1. CASE Counted(Accepted(FALSE, FALSE, "invalid")) /\ pc' = "loop"
        <4>1. Accepted(FALSE, FALSE, "invalid") = FALSE
          BY DEF Accepted
        <4>. QED BY <2>1, <3>1, <4>1
      <3>2. CASE m_status' = m_status /\ pc' = "activating"
        BY <2>0, <3>2
      <3>. QED BY <2>3, <3>1, <3>2 DEF StoreBlock, Go
    <2>4. CASE EndRun
      BY <2>0, <2>4 DEF EndRun, Go
    <2>. QED BY <2>2, <2>3, <2>4
  <1>4. MinerTypes'
    BY <1>0, <1>1, <1>2, <1>3 DEF MinerTypes, Places
  <1>5. SessionInv'
    BY <1>0, <1>1, <1>3 DEF SessionInv, Before, InRound, After
  <1>6. WorkersInv'
    BY <1>0, <1>1, WorkersKept DEF InRound
  <1>7. NoncesInv'
    BY <1>0, <1>1, <1>2, NoncesKept DEF Cancelled
  <1>8. StopShown' /\ CountsConnected'
    BY <1>0, <1>1, <1>3 DEF StopShown, CountsConnected
  <1>. QED BY <1>4, <1>5, <1>6, <1>7, <1>8 DEF MinerInv

-----------------------------------------------------------------------------
(* The hash workers                                                        *)

\* One worker takes a step: what it must leave for the round and for its nonces.
LEMMA WorkerKeeps ==
  ASSUME MinerInv, NEW w \in Workers, NEW new \in WorkerStates,
         worker[w].pc \in {"check", "hash", "ended"}, worker' = [worker EXCEPT ![w] = new],
         UNCHANGED <<m_status, m_stop, node, pc, threads, block>>,
         new.pc # "none", new.header = worker[w].header,
         round' \in [done : BOOLEAN, finished : Nat, solution : Nonces \cup {None}, failure : BOOLEAN],
         round.done => round'.done,
         round'.solution \in {round.solution} \cup block.valid,
         \/ new.pc # "finished" /\ round'.finished = round.finished
         \/ new.pc = "finished" /\ round'.finished = round.finished + 1,
         new.nonce % threads = w,
         new.pc = "hash" => new.nonce \in Nonces,
         \A n \in new.tried : n % threads = w,
         \A n \in Nonces : n % threads = w /\ n < new.nonce => n \in new.tried,
         new.pc \in {"ended", "finished"} => new.nonce > MaxNonce \/ round'.done \/ Cancelled
  PROVE  MinerInv'
  <1>0. MinerTypes /\ SessionInv /\ WorkersInv /\ NoncesInv /\ CountsConnected /\ StopShown
    BY DEF MinerInv
  <1>1. /\ worker' \in [Workers -> WorkerStates] /\ worker'[w] = new
        /\ \A v \in Workers : v # w => worker'[v] = worker[v]
    BY <1>0 DEF MinerTypes
  <1>2. pc \in InRound /\ Exists(w) /\ \A v \in Workers : Exists(v)' = Exists(v)
    <2>1. NoWorker.pc = "none"
      BY DEF NoWorker
    <2>2. pc \in InRound
      BY <1>0, <2>1 DEF WorkersInv
    <2>. QED BY <2>2, <1>1 DEF Exists
  <1>3. None \notin block.valid
    BY <1>0, SMT DEF MinerTypes, Blocks, Nonces, None
  <1>4. MinerTypes'
    BY <1>0, <1>1, SMT DEF MinerTypes
  <1>5. SessionInv'
    BY <1>0, <1>2, <1>3 DEF SessionInv, Before, InRound, After
  <1>6. WorkersInv'
    <2>. DEFINE F == {v \in Workers : worker[v].pc = "finished"}
                G == {v \in Workers : worker'[v].pc = "finished"}
    <2>1. round'.finished = Cardinality(G)
      <3>1. IsFiniteSet(F) /\ w \notin F
        <4>1. IsFiniteSet(Workers)
          BY MinerConstants, FS_Interval, SMT DEF Workers
        <4>2. F \in SUBSET Workers
          OBVIOUS
        <4>. QED BY <4>1, <4>2, FS_Subset
      <3>2. round.finished = Cardinality(F)
        BY <1>0, <1>2 DEF WorkersInv
      <3>3. CASE new.pc # "finished"
        <4>1. G = F
          BY <3>3, <1>1
        <4>. QED BY <3>2, <3>3, <4>1
      <3>4. CASE new.pc = "finished"
        <4>1. G = F \cup {w}
          BY <3>4, <1>1
        <4>2. Cardinality(F \cup {w}) = Cardinality(F) + 1
          <5>. HIDE DEF F
          <5>. QED BY <3>1, FS_AddElement
        <4>. QED BY <3>2, <3>4, <4>1, <4>2
      <3>. QED BY <3>3, <3>4
    <2>2. \A v \in Workers : Exists(v)' => worker'[v].header = block' /\ v < threads'
      BY <1>0, <1>1, <1>2, SMT DEF WorkersInv
    <2>3. \A v \in Workers : ~Exists(v)' => worker'[v].tried = {}
      BY <1>0, <1>1, <1>2, SMT DEF WorkersInv
    <2>. QED BY <1>0, <1>2, <2>1, <2>2, <2>3, SMT DEF WorkersInv
  <1>7. NoncesInv'
    <2>1. Cancelled' = Cancelled
      BY DEF Cancelled
    <2>2. ASSUME NEW v \in Workers, v # w, Exists(v)'
          PROVE  /\ worker'[v].nonce % threads = v
                 /\ worker'[v].pc = "hash" => worker'[v].nonce \in Nonces
                 /\ \A n \in worker'[v].tried : n % threads = v
                 /\ \A n \in Nonces : n % threads = v /\ n < worker'[v].nonce => n \in worker'[v].tried
                 /\ worker'[v].pc \in {"ended", "finished"} => worker'[v].nonce > MaxNonce \/ round'.done \/ Cancelled
      BY <1>0, <1>1, <1>2, <2>2 DEF NoncesInv
    <2>. QED BY <1>1, <2>1, <2>2, SMT DEF NoncesInv
  <1>8. StopShown' /\ CountsConnected'
    BY <1>0 DEF StopShown, CountsConnected
  <1>. QED BY <1>4, <1>5, <1>6, <1>7, <1>8 DEF MinerInv

LEMMA WorkerStepKeeps == ASSUME MinerInv, NEW w \in Workers, WorkerStep(w) PROVE MinerInv'
  <1>. DEFINE it == worker[w]
  <1>0. MinerTypes /\ SessionInv /\ WorkersInv /\ NoncesInv
    BY DEF MinerInv
  <1>1. /\ it \in WorkerStates /\ worker \in [Workers -> WorkerStates]
        /\ round \in [done : BOOLEAN, finished : Nat, solution : Nonces \cup {None}, failure : BOOLEAN]
        /\ threads \in Nat /\ threads > 0
    BY <1>0, MinerConstants, SMT DEF MinerTypes
  <1>2. UNCHANGED <<m_status, m_stop, node, pc, threads, block>> /\ it.pc \in {"check", "hash", "ended"}
    BY DEF WorkerStep, WorkerCheck, WorkerHash, WorkerThrows, WorkerFinishes
  <1>3. /\ it.header = block /\ it.nonce % threads = w /\ (it.pc = "hash" => it.nonce \in Nonces)
        /\ \A n \in it.tried : n % threads = w
        /\ \A n \in Nonces : n % threads = w /\ n < it.nonce => n \in it.tried
        /\ it.pc = "ended" => it.nonce > MaxNonce \/ round.done \/ Cancelled
    BY <1>0, <1>2 DEF WorkersInv, NoncesInv, Exists
  <1>4. CASE WorkerCheck(w)
    <2>. DEFINE to == IF SearchOver(w) THEN "ended" ELSE "hash"
                new == [it EXCEPT !.pc = to]
    <2>1. worker' = [worker EXCEPT ![w] = new] /\ round' = round
      BY <1>4, <1>1 DEF WorkerCheck
    <2>2. /\ new \in WorkerStates /\ new.pc = to /\ to \in {"ended", "hash"}
          /\ new.nonce = it.nonce /\ new.header = it.header /\ new.tried = it.tried
      BY <1>1 DEF WorkerStates
    <2>3. /\ to = "hash" => it.nonce \in Nonces
          /\ to = "ended" => it.nonce > MaxNonce \/ round.done \/ Cancelled
      BY <1>1, MinerConstants, SMT DEF SearchOver, Nonces, WorkerStates
    <2>. HIDE DEF new, to, it
    <2>. QED BY <1>1, <1>2, <1>3, <2>1, <2>2, <2>3, WorkerKeeps, ZenonT(30) DEF it
  <1>5. CASE WorkerThrows(w) \/ WorkerFinishes(w)
    <2>. DEFINE to == IF WorkerThrows(w) THEN "ended" ELSE "finished"
                new == [it EXCEPT !.pc = to]
    <2>1. worker' = [worker EXCEPT ![w] = new]
      BY <1>5, <1>1 DEF WorkerThrows, WorkerFinishes
    <2>2. /\ new \in WorkerStates /\ new.pc = to /\ to \in {"ended", "finished"}
          /\ new.nonce = it.nonce /\ new.header = it.header /\ new.tried = it.tried
      BY <1>1 DEF WorkerStates
    <2>3. /\ round' \in [done : BOOLEAN, finished : Nat, solution : Nonces \cup {None}, failure : BOOLEAN]
          /\ round.done => round'.done
          /\ round'.solution = round.solution
          /\ \/ to # "finished" /\ round'.finished = round.finished
             \/ to = "finished" /\ round'.finished = round.finished + 1
          /\ it.nonce > MaxNonce \/ round'.done \/ Cancelled
      <3>1. CASE WorkerThrows(w)
        BY <3>1, <1>1 DEF WorkerThrows
      <3>2. CASE WorkerFinishes(w) /\ ~WorkerThrows(w)
        BY <3>2, <1>1, <1>3, SMT DEF WorkerFinishes
      <3>. QED BY <1>5, <3>1, <3>2
    <2>. HIDE DEF new, to, it
    <2>. QED BY <1>1, <1>2, <1>3, <2>1, <2>2, <2>3, WorkerKeeps, ZenonT(30) DEF it
  <1>6. CASE WorkerHash(w)
    <2>. DEFINE n == it.nonce
                valid == n \in it.header.valid
                new == [it EXCEPT !.pc = IF valid THEN "ended" ELSE "check",
                                  !.nonce = IF valid THEN n ELSE n + threads,
                                  !.tried = it.tried \cup {n}]
    <2>1. it.pc = "hash" /\ worker' = [worker EXCEPT ![w] = new]
      BY <1>6, <1>1 DEF WorkerHash, NextNonce
    <2>2. n \in Nonces /\ n \in Nat /\ n + threads \in Nat /\ it.tried \cup {n} \in SUBSET Nonces
      BY <1>1, <1>3, <2>1, SMT DEF WorkerStates, Nonces
    <2>3. /\ new \in WorkerStates /\ new.header = it.header /\ new.tried = it.tried \cup {n}
          /\ new.pc = IF valid THEN "ended" ELSE "check"
          /\ new.nonce = IF valid THEN n ELSE n + threads
      BY <1>1, <2>2 DEF WorkerStates
    <2>4. /\ round' \in [done : BOOLEAN, finished : Nat, solution : Nonces \cup {None}, failure : BOOLEAN]
          /\ round.done => round'.done
          /\ round'.solution \in {round.solution} \cup block.valid
          /\ round'.finished = round.finished
          /\ valid => round'.done
      <3>1. CASE valid
        <4>1. PICK sol \in Nonces \cup {None} : /\ round' = [round EXCEPT !.done = TRUE, !.solution = sol]
                                                /\ sol \in {round.solution} \cup block.valid
          BY <1>6, <3>1, <1>1, <1>3, <2>2 DEF WorkerHash
        <4>. QED BY <1>1, <4>1
      <3>2. CASE ~valid
        BY <1>6, <3>2, <1>1 DEF WorkerHash
      <3>. QED BY <3>1, <3>2
    <2>5. (n + threads) % threads = w /\ n % threads = w
      BY <1>1, <1>3, <2>2, ModAdd
    <2>6. \A m \in Nonces : m % threads = w /\ m < n + threads => m < n \/ m = n
      <3>. SUFFICES ASSUME NEW m \in Nonces, m % threads = w, m < n + threads, ~(m < n) PROVE m = n
        OBVIOUS
      <3>1. m \in Nat /\ n <= m
        BY <2>2, SMT DEF Nonces
      <3>. HIDE DEF n
      <3>. QED BY <1>1, <2>2, <2>5, <3>1, ModClose
    <2>. HIDE DEF n, valid, new
    <2>7. new.nonce % threads = w /\ (new.pc \in {"ended", "finished"} => round'.done) /\ new.pc \notin {"none", "hash", "finished"}
      BY <2>3, <2>4, <2>5
    <2>8. \A m \in new.tried : m % threads = w
      BY <1>3, <2>3, <2>5
    <2>9. \A m \in Nonces : m % threads = w /\ m < new.nonce => m \in new.tried
      <3>1. \A m \in Nonces : m % threads = w /\ m < n => m \in new.tried
        BY <1>3, <2>3 DEF n
      <3>. QED BY <2>3, <2>6, <3>1
    <2>. HIDE DEF it
    <2>. QED BY <1>1, <1>2, <1>3, <2>1, <2>3, <2>4, <2>7, <2>8, <2>9, WorkerKeeps DEF it
  <1>. QED BY <1>4, <1>5, <1>6 DEF WorkerStep

LEMMA MinerInvNext == MinerInv /\ [Next]_vars => MinerInv'
  <1>. SUFFICES ASSUME MinerInv, [Next]_vars PROVE MinerInv'
    OBVIOUS
  <1>1. CASE Run
    <2>1. CASE CreateTemplate
      BY <2>1, QuietSteps, TemplateKeeps DEF CreateTemplate
    <2>. QED BY <1>1, <2>1, QuietSteps, LoopKeeps, ReportKeeps, SpawnKeeps, RoundEndsKeeps, JoinKeeps, SubmitKeeps DEF Run
  <1>2. CASE UNCHANGED vars
    <2>1. UNCHANGED <<m_status, m_stop, node, pc, threads, block, round, worker>>
      BY <1>2 DEF vars
    <2>2. WorkersInv' /\ NoncesInv'
      BY <2>1, WorkersKept, NoncesKept DEF MinerInv, Cancelled
    <2>. QED BY <2>1, <2>2, SMT DEF MinerInv, MinerTypes, SessionInv, StopShown, CountsConnected
  <1>. QED BY <1>1, <1>2, StartKeeps, StopKeeps, NodeKeeps, WorkerStepKeeps DEF Next

-----------------------------------------------------------------------------
\* For any number of threads, nonces and sessions: while GetStatus says the miner is
\* not running nothing of a session is left, and a requested stop is shown until
\* then (Run, cpu_miner_impl.cpp:72, 141, 182).
THEOREM StatusAlwaysTrue == Spec => []StatusTrue
  <1>1. MinerInv => StatusTrue
    <2>. SUFFICES ASSUME MinerInv, ~m_status.running PROVE pc = "none" /\ \A w \in Workers : ~Alive(w)
      BY DEF MinerInv, StatusTrue, QuietWhenStopped
    <2>1. pc = "none"
      BY DEF MinerInv, SessionInv
    <2>. QED BY <2>1, NobodyOutside DEF MinerInv, InRound, Alive
  <1>. QED BY <1>1, MinerInvInit, MinerInvNext, PTL DEF Spec

\* For any of them: what is submitted solves the very block it is put into, and what
\* is counted was connected (cpu_miner_impl.cpp:241-262).
THEOREM BlocksAlwaysEarned == Spec => []BlocksEarned
  <1>1. MinerInv => BlocksEarned
    BY DEF MinerInv, SessionInv, BlocksEarned, SubmitsOwnSolution, After
  <1>. QED BY <1>1, MinerInvInit, MinerInvNext, PTL DEF Spec

\* For any number of threads and any width of the nonce: no nonce is hashed by two
\* workers of a round, and a round whose workers all finished by themselves has
\* hashed every nonce, the largest included (cpu_miner_impl.cpp:210).
THEOREM NoncesAlwaysCovered == Spec => []NoncesCovered
  <1>1. MinerInv => NoncesCovered
    <2>. SUFFICES ASSUME MinerInv PROVE NoncesCovered
      OBVIOUS
    <2>0. MinerTypes /\ SessionInv /\ WorkersInv /\ NoncesInv
      BY DEF MinerInv
    <2>1. \A v, w \in Workers : v # w => worker[v].tried \cap worker[w].tried = {}
      <3>1. \A w \in Workers : \A n \in worker[w].tried : n % threads = w
        BY <2>0 DEF WorkersInv, NoncesInv
      <3>. QED BY <3>1, SMT
    <2>2. ASSUME pc = "watch", round.finished = threads, ~round.done, ~Cancelled
          PROVE  UNION {worker[w].tried : w \in Workers} = Nonces
      <3>. DEFINE F == {w \in Workers : worker[w].pc = "finished"}
      <3>0. threads \in Nat /\ threads > 0 /\ threads <= MaxThreads
        BY <2>0, MinerConstants, SMT DEF MinerTypes
      <3>1. Cardinality(F) = threads
        BY <2>0, <2>2 DEF WorkersInv, InRound
      <3>2. F \in SUBSET (0..(threads - 1))
        <4>. SUFFICES ASSUME NEW w \in F PROVE w \in 0..(threads - 1)
          OBVIOUS
        <4>1. w \in Workers /\ w < threads
          BY <2>0 DEF WorkersInv, Exists
        <4>. QED BY <4>1, <3>0, SMT DEF Workers
      <3>3. IsFiniteSet(0..(threads - 1)) /\ Cardinality(0..(threads - 1)) = threads
        <4>1. /\ IsFiniteSet(0..(threads - 1))
              /\ Cardinality(0..(threads - 1)) = IF 0 > threads - 1 THEN 0 ELSE (threads - 1) - 0 + 1
          BY <3>0, FS_Interval, SMT
        <4>. QED BY <4>1, <3>0, SMT
      <3>4. F = 0..(threads - 1)
        <4>. HIDE DEF F
        <4>. QED BY <3>1, <3>2, <3>3, FS_Subset
      <3>5. \A w \in F : worker[w].nonce > MaxNonce
        BY <2>0, <2>2 DEF NoncesInv, Exists
      <3>6. ASSUME NEW n \in Nonces PROVE \E w \in Workers : n \in worker[w].tried
        <4>1. n \in Nat /\ n <= MaxNonce
          BY MinerConstants, SMT DEF Nonces
        <4>2. n % threads \in F
          BY <3>0, <3>4, <4>1, DivMod
        <4>3. PICK w \in Workers : w = n % threads /\ worker[w].pc = "finished"
          BY <4>2
        <4>4. n < worker[w].nonce
          <5>1. worker[w].nonce > MaxNonce /\ worker[w].nonce \in Nat
            BY <2>0, <3>5, <4>3 DEF MinerTypes, WorkerStates
          <5>. QED BY <4>1, <5>1, MinerConstants, SMT
        <4>. QED BY <2>0, <4>3, <4>4 DEF NoncesInv, Exists
      <3>7. \A w \in Workers : worker[w].tried \subseteq Nonces
        BY <2>0 DEF MinerTypes, WorkerStates
      <3>. QED BY <3>6, <3>7
    <2>. QED BY <2>1, <2>2 DEF NoncesCovered
  <1>. QED BY <1>1, MinerInvInit, MinerInvNext, PTL DEF Spec
=============================================================================

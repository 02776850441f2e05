----------------------------- MODULE PeerHeaders -----------------------------
(***************************************************************************)
(* The headers messages of one peer: ProcessHeadersMessage and what it     *)
(* calls in net_processing.cpp, composed with the low-work headers sync    *)
(* and the part of the block index that AcceptBlockHeader guards.          *)
(*                                                                         *)
(* The peer may send any run of headers that connect to each other, answer *)
(* a request with it or send it unasked.  Other peers and RPC may add a    *)
(* valid header to the index at any time, in particular between the proof- *)
(* of-work check of a message, which reads the index and lets go of        *)
(* cs_main, and the rest of its processing.                                *)
(***************************************************************************)
EXTENDS HeadersSync

CONSTANTS InitialIndex,              \* the headers known at the start
          HonestTip,                 \* the honest peer's best header, once it has it
          HonestFirstTip,            \* its best header at the start
          m_opts_max_headers_result,
          OtherHeaders,              \* headers that also arrive from elsewhere
          MaxRequests                \* bound on unanswered getheaders messages

VARIABLES m_block_index,             \* headers the node has accepted
          m_best_header,
          m_headers_sync,            \* the peer's sync object, or NoBlock
          m_last_getheaders,         \* a recent getheaders is unanswered (the throttle)
          requests,                  \* first locator entries of the getheaders on the wire
          message,                   \* the message being processed, or NoBlock
          m_misbehaving,             \* the peer has been reported
          tip,                       \* the honest peer's best header
          honest,                    \* the peer has only sent what an honest one would
          lucky,                     \* bits of different headers agreed in this sync
          released,                  \* the headers the sync handed over last
          outcome                    \* how the sync fared with the last message

vars == <<world, m_block_index, m_best_header, m_headers_sync, m_last_getheaders, requests,
          message, m_misbehaving, tip, honest, lucky, released, outcome>>
envVars == <<world, tip, honest>>
indexVars == <<m_block_index, m_best_header>>

SyncInProgress == m_headers_sync # NoBlock

\* The runs of at most m_opts_max_headers_result connected headers.
Messages ==
    {SubSeq(IndexChain[b], nHeight(b) + 2 - n, nHeight(b) + 1) :
        <<b, n>> \in {<<c, k>> \in (Blocks \ {Genesis}) \X (1..m_opts_max_headers_result) :
                        k <= nHeight(c)}}

IsAncestor(a, b) == a \in Range(IndexChain[b])

\* The last common header of two chains, the first one for unrelated headers.
Fork == [x, y \in Blocks |->
            IndexChain[x][CHOOSE i \in 1..Len(IndexChain[x]) :
                /\ IsAncestor(IndexChain[x][i], y)
                /\ \A j \in (i + 1)..Len(IndexChain[x]) : ~IsAncestor(IndexChain[x][j], y)]]

\* What an honest peer with best header tip answers to a getheaders whose
\* locator starts at l: the headers after the last one of l's chain it has.  (Its
\* own minimum of work is reached, or it serves this node whatever it is.)
HonestReply(l) ==
    LET from == nHeight(Fork[l, tip]) + 1
    IN  SubSeq(IndexChain[tip], from + 1,
               SmallerOf(nHeight(tip) + 1, from + m_opts_max_headers_result))

-----------------------------------------------------------------------------
(* The block index                                                         *)

NextWork(last, first, height) ==
    IF height % DifficultyAdjustmentInterval # 0 THEN last.nBits
    ELSE CalculateNextWorkRequired(last.nBits, last.nTime - first.nTime)

\* first is the first block of the interval that ends before b.
GetNextWorkRequired(b) ==
    NextWork(hdr[Parent(b)],
             hdr[GetAncestor(b, LargerOf(0, nHeight(b) - DifficultyAdjustmentInterval))], nHeight(b))

\* AcceptBlockHeader of a header that is not known yet, its proof of work
\* checked unless the caller has done so.  The other contextual rules
\* (timestamps, versions) are taken to hold, and no header is marked invalid: that
\* is done to blocks, which this module does not connect.
AcceptBlockHeader(b, index, pow_checked) ==
    /\ b # NoBlock
    /\ Parent(b) \in index
    /\ pow_checked \/ CheckProofOfWork(b, RandomXKeyOf(b))
    /\ hdr[b].nBits = GetNextWorkRequired(b)

\* AddToBlockIndex: the first header with the most work stays the best one.
BetterHeader(best, b) == IF nChainWork(best) < nChainWork(b) THEN b ELSE best

AcceptNext(acc, b, pow_checked) ==
    CASE ~acc.ok \/ b \in acc.index -> acc
      [] acc.ok /\ b \notin acc.index ->
           IF AcceptBlockHeader(b, acc.index, pow_checked)
             THEN [ok |-> TRUE, index |-> acc.index \cup {b}, best |-> BetterHeader(acc.best, b)]
             ELSE [acc EXCEPT !.ok = FALSE]

\* ProcessNewBlockHeaders stops at the first header that is refused.
ProcessNewBlockHeaders(headers, pow_checked) ==
    FoldLeft(LAMBDA acc, b : AcceptNext(acc, b, pow_checked),
             [ok |-> TRUE, index |-> m_block_index, best |-> m_best_header], headers)

-----------------------------------------------------------------------------

\* InitialIndex is a chain that ends in the active tip.
Init ==
    /\ world \in DOMAIN Headers
    /\ m_block_index = InitialIndex
    /\ m_best_header = CHOOSE b \in InitialIndex : \A c \in InitialIndex : IsAncestor(c, b)
    /\ m_headers_sync = NoBlock
    /\ m_last_getheaders = TRUE
    /\ requests = <<m_best_header>>
    /\ message = NoBlock
    /\ m_misbehaving = FALSE
    /\ tip = HonestFirstTip
    /\ honest = TRUE
    /\ lucky = FALSE
    /\ released = <<>>
    /\ outcome = "none"

\* A header from another peer or from RPC.
AcceptOtherHeader(b) ==
    /\ b \notin m_block_index
    /\ AcceptBlockHeader(b, m_block_index, FALSE)
    /\ m_block_index' = m_block_index \cup {b}
    /\ m_best_header' = BetterHeader(m_best_header, b)
    /\ UNCHANGED <<envVars, m_headers_sync, m_last_getheaders, requests, message,
                   m_misbehaving, lucky, released, outcome>>

\* The honest peer's chain grows and it announces the block, to which the
\* node answers with a getheaders unless one is recent.
AnnounceBlock ==
    /\ tip # HonestTip /\ honest /\ message = NoBlock /\ Len(requests) < MaxRequests
    /\ tip' = GetAncestor(HonestTip, nHeight(tip) + 1)
    /\ requests' = IF m_last_getheaders THEN requests ELSE Append(requests, m_best_header)
    /\ m_last_getheaders' = TRUE
    /\ UNCHANGED <<world, honest, indexVars, m_headers_sync, message, m_misbehaving, lucky,
                   released, outcome>>

\* The message without the headers known already.
UnknownPart(headers) == SelectSeq(headers, LAMBDA b : b \notin m_block_index)

\* The key HasValidProofOfWork finds for the header at index, without asking the
\* index for it: below pindexPrev in its chain, above it among the headers that
\* come before, or not at all (NoBlock).
KeyOfHeader(headers, pindexPrev, index) ==
    LET seed_height == RandomXSeedHeight(nHeight(pindexPrev) + index)
        offset == seed_height - nHeight(pindexPrev)
    IN  CASE offset <= 0 -> GetAncestor(pindexPrev, seed_height)
          [] offset \in 1..(index - 1) -> headers[offset]
          [] OTHER -> NoBlock

HasValidProofOfWork(headers, pindexPrev) ==
    \A index \in DOMAIN headers :
        CheckedWithKey(headers[index], KeyOfHeader(headers, pindexPrev, index), FALSE)

\* CheckHeadersPoW, under cs_main: a message that does not connect to the index
\* cannot be checked yet.
CheckHeadersPoW(headers, answers) ==
    LET connects == HashPrevBlock(headers[1]) \in m_block_index
        unknown == UnknownPart(headers)
        valid == connects /\ unknown # <<>> => HasValidProofOfWork(unknown, Parent(unknown[1]))
    IN  /\ message' = IF valid THEN [headers |-> headers, pow_checked |-> connects,
                                     sole |-> answers /\ Len(requests) = 1]
                      ELSE NoBlock
        /\ m_misbehaving' = (m_misbehaving \/ ~valid)

Receive(headers, answers) ==
    /\ message = NoBlock /\ ~m_misbehaving
    /\ answers => requests # <<>>
    /\ ~answers => Len(headers) = 1 /\ Len(requests) < MaxRequests
    /\ CheckHeadersPoW(headers, answers)
    /\ requests' = IF answers THEN Tail(requests) ELSE requests
    /\ released' = <<>>
    /\ outcome' = "none"
    /\ honest' = (honest /\ answers /\ headers = HonestReply(Head(requests)))
    /\ UNCHANGED <<world, tip, indexVars, m_headers_sync, m_last_getheaders, lucky>>

\* An empty message: the peer has nothing to give; any sync is over.
ReceiveEmpty ==
    /\ message = NoBlock /\ ~m_misbehaving /\ requests # <<>>
    /\ m_headers_sync' = NoBlock
    /\ m_last_getheaders' = FALSE
    /\ requests' = Tail(requests)
    /\ honest' = (honest /\ HonestReply(Head(requests)) = <<>>)
    /\ lucky' = FALSE
    /\ released' = <<>>
    /\ outcome' = "none"
    /\ UNCHANGED <<world, tip, indexVars, message, m_misbehaving>>

-----------------------------------------------------------------------------
(* The rest of ProcessHeadersMessage                                       *)

Full(headers) == Len(headers) = m_opts_max_headers_result

Outcome(r) ==
    CASE ~r.success -> "failed"
      [] r.request_more -> "more"
      [] \E b \in Range(r.headers) \cap Blocks : nChainWork(b) >= m_minimum_required_work -> "complete"
      [] OTHER -> "incomplete"

\* A sync that has ended is deleted.
Kept(sync) == IF sync.m_download_state = "FINAL" THEN NoBlock ELSE sync

SendsGetHeaders(r) == r.request_more

\* IsContinuationOfLowWorkHeadersSync on the sync s: what it leaves in the
\* peer's state, and the headers that remain to be processed.  A success
\* counts as the answer to the last getheaders.
AfterContinuation(r) ==
    [success |-> r.success,
     headers |-> IF r.success THEN r.headers ELSE message.headers,
     sync |-> Kept(r.sync),
     throttle |-> IF r.success THEN r.request_more ELSE m_last_getheaders,
     requests |-> IF SendsGetHeaders(r)
                    THEN Append(requests, NextHeadersRequestLocator(r.sync)) ELSE requests,
     released |-> IF r.success THEN r.headers ELSE <<>>,
     outcome |-> Outcome(r)]

Continuation(s, agreeing) ==
    AfterContinuation(ProcessNextHeaders(s, message.headers, Full(message.headers),
                                         message.pow_checked, agreeing))

NoContinuation ==
    [success |-> FALSE, headers |-> message.headers, sync |-> NoBlock,
     throttle |-> m_last_getheaders, requests |-> requests, released |-> <<>>,
     outcome |-> "none"]

\* The peer's state once c is over and getheaders has been considered with
\* the throttle as given.
Leave(c, sync, throttle, sent) ==
    /\ m_headers_sync' = sync
    /\ m_last_getheaders' = throttle
    /\ requests' = sent
    /\ released' = c.released
    /\ message' = NoBlock
    /\ UNCHANGED envVars

\* MaybeSendGetHeaders with locator l.
LeaveAsking(c, sync, throttle, l) ==
    Leave(c, sync, TRUE, IF throttle THEN c.requests ELSE Append(c.requests, l))

HeadersTaken(c) ==
    /\ c.headers = <<>>
    /\ Leave(c, c.sync, c.throttle, c.requests)
    /\ outcome' = c.outcome
    /\ UNCHANGED <<indexVars, m_misbehaving>>

HandleUnconnectingHeaders(c) ==
    /\ c.headers # <<>> /\ HashPrevBlock(c.headers[1]) \notin m_block_index
    /\ LeaveAsking(c, c.sync, c.throttle, m_best_header)
    /\ outcome' = c.outcome
    /\ UNCHANGED <<indexVars, m_misbehaving>>

\* The active chain is the initial index, whose headers the best header's
\* chain need not contain.
IsAncestorOfBestHeaderOrTip(b) == b \in m_block_index /\ (IsAncestor(b, m_best_header) \/ b \in InitialIndex)

Connects(c) == c.headers # <<>> /\ HashPrevBlock(c.headers[1]) \in m_block_index
LowWork(c) ==
    /\ ~c.success /\ ~IsAncestorOfBestHeaderOrTip(Last(c.headers))
    /\ nChainWork(Last(c.headers)) < m_minimum_required_work

\* TryLowWorkHeadersSync: a full message of too little work starts a sync with
\* itself, any other one is ignored.  Connecting headers clear the throttle.  A
\* message the running sync has refused may start the next one; it stays refused.
StartLowWorkSync(c, offset) ==
    /\ Connects(c) /\ LowWork(c) /\ Full(c.headers)
    /\ \E d \in {Continuation(NewSync(Parent(c.headers[1]), offset), {})} :
       /\ Leave(d, d.sync, d.throttle /\ d.success, d.requests)
       /\ outcome' = IF c.outcome = "failed" THEN "failed" ELSE d.outcome
    /\ UNCHANGED <<indexVars, m_misbehaving>>

IgnoreLowWork(c) ==
    /\ Connects(c) /\ LowWork(c) /\ ~Full(c.headers)
    /\ Leave(c, c.sync, FALSE, c.requests)
    /\ outcome' = c.outcome
    /\ UNCHANGED <<indexVars, m_misbehaving>>

\* Mutant: a sync that has just completed still counts as one.
AsksForMoreAlone(c) == Full(message.headers) /\ ~SyncInProgress

\* A full message outside a sync asks for the headers that follow.
AsksForMore(c) == Full(message.headers) /\ c.sync = NoBlock

StoreHeaders(c) ==
    /\ Connects(c) /\ ~LowWork(c)
    /\ \E p \in {ProcessNewBlockHeaders(c.headers, message.pow_checked \/ c.success)} :
       /\ m_block_index' = p.index
       /\ m_best_header' = p.best
       /\ m_misbehaving' = (m_misbehaving \/ ~p.ok)
       /\ IF p.ok /\ AsksForMore(c)
            THEN LeaveAsking(c, c.sync, FALSE, Last(c.headers))
            ELSE Leave(c, c.sync, FALSE, c.requests)
    /\ outcome' = c.outcome

ProcessHeaders(agreeing, offset) ==
    /\ message # NoBlock
    /\ \E c \in {IF SyncInProgress THEN Continuation(m_headers_sync, agreeing) ELSE NoContinuation} :
       \/ HeadersTaken(c) \/ HandleUnconnectingHeaders(c) \/ StartLowWorkSync(c, offset)
       \/ IgnoreLowWork(c) \/ StoreHeaders(c)
    /\ lucky' = (m_headers_sync' # NoBlock /\ (lucky \/ agreeing # {}))

ProcessMessage ==
    \E offset \in 0..(commitment_period - 1) :
    \E agreeing \in SUBSET (IF SyncInProgress /\ message # NoBlock THEN Range(message.headers) ELSE {}) :
        ProcessHeaders(agreeing, offset)

Next ==
    \/ \E b \in OtherHeaders : AcceptOtherHeader(b)
    \/ AnnounceBlock
    \/ \E headers \in Messages, answers \in BOOLEAN : Receive(headers, answers)
    \/ ReceiveEmpty
    \/ ProcessMessage

\* The message thread goes on with a message it has begun, and an honest peer
\* answers the requests it has.
Fairness ==
    /\ []<>(message = NoBlock)
    /\ []<>(message # NoBlock \/ requests = <<>> \/ ~honest \/ m_misbehaving)

Spec == Init /\ [][Next]_vars /\ Fairness

-----------------------------------------------------------------------------
(* Properties                                                              *)

\* The peer's state is well formed: the index is closed under parents, the
\* sync object is one ProcessNextHeaders can leave behind and is never kept
\* once it is FINAL, and the commitments respect m_max_commitments.
TypeOK ==
    /\ m_block_index \subseteq Blocks
    /\ \A b \in m_block_index \ {Genesis} : Parent(b) \in m_block_index
    /\ m_best_header \in m_block_index
    /\ requests \in Seq(Blocks) /\ Len(requests) <= MaxRequests
    /\ SyncInProgress =>
         /\ m_headers_sync.m_download_state \in {"PRESYNC", "REDOWNLOAD"}
         /\ m_headers_sync.m_chain_start \in m_block_index
         /\ Len(m_headers_sync.m_header_commitments) <= m_max_commitments
         /\ Len(m_headers_sync.m_redownloaded_headers) <= redownload_buffer_size
    /\ message # NoBlock => message.headers \in Messages
    /\ outcome \in {"none", "failed", "more", "complete", "incomplete"}

\* Every header in the index was mined with the RandomX key of its own chain
\* for a target a block may have, though StoreHeaders skips that check for
\* headers CheckHeadersPoW or the sync has vouched for, the former against an
\* index that has grown since (pow_checked, net_processing.cpp:3361).
IndexMined == \A b \in m_block_index : CheckProofOfWork(b, RandomXKeyOf(b))

\* The difficulty of every stored header is exact although no intermediate may
\* exceed the width: after an interval it is the old target times the clamped
\* timespan over the nominal one, rounded down, at most powLimit ("without
\* overflowing the 256-bit intermediate when the final result fits",
\* pow.cpp:56), and otherwise the previous one.
StoredDifficultyExact ==
    \A b \in m_block_index \ {Genesis} :
        LET last == hdr[Parent(b)]
            first == hdr[GetAncestor(b, LargerOf(0, nHeight(b) - DifficultyAdjustmentInterval))]
            clamped == CASE 4 * (last.nTime - first.nTime) < nPowTargetTimespan -> smallest_timespan
                         [] last.nTime - first.nTime > 4 * nPowTargetTimespan -> largest_timespan
                         [] OTHER -> last.nTime - first.nTime
            exact == (SetCompact(last.nBits) * clamped) \div nPowTargetTimespan
        IN  hdr[b].nBits = IF nHeight(b) % DifficultyAdjustmentInterval # 0 THEN last.nBits
                           ELSE GetCompact(SmallerOf(powLimit, exact))

\* The step that finishes a message.
Processed == message # NoBlock /\ message' = NoBlock

\* Unless bits of different headers agreed by luck, every header a sync hands
\* over is below a header of the peer with the required work: the one PRESYNC
\* stopped at, or the last one handed over itself ("meaning that we've checked
\* enough commitments", headerssync.cpp:104).
ReleaseEarned ==
    released' # <<>> /\ ~lucky' /\ ~lucky =>
        LET witnesses == {m_headers_sync.m_last_header_received, Last(released')} IN
        \A i \in DOMAIN released' :
            \E w \in witnesses : /\ nChainWork(w) >= m_minimum_required_work
                                 /\ IsAncestor(released'[i], w)

\* The headers a sync hands over are the peer's, rebuilt with their previous
\* hashes, and the first one connects to the block index: each batch continues
\* the one before, which was stored (PopHeadersReadyForAcceptance,
\* headerssync.cpp:319).
ReleaseConnects ==
    released' # <<>> =>
        /\ Range(released') \subseteq Blocks
        /\ HashPrevBlock(released'[1]) \in m_block_index

\* A sync never waits for an answer nobody will give: between messages its
\* next getheaders is on the wire (IsContinuationOfLowWorkHeadersSync,
\* net_processing.cpp:2961), though connecting headers have cleared the throttle.
SyncAsks ==
    SyncInProgress /\ message = NoBlock /\ ~m_misbehaving =>
        NextHeadersRequestLocator(m_headers_sync) \in Range(requests)

\* No rule of the sync refuses an honest peer: as long as it answers one request
\* at a time its headers continue the sync, and the sync ends without its chain
\* only if the chain has too little work.
HonestSyncContinues ==
    message.sole /\ honest =>
        /\ outcome' # "failed"
        /\ outcome' = "incomplete" => nChainWork(tip) < m_minimum_required_work

\* What the processing of one message may do: hand over only headers that are
\* earned and connect, and never turn an honest peer away (ProcessNextHeaders,
\* headerssync.cpp:70).
SyncStepSound == [][Processed => ReleaseEarned /\ ReleaseConnects /\ HonestSyncContinues]_vars

\* The index and the sync in every state: well formed, every stored header mined
\* with its own chain's key at the exact difficulty, and no sync left waiting
\* (ProcessHeadersMessage, net_processing.cpp:3231).
HeadersSound == TypeOK /\ IndexMined /\ StoredDifficultyExact /\ SyncAsks

\* The chain of an honest peer, if it has enough work, ends up in the index,
\* whatever others add meanwhile and even when an announced block makes the
\* node ask twice and give up the sync.
HonestChainStored ==
    []honest => <>[](nChainWork(tip) >= m_minimum_required_work => tip \in m_block_index)
=============================================================================

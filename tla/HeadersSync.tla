----------------------------- MODULE HeadersSync -----------------------------
(***************************************************************************)
(* HeadersSyncState of headerssync.cpp: the low-work headers sync with one *)
(* peer.  PRESYNC walks the peer's headers once and keeps one commitment   *)
(* bit per commitment_period headers until the chain has enough work;      *)
(* REDOWNLOAD walks them again, compares the bits and releases a header    *)
(* once redownload_buffer_size later ones have been checked.  Each phase   *)
(* derives the RandomX key of every header from its own walk.              *)
(*                                                                         *)
(* The object is a record and its methods are operators on it.  A header   *)
(* is identified with its hash.  hdr says what the header contains and for *)
(* which RandomX key its hash meets its target.  A commitment is the       *)
(* header it was taken of: the salted bits of two headers agree if they    *)
(* are the same header, or by luck, which the environment chooses          *)
(* (agreeing, a set of headers).                                           *)
(***************************************************************************)
EXTENDS Difficulty, Sequences, FiniteSets, SequencesExt, TLC

CONSTANTS Blocks,                    \* every header of the run
          Genesis,
          ChainOf,                   \* every header's chain, from Genesis to itself
          NoBlock,                   \* a null hash, or one of no header of the run
          randomx_epoch_blocks, randomx_epoch_lag,
          commitment_period, redownload_buffer_size,
          m_max_commitments,
          m_minimum_required_work,
          Headers                    \* what the headers contain, in each world to consider

ASSUME SyncAssumption ==
    /\ commitment_period \in Nat \ {0}
    /\ randomx_epoch_lag \in 1..(randomx_epoch_blocks - 1)
    /\ NoBlock \notin Blocks
    /\ \A b \in Blocks : /\ ChainOf[b][1] = Genesis /\ Last(ChainOf[b]) = b
                         /\ b # Genesis => Front(ChainOf[b]) = ChainOf[Last(Front(ChainOf[b]))]

VARIABLE world                       \* the world of this behaviour

\* header -> its nBits, nTime, mined key and the chain work it claims
HeaderTable == Headers
hdr == HeaderTable[world]

\* The block index lookups: the chain of a header, nHeight, pprev, GetAncestor.
IndexChain == ChainOf
nHeight(b) == Len(IndexChain[b]) - 1
Parent(b) == IndexChain[b][Len(IndexChain[b]) - 1]
GetAncestor(b, height) == IndexChain[b][height + 1]
HashPrevBlock(b) == IF b \in Blocks \ {Genesis} THEN Parent(b) ELSE NoBlock

AddWork(work, b) == work + GetBlockProof(hdr[b].nBits)
nChainWork(b) == hdr[b].nChainWork

RandomXSeedHeight(block_height) ==
    IF block_height <= randomx_epoch_lag THEN 0
    ELSE ((block_height - randomx_epoch_lag) \div randomx_epoch_blocks) * randomx_epoch_blocks

\* Genesis stands for randomx_bootstrap_key, the key of seed height 0.
RandomXKeyOf(b) == GetAncestor(b, RandomXSeedHeight(nHeight(b)))

CheckProofOfWork(b, key) == DerivesTarget(hdr[b].nBits) /\ hdr[b].key = key

-----------------------------------------------------------------------------
(* Construction, keys and release                                          *)

NewSync(chain_start, offset) ==
    [m_download_state |-> "PRESYNC",
     m_commit_offset |-> offset,
     m_chain_start |-> chain_start,
     m_current_chain_work |-> nChainWork(chain_start),
     m_last_header_received |-> chain_start,
     m_current_height |-> nHeight(chain_start),
     m_header_commitments |-> <<>>,
     m_presync_randomx_key_blocks |-> <<>>,
     m_redownload_randomx_key_blocks |-> <<>>,
     m_redownloaded_headers |-> <<>>,
     m_redownload_buffer_last_height |-> 0,
     m_redownload_buffer_last_hash |-> NoBlock,
     m_redownload_buffer_first_prev_hash |-> NoBlock,
     m_redownload_chain_work |-> 0,
     m_process_all_remaining_headers |-> FALSE]

Finalize(s) ==
    [s EXCEPT !.m_download_state = "FINAL",
              !.m_header_commitments = <<>>,
              !.m_presync_randomx_key_blocks = <<>>,
              !.m_redownload_randomx_key_blocks = <<>>,
              !.m_last_header_received = NoBlock,
              !.m_redownloaded_headers = <<>>,
              !.m_redownload_buffer_last_hash = NoBlock,
              !.m_redownload_buffer_first_prev_hash = NoBlock,
              !.m_process_all_remaining_headers = FALSE,
              !.m_current_height = 0]

\* NoBlock is std::nullopt.  A key map is a function from heights to hashes.
KeyAtSeedHeight(s, seed_height, key_blocks) ==
    CASE seed_height = 0 -> Genesis
      [] seed_height \in 1..nHeight(s.m_chain_start) -> GetAncestor(s.m_chain_start, seed_height)
      [] seed_height > nHeight(s.m_chain_start) ->
           IF seed_height \in DOMAIN key_blocks THEN key_blocks[seed_height] ELSE NoBlock

GetRandomXKey(s, block_height, key_blocks) ==
    KeyAtSeedHeight(s, RandomXSeedHeight(block_height), key_blocks)

\* A header is refused without a key; its proof of work is checked unless the
\* caller has done so.
CheckedWithKey(b, key, pow_checked) == key # NoBlock /\ (pow_checked \/ CheckProofOfWork(b, key))

\* emplace keeps the entry a height already has.
EmplaceKeyBlock(key_blocks, height, b) ==
    IF height % randomx_epoch_blocks = 0 THEN key_blocks @@ (height :> b) ELSE key_blocks

CommitmentHeight(s, height) == height % commitment_period = s.m_commit_offset

\* The hash of the full header rebuilt from a compressed one and a previous
\* hash: the original only if that hash is the one the header was sent with.
GetFullHeader(b, prev) == IF HashPrevBlock(b) = prev THEN b ELSE NoBlock

\* How many headers PopHeadersReadyForAcceptance takes off the front.
ReadyCount(s) ==
    IF s.m_process_all_remaining_headers THEN Len(s.m_redownloaded_headers)
    ELSE LargerOf(0, Len(s.m_redownloaded_headers) - redownload_buffer_size)

FirstPrevHash(s, ret) == IF ret = <<>> THEN s.m_redownload_buffer_first_prev_hash ELSE Last(ret)

\* The full headers of compressed ones, each with the hash of the one before.
RebuildHeaders(s, compressed) ==
    FoldLeft(LAMBDA done, b : Append(done, GetFullHeader(b, FirstPrevHash(s, done))), <<>>, compressed)

AfterPop(s, ret) ==
    [headers |-> ret,
     sync |-> [s EXCEPT
                 !.m_redownloaded_headers = SubSeq(@, Len(ret) + 1, Len(@)),
                 !.m_redownload_buffer_first_prev_hash = FirstPrevHash(s, ret)]]

PopHeadersReadyForAcceptance(s) ==
    AfterPop(s, RebuildHeaders(s, SubSeq(s.m_redownloaded_headers, 1, ReadyCount(s))))

-----------------------------------------------------------------------------
(* PRESYNC                                                                 *)

PresyncHeaderValid(s, current, next_height, pow_checked) ==
    /\ PermittedDifficultyTransition(next_height,
           hdr[s.m_last_header_received].nBits, hdr[current].nBits)
    /\ CheckedWithKey(current, GetRandomXKey(s, next_height, s.m_presync_randomx_key_blocks),
                      pow_checked)
    /\ CommitmentHeight(s, next_height) => Len(s.m_header_commitments) < m_max_commitments

StorePresyncHeader(s, current, next_height) ==
    [s EXCEPT !.m_header_commitments = IF CommitmentHeight(s, next_height)
                                         THEN Append(@, current) ELSE @,
              !.m_current_chain_work = AddWork(@, current),
              !.m_last_header_received = current,
              !.m_current_height = next_height,
              !.m_presync_randomx_key_blocks = EmplaceKeyBlock(@, next_height, current)]

\* NoBlock stands for a sync that failed; its state no longer matters.
ValidateAndProcessSingleHeader(s, current, pow_checked) ==
    IF s # NoBlock /\ PresyncHeaderValid(s, current, s.m_current_height + 1, pow_checked)
      THEN StorePresyncHeader(s, current, s.m_current_height + 1)
      ELSE NoBlock

SwitchToRedownload(s) ==
    [s EXCEPT !.m_redownloaded_headers = <<>>,
              !.m_redownload_buffer_last_height = nHeight(s.m_chain_start),
              !.m_redownload_buffer_first_prev_hash = s.m_chain_start,
              !.m_redownload_buffer_last_hash = s.m_chain_start,
              !.m_redownload_chain_work = nChainWork(s.m_chain_start),
              !.m_download_state = "REDOWNLOAD"]

SwitchWhenEnoughWork(s) ==
    IF s # NoBlock /\ s.m_current_chain_work >= m_minimum_required_work
      THEN SwitchToRedownload(s) ELSE s

ValidateAndStoreHeadersCommitments(s, headers, pow_checked) ==
    IF HashPrevBlock(headers[1]) # s.m_last_header_received THEN NoBlock
    ELSE SwitchWhenEnoughWork(
           FoldLeft(LAMBDA t, current : ValidateAndProcessSingleHeader(t, current, pow_checked),
                    s, headers))

-----------------------------------------------------------------------------
(* REDOWNLOAD                                                              *)

\* Mutant: the keys of the redownloaded chain are those the first walk stored.
RedownloadKeyFromPresync(s, height) == GetRandomXKey(s, height, s.m_presync_randomx_key_blocks)

RedownloadKey(s, height) == GetRandomXKey(s, height, s.m_redownload_randomx_key_blocks)

\* Mutant: the work counted is that of the first walk.
TargetReachedInPresync(s, work) == s.m_current_chain_work >= m_minimum_required_work

TargetReached(s, work) == s.m_process_all_remaining_headers \/ work >= m_minimum_required_work

ComparesCommitment(s, height) ==
    ~s.m_process_all_remaining_headers /\ CommitmentHeight(s, height)

CommitmentAgrees(s, header, agreeing) ==
    /\ s.m_header_commitments # <<>>
    /\ Head(s.m_header_commitments) = header \/ header \in agreeing

\* The predecessor whose nBits the transition is judged by.
PreviousHeader(s) ==
    IF s.m_redownloaded_headers = <<>> THEN s.m_chain_start ELSE Last(s.m_redownloaded_headers)

RedownloadHeaderValid(s, header, next_height, pow_checked) ==
    /\ HashPrevBlock(header) = s.m_redownload_buffer_last_hash
    /\ PermittedDifficultyTransition(next_height, hdr[PreviousHeader(s)].nBits, hdr[header].nBits)
    /\ CheckedWithKey(header, RedownloadKey(s, next_height), pow_checked)

\* The work is counted first; reaching the target ends the comparisons.
CountRedownloadWork(s, work) ==
    [s EXCEPT !.m_redownload_chain_work = work,
              !.m_process_all_remaining_headers = TargetReached(s, work)]

StoreRedownloadedHeader(s, header, next_height, compare) ==
    [s EXCEPT !.m_header_commitments = IF compare THEN Tail(@) ELSE @,
              !.m_redownloaded_headers = Append(@, header),
              !.m_redownload_buffer_last_height = next_height,
              !.m_redownload_buffer_last_hash = header,
              !.m_redownload_randomx_key_blocks = EmplaceKeyBlock(@, next_height, header)]

CompareAndStore(s, header, next_height, compare, agreeing) ==
    IF compare /\ ~CommitmentAgrees(s, header, agreeing) THEN NoBlock
    ELSE StoreRedownloadedHeader(s, header, next_height, compare)

CheckCommitment(s, header, next_height, agreeing) ==
    CompareAndStore(s, header, next_height, ComparesCommitment(s, next_height), agreeing)

ValidateAndStoreRedownloadedHeader(s, header, pow_checked, agreeing) ==
    IF s # NoBlock /\ RedownloadHeaderValid(s, header, s.m_redownload_buffer_last_height + 1, pow_checked)
      THEN CheckCommitment(CountRedownloadWork(s, AddWork(s.m_redownload_chain_work, header)),
                           header, s.m_redownload_buffer_last_height + 1, agreeing)
      ELSE NoBlock

-----------------------------------------------------------------------------
(* ProcessNextHeaders                                                      *)

\* What ProcessNextHeaders returns, and the object it leaves behind.
Result(success, request_more, headers, s) ==
    [success |-> success, request_more |-> request_more, headers |-> headers,
     sync |-> IF success /\ request_more THEN s ELSE Finalize(s)]

Failure(s) == Result(FALSE, FALSE, <<>>, s)

AfterPresync(s, walked, full) ==
    IF walked = NoBlock THEN Failure(s)
    ELSE Result(TRUE, full \/ walked.m_download_state = "REDOWNLOAD", <<>>, walked)

\* A sync is complete when everything has left the buffer for good.
AfterRelease(popped, full) ==
    Result(TRUE, full /\ ~(/\ popped.sync.m_redownloaded_headers = <<>>
                           /\ popped.sync.m_process_all_remaining_headers),
           popped.headers, popped.sync)

AfterRedownload(s, walked, full) ==
    IF walked = NoBlock THEN Failure(s)
    ELSE AfterRelease(PopHeadersReadyForAcceptance(walked), full)

ProcessNextHeaders(s, headers, full, pow_checked, agreeing) ==
    IF s.m_download_state = "PRESYNC"
      THEN AfterPresync(s, ValidateAndStoreHeadersCommitments(s, headers, pow_checked), full)
      ELSE AfterRedownload(s,
             FoldLeft(LAMBDA t, header :
                        ValidateAndStoreRedownloadedHeader(t, header, pow_checked, agreeing),
                      s, headers), full)

\* The first entry of NextHeadersRequestLocator: where the peer is to resume.
NextHeadersRequestLocator(s) ==
    IF s.m_download_state = "PRESYNC" THEN s.m_last_header_received
    ELSE s.m_redownload_buffer_last_hash
=============================================================================

----------------------------- MODULE RandomXKeys -----------------------------
(***************************************************************************)
(* The RandomX key schedule of pow.cpp composed with the context cache:    *)
(* which keys Chainstate::UpdateTip, start-up and the miner ask the cache  *)
(* to prepare while the active chain grows and reorganises.                *)
(*                                                                         *)
(* A chain is the sequence of the branch labels of its blocks above        *)
(* genesis, so Len(chain) is the tip's height and a prefix of the chain is *)
(* the hash of its last block.  Only hashes of key blocks are told apart:  *)
(* blocks at other heights all carry the label None.  The bootstrap key is *)
(* the empty prefix.                                                       *)
(***************************************************************************)
EXTENDS RandomXCache, Sequences, Functions

CONSTANTS Branches,              \* labels that tell competing key blocks apart
          MaxHeight,             \* bound on the chain
          randomx_epoch_blocks,
          randomx_epoch_lag

\* The asserts of RandomXSeedHeight, for the networks whose key rotates.
ASSUME EpochAssumption ==
    /\ randomx_epoch_lag \in Nat \ {0}
    /\ randomx_epoch_blocks \in Nat
    /\ randomx_epoch_lag < randomx_epoch_blocks
    /\ MaxHeight \in Nat

VARIABLES chain,                 \* the active chain
          preparing,             \* keys PrepareRandomXKeys has yet to pass to Prepare
          miner_key,             \* key the miner derived and will prepare, or None
          interposed             \* history: the miner prepared a key since the last one of
                                 \* the preparation that is under way

keyVars == <<chain, preparing, miner_key, interposed>>
vars == <<cacheVars, keyVars>>

Labels(height) == IF height % randomx_epoch_blocks = 0 THEN Branches ELSE {None}
Chains == {c \in UNION {[1..h -> Branches \cup {None}] : h \in 0..MaxHeight} :
             \A i \in 1..Len(c) : c[i] \in Labels(i)}
Ancestor(c, height) == SubSeq(c, 1, height)

\* Every key block of a chain within the bounds has its key.
ASSUME KeysAssumption == \A c \in Chains : Len(c) % randomx_epoch_blocks = 0 => c \in Keys

\* Mutant: the key changes with the block after the key block, without the lag.
RandomXSeedHeightNoLag(block_height) ==
    IF block_height <= randomx_epoch_lag THEN 0
    ELSE ((block_height - 1) \div randomx_epoch_blocks) * randomx_epoch_blocks

RandomXSeedHeight(block_height) ==
    IF block_height <= randomx_epoch_lag THEN 0
    ELSE ((block_height - randomx_epoch_lag) \div randomx_epoch_blocks) * randomx_epoch_blocks

\* The key of the block after the tip of c; seed height 0 is the bootstrap key.
GetRandomXKey(c) == Ancestor(c, RandomXSeedHeight(Len(c) + 1))

\* The keys PrepareRandomXKeys(c) prepares, in order: the one needed now, and
\* within the lag window the one that becomes mandatory at its end.
PrepareRandomXKeys(c) ==
    LET key_height == Len(c) - (Len(c) % randomx_epoch_blocks)
    IN  IF key_height = 0 \/ Len(c) >= key_height + randomx_epoch_lag
          THEN <<GetRandomXKey(c)>>
          ELSE <<GetRandomXKey(c), Ancestor(c, key_height)>>

-----------------------------------------------------------------------------

\* Start-up warms the keys of the persisted tip.
Init ==
    /\ CacheInit
    /\ chain \in Chains
    /\ preparing = PrepareRandomXKeys(chain)
    /\ miner_key = None
    /\ interposed = FALSE

\* UpdateTip after ConnectTip or DisconnectTip, under cs_main: the preparation
\* of one tip is over before the next tip is set.
UpdateTip(new) ==
    /\ preparing = <<>>
    /\ chain' = new
    /\ preparing' = PrepareRandomXKeys(new)
    /\ UNCHANGED <<cacheVars, miner_key, interposed>>

ConnectTip ==
    /\ Len(chain) < MaxHeight
    /\ \E b \in Labels(Len(chain) + 1) : UpdateTip(Append(chain, b))
DisconnectTip == chain # <<>> /\ UpdateTip(Ancestor(chain, Len(chain) - 1))

PrepareNextKey ==
    /\ preparing # <<>>
    /\ Prepare(Head(preparing))
    /\ preparing' = Tail(preparing)
    /\ interposed' = FALSE
    /\ UNCHANGED <<chain, miner_key>>

\* The miner derives the template's key under cs_main and prepares it after
\* releasing the lock, so the tip may have moved on.
MinerDeriveKey ==
    /\ miner_key = None
    /\ miner_key' = GetRandomXKey(chain)
    /\ UNCHANGED <<cacheVars, chain, preparing, interposed>>

MinerPrepareKey ==
    /\ miner_key # None
    /\ Prepare(miner_key)
    /\ miner_key' = None
    /\ interposed' = (preparing # <<>>)
    /\ UNCHANGED <<chain, preparing>>

Next ==
    \/ ConnectTip \/ DisconnectTip \/ PrepareNextKey
    \/ MinerDeriveKey \/ MinerPrepareKey
    \/ /\ \/ \E build \in running, result \in BuildResults : FinishBuild(build, result)
          \/ \E t \in Threads : HashThread(t)
       /\ UNCHANGED keyVars

Spec == Init /\ [][Next]_vars

-----------------------------------------------------------------------------
(* Properties                                                              *)

\* No key becomes mandatory before it has been announced: the block after a tip
\* needs only keys at least randomx_epoch_lag blocks old, and every tip since
\* the key block, up to the one that needs it, asked for its dataset ("The
\* epoch lag gives this asynchronous work time to finish before the new key
\* becomes mandatory", validation.cpp:3034).
KeyAnnounced ==
    \A h \in 0..Len(chain) :
        LET key == GetRandomXKey(Ancestor(chain, h)) IN
        key # <<>> =>
            /\ Len(key) + randomx_epoch_lag <= h + 1
            /\ \A i \in Len(key)..h : key \in Range(PrepareRandomXKeys(Ancestor(chain, i)))

\* UpdateTip gives up the ready dataset of the key the next block needs only when
\* the other slot is an unfinished build, or when the miner prepared a key of its
\* own between UpdateTip's two: refreshing the current key before preparing the
\* next one shields it from Prepare's eviction otherwise, however many reorganised
\* branches have keys (PrepareRandomXKeys, pow.cpp:310, with Prepare,
\* randomx_cache.h:96).
CurrentDatasetKept ==
    [][PrepareNextKey /\ ~interposed =>
         \A e \in FindFast(GetRandomXKey(chain)) :
             \/ \E o \in m_fast' : o.key = e.key
             \/ \E o \in m_fast : ~Ready(o)]_vars
=============================================================================

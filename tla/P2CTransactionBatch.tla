------------------------- MODULE P2CTransactionBatch -------------------------
(***************************************************************************)
(* A batch of signed bounty transactions awaiting approval                 *)
(* (wallet/p2c.cpp) and the coin locks of the wallet it reserves inputs    *)
(* with (CWallet::LockCoin and its companions, wallet/wallet.cpp).         *)
(*                                                                         *)
(* A batch is known to the wallet by its address only: m_coin_lock_owners  *)
(* holds the pointer, and the allocator may give the address of a          *)
(* destroyed batch to the next one.  cs_wallet makes each operation one    *)
(* step.  A transaction is the coin it spends and the signature algorithms *)
(* its bounties accept; each transaction of a batch spends a coin of its   *)
(* own, and amounts and fees are left out.                                 *)
(***************************************************************************)
EXTENDS Naturals, Sequences, FiniteSets, Functions

CONSTANTS Coins,             \* outpoints of the wallet
          Contested,         \* those the user and other transactions act on
          Addresses,         \* where the allocator may put a batch
          MaxTransactions,   \* bound on the transactions of a batch
          ALL, RSA,          \* the two masks the page works with
          None

Masks == {ALL, RSA}
Transactions == [coin : Coins, mask : Masks]

\* The objects of class P2CTransactionBatch.
Batches ==
    [m_transactions : Seq(Transactions), m_alternative_transactions : Seq(Transactions),
     m_mask_selected : BOOLEAN, m_locked : SUBSET Coins,
     m_committed_count : Nat, m_commit_attempted : BOOLEAN]

ASSUME BatchAssumption ==
    /\ Contested \subseteq Coins /\ MaxTransactions \in Nat /\ ALL # RSA
    /\ None \notin Masks \cup Addresses \cup Batches

VARIABLES m_locked_coins,      \* the locked coins
          m_coin_lock_owners,  \* the batch a lock was taken for, or None
          mapTxSpends,         \* per coin, the masks of the transactions spending it
          batch                \* the batch at each address, or None

walletVars == <<m_locked_coins, m_coin_lock_owners, mapTxSpends>>
batchVars == <<walletVars, batch>>

-----------------------------------------------------------------------------
(* Coin locks                                                              *)

\* A transaction that spends a coin is taken to do so for good: one that is later
\* abandoned or conflicts with a block would make the coin available again.
IsSpent(c) == mapTxSpends[c] # <<>>
OwnsCoinLock(owners, c, b) == owners[c] = b

\* LockCoin for a set of coins.
LockCoins(cs, owner) ==
    /\ m_locked_coins' = m_locked_coins \cup cs
    /\ m_coin_lock_owners' = [c \in Coins |-> IF c \in cs THEN owner ELSE m_coin_lock_owners[c]]

\* Mutant: UnlockCoin leaves the owner of the lock behind.
ErasedOwnersStale(owners, cs) == owners
\* UnlockCoin erases the owners of the locks it ends.
ErasedOwners(owners, cs) == [c \in Coins |-> IF c \in cs THEN None ELSE owners[c]]

\* Mutant: a batch unlocks what it once locked, whoever owns the lock by now.
UnlockableAll(owners, cs, b) == cs
\* UnlockCoin on behalf of b takes only the locks that are still b's.
Unlockable(owners, cs, b) == {c \in cs : OwnsCoinLock(owners, c, b)}

\* AddToSpends, for the transactions txs spending one coin each: the coins are
\* unlocked whoever locked them.
AddToSpends(locked, owners, txs) ==
    /\ mapTxSpends' = [c \in Coins |-> mapTxSpends[c] \o
                         (IF \E i \in DOMAIN txs : txs[i].coin = c
                          THEN <<txs[CHOOSE i \in DOMAIN txs : txs[i].coin = c].mask>> ELSE <<>>)]
    /\ m_locked_coins' = locked \ {txs[i].coin : i \in DOMAIN txs}
    /\ m_coin_lock_owners' = ErasedOwners(owners, {txs[i].coin : i \in DOMAIN txs})

-----------------------------------------------------------------------------
(* P2CTransactionBatch                                                     *)

NewBatch(coins) ==
    [m_transactions |-> [i \in DOMAIN coins |-> [coin |-> coins[i], mask |-> ALL]],
     m_alternative_transactions |-> <<>>,
     m_mask_selected |-> FALSE,
     m_locked |-> Range(coins),
     m_committed_count |-> 0,
     m_commit_attempted |-> FALSE]

\* An allocator that reuses an address as soon as it can.
CanAllocate == \E b \in Addresses : batch[b] = None
Allocated == CHOOSE b \in Addresses : batch[b] = None

Available == {c \in Coins : c \notin m_locked_coins /\ ~IsSpent(c)}

\* Prepare: one transaction after the other is funded from coins that are neither
\* locked nor spent, and its inputs are locked.  Where it fails the batch under
\* construction releases its locks before cs_wallet is left, and nothing changes.
Prepare(b, from) ==
    \E n \in 1..MaxTransactions : \E coins \in [1..n -> Available \cap from] :
        /\ IsInjective(coins)
        /\ batch' = [batch EXCEPT ![b] = NewBatch(coins)]
        /\ LockCoins(Range(coins), b)
        /\ UNCHANGED mapTxSpends

\* PrepareSignatureAlgorithmsAlternative, where signing succeeds.
CanPrepareAlternative(x) ==
    ~x.m_commit_attempted /\ ~x.m_mask_selected /\ x.m_alternative_transactions = <<>>
PrepareAlternative(b) ==
    /\ CanPrepareAlternative(batch[b])
    /\ batch' = [batch EXCEPT ![b].m_alternative_transactions =
                    [i \in DOMAIN batch[b].m_transactions |->
                       [batch[b].m_transactions[i] EXCEPT !.mask = RSA]]]
    /\ UNCHANGED walletVars

\* SelectSignatureAlgorithmsMask.
CanSelectMask(x, mask) ==
    /\ ~x.m_commit_attempted /\ ~x.m_mask_selected
    /\ mask # ALL => x.m_alternative_transactions # <<>>
\* Mutant: the mask is recorded, but the transactions are not swapped.
SelectedUnswapped(x, mask) ==
    [x EXCEPT !.m_alternative_transactions = <<>>, !.m_mask_selected = TRUE]
Selected(x, mask) ==
    [x EXCEPT !.m_transactions = IF mask = ALL THEN @ ELSE x.m_alternative_transactions,
              !.m_alternative_transactions = <<>>,
              !.m_mask_selected = TRUE]
SelectMask(b, mask) ==
    /\ CanSelectMask(batch[b], mask)
    /\ batch' = [batch EXCEPT ![b] = Selected(@, mask)]
    /\ UNCHANGED walletVars

\* The destructor.
Destroy(b) ==
    /\ batch' = [batch EXCEPT ![b] = None]
    /\ m_locked_coins' = m_locked_coins \ Unlockable(m_coin_lock_owners, batch[b].m_locked, b)
    /\ m_coin_lock_owners' = ErasedOwners(m_coin_lock_owners,
                                          Unlockable(m_coin_lock_owners, batch[b].m_locked, b))
    /\ UNCHANGED mapTxSpends

\* What Commit requires of the reservations.
Reserved(b) ==
    \A c \in batch[b].m_locked : ~IsSpent(c) /\ OwnsCoinLock(m_coin_lock_owners, c, b)

CommitRefused(b) ==
    /\ batch[b].m_commit_attempted \/ ~Reserved(b)
    /\ UNCHANGED batchVars

\* Commit: the reservations are released, then the transactions are added to the
\* wallet in turn, count of them before the database fails on the next (or all).
\* The one that failed is in the wallet's memory and spends its coin if AddToWallet
\* failed in writing it, and is not if it could not open the database batch.
Added(x, count) ==
    {SubSeq(x.m_transactions, 1, n) : n \in {count, count + 1} \cap 0..Len(x.m_transactions)}
CommitToWallet(b, count) ==
    /\ ~batch[b].m_commit_attempted
    /\ Reserved(b)
    /\ \E added \in Added(batch[b], count) :
         AddToSpends(m_locked_coins \ Unlockable(m_coin_lock_owners, batch[b].m_locked, b),
                     ErasedOwners(m_coin_lock_owners, Unlockable(m_coin_lock_owners, batch[b].m_locked, b)),
                     added)
Commit(b, count) ==
    /\ CommitToWallet(b, count)
    /\ batch' = [batch EXCEPT ![b].m_commit_attempted = TRUE,
                              ![b].m_locked = {},
                              ![b].m_committed_count = count]

\* Commit, and the destructor with no reservation left to release.
CommitAndDestroy(b, count) == CommitToWallet(b, count) /\ batch' = [batch EXCEPT ![b] = None]

-----------------------------------------------------------------------------
(* The rest of the wallet, under cs_wallet                                 *)

\* lockunspent and the page for coin control: a lock of the user's, also over the
\* reservation of a batch (lockunspent with persistent = true).
UserLock(c) ==
    /\ ~IsSpent(c)
    /\ LockCoins({c}, None)
    /\ UNCHANGED <<mapTxSpends, batch>>

\* lockunspent without a list of coins (UnlockAllCoins) is one such step per coin.
UserUnlock(c) ==
    /\ c \in m_locked_coins /\ ~IsSpent(c)
    /\ m_locked_coins' = m_locked_coins \ {c}
    /\ m_coin_lock_owners' = ErasedOwners(m_coin_lock_owners, {c})
    /\ UNCHANGED <<mapTxSpends, batch>>

\* Any other transaction of the wallet that spends c, on this node or on another
\* that holds the same keys.
SpendElsewhere(c) ==
    /\ ~IsSpent(c)
    /\ AddToSpends(m_locked_coins, m_coin_lock_owners, <<[coin |-> c, mask |-> None]>>)
    /\ UNCHANGED batch

WalletNext == \E c \in Contested : UserLock(c) \/ UserUnlock(c) \/ SpendElsewhere(c)

\* Any number of owners of batches: each address holds at most one batch, and
\* only a batch that exists is used.
ClientStep(b) ==
    \/ batch[b] = None /\ Prepare(b, Coins)
    \/ /\ batch[b] # None
       /\ \/ PrepareAlternative(b) \/ Destroy(b)
          \/ \E mask \in Masks : SelectMask(b, mask)
          \/ \E count \in 0..Len(batch[b].m_transactions) : Commit(b, count) \/ CommitAndDestroy(b, count)
BatchNext == WalletNext \/ \E b \in Addresses : ClientStep(b)

WalletInit ==
    /\ m_locked_coins = {}
    /\ m_coin_lock_owners = [c \in Coins |-> None]
    /\ mapTxSpends = [c \in Coins |-> <<>>]
    /\ batch = [b \in Addresses |-> None]

BatchSpec == WalletInit /\ [][BatchNext]_batchVars

-----------------------------------------------------------------------------
(* Properties                                                              *)

WalletTypeOK ==
    /\ m_locked_coins \subseteq Coins
    /\ m_coin_lock_owners \in [Coins -> Addresses \cup {None}]
    /\ \A c \in Coins : mapTxSpends[c] \in Seq(Masks \cup {None})
    /\ \A b \in Addresses :
         batch[b] # None =>
             batch[b] \in Batches /\ batch[b].m_committed_count <= Len(batch[b].m_transactions)

\* A reservation belongs to a batch that still exists and that will release it
\* (m_coin_lock_owners, wallet.cpp:2732, against ~P2CTransactionBatch): whatever
\* the user locks, unlocks or spends meanwhile, a batch that the allocator puts
\* where a destroyed one was never inherits its coins.
OwnersAlive ==
    \A c \in Coins :
        LET b == m_coin_lock_owners[c]
        IN  b # None => c \in m_locked_coins /\ batch[b] # None /\ c \in batch[b].m_locked

\* No coin is spent twice by the wallet: Commit (p2c.cpp:205) notices a coin that
\* was spent, or reserved by someone else, while the batch awaited approval, and a
\* transaction whose write failed keeps its coin from the next batch.
NoDoubleSpend == \A c \in Coins : Len(mapTxSpends[c]) <= 1

\* A lock the user took is only ended by the user or by a spend of the coin: no
\* batch releases it, on cancellation or on commit, also where it took over a
\* reservation of that batch (UnlockCoin, wallet.cpp:2752).
UserLocks == {c \in m_locked_coins : m_coin_lock_owners[c] = None}
UserLocksKept ==
    [][\A c \in UserLocks : c \in UserLocks' \/ UserUnlock(c) \/ SpendElsewhere(c)]_batchVars

\* Reservations keep coins apart: each belongs to a batch that will release it, and
\* no coin is spent twice (LockCoin, UnlockCoin, Commit).
ReservationsSound == OwnersAlive /\ NoDoubleSpend
=============================================================================

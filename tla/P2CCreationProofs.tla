-------------------------- MODULE P2CCreationProofs ---------------------------
(***************************************************************************)
(* The reservations of bounty batches (wallet/p2c.cpp) in a wallet whose   *)
(* user locks, unlocks and spends at will, and the creation page with its  *)
(* worker and sendtop2c as users of batches, for any coins, addresses and  *)
(* lengths of a batch.                                                     *)
(*                                                                         *)
(* The page implements the batches of P2CTransactionBatch because it acts  *)
(* on a batch only where it holds it. That rests on the state of the page  *)
(* and the worker's queue taken together: at most one task is queued, its  *)
(* kind is known from the call the GUI waits in, and the page's batch is   *)
(* in one place at a time (PagePhases, Owned), in the stage of preparation *)
(* that this place stands for (Stages). The probes come last, and with     *)
(* them the theorems about the page.                                       *)
(***************************************************************************)
EXTENDS P2CCreateDialog, FiniteSetTheorems, TLAPS

\* Zenon is the prover of this module; a leaf that needs another one names it.
USE Zenon

WalletTypes ==
    /\ m_locked_coins \subseteq Coins
    /\ m_coin_lock_owners \in [Coins -> Addresses \cup {None}]
    /\ mapTxSpends \in [Coins -> Seq(Masks \cup {None})]
    /\ batch \in [Addresses -> Batches \cup {None}]

\* Until Commit, every transaction of a batch, in either version, spends a coin
\* that the batch locked: what Commit checks covers what it spends.
InputsLocked(x) ==
    ~x.m_commit_attempted =>
        /\ \A i \in DOMAIN x.m_transactions : x.m_transactions[i].coin \in x.m_locked
        /\ \A i \in DOMAIN x.m_alternative_transactions :
             x.m_alternative_transactions[i].coin \in x.m_locked

BatchesReserve == \A b \in Addresses : batch[b] # None => InputsLocked(batch[b])

BatchInv == WalletTypes /\ BatchesReserve /\ OwnersAlive /\ NoDoubleSpend

\* AddToSpends spends coins that are not spent yet, each once.
LEMMA AddsOneSpend ==
    ASSUME WalletTypes, NoDoubleSpend,
           NEW locked \in SUBSET Coins, NEW owners \in [Coins -> Addresses \cup {None}],
           NEW txs \in Seq([coin : Coins, mask : Masks \cup {None}]),
           \A i \in DOMAIN txs : ~IsSpent(txs[i].coin),
           AddToSpends(locked, owners, txs)
    PROVE  /\ m_locked_coins' = locked \ {txs[i].coin : i \in DOMAIN txs}
           /\ m_locked_coins' \subseteq Coins
           /\ m_coin_lock_owners' = ErasedOwners(owners, {txs[i].coin : i \in DOMAIN txs})
           /\ m_coin_lock_owners' \in [Coins -> Addresses \cup {None}]
           /\ mapTxSpends' \in [Coins -> Seq(Masks \cup {None})]
           /\ NoDoubleSpend'
<1> DEFINE M == Masks \cup {None}
           T == [coin : Coins, mask : M]
           spends(c) == \E i \in DOMAIN txs : txs[i].coin = c
           added(c) == IF spends(c) THEN <<txs[CHOOSE i \in DOMAIN txs : txs[i].coin = c].mask>> ELSE <<>>
<1>0. txs \in Seq(T)
  OBVIOUS
<1>1. mapTxSpends' = [c \in Coins |-> mapTxSpends[c] \o added(c)]
  BY DEF AddToSpends
<1>2. ASSUME NEW c \in Coins
      PROVE  /\ mapTxSpends[c] \o added(c) \in Seq(M)
             /\ Len(mapTxSpends[c] \o added(c)) <= 1
  <2>1. CASE spends(c)
    <3> DEFINE k == CHOOSE i \in DOMAIN txs : txs[i].coin = c
    <3>1. k \in DOMAIN txs /\ txs[k].coin = c
      BY <2>1
    <3>2. added(c) = <<txs[k].mask>>
      BY <2>1
    <3> HIDE DEF k, added, T, M
    <3>3. mapTxSpends[c] = <<>>
      BY <3>1 DEF IsSpent
    <3>4. txs[k] \in T
      BY <1>0, <3>1, SMT
    <3>5. txs[k].mask \in M
      BY <3>4 DEF T
    <3> QED  BY <3>2, <3>3, <3>5, SMT
  <2>2. CASE ~spends(c)
    <3>1. added(c) = <<>>
      BY <2>2
    <3> HIDE DEF added, M
    <3>2. mapTxSpends[c] \in Seq(M) /\ Len(mapTxSpends[c]) <= 1
      BY DEF WalletTypes, NoDoubleSpend, M
    <3> QED  BY <3>1, <3>2, SMT
  <2> QED  BY <2>1, <2>2
<1> HIDE DEF added
<1>3. mapTxSpends' \in [Coins -> Seq(Masks \cup {None})] /\ NoDoubleSpend'
  BY <1>1, <1>2 DEF NoDoubleSpend
<1>4. /\ m_locked_coins' = locked \ {txs[i].coin : i \in DOMAIN txs}
      /\ m_coin_lock_owners' = ErasedOwners(owners, {txs[i].coin : i \in DOMAIN txs})
  BY DEF AddToSpends
<1> QED  BY <1>3, <1>4 DEF ErasedOwners

\* What Commit adds to the wallet are transactions of the batch, those it counts
\* among them.
LEMMA AddedOfBatch ==
    ASSUME NEW x \in Batches, NEW count \in 0..Len(x.m_transactions), NEW added \in Added(x, count)
    PROVE  /\ added \in Seq([coin : Coins, mask : Masks \cup {None}])
           /\ \A i \in DOMAIN added : \E j \in DOMAIN x.m_transactions : added[i] = x.m_transactions[j]
           /\ \A i \in 1..count : i \in DOMAIN added /\ added[i] = x.m_transactions[i]
<1>1. x.m_transactions \in Seq(Transactions)
  BY DEF Batches
<1> DEFINE txs == x.m_transactions
           T == [coin : Coins, mask : Masks \cup {None}]
<1>a. Transactions \subseteq T
  BY DEF Transactions
<1>b. txs \in Seq(Transactions)
  BY <1>1
<1>c. PICK n \in {count, count + 1} \cap 0..Len(txs) : added = SubSeq(txs, 1, n)
  BY DEF Added
<1> HIDE DEF txs, T
<1>2. txs \in Seq(T)
  BY <1>a, <1>b, SMT
<1>3. n \in 0..Len(txs) /\ 1..count \subseteq 1..n
  BY <1>2, <1>c, SMT DEF txs
<1>4. /\ SubSeq(txs, 1, n) \in Seq(T)
      /\ Len(SubSeq(txs, 1, n)) = n
      /\ \A i \in 1..n : SubSeq(txs, 1, n)[i] = txs[i]
  BY <1>2, <1>3, SMT
<1>5. DOMAIN SubSeq(txs, 1, n) = 1..n /\ 1..n \subseteq DOMAIN txs
  BY <1>2, <1>3, <1>4, SMTT(30)
<1> QED  BY <1>c, <1>3, <1>4, <1>5 DEF txs, T

\* Commit gives up the reservations of its batch and nobody else's, and spends
\* nothing but them.
LEMMA CommitKeeps ==
    ASSUME BatchInv, NEW b \in Addresses, batch[b] # None,
           NEW count \in 0..Len(batch[b].m_transactions), CommitToWallet(b, count)
    PROVE  /\ m_locked_coins' \subseteq Coins
           /\ m_coin_lock_owners' \in [Coins -> Addresses \cup {None}]
           /\ mapTxSpends' \in [Coins -> Seq(Masks \cup {None})]
           /\ NoDoubleSpend'
           /\ \A c \in Coins : m_coin_lock_owners'[c] # None =>
                /\ m_coin_lock_owners'[c] = m_coin_lock_owners[c]
                /\ m_coin_lock_owners[c] # b
                /\ c \in m_locked_coins'
           /\ UserLocks \subseteq UserLocks'
<1> DEFINE x == batch[b]
           U == Unlockable(m_coin_lock_owners, x.m_locked, b)
           locked == m_locked_coins \ U
           owners == ErasedOwners(m_coin_lock_owners, U)
<1>0. PICK txs \in Added(x, count) : AddToSpends(locked, owners, txs)
  BY DEF CommitToWallet
<1> DEFINE K == {txs[i].coin : i \in DOMAIN txs}
<1>1. x \in Batches /\ x.m_locked \subseteq Coins /\ InputsLocked(x)
  BY DEF BatchInv, WalletTypes, BatchesReserve, Batches
<1>2. ~x.m_commit_attempted /\ Reserved(b) /\ AddToSpends(locked, owners, txs)
  BY <1>0 DEF CommitToWallet
<1>3. /\ txs \in Seq([coin : Coins, mask : Masks \cup {None}])
      /\ \A i \in DOMAIN txs : \E j \in DOMAIN x.m_transactions : txs[i] = x.m_transactions[j]
  BY <1>1, AddedOfBatch
<1>4. \A c \in x.m_locked : ~IsSpent(c) /\ m_coin_lock_owners[c] = b
  BY <1>2 DEF Reserved, OwnsCoinLock
<1>5. \A i \in DOMAIN txs : txs[i].coin \in x.m_locked
  <2> HIDE DEF x
  <2> QED  BY <1>1, <1>2, <1>3 DEF InputsLocked
<1>6. K \subseteq x.m_locked
  <2> HIDE DEF x
  <2> QED  BY <1>5
<1>7. U = x.m_locked
  BY <1>4 DEF Unlockable, OwnsCoinLock
<1>8. locked \in SUBSET Coins /\ owners \in [Coins -> Addresses \cup {None}]
  BY DEF BatchInv, WalletTypes, ErasedOwners
<1>9. \A i \in DOMAIN txs : ~IsSpent(txs[i].coin)
  <2> HIDE DEF x
  <2> QED  BY <1>4, <1>5, SMTT(30)
<1>10. /\ m_locked_coins' = locked \ K
       /\ m_locked_coins' \subseteq Coins
       /\ m_coin_lock_owners' = ErasedOwners(owners, K)
       /\ m_coin_lock_owners' \in [Coins -> Addresses \cup {None}]
       /\ mapTxSpends' \in [Coins -> Seq(Masks \cup {None})]
       /\ NoDoubleSpend'
  <2> HIDE DEF locked, owners
  <2> QED  BY <1>2, <1>3, <1>8, <1>9, AddsOneSpend DEF BatchInv
<1> HIDE DEF K
<1>11. ASSUME NEW c \in Coins, m_coin_lock_owners'[c] # None
       PROVE  /\ m_coin_lock_owners'[c] = m_coin_lock_owners[c]
              /\ m_coin_lock_owners[c] # b
              /\ c \in m_locked_coins'
  <2>1. c \notin K /\ c \notin U /\ m_coin_lock_owners'[c] = m_coin_lock_owners[c]
    BY <1>10, <1>11 DEF ErasedOwners
  <2>2. c \in m_locked_coins /\ c \in batch[m_coin_lock_owners[c]].m_locked
    BY <1>11, <2>1 DEF BatchInv, OwnersAlive
  <2> QED  BY <1>7, <1>10, <2>1, <2>2
<1>12. UserLocks \subseteq UserLocks'
  <2> SUFFICES ASSUME NEW c \in m_locked_coins, m_coin_lock_owners[c] = None
               PROVE  c \in m_locked_coins' /\ m_coin_lock_owners'[c] = None
    BY DEF UserLocks
  <2>1. c \in Coins /\ b # None
    BY BatchAssumption DEF BatchInv, WalletTypes
  <2>2. c \notin x.m_locked
    BY <1>4, <2>1
  <2>3. c \notin K /\ c \notin U
    BY <1>6, <1>7, <2>2
  <2> QED  BY <1>10, <2>1, <2>3 DEF ErasedOwners
<1> QED  BY <1>10, <1>11, <1>12

LEMMA BatchInvInit == WalletInit => BatchInv
<1> SUFFICES ASSUME WalletInit PROVE BatchInv
  OBVIOUS
<1>1. WalletTypes
  BY SMT DEF WalletInit, WalletTypes
<1>2. BatchesReserve /\ OwnersAlive
  BY DEF WalletInit, BatchesReserve, OwnersAlive
<1>3. NoDoubleSpend
  BY SMT DEF WalletInit, NoDoubleSpend
<1> QED  BY <1>1, <1>2, <1>3 DEF BatchInv

\* What the rest of the wallet does to a coin leaves the batches and their
\* reservations of other coins alone.
LEMMA WalletKeeps == BatchInv /\ WalletNext => BatchInv'
<1> SUFFICES ASSUME BatchInv, NEW c \in Coins, UserLock(c) \/ UserUnlock(c) \/ SpendElsewhere(c)
             PROVE  BatchInv'
  BY BatchAssumption DEF WalletNext
<1>0. batch' = batch /\ BatchesReserve'
  BY DEF UserLock, UserUnlock, SpendElsewhere, BatchInv, BatchesReserve
<1>1. CASE UserLock(c)
  <2>1. WalletTypes' /\ NoDoubleSpend'
    BY <1>1 DEF UserLock, LockCoins, BatchInv, WalletTypes, NoDoubleSpend
  <2>2. OwnersAlive'
    BY <1>0, <1>1, SMTT(30) DEF UserLock, LockCoins, BatchInv, WalletTypes, OwnersAlive
  <2> QED  BY <1>0, <2>1, <2>2 DEF BatchInv
<1>2. CASE UserUnlock(c)
  <2>1. WalletTypes' /\ NoDoubleSpend'
    BY <1>2 DEF UserUnlock, ErasedOwners, BatchInv, WalletTypes, NoDoubleSpend
  <2>2. OwnersAlive'
    BY <1>0, <1>2 DEF UserUnlock, ErasedOwners, BatchInv, WalletTypes, OwnersAlive
  <2> QED  BY <1>0, <2>1, <2>2 DEF BatchInv
<1>3. CASE SpendElsewhere(c)
  <2> DEFINE tx == [coin |-> c, mask |-> None]
             txs == <<tx>>
             T == [coin : Coins, mask : Masks \cup {None}]
             K == {txs[i].coin : i \in DOMAIN txs}
  <2>1. tx \in T /\ tx.coin = c
    OBVIOUS
  <2>2. txs \in Seq(T) /\ K = {c} /\ \A i \in DOMAIN txs : txs[i].coin = c
    <3> HIDE DEF tx, T
    <3> QED  BY <2>1, SMT
  <2>3. ~IsSpent(c) /\ AddToSpends(m_locked_coins, m_coin_lock_owners, txs)
    BY <1>3 DEF SpendElsewhere
  <2>4. /\ m_locked_coins' = m_locked_coins \ K
        /\ m_locked_coins' \subseteq Coins
        /\ m_coin_lock_owners' = ErasedOwners(m_coin_lock_owners, K)
        /\ m_coin_lock_owners' \in [Coins -> Addresses \cup {None}]
        /\ mapTxSpends' \in [Coins -> Seq(Masks \cup {None})]
        /\ NoDoubleSpend'
    <3> HIDE DEF txs
    <3> QED  BY <2>2, <2>3, AddsOneSpend DEF BatchInv, WalletTypes
  <2> HIDE DEF K
  <2>5. WalletTypes'
    BY <1>0, <2>4 DEF BatchInv, WalletTypes
  <2>6. OwnersAlive'
    BY <1>0, <2>2, <2>4 DEF ErasedOwners, BatchInv, WalletTypes, OwnersAlive
  <2> QED  BY <1>0, <2>4, <2>5, <2>6 DEF BatchInv
<1> QED  BY <1>1, <1>2, <1>3

\* A new batch locks coins nobody holds, at an address no lock remembers.
LEMMA PrepareKeeps ==
    ASSUME BatchInv, NEW b \in Addresses, batch[b] = None, Prepare(b, Coins)
    PROVE  BatchInv' /\ UserLocks \subseteq UserLocks'
<1>n. PICK n \in 1..MaxTransactions : \E coins \in [1..n -> Available \cap Coins] :
            /\ batch' = [batch EXCEPT ![b] = NewBatch(coins)]
            /\ LockCoins(Range(coins), b)
            /\ UNCHANGED mapTxSpends
  BY DEF Prepare
<1> PICK coins \in [1..n -> Available \cap Coins] :
            /\ batch' = [batch EXCEPT ![b] = NewBatch(coins)]
            /\ LockCoins(Range(coins), b)
            /\ UNCHANGED mapTxSpends
  BY <1>n, ZenonT(30)
<1> DEFINE cs == Range(coins)
           txs == [i \in DOMAIN coins |-> [coin |-> coins[i], mask |-> ALL]]
<1>1. cs \subseteq Available /\ cs \subseteq Coins /\ DOMAIN coins = 1..n /\ n \in Nat
  BY BatchAssumption, SMT DEF Range
<1>2. \A i \in 1..n : coins[i] \in cs
  BY DEF Range
<1>3. txs \in Seq(Transactions) /\ DOMAIN txs = 1..n /\ \A i \in 1..n : txs[i].coin = coins[i]
  <2>1. \A i \in 1..n : [coin |-> coins[i], mask |-> ALL] \in Transactions
    BY DEF Transactions, Masks
  <2> HIDE DEF Transactions
  <2> QED  BY <1>1, <2>1, SMT
<1> HIDE DEF txs, cs
<1>4. NewBatch(coins) = [m_transactions |-> txs, m_alternative_transactions |-> <<>>,
                         m_mask_selected |-> FALSE, m_locked |-> cs,
                         m_committed_count |-> 0, m_commit_attempted |-> FALSE]
  BY DEF NewBatch, txs, cs
<1>5. NewBatch(coins) \in Batches
  <2>1. <<>> \in Seq(Transactions)
    BY SMT
  <2> QED  BY <1>1, <1>3, <1>4, <2>1, SMTT(30) DEF Batches
<1>6. NewBatch(coins) # None /\ NewBatch(coins).m_locked = cs /\ InputsLocked(NewBatch(coins))
  <2>1. NewBatch(coins) # None
    BY <1>5, BatchAssumption
  <2>2. /\ NewBatch(coins).m_locked = cs /\ NewBatch(coins).m_transactions = txs
        /\ NewBatch(coins).m_alternative_transactions = <<>>
    BY <1>4, SMT
  <2> QED  BY <1>2, <1>3, <2>1, <2>2, SMTT(30) DEF InputsLocked
<1>7. /\ m_locked_coins' = m_locked_coins \cup cs
      /\ m_coin_lock_owners' = [c \in Coins |-> IF c \in cs THEN b ELSE m_coin_lock_owners[c]]
  BY DEF LockCoins, cs
<1> DEFINE new == NewBatch(coins)
<1> HIDE DEF new
<1>8. batch' = [batch EXCEPT ![b] = new] /\ new \in Batches /\ new # None /\ new.m_locked = cs /\ InputsLocked(new)
  BY <1>5, <1>6, SMTT(30) DEF new
<1>9. WalletTypes'
  BY <1>1, <1>7, <1>8, SMTT(30) DEF BatchInv, WalletTypes
<1>10. BatchesReserve'
  BY <1>8 DEF BatchInv, WalletTypes, BatchesReserve
<1>11. OwnersAlive'
  <2> SUFFICES ASSUME NEW c \in Coins, m_coin_lock_owners'[c] # None
               PROVE  /\ c \in m_locked_coins' /\ batch'[m_coin_lock_owners'[c]] # None
                      /\ c \in batch'[m_coin_lock_owners'[c]].m_locked
    BY DEF OwnersAlive
  <2>1. CASE c \in cs
    BY <1>7, <1>8, <2>1, SMTT(30) DEF BatchInv, WalletTypes
  <2>2. CASE c \notin cs
    <3>1. m_coin_lock_owners'[c] = m_coin_lock_owners[c]
      BY <1>7, <2>2, SMTT(30)
    <3>2. /\ c \in m_locked_coins /\ batch[m_coin_lock_owners[c]] # None
          /\ c \in batch[m_coin_lock_owners[c]].m_locked
      BY <3>1 DEF BatchInv, OwnersAlive
    <3>3. m_coin_lock_owners[c] \in Addresses /\ m_coin_lock_owners[c] # b
      BY <3>1, <3>2 DEF BatchInv, WalletTypes
    <3> QED  BY <1>7, <1>8, <3>1, <3>2, <3>3, SMTT(30) DEF BatchInv, WalletTypes
  <2> QED  BY <2>1, <2>2
<1>12. NoDoubleSpend'
  BY DEF BatchInv, NoDoubleSpend
<1>13. UserLocks \subseteq UserLocks'
  BY <1>1, <1>7 DEF UserLocks, Available, BatchInv, WalletTypes
<1> QED  BY <1>9, <1>10, <1>11, <1>12, <1>13, SMTT(30) DEF BatchInv

\* A step on a batch in place keeps what the batch locked, and its inputs locked.
LEMMA InPlaceKeeps ==
    ASSUME BatchInv, NEW b \in Addresses, batch[b] # None,
           NEW new \in Batches, new.m_locked = batch[b].m_locked, InputsLocked(new),
           batch' = [batch EXCEPT ![b] = new], UNCHANGED walletVars
    PROVE  BatchInv' /\ UserLocks \subseteq UserLocks'
<1>0. new # None
  BY BatchAssumption
<1>1. /\ m_locked_coins' = m_locked_coins /\ m_coin_lock_owners' = m_coin_lock_owners
      /\ mapTxSpends' = mapTxSpends
  BY DEF walletVars
<1>2. WalletTypes'
  BY <1>1 DEF BatchInv, WalletTypes
<1>3. BatchesReserve'
  BY DEF BatchInv, WalletTypes, BatchesReserve
<1>4. OwnersAlive'
  BY <1>0, <1>1 DEF BatchInv, WalletTypes, OwnersAlive
<1>5. NoDoubleSpend' /\ UserLocks' = UserLocks
  BY <1>1 DEF BatchInv, NoDoubleSpend, UserLocks
<1> QED  BY <1>2, <1>3, <1>4, <1>5, SMTT(30) DEF BatchInv

LEMMA AlternativeKeeps ==
    ASSUME BatchInv, NEW b \in Addresses, batch[b] # None, PrepareAlternative(b)
    PROVE  BatchInv' /\ UserLocks \subseteq UserLocks'
<1> DEFINE x == batch[b]
           txs == x.m_transactions
           twin(i) == [txs[i] EXCEPT !.mask = RSA]
           alt == [i \in DOMAIN txs |-> twin(i)]
           new == [x EXCEPT !.m_alternative_transactions = alt]
<1>1. x \in Batches /\ InputsLocked(x) /\ txs \in Seq(Transactions)
  BY DEF BatchInv, WalletTypes, BatchesReserve, Batches
<1>2. batch' = [batch EXCEPT ![b] = new] /\ UNCHANGED walletVars /\ ~x.m_commit_attempted
  BY DEF PrepareAlternative, CanPrepareAlternative
<1>3. alt \in Seq(Transactions) /\ DOMAIN alt = DOMAIN txs /\ \A i \in DOMAIN txs : alt[i].coin = txs[i].coin
  <2>1. ASSUME NEW i \in DOMAIN txs
        PROVE  twin(i) \in Transactions /\ twin(i).coin = txs[i].coin
    <3>1. txs[i] \in Transactions
      <4> HIDE DEF txs
      <4> QED  BY <1>1, SMT
    <3> HIDE DEF txs
    <3> QED  BY <3>1 DEF Transactions, Masks
  <2> HIDE DEF txs
  <2>2. DOMAIN txs = 1..Len(txs) /\ Len(txs) \in Nat
    BY <1>1, SMT
  <2> HIDE DEF twin
  <2>3. alt \in Seq(Transactions)
    BY <2>1, <2>2, SMT
  <2> QED  BY <2>1, <2>3
<1> HIDE DEF alt
<1>4. /\ new \in Batches /\ new.m_locked = x.m_locked /\ new.m_transactions = txs
      /\ new.m_alternative_transactions = alt
  BY <1>1, <1>3 DEF Batches
<1>5. InputsLocked(new)
  <2> HIDE DEF new, x
  <2> QED  BY <1>1, <1>2, <1>3, <1>4, SMTT(30) DEF InputsLocked
<1> QED
  <2> HIDE DEF new
  <2> QED  BY <1>2, <1>4, <1>5, InPlaceKeeps

LEMMA SelectKeeps ==
    ASSUME BatchInv, NEW b \in Addresses, batch[b] # None, NEW mask \in Masks, SelectMask(b, mask)
    PROVE  BatchInv' /\ UserLocks \subseteq UserLocks'
<1> DEFINE x == batch[b]
           new == Selected(x, mask)
<1>1. x \in Batches /\ InputsLocked(x)
  BY DEF BatchInv, WalletTypes, BatchesReserve
<1>2. batch' = [batch EXCEPT ![b] = new] /\ UNCHANGED walletVars /\ ~x.m_commit_attempted
  BY DEF SelectMask, CanSelectMask
<1> HIDE DEF x
<1>3. /\ new \in Batches /\ new.m_locked = x.m_locked
      /\ new.m_transactions \in {x.m_transactions, x.m_alternative_transactions}
      /\ new.m_alternative_transactions = <<>>
  <2>1. <<>> \in Seq(Transactions)
    BY SMT
  <2>2. CASE mask = ALL
    <3>1. new = [x EXCEPT !.m_alternative_transactions = <<>>, !.m_mask_selected = TRUE]
      BY <1>1, <2>2 DEF Selected, Batches
    <3> QED  BY <1>1, <2>1, <3>1 DEF Batches
  <2>3. CASE mask # ALL
    <3>1. new = [x EXCEPT !.m_transactions = x.m_alternative_transactions,
                          !.m_alternative_transactions = <<>>, !.m_mask_selected = TRUE]
      BY <1>1, <2>3 DEF Selected, Batches
    <3> QED  BY <1>1, <2>1, <3>1, ZenonT(30) DEF Batches
  <2> QED  BY <2>2, <2>3
<1> HIDE DEF new
<1>4. InputsLocked(new)
  BY <1>1, <1>2, <1>3, SMT DEF InputsLocked
<1> QED  BY <1>2, <1>3, <1>4, InPlaceKeeps, ZenonT(30) DEF x

\* A batch that goes away leaves no lock in its name.
LEMMA DestroyKeeps ==
    ASSUME BatchInv, NEW b \in Addresses, batch[b] # None, Destroy(b)
    PROVE  BatchInv' /\ UserLocks \subseteq UserLocks'
<1> DEFINE U == Unlockable(m_coin_lock_owners, batch[b].m_locked, b)
<1>1. \A c \in Coins : c \in U <=> m_coin_lock_owners[c] = b
  BY BatchAssumption DEF Unlockable, OwnsCoinLock, BatchInv, OwnersAlive
<1>2. /\ batch' = [batch EXCEPT ![b] = None] /\ m_locked_coins' = m_locked_coins \ U
      /\ m_coin_lock_owners' = [c \in Coins |-> IF c \in U THEN None ELSE m_coin_lock_owners[c]]
      /\ mapTxSpends' = mapTxSpends
  BY DEF Destroy, ErasedOwners
<1> HIDE DEF U
<1>3. WalletTypes' /\ NoDoubleSpend'
  BY <1>2 DEF BatchInv, WalletTypes, NoDoubleSpend
<1>4. BatchesReserve'
  BY <1>2 DEF BatchInv, WalletTypes, BatchesReserve
<1>5. OwnersAlive'
  BY <1>1, <1>2 DEF BatchInv, WalletTypes, OwnersAlive
<1>6. UserLocks \subseteq UserLocks'
  <2>1. b # None
    BY BatchAssumption
  <2> QED  BY <1>1, <1>2, <2>1, SMTT(30) DEF UserLocks, BatchInv, WalletTypes
<1> QED  BY <1>3, <1>4, <1>5, <1>6, SMTT(30) DEF BatchInv

\* After Commit no lock names the batch, so that nothing depends on what is left of it.
LEMMA CommittedKeeps ==
    ASSUME BatchInv, NEW b \in Addresses, batch[b] # None,
           NEW count \in 0..Len(batch[b].m_transactions), CommitToWallet(b, count),
           NEW new \in Batches \cup {None}, new # None => InputsLocked(new),
           batch' = [batch EXCEPT ![b] = new]
    PROVE  BatchInv' /\ UserLocks \subseteq UserLocks'
<1>1. /\ m_locked_coins' \subseteq Coins
      /\ m_coin_lock_owners' \in [Coins -> Addresses \cup {None}]
      /\ mapTxSpends' \in [Coins -> Seq(Masks \cup {None})]
      /\ NoDoubleSpend'
      /\ \A c \in Coins : m_coin_lock_owners'[c] # None =>
           /\ m_coin_lock_owners'[c] = m_coin_lock_owners[c]
           /\ m_coin_lock_owners[c] # b
           /\ c \in m_locked_coins'
      /\ UserLocks \subseteq UserLocks'
  BY CommitKeeps
<1>2. WalletTypes'
  BY <1>1 DEF BatchInv, WalletTypes
<1>3. BatchesReserve'
  BY DEF BatchInv, WalletTypes, BatchesReserve
<1>4. OwnersAlive'
  BY <1>1 DEF BatchInv, WalletTypes, OwnersAlive
<1> QED  BY <1>1, <1>2, <1>3, <1>4, SMTT(30) DEF BatchInv

LEMMA ClientKeeps ==
    ASSUME BatchInv, NEW b \in Addresses, ClientStep(b)
    PROVE  BatchInv' /\ UserLocks \subseteq UserLocks'
<1>1. CASE batch[b] = None /\ Prepare(b, Coins)
  BY <1>1, PrepareKeeps
<1>2. CASE batch[b] # None /\ PrepareAlternative(b)
  BY <1>2, AlternativeKeeps
<1>3. CASE batch[b] # None /\ Destroy(b)
  BY <1>3, DestroyKeeps
<1>4. ASSUME batch[b] # None, NEW mask \in Masks, SelectMask(b, mask)
      PROVE  BatchInv' /\ UserLocks \subseteq UserLocks'
  BY <1>4, SelectKeeps
<1>5. ASSUME batch[b] # None, NEW count \in 0..Len(batch[b].m_transactions), Commit(b, count)
      PROVE  BatchInv' /\ UserLocks \subseteq UserLocks'
  <2> DEFINE x == batch[b]
             new == [x EXCEPT !.m_commit_attempted = TRUE, !.m_locked = {}, !.m_committed_count = count]
  <2>1. x \in Batches
    BY <1>5 DEF BatchInv, WalletTypes
  <2>2. CommitToWallet(b, count) /\ batch' = [batch EXCEPT ![b] = new]
    BY <1>5 DEF Commit
  <2>3. count \in Nat
    <3>1. Len(x.m_transactions) \in Nat
      BY <2>1, SMT DEF Batches
    <3> QED  BY <1>5, <3>1, SMT
  <2>4. new \in Batches /\ new.m_commit_attempted
    BY <2>1, <2>3 DEF Batches
  <2>5. InputsLocked(new)
    BY <2>4 DEF InputsLocked
  <2> HIDE DEF new
  <2> QED  BY <1>5, <2>2, <2>4, <2>5, CommittedKeeps, ZenonT(30)
<1>6. ASSUME batch[b] # None, NEW count \in 0..Len(batch[b].m_transactions), CommitAndDestroy(b, count)
      PROVE  BatchInv' /\ UserLocks \subseteq UserLocks'
  BY <1>6, CommittedKeeps, ZenonT(30) DEF CommitAndDestroy
<1> QED  BY <1>1, <1>2, <1>3, <1>4, <1>5, <1>6, SMTT(30) DEF ClientStep

LEMMA BatchInvNext == BatchInv /\ [BatchNext]_batchVars => BatchInv'
<1>1. ASSUME BatchInv, UNCHANGED batchVars PROVE BatchInv'
  BY <1>1 DEF BatchInv, WalletTypes, BatchesReserve, InputsLocked, OwnersAlive, NoDoubleSpend,
              batchVars, walletVars
<1> QED  BY <1>1, WalletKeeps, ClientKeeps DEF BatchNext

-----------------------------------------------------------------------------
\* The inductive invariant of the reservations: whatever the dialog, the RPC and the
\* user do, in any order, what each batch believes it reserved (m_locked) agrees with
\* the wallet's locks and owners (LockCoin and UnlockCoin of wallet.cpp).
THEOREM BatchInvariance == BatchSpec => []BatchInv
BY BatchInvInit, BatchInvNext, PTL DEF BatchSpec

\* Whatever batches are prepared, cancelled and committed, and whatever the user does
\* meanwhile, a reservation belongs to a batch that exists and releases it: a batch
\* allocated where a destroyed one was (LockCoin, m_coin_lock_owners) never inherits
\* its coins.  And P2CTransactionBatch::Commit never makes the wallet spend a coin twice.
THEOREM ReservationsAlwaysSound == BatchSpec => []ReservationsSound
<1>1. BatchInv => ReservationsSound
  BY DEF BatchInv, ReservationsSound
<1> QED  BY <1>1, BatchInvariance, PTL

\* No batch ends a lock the user took, on cancellation or on Commit.
THEOREM UsersKeepTheirLocks == BatchSpec => UserLocksKept
<1> DEFINE Kept == \A c \in UserLocks : c \in UserLocks' \/ UserUnlock(c) \/ SpendElsewhere(c)
<1>1. BatchInv /\ [BatchNext]_batchVars => [Kept]_batchVars
  <2> SUFFICES ASSUME BatchInv, BatchNext PROVE Kept
    OBVIOUS
  <2>1. ASSUME NEW b \in Addresses, ClientStep(b) PROVE Kept
    BY <2>1, ClientKeeps
  <2>2. ASSUME NEW d \in Contested, UserLock(d) PROVE Kept
    BY <2>2 DEF UserLock, LockCoins, UserLocks, BatchInv, WalletTypes
  <2>3. ASSUME NEW d \in Contested, UserUnlock(d) PROVE Kept
    <3> SUFFICES ASSUME NEW c \in UserLocks, c # d PROVE c \in UserLocks'
      BY <2>3
    <3> QED  BY <2>3 DEF UserUnlock, ErasedOwners, UserLocks, BatchInv, WalletTypes
  <2>4. ASSUME NEW d \in Contested, SpendElsewhere(d) PROVE Kept
    <3> SUFFICES ASSUME NEW c \in UserLocks, c # d PROVE c \in UserLocks'
      BY <2>4
    <3> DEFINE txs == <<[coin |-> d, mask |-> None]>>
               K == {txs[i].coin : i \in DOMAIN txs}
    <3>1. K = {d}
      BY SMT
    <3>2. /\ m_locked_coins' = m_locked_coins \ K
          /\ m_coin_lock_owners' = ErasedOwners(m_coin_lock_owners, K)
      BY <2>4 DEF SpendElsewhere, AddToSpends
    <3> HIDE DEF K
    <3> QED  BY <3>1, <3>2 DEF ErasedOwners, UserLocks, BatchInv, WalletTypes
  <2> QED  BY <2>1, <2>2, <2>3, <2>4, SMTT(30) DEF BatchNext, WalletNext
<1>2. BatchSpec => [][Kept]_batchVars
  BY <1>1, BatchInvariance, PTL DEF BatchSpec
<1> QED  BY <1>2 DEF UserLocksKept

-----------------------------------------------------------------------------
(* What a batch on its way through the page looks like                     *)

Masked(txs, mask) == \A i \in DOMAIN txs : txs[i].mask = mask
Fresh(x) ==
    /\ ~x.m_commit_attempted /\ ~x.m_mask_selected
    /\ x.m_transactions # <<>> /\ Masked(x.m_transactions, ALL)
Bare(x) == Fresh(x) /\ x.m_alternative_transactions = <<>>
Both(x) ==
    /\ Fresh(x)
    /\ x.m_alternative_transactions # <<>> /\ Masked(x.m_alternative_transactions, RSA)
Frozen(x, mask) == ~x.m_commit_attempted /\ Masked(x.m_transactions, mask)

\* A batch that was not committed has committed nothing.
CountsInv ==
    \A b \in Addresses :
        batch[b] # None => /\ batch[b].m_committed_count <= Len(batch[b].m_transactions)
                           /\ ~batch[b].m_commit_attempted => batch[b].m_committed_count = 0

-----------------------------------------------------------------------------
(* What the operations make of a batch                                     *)

LEMMA PrepareMakes ==
    ASSUME BatchInv, NEW b \in Addresses, NEW from \in SUBSET Coins, Prepare(b, from)
    PROVE  /\ batch'[b] # None /\ Bare(batch'[b]) /\ batch'[b].m_committed_count = 0
           /\ \A a \in Addresses : a # b => batch'[a] = batch[a]
           /\ mapTxSpends' = mapTxSpends
           /\ Prepare(b, Coins)
<1>0. batch \in [Addresses -> Batches \cup {None}]
  BY DEF BatchInv, WalletTypes
<1>1. PICK n \in 1..MaxTransactions : \E coins \in [1..n -> Available \cap from] :
            /\ IsInjective(coins)
            /\ batch' = [batch EXCEPT ![b] = NewBatch(coins)]
            /\ LockCoins(Range(coins), b)
            /\ UNCHANGED mapTxSpends
  BY DEF Prepare
<1>2. PICK coins \in [1..n -> Available \cap from] :
            /\ IsInjective(coins)
            /\ batch' = [batch EXCEPT ![b] = NewBatch(coins)]
            /\ LockCoins(Range(coins), b)
            /\ UNCHANGED mapTxSpends
  BY <1>1
<1>3. coins \in [1..n -> Available \cap Coins]
  <2>1. Available \cap from \subseteq Available \cap Coins
    OBVIOUS
  <2>. QED  BY <2>1
<1>4. Prepare(b, Coins)
  BY <1>2, <1>3 DEF Prepare
<1> DEFINE txs == [i \in DOMAIN coins |-> [coin |-> coins[i], mask |-> ALL]]
<1>5. DOMAIN txs = 1..n /\ \A i \in DOMAIN txs : txs[i].mask = ALL
  OBVIOUS
<1>6. txs # <<>>
  <2>1. 1 \in DOMAIN txs
    BY <1>5, SMT
  <2>2. DOMAIN <<>> = {}
    BY SMT
  <2> HIDE DEF txs
  <2>. QED  BY <2>1, <2>2
<1>7. batch'[b] = NewBatch(coins) /\ \A a \in Addresses : a # b => batch'[a] = batch[a]
  BY <1>0, <1>2
<1>8. /\ NewBatch(coins).m_transactions = txs /\ NewBatch(coins).m_alternative_transactions = <<>>
      /\ NewBatch(coins).m_mask_selected = FALSE /\ NewBatch(coins).m_commit_attempted = FALSE
      /\ NewBatch(coins).m_committed_count = 0
  BY DEF NewBatch
<1>9. batch'[b] # None
  <2>1. NewBatch(coins) \in Batches
    <3>1. txs \in Seq(Transactions)
      <4>1. \A i \in 1..n : txs[i] \in Transactions
        BY <1>3 DEF Transactions, Masks
      <4>2. txs \in [1..n -> Transactions]
        BY <4>1, <1>5
      <4> HIDE DEF txs
      <4>. QED  BY <4>2, SMT
    <3>2. Range(coins) \in SUBSET Coins
      BY <1>3 DEF Range
    <3> HIDE DEF txs
    <3>3. NewBatch(coins) = [m_transactions |-> txs, m_alternative_transactions |-> <<>>,
                             m_mask_selected |-> FALSE, m_locked |-> Range(coins),
                             m_committed_count |-> 0, m_commit_attempted |-> FALSE]
      BY DEF NewBatch, txs
    <3>4. <<>> \in Seq(Transactions)
      BY SMT
    <3>. QED  BY <3>1, <3>2, <3>3, <3>4, SMT DEF Batches
  <2>. QED  BY <1>7, <2>1, BatchAssumption
<1> HIDE DEF txs
<1>10. Bare(batch'[b]) /\ batch'[b].m_committed_count = 0
  <2>1. Bare(NewBatch(coins)) /\ NewBatch(coins).m_committed_count = 0
    BY <1>5, <1>6, <1>8 DEF Bare, Fresh, Masked
  <2>. QED  BY <1>7, <2>1
<1>. QED  BY <1>2, <1>4, <1>7, <1>9, <1>10

LEMMA AlternativeMakes ==
    ASSUME BatchInv, NEW b \in Addresses, batch[b] # None, Bare(batch[b]), PrepareAlternative(b)
    PROVE  /\ batch'[b] # None /\ Both(batch'[b])
           /\ \A a \in Addresses : a # b => batch'[a] = batch[a]
<1> DEFINE x == batch[b]
           alt == [i \in DOMAIN x.m_transactions |-> [x.m_transactions[i] EXCEPT !.mask = RSA]]
<1>0. batch \in [Addresses -> Batches \cup {None}] /\ x \in Batches /\ x.m_transactions \in Seq(Transactions)
  <2>1. batch \in [Addresses -> Batches \cup {None}] /\ x \in Batches
    BY DEF BatchInv, WalletTypes
  <2>. QED  BY <2>1 DEF Batches
<1>1. \A i \in DOMAIN x.m_transactions : x.m_transactions[i] \in Transactions
  BY <1>0, SMT
<1>2. \A i \in DOMAIN alt : alt[i].mask = RSA
  BY <1>1 DEF Transactions
<1>3. alt # <<>>
  <2>1. x.m_transactions # <<>>
    BY DEF Bare, Fresh
  <2>2. 1 \in DOMAIN x.m_transactions
    BY <1>0, <2>1, SMT
  <2>3. DOMAIN alt = DOMAIN x.m_transactions
    OBVIOUS
  <2>4. DOMAIN <<>> = {}
    BY SMT
  <2> HIDE DEF alt
  <2>. QED  BY <2>2, <2>3, <2>4
<1>4. batch' = [batch EXCEPT ![b].m_alternative_transactions = alt]
  BY DEF PrepareAlternative
<1> HIDE DEF alt
<1>5. /\ batch'[b] = [x EXCEPT !.m_alternative_transactions = alt]
      /\ \A a \in Addresses : a # b => batch'[a] = batch[a]
  BY <1>0, <1>4
<1>6. /\ batch'[b].m_alternative_transactions = alt /\ batch'[b].m_transactions = x.m_transactions
      /\ batch'[b].m_mask_selected = x.m_mask_selected
      /\ batch'[b].m_commit_attempted = x.m_commit_attempted
  <2> HIDE DEF x
  <2>. QED  BY <1>0, <1>5 DEF Batches
<1>7. Both(batch'[b])
  BY <1>2, <1>3, <1>6 DEF Bare, Both, Fresh, Masked
<1>8. batch'[b] # None
  <2>1. BatchInv'
    BY AlternativeKeeps
  <2>2. alt \in Seq(Transactions)
    <3>1. \A i \in DOMAIN x.m_transactions : [x.m_transactions[i] EXCEPT !.mask = RSA] \in Transactions
      BY <1>1 DEF Transactions, Masks
    <3>2. DOMAIN x.m_transactions = 1..Len(x.m_transactions) /\ Len(x.m_transactions) \in Nat
      BY <1>0, SMT
    <3>3. alt \in [1..Len(x.m_transactions) -> Transactions]
      BY <3>1, <3>2 DEF alt
    <3> HIDE DEF x
    <3>. QED  BY <3>2, <3>3, SMT
  <2>3. batch'[b] \in Batches
    <3> HIDE DEF x
    <3>. QED  BY <1>0, <1>5, <2>2 DEF Batches
  <2>. QED  BY <2>3, BatchAssumption
<1>. QED  BY <1>5, <1>7, <1>8

LEMMA SelectMakes ==
    ASSUME BatchInv, NEW b \in Addresses, batch[b] # None, Both(batch[b]),
           NEW mask \in Masks, SelectMask(b, mask)
    PROVE  /\ batch'[b] # None /\ Frozen(batch'[b], mask)
           /\ \A a \in Addresses : a # b => batch'[a] = batch[a]
<1> DEFINE x == batch[b]
<1>0. batch \in [Addresses -> Batches \cup {None}] /\ x \in Batches
  BY DEF BatchInv, WalletTypes
<1>1. /\ batch'[b] = Selected(x, mask)
      /\ \A a \in Addresses : a # b => batch'[a] = batch[a]
  BY <1>0 DEF SelectMask
<1>2. /\ Selected(x, mask).m_transactions =
            (IF mask = ALL THEN x.m_transactions ELSE x.m_alternative_transactions)
      /\ Selected(x, mask).m_commit_attempted = x.m_commit_attempted
      /\ Selected(x, mask) \in Batches
  <2> HIDE DEF x
  <2>1. <<>> \in Seq(Transactions)
    BY SMT
  <2>. QED  BY <1>0, <2>1 DEF Selected, Batches
<1>3. Masked(IF mask = ALL THEN x.m_transactions ELSE x.m_alternative_transactions, mask)
  BY DEF Both, Fresh, Masked, Masks
<1>4. Frozen(Selected(x, mask), mask)
  BY <1>2, <1>3 DEF Frozen, Both, Fresh
<1>. QED  BY <1>1, <1>2, <1>4, BatchAssumption

LEMMA DestroyMakes ==
    ASSUME BatchInv, NEW b \in Addresses, batch' = [batch EXCEPT ![b] = None]
    PROVE  batch'[b] = None /\ \A a \in Addresses : a # b => batch'[a] = batch[a]
  BY DEF BatchInv, WalletTypes

-----------------------------------------------------------------------------
(* What every step on batches keeps                                        *)

LEMMA CountsKept ==
    ASSUME BatchInv, CountsInv, [BatchNext]_batchVars
    PROVE  CountsInv'
<1>0. batch \in [Addresses -> Batches \cup {None}] /\ BatchInv'
  BY BatchInvNext DEF BatchInv, WalletTypes
<1>1. batch' \in [Addresses -> Batches \cup {None}]
  BY <1>0 DEF BatchInv, WalletTypes
<1>2. \A b \in Addresses : batch'[b] # None => batch'[b] \in Batches /\ Len(batch'[b].m_transactions) \in Nat
  BY <1>1, SMT DEF Batches
<1>3. ASSUME NEW b \in Addresses, \A a \in Addresses : a # b => batch'[a] = batch[a],
             batch'[b] # None => /\ batch'[b].m_committed_count <= Len(batch'[b].m_transactions)
                                 /\ ~batch'[b].m_commit_attempted => batch'[b].m_committed_count = 0
      PROVE  CountsInv'
  BY <1>3 DEF CountsInv
<1>4. CASE UNCHANGED batch
  BY <1>4 DEF CountsInv
<1>5. ASSUME NEW b \in Addresses, batch[b] = None, Prepare(b, Coins) PROVE CountsInv'
  <2>1. /\ batch'[b] # None /\ Bare(batch'[b]) /\ batch'[b].m_committed_count = 0
        /\ \A a \in Addresses : a # b => batch'[a] = batch[a]
    BY <1>5, PrepareMakes
  <2>. QED  BY <1>2, <1>3, <2>1, SMT
<1>6. ASSUME NEW b \in Addresses, batch[b] # None, PrepareAlternative(b) PROVE CountsInv'
  <2>1. PICK alt : batch' = [batch EXCEPT ![b].m_alternative_transactions = alt]
    BY <1>6 DEF PrepareAlternative
  <2>2. batch[b] \in Batches
    BY <1>0, <1>6
  <2>3. /\ batch'[b].m_transactions = batch[b].m_transactions
        /\ batch'[b].m_committed_count = batch[b].m_committed_count
        /\ batch'[b].m_commit_attempted = batch[b].m_commit_attempted
        /\ \A a \in Addresses : a # b => batch'[a] = batch[a]
    BY <1>0, <2>1, <2>2 DEF Batches
  <2>4. /\ batch[b].m_committed_count <= Len(batch[b].m_transactions)
        /\ ~batch[b].m_commit_attempted => batch[b].m_committed_count = 0
    BY <1>6 DEF CountsInv
  <2>5. /\ batch'[b].m_committed_count <= Len(batch'[b].m_transactions)
        /\ ~batch'[b].m_commit_attempted => batch'[b].m_committed_count = 0
    BY <2>3, <2>4
  <2>. QED  BY <1>3, <2>3, <2>5
<1>7. ASSUME NEW b \in Addresses, batch[b] # None, NEW mask \in Masks, SelectMask(b, mask) PROVE CountsInv'
  <2>1. batch[b] \in Batches /\ ~batch[b].m_commit_attempted /\ batch[b].m_committed_count = 0
    BY <1>0, <1>7 DEF SelectMask, CanSelectMask, CountsInv
  <2>2. /\ batch'[b] = Selected(batch[b], mask)
        /\ \A a \in Addresses : a # b => batch'[a] = batch[a]
    BY <1>0, <1>7 DEF SelectMask
  <2>3. batch'[b].m_committed_count = 0
    BY <2>1, <2>2 DEF Selected, Batches
  <2>. QED  BY <1>2, <1>3, <2>2, <2>3, SMT
<1>8. ASSUME NEW b \in Addresses, batch' = [batch EXCEPT ![b] = None] PROVE CountsInv'
  BY <1>0, <1>3, <1>8
<1>9. ASSUME NEW b \in Addresses, batch[b] # None, NEW count \in 0..Len(batch[b].m_transactions),
             Commit(b, count)
      PROVE  CountsInv'
  <2>1. batch[b] \in Batches /\ Len(batch[b].m_transactions) \in Nat
    <3>1. batch[b] \in Batches
      BY <1>0, <1>9
    <3>. QED  BY <3>1, SMT DEF Batches
  <2>2. batch' = [batch EXCEPT ![b].m_commit_attempted = TRUE, ![b].m_locked = {},
                               ![b].m_committed_count = count]
    BY <1>9 DEF Commit
  <2>3. /\ batch'[b].m_transactions = batch[b].m_transactions
        /\ batch'[b].m_committed_count = count
        /\ batch'[b].m_commit_attempted = TRUE
        /\ \A a \in Addresses : a # b => batch'[a] = batch[a]
    BY <1>0, <2>1, <2>2 DEF Batches
  <2>4. count <= Len(batch[b].m_transactions)
    BY <1>9, <2>1, SMT
  <2>. QED  BY <1>3, <2>3, <2>4
<1>10. CASE WalletNext \/ UNCHANGED batchVars
  BY <1>4, <1>10 DEF WalletNext, UserLock, UserUnlock, SpendElsewhere, batchVars
<1>. QED
  BY <1>5, <1>6, <1>7, <1>8, <1>9, <1>10 DEF BatchNext, ClientStep, Destroy, CommitAndDestroy

\* What the list of a coin's spends gains, it gains at its end.
LEMMA RangeGrows ==
    ASSUME NEW S, NEW s \in Seq(S), NEW t \in Seq(S)
    PROVE  Range(s) \subseteq Range(s \o t)
<1>1. \A i \in DOMAIN s : i \in DOMAIN (s \o t) /\ (s \o t)[i] = s[i]
  BY SMT
<1> DEFINE u == s \o t
<1> HIDE DEF u
<1>2. \A i \in DOMAIN s : i \in DOMAIN u /\ u[i] = s[i]
  BY <1>1 DEF u
<1>3. Range(s) \subseteq Range(u)
  BY <1>2 DEF Range
<1>. QED  BY <1>3 DEF u

SpendsCoin(txs, c) == \E i \in DOMAIN txs : txs[i].coin = c
EndsWith(s, mask) == s[Len(s)] = mask /\ mask \in Range(s)

\* What AddToSpends leaves of a coin's spends.
LEMMA SpendsOfCoin ==
    ASSUME BatchInv, NEW locked, NEW owners, NEW c \in Coins, NEW mask,
           NEW txs \in Seq([coin : Coins, mask : Masks \cup {None}]),
           AddToSpends(locked, owners, txs)
    PROVE  /\ Range(mapTxSpends[c]) \subseteq Range(mapTxSpends'[c])
           /\ ~SpendsCoin(txs, c) => mapTxSpends'[c] = mapTxSpends[c]
           /\ SpendsCoin(txs, c) /\ Masked(txs, mask) => EndsWith(mapTxSpends'[c], mask)
<1> DEFINE M == Masks \cup {None}
           T == [coin : Coins, mask : M]
           s == mapTxSpends[c]
           k == CHOOSE i \in DOMAIN txs : txs[i].coin = c
           spends == SpendsCoin(txs, c)
<1>1. s \in Seq(M)
  BY DEF BatchInv, WalletTypes
<1>2. mapTxSpends'[c] = s \o (IF spends THEN <<txs[k].mask>> ELSE <<>>)
  BY DEF AddToSpends, SpendsCoin
<1>3. CASE spends
  <2>1. k \in DOMAIN txs /\ txs[k].coin = c
    BY <1>3 DEF SpendsCoin
  <2>2. txs \in Seq(T)
    OBVIOUS
  <2>3. mapTxSpends'[c] = s \o <<txs[k].mask>>
    BY <1>2, <1>3
  <2> HIDE DEF s, k, spends, T, M
  <2>4. txs[k] \in T
    BY <2>1, <2>2, SMT
  <2>5. txs[k].mask \in M
    BY <2>4 DEF T
  <2> DEFINE m == txs[k].mask
  <2> HIDE DEF m
  <2>6. m \in M /\ <<m>> \in Seq(M) /\ mapTxSpends'[c] = s \o <<m>>
    BY <2>3, <2>5, SMT DEF m
  <2>7. Range(s) \subseteq Range(s \o <<m>>)
    BY <1>1, <2>6, RangeGrows
  <2>8. /\ Len(s \o <<m>>) = Len(s) + 1 /\ Len(s) \in Nat
        /\ (s \o <<m>>)[Len(s) + 1] = m /\ Len(s) + 1 \in DOMAIN (s \o <<m>>)
    BY <1>1, <2>6, SMT
  <2>9. (s \o <<m>>)[Len(s \o <<m>>)] = m /\ m \in Range(s \o <<m>>)
    BY <2>8 DEF Range
  <2>10. Masked(txs, mask) => m = mask
    BY <2>1 DEF Masked, m
  <2>. QED  BY <1>3, <2>6, <2>7, <2>9, <2>10 DEF s, spends, EndsWith
<1>4. CASE ~spends
  <2>1. mapTxSpends'[c] = s \o <<>>
    BY <1>2, <1>4
  <2> HIDE DEF s, M
  <2>2. s \o <<>> = s
    BY <1>1, SMT
  <2>. QED  BY <1>4, <2>1, <2>2 DEF s
<1>. QED  BY <1>3, <1>4

LEMMA CommitAdds ==
    ASSUME BatchInv, NEW b \in Addresses, batch[b] # None,
           NEW count \in 0..Len(batch[b].m_transactions), CommitToWallet(b, count)
    PROVE  \E added \in Seq([coin : Coins, mask : Masks \cup {None}]) :
             /\ \A i \in DOMAIN added : \E j \in DOMAIN batch[b].m_transactions : added[i] = batch[b].m_transactions[j]
             /\ \A i \in 1..count : i \in DOMAIN added /\ added[i] = batch[b].m_transactions[i]
             /\ \E locked, owners : AddToSpends(locked, owners, added)
<1>1. batch[b] \in Batches
  BY DEF BatchInv, WalletTypes
<1>2. PICK added \in Added(batch[b], count) : \E locked, owners : AddToSpends(locked, owners, added)
  BY DEF CommitToWallet
<1>. QED  BY <1>1, <1>2, AddedOfBatch

\* No step takes a transaction out of the wallet.
LEMMA SpendsGrow ==
    ASSUME BatchInv, [BatchNext]_batchVars
    PROVE  \A c \in Coins : Range(mapTxSpends[c]) \subseteq Range(mapTxSpends'[c])
<1>1. CASE UNCHANGED mapTxSpends
  BY <1>1
<1>2. ASSUME NEW d \in Contested, SpendElsewhere(d)
      PROVE  \A c \in Coins : Range(mapTxSpends[c]) \subseteq Range(mapTxSpends'[c])
  <2> DEFINE txs == <<[coin |-> d, mask |-> None]>>
  <2>1. d \in Coins
    BY <1>2, BatchAssumption
  <2>2. txs \in Seq([coin : Coins, mask : Masks \cup {None}])
    BY <2>1, SMT
  <2>3. AddToSpends(m_locked_coins, m_coin_lock_owners, txs)
    BY <1>2 DEF SpendElsewhere
  <2> HIDE DEF txs
  <2>. QED  BY <2>2, <2>3, SpendsOfCoin
<1>3. ASSUME NEW b \in Addresses, batch[b] # None,
             NEW count \in 0..Len(batch[b].m_transactions), CommitToWallet(b, count)
      PROVE  \A c \in Coins : Range(mapTxSpends[c]) \subseteq Range(mapTxSpends'[c])
  <2>1. PICK txs \in Seq([coin : Coins, mask : Masks \cup {None}]) :
             \E locked, owners : AddToSpends(locked, owners, txs)
    BY <1>3, CommitAdds
  <2>2. PICK locked, owners : AddToSpends(locked, owners, txs)
    BY <2>1
  <2>. QED  BY <2>1, <2>2, SpendsOfCoin
<1>4. CASE UNCHANGED batchVars
  BY <1>1, <1>4 DEF batchVars, walletVars
<1>5. CASE WalletNext
  BY <1>1, <1>2, <1>5 DEF WalletNext, UserLock, UserUnlock
<1>6. ASSUME NEW b \in Addresses, ClientStep(b)
      PROVE  \A c \in Coins : Range(mapTxSpends[c]) \subseteq Range(mapTxSpends'[c])
  <2>1. CASE UNCHANGED mapTxSpends
    BY <1>1, <2>1
  <2>2. CASE batch[b] # None /\ \E count \in 0..Len(batch[b].m_transactions) : Commit(b, count) \/ CommitAndDestroy(b, count)
    BY <1>3, <1>6, <2>2 DEF Commit, CommitAndDestroy
  <2>3. (batch[b] # None /\ \E count \in 0..Len(batch[b].m_transactions) : Commit(b, count) \/ CommitAndDestroy(b, count))
        \/ UNCHANGED mapTxSpends
    BY <1>6 DEF ClientStep, Prepare, PrepareAlternative, Destroy, SelectMask, walletVars
  <2>. QED  BY <2>1, <2>2, <2>3
<1>. QED  BY <1>4, <1>5, <1>6 DEF BatchNext

\* Commit of a batch whose transactions all carry one mask: what it adds to the
\* wallet carries it, and what the task reports is in the wallet.
LEMMA CommitMakes ==
    ASSUME BatchInv, CountsInv, NEW b \in Addresses, batch[b] # None,
           NEW count \in 0..Len(batch[b].m_transactions), Commit(b, count),
           NEW sel, Masked(batch[b].m_transactions, sel)
    PROVE  /\ batch'[b] # None
           /\ \A a \in Addresses : a # b => batch'[a] = batch[a]
           /\ \A c \in Coins : mapTxSpends'[c] # mapTxSpends[c] => mapTxSpends'[c][Len(mapTxSpends'[c])] = sel
           /\ Listed(batch'[b]) \in Seq(Transactions)
           /\ \A i \in DOMAIN Listed(batch'[b]) :
                Listed(batch'[b])[i].mask \in Range(mapTxSpends'[Listed(batch'[b])[i].coin])
<1> DEFINE x == batch[b]
           txs == x.m_transactions
<1>0. batch \in [Addresses -> Batches \cup {None}] /\ x \in Batches
  BY DEF BatchInv, WalletTypes
<1>1. txs \in Seq(Transactions) /\ Len(txs) \in Nat
  <2> HIDE DEF x
  <2>. QED  BY <1>0, SMT DEF Batches
<1>2. CommitToWallet(b, count)
  BY DEF Commit
<1>3. PICK add \in Seq([coin : Coins, mask : Masks \cup {None}]) :
      /\ \A i \in DOMAIN add : \E j \in DOMAIN txs : add[i] = txs[j]
      /\ \A i \in 1..count : i \in DOMAIN add /\ add[i] = txs[i]
      /\ \E locked, owners : AddToSpends(locked, owners, add)
  BY <1>2, CommitAdds
<1>4. \A i \in DOMAIN add : add[i].mask = sel
  BY <1>3 DEF Masked
<1>5. batch' = [batch EXCEPT ![b].m_commit_attempted = TRUE, ![b].m_locked = {},
                             ![b].m_committed_count = count]
  BY DEF Commit
<1>6. /\ batch'[b].m_transactions = txs
      /\ batch'[b].m_committed_count = count
      /\ \A a \in Addresses : a # b => batch'[a] = batch[a]
  BY <1>0, <1>5 DEF Batches
<1>7. batch'[b] # None
  <2> DEFINE new == [x EXCEPT !.m_commit_attempted = TRUE, !.m_locked = {}, !.m_committed_count = count]
  <2>1. batch' = [batch EXCEPT ![b] = new]
    BY <1>5
  <2>2. count \in Nat
    BY <1>1, SMT
  <2>3. new \in Batches
    BY <1>0, <2>2 DEF Batches
  <2> HIDE DEF new
  <2>. QED  BY <1>0, <2>1, <2>3, BatchAssumption
<1>8. PICK locked, owners : AddToSpends(locked, owners, add)
  BY <1>3
<1>9. \A c \in Coins : /\ ~SpendsCoin(add, c) => mapTxSpends'[c] = mapTxSpends[c]
                       /\ SpendsCoin(add, c) => EndsWith(mapTxSpends'[c], sel)
  <2>1. Masked(add, sel) /\ add \in Seq([coin : Coins, mask : Masks \cup {None}])
    BY <1>3, <1>4 DEF Masked
  <2>. QED  BY <1>8, <2>1, SpendsOfCoin
<1>a. \A c \in Coins : mapTxSpends'[c] # mapTxSpends[c] => mapTxSpends'[c][Len(mapTxSpends'[c])] = sel
  BY <1>9 DEF EndsWith
<1> DEFINE list == SubSeq(txs, 1, count)
<1>10. Listed(batch'[b]) = list
  BY <1>6 DEF Listed
<1>11. /\ list \in Seq(Transactions)
       /\ DOMAIN list = 1..count
       /\ \A i \in 1..count : list[i] = txs[i] /\ i \in DOMAIN txs
  <2> HIDE DEF txs
  <2>1. count \in 0..Len(txs)
    BY DEF txs
  <2>. QED  BY <1>1, <2>1, SMT
<1>12. \A i \in 1..count : i \in DOMAIN add /\ add[i] = txs[i]
  BY <1>3
<1>13. \A i \in 1..count : list[i].mask = sel /\ list[i].coin \in Coins
  <2>1. \A i \in 1..count : txs[i] \in Transactions
    <3> HIDE DEF txs
    <3>. QED  BY <1>1, <1>11, SMT
  <2>2. \A i \in 1..count : txs[i].coin \in Coins
    BY <2>1 DEF Transactions
  <2> HIDE DEF list
  <2>. QED  BY <1>11, <2>2 DEF Masked
<1> HIDE DEF list, txs
<1>14. \A i \in DOMAIN list : list[i].mask \in Range(mapTxSpends'[list[i].coin])
  <2> SUFFICES ASSUME NEW i \in 1..count PROVE list[i].mask \in Range(mapTxSpends'[list[i].coin])
    BY <1>11
  <2>1. i \in DOMAIN add /\ add[i].coin = list[i].coin /\ list[i].coin \in Coins /\ list[i].mask = sel
    BY <1>11, <1>12, <1>13
  <2>2. sel \in Range(mapTxSpends'[list[i].coin])
    BY <1>9, <2>1 DEF SpendsCoin, EndsWith
  <2>. QED  BY <2>1, <2>2
<1>. QED  BY <1>6, <1>7, <1>a, <1>10, <1>11, <1>14

-----------------------------------------------------------------------------
(* The page and the worker's queue                                         *)

Ops == {"prepare", "alternative", "commit", "reset", "release", "cleanup"}
Tasks == [op : Ops, batch : Addresses \cup {None}, submitted : Seq(Transactions)]
Replies == [done : BOOLEAN, batch : Addresses \cup {None}, submitted : Seq(Transactions)]

PageTypes ==
    /\ alive \in BOOLEAN /\ m_ready_to_send \in BOOLEAN /\ m_form \in BOOLEAN /\ detaching \in BOOLEAN
    /\ m_model \in {Wallet, None} /\ m_batch \in Addresses \cup {None}
    /\ sendtop2c \in Addresses \cup {None}
    /\ gui \in {"idle", "unlocking", "preparing", "releasing", "committing"}
    /\ shown \in Masks \cup {None}
    /\ tasks \in Seq(Tasks) /\ Len(tasks) <= 1
    /\ reply \in Replies /\ receipt \in Seq(Transactions)

\* The tasks of the call the GUI waits in.
Serves(op, where) ==
    \/ where = "preparing" /\ op \in {"prepare", "alternative"}
    \/ where = "committing" /\ op \in {"commit", "reset"}
    \/ where = "releasing" /\ op = "release"
Waiting == gui \in {"preparing", "committing", "releasing"}

PagePhases ==
    /\ ~Waiting => reply = Pending /\ (tasks # <<>> => ~alive /\ tasks[1].op = "cleanup")
    /\ Waiting => /\ m_batch = None
                  /\ reply.done => tasks = <<>>
                  /\ ~reply.done => /\ reply = Pending
                                    /\ tasks # <<>> /\ Serves(tasks[1].op, gui)
    /\ m_batch # None => alive /\ gui = "idle" /\ m_model = Wallet
    /\ m_batch = None <=> m_confirmation = None
    /\ m_batch = None => m_probe = None
    /\ m_batch # None => m_probe = IF m_ready_to_send THEN None ELSE m_confirmation
    /\ reply.batch # None => gui = "preparing"

Stages ==
    /\ m_batch # None => IF m_ready_to_send THEN Frozen(batch[m_batch], shown) ELSE Both(batch[m_batch])
    /\ reply.batch # None => Both(batch[reply.batch])
    /\ tasks # <<>> => /\ tasks[1].op = "prepare" <=> tasks[1].batch = None
                       /\ tasks[1].op = "alternative" => Bare(batch[tasks[1].batch])
                       /\ tasks[1].op = "commit" => Frozen(batch[tasks[1].batch], shown)

\* The page's batch is with the page, with the answer it waits for or with the task.
TaskBatch == IF tasks = <<>> THEN None ELSE tasks[1].batch
PageHolds(b) == b = m_batch \/ b = reply.batch \/ b = TaskBatch
Owned ==
    /\ \A b \in Addresses : batch[b] # None <=> PageHolds(b) \/ b = sendtop2c
    /\ sendtop2c # None => ~PageHolds(sendtop2c)

\* What was reported as submitted is in the wallet.
InWallet(txs) == \A i \in DOMAIN txs : txs[i].mask \in Range(mapTxSpends[txs[i].coin])
Receipts == InWallet(receipt) /\ InWallet(reply.submitted) /\ (tasks # <<>> => InWallet(tasks[1].submitted))

PageInv == PageTypes /\ PagePhases /\ Stages /\ Owned /\ Receipts

-----------------------------------------------------------------------------
(* The page: what the invariant says where a step begins                   *)

LEMMA OneTask ==
    ASSUME NEW S, NEW x \in S
    PROVE  /\ <<x>> # <<>> /\ <<x>>[1] = x /\ Head(<<x>>) = x /\ Tail(<<x>>) = <<>>
           /\ <<x>> \o <<>> = <<x>> /\ Append(<<>>, x) = <<x>> /\ DOMAIN <<x>> = {1}
  BY SMT

LEMMA TaskCases ==
    ASSUME PageTypes, tasks # <<>>
    PROVE  /\ tasks = <<tasks[1]>> /\ tasks[1] \in Tasks
           /\ Head(tasks) = tasks[1] /\ Tail(tasks) = <<>>
<1>1. tasks \in Seq(Tasks) /\ Len(tasks) <= 1
  BY DEF PageTypes
<1>0. 1 \in DOMAIN tasks
  BY <1>1, SMT
<1>2. Len(tasks) = 1
  BY <1>0, <1>1, SMT
<1>3. tasks[1] \in Tasks
  BY <1>1, <1>2, SMT
<1>4. tasks = <<tasks[1]>>
  BY <1>1, <1>2, SMT
<1>. QED  BY <1>3, <1>4, OneTask

LEMMA Held ==
    ASSUME BatchInv, PageInv
    PROVE  /\ m_batch # None => /\ m_batch \in Addresses /\ batch[m_batch] # None
                                /\ tasks = <<>> /\ reply = Pending
                                /\ alive /\ gui = "idle" /\ m_model = Wallet
           /\ reply.batch # None => /\ reply.batch \in Addresses /\ batch[reply.batch] # None
                                    /\ tasks = <<>> /\ m_batch = None /\ gui = "preparing"
           /\ tasks # <<>> => /\ tasks[1] \in Tasks /\ reply = Pending /\ m_batch = None
                              /\ tasks[1].op # "prepare" =>
                                   tasks[1].batch \in Addresses /\ batch[tasks[1].batch] # None
                              /\ tasks[1].op = "prepare" => tasks[1].batch = None
                              /\ tasks[1].op = "cleanup" <=> ~Waiting
                              /\ Waiting => ~reply.done /\ Serves(tasks[1].op, gui)
           /\ sendtop2c # None => sendtop2c \in Addresses /\ batch[sendtop2c] # None
<1>0. /\ m_batch \in Addresses \cup {None} /\ sendtop2c \in Addresses \cup {None}
      /\ reply.batch \in Addresses \cup {None} /\ reply.done \in BOOLEAN
      /\ Pending.batch = None /\ Pending.done = FALSE
  <2>1. Pending.batch = None /\ Pending.done = FALSE
    BY DEF Pending
  <2>2. reply \in Replies
    BY DEF PageInv, PageTypes
  <2>3. reply.batch \in Addresses \cup {None} /\ reply.done \in BOOLEAN
    BY <2>2 DEF Replies
  <2>. QED  BY <2>1, <2>3 DEF PageInv, PageTypes
<1>1. \A b \in Addresses : batch[b] # None <=> PageHolds(b) \/ b = sendtop2c
  BY DEF PageInv, Owned
<1>2. CASE tasks = <<>>
  <2>1. m_batch # None => alive /\ gui = "idle" /\ m_model = Wallet
    BY DEF PageInv, PagePhases
  <2>2. gui = "idle" => ~Waiting
    BY DEF Waiting
  <2>3. m_batch # None => reply = Pending
    BY <2>1, <2>2 DEF PageInv, PagePhases
  <2>4. reply.batch # None => gui = "preparing" /\ m_batch = None
    <3>1. reply.batch # None => gui = "preparing"
      BY DEF PageInv, PagePhases
    <3>2. gui = "preparing" => Waiting
      BY DEF Waiting
    <3>. QED  BY <3>1, <3>2 DEF PageInv, PagePhases
  <2>. QED  BY <1>0, <1>1, <1>2, <2>1, <2>3, <2>4 DEF PageHolds
<1>3. CASE tasks # <<>>
  <2>1. tasks[1] \in Tasks
    BY <1>3, TaskCases DEF PageInv
  <2>2. tasks[1].batch \in Addresses \cup {None}
    BY <2>1 DEF Tasks
  <2>3. tasks[1].op = "prepare" <=> tasks[1].batch = None
    BY <1>3 DEF PageInv, Stages
  <2>4. TaskBatch = tasks[1].batch
    BY <1>3 DEF TaskBatch
  <2>5. Waiting => m_batch = None /\ ~reply.done /\ reply = Pending /\ Serves(tasks[1].op, gui)
    BY <1>3 DEF PageInv, PagePhases
  <2>6. ~Waiting => m_batch = None /\ reply = Pending /\ tasks[1].op = "cleanup"
    BY <1>3 DEF PageInv, PagePhases
  <2>7. Serves(tasks[1].op, gui) => tasks[1].op # "cleanup"
    BY DEF Serves
  <2>8. tasks[1].op # "prepare" => tasks[1].batch \in Addresses /\ batch[tasks[1].batch] # None
    BY <1>1, <2>2, <2>3, <2>4 DEF PageHolds
  <2>9. reply = Pending /\ m_batch = None
    BY <2>5, <2>6
  <2>10. sendtop2c # None => sendtop2c \in Addresses /\ batch[sendtop2c] # None
    BY <1>0, <1>1
  <2>. QED  BY <1>0, <1>3, <2>1, <2>3, <2>5, <2>6, <2>7, <2>8, <2>9, <2>10
<1>. QED  BY <1>2, <1>3

LEMMA AllocatedFree ==
    ASSUME CanAllocate
    PROVE  Allocated \in Addresses /\ batch[Allocated] = None
  BY DEF CanAllocate, Allocated

\* Whatever the page, its worker and sendtop2c do to batches are steps of BatchNext.
LEMMA StepIsBatch ==
    ASSUME BatchInv, PageInv, Next
    PROVE  BatchNext \/ UNCHANGED batchVars
<1>1. CASE UNCHANGED batchVars
  BY <1>1
<1>2. CASE \E p \in Probes : TimerFires(p)
  <2>1. PICK p \in Probes : TimerFires(p)
    BY <1>2
  <2>2. CASE Freeze(p)
    <3>1. m_batch # None /\ SelectMask(m_batch, MaskFor(p)) /\ MaskFor(p) \in Masks
      BY <2>2 DEF Freeze, FreezeApplies, MaskFor, Masks
    <3>2. m_batch \in Addresses /\ batch[m_batch] # None
      BY <3>1, Held
    <3>. QED  BY <3>1, <3>2 DEF BatchNext, ClientStep
  <2>. QED  BY <2>1, <2>2 DEF TimerFires
<1>3. CASE WorkPrepare
  <2>1. CASE CanAllocate /\ Prepare(Allocated, Coins)
    BY <2>1, AllocatedFree DEF BatchNext, ClientStep
  <2>. QED  BY <1>1, <1>3, <2>1 DEF WorkPrepare
<1>4. CASE WorkAlternative \/ WorkCommit \/ WorkReset
  <2> DEFINE b == tasks[1].batch
  <2>1. tasks # <<>> /\ Head(tasks).op # "prepare"
    BY <1>4 DEF WorkAlternative, WorkCommit, WorkReset, AtHead
  <2>2. Head(tasks) = tasks[1]
    BY <2>1, TaskCases DEF PageInv
  <2>3. b \in Addresses /\ batch[b] # None
    BY <2>1, <2>2, Held
  <2>4. \/ PrepareAlternative(b) \/ Destroy(b) \/ UNCHANGED batchVars
        \/ \E count \in 0..Len(batch[b].m_transactions) : Commit(b, count)
    BY <1>4, <2>2 DEF WorkAlternative, AlternativeFails, WorkCommit, WorkReset, CommitRefused
  <2>. QED  BY <1>1, <2>3, <2>4 DEF BatchNext, ClientStep
<1>5. CASE RpcPrepare
  <2>1. Allocated \in Addresses /\ batch[Allocated] = None
    BY <1>5, AllocatedFree DEF RpcPrepare
  <2>2. Prepare(Allocated, Contested) /\ Contested \in SUBSET Coins
    BY <1>5, BatchAssumption DEF RpcPrepare
  <2>3. Prepare(Allocated, Coins)
    BY <2>1, <2>2, PrepareMakes
  <2>. QED  BY <2>1, <2>3 DEF BatchNext, ClientStep
<1>6. CASE RpcCommit \/ RpcRefused
  <2>1. sendtop2c \in Addresses /\ batch[sendtop2c] # None
    BY <1>6, Held DEF RpcCommit, RpcRefused
  <2>. QED  BY <1>6, <2>1 DEF RpcCommit, RpcRefused, BatchNext, ClientStep
<1>7. CASE WalletNext
  BY <1>7 DEF BatchNext
<1>8. CASE PrepareClicked \/ UnlockReturns \/ GuiReturns
  BY <1>1, <1>8 DEF PrepareClicked, UnlockReturns, GuiReturns, PrepareReturns, Released, CommitReturns
<1>9. CASE Answer \/ Detach \/ DestroyPage
  BY <1>1, <1>9 DEF Answer, Detach, DestroyPage, Finish
<1>. QED
  BY <1>1, <1>2, <1>3, <1>4, <1>5, <1>6, <1>7, <1>8, <1>9 DEF Next, WorkerStep

-----------------------------------------------------------------------------
(* The page, in every step                                                 *)

\* A list of transactions that some part of the page has already.
Known(s) ==
    s = <<>> \/ s = receipt \/ s = reply.submitted \/ (tasks # <<>> /\ s = tasks[1].submitted)
InWalletNext(s) == \A i \in DOMAIN s : s[i].mask \in Range(mapTxSpends'[s[i].coin])

LEMMA KnownKept ==
    ASSUME BatchInv, PageInv, [BatchNext]_batchVars, NEW s, Known(s)
    PROVE  s \in Seq(Transactions) /\ InWalletNext(s)
<1>1. s \in Seq(Transactions)
  <2>1. <<>> \in Seq(Transactions)
    BY SMT
  <2>2. receipt \in Seq(Transactions) /\ reply \in Replies
    BY DEF PageInv, PageTypes
  <2>3. reply.submitted \in Seq(Transactions)
    BY <2>2 DEF Replies
  <2>4. tasks # <<>> => tasks[1] \in Tasks
    BY TaskCases DEF PageInv
  <2>5. tasks # <<>> => tasks[1].submitted \in Seq(Transactions)
    BY <2>4 DEF Tasks
  <2>. QED  BY <2>1, <2>2, <2>3, <2>5 DEF Known
<1>2. InWallet(s)
  <2>1. InWallet(<<>>)
    BY SMT DEF InWallet
  <2>. QED  BY <2>1 DEF Known, PageInv, Receipts
<1>3. \A i \in DOMAIN s : s[i].coin \in Coins
  <2>1. \A i \in DOMAIN s : s[i] \in Transactions
    BY <1>1, SMT
  <2>. QED  BY <2>1 DEF Transactions
<1>4. \A c \in Coins : Range(mapTxSpends[c]) \subseteq Range(mapTxSpends'[c])
  BY SpendsGrow
<1>5. InWalletNext(s)
  <2> SUFFICES ASSUME NEW i \in DOMAIN s PROVE s[i].mask \in Range(mapTxSpends'[s[i].coin])
    BY DEF InWalletNext
  <2>1. s[i].mask \in Range(mapTxSpends[s[i].coin])
    BY <1>2 DEF InWallet
  <2>. QED  BY <1>3, <1>4, <2>1
<1>. QED  BY <1>1, <1>5

\* What the page and its worker show of lists are ones they had, or new ones in the wallet.
LEMMA ReceiptsKept ==
    ASSUME BatchInv, PageInv, [BatchNext]_batchVars,
           Known(receipt'), Known(reply'.submitted),
           tasks' # <<>> => Known(tasks'[1].submitted) \/ InWalletNext(tasks'[1].submitted)
    PROVE  Receipts' /\ receipt' \in Seq(Transactions) /\ reply'.submitted \in Seq(Transactions)
<1>1. /\ InWalletNext(receipt') /\ InWalletNext(reply'.submitted)
      /\ receipt' \in Seq(Transactions) /\ reply'.submitted \in Seq(Transactions)
  BY KnownKept
<1>2. tasks' # <<>> => InWalletNext(tasks'[1].submitted)
  BY KnownKept
<1>. QED  BY <1>1, <1>2 DEF Receipts, InWallet, InWalletNext

\* A queue with one task.
Queue(q, op, b, s) ==
    /\ q \in Seq(Tasks) /\ Len(q) <= 1 /\ q # <<>>
    /\ q[1].op = op /\ q[1].batch = b /\ q[1].submitted = s

LEMMA Queued ==
    ASSUME NEW op \in Ops, NEW b \in Addresses \cup {None}, NEW s \in Seq(Transactions)
    PROVE  LET y == [op |-> op, batch |-> b, submitted |-> s]
           IN  /\ Queue(<<y>>, op, b, s)
               /\ Append(<<>>, y) = <<y>> /\ <<y>> \o <<>> = <<y>>
<1> DEFINE y == [op |-> op, batch |-> b, submitted |-> s]
<1>1. y \in Tasks /\ y.op = op /\ y.batch = b /\ y.submitted = s
  BY DEF Tasks
<1> HIDE DEF y
<1>2. <<y>> \in Seq(Tasks) /\ Len(<<y>>) <= 1
  BY <1>1, SMT
<1>3. /\ <<y>> # <<>> /\ <<y>>[1] = y
      /\ Append(<<>>, y) = <<y>> /\ <<y>> \o <<>> = <<y>>
  BY <1>1, OneTask
<1>4. Queue(<<y>>, op, b, s)
  BY <1>1, <1>2, <1>3 DEF Queue
<1>. QED  BY <1>3, <1>4 DEF y

LEMMA Submitted ==
    ASSUME NEW op \in Ops, NEW b \in Addresses \cup {None}, tasks = <<>>, Submit(op, b)
    PROVE  Queue(tasks', op, b, <<>>)
<1>1. <<>> \in Seq(Transactions)
  BY SMT
<1>. QED  BY <1>1, Queued DEF Submit

LEMMA Became ==
    ASSUME PageTypes, tasks # <<>>,
           NEW op \in Ops, NEW b \in Addresses \cup {None}, NEW s \in Seq(Transactions), Become(op, b, s)
    PROVE  Queue(tasks', op, b, s) /\ reply' = reply
<1>1. Tail(tasks) = <<>>
  BY TaskCases
<1>. QED  BY <1>1, Queued DEF Become

\* Batches change hands within the page, which keeps the ones it has.
LEMMA OwnedKept ==
    ASSUME PageInv, UNCHANGED sendtop2c,
           \A b \in Addresses : batch'[b] # None <=> batch[b] # None,
           \A b \in Addresses : PageHolds(b)' <=> PageHolds(b)
    PROVE  Owned'
<1>1. /\ \A b \in Addresses : batch[b] # None <=> PageHolds(b) \/ b = sendtop2c
      /\ sendtop2c # None => ~PageHolds(sendtop2c)
      /\ sendtop2c \in Addresses \cup {None}
  BY DEF PageInv, PageTypes, Owned
<1>2. \A b \in Addresses : batch'[b] # None <=> PageHolds(b)' \/ b = sendtop2c'
  BY <1>1
<1>3. sendtop2c' # None => ~PageHolds(sendtop2c)'
  <2> SUFFICES ASSUME sendtop2c' # None PROVE ~PageHolds(sendtop2c)'
    OBVIOUS
  <2>1. sendtop2c \in Addresses /\ ~PageHolds(sendtop2c)
    BY <1>1
  <2>2. ~(sendtop2c = m_batch' \/ sendtop2c = reply'.batch \/ sendtop2c = TaskBatch')
    BY <2>1 DEF PageHolds
  <2>. QED  BY <2>2 DEF PageHolds
<1>. QED  BY <1>2, <1>3 DEF Owned

LEMMA PendingFacts ==
    Pending \in Replies /\ Pending.done = FALSE /\ Pending.batch = None /\ Pending.submitted = <<>>
  BY SMT DEF Pending, Replies

\* A step that moves no batch, no task and no confirmation.
LEMMA QuietPage ==
    ASSUME BatchInv, PageInv, [BatchNext]_batchVars, UNCHANGED batch,
           UNCHANGED m_batch, UNCHANGED reply, UNCHANGED tasks, UNCHANGED sendtop2c, UNCHANGED receipt,
           UNCHANGED m_ready_to_send, UNCHANGED shown, UNCHANGED alive, UNCHANGED detaching,
           UNCHANGED m_confirmation, UNCHANGED m_probe,
           m_form' \in BOOLEAN, m_model' \in {Wallet, None}, m_batch # None => m_model' = m_model,
           gui' = gui \/ (m_batch = None /\ ~Waiting /\ gui' \in {"idle", "unlocking"})
    PROVE  PageInv'
<1>1. PageTypes'
  BY DEF PageInv, PageTypes
<1>2. PagePhases'
  <2>1. CASE gui' = gui
    BY <2>1 DEF PageInv, PagePhases, Waiting
  <2>2. CASE m_batch = None /\ ~Waiting /\ gui' \in {"idle", "unlocking"}
    <3>1. ~Waiting' /\ reply' = Pending
      BY <2>2 DEF Waiting, PageInv, PagePhases
    <3>. QED  BY <2>2, <3>1, PendingFacts DEF PageInv, PagePhases
  <2>. QED  BY <2>1, <2>2
<1>3. Stages'
  BY DEF PageInv, Stages
<1>4. Owned'
  BY DEF PageInv, Owned, PageHolds, TaskBatch
<1>5. Receipts'
  BY ReceiptsKept DEF Known
<1>. QED  BY <1>1, <1>2, <1>3, <1>4, <1>5 DEF PageInv

\* prepare submits its task.
LEMMA UnlockPage ==
    ASSUME BatchInv, PageInv, UnlockReturns
    PROVE  PageInv'
<1>0. /\ gui = "unlocking" /\ UNCHANGED batchVars
      /\ alive' = alive /\ m_model' = m_model /\ m_batch' = m_batch /\ m_confirmation' = m_confirmation
      /\ m_probe' = m_probe /\ m_ready_to_send' = m_ready_to_send /\ m_form' = m_form
      /\ detaching' = detaching /\ shown' = shown /\ receipt' = receipt /\ sendtop2c' = sendtop2c
      /\ batch' = batch
  BY DEF UnlockReturns, batchVars
<1>1. m_batch = None /\ ~Waiting
  BY <1>0 DEF PageInv, PagePhases, Waiting
<1>2. CASE gui' = "idle" /\ UNCHANGED workVars
  <2>1. UNCHANGED reply /\ UNCHANGED tasks
    BY <1>2 DEF workVars
  <2>2. /\ m_form' \in BOOLEAN /\ m_model' \in {Wallet, None} /\ gui' \in {"idle", "unlocking"}
    BY <1>0, <1>2 DEF PageInv, PageTypes
  <2>. QED  BY <1>0, <1>1, <2>1, <2>2, QuietPage
<1>3. CASE alive /\ m_model = Wallet /\ Waits("prepare", None, "preparing")
  <2>1. tasks = <<>> /\ reply = Pending
    BY <1>1, <1>3 DEF PageInv, PagePhases
  <2>2. Queue(tasks', "prepare", None, <<>>)
    <3>1. "prepare" \in Ops
      BY DEF Ops
    <3>. QED  BY <1>3, <2>1, <3>1, Submitted DEF Waits
  <2>3. reply' = Pending /\ gui' = "preparing"
    BY <1>3 DEF Waits
  <2>4. PageTypes'
    BY <1>0, <2>2, <2>3, PendingFacts DEF PageInv, PageTypes, Queue
  <2>5. PagePhases'
    <3>1. Waiting'
      BY <2>3 DEF Waiting
    <3>. QED  BY <1>0, <1>1, <2>2, <2>3, <3>1, PendingFacts DEF PageInv, PagePhases, Serves, Queue
  <2>6. Stages'
    BY <1>0, <1>1, <2>2, <2>3, PendingFacts DEF Stages, Queue
  <2>7. Owned'
    <3>1. \A b \in Addresses : b # None
      BY BatchAssumption
    <3>2. \A b \in Addresses : PageHolds(b)' <=> PageHolds(b)
      BY <1>0, <2>1, <2>2, <2>3, <3>1 DEF PageHolds, TaskBatch, Queue
    <3>. QED  BY <1>0, <3>2, OwnedKept
  <2>8. Receipts'
    BY <1>0, <2>2, <2>3, PendingFacts, ReceiptsKept DEF Known, Queue
  <2>. QED  BY <2>4, <2>5, <2>6, <2>7, <2>8 DEF PageInv
<1>. QED  BY <1>2, <1>3 DEF UnlockReturns

\* The confirmation is answered or rejected: the page's batch becomes the task's.
LEMMA FinishPage ==
    ASSUME BatchInv, PageInv, m_confirmation # None, NEW approved \in BOOLEAN, approved => m_ready_to_send,
           Finish(approved), detaching' \in BOOLEAN
    PROVE  PageInv'
<1> DEFINE op == IF approved THEN "commit" ELSE "release"
<1>0. /\ m_batch' = None /\ m_confirmation' = None /\ m_ready_to_send' = FALSE /\ m_probe' = None
      /\ alive' = alive /\ m_model' = m_model /\ m_form' = m_form /\ shown' = shown
      /\ receipt' = receipt /\ sendtop2c' = sendtop2c /\ UNCHANGED batchVars /\ batch' = batch
      /\ gui' = (IF approved THEN "committing" ELSE "releasing") /\ reply' = Pending
  BY DEF Finish, Waits, CancelProbe, batchVars
<1>1. m_batch # None
  BY DEF PageInv, PagePhases
<1>2. /\ m_batch \in Addresses /\ batch[m_batch] # None /\ tasks = <<>> /\ reply = Pending
      /\ alive /\ gui = "idle" /\ m_model = Wallet
  BY <1>1, Held
<1>3. Queue(tasks', op, m_batch, <<>>)
  <2>1. op \in Ops /\ m_batch \in Addresses \cup {None} /\ Submit(op, m_batch)
    BY <1>2 DEF Ops, Finish, Waits
  <2> HIDE DEF op
  <2>. QED  BY <1>2, <2>1, Submitted
<1>5. PageTypes'
  BY <1>0, <1>3, PendingFacts DEF PageInv, PageTypes, Queue
<1>6. PagePhases'
  <2>1. Waiting' /\ Serves(op, gui')
    BY <1>0 DEF Waiting, Serves
  <2> HIDE DEF op
  <2>. QED  BY <1>0, <1>3, <2>1, PendingFacts DEF PagePhases, Queue
<1>7. Stages'
  <2>1. approved => Frozen(batch[m_batch], shown)
    BY <1>1 DEF PageInv, Stages
  <2>2. op # "prepare" /\ op # "alternative" /\ (op = "commit" => approved)
    OBVIOUS
  <2>3. m_batch # None
    BY <1>1
  <2> HIDE DEF op
  <2>. QED  BY <1>0, <1>3, <2>1, <2>2, <2>3, PendingFacts DEF Stages, Queue
<1>8. Owned'
  <2>1. \A b \in Addresses : b # None
    BY BatchAssumption
  <2>2. \A b \in Addresses : PageHolds(b)' <=> PageHolds(b)
    BY <1>0, <1>2, <1>3, <2>1, PendingFacts DEF PageHolds, TaskBatch, Queue
  <2>. QED  BY <1>0, <2>2, OwnedKept
<1>9. Receipts'
  BY <1>0, <1>3, PendingFacts, ReceiptsKept DEF Known, Queue
<1>. QED  BY <1>5, <1>6, <1>7, <1>8, <1>9 DEF PageInv

\* The destructor of the page.
LEMMA DestroyedPage ==
    ASSUME BatchInv, PageInv, DestroyPage
    PROVE  PageInv'
<1>0. /\ alive' = FALSE /\ m_batch' = None /\ m_confirmation' = None /\ m_probe' = None
      /\ m_ready_to_send' = FALSE /\ m_model' = None /\ m_form' = FALSE
      /\ shown' = IF gui = "committing" THEN shown ELSE None
      /\ detaching' = FALSE /\ receipt' = <<>> /\ sendtop2c' = sendtop2c
      /\ UNCHANGED batchVars /\ batch' = batch /\ gui' = gui /\ reply' = reply
  BY DEF DestroyPage, CancelProbe, batchVars
<1>b. shown' \in Masks \cup {None} /\ receipt' \in Seq(Transactions)
  <2>1. shown \in Masks \cup {None} /\ <<>> \in Seq(Transactions)
    BY SMT DEF PageInv, PageTypes
  <2>. QED  BY <1>0, <2>1
<1>a. Waiting' = Waiting
  BY <1>0 DEF Waiting
<1>1. CASE m_batch = None
  <2>1. tasks' = tasks
    BY <1>1 DEF DestroyPage, QueueRelease
  <2>2. PageTypes'
    BY <1>0, <1>b, <2>1 DEF PageInv, PageTypes
  <2>3. PagePhases'
    BY <1>0, <1>1, <1>a, <2>1 DEF PageInv, PagePhases
  <2>4. Stages'
    <3>1. tasks # <<>> /\ tasks[1].op = "commit" => gui = "committing"
      BY DEF PageInv, PagePhases, Waiting, Serves
    <3>. QED  BY <1>0, <2>1, <3>1 DEF PageInv, Stages
  <2>5. Owned'
    BY <1>0, <1>1, <2>1 DEF PageInv, Owned, PageHolds, TaskBatch
  <2>6. Receipts'
    BY <1>0, <2>1, ReceiptsKept DEF Known
  <2>. QED  BY <2>2, <2>3, <2>4, <2>5, <2>6 DEF PageInv
<1>2. CASE m_batch # None
  <2>1. /\ m_batch \in Addresses /\ batch[m_batch] # None /\ tasks = <<>> /\ reply = Pending
        /\ gui = "idle"
    BY <1>2, Held
  <2>2. Queue(tasks', "cleanup", m_batch, <<>>)
    <3>1. "cleanup" \in Ops /\ m_batch \in Addresses \cup {None}
      BY <2>1 DEF Ops
    <3>. QED  BY <1>2, <2>1, <3>1, Submitted DEF DestroyPage, QueueRelease
  <2>4. PageTypes'
    BY <1>0, <1>b, <2>2 DEF PageInv, PageTypes, Queue
  <2>5. PagePhases'
    <3>1. ~Waiting'
      BY <1>0, <2>1 DEF Waiting
    <3>. QED  BY <1>0, <2>1, <2>2, <3>1, PendingFacts DEF PagePhases, Queue
  <2>6. Stages'
    <3>1. tasks'[1].op \notin {"prepare", "alternative", "commit"}
      BY <2>2 DEF Queue
    <3>. QED  BY <1>0, <1>2, <2>1, <2>2, <3>1, PendingFacts DEF Stages, Queue
  <2>7. Owned'
    <3>1. \A b \in Addresses : b # None
      BY BatchAssumption
    <3>2. \A b \in Addresses : PageHolds(b)' <=> PageHolds(b)
      BY <1>0, <2>1, <2>2, <3>1, PendingFacts DEF PageHolds, TaskBatch, Queue
    <3>. QED  BY <1>0, <3>2, OwnedKept
  <2>8. Receipts'
    BY <1>0, <2>2, ReceiptsKept DEF Known, Queue
  <2>. QED  BY <2>4, <2>5, <2>6, <2>7, <2>8 DEF PageInv
<1>. QED  BY <1>1, <1>2

\* The worker's answer to prepare: nothing, a batch to release, or one to show.
LEMMA PreparedPage ==
    ASSUME BatchInv, PageInv, opened + 1 # None, PrepareReturns
    PROVE  PageInv'
<1>0. /\ gui = "preparing" /\ reply.done /\ UNCHANGED batchVars /\ batch' = batch /\ sendtop2c' = sendtop2c
  BY DEF PrepareReturns, batchVars
<1>1. /\ Waiting /\ m_batch = None /\ tasks = <<>>
      /\ m_confirmation = None /\ m_probe = None
  <2>1. Waiting
    BY <1>0 DEF Waiting
  <2>. QED  BY <1>0, <2>1 DEF PageInv, PagePhases
<1>2. /\ reply.batch \in Addresses \cup {None}
      /\ reply.batch # None => reply.batch \in Addresses /\ batch[reply.batch] # None /\ Both(batch[reply.batch])
  <2>1. reply \in Replies
    BY DEF PageInv, PageTypes
  <2>2. reply.batch \in Addresses \cup {None}
    BY <2>1 DEF Replies
  <2>. QED  BY <2>2, Held DEF PageInv, Stages
<1>b. \A b \in Addresses : b # None
  BY BatchAssumption
<1>3. ASSUME reply.batch = None, gui' = "idle", reply' = Pending,
             UNCHANGED <<probeVars, tasks, alive, m_model, m_batch, m_confirmation, m_probe,
                         m_ready_to_send, m_form, detaching, shown, receipt, opened, timers>>
      PROVE  PageInv'
  <2>0. /\ tasks' = tasks /\ alive' = alive /\ m_model' = m_model /\ m_batch' = m_batch
        /\ m_confirmation' = m_confirmation /\ m_probe' = m_probe /\ m_ready_to_send' = m_ready_to_send
        /\ m_form' = m_form /\ detaching' = detaching /\ shown' = shown /\ receipt' = receipt
    BY <1>3
  <2>1. PageTypes'
    BY <1>0, <1>3, <2>0, PendingFacts DEF PageInv, PageTypes
  <2>2. PagePhases'
    <3>1. ~Waiting'
      BY <1>3 DEF Waiting
    <3>. QED  BY <1>1, <1>3, <2>0, <3>1, PendingFacts DEF PagePhases
  <2>3. Stages'
    BY <1>1, <1>3, <2>0, PendingFacts DEF Stages
  <2>4. Owned'
    <3>1. \A b \in Addresses : PageHolds(b)' <=> PageHolds(b)
      BY <1>b, <1>1, <1>3, <2>0, PendingFacts DEF PageHolds, TaskBatch
    <3>. QED  BY <1>0, <3>1, OwnedKept
  <2>5. Receipts'
    BY <1>0, <1>1, <1>3, <2>0, PendingFacts, ReceiptsKept DEF Known
  <2>. QED  BY <2>1, <2>2, <2>3, <2>4, <2>5 DEF PageInv
<1>4. ASSUME reply.batch # None, Waits("release", reply.batch, "releasing"),
             UNCHANGED <<probeVars, alive, m_model, m_batch, m_confirmation, m_probe,
                         m_ready_to_send, m_form, detaching, shown, receipt, opened, timers>>
      PROVE  PageInv'
  <2>0. /\ alive' = alive /\ m_model' = m_model /\ m_batch' = m_batch /\ m_confirmation' = m_confirmation
        /\ m_probe' = m_probe /\ m_ready_to_send' = m_ready_to_send /\ m_form' = m_form
        /\ detaching' = detaching /\ shown' = shown /\ receipt' = receipt
        /\ reply' = Pending /\ gui' = "releasing"
    BY <1>4 DEF Waits
  <2>1. Queue(tasks', "release", reply.batch, <<>>)
    <3>1. "release" \in Ops
      BY DEF Ops
    <3>. QED  BY <1>1, <1>2, <1>4, <3>1, Submitted DEF Waits
  <2>2. PageTypes'
    BY <1>0, <2>0, <2>1, PendingFacts DEF PageInv, PageTypes, Queue
  <2>3. PagePhases'
    <3>1. Waiting' /\ Serves("release", "releasing")
      BY <2>0 DEF Waiting, Serves
    <3>. QED  BY <1>1, <2>0, <2>1, <3>1, PendingFacts DEF PagePhases, Queue
  <2>4. Stages'
    <3>1. tasks'[1].op \notin {"prepare", "alternative", "commit"}
      BY <2>1 DEF Queue
    <3>. QED  BY <1>1, <1>4, <2>0, <2>1, <3>1, PendingFacts DEF Stages, Queue
  <2>5. Owned'
    <3>1. \A b \in Addresses : PageHolds(b)' <=> PageHolds(b)
      BY <1>b, <1>1, <2>0, <2>1, PendingFacts DEF PageHolds, TaskBatch, Queue
    <3>. QED  BY <1>0, <3>1, OwnedKept
  <2>6. Receipts'
    BY <1>0, <2>0, <2>1, PendingFacts, ReceiptsKept DEF Known, Queue
  <2>. QED  BY <2>2, <2>3, <2>4, <2>5, <2>6 DEF PageInv
<1>5. ASSUME reply.batch # None, alive, m_model = Wallet, Open(reply.batch)
      PROVE  PageInv'
  <2>0. /\ m_batch' = reply.batch /\ m_confirmation' = opened + 1 /\ m_probe' = opened + 1
        /\ m_ready_to_send' = FALSE /\ m_form' = FALSE /\ shown' = None
        /\ gui' = "idle" /\ reply' = Pending
        /\ tasks' = tasks /\ alive' = alive /\ m_model' = m_model /\ detaching' = detaching /\ receipt' = receipt
    BY <1>5 DEF Open
  <2>1. opened + 1 # None
    OBVIOUS
  <2>2. PageTypes'
    BY <1>0, <1>2, <2>0, PendingFacts DEF PageInv, PageTypes
  <2>3. PagePhases'
    <3>1. ~Waiting'
      BY <2>0 DEF Waiting
    <3>. QED  BY <1>1, <1>5, <2>0, <2>1, <3>1, PendingFacts DEF PagePhases
  <2>4. Stages'
    BY <1>0, <1>1, <1>2, <1>5, <2>0, PendingFacts DEF Stages
  <2>5. Owned'
    <3>1. \A b \in Addresses : PageHolds(b)' <=> PageHolds(b)
      BY <1>b, <1>1, <2>0, PendingFacts DEF PageHolds, TaskBatch
    <3>. QED  BY <1>0, <3>1, OwnedKept
  <2>6. Receipts'
    BY <1>0, <1>1, <2>0, PendingFacts, ReceiptsKept DEF Known
  <2>. QED  BY <2>2, <2>3, <2>4, <2>5, <2>6 DEF PageInv
<1>. QED  BY <1>3, <1>4, <1>5 DEF PrepareReturns

\* freezeSignatureAlgorithms.
LEMMA FrozenPage ==
    ASSUME BatchInv, PageInv, NEW p \in Probes, TimerFires(p), Freeze(p), [BatchNext]_batchVars
    PROVE  PageInv'
<1> DEFINE mask == MaskFor(p)
<1>0. /\ workVars' = workVars /\ sendtop2c' = sendtop2c /\ alive' = alive /\ m_model' = m_model
      /\ m_batch' = m_batch /\ m_confirmation' = m_confirmation /\ m_form' = m_form /\ gui' = gui
      /\ detaching' = detaching /\ receipt' = receipt
      /\ m_probe = p /\ m_batch # None /\ SelectMask(m_batch, mask) /\ shown' = mask
      /\ m_ready_to_send' = TRUE /\ m_probe' = None
  BY DEF TimerFires, Freeze, FreezeApplies, CancelProbe
<1>1. tasks' = tasks /\ reply' = reply
  BY <1>0 DEF workVars
<1>2. mask \in Masks
  BY DEF MaskFor, Masks
<1>3. /\ m_batch \in Addresses /\ batch[m_batch] # None /\ tasks = <<>> /\ reply = Pending
      /\ alive /\ gui = "idle" /\ m_model = Wallet
  BY <1>0, Held
<1>4. Both(batch[m_batch])
  <2>1. None \notin Probes
    BY CreationAssumption
  <2>2. ~m_ready_to_send
    BY <1>0, <2>1 DEF PageInv, PagePhases
  <2>. QED  BY <1>0, <2>2 DEF PageInv, Stages
<1> HIDE DEF mask
<1>5. /\ batch'[m_batch] # None /\ Frozen(batch'[m_batch], mask)
      /\ \A a \in Addresses : a # m_batch => batch'[a] = batch[a]
  BY <1>0, <1>2, <1>3, <1>4, SelectMakes
<1>6. PageTypes'
  BY <1>0, <1>1, <1>2 DEF PageInv, PageTypes
<1>7. PagePhases'
  <2>1. ~Waiting'
    BY <1>0, <1>3 DEF Waiting
  <2>. QED  BY <1>0, <1>1, <1>3, <2>1, PendingFacts DEF PageInv, PagePhases
<1>8. Stages'
  BY <1>0, <1>1, <1>3, <1>5, PendingFacts DEF Stages
<1>9. Owned'
  <2>1. \A b \in Addresses : PageHolds(b)' <=> PageHolds(b)
    BY <1>0, <1>1 DEF PageHolds, TaskBatch
  <2>2. \A b \in Addresses : batch'[b] # None <=> batch[b] # None
    BY <1>3, <1>5
  <2>. QED  BY <1>0, <2>1, <2>2, OwnedKept
<1>10. Receipts'
  BY <1>0, <1>1, <1>3, PendingFacts, ReceiptsKept DEF Known
<1>. QED  BY <1>6, <1>7, <1>8, <1>9, <1>10 DEF PageInv

\* The answers to a release and to a commit.
LEMMA AnsweredPage ==
    ASSUME BatchInv, PageInv, Released \/ CommitReturns
    PROVE  PageInv'
<1>0. /\ gui \in {"releasing", "committing"} /\ reply.done /\ gui' = "idle" /\ reply' = Pending /\ shown' = None
      /\ UNCHANGED batchVars /\ batch' = batch /\ tasks' = tasks /\ sendtop2c' = sendtop2c /\ alive' = alive
      /\ m_batch' = m_batch /\ m_confirmation' = m_confirmation /\ m_probe' = m_probe
      /\ m_ready_to_send' = m_ready_to_send
  BY DEF Released, CommitReturns, batchVars
<1>1. /\ detaching' \in BOOLEAN /\ m_model' \in {Wallet, None} /\ m_form' \in BOOLEAN
      /\ receipt' = receipt \/ receipt' = reply.submitted
  <2>1. CASE Released
    BY <2>1 DEF Released, PageInv, PageTypes
  <2>2. CASE CommitReturns
    BY <2>2 DEF CommitReturns, PageInv, PageTypes
  <2>. QED  BY <2>1, <2>2
<1>2. m_batch = None /\ tasks = <<>> /\ m_confirmation = None /\ m_probe = None /\ reply.batch = None
  <2>1. Waiting /\ gui # "preparing"
    BY <1>0 DEF Waiting
  <2>. QED  BY <1>0, <2>1 DEF PageInv, PagePhases
<1>3. Receipts' /\ receipt' \in Seq(Transactions)
  BY <1>0, <1>1, <1>2, PendingFacts, ReceiptsKept DEF Known
<1>4. PageTypes'
  BY <1>0, <1>1, <1>3, PendingFacts DEF PageInv, PageTypes
<1>5. PagePhases'
  <2>1. ~Waiting'
    BY <1>0 DEF Waiting
  <2>. QED  BY <1>0, <1>2, <2>1, PendingFacts DEF PagePhases
<1>6. Stages'
  BY <1>0, <1>2, PendingFacts DEF Stages
<1>7. Owned'
  <2>1. \A b \in Addresses : b # None
    BY BatchAssumption
  <2>2. \A b \in Addresses : PageHolds(b)' <=> PageHolds(b)
    BY <1>0, <1>2, <2>1, PendingFacts DEF PageHolds, TaskBatch
  <2>. QED  BY <1>0, <2>2, OwnedKept
<1>. QED  BY <1>3, <1>4, <1>5, <1>6, <1>7 DEF PageInv

-----------------------------------------------------------------------------
(* The worker, in every step                                               *)

\* The page's batch is old before a step and new after it.
LEMMA OwnedMoved ==
    ASSUME PageInv, UNCHANGED sendtop2c, NEW old, NEW new,
           \A a \in Addresses : PageHolds(a) <=> a = old,
           \A a \in Addresses : PageHolds(a)' <=> a = new,
           \A a \in Addresses : a # old /\ a # new => batch'[a] = batch[a],
           new \in Addresses => batch'[new] # None,
           old \in Addresses /\ old # new => batch'[old] = None,
           new \in Addresses /\ old # new => batch[new] = None
    PROVE  Owned'
<1>1. /\ \A b \in Addresses : batch[b] # None <=> PageHolds(b) \/ b = sendtop2c
      /\ sendtop2c # None => ~PageHolds(sendtop2c)
      /\ sendtop2c \in Addresses \cup {None} /\ \A b \in Addresses : b # None
  BY BatchAssumption DEF PageInv, PageTypes, Owned
<1>2. sendtop2c # None => sendtop2c \in Addresses /\ sendtop2c # old /\ sendtop2c # new
  BY <1>1
<1>3. ASSUME NEW a \in Addresses PROVE batch'[a] # None <=> a = new \/ a = sendtop2c
  <2>1. CASE a = new
    BY <2>1
  <2>2. CASE a # new /\ a = old
    BY <1>1, <1>2, <2>2
  <2>3. CASE a # new /\ a # old
    BY <1>1, <2>3
  <2>. QED  BY <2>1, <2>2, <2>3
<1>4. \A b \in Addresses : batch'[b] # None <=> PageHolds(b)' \/ b = sendtop2c'
  BY <1>3
<1>5. sendtop2c' # None => ~PageHolds(sendtop2c)'
  <2> SUFFICES ASSUME sendtop2c' # None PROVE ~PageHolds(sendtop2c)'
    OBVIOUS
  <2>1. sendtop2c \in Addresses /\ sendtop2c # new
    BY <1>2
  <2>2. ~(sendtop2c = m_batch' \/ sendtop2c = reply'.batch \/ sendtop2c = TaskBatch')
    BY <2>1 DEF PageHolds
  <2>. QED  BY <2>2 DEF PageHolds
<1>. QED  BY <1>4, <1>5 DEF Owned

\* What the worker finds.
LEMMA Working ==
    ASSUME BatchInv, PageInv, tasks # <<>>
    PROVE  /\ Head(tasks) = tasks[1] /\ Tail(tasks) = <<>> /\ tasks[1] \in Tasks
           /\ m_batch = None /\ reply = Pending /\ m_confirmation = None /\ m_probe = None
           /\ \A a \in Addresses : PageHolds(a) <=> a = tasks[1].batch
           /\ tasks[1].op = "cleanup" <=> ~Waiting
           /\ tasks[1].op = "cleanup" => ~alive
           /\ Waiting => Serves(tasks[1].op, gui)
           /\ tasks[1].submitted \in Seq(Transactions)
<1>1. /\ tasks[1] \in Tasks /\ reply = Pending /\ m_batch = None
      /\ tasks[1].op = "cleanup" <=> ~Waiting
      /\ Waiting => Serves(tasks[1].op, gui)
  BY Held
<1>2. Head(tasks) = tasks[1] /\ Tail(tasks) = <<>>
  BY TaskCases DEF PageInv
<1>3. m_confirmation = None /\ m_probe = None /\ (~Waiting => ~alive)
  BY <1>1 DEF PageInv, PagePhases
<1>4. \A a \in Addresses : PageHolds(a) <=> a = tasks[1].batch
  <2>1. \A a \in Addresses : a # None
    BY BatchAssumption
  <2>. QED  BY <1>1, <2>1, PendingFacts DEF PageHolds, TaskBatch
<1>5. tasks[1].submitted \in Seq(Transactions)
  BY <1>1 DEF Tasks
<1>. QED  BY <1>1, <1>2, <1>3, <1>4, <1>5

\* The task returns r, on behalf of the call the GUI waits in.
LEMMA ReturnedPage ==
    ASSUME BatchInv, PageInv, [BatchNext]_batchVars, tasks # <<>>, tasks[1].op # "cleanup",
           UNCHANGED pageVars, UNCHANGED sendtop2c,
           NEW r \in Addresses \cup {None}, NEW s, Known(s), Return(r, s),
           r # None => gui = "preparing" /\ batch'[r] # None /\ Both(batch'[r]),
           \A a \in Addresses : a # tasks[1].batch /\ a # r => batch'[a] = batch[a],
           tasks[1].batch \in Addresses /\ tasks[1].batch # r => batch'[tasks[1].batch] = None,
           r \in Addresses /\ tasks[1].batch # r => batch[r] = None
    PROVE  PageInv'
<1>0. /\ alive' = alive /\ m_model' = m_model /\ m_batch' = m_batch /\ m_confirmation' = m_confirmation
      /\ m_probe' = m_probe /\ m_ready_to_send' = m_ready_to_send /\ m_form' = m_form /\ gui' = gui
      /\ detaching' = detaching /\ shown' = shown /\ receipt' = receipt /\ sendtop2c' = sendtop2c
  BY DEF pageVars
<1>1. /\ m_batch = None /\ m_confirmation = None /\ m_probe = None /\ Waiting
      /\ \A a \in Addresses : PageHolds(a) <=> a = tasks[1].batch
      /\ Tail(tasks) = <<>>
  BY Working
<1>2. s \in Seq(Transactions)
  BY KnownKept
<1>3. /\ tasks' = <<>> /\ reply' \in Replies
      /\ reply'.done = TRUE /\ reply'.batch = r /\ reply'.submitted = s
  <2>1. tasks' = <<>> /\ reply' = [done |-> TRUE, batch |-> r, submitted |-> s]
    BY <1>1 DEF Return
  <2>. QED  BY <1>2, <2>1 DEF Replies
<1>4. PageTypes'
  <2>1. <<>> \in Seq(Tasks) /\ Len(<<>>) = 0
    BY SMT
  <2>. QED  BY <1>0, <1>3, <2>1, SMT DEF PageInv, PageTypes
<1>5. PagePhases'
  <2>1. Waiting'
    BY <1>0, <1>1 DEF Waiting
  <2>. QED  BY <1>0, <1>1, <1>3, <2>1 DEF PagePhases
<1>6. Stages'
  BY <1>0, <1>1, <1>3 DEF Stages
<1>7. Owned'
  <2>1. \A a \in Addresses : a # None
    BY BatchAssumption
  <2>2. \A a \in Addresses : PageHolds(a)' <=> a = r
    BY <1>0, <1>1, <1>3, <2>1 DEF PageHolds, TaskBatch
  <2>3. r \in Addresses => batch'[r] # None
    BY <2>1
  <2>4. /\ PageInv /\ UNCHANGED sendtop2c
        /\ \A a \in Addresses : PageHolds(a) <=> a = tasks[1].batch
        /\ \A a \in Addresses : a # tasks[1].batch /\ a # r => batch'[a] = batch[a]
        /\ tasks[1].batch \in Addresses /\ tasks[1].batch # r => batch'[tasks[1].batch] = None
        /\ r \in Addresses /\ tasks[1].batch # r => batch[r] = None
    BY <1>1
  <2>. QED  BY ONLY <2>2, <2>3, <2>4, OwnedMoved, SMT
<1>8. Receipts'
  BY <1>0, <1>3, ReceiptsKept DEF Known
<1>. QED  BY <1>4, <1>5, <1>6, <1>7, <1>8 DEF PageInv

\* The task goes on to its next step.
LEMMA BecamePage ==
    ASSUME BatchInv, PageInv, [BatchNext]_batchVars, tasks # <<>>,
           UNCHANGED pageVars, UNCHANGED sendtop2c,
           NEW op \in {"alternative", "reset"}, NEW b \in Addresses, NEW s \in Seq(Transactions),
           Become(op, b, s), Serves(op, gui), tasks[1].op # "cleanup",
           Known(s) \/ InWalletNext(s),
           batch'[b] # None, op = "alternative" => Bare(batch'[b]),
           \A a \in Addresses : a # tasks[1].batch /\ a # b => batch'[a] = batch[a],
           tasks[1].batch \in Addresses => tasks[1].batch = b,
           tasks[1].batch # b => batch[b] = None
    PROVE  PageInv'
<1>0. /\ alive' = alive /\ m_model' = m_model /\ m_batch' = m_batch /\ m_confirmation' = m_confirmation
      /\ m_probe' = m_probe /\ m_ready_to_send' = m_ready_to_send /\ m_form' = m_form /\ gui' = gui
      /\ detaching' = detaching /\ shown' = shown /\ receipt' = receipt /\ sendtop2c' = sendtop2c
  BY DEF pageVars
<1>1. /\ m_batch = None /\ m_confirmation = None /\ m_probe = None /\ Waiting /\ reply = Pending
      /\ \A a \in Addresses : PageHolds(a) <=> a = tasks[1].batch
  BY Working
<1>2. Queue(tasks', op, b, s) /\ reply' = reply
  <2>1. op \in Ops /\ b \in Addresses \cup {None}
    BY DEF Ops
  <2>2. PageTypes
    BY DEF PageInv
  <2>. QED  BY <2>1, <2>2, Became
<1>b. \A a \in Addresses : a # None
  BY BatchAssumption
<1>4. PageTypes'
  BY <1>0, <1>2, SMT DEF PageInv, PageTypes, Queue
<1>5. PagePhases'
  <2>1. Waiting'
    BY <1>0, <1>1 DEF Waiting
  <2>. QED  BY <1>0, <1>1, <1>2, <2>1, PendingFacts DEF PagePhases, Queue
<1>6. Stages'
  <2>1. op # "prepare" /\ op # "commit"
    OBVIOUS
  <2>. QED  BY <1>0, <1>1, <1>2, <1>b, <2>1, PendingFacts DEF Stages, Queue
<1>7. Owned'
  <2>2. \A a \in Addresses : PageHolds(a)' <=> a = b
    BY <1>0, <1>1, <1>2, <1>b, PendingFacts DEF PageHolds, TaskBatch, Queue
  <2>3. /\ \A a \in Addresses : PageHolds(a) <=> a = tasks[1].batch
        /\ b \in Addresses => batch'[b] # None
        /\ tasks[1].batch \in Addresses /\ tasks[1].batch # b => batch'[tasks[1].batch] = None
        /\ b \in Addresses /\ tasks[1].batch # b => batch[b] = None
        /\ \A a \in Addresses : a # tasks[1].batch /\ a # b => batch'[a] = batch[a]
    BY <1>1
  <2>4. PageInv /\ UNCHANGED sendtop2c
    OBVIOUS
  <2>. QED  BY ONLY <2>2, <2>3, <2>4, OwnedMoved, SMT
<1>8. Receipts'
  BY <1>0, <1>1, <1>2, ReceiptsKept DEF Known, Queue
<1>. QED  BY <1>4, <1>5, <1>6, <1>7, <1>8 DEF PageInv

\* The release that the destructor queued ends.
LEMMA CleanedPage ==
    ASSUME BatchInv, PageInv, [BatchNext]_batchVars, tasks # <<>>, tasks[1].op = "cleanup",
           UNCHANGED pageVars, UNCHANGED sendtop2c, tasks' = <<>>, UNCHANGED reply,
           tasks[1].batch \in Addresses, batch'[tasks[1].batch] = None,
           \A a \in Addresses : a # tasks[1].batch => batch'[a] = batch[a]
    PROVE  PageInv'
<1>0. /\ alive' = alive /\ m_model' = m_model /\ m_batch' = m_batch /\ m_confirmation' = m_confirmation
      /\ m_probe' = m_probe /\ m_ready_to_send' = m_ready_to_send /\ m_form' = m_form /\ gui' = gui
      /\ detaching' = detaching /\ shown' = shown /\ receipt' = receipt /\ sendtop2c' = sendtop2c
      /\ reply' = reply
  BY DEF pageVars
<1>1. /\ m_batch = None /\ m_confirmation = None /\ m_probe = None /\ ~Waiting /\ reply = Pending
      /\ \A a \in Addresses : PageHolds(a) <=> a = tasks[1].batch
  BY Working
<1>b. \A a \in Addresses : a # None
  BY BatchAssumption
<1>4. PageTypes'
  <2>1. <<>> \in Seq(Tasks) /\ Len(<<>>) = 0
    BY SMT
  <2>. QED  BY <1>0, <2>1, SMT DEF PageInv, PageTypes
<1>5. PagePhases'
  <2>1. ~Waiting'
    BY <1>0, <1>1 DEF Waiting
  <2>. QED  BY <1>0, <1>1, <2>1, PendingFacts DEF PagePhases
<1>6. Stages'
  BY <1>0, <1>1, PendingFacts DEF Stages
<1>7. Owned'
  <2>0. PICK new : new = None
    OBVIOUS
  <2>1. \A a \in Addresses : PageHolds(a)' <=> a = new
    BY <1>0, <1>1, <1>b, <2>0, PendingFacts DEF PageHolds, TaskBatch
  <2>2. /\ PageInv /\ UNCHANGED sendtop2c
        /\ \A a \in Addresses : PageHolds(a) <=> a = tasks[1].batch
        /\ \A a \in Addresses : a # tasks[1].batch /\ a # new => batch'[a] = batch[a]
        /\ new \in Addresses => batch'[new] # None
        /\ tasks[1].batch \in Addresses /\ tasks[1].batch # new => batch'[tasks[1].batch] = None
        /\ new \in Addresses /\ tasks[1].batch # new => batch[new] = None
    BY <1>b, <1>1, <2>0
  <2>. QED  BY ONLY <2>1, <2>2, OwnedMoved, SMT
<1>8. Receipts'
  BY <1>0, ReceiptsKept DEF Known
<1>. QED  BY <1>4, <1>5, <1>6, <1>7, <1>8 DEF PageInv

LEMMA WorkPage ==
    ASSUME BatchInv, CountsInv, PageInv, [BatchNext]_batchVars, WorkerStep
    PROVE  PageInv'
<1>0. tasks # <<>> /\ UNCHANGED pageVars /\ UNCHANGED sendtop2c
  BY DEF WorkerStep, WorkPrepare, WorkAlternative, WorkCommit, WorkReset, AtHead
<1>1. /\ Head(tasks) = tasks[1] /\ Tail(tasks) = <<>> /\ tasks[1] \in Tasks
      /\ tasks[1].op = "cleanup" <=> ~Waiting
      /\ Waiting => Serves(tasks[1].op, gui)
      /\ tasks[1].submitted \in Seq(Transactions)
  BY <1>0, Working
<1>2. /\ tasks[1].op # "prepare" => tasks[1].batch \in Addresses /\ batch[tasks[1].batch] # None
      /\ tasks[1].op = "prepare" => tasks[1].batch = None
  BY <1>0, Held
<1>b. None \notin Addresses /\ \A a \in Addresses : a # None
  BY BatchAssumption
<1>k. Known(<<>>) /\ Known(tasks[1].submitted) /\ <<>> \in Seq(Transactions)
  BY <1>0, SMT DEF Known
<1>3. CASE WorkPrepare
  <2>1. tasks[1].op = "prepare" /\ tasks[1].op # "cleanup" /\ tasks[1].batch = None
    BY <1>1, <1>2, <1>3 DEF WorkPrepare, AtHead
  <2>2. CASE CanAllocate /\ Prepare(Allocated, Coins) /\ Become("alternative", Allocated, <<>>)
    <3>1. Allocated \in Addresses /\ batch[Allocated] = None
      BY <2>2, AllocatedFree
    <3>2. /\ batch'[Allocated] # None /\ Bare(batch'[Allocated])
          /\ \A a \in Addresses : a # Allocated => batch'[a] = batch[a]
      <4>1. Coins \in SUBSET Coins
        OBVIOUS
      <4>. QED  BY <2>2, <3>1, <4>1, PrepareMakes
    <3>3. Serves("alternative", gui) /\ "alternative" \in {"alternative", "reset"}
      BY <1>1, <2>1 DEF Serves
    <3>. QED  BY <1>0, <1>b, <1>k, <2>1, <2>2, <3>1, <3>2, <3>3, BecamePage
  <2>3. CASE Return(None, <<>>) /\ UNCHANGED batchVars
    <3>1. batch' = batch
      BY <2>3 DEF batchVars
    <3>2. None \in Addresses \cup {None}
      OBVIOUS
    <3>. QED  BY <1>0, <1>b, <1>k, <2>1, <2>3, <3>1, <3>2, ReturnedPage
  <2>. QED  BY <1>3, <2>2, <2>3 DEF WorkPrepare
<1>4. CASE WorkAlternative
  <2> DEFINE b == tasks[1].batch
  <2>1. tasks[1].op = "alternative" /\ tasks[1].op # "cleanup"
    BY <1>1, <1>4 DEF WorkAlternative, AtHead
  <2>2. b \in Addresses /\ batch[b] # None /\ Bare(batch[b]) /\ gui = "preparing"
    <3>1. b \in Addresses /\ batch[b] # None
      BY <1>2, <2>1
    <3>2. gui = "preparing"
      BY <1>1, <2>1 DEF Serves
    <3>3. Bare(batch[b])
      BY <1>0, <2>1 DEF PageInv, Stages
    <3>. QED  BY <3>1, <3>2, <3>3
  <2>3. CASE PrepareAlternative(b) /\ Return(b, <<>>)
    <3>1. batch'[b] # None /\ Both(batch'[b]) /\ \A a \in Addresses : a # b => batch'[a] = batch[a]
      BY <2>2, <2>3, AlternativeMakes
    <3>2. b \in Addresses \cup {None}
      BY <2>2
    <3>. QED  BY <1>0, <1>b, <1>k, <2>1, <2>2, <2>3, <3>1, <3>2, ReturnedPage
  <2>4. CASE Destroy(b) /\ Return(None, <<>>)
    <3>1. batch'[b] = None /\ \A a \in Addresses : a # b => batch'[a] = batch[a]
      BY <2>2, <2>4, DestroyMakes DEF Destroy
    <3>2. None \in Addresses \cup {None}
      OBVIOUS
    <3>. QED  BY <1>0, <1>b, <1>k, <2>1, <2>2, <2>4, <3>1, <3>2, ReturnedPage
  <2>. QED  BY <1>1, <1>4, <2>3, <2>4 DEF WorkAlternative, AlternativeFails
<1>5. CASE WorkCommit
  <2> DEFINE b == tasks[1].batch
  <2>1. tasks[1].op = "commit" /\ tasks[1].op # "cleanup"
    BY <1>1, <1>5 DEF WorkCommit, AtHead
  <2>2. b \in Addresses /\ batch[b] # None /\ Masked(batch[b].m_transactions, shown)
    <3>1. b \in Addresses /\ batch[b] # None
      BY <1>2, <2>1
    <3>2. Frozen(batch[b], shown)
      BY <1>0, <2>1 DEF PageInv, Stages
    <3>. QED  BY <3>1, <3>2 DEF Frozen
  <2>3. Serves("reset", gui) /\ "reset" \in {"alternative", "reset"} /\ "reset" # "alternative"
    BY <1>1, <2>1 DEF Serves
  <2>4. ASSUME NEW count \in 0..Len(batch[b].m_transactions), Commit(b, count),
               Become("reset", b, Listed(batch'[b]))
        PROVE  PageInv'
    <3>1. /\ batch'[b] # None /\ \A a \in Addresses : a # b => batch'[a] = batch[a]
          /\ Listed(batch'[b]) \in Seq(Transactions) /\ InWalletNext(Listed(batch'[b]))
      BY <2>2, <2>4, CommitMakes DEF InWalletNext
    <3>. QED  BY <1>0, <1>b, <2>1, <2>2, <2>3, <2>4, <3>1, BecamePage
  <2>5. CASE CommitRefused(b) /\ Become("reset", b, <<>>)
    <3>1. batch' = batch
      BY <2>5 DEF CommitRefused, batchVars
    <3>. QED  BY <1>0, <1>b, <1>k, <2>1, <2>2, <2>3, <2>5, <3>1, BecamePage
  <2>. QED  BY <1>1, <1>5, <2>4, <2>5 DEF WorkCommit
<1>6. CASE WorkReset
  <2> DEFINE b == tasks[1].batch
  <2>1. b \in Addresses /\ Destroy(b)
    <3>1. tasks[1].op # "prepare"
      BY <1>1, <1>6 DEF WorkReset
    <3>. QED  BY <1>1, <1>2, <1>6, <3>1 DEF WorkReset
  <2>2. batch'[b] = None /\ \A a \in Addresses : a # b => batch'[a] = batch[a]
    BY <2>1, DestroyMakes DEF Destroy
  <2>3. CASE tasks[1].op = "cleanup"
    <3>1. tasks' = <<>> /\ UNCHANGED reply
      BY <1>1, <1>6, <2>3 DEF WorkReset
    <3>. QED  BY <1>0, <2>1, <2>2, <2>3, <3>1, CleanedPage
  <2>4. CASE tasks[1].op # "cleanup"
    <3>1. Return(None, tasks[1].submitted) /\ None \in Addresses \cup {None}
      BY <1>1, <1>6, <2>4 DEF WorkReset
    <3>. QED  BY <1>0, <1>b, <1>k, <2>1, <2>2, <2>4, <3>1, ReturnedPage
  <2>. QED  BY <2>3, <2>4
<1>. QED  BY <1>3, <1>4, <1>5, <1>6 DEF WorkerStep

\* sendtop2c takes or gives back a batch of its own.
LEMMA RpcPage ==
    ASSUME BatchInv, PageInv, [BatchNext]_batchVars, UNCHANGED pageVars, UNCHANGED workVars,
           NEW b \in Addresses, ~PageHolds(b),
           \A a \in Addresses : a # b => batch'[a] = batch[a],
           \/ sendtop2c = None /\ sendtop2c' = b /\ batch'[b] # None
           \/ sendtop2c = b /\ sendtop2c' = None /\ batch'[b] = None
    PROVE  PageInv'
<1>0. /\ alive' = alive /\ m_model' = m_model /\ m_batch' = m_batch /\ m_confirmation' = m_confirmation
      /\ m_probe' = m_probe /\ m_ready_to_send' = m_ready_to_send /\ m_form' = m_form /\ gui' = gui
      /\ detaching' = detaching /\ shown' = shown /\ receipt' = receipt
      /\ tasks' = tasks /\ reply' = reply
  BY DEF pageVars, workVars
<1>b. None \notin Addresses /\ \A a \in Addresses : a # None
  BY BatchAssumption
<1>1. /\ m_batch # b /\ reply.batch # b /\ (tasks # <<>> => tasks[1].batch # b)
      /\ \A a \in Addresses : PageHolds(a)' <=> PageHolds(a)
  BY <1>0 DEF PageHolds, TaskBatch
<1>2. /\ m_batch # None => m_batch \in Addresses
      /\ reply.batch # None => reply.batch \in Addresses
      /\ tasks # <<>> /\ tasks[1].op # "prepare" => tasks[1].batch \in Addresses
  BY Held
<1>4. PageTypes'
  <2>1. sendtop2c' \in Addresses \cup {None}
    OBVIOUS
  <2>. QED  BY <1>0, <2>1 DEF PageInv, PageTypes
<1>5. PagePhases'
  BY <1>0 DEF PageInv, PagePhases, Waiting
<1>6. Stages'
  <2>1. m_batch # None => batch'[m_batch] = batch[m_batch]
    BY <1>1, <1>2
  <2>2. reply.batch # None => batch'[reply.batch] = batch[reply.batch]
    BY <1>1, <1>2
  <2>3. tasks # <<>> /\ tasks[1].op \in {"alternative", "commit"} => batch'[tasks[1].batch] = batch[tasks[1].batch]
    BY <1>1, <1>2
  <2>. QED  BY <1>0, <2>1, <2>2, <2>3 DEF PageInv, Stages
<1>7. Owned'
  <2>1. \A a \in Addresses : batch[a] # None <=> PageHolds(a) \/ a = sendtop2c
    BY DEF PageInv, Owned
  <2>2. \A a \in Addresses : batch'[a] # None <=> PageHolds(a)' \/ a = sendtop2c'
    <3> SUFFICES ASSUME NEW a \in Addresses PROVE batch'[a] # None <=> PageHolds(a)' \/ a = sendtop2c'
      OBVIOUS
    <3>1. CASE a = b
      BY <1>1, <1>b, <3>1
    <3>2. CASE a # b
      BY <1>1, <1>b, <2>1, <3>2
    <3>. QED  BY <3>1, <3>2
  <2>3. sendtop2c' # None => ~PageHolds(sendtop2c)'
    <3> SUFFICES ASSUME sendtop2c' # None PROVE ~PageHolds(sendtop2c)'
      OBVIOUS
    <3>1. sendtop2c' = b
      OBVIOUS
    <3>. QED  BY <1>0, <1>1, <3>1 DEF PageHolds, TaskBatch
  <2>. QED  BY <2>2, <2>3 DEF Owned
<1>8. Receipts'
  BY <1>0, ReceiptsKept DEF Known
<1>. QED  BY <1>4, <1>5, <1>6, <1>7, <1>8 DEF PageInv

LEMMA PageInvNext ==
    ASSUME BatchInv, CountsInv, PageInv, gui = "preparing" => opened + 1 # None, Next
    PROVE  PageInv'
<1>0. [BatchNext]_batchVars
  BY StepIsBatch
<1>a. m_form \in BOOLEAN /\ m_model \in {Wallet, None}
  BY DEF PageInv, PageTypes
<1>1. ASSUME UNCHANGED batch, UNCHANGED pageVars, UNCHANGED workVars, UNCHANGED sendtop2c PROVE PageInv'
  <2>1. /\ alive' = alive /\ m_model' = m_model /\ m_batch' = m_batch /\ m_confirmation' = m_confirmation
        /\ m_probe' = m_probe /\ m_ready_to_send' = m_ready_to_send /\ m_form' = m_form /\ gui' = gui
        /\ detaching' = detaching /\ shown' = shown /\ receipt' = receipt
        /\ tasks' = tasks /\ reply' = reply
    BY <1>1 DEF pageVars, workVars
  <2>2. m_form' \in BOOLEAN /\ m_model' \in {Wallet, None}
    BY <1>a, <2>1
  <2>. QED  BY <1>0, <1>1, <2>1, <2>2, QuietPage
<1>2. CASE PrepareClicked
  <2>1. /\ alive' = alive /\ m_model' = m_model /\ m_batch' = m_batch /\ m_confirmation' = m_confirmation
        /\ m_probe' = m_probe /\ m_ready_to_send' = m_ready_to_send /\ m_form' = m_form
        /\ detaching' = detaching /\ shown' = shown /\ receipt' = receipt
        /\ tasks' = tasks /\ reply' = reply /\ sendtop2c' = sendtop2c /\ batch' = batch
        /\ gui = "idle" /\ gui' = "unlocking" /\ m_batch = None
    BY <1>2 DEF PrepareClicked, workVars, batchVars
  <2>2. m_form' \in BOOLEAN /\ m_model' \in {Wallet, None}
    BY <1>a, <2>1
  <2>3. ~Waiting /\ gui' \in {"idle", "unlocking"}
    BY <2>1 DEF Waiting
  <2>. QED  BY <1>0, <2>1, <2>2, <2>3, QuietPage
<1>3. ASSUME NEW p \in Probes, TimerFires(p) PROVE PageInv'
  <2>1. CASE Freeze(p)
    BY <1>0, <1>3, <2>1, FrozenPage
  <2>2. CASE ~FreezeApplies(p) /\ UNCHANGED <<batchVars, probeVars, shown, m_ready_to_send, m_probe>>
    <3>1. /\ alive' = alive /\ m_model' = m_model /\ m_batch' = m_batch /\ m_confirmation' = m_confirmation
          /\ m_probe' = m_probe /\ m_ready_to_send' = m_ready_to_send /\ m_form' = m_form /\ gui' = gui
          /\ detaching' = detaching /\ shown' = shown /\ receipt' = receipt
          /\ tasks' = tasks /\ reply' = reply /\ sendtop2c' = sendtop2c /\ batch' = batch
      BY <1>3, <2>2 DEF TimerFires, workVars, batchVars
    <3>2. m_form' \in BOOLEAN /\ m_model' \in {Wallet, None}
      BY <1>a, <3>1
    <3>. QED  BY <1>0, <3>1, <3>2, QuietPage
  <2>. QED  BY <1>3, <2>1, <2>2 DEF TimerFires
<1>4. CASE Answer
  <2>1. PICK yes \in BOOLEAN : (yes => m_ready_to_send) /\ Finish(yes)
    BY <1>4 DEF Answer
  <2>2. m_confirmation # None /\ detaching' \in BOOLEAN
    BY <1>4 DEF Answer, PageInv, PageTypes
  <2>. QED  BY <2>1, <2>2, FinishPage
<1>5. CASE Detach
  <2>1. CASE m_confirmation # None /\ Finish(FALSE) /\ detaching' = TRUE
    BY <2>1, FinishPage
  <2>2. ASSUME m_confirmation = None, m_model' = None, m_form' = FALSE,
               UNCHANGED <<batchVars, probeVars, workVars, sendtop2c, alive, m_batch, m_confirmation, m_probe,
                           m_ready_to_send, gui, detaching, shown, receipt, opened, timers>>
        PROVE  PageInv'
    <3>1. /\ alive' = alive /\ m_batch' = m_batch /\ m_confirmation' = m_confirmation
          /\ m_probe' = m_probe /\ m_ready_to_send' = m_ready_to_send /\ gui' = gui
          /\ detaching' = detaching /\ shown' = shown /\ receipt' = receipt
          /\ tasks' = tasks /\ reply' = reply /\ sendtop2c' = sendtop2c /\ batch' = batch
      BY <2>2 DEF workVars, batchVars
    <3>2. m_batch = None
      BY <2>2 DEF PageInv, PagePhases
    <3>3. m_form' \in BOOLEAN /\ m_model' \in {Wallet, None}
      BY <2>2
    <3>. QED  BY <1>0, <3>1, <3>2, <3>3, QuietPage
  <2>. QED  BY <1>5, <2>1, <2>2 DEF Detach
<1>6. CASE RpcPrepare
  <2>1. Allocated \in Addresses /\ batch[Allocated] = None /\ Contested \in SUBSET Coins
    BY <1>6, AllocatedFree, BatchAssumption DEF RpcPrepare
  <2>2. /\ Prepare(Allocated, Contested) /\ sendtop2c = None /\ sendtop2c' = Allocated
        /\ UNCHANGED pageVars /\ UNCHANGED workVars
    BY <1>6 DEF RpcPrepare
  <2>3. batch'[Allocated] # None /\ \A a \in Addresses : a # Allocated => batch'[a] = batch[a]
    BY <2>1, <2>2, PrepareMakes
  <2>4. ~PageHolds(Allocated)
    BY <2>1 DEF PageInv, Owned
  <2>. QED  BY <1>0, <2>1, <2>2, <2>3, <2>4, RpcPage
<1>7. CASE RpcCommit \/ RpcRefused
  <2>1. /\ sendtop2c # None /\ sendtop2c' = None /\ batch' = [batch EXCEPT ![sendtop2c] = None]
        /\ UNCHANGED pageVars /\ UNCHANGED workVars
    BY <1>7 DEF RpcCommit, RpcRefused, CommitAndDestroy, Destroy
  <2>2. sendtop2c \in Addresses /\ ~PageHolds(sendtop2c)
    BY <2>1, Held DEF PageInv, Owned
  <2>3. batch'[sendtop2c] = None /\ \A a \in Addresses : a # sendtop2c => batch'[a] = batch[a]
    BY <2>1, <2>2, DestroyMakes
  <2>. QED  BY <1>0, <2>1, <2>2, <2>3, RpcPage
<1>8. CASE WalletNext /\ UNCHANGED <<probeVars, pageVars, workVars, sendtop2c>>
  <2>1. UNCHANGED batch
    BY <1>8 DEF WalletNext, UserLock, UserUnlock, SpendElsewhere
  <2>2. UNCHANGED pageVars /\ UNCHANGED workVars /\ UNCHANGED sendtop2c
    BY <1>8
  <2>. QED  BY <1>1, <2>1, <2>2
<1>9. CASE ProbeNext /\ UNCHANGED <<batchVars, pageVars, workVars, sendtop2c>>
  <2>1. UNCHANGED batch /\ UNCHANGED pageVars /\ UNCHANGED workVars /\ UNCHANGED sendtop2c
    BY <1>9 DEF batchVars
  <2>. QED  BY <1>1, <2>1
<1>10. CASE PrepareReturns
  <2>1. opened + 1 # None
    BY <1>10 DEF PrepareReturns
  <2>. QED  BY <1>10, <2>1, PreparedPage
<1>. QED
  BY <1>0, <1>2, <1>3, <1>4, <1>5, <1>6, <1>7, <1>8, <1>9, <1>10, UnlockPage, AnsweredPage,
     DestroyedPage, WorkPage DEF Next, GuiReturns

-----------------------------------------------------------------------------
(* The probes, and the theorems about the page, its worker, its probes and *)
(* sendtop2c together, for any number of confirmations and of probe        *)
(* threads.  The counters of startRsaProbe and P2CRsaProbeLifecycle count  *)
(* the threads and those in a phase (ProbeInv), and a confirmation's       *)
(* number is that of its probe (Numbered): a late thread or timer of an    *)
(* earlier confirmation has another number.                                *)

ProbeStates ==
    [pc : {"unborn", "start", "first", "dns", "second", "store", "done"},
     cancelled : BOOLEAN, rsa_verified : BOOLEAN, late : BOOLEAN, verified : BOOLEAN]
Runs(x) == x.pc \in {"start", "first", "dns", "second", "store"}
Inside(x) == x.pc \in {"first", "second"}
Running == {p \in Probes : Runs(probe[p])}

\* The two counters count the threads and those in a phase.
ProbeInv ==
    /\ probe \in [Probes -> ProbeStates]
    /\ active_probes = Cardinality(Running) /\ active_probes <= MaxActiveProbes
    /\ m_active = Cardinality(InPhase)
    /\ m_stopping \in BOOLEAN /\ torn \in BOOLEAN
    /\ torn => m_stopping /\ m_active = 0
    /\ \A p \in Probes : probe[p].rsa_verified \/ probe[p].pc = "store" => probe[p].verified

\* Confirmations are numbered in the order they are opened.
Numbered ==
    /\ opened \in 0..Cardinality(Probes)
    /\ gui \in {"unlocking", "preparing"} => opened < Cardinality(Probes)
    /\ \A p \in Probes : p > opened => probe[p].pc = "unborn"
    /\ timers \subseteq Probes
    /\ m_confirmation \in Probes \cup {None} /\ m_probe \in Probes \cup {None}

DialogInv == BatchInv /\ CountsInv /\ ProbeInv /\ Numbered /\ PageInv /\ RsaOnlyWhenServed

-----------------------------------------------------------------------------
(* Counting probes                                                         *)

LEMMA ProbesFinite ==
    /\ IsFiniteSet(Probes) /\ Cardinality(Probes) \in Nat
    /\ \A i \in Nat : i < Cardinality(Probes) => i + 1 \in Probes
    /\ Probes \subseteq Nat
<1>1. IsFiniteSet(Probes) /\ Probes = 1..Cardinality(Probes)
  BY CreationAssumption
<1>2. Cardinality(Probes) \in Nat
  BY <1>1, FS_CardinalityType
<1> DEFINE n == Cardinality(Probes)
<1> HIDE DEF n
<1>3. n \in Nat /\ Probes = 1..n
  BY <1>1, <1>2 DEF n
<1>4. (\A i \in Nat : i < n => i + 1 \in Probes) /\ Probes \subseteq Nat
  BY <1>3, SMT
<1>. QED  BY <1>1, <1>2, <1>4 DEF n

\* A set of probes, after one of them came in or went out.
LEMMA OneMore ==
    ASSUME NEW S \in SUBSET Probes, NEW p \in Probes
    PROVE  /\ IsFiniteSet(S) /\ Cardinality(S) \in Nat
           /\ Cardinality(S \cup {p}) = IF p \in S THEN Cardinality(S) ELSE Cardinality(S) + 1
           /\ Cardinality(S \ {p}) = IF p \in S THEN Cardinality(S) - 1 ELSE Cardinality(S)
           /\ p \in S => Cardinality(S) >= 1
           /\ Cardinality(S) = 0 <=> S = {}
<1>1. IsFiniteSet(S)
  BY ProbesFinite, FS_Subset
<1>2. Cardinality(S) \in Nat
  BY <1>1, FS_CardinalityType
<1>3. Cardinality(S \cup {p}) = IF p \in S THEN Cardinality(S) ELSE Cardinality(S) + 1
  BY <1>1, FS_AddElement
<1>4. Cardinality(S \ {p}) = IF p \in S THEN Cardinality(S) - 1 ELSE Cardinality(S)
  BY <1>1, FS_RemoveElement
<1>5. Cardinality(S) = 0 <=> S = {}
  BY <1>1, FS_EmptySet
<1>6. p \in S => Cardinality(S) # 0
  BY <1>5
<1>. QED  BY ONLY <1>1, <1>2, <1>3, <1>4, <1>5, <1>6, SMT

\* What a new state of probe p does to the sets that are counted.
LEMMA ProbeMoves ==
    ASSUME ProbeInv, NEW p \in Probes, NEW x \in ProbeStates, probe' = [probe EXCEPT ![p] = x]
    PROVE  /\ probe' \in [Probes -> ProbeStates]
           /\ probe'[p] = x /\ \A q \in Probes : q # p => probe'[q] = probe[q]
           /\ Running' = IF Runs(x) THEN Running \cup {p} ELSE Running \ {p}
           /\ InPhase' = IF Inside(x) THEN InPhase \cup {p} ELSE InPhase \ {p}
           /\ Running \in SUBSET Probes /\ InPhase \in SUBSET Probes
<1>1. probe \in [Probes -> ProbeStates]
  BY DEF ProbeInv
<1>2. probe' \in [Probes -> ProbeStates] /\ probe'[p] = x /\ \A q \in Probes : q # p => probe'[q] = probe[q]
  BY <1>1
<1>3. Running' = IF Runs(x) THEN Running \cup {p} ELSE Running \ {p}
  BY <1>2 DEF Running, Runs
<1>4. InPhase' = IF Inside(x) THEN InPhase \cup {p} ELSE InPhase \ {p}
  BY <1>2 DEF InPhase, Inside
<1>. QED  BY <1>2, <1>3, <1>4 DEF Running, InPhase

\* A counter of a set, when one element may come in or go out.
Counts(new, old, in, was) ==
    \/ new = old /\ (in <=> was)
    \/ new = old + 1 /\ in /\ ~was
    \/ new = old - 1 /\ ~in /\ was

\* A step of a probe's thread keeps the counts, when it changes them as the thread moves.
LEMMA ThreadKeeps ==
    ASSUME ProbeInv, NEW p \in Probes, NEW x \in ProbeStates, probe' = [probe EXCEPT ![p] = x],
           x.rsa_verified \/ x.pc = "store" => x.verified,
           Counts(active_probes', active_probes, Runs(x), p \in Running),
           Counts(m_active', m_active, Inside(x), p \in InPhase),
           active_probes' <= MaxActiveProbes,
           m_stopping => m_active' <= m_active,
           UNCHANGED stopVars
    PROVE  ProbeInv'
<1>1. /\ probe' \in [Probes -> ProbeStates]
      /\ probe'[p] = x /\ \A q \in Probes : q # p => probe'[q] = probe[q]
      /\ Running' = IF Runs(x) THEN Running \cup {p} ELSE Running \ {p}
      /\ InPhase' = IF Inside(x) THEN InPhase \cup {p} ELSE InPhase \ {p}
      /\ Running \in SUBSET Probes /\ InPhase \in SUBSET Probes
  BY ProbeMoves
<1>2. active_probes = Cardinality(Running) /\ m_active = Cardinality(InPhase)
  BY DEF ProbeInv
<1>3. /\ Cardinality(Running) \in Nat
      /\ Cardinality(Running \cup {p}) = IF p \in Running THEN Cardinality(Running) ELSE Cardinality(Running) + 1
      /\ Cardinality(Running \ {p}) = IF p \in Running THEN Cardinality(Running) - 1 ELSE Cardinality(Running)
  BY <1>1, OneMore
<1>4. /\ Cardinality(InPhase) \in Nat
      /\ Cardinality(InPhase \cup {p}) = IF p \in InPhase THEN Cardinality(InPhase) ELSE Cardinality(InPhase) + 1
      /\ Cardinality(InPhase \ {p}) = IF p \in InPhase THEN Cardinality(InPhase) - 1 ELSE Cardinality(InPhase)
  BY <1>1, OneMore
<1>5. active_probes' = Cardinality(Running')
  BY <1>1, <1>2, <1>3 DEF Counts
<1>6. m_active' = Cardinality(InPhase') /\ m_active' \in Nat
  <2>1. m_active' = Cardinality(InPhase')
    BY <1>1, <1>2, <1>4 DEF Counts
  <2>2. InPhase' \in SUBSET Probes
    BY <1>1
  <2>. QED  BY <2>1, <2>2, OneMore
<1>7. \A q \in Probes : probe'[q].rsa_verified \/ probe'[q].pc = "store" => probe'[q].verified
  BY <1>1 DEF ProbeInv
<1>8. torn' => m_stopping' /\ m_active' = 0
  <2> SUFFICES ASSUME torn' PROVE m_stopping' /\ m_active' = 0
    OBVIOUS
  <2>1. torn /\ m_stopping /\ m_stopping' /\ m_active = 0
    BY DEF stopVars, ProbeInv
  <2>. QED  BY <1>6, <2>1, SMT
<1>. QED  BY <1>1, <1>5, <1>6, <1>7, <1>8 DEF ProbeInv, stopVars

\* A step of ProbeNext moves no unborn probe and takes no verdict back.
Onward ==
    \A p \in Probes : /\ probe[p].pc = "unborn" => probe'[p].pc = "unborn"
                      /\ probe[p].verified => probe'[p].verified

LEMMA ProbesKeep ==
    ASSUME ProbeInv, ProbeNext
    PROVE  ProbeInv' /\ Onward
<1>0. /\ probe \in [Probes -> ProbeStates]
      /\ active_probes = Cardinality(Running) /\ active_probes <= MaxActiveProbes
      /\ m_active = Cardinality(InPhase)
      /\ Running \in SUBSET Probes /\ InPhase \in SUBSET Probes
  BY DEF ProbeInv, Running, InPhase
<1>1. CASE Stop \/ StopReturns
  <2>1. UNCHANGED <<probe, active_probes, m_active>> /\ m_stopping' = TRUE
        /\ torn' \in BOOLEAN /\ (torn' => m_active = 0)
    BY <1>1 DEF Stop, StopReturns, ProbeInv
  <2>. QED  BY <2>1 DEF ProbeInv, Running, InPhase, Onward
<1>2. ASSUME NEW p \in Probes, DeadlinePasses(p) \/ ProbeSteps(p)
      PROVE  ProbeInv' /\ Onward
  <2> DEFINE y == probe[p]
  <2>0. /\ y \in ProbeStates
        /\ MaxActiveProbes \in Nat
        /\ active_probes \in Nat /\ m_active \in Nat
        /\ active_probes <= MaxActiveProbes
        /\ p \in Running <=> Runs(y)
        /\ p \in InPhase <=> Inside(y)
        /\ y.rsa_verified \/ y.pc = "store" => y.verified
    <3>1. active_probes \in Nat /\ m_active \in Nat
      BY <1>0, <1>2, OneMore
    <3>2. MaxActiveProbes \in Nat
      BY CreationAssumption
    <3>. QED  BY <1>0, <1>2, <3>1, <3>2 DEF Running, InPhase, Inside, ProbeInv
  <2>e. \A x \in ProbeStates : probe' = [probe EXCEPT ![p] = x] /\ y.pc # "unborn" /\ (y.verified => x.verified) => Onward
    BY <1>0, <1>2 DEF Onward
  <2> DEFINE at(l) == [y EXCEPT !.pc = l]
  <2>f. \A l \in {"unborn", "start", "first", "dns", "second", "store", "done"} :
          /\ at(l) \in ProbeStates /\ at(l).pc = l /\ at(l).rsa_verified = y.rsa_verified
          /\ at(l).verified = y.verified
          /\ (probe' = [probe EXCEPT ![p].pc = l]) => (probe' = [probe EXCEPT ![p] = at(l)])
    BY <1>0, <1>2, <2>0 DEF ProbeStates
  <2> HIDE DEF y, at
  <2>1. CASE DeadlinePasses(p)
    <3>1. PICK x \in ProbeStates : /\ x.pc = y.pc /\ x.rsa_verified = y.rsa_verified
                                   /\ x.verified = y.verified
                                   /\ probe' = [probe EXCEPT ![p] = x]
      <4> DEFINE x == [y EXCEPT !.late = TRUE]
      <4>1. probe' = [probe EXCEPT ![p] = x]
        BY <2>1 DEF DeadlinePasses, y
      <4>2. x \in ProbeStates /\ x.pc = y.pc /\ x.rsa_verified = y.rsa_verified /\ x.verified = y.verified
        BY <2>0 DEF ProbeStates
      <4>. QED  BY <4>1, <4>2
    <3>2. UNCHANGED active_probes /\ UNCHANGED m_active /\ UNCHANGED stopVars /\ y.pc # "unborn"
      BY <2>1 DEF DeadlinePasses, y
    <3>3. Counts(active_probes', active_probes, Runs(x), p \in Running) /\ active_probes' <= MaxActiveProbes
      BY <2>0, <3>1, <3>2 DEF Counts, Runs
    <3>4. Counts(m_active', m_active, Inside(x), p \in InPhase) /\ m_active' <= m_active
      BY <2>0, <3>1, <3>2, SMT DEF Counts, Inside
    <3>5. ProbeInv'
      BY <1>2, <2>0, <3>1, <3>2, <3>3, <3>4, ThreadKeeps
    <3>. QED  BY <2>e, <3>1, <3>2, <3>5
  <2>2. ASSUME y.pc \in {"start", "dns"}, probe' = [probe EXCEPT ![p].pc = "done"],
               active_probes' = active_probes - 1, UNCHANGED m_active, UNCHANGED stopVars
        PROVE  ProbeInv' /\ Onward
    <3> DEFINE x == at("done")
    <3>0. /\ x \in ProbeStates /\ x.pc = "done" /\ x.rsa_verified = y.rsa_verified
          /\ x.verified = y.verified /\ probe' = [probe EXCEPT ![p] = x]
      BY <2>2, <2>f
    <3> HIDE DEF x
    <3>1. Counts(active_probes', active_probes, Runs(x), p \in Running) /\ active_probes' <= MaxActiveProbes
      BY <2>0, <2>2, <3>0, SMT DEF Counts, Runs
    <3>2. Counts(m_active', m_active, Inside(x), p \in InPhase) /\ m_active' <= m_active
      BY <2>0, <2>2, <3>0, SMT DEF Counts, Inside
    <3>3. y.pc # "unborn" /\ (x.rsa_verified \/ x.pc = "store" => x.verified)
      BY <2>0, <2>2, <3>0
    <3>4. ProbeInv'
      BY <1>2, <2>2, <3>0, <3>1, <3>2, <3>3, ThreadKeeps
    <3>. QED  BY <2>e, <3>0, <3>3, <3>4
  <2>3. ASSUME NEW l \in {"first", "second"}, y.pc \in {"start", "dns"}, probe' = [probe EXCEPT ![p].pc = l],
               ~m_stopping, m_active' = m_active + 1, UNCHANGED active_probes, UNCHANGED stopVars
        PROVE  ProbeInv' /\ Onward
    <3> DEFINE x == at(l)
    <3>0. /\ x \in ProbeStates /\ x.pc = l /\ x.rsa_verified = y.rsa_verified
          /\ x.verified = y.verified /\ probe' = [probe EXCEPT ![p] = x]
      BY <2>3, <2>f, ZenonT(30)
    <3> HIDE DEF x
    <3>1. Counts(active_probes', active_probes, Runs(x), p \in Running) /\ active_probes' <= MaxActiveProbes
      BY <2>0, <2>3, <3>0 DEF Counts, Runs
    <3>2. Counts(m_active', m_active, Inside(x), p \in InPhase)
      BY <2>0, <2>3, <3>0 DEF Counts, Inside
    <3>3. y.pc # "unborn" /\ (x.rsa_verified \/ x.pc = "store" => x.verified)
      BY <2>0, <2>3, <3>0
    <3>4. ProbeInv'
      BY <1>2, <2>3, <3>0, <3>1, <3>2, <3>3, ThreadKeeps
    <3>. QED  BY <2>e, <3>0, <3>3, <3>4
  <2>4. ASSUME y.pc \in {"first", "second"}, m_active' = m_active - 1, UNCHANGED stopVars,
               \/ probe' = [probe EXCEPT ![p].pc = "dns"] /\ UNCHANGED active_probes
               \/ probe' = [probe EXCEPT ![p].pc = "done"] /\ active_probes' = active_probes - 1
        PROVE  ProbeInv' /\ Onward
    <3>0. PICK l \in {"dns", "done"} : /\ probe' = [probe EXCEPT ![p].pc = l]
                                       /\ active_probes' = IF l = "dns" THEN active_probes ELSE active_probes - 1
      BY <2>4
    <3> DEFINE x == at(l)
    <3>1. /\ x \in ProbeStates /\ x.pc = l /\ x.rsa_verified = y.rsa_verified
          /\ x.verified = y.verified /\ probe' = [probe EXCEPT ![p] = x]
      BY <2>f, <3>0
    <3> HIDE DEF x
    <3>2. Counts(active_probes', active_probes, Runs(x), p \in Running) /\ active_probes' <= MaxActiveProbes
      BY <2>0, <2>4, <3>0, <3>1, SMT DEF Counts, Runs
    <3>3. Counts(m_active', m_active, Inside(x), p \in InPhase) /\ m_active' <= m_active
      BY <2>0, <2>4, <3>1, SMT DEF Counts, Inside
    <3>4. y.pc # "unborn" /\ (x.rsa_verified \/ x.pc = "store" => x.verified)
      BY <2>0, <2>4, <3>1
    <3>5. ProbeInv'
      BY <1>2, <2>4, <3>1, <3>2, <3>3, <3>4, ThreadKeeps
    <3>. QED  BY <2>e, <3>1, <3>4, <3>5
  <2>5. ASSUME y.pc = "second", m_active' = m_active - 1, UNCHANGED active_probes, UNCHANGED stopVars,
               probe' = [probe EXCEPT ![p].pc = "store", ![p].verified = TRUE]
        PROVE  ProbeInv' /\ Onward
    <3> DEFINE x == [y EXCEPT !.pc = "store", !.verified = TRUE]
    <3>1. probe' = [probe EXCEPT ![p] = x]
      BY <1>0, <1>2, <2>5 DEF y
    <3>2. x \in ProbeStates /\ x.pc = "store" /\ x.verified
      BY <2>0 DEF ProbeStates
    <3> HIDE DEF x
    <3>3. Counts(active_probes', active_probes, Runs(x), p \in Running) /\ active_probes' <= MaxActiveProbes
      BY <2>0, <2>5, <3>2 DEF Counts, Runs
    <3>4. Counts(m_active', m_active, Inside(x), p \in InPhase) /\ m_active' <= m_active
      BY <2>0, <2>5, <3>2, SMT DEF Counts, Inside
    <3>5. y.pc # "unborn" /\ x.verified
      BY <2>0, <2>5, <3>2
    <3>6. ProbeInv'
      BY <1>2, <2>5, <3>1, <3>2, <3>3, <3>4, <3>5, ThreadKeeps
    <3>. QED  BY <2>e, <3>1, <3>2, <3>5, <3>6
  <2>6. ASSUME y.pc = "store", active_probes' = active_probes - 1, UNCHANGED m_active, UNCHANGED stopVars,
               probe' = [probe EXCEPT ![p].rsa_verified = TRUE, ![p].pc = "done"]
        PROVE  ProbeInv' /\ Onward
    <3> DEFINE x == [y EXCEPT !.rsa_verified = TRUE, !.pc = "done"]
    <3>1. probe' = [probe EXCEPT ![p] = x]
      BY <1>0, <1>2, <2>6 DEF y
    <3>2. x \in ProbeStates /\ x.pc = "done" /\ x.verified = y.verified
      BY <2>0 DEF ProbeStates
    <3> HIDE DEF x
    <3>3. Counts(active_probes', active_probes, Runs(x), p \in Running) /\ active_probes' <= MaxActiveProbes
      BY <2>0, <2>6, <3>2, SMT DEF Counts, Runs
    <3>4. Counts(m_active', m_active, Inside(x), p \in InPhase) /\ m_active' <= m_active
      BY <2>0, <2>6, <3>2, SMT DEF Counts, Inside
    <3>5. y.pc # "unborn" /\ x.verified
      BY <2>0, <2>6, <3>2
    <3>6. ProbeInv'
      BY <1>2, <2>6, <3>1, <3>2, <3>3, <3>4, <3>5, ThreadKeeps
    <3>. QED  BY <2>e, <3>1, <3>2, <3>5, <3>6
  <2>7. CASE EnterFirst(p)
    BY <2>7, <2>2, <2>3 DEF EnterFirst, At, Goto, Fails, Ends, TryEnter, MayEnter, y
  <2>8. CASE LeaveFirst(p)
    BY <2>8, <2>4 DEF LeaveFirst, At, Goto, Ends, Leaves, y
  <2>9. CASE Resolved(p)
    BY <2>9, <2>2, <2>3 DEF Resolved, At, Goto, Fails, Ends, TryEnter, MayEnter, y
  <2>10. CASE LeaveSecond(p)
    BY <2>10, <2>4, <2>5 DEF LeaveSecond, At, Goto, Ends, y
  <2>11. CASE StoreVerdict(p)
    BY <2>11, <2>6 DEF StoreVerdict, At, y
  <2>. QED  BY <1>2, <2>1, <2>7, <2>8, <2>9, <2>10, <2>11 DEF ProbeSteps
<1>. QED  BY <1>1, <1>2 DEF ProbeNext

\* cancelRsaProbe moves no thread.
LEMMA CancelKeeps ==
    ASSUME ProbeInv, m_probe \in Probes \cup {None}, probe' = Cancelled,
           UNCHANGED <<active_probes, m_active, stopVars>>
    PROVE  /\ ProbeInv'
           /\ \A p \in Probes : probe'[p].pc = probe[p].pc /\ probe'[p].verified = probe[p].verified
<1>0. probe \in [Probes -> ProbeStates]
  BY DEF ProbeInv
<1>1. \A p \in Probes : /\ probe'[p] \in ProbeStates
                        /\ probe'[p].pc = probe[p].pc /\ probe'[p].verified = probe[p].verified
                        /\ probe'[p].rsa_verified = probe[p].rsa_verified
  BY <1>0, ZenonT(30) DEF Cancelled, ProbeStates
<1>2. probe' \in [Probes -> ProbeStates]
  BY <1>1 DEF Cancelled
<1>3. Running' = Running /\ InPhase' = InPhase
  BY <1>1 DEF Running, Runs, InPhase
<1>. QED  BY <1>1, <1>2, <1>3 DEF ProbeInv, stopVars

\* The probe of a new confirmation was not used before.
LEMMA StartKeepsProbes ==
    ASSUME ProbeInv, NEW p \in Probes, probe[p].pc = "unborn", NEW created \in BOOLEAN,
           Started(p, created), UNCHANGED m_active, UNCHANGED stopVars
    PROVE  /\ ProbeInv'
           /\ \A q \in Probes : q # p => probe'[q] = probe[q]
<1> DEFINE x == [probe[p] EXCEPT !.pc = IF created THEN "start" ELSE "done"]
<1>0. /\ probe \in [Probes -> ProbeStates] /\ probe[p] \in ProbeStates
      /\ p \notin Running /\ p \notin InPhase
      /\ probe[p].rsa_verified => probe[p].verified
      /\ Running \in SUBSET Probes /\ InPhase \in SUBSET Probes
  BY DEF ProbeInv, Running, Runs, InPhase
<1>1. active_probes \in Nat /\ m_active \in Nat /\ active_probes <= MaxActiveProbes
  BY <1>0, OneMore DEF ProbeInv
<1>2. MaxActiveProbes \in Nat
  BY CreationAssumption
<1>3. probe' = [probe EXCEPT ![p] = x]
  BY <1>0 DEF Started
<1>4. /\ x \in ProbeStates /\ x.pc = IF created THEN "start" ELSE "done"
      /\ x.rsa_verified => x.verified
  BY <1>0 DEF ProbeStates
<1>5. \A q \in Probes : q # p => probe'[q] = probe[q]
  BY <1>0, <1>3
<1> HIDE DEF x
<1>6. CASE created
  <2>1. active_probes' = active_probes + 1 /\ active_probes < MaxActiveProbes
    BY <1>6 DEF Started, StartsThread
  <2>2. ProbeInv'
    <3>1. Counts(active_probes', active_probes, Runs(x), p \in Running) /\ active_probes' <= MaxActiveProbes
      BY <1>0, <1>1, <1>2, <1>4, <1>6, <2>1, SMT DEF Counts, Runs
    <3>2. Counts(m_active', m_active, Inside(x), p \in InPhase) /\ m_active' <= m_active
      BY <1>0, <1>1, <1>4, <1>6, SMT DEF Counts, Inside
    <3>3. x.rsa_verified \/ x.pc = "store" => x.verified
      BY <1>4, <1>6
    <3>. QED  BY <1>3, <1>4, <3>1, <3>2, <3>3, ThreadKeeps
  <2>. QED  BY <1>5, <2>2
<1>7. CASE ~created
  <2>1. active_probes' = active_probes
    BY <1>7 DEF Started
  <2>2. ProbeInv'
    <3>1. Counts(active_probes', active_probes, Runs(x), p \in Running) /\ active_probes' <= MaxActiveProbes
      BY <1>0, <1>1, <1>2, <1>4, <1>7, <2>1 DEF Counts, Runs
    <3>2. Counts(m_active', m_active, Inside(x), p \in InPhase) /\ m_active' <= m_active
      BY <1>0, <1>1, <1>4, <1>7, SMT DEF Counts, Inside
    <3>3. x.rsa_verified \/ x.pc = "store" => x.verified
      BY <1>4, <1>7
    <3>. QED  BY <1>3, <1>4, <3>1, <3>2, <3>3, ThreadKeeps
  <2>. QED  BY <1>5, <2>2
<1>. QED  BY <1>6, <1>7

-----------------------------------------------------------------------------
(* The probes, in every step                                               *)

ProbeSide == ProbeInv /\ Numbered /\ RsaOnlyWhenServed

\* A step that leaves the probes and the confirmation alone.
LEMMA QuietKeeps ==
    ASSUME ProbeSide, UNCHANGED probeVars, UNCHANGED opened, UNCHANGED m_confirmation, UNCHANGED m_probe,
           timers' \subseteq timers, shown' = shown \/ shown' = None,
           gui' \in {"unlocking", "preparing"} => opened < Cardinality(Probes)
    PROVE  ProbeSide'
<1>1. /\ probe' = probe /\ active_probes' = active_probes /\ m_active' = m_active
      /\ m_stopping' = m_stopping /\ torn' = torn
  BY DEF probeVars
<1>2. ProbeInv'
  BY <1>1 DEF ProbeSide, ProbeInv, Running, InPhase
<1>3. Numbered'
  BY <1>1 DEF ProbeSide, Numbered
<1>4. RsaOnlyWhenServed'
  <2>1. None # RSA
    BY BatchAssumption DEF Masks
  <2>. QED  BY <1>1, <2>1 DEF ProbeSide, RsaOnlyWhenServed
<1>. QED  BY <1>2, <1>3, <1>4 DEF ProbeSide

\* A step that gives up the probe the page waits for.
LEMMA CancelSide ==
    ASSUME ProbeSide, CancelProbe, UNCHANGED opened, timers' \subseteq timers,
           m_confirmation' = m_confirmation \/ m_confirmation' = None,
           gui' \in {"unlocking", "preparing"} => opened < Cardinality(Probes),
           m_confirmation' # None /\ shown' = RSA => probe[m_confirmation'].verified
    PROVE  ProbeSide'
<1>0. m_probe \in Probes \cup {None} /\ m_confirmation \in Probes \cup {None} /\ ProbeInv
  BY DEF ProbeSide, Numbered
<1>1. /\ probe' = Cancelled /\ m_probe' = None
      /\ UNCHANGED <<active_probes, m_active, stopVars>>
  BY DEF CancelProbe
<1>2. /\ ProbeInv'
      /\ \A p \in Probes : probe'[p].pc = probe[p].pc /\ probe'[p].verified = probe[p].verified
  BY <1>0, <1>1, CancelKeeps
<1>3. Numbered'
  BY <1>0, <1>1, <1>2 DEF ProbeSide, Numbered
<1>4. RsaOnlyWhenServed'
  BY <1>0, <1>2 DEF RsaOnlyWhenServed
<1>. QED  BY <1>2, <1>3, <1>4 DEF ProbeSide

LEMMA FinishSide ==
    ASSUME ProbeSide, NEW approved \in BOOLEAN, Finish(approved)
    PROVE  ProbeSide'
<1>1. /\ CancelProbe /\ UNCHANGED opened /\ m_confirmation' = None
      /\ timers' = {p \in timers : probe[p].late}
      /\ gui' = IF approved THEN "committing" ELSE "releasing"
  BY DEF Finish, Waits
<1>2. timers' \subseteq timers /\ gui' \notin {"unlocking", "preparing"}
  BY <1>1
<1>. QED  BY <1>1, <1>2, CancelSide

LEMMA OpenSide ==
    ASSUME ProbeSide, PageInv, gui = "preparing", NEW b, Open(b)
    PROVE  ProbeSide'
<1> DEFINE n == opened + 1
<1>1. /\ ProbeInv /\ opened \in Nat /\ opened < Cardinality(Probes) /\ timers \subseteq Probes
      /\ \A p \in Probes : p > opened => probe[p].pc = "unborn"
  <2>1. opened \in 0..Cardinality(Probes) /\ Cardinality(Probes) \in Nat
    BY ProbesFinite DEF ProbeSide, Numbered
  <2>2. opened < Cardinality(Probes)
    BY DEF ProbeSide, Numbered
  <2>. QED  BY <2>1, <2>2, SMT DEF ProbeSide, Numbered
<1>2. n \in Probes /\ Probes \subseteq Nat
  BY <1>1, ProbesFinite
<1>3. probe[n].pc = "unborn"
  BY <1>1, <1>2, SMT
<1>4. PICK created \in BOOLEAN : Started(n, created)
  BY DEF Open
<1>5. /\ timers' = timers \cup {n} /\ opened' = n
      /\ m_confirmation' = n /\ m_probe' = n /\ shown' = None /\ gui' = "idle"
      /\ UNCHANGED m_active /\ UNCHANGED stopVars
  BY DEF Open
<1>6. ProbeInv' /\ \A q \in Probes : q # n => probe'[q] = probe[q]
  BY <1>1, <1>2, <1>3, <1>4, <1>5, StartKeepsProbes
<1>7. Numbered'
  <2>1. opened' \in 0..Cardinality(Probes)
    BY ONLY <1>1, <1>5, ProbesFinite, SMT
  <2>2. \A p \in Probes : p > opened' => probe'[p].pc = "unborn"
    <3> SUFFICES ASSUME NEW p \in Probes, p > opened' PROVE probe'[p].pc = "unborn"
      OBVIOUS
    <3>1. p > opened /\ p # n
      BY <1>1, <1>2, <1>5, SMT
    <3>. QED  BY <1>1, <1>6, <3>1
  <2>. QED  BY <1>1, <1>2, <1>5, <2>1, <2>2 DEF Numbered
<1>8. RsaOnlyWhenServed'
  <2>1. None # RSA
    BY BatchAssumption DEF Masks
  <2>. QED  BY <1>5, <2>1 DEF RsaOnlyWhenServed
<1>. QED  BY <1>6, <1>7, <1>8 DEF ProbeSide

LEMMA FreezeSide ==
    ASSUME ProbeSide, PageInv, NEW p \in Probes, TimerFires(p), Freeze(p)
    PROVE  ProbeSide'
<1>1. /\ CancelProbe /\ shown' = MaskFor(p) /\ m_probe = p /\ m_confirmation # None
      /\ timers' = timers \ {p} /\ UNCHANGED m_confirmation /\ UNCHANGED gui /\ UNCHANGED opened
  BY DEF Freeze, FreezeApplies, TimerFires
<1>2. m_confirmation = p
  <2>1. None \notin Probes
    BY CreationAssumption
  <2>. QED  BY <1>1, <2>1 DEF PageInv, PagePhases
<1>3. shown' = RSA => probe[p].verified
  <2>1. ALL # RSA
    BY BatchAssumption
  <2>. QED  BY <1>1, <2>1 DEF MaskFor, ProbeSide, ProbeInv
<1>4. gui' \in {"unlocking", "preparing"} => opened < Cardinality(Probes)
  BY <1>1 DEF ProbeSide, Numbered
<1>5. timers' \subseteq timers
  BY <1>1
<1>. QED  BY <1>1, <1>2, <1>3, <1>4, <1>5, CancelSide

LEMMA ProbeSideNext ==
    ASSUME ProbeSide, PageInv, Next
    PROVE  ProbeSide'
<1>0. /\ gui \in {"unlocking", "preparing"} => opened < Cardinality(Probes)
      /\ m_batch # None => gui = "idle"
  BY DEF ProbeSide, Numbered, PageInv, PagePhases
<1>1. CASE PrepareClicked
  <2>1. /\ UNCHANGED probeVars /\ UNCHANGED opened /\ UNCHANGED m_confirmation /\ UNCHANGED m_probe
        /\ timers' = timers /\ shown' = shown /\ opened < Cardinality(Probes)
    BY <1>1 DEF PrepareClicked
  <2>. QED  BY <2>1, QuietKeeps
<1>2. CASE UnlockReturns
  <2>1. /\ UNCHANGED probeVars /\ UNCHANGED opened /\ UNCHANGED m_confirmation /\ UNCHANGED m_probe
        /\ timers' = timers /\ shown' = shown /\ gui = "unlocking"
    BY <1>2 DEF UnlockReturns
  <2>2. opened < Cardinality(Probes)
    BY <1>0, <2>1
  <2>. QED  BY <2>1, <2>2, QuietKeeps
<1>3. CASE Released \/ CommitReturns
  <2>1. /\ UNCHANGED probeVars /\ UNCHANGED opened /\ UNCHANGED m_confirmation /\ UNCHANGED m_probe
        /\ timers' = timers /\ shown' = None /\ gui' = "idle"
    BY <1>3 DEF Released, CommitReturns
  <2>2. gui' \notin {"unlocking", "preparing"}
    BY <2>1
  <2>. QED  BY <2>1, <2>2, QuietKeeps
<1>4. CASE PrepareReturns
  <2>1. ASSUME NEW b, Open(b) PROVE ProbeSide'
    BY <1>4, <2>1, OpenSide DEF PrepareReturns
  <2>2. ASSUME UNCHANGED probeVars, UNCHANGED opened, UNCHANGED m_confirmation, UNCHANGED m_probe,
               timers' = timers, shown' = shown
        PROVE  ProbeSide'
    <3>1. opened < Cardinality(Probes)
      BY <1>0, <1>4 DEF PrepareReturns
    <3>. QED  BY <2>2, <3>1, QuietKeeps
  <2>. QED  BY <1>4, <2>1, <2>2 DEF PrepareReturns
<1>5. ASSUME NEW p \in Probes, TimerFires(p) PROVE ProbeSide'
  <2>1. CASE Freeze(p)
    BY <1>5, <2>1, FreezeSide
  <2>2. CASE ~FreezeApplies(p) /\ UNCHANGED <<batchVars, probeVars, shown, m_ready_to_send, m_probe>>
    <3>1. /\ UNCHANGED probeVars /\ UNCHANGED opened /\ UNCHANGED m_confirmation /\ UNCHANGED m_probe
          /\ timers' = timers \ {p} /\ shown' = shown /\ UNCHANGED gui
      BY <1>5, <2>2 DEF TimerFires
    <3>2. timers' \subseteq timers
      BY <3>1
    <3>3. gui' \in {"unlocking", "preparing"} => opened < Cardinality(Probes)
      BY <1>0, <3>1
    <3>. QED  BY <3>1, <3>2, <3>3, QuietKeeps
  <2>. QED  BY <1>5, <2>1, <2>2 DEF TimerFires
<1>6. CASE Answer
  BY <1>6, FinishSide DEF Answer
<1>7. CASE Detach
  <2>1. CASE m_confirmation # None /\ Finish(FALSE)
    BY <2>1, FinishSide
  <2>2. ASSUME UNCHANGED <<batchVars, probeVars, workVars, sendtop2c, alive, m_batch, m_confirmation, m_probe,
                           m_ready_to_send, gui, detaching, shown, receipt, opened, timers>>
        PROVE  ProbeSide'
    <3>1. /\ UNCHANGED probeVars /\ UNCHANGED opened /\ UNCHANGED m_confirmation /\ UNCHANGED m_probe
          /\ timers' = timers /\ shown' = shown /\ gui' = gui
      BY <2>2
    <3>2. gui' \in {"unlocking", "preparing"} => opened < Cardinality(Probes)
      BY <1>0, <3>1
    <3>. QED  BY <3>1, <3>2, QuietKeeps
  <2>. QED  BY <1>7, <2>1, <2>2 DEF Detach
<1>8. CASE DestroyPage
  <2>1. CancelProbe /\ UNCHANGED opened /\ timers' = {} /\ m_confirmation' = None /\ gui' = gui
    BY <1>8 DEF DestroyPage
  <2>2. gui' \in {"unlocking", "preparing"} => opened < Cardinality(Probes)
    BY <1>0, <2>1
  <2>3. timers' \subseteq timers
    BY <2>1
  <2>. QED  BY <2>1, <2>2, <2>3, CancelSide
<1>9. CASE /\ UNCHANGED probeVars /\ UNCHANGED pageVars
  <2>1. /\ UNCHANGED opened /\ UNCHANGED m_confirmation /\ UNCHANGED m_probe
        /\ timers' = timers /\ shown' = shown /\ gui' = gui
    BY <1>9 DEF pageVars
  <2>2. gui' \in {"unlocking", "preparing"} => opened < Cardinality(Probes)
    BY <1>0, <2>1
  <2>. QED  BY <1>9, <2>1, <2>2, QuietKeeps
<1>10. CASE ProbeNext /\ UNCHANGED pageVars
  <2>1. ProbeInv' /\ Onward
    BY <1>10, ProbesKeep DEF ProbeSide
  <2>2. /\ opened' = opened /\ m_confirmation' = m_confirmation /\ m_probe' = m_probe
        /\ timers' = timers /\ shown' = shown /\ gui' = gui
    BY <1>10 DEF pageVars
  <2>3. Numbered'
    BY <2>1, <2>2 DEF ProbeSide, Numbered, Onward
  <2>4. RsaOnlyWhenServed'
    BY <2>1, <2>2 DEF ProbeSide, Numbered, Onward, RsaOnlyWhenServed
  <2>. QED  BY <2>1, <2>3, <2>4 DEF ProbeSide
<1>11. CASE WorkerStep \/ RpcPrepare \/ RpcCommit \/ RpcRefused
  BY <1>9, <1>11 DEF WorkerStep, WorkPrepare, WorkAlternative, WorkCommit, WorkReset,
                            RpcPrepare, RpcCommit, RpcRefused
<1>. QED
  BY <1>1, <1>2, <1>3, <1>4, <1>5, <1>6, <1>7, <1>8, <1>9, <1>10, <1>11 DEF Next, GuiReturns

-----------------------------------------------------------------------------
(* The invariant                                                           *)

\* A number is left for the confirmation that prepare is about to open.
LEMMA NumberLeft ==
    ASSUME Numbered
    PROVE  gui = "preparing" => opened + 1 # None
<1> SUFFICES ASSUME gui = "preparing" PROVE opened + 1 # None
  OBVIOUS
<1>1. opened \in 0..Cardinality(Probes) /\ Cardinality(Probes) \in Nat
  BY ProbesFinite DEF Numbered
<1>2. opened < Cardinality(Probes)
  BY DEF Numbered
<1>3. opened \in Nat
  BY <1>1, SMT
<1>4. opened + 1 \in Probes
  BY <1>2, <1>3, ProbesFinite
<1>. QED  BY <1>4, CreationAssumption

LEMMA DialogInvInit == Init => DialogInv
<1> SUFFICES ASSUME Init PROVE DialogInv
  OBVIOUS
<1>0. WalletInit /\ ProbeInit /\ batch = [b \in Addresses |-> None]
  BY DEF Init, WalletInit
<1>p. /\ alive = TRUE /\ m_model = Wallet /\ m_form = TRUE
      /\ m_batch = None /\ m_confirmation = None /\ m_probe = None
      /\ m_ready_to_send = FALSE /\ gui = "idle" /\ detaching = FALSE
      /\ shown = None /\ receipt = <<>> /\ opened = 0 /\ timers = {}
      /\ tasks = <<>> /\ reply = Pending /\ sendtop2c = None
  BY DEF Init
<1>1. BatchInv
  BY <1>0, BatchInvInit
<1>2. CountsInv
  BY <1>0 DEF CountsInv
<1>3. ProbeInv
  <2>1. probe \in [Probes -> ProbeStates] /\ \A p \in Probes : probe[p] = Unborn
    BY <1>0 DEF ProbeInit, ProbeStates, Unborn
  <2>2. Running = {} /\ InPhase = {}
    BY <2>1, SMT DEF Running, Runs, InPhase, Unborn
  <2>3. Cardinality({}) = 0
    BY FS_EmptySet
  <2>4. MaxActiveProbes \in Nat
    BY CreationAssumption
  <2>5. active_probes = Cardinality(Running) /\ active_probes <= MaxActiveProbes /\ m_active = Cardinality(InPhase)
    BY <1>0, <2>2, <2>3, <2>4, SMT DEF ProbeInit
  <2>6. \A p \in Probes : ~probe[p].rsa_verified /\ probe[p].pc # "store"
    BY <2>1, SMT DEF Unborn
  <2>. QED  BY <1>0, <2>1, <2>5, <2>6 DEF ProbeInit, ProbeInv
<1>4. Numbered
  <2>1. Cardinality(Probes) \in Nat
    BY ProbesFinite
  <2>2. \A p \in Probes : probe[p].pc = "unborn"
    BY <1>0 DEF ProbeInit, Unborn
  <2>. QED  BY <1>p, <2>1, <2>2, SMT DEF Numbered
<1>5. PageInv
  <2>0. ~Waiting
    BY <1>p DEF Waiting
  <2>1. PageTypes
    <3>1. <<>> \in Seq(Tasks) /\ Len(<<>>) = 0 /\ <<>> \in Seq(Transactions)
      BY SMT
    <3>2. tasks \in Seq(Tasks) /\ Len(tasks) <= 1 /\ receipt \in Seq(Transactions)
      BY <1>p, <3>1, SMT
    <3>. QED  BY <1>p, <3>2, PendingFacts DEF PageTypes
  <2>2. PagePhases
    BY <1>p, <2>0, PendingFacts DEF PagePhases
  <2>3. Stages
    BY <1>p, PendingFacts DEF Stages
  <2>4. Owned
    <3>1. \A b \in Addresses : b # None
      BY BatchAssumption
    <3>. QED  BY <1>0, <1>p, <3>1, PendingFacts DEF Owned, PageHolds, TaskBatch
  <2>5. Receipts
    BY <1>p, PendingFacts, SMT DEF Receipts, InWallet
  <2>. QED  BY <2>1, <2>2, <2>3, <2>4, <2>5 DEF PageInv
<1>6. RsaOnlyWhenServed
  BY <1>p DEF RsaOnlyWhenServed
<1>. QED  BY <1>1, <1>2, <1>3, <1>4, <1>5, <1>6 DEF DialogInv

LEMMA DialogInvNext == DialogInv /\ [Next]_vars => DialogInv'
<1> SUFFICES ASSUME DialogInv, [Next]_vars PROVE DialogInv'
  OBVIOUS
<1>0. BatchInv /\ CountsInv /\ ProbeInv /\ Numbered /\ PageInv /\ RsaOnlyWhenServed /\ ProbeSide
  BY DEF DialogInv, ProbeSide
<1>1. CASE Next
  <2>1. [BatchNext]_batchVars
    BY <1>0, <1>1, StepIsBatch
  <2>2. BatchInv' /\ CountsInv'
    BY <1>0, <2>1, BatchInvNext, CountsKept
  <2>3. ProbeSide' /\ PageInv'
    BY <1>0, <1>1, NumberLeft, ProbeSideNext, PageInvNext
  <2>. QED  BY <2>2, <2>3 DEF DialogInv, ProbeSide
<1>2. CASE UNCHANGED vars
  <2>1. /\ UNCHANGED batchVars /\ UNCHANGED probeVars /\ UNCHANGED pageVars /\ UNCHANGED workVars
        /\ UNCHANGED sendtop2c
    BY <1>2 DEF vars
  <2>2. BatchInv' /\ CountsInv'
    BY <1>0, <2>1, BatchInvNext, CountsKept
  <2>3. /\ alive' = alive /\ m_model' = m_model /\ m_batch' = m_batch /\ m_confirmation' = m_confirmation
        /\ m_probe' = m_probe /\ m_ready_to_send' = m_ready_to_send /\ m_form' = m_form /\ gui' = gui
        /\ detaching' = detaching /\ shown' = shown /\ receipt' = receipt /\ timers' = timers
        /\ tasks' = tasks /\ reply' = reply /\ opened' = opened /\ batch' = batch
    BY <2>1 DEF pageVars, workVars, batchVars
  <2>4. PageInv'
    <3>1. m_form' \in BOOLEAN /\ m_model' \in {Wallet, None}
      BY <1>0, <2>3 DEF PageInv, PageTypes
    <3>. QED  BY <1>0, <2>1, <2>3, <3>1, QuietPage
  <2>5. ProbeSide'
    <3>1. gui' \in {"unlocking", "preparing"} => opened < Cardinality(Probes)
      BY <1>0, <2>3 DEF Numbered
    <3>2. timers' \subseteq timers
      BY <2>3
    <3>. QED  BY <1>0, <2>1, <2>3, <3>1, <3>2, QuietKeeps
  <2>. QED  BY <2>2, <2>4, <2>5 DEF DialogInv, ProbeSide
<1>. QED  BY <1>1, <1>2

\* The inductive invariant of the creation page: in whatever nested event loop the
\* page, its wallet or the node goes away, the batch is in one place, in the stage of
\* preparation this place stands for, and the probe threads and phases are what the
\* counters of startRsaProbe and P2CRsaProbeLifecycle say.
THEOREM DialogInvariance == Spec => []DialogInv
BY DialogInvInit, DialogInvNext, PTL DEF Spec

\* Whatever the page, its worker and sendtop2c do with batches, and whichever call the
\* page or its wallet goes away in, are operations of a P2CTransactionBatch that
\* exists, each done to its end.
THEOREM CreationImplementsBatch == Spec => ImplementsBatch
<1>1. Init => WalletInit
  BY DEF Init
<1>2. DialogInv /\ [Next]_vars => [UNCHANGED batchVars \/ BatchNext]_batchVars
  <2> SUFFICES ASSUME DialogInv, [Next]_vars PROVE UNCHANGED batchVars \/ BatchNext
    OBVIOUS
  <2>1. CASE Next
    BY <2>1, StepIsBatch DEF DialogInv
  <2>2. CASE UNCHANGED vars
    BY <2>2 DEF vars
  <2>. QED  BY <2>1, <2>2
<1>. QED  BY <1>1, <1>2, DialogInvariance, PTL DEF Spec, ImplementsBatch

\* The reservations stay sound with the page and sendtop2c as users of the wallet: a
\* coin lock belongs to a batch that exists and releases it, and Commit spends no coin
\* twice.
THEOREM CreationReservationsSound == Spec => []ReservationsSound
<1>1. DialogInv => ReservationsSound
  BY DEF DialogInv, BatchInv, ReservationsSound
<1>. QED  BY <1>1, DialogInvariance, PTL

\* The page never ends a lock the user took, on cancellation or on Commit.
THEOREM CreationKeepsUserLocks == Spec => UserLocksKept
<1>1. ImplementsBatch => BatchSpec
  <2>1. [UNCHANGED batchVars \/ BatchNext]_batchVars => [BatchNext]_batchVars
    OBVIOUS
  <2>. QED  BY <2>1, PTL DEF ImplementsBatch, BatchSpec
<1>. QED  BY <1>1, CreationImplementsBatch, UsersKeepTheirLocks, PTL

\* WorkCommit adds to the wallet only transactions with the signature algorithms the
\* confirmation showed when the user approved it: no late probe result or late timer
\* (freezeSignatureAlgorithms) comes in between.
THEOREM AlwaysCommitsWhatWasShown == Spec => CommitsWhatWasShown
<1> DEFINE A == WorkCommit => \A c \in Coins : mapTxSpends'[c] # mapTxSpends[c] => mapTxSpends'[c][Len(mapTxSpends'[c])] = shown
<1>1. DialogInv /\ [Next]_vars => [A]_vars
  <2> SUFFICES ASSUME DialogInv, WorkCommit
               PROVE  \A c \in Coins : mapTxSpends'[c] # mapTxSpends[c] => mapTxSpends'[c][Len(mapTxSpends'[c])] = shown
    OBVIOUS
  <2> DEFINE b == tasks[1].batch
  <2>0. BatchInv /\ CountsInv /\ PageInv /\ tasks # <<>> /\ Head(tasks).op = "commit"
    BY DEF DialogInv, WorkCommit, AtHead
  <2>1. Head(tasks) = tasks[1] /\ tasks[1].op = "commit" /\ tasks[1].op # "prepare"
    BY <2>0, Working
  <2>2. b \in Addresses /\ batch[b] # None
    BY <2>0, <2>1, Held
  <2>3. Masked(batch[b].m_transactions, shown)
    BY <2>0, <2>1 DEF PageInv, Stages, Frozen
  <2>4. ASSUME NEW count \in 0..Len(batch[b].m_transactions), Commit(b, count)
        PROVE  \A c \in Coins : mapTxSpends'[c] # mapTxSpends[c] => mapTxSpends'[c][Len(mapTxSpends'[c])] = shown
    <3> HIDE DEF b
    <3>. QED  BY ONLY <2>0, <2>2, <2>3, <2>4, CommitMakes, ZenonT(30)
  <2>5. CASE CommitRefused(b)
    <3>1. mapTxSpends' = mapTxSpends
      BY <2>5 DEF CommitRefused, batchVars, walletVars
    <3>. QED  BY <3>1
  <2>. QED  BY <2>1, <2>4, <2>5 DEF WorkCommit
<1>. QED  BY <1>1, DialogInvariance, PTL DEF Spec, CommitsWhatWasShown

-----------------------------------------------------------------------------
(* What the invariant says of the state                                    *)

LEMMA SoundTypes == DialogInv => TypeOK
<1> SUFFICES ASSUME DialogInv PROVE TypeOK
  OBVIOUS
<1>0. BatchInv /\ CountsInv /\ ProbeInv /\ Numbered /\ PageInv
  BY DEF DialogInv
<1>1. WalletTypeOK
  <2>1. WalletTypes
    BY <1>0 DEF BatchInv
  <2>2. /\ m_locked_coins \subseteq Coins
        /\ m_coin_lock_owners \in [Coins -> Addresses \cup {None}]
        /\ \A c \in Coins : mapTxSpends[c] \in Seq(Masks \cup {None})
        /\ \A b \in Addresses : batch[b] # None => batch[b] \in Batches
    BY <2>1 DEF WalletTypes
  <2>3. \A b \in Addresses : batch[b] # None => batch[b].m_committed_count <= Len(batch[b].m_transactions)
    BY <1>0 DEF CountsInv
  <2>. QED  BY <2>2, <2>3 DEF WalletTypeOK
<1>2. ProbeTypeOK
  <2>1. \A p \in Probes : probe[p] \in ProbeStates
    BY <1>0 DEF ProbeInv
  <2>2. active_probes \in Nat /\ m_active \in Nat
    <3>1. Running \subseteq Probes /\ InPhase \subseteq Probes
      BY DEF Running, InPhase
    <3>2. IsFiniteSet(Running) /\ IsFiniteSet(InPhase)
      BY <3>1, ProbesFinite, FS_Subset
    <3>3. Cardinality(Running) \in Nat /\ Cardinality(InPhase) \in Nat
      BY <3>2, FS_CardinalityType
    <3>. QED  BY <1>0, <3>3 DEF ProbeInv
  <2>3. active_probes \in 0..MaxActiveProbes
    <3>1. active_probes <= MaxActiveProbes /\ MaxActiveProbes \in Nat
      BY <1>0, CreationAssumption DEF ProbeInv
    <3>. QED  BY <2>2, <3>1, SMT
  <2>4. m_stopping \in BOOLEAN /\ torn \in BOOLEAN
    BY <1>0 DEF ProbeInv
  <2>. QED  BY <2>1, <2>2, <2>3, <2>4 DEF ProbeTypeOK, ProbeStates
<1>3. {m_batch, sendtop2c} \subseteq Addresses \cup {None} /\ {m_confirmation, m_probe} \subseteq Probes \cup {None}
  <2>1. m_batch \in Addresses \cup {None} /\ sendtop2c \in Addresses \cup {None}
    BY <1>0 DEF PageInv, PageTypes
  <2>2. m_confirmation \in Probes \cup {None} /\ m_probe \in Probes \cup {None}
    BY <1>0 DEF Numbered
  <2>. QED  BY <2>1, <2>2
<1>4. /\ alive \in BOOLEAN /\ m_ready_to_send \in BOOLEAN /\ m_form \in BOOLEAN /\ detaching \in BOOLEAN
      /\ m_model \in {Wallet, None}
      /\ gui \in {"idle", "unlocking", "preparing", "releasing", "committing"}
      /\ shown \in Masks \cup {None}
  BY <1>0 DEF PageInv, PageTypes
<1>5. timers \subseteq Probes /\ opened \in 0..Cardinality(Probes)
  BY <1>0 DEF Numbered
<1>. QED  BY <1>1, <1>2, <1>3, <1>4, <1>5 DEF TypeOK

\* One holder of each batch that exists.
LEMMA SoundOwners == DialogInv => BatchOwnedOnce
<1> SUFFICES ASSUME DialogInv, NEW b \in Addresses
             PROVE  Cardinality(Holders(b)) = IF batch[b] = None THEN 0 ELSE 1
  BY DEF BatchOwnedOnce
<1>0. BatchInv /\ PageInv
  BY DEF DialogInv
<1>1. /\ batch[b] # None <=> PageHolds(b) \/ b = sendtop2c
      /\ sendtop2c # None => ~PageHolds(sendtop2c)
  BY <1>0 DEF PageInv, Owned
<1>b. b # None
  BY BatchAssumption
<1>2. /\ m_batch # None => tasks = <<>> /\ reply.batch = None
      /\ reply.batch # None => tasks = <<>> /\ m_batch = None
      /\ tasks # <<>> => m_batch = None /\ reply.batch = None
  BY <1>0, Held, PendingFacts
<1>3. {j \in DOMAIN tasks : tasks[j].batch = b} = IF TaskBatch = b THEN {1} ELSE {}
  <2>1. tasks \in Seq(Tasks) /\ Len(tasks) <= 1
    BY <1>0 DEF PageInv, PageTypes
  <2>2. CASE tasks = <<>>
    BY <1>b, <2>2, SMT DEF TaskBatch
  <2>3. CASE tasks # <<>>
    <3>1. DOMAIN tasks = {1}
      <4>1. tasks = <<tasks[1]>> /\ tasks[1] \in Tasks
        BY <1>0, <2>3, TaskCases DEF PageInv
      <4>2. DOMAIN <<tasks[1]>> = {1}
        BY <4>1, OneTask
      <4>. QED  BY <4>1, <4>2
    <3>. QED  BY <2>3, <3>1 DEF TaskBatch
  <2>. QED  BY <2>2, <2>3
<1>4. {<<"task", i>> : i \in {j \in DOMAIN tasks : tasks[j].batch = b}} =
        IF TaskBatch = b THEN {<<"task", 1>>} ELSE {}
  BY <1>3
<1> DEFINE held == {h \in {<<"page", m_batch>>, <<"reply", reply.batch>>, <<"sendtop2c", sendtop2c>>} : h[2] = b}
<1>5. \A h : h \in held <=> \/ h = <<"page", b>> /\ m_batch = b
                            \/ h = <<"reply", b>> /\ reply.batch = b
                            \/ h = <<"sendtop2c", b>> /\ sendtop2c = b
  BY SMT
<1>6. Holders(b) = held \cup (IF TaskBatch = b THEN {<<"task", 1>>} ELSE {})
  BY <1>4 DEF Holders
<1>7. TaskBatch = b => tasks # <<>>
  BY <1>b DEF TaskBatch
<1> HIDE DEF held
<1>8. CASE batch[b] = None
  <2>1. m_batch # b /\ reply.batch # b /\ TaskBatch # b /\ sendtop2c # b
    BY <1>1, <1>8 DEF PageHolds
  <2>2. Holders(b) = {}
    BY <1>5, <1>6, <2>1
  <2>3. Cardinality({}) = 0
    BY FS_EmptySet
  <2>. QED  BY <1>8, <2>2, <2>3
<1>9. CASE batch[b] # None
  <2>1. \E x : Holders(b) = {x}
    <3>1. CASE b = m_batch
      <4>1. reply.batch # b /\ TaskBatch # b /\ sendtop2c # b
        BY <1>1, <1>2, <1>7, <1>b, <3>1 DEF PageHolds
      <4>2. Holders(b) = {<<"page", b>>}
        BY <1>5, <1>6, <3>1, <4>1
      <4>. QED  BY <4>2
    <3>2. CASE b = reply.batch
      <4>1. m_batch # b /\ TaskBatch # b /\ sendtop2c # b
        BY <1>1, <1>2, <1>7, <1>b, <3>2 DEF PageHolds
      <4>2. Holders(b) = {<<"reply", b>>}
        BY <1>5, <1>6, <3>2, <4>1
      <4>. QED  BY <4>2
    <3>3. CASE b = TaskBatch
      <4>1. m_batch # b /\ reply.batch # b /\ sendtop2c # b
        BY <1>1, <1>2, <1>7, <1>b, <3>3 DEF PageHolds
      <4>2. Holders(b) = {<<"task", 1>>}
        BY <1>5, <1>6, <3>3, <4>1
      <4>. QED  BY <4>2
    <3>4. CASE b = sendtop2c
      <4>1. m_batch # b /\ reply.batch # b /\ TaskBatch # b
        BY <1>1, <1>b, <3>4 DEF PageHolds
      <4>2. Holders(b) = {<<"sendtop2c", b>>}
        BY <1>5, <1>6, <3>4, <4>1
      <4>. QED  BY <4>2
    <3>. QED  BY <1>1, <1>9, <3>1, <3>2, <3>3, <3>4 DEF PageHolds
  <2>2. \A x : Cardinality({x}) = 1
    BY FS_Singleton
  <2>. QED  BY <1>9, <2>1, <2>2
<1>. QED  BY <1>8, <1>9

\* freezeSignatureAlgorithms finds what it needs.
LEMMA SoundFreeze == DialogInv => FreezeReady
<1> SUFFICES ASSUME DialogInv, m_probe # None
             PROVE  /\ m_confirmation = m_probe /\ m_batch # None /\ m_model # None
                    /\ \A mask \in Masks : CanSelectMask(batch[m_batch], mask)
  BY DEF FreezeReady
<1>1. PagePhases /\ Stages
  BY DEF DialogInv, PageInv
<1>2. m_batch # None /\ m_model = Wallet /\ m_confirmation = m_probe /\ ~m_ready_to_send
  BY <1>1 DEF PagePhases
<1>3. Both(batch[m_batch])
  BY <1>1, <1>2 DEF Stages
<1>4. \A mask \in Masks : CanSelectMask(batch[m_batch], mask)
  BY <1>3 DEF Both, Fresh, CanSelectMask
<1>. QED  BY <1>2, <1>4, CreationAssumption

\* In every state, whichever nested event loop, unload or shutdown came in between,
\* for any number of confirmations and probe threads: no probe is in a phase once Stop
\* has returned, a batch that exists has one holder, RSA is required only of a domain
\* this confirmation's probe saw serve it, freezeSignatureAlgorithms never takes its
\* error path, and the receipt lists only what the wallet holds.
THEOREM CreationAlwaysSound == Spec => []CreationSound
<1>1. DialogInv => NoPhaseAfterStop
  <2> SUFFICES ASSUME DialogInv, torn PROVE InPhase = {}
    BY DEF NoPhaseAfterStop
  <2>1. Cardinality(InPhase) = 0 /\ InPhase \subseteq Probes
    BY DEF DialogInv, ProbeInv, InPhase
  <2>2. IsFiniteSet(InPhase)
    BY <2>1, ProbesFinite, FS_Subset
  <2>. QED  BY <2>1, <2>2, FS_EmptySet
<1>2. DialogInv => RsaOnlyWhenServed /\ ReceiptExact
  BY DEF DialogInv, PageInv, Receipts, InWallet, ReceiptExact
<1>3. DialogInv => CreationSound
  BY <1>1, <1>2, SoundTypes, SoundOwners, SoundFreeze DEF CreationSound
<1>. QED  BY <1>3, DialogInvariance, PTL
==============================================================================

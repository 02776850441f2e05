--------------------------- MODULE P2CBountyCatalog ---------------------------
(***************************************************************************)
(* The node's catalog of confirmed bounties (node/p2c_bounty_catalog.h)    *)
(* and the scan that follows the active chain and hands it to wallets      *)
(* (scanP2CBounties, node/interfaces.cpp).                                 *)
(*                                                                         *)
(* A chain is the sequence of its blocks above genesis, a block the        *)
(* sequence of its transactions, the coinbase first; a block is identified *)
(* by the chain that ends with it, so CBlockIndex is a chain, pprev the    *)
(* chain without its last block, and nHeight its length.  A transaction is *)
(* the P2C outputs it spends and creates; a Coin is its creation height.   *)
(*                                                                         *)
(* m_p2c_mutex serialises scans, so one scan is modelled, with the active  *)
(* chain moving between any two of its steps: cs_main is not held.         *)
(***************************************************************************)
EXTENDS Integers, Sequences, FiniteSets, Functions

CONSTANTS Txs,               \* transactions: [ins, outs], sets of P2C outpoints
          PayingCoinbases,   \* heights whose coinbase may pay to a bounty
          MaxBlockTxs,       \* bound on a block, the coinbase aside
          MaxHeight,         \* bound on the active chain
          MaxTips,           \* bound on the tips that are active during one scan
          recent_blocks,     \* how far a wallet looks back; 0: no limit
          None

Coinbases(height) ==
    {[ins |-> {}, outs |-> {}]} \cup
    (IF height \in PayingCoinbases THEN {[ins |-> {}, outs |-> {<<"coinbase", height>>}]} ELSE {})

\* Every block there may be, valid or not.
AllTxs == Txs \cup UNION {Coinbases(height) : height \in 1..MaxHeight}
AllBlocks == UNION {[1..n -> AllTxs] : n \in 1..(MaxBlockTxs + 1)}

\* An outpoint holds the hash of the transaction that created it.
ASSUME CatalogAssumption ==
    /\ {MaxBlockTxs, MaxHeight, MaxTips, recent_blocks} \subseteq Nat
    /\ \A tx, other \in Txs : tx # other => tx.outs \cap other.outs = {}
    /\ \A tx \in Txs, height \in 1..MaxHeight : <<"coinbase", height>> \notin tx.outs
    /\ \A n \in 0..MaxHeight : None \notin [1..n -> AllBlocks]

VARIABLES chain,             \* the active chain
          m_p2c_tip,         \* the chain the catalog is of, or None
          m_p2c_bounties,    \* [m_coins, m_by_height]
          pc,                \* the scan, while it holds m_p2c_mutex
          target, fork,      \* its locals
          applied,           \* how many transactions of the block at hand it applied
          cursor,            \* the chain flushed for rebuild's database cursor
          snapshot,          \* what the scan that just ended handed out, or None
          seen               \* the chains that were active since it began

chainVars == <<chain, seen>>
catalogVars == <<m_p2c_tip, m_p2c_bounties>>
vars == <<chainVars, catalogVars, pc, target, fork, applied, cursor, snapshot>>

-----------------------------------------------------------------------------
(* Chains                                                                  *)

Confirmed(c) == UNION {Range(c[i]) : i \in DOMAIN c}
Created(txs) == UNION {tx.outs : tx \in txs}
Spent(txs) == UNION {tx.ins : tx \in txs}

\* What the blocks of c leave unspent, with the height each was created at: the
\* P2C part of the UTXO set.
Coins(c) ==
    LET unspent == Created(Confirmed(c)) \ Spent(Confirmed(c))
    IN  [o \in unspent |-> CHOOSE h \in DOMAIN c : o \in Created(Range(c[h]))]

\* A block that validation accepts on c.
Valid(c, block) ==
    \A i \in 2..Len(block) :
        LET before == Confirmed(c) \cup {block[j] : j \in 1..(i - 1)}
        IN  block[i] \notin before /\ block[i].ins \subseteq Created(before) \ Spent(before)

-----------------------------------------------------------------------------
(* P2CBountyCatalog                                                        *)

EmptyCatalog == [m_coins |-> <<>>, m_by_height |-> {}]

\* Erase, for each outpoint of a set.  m_by_height is a set of height, outpoint
\* pairs; the pair to go is found through m_coins.
Erase(catalog, outpoints) ==
    [m_coins |-> Restrict(catalog.m_coins, DOMAIN catalog.m_coins \ outpoints),
     m_by_height |-> catalog.m_by_height \
                       {<<catalog.m_coins[o], o>> : o \in outpoints \cap DOMAIN catalog.m_coins}]

\* Insert, for each outpoint of a map from outpoints to creation heights.
Insert(catalog, coins) ==
    LET rest == Erase(catalog, DOMAIN coins)
    IN  [m_coins |-> [o \in DOMAIN rest.m_coins \cup DOMAIN coins |->
                        IF o \in DOMAIN coins THEN coins[o] ELSE rest.m_coins[o]],
         m_by_height |-> rest.m_by_height \cup {<<coins[o], o>> : o \in DOMAIN coins}]

Snapshot(catalog, min_height) ==
    LET recent == {p \in catalog.m_by_height : p[1] >= min_height}
    IN  [o \in {p[2] : p \in recent} |-> catalog.m_coins[o]]

\* One transaction of a block that is connected.
ConnectTx(catalog, tx, height) ==
    Insert(Erase(catalog, tx.ins), [o \in tx.outs |-> height])

\* One transaction of a block that is disconnected, with its undo data.
DisconnectTx(catalog, tx, previous) == Insert(Erase(catalog, tx.outs), previous)

\* The undo data of index: the coins tx spent, as they were before.
Undo(index, tx) == [o \in tx.ins |-> CHOOSE h \in DOMAIN index : o \in Created(Range(index[h]))]

LastCommonAncestor(c, d) ==
    LET common == {k \in 0..Len(c) : k <= Len(d) /\ SubSeq(c, 1, k) = SubSeq(d, 1, k)}
    IN  SubSeq(c, 1, CHOOSE k \in common : \A j \in common : j <= k)

-----------------------------------------------------------------------------
(* scanP2CBounties                                                         *)

Init ==
    /\ chain = <<>> /\ seen = {}
    /\ m_p2c_tip = None /\ m_p2c_bounties = EmptyCatalog
    /\ pc = "idle"
    /\ target = <<>> /\ fork = <<>> /\ applied = 0 /\ cursor = <<>>
    /\ snapshot = None

\* The lock is taken; without a catalog the first thing is to build one.
StartScan ==
    /\ pc = "idle"
    /\ pc' = IF m_p2c_tip = None THEN "load" ELSE "target"
    /\ seen' = {chain}
    /\ snapshot' = None
    /\ UNCHANGED <<chain, catalogVars, target, fork, applied, cursor>>

EndScan == pc' = "idle" /\ target' = <<>> /\ fork' = <<>> /\ applied' = 0 /\ cursor' = <<>>

\* cancelled(), or an error that leaves the catalog as it is.
GiveUp ==
    /\ pc \in {"load", "loading", "target", "reload", "reloading", "snapshot"}
    /\ EndScan
    /\ UNCHANGED <<chainVars, catalogVars, snapshot>>

\* rebuild, first thing ("load") or after a failed update ("reload"): flush under
\* cs_main, and open a cursor on what was flushed.
RebuildFlush ==
    /\ pc \in {"load", "reload"}
    /\ cursor' = chain
    /\ pc' = IF pc = "load" THEN "loading" ELSE "reloading"
    /\ UNCHANGED <<chainVars, catalogVars, target, fork, applied, snapshot>>

\* Mutant: the catalog is dated by the tip at the end of the cursor's walk.
RebuildDoneLate ==
    /\ pc \in {"loading", "reloading"}
    /\ m_p2c_bounties' = Insert(EmptyCatalog, Coins(cursor))
    /\ m_p2c_tip' = chain
    /\ pc' = IF pc = "loading" THEN "target" ELSE "snapshot"
    /\ UNCHANGED <<chainVars, target, fork, applied, cursor, snapshot>>

\* The cursor is at its end: the fresh catalog is of the cursor's best block.
RebuildDone ==
    /\ pc \in {"loading", "reloading"}
    /\ m_p2c_bounties' = Insert(EmptyCatalog, Coins(cursor))
    /\ m_p2c_tip' = cursor
    /\ pc' = IF pc = "loading" THEN "target" ELSE "snapshot"
    /\ UNCHANGED <<chainVars, target, fork, applied, cursor, snapshot>>

\* Under cs_main: the tip to follow, and the fork point.
TakeTarget ==
    /\ pc = "target"
    /\ target' = chain
    /\ fork' = LastCommonAncestor(m_p2c_tip, chain)
    /\ pc' = "undo"
    /\ UNCHANGED <<chainVars, catalogVars, applied, cursor, snapshot>>

\* The block the update is at, if any: undo down to the fork, connect up to target.
Undoing == pc = "undo" /\ m_p2c_tip # fork
Connecting == pc = "connect" /\ m_p2c_tip # target
Index == IF Undoing THEN m_p2c_tip ELSE SubSeq(target, 1, Len(m_p2c_tip) + 1)

\* Mutant: undo visits the block's transactions in block order.
PositionForwardOnly(block) == applied + 1

\* The transaction that ApplyP2CBountyBlock comes to.
Position(block) == IF Undoing THEN Len(block) - applied ELSE applied + 1

ApplyTx(block, tx) ==
    /\ m_p2c_bounties' = IF Undoing THEN DisconnectTx(m_p2c_bounties, tx, Undo(Index, tx))
                                    ELSE ConnectTx(m_p2c_bounties, tx, Len(Index))
    /\ IF applied + 1 < Len(block) THEN applied' = applied + 1 /\ UNCHANGED m_p2c_tip
       ELSE applied' = 0 /\ m_p2c_tip' = IF Undoing THEN SubSeq(m_p2c_tip, 1, Len(m_p2c_tip) - 1) ELSE Index

\* A step of ApplyP2CBountyBlock; the last one of a block moves the catalog's tip.
ApplyStep ==
    /\ Undoing \/ Connecting
    /\ LET block == Index[Len(Index)] IN ApplyTx(block, block[Position(block)])
    /\ UNCHANGED <<chainVars, pc, target, fork, cursor, snapshot>>

\* The block or its undo data cannot be read (pruned), cancelled() becomes true
\* before one of its transactions, or an exception leaves one half applied: the
\* catalog is dropped, and the scan ends (cancelled, exception) or rebuilds it.
ApplyFails ==
    /\ Undoing \/ Connecting
    /\ m_p2c_tip' = None /\ m_p2c_bounties' = EmptyCatalog
    /\ \/ EndScan
       \/ pc' = "reload" /\ applied' = 0 /\ UNCHANGED <<target, fork, cursor>>
    /\ UNCHANGED <<chainVars, snapshot>>

\* Mutant: a scan whose target is no longer the tip starts over.
UpdateDoneRetarget ==
    /\ pc \in {"undo", "connect"} /\ ~Undoing /\ ~Connecting
    /\ pc' = IF pc = "undo" THEN "connect" ELSE IF chain # target THEN "target" ELSE "snapshot"
    /\ UNCHANGED <<chainVars, catalogVars, target, fork, applied, cursor, snapshot>>

UpdateDone ==
    /\ pc \in {"undo", "connect"} /\ ~Undoing /\ ~Connecting
    /\ pc' = IF pc = "undo" THEN "connect" ELSE "snapshot"
    /\ UNCHANGED <<chainVars, catalogVars, target, fork, applied, cursor, snapshot>>

MinHeight(tip) ==
    IF recent_blocks > 0 /\ Len(tip) - recent_blocks + 1 > 0 THEN Len(tip) - recent_blocks + 1 ELSE 0

\* The snapshot is taken, the lock released, and the wallet's visitor called.
TakeSnapshot ==
    /\ pc = "snapshot"
    /\ snapshot' = Snapshot(m_p2c_bounties, MinHeight(m_p2c_tip))
    /\ EndScan
    /\ UNCHANGED <<chainVars, catalogVars>>

ScanStep ==
    \/ GiveUp \/ RebuildFlush \/ RebuildDone \/ TakeTarget \/ ApplyStep \/ ApplyFails
    \/ UpdateDone \/ TakeSnapshot

\* Validation connects or disconnects the tip.
MoveTip(new) ==
    /\ chain' = new
    /\ IF pc = "idle"
         THEN seen' = {} /\ snapshot' = None
         ELSE seen' = seen \cup {new} /\ Cardinality(seen') <= MaxTips /\ UNCHANGED snapshot
    /\ UNCHANGED <<catalogVars, pc, target, fork, applied, cursor>>
ConnectTip ==
    /\ Len(chain) < MaxHeight
    /\ \E coinbase \in Coinbases(Len(chain) + 1), n \in 0..MaxBlockTxs : \E txs \in [1..n -> Txs] :
         LET block == <<coinbase>> \o txs IN Valid(chain, block) /\ MoveTip(Append(chain, block))
DisconnectTip == chain # <<>> /\ MoveTip(SubSeq(chain, 1, Len(chain) - 1))

Next == StartScan \/ ScanStep \/ ConnectTip \/ DisconnectTip

\* The thread that scans keeps running.  A scan that has not ended always has a
\* step, so this is weak fairness of ScanStep without ENABLED, which is slow here.
Fairness == []<>(pc = "idle") \/ []<><<ScanStep>>_vars

Spec == Init /\ [][Next]_vars /\ Fairness

-----------------------------------------------------------------------------
(* Properties                                                              *)

\* The catalog is exactly the P2C part of the UTXO set of the block it is dated
\* by, in both indexes, through reorganisations, spends inside the block that
\* created the output, transactions confirmed again at another height, failed
\* reads and cancellation ("A partially applied block must never become a
\* published catalog", interfaces.cpp:734).
CatalogMatchesTip ==
    applied = 0 =>
        LET coins == IF m_p2c_tip = None THEN <<>> ELSE Coins(m_p2c_tip)
        IN  /\ m_p2c_bounties.m_coins = coins
            /\ m_p2c_bounties.m_by_height = {<<coins[o], o>> : o \in DOMAIN coins}

\* A wallet is given the recent bounties of a chain that was the active one at
\* some moment of its scan, never a mixture of two: no spent bounty, and none of
\* the window missing (scanP2CBounties, interfaces.cpp:726-773).
SnapshotConsistent ==
    pc = "idle" /\ snapshot # None =>
        \E c \in seen :
            LET recent == {o \in DOMAIN Coins(c) : recent_blocks = 0 \/ Coins(c)[o] > Len(c) - recent_blocks}
            IN  snapshot = Restrict(Coins(c), recent)

\* A scan ends although the chain keeps moving: it follows the tip it saw once.
ScanEnds == pc # "idle" ~> pc = "idle"
=============================================================================

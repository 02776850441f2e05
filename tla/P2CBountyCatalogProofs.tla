----------------------- MODULE P2CBountyCatalogProofs -----------------------
(***************************************************************************)
(* The catalog is the P2C part of the UTXO set of the block it is dated by *)
(* for every set of transactions, every size of blocks and every height.   *)
(*                                                                         *)
(* Between two transactions of a block the catalog is that of the part of  *)
(* the block that is applied.  A transaction is undone from what the later *)
(* ones left, so the two directions meet at the same catalog; that a block *)
(* spends only what exists, and that an outpoint is created once in a      *)
(* chain, is all the argument needs of validation.                         *)
(***************************************************************************)
EXTENDS P2CBountyCatalog, WellFoundedInduction, TLAPS

\* Zenon is the prover of this module; a leaf that needs another one names it.
USE Zenon

\* What validation accepted of block b on top of c (ConnectTip).
Accepted(c, b) ==
    /\ b \in AllBlocks
    /\ b[1] \in Coinbases(Len(c) + 1)
    /\ \A i \in 2..Len(b) : b[i] \in Txs
    /\ Valid(c, b)
ChainOK(c) ==
    /\ c \in Seq(AllBlocks) /\ Len(c) <= MaxHeight
    /\ \A h \in 1..Len(c) : Accepted(SubSeq(c, 1, h - 1), c[h])

Pprev(c) == SubSeq(c, 1, Len(c) - 1)
Prefix(c, d) == Len(c) <= Len(d) /\ c = SubSeq(d, 1, Len(c))

\* The coins and the catalog after the first k transactions of the last block of c.
Before(c, k) == Confirmed(Pprev(c)) \cup {c[Len(c)][j] : j \in 1..k}
PrecedesIn(c, g, j, tx) ==
    \/ \E h \in 1..(g - 1) : \E i \in 1..Len(c[h]) : tx = c[h][i]
    \/ \E i \in 1..j : tx = c[g][i]
HeightIn(c, o) == CHOOSE h \in DOMAIN c : o \in Created(Range(c[h]))
Unspent(txs) == Created(txs) \ Spent(txs)
PartCoins(c, k) == [o \in Unspent(Before(c, k)) |-> HeightIn(c, o)]
FunctionOn(f, D) == f = [o \in D |-> f[o]]
Catalog(coins) == [m_coins |-> coins, m_by_height |-> {<<coins[o], o>> : o \in DOMAIN coins}]
TipCoins == IF m_p2c_tip = None THEN <<>> ELSE Coins(m_p2c_tip)

\* Where the scan is.
Fits ==
    /\ pc \in {"idle", "load", "loading", "target", "undo", "connect", "reload", "reloading", "snapshot"}
    /\ ChainOK(chain) /\ ChainOK(target) /\ ChainOK(cursor)
    /\ m_p2c_tip # None => ChainOK(m_p2c_tip)
    /\ pc \in {"target", "undo", "connect", "snapshot"} => m_p2c_tip # None
    /\ pc = "undo" => Prefix(fork, m_p2c_tip) /\ Prefix(fork, target) /\ fork \in Seq(AllBlocks)
    /\ pc = "connect" => Prefix(m_p2c_tip, target)

\* What the catalog holds.
Held ==
    /\ applied \in Nat
    /\ applied = 0 => m_p2c_bounties = Catalog(TipCoins)
    /\ applied > 0 =>
         /\ Undoing \/ Connecting
         /\ applied < Len(Index[Len(Index)])
         /\ m_p2c_bounties =
              Catalog(PartCoins(Index, IF Undoing THEN Len(Index[Len(Index)]) - applied ELSE applied))

\* What the wallet is given is of a chain that was active during the scan.
Witnessed ==
    /\ pc # "idle" => chain \in seen /\ snapshot = None
    /\ pc \in {"loading", "reloading"} => cursor \in seen
    /\ pc \in {"undo", "connect"} => target \in seen
    /\ pc = "snapshot" => m_p2c_tip \in seen

CatalogInv == Fits /\ Held /\ Witnessed /\ SnapshotConsistent

-----------------------------------------------------------------------------
(* Numbers and sequences                                                   *)

\* A set of natural numbers has a least one.
LEMMA LeastNat == ASSUME NEW T \in SUBSET Nat, T # {} PROVE \E x \in T : \A y \in T : x <= y
  <1>. DEFINE R == OpToRel(<, Nat)
  <1>1. \A x, y \in Nat : <<y, x>> \in R <=> y < x
    BY DEF OpToRel
  <1>2. IsWellFoundedOn(R, Nat)
    BY NatLessThanWellFounded
  <1>. HIDE DEF R
  <1>3. \E x \in T : \A y \in T : ~(<<y, x>> \in R)
    BY ONLY <1>2, WFMin, T \subseteq Nat, T # {}
  <1>4. PICK x \in T : \A y \in T : ~(<<y, x>> \in R)
    BY <1>3
  <1>5. x \in Nat /\ \A y \in T : y \in Nat
    OBVIOUS
  <1>6. \A y \in T : ~(y < x)
    BY <1>1, <1>4, <1>5
  <1>7. \A y \in T : x <= y
    BY ONLY <1>5, <1>6, SMT
  <1>. QED BY <1>7

\* The first k elements of a sequence.
LEMMA SubSeqFacts ==
  ASSUME NEW S, NEW s \in Seq(S), NEW k \in 0..Len(s)
  PROVE  /\ SubSeq(s, 1, k) \in Seq(S) /\ Len(SubSeq(s, 1, k)) = k
         /\ \A i \in 1..k : SubSeq(s, 1, k)[i] = s[i]
         /\ \A j \in 0..k : SubSeq(SubSeq(s, 1, k), 1, j) = SubSeq(s, 1, j)
         /\ k = Len(s) => SubSeq(s, 1, k) = s
  <1>. DEFINE t == SubSeq(s, 1, k)
  <1>1. t \in Seq(S) /\ Len(t) = k /\ \A i \in 1..k : t[i] = s[i]
    BY SMT
  <1>2. k = Len(s) => t = s
    BY SMT
  <1>3. ASSUME NEW j \in 0..k PROVE SubSeq(t, 1, j) = SubSeq(s, 1, j)
    <2>. HIDE DEF t
    <2>1. Len(SubSeq(t, 1, j)) = j /\ Len(SubSeq(s, 1, j)) = j /\ SubSeq(t, 1, j) \in Seq(S) /\ SubSeq(s, 1, j) \in Seq(S)
      BY <1>1, SMT
    <2>2. \A i \in 1..j : SubSeq(t, 1, j)[i] = t[i] /\ SubSeq(s, 1, j)[i] = s[i] /\ t[i] = s[i]
      BY <1>1, SMT
    <2>. QED BY <2>1, <2>2, SMT
  <1>. QED BY <1>1, <1>2, <1>3

\* LastCommonAncestor (chain.cpp) is an ancestor of both chains.
LEMMA Ancestor ==
  ASSUME NEW S, NEW c \in Seq(S), NEW d \in Seq(S)
  PROVE  LET a == LastCommonAncestor(c, d) IN a \in Seq(S) /\ Prefix(a, c) /\ Prefix(a, d)
  <1>. DEFINE common == {k \in 0..Len(c) : k <= Len(d) /\ SubSeq(c, 1, k) = SubSeq(d, 1, k)}
              m == CHOOSE k \in common : \A j \in common : j <= k
              left == {Len(c) - k : k \in common}
  <1>1. 0 \in common
    BY SMT DEF common
  <1>2. left \in SUBSET Nat /\ left # {}
    BY <1>1, SMT
  <1>3. PICK x \in left : \A y \in left : x <= y
    BY <1>2, LeastNat
  <1>4. PICK k \in common : x = Len(c) - k
    BY <1>3
  <1>5. ASSUME NEW j \in common PROVE j <= k
    <2>1. Len(c) - j \in left /\ j \in Int /\ k \in Int /\ Len(c) \in Int
      BY SMT
    <2>2. Len(c) - k <= Len(c) - j
      BY <1>3, <1>4, <2>1
    <2>. QED BY <2>1, <2>2, SMT
  <1>6. m \in common
    BY <1>4, <1>5
  <1>. HIDE DEF m
  <1>7. m \in 0..Len(c) /\ m <= Len(d) /\ SubSeq(c, 1, m) = SubSeq(d, 1, m)
    BY <1>6
  <1>8. LastCommonAncestor(c, d) = SubSeq(c, 1, m)
    BY DEF LastCommonAncestor, m
  <1>9. SubSeq(c, 1, m) \in Seq(S) /\ Len(SubSeq(c, 1, m)) = m
    BY <1>7, SubSeqFacts, SMT
  <1>. QED BY <1>7, <1>8, <1>9, SMT DEF Prefix

-----------------------------------------------------------------------------
(* Chains                                                                  *)

\* A block is a sequence of transactions, the coinbase included.
LEMMA BlockFacts ==
  ASSUME NEW b \in AllBlocks
  PROVE  /\ b \in Seq(AllTxs) /\ Len(b) \in Nat /\ Len(b) >= 1 /\ DOMAIN b = 1..Len(b)
         /\ \A tx : tx \in Range(b) <=> \E i \in 1..Len(b) : tx = b[i]
  <1>1. PICK n \in 1..(MaxBlockTxs + 1) : b \in [1..n -> AllTxs]
    BY DEF AllBlocks
  <1>2. n \in Nat /\ n >= 1
    BY <1>1, CatalogAssumption, SMT
  <1>3. b \in Seq(AllTxs) /\ Len(b) = n /\ DOMAIN b = 1..n
    BY <1>1, <1>2, SMT
  <1>. QED BY <1>2, <1>3 DEF Range

\* An ancestor of a chain is a chain.
LEMMA PrefixOK ==
  ASSUME NEW c, ChainOK(c), NEW k \in 0..Len(c)
  PROVE  ChainOK(SubSeq(c, 1, k))
  <1>. DEFINE d == SubSeq(c, 1, k)
  <1>1. c \in Seq(AllBlocks) /\ Len(c) \in Nat /\ Len(c) <= MaxHeight /\ MaxHeight \in Nat
    BY CatalogAssumption, SMT DEF ChainOK
  <1>2. /\ d \in Seq(AllBlocks) /\ Len(d) = k
        /\ \A i \in 1..k : d[i] = c[i]
        /\ \A j \in 0..k : SubSeq(d, 1, j) = SubSeq(c, 1, j)
    BY <1>1, SubSeqFacts, SMT
  <1>. HIDE DEF d
  <1>3. ASSUME NEW h \in 1..Len(d) PROVE Accepted(SubSeq(d, 1, h - 1), d[h])
    <2>1. h \in 1..Len(c) /\ h \in 1..k /\ h - 1 \in 0..k
      BY <1>1, <1>2, SMT
    <2>2. Accepted(SubSeq(c, 1, h - 1), c[h])
      BY <2>1 DEF ChainOK
    <2>. QED BY <2>1, <2>2, <1>2
  <1>4. ChainOK(d)
    BY <1>1, <1>2, <1>3, SMT DEF ChainOK
  <1>. QED BY <1>4 DEF d

\* ConnectTip makes a chain of a chain.
LEMMA AppendOK ==
  ASSUME NEW c, ChainOK(c), Len(c) < MaxHeight, NEW coinbase \in Coinbases(Len(c) + 1),
         NEW n \in 0..MaxBlockTxs, NEW txs \in [1..n -> Txs], NEW b, b = <<coinbase>> \o txs, Valid(c, b)
  PROVE  ChainOK(Append(c, b))
  <1>. DEFINE d == Append(c, b)
  <1>1. c \in Seq(AllBlocks) /\ Len(c) \in Nat /\ MaxHeight \in Nat /\ MaxBlockTxs \in Nat /\ Len(c) + 1 \in 1..MaxHeight
    BY CatalogAssumption, SMT DEF ChainOK
  <1>2. Accepted(c, b)
    <2>3. n \in Nat /\ n + 1 \in 1..(MaxBlockTxs + 1) /\ txs \in Seq(Txs) /\ Len(txs) = n
      BY <1>1, SMT
    <2>4. coinbase \in AllTxs
      BY <1>1 DEF AllTxs
    <2>5. \A i \in 1..n : txs[i] \in Txs /\ txs[i] \in AllTxs
      BY DEF AllTxs
    <2>6. /\ Len(b) = n + 1 /\ DOMAIN b = 1..(n + 1) /\ b[1] = coinbase
          /\ \A i \in 2..(n + 1) : b[i] = txs[i - 1]
      <3>1. <<coinbase>> \in Seq(AllTxs) /\ txs \in Seq(AllTxs) /\ Len(<<coinbase>>) = 1
        BY <2>3, <2>4, <2>5, SMT
      <3>. QED BY <2>3, <3>1, SMT
    <2>7. \A i \in 2..(n + 1) : b[i] \in Txs
      BY <2>3, <2>5, <2>6, SMT
    <2>8. \A i \in 1..(n + 1) : b[i] \in AllTxs
      BY <2>3, <2>4, <2>6, <2>7, SMT DEF AllTxs
    <2>9. b \in [1..(n + 1) -> AllTxs]
      <3>1. b = [i \in 1..(n + 1) |-> b[i]]
        BY <2>3, <2>4, <2>5, <2>6, SMT
      <3>. QED BY <2>8, <3>1
    <2>10. b \in AllBlocks
      BY <2>3, <2>9 DEF AllBlocks
    <2>. QED BY <2>6, <2>7, <2>10 DEF Accepted
  <1>3. b \in AllBlocks
    BY <1>2 DEF Accepted
  <1>4. d \in Seq(AllBlocks) /\ Len(d) = Len(c) + 1 /\ d[Len(c) + 1] = b /\ \A i \in 1..Len(c) : d[i] = c[i]
    BY <1>1, <1>3, SMT
  <1>5. SubSeq(d, 1, Len(c)) = c
    BY <1>1, <1>3, SMT
  <1>. HIDE DEF d
  <1>6. ASSUME NEW h \in 1..Len(d) PROVE Accepted(SubSeq(d, 1, h - 1), d[h])
    <2>1. CASE h = Len(c) + 1
      <3>1. h - 1 = Len(c)
        BY <1>1, <2>1, SMT
      <3>. QED BY <1>2, <1>4, <1>5, <2>1, <3>1
    <2>2. CASE h # Len(c) + 1
      <3>1. h \in 1..Len(c) /\ h - 1 \in 0..Len(c)
        BY <1>1, <1>4, <2>2, SMT
      <3>2. SubSeq(c, 1, h - 1) = SubSeq(d, 1, h - 1)
        <4>1. Len(c) \in 0..Len(d)
          BY <1>1, <1>4, SMT
        <4>. QED BY <1>4, <1>5, <3>1, <4>1, SubSeqFacts, SMT
      <3>. QED BY <1>4, <3>1, <3>2 DEF ChainOK
    <2>. QED BY <2>1, <2>2
  <1>7. ChainOK(d)
    BY <1>1, <1>4, <1>6, SMT DEF ChainOK
  <1>. QED BY <1>7 DEF d

\* The transactions of a chain by their positions.
LEMMA Positions ==
  ASSUME NEW c, ChainOK(c)
  PROVE  /\ c \in Seq(AllBlocks) /\ Len(c) \in Nat /\ DOMAIN c = 1..Len(c)
         /\ \A h \in 1..Len(c) : c[h] \in AllBlocks /\ Len(c[h]) \in Nat /\ Len(c[h]) >= 1
         /\ \A tx : tx \in Confirmed(c) <=> \E h \in 1..Len(c) : \E i \in 1..Len(c[h]) : tx = c[h][i]
         /\ \A h \in 1..Len(c) : \A tx : tx \in Range(c[h]) <=> \E i \in 1..Len(c[h]) : tx = c[h][i]
  <1>1. c \in Seq(AllBlocks) /\ Len(c) \in Nat /\ DOMAIN c = 1..Len(c) /\ \A h \in 1..Len(c) : c[h] \in AllBlocks
    BY SMT DEF ChainOK
  <1>2. \A h \in 1..Len(c) : /\ Len(c[h]) \in Nat /\ Len(c[h]) >= 1
                             /\ \A tx : tx \in Range(c[h]) <=> \E i \in 1..Len(c[h]) : tx = c[h][i]
    BY <1>1, BlockFacts
  <1>3. ASSUME NEW tx PROVE tx \in Confirmed(c) <=> \E h \in 1..Len(c) : tx \in Range(c[h])
    BY <1>1 DEF Confirmed
  <1>4. ASSUME NEW tx
        PROVE  tx \in Confirmed(c) <=> \E h \in 1..Len(c) : \E i \in 1..Len(c[h]) : tx = c[h][i]
    <2>1. ASSUME tx \in Confirmed(c) PROVE \E h \in 1..Len(c) : \E i \in 1..Len(c[h]) : tx = c[h][i]
      <3>1. PICK h \in 1..Len(c) : tx \in Range(c[h])
        BY <1>3, <2>1
      <3>2. \E i \in 1..Len(c[h]) : tx = c[h][i]
        BY <1>2, <3>1
      <3>. QED BY <3>2
    <2>2. ASSUME NEW h \in 1..Len(c), NEW i \in 1..Len(c[h]), tx = c[h][i] PROVE tx \in Confirmed(c)
      <3>1. tx \in Range(c[h])
        BY <1>2, <2>2
      <3>. QED BY <1>3, <3>1
    <2>. QED BY <2>1, <2>2
  <1>. QED BY <1>1, <1>2, <1>4

\* A transaction of a chain has a position.
LEMMA ConfirmedAt ==
  ASSUME NEW c, ChainOK(c), NEW tx
  PROVE  tx \in Confirmed(c) <=> \E h \in 1..Len(c) : \E i \in 1..Len(c[h]) : tx = c[h][i]
  <1>1. \A ux : ux \in Confirmed(c) <=> \E h \in 1..Len(c) : \E i \in 1..Len(c[h]) : ux = c[h][i]
    BY Positions
  <1>. QED BY <1>1

\* A transaction that is not a coinbase differs from all before it, and spends what
\* they left.
LEMMA Fresh ==
  ASSUME NEW c, ChainOK(c), NEW g \in 1..Len(c), NEW j \in 2..Len(c[g])
  PROVE  /\ c[g][j] \in Txs
         /\ c[g][j] \notin Before(SubSeq(c, 1, g), j - 1)
         /\ c[g][j].ins \subseteq Unspent(Before(SubSeq(c, 1, g), j - 1))
  <1>1. Accepted(SubSeq(c, 1, g - 1), c[g])
    BY DEF ChainOK
  <1>2. c \in Seq(AllBlocks) /\ g \in 0..Len(c) /\ g - 1 \in 0..g /\ g \in 1..g
    BY Positions, SMT
  <1>3. Len(SubSeq(c, 1, g)) = g /\ SubSeq(c, 1, g)[g] = c[g] /\ SubSeq(SubSeq(c, 1, g), 1, g - 1) = SubSeq(c, 1, g - 1)
    BY <1>2, SubSeqFacts, SMT
  <1>4. Before(SubSeq(c, 1, g), j - 1) = Confirmed(SubSeq(c, 1, g - 1)) \cup {c[g][k] : k \in 1..(j - 1)}
    BY <1>3 DEF Before, Pprev
  <1>. QED BY <1>1, <1>4 DEF Accepted, Valid, Unspent

\* What is before a position of a chain.
LEMMA BeforeIs ==
  ASSUME NEW c, ChainOK(c), NEW g \in 1..Len(c), NEW j \in 0..Len(c[g]), NEW tx
  PROVE  tx \in Before(SubSeq(c, 1, g), j) <=> PrecedesIn(c, g, j, tx)
  <1>2. c \in Seq(AllBlocks) /\ g \in 0..Len(c) /\ g - 1 \in 0..g /\ g \in 1..g /\ g - 1 \in 0..Len(c)
    BY Positions, SMT
  <1>3. Len(SubSeq(c, 1, g)) = g /\ SubSeq(c, 1, g)[g] = c[g] /\ SubSeq(SubSeq(c, 1, g), 1, g - 1) = SubSeq(c, 1, g - 1)
    BY <1>2, SubSeqFacts, SMT
  <1>4. Before(SubSeq(c, 1, g), j) = Confirmed(SubSeq(c, 1, g - 1)) \cup {c[g][k] : k \in 1..j}
    BY <1>3 DEF Before, Pprev
  <1>. DEFINE d == SubSeq(c, 1, g - 1)
  <1>5. ChainOK(d) /\ Len(d) = g - 1 /\ \A h \in 1..(g - 1) : d[h] = c[h]
    <2>1. ChainOK(d)
      BY <1>2, PrefixOK
    <2>. QED BY <1>2, <2>1, SubSeqFacts, SMT
  <1>. HIDE DEF d
  <1>6. tx \in Confirmed(d) <=> \E h \in 1..Len(d) : \E i \in 1..Len(d[h]) : tx = d[h][i]
    BY ONLY <1>5, ConfirmedAt, SMT
  <1>7. tx \in Confirmed(d) <=> \E h \in 1..(g - 1) : \E i \in 1..Len(c[h]) : tx = c[h][i]
    BY <1>5, <1>6
  <1>. QED BY <1>4, <1>7 DEF d, PrecedesIn

-----------------------------------------------------------------------------
(* Outpoints                                                               *)

\* A coinbase spends nothing, and its outpoint tells its height.
LEMMA CoinbaseOuts ==
  ASSUME NEW n, NEW tx \in Coinbases(n)
  PROVE  tx.ins = {} /\ \A o \in tx.outs : o = <<"coinbase", n>>
  BY SMT DEF Coinbases

\* What kind of transaction is at a position.
LEMMA Kinds ==
  ASSUME NEW c, ChainOK(c), NEW g \in 1..Len(c)
  PROVE  /\ 1 \in 1..Len(c[g]) /\ c[g][1] \in Coinbases(g)
         /\ \A i \in 1..Len(c[g]) : i # 1 => i \in 2..Len(c[g]) /\ c[g][i] \in Txs
  <1>1. Accepted(SubSeq(c, 1, g - 1), c[g])
    BY DEF ChainOK
  <1>2. c \in Seq(AllBlocks) /\ Len(c) \in Nat /\ Len(c[g]) \in Nat /\ Len(c[g]) >= 1
    BY Positions
  <1>3. g - 1 \in 0..Len(c)
    BY <1>2, SMT
  <1>4. Len(SubSeq(c, 1, g - 1)) = g - 1
    BY <1>2, <1>3, SubSeqFacts
  <1>5. Len(SubSeq(c, 1, g - 1)) + 1 = g
    BY <1>3, <1>4, SMT
  <1>. QED BY <1>1, <1>2, <1>5, SMT DEF Accepted

\* An outpoint of an earlier transaction is not one of a later transaction.
LEMMA NewOutpoints ==
  ASSUME NEW c, ChainOK(c), NEW g \in 1..Len(c), NEW j \in 1..Len(c[g]),
         NEW h \in 1..Len(c), NEW i \in 1..Len(c[h]), h < g \/ (h = g /\ i < j), NEW o \in c[h][i].outs
  PROVE  o \notin c[g][j].outs
  <1>1. Len(c) \in Nat /\ Len(c[g]) \in Nat /\ Len(c[h]) \in Nat /\ Len(c) <= MaxHeight /\ MaxHeight \in Nat
    BY Positions, CatalogAssumption DEF ChainOK
  <1>2. g \in 1..MaxHeight /\ h \in 1..MaxHeight
    BY <1>1, SMT
  <1>3. i = 1 => o = <<"coinbase", h>>
    BY Kinds, CoinbaseOuts
  <1>4. i # 1 => c[h][i] \in Txs
    BY Kinds
  <1>5. CASE j = 1
    <2>1. h # g
      BY <1>1, <1>5, SMT
    <2>2. \A p \in c[g][j].outs : p = <<"coinbase", g>>
      BY <1>5, Kinds, CoinbaseOuts
    <2>3. o # <<"coinbase", g>>
      BY <1>2, <1>3, <1>4, <2>1, CatalogAssumption, SMT
    <2>. QED BY <2>2, <2>3
  <1>6. CASE j # 1
    <2>0. \A k \in 1..Len(c[g]) : k # 1 => k \in 2..Len(c[g]) /\ c[g][k] \in Txs
      BY Kinds
    <2>1. j \in 2..Len(c[g]) /\ c[g][j] \in Txs /\ j - 1 \in 0..Len(c[g])
      BY <1>1, <1>6, <2>0, SMT
    <2>2. c[g][j] \notin Before(SubSeq(c, 1, g), j - 1)
      BY <2>1, Fresh
    <2>3. c[h][i] \in Before(SubSeq(c, 1, g), j - 1)
      <3>1. h \in 1..(g - 1) \/ (h = g /\ i \in 1..(j - 1))
        BY <1>1, SMT
      <3>2. PrecedesIn(c, g, j - 1, c[h][i])
        BY <3>1 DEF PrecedesIn
      <3>. QED BY <2>1, <3>2, BeforeIs
    <2>4. c[g][j] # c[h][i]
      BY <2>2, <2>3
    <2>. QED BY <1>2, <1>3, <1>4, <2>1, <2>4, CatalogAssumption
  <1>. QED BY <1>5, <1>6

\* An outpoint is created once in a chain.
LEMMA CreatedOnce ==
  ASSUME NEW c, ChainOK(c), NEW g \in 1..Len(c), NEW j \in 1..Len(c[g]),
         NEW h \in 1..Len(c), NEW i \in 1..Len(c[h]), NEW o, o \in c[h][i].outs, o \in c[g][j].outs
  PROVE  h = g /\ i = j
  <1>1. ~(h < g \/ (h = g /\ i < j))
    BY NewOutpoints
  <1>2. ~(g < h \/ (g = h /\ j < i))
    BY NewOutpoints
  <1>3. Len(c) \in Nat /\ Len(c[g]) \in Nat /\ Len(c[h]) \in Nat
    BY Positions
  <1>4. g \in Int /\ h \in Int /\ i \in Int /\ j \in Int
    BY <1>3, SMT
  <1>. QED BY <1>1, <1>2, <1>4, SMT

\* The height of an outpoint is that of its transaction.
LEMMA HeightOf ==
  ASSUME NEW c, ChainOK(c), NEW h \in 1..Len(c), NEW i \in 1..Len(c[h]), NEW o \in c[h][i].outs
  PROVE  HeightIn(c, o) = h
  <1>0. DOMAIN c = 1..Len(c) /\ \A g \in 1..Len(c) : c[g] \in AllBlocks
    BY Positions
  <1>1. ASSUME NEW g \in 1..Len(c), NEW tx PROVE tx \in Range(c[g]) <=> \E k \in 1..Len(c[g]) : tx = c[g][k]
    BY <1>0, BlockFacts
  <1>2. o \in Created(Range(c[h]))
    <2>1. c[h][i] \in Range(c[h])
      BY <1>1
    <2>. QED BY <2>1 DEF Created
  <1>3. ASSUME NEW g \in 1..Len(c), o \in Created(Range(c[g])) PROVE g = h
    <2>1. PICK tx \in Range(c[g]) : o \in tx.outs
      BY <1>3 DEF Created
    <2>2. PICK k \in 1..Len(c[g]) : tx = c[g][k]
      BY <1>1, <2>1
    <2>3. o \in c[g][k].outs
      BY <2>1, <2>2
    <2>. QED BY <2>3, CreatedOnce
  <1>. HIDE DEF Created
  <1>. QED BY <1>0, <1>2, <1>3 DEF HeightIn

-----------------------------------------------------------------------------
(* The coins after a part of a block                                       *)

\* Before the transaction after the first k of the last block.
LEMMA InBefore ==
  ASSUME NEW c, ChainOK(c), Len(c) >= 1, NEW k \in 0..Len(c[Len(c)]), NEW tx
  PROVE  tx \in Before(c, k) <=> PrecedesIn(c, Len(c), k, tx)
  <1>1. c \in Seq(AllBlocks) /\ Len(c) \in 1..Len(c) /\ Len(c) \in 0..Len(c)
    BY Positions, SMT
  <1>2. SubSeq(c, 1, Len(c)) = c
    BY <1>1, SubSeqFacts
  <1>3. tx \in Before(SubSeq(c, 1, Len(c)), k) <=> PrecedesIn(c, Len(c), k, tx)
    BY <1>1, BeforeIs
  <1>. QED BY <1>2, <1>3

\* A transaction spends what transactions before it created.
LEMMA SpendsEarlier ==
  ASSUME NEW c, ChainOK(c), NEW h \in 1..Len(c), NEW i \in 1..Len(c[h]), NEW o \in c[h][i].ins
  PROVE  \E ux \in Before(SubSeq(c, 1, h), i - 1) : o \in ux.outs
  <1>1. i \in 2..Len(c[h])
    BY Kinds, CoinbaseOuts
  <1>2. o \in Unspent(Before(SubSeq(c, 1, h), i - 1))
    BY <1>1, Fresh
  <1>. QED BY <1>2 DEF Unspent, Created

\* What is spent was created.
LEMMA SpentCreated ==
  ASSUME NEW c, ChainOK(c), Len(c) >= 1, NEW k \in 0..Len(c[Len(c)])
  PROVE  Spent(Before(c, k)) \subseteq Created(Before(c, k))
  <1>. SUFFICES ASSUME NEW o \in Spent(Before(c, k)) PROVE o \in Created(Before(c, k))
    OBVIOUS
  <1>1. PICK tx \in Before(c, k) : o \in tx.ins
    BY DEF Spent
  <1>2. Len(c) \in Nat /\ \A h \in 1..Len(c) : Len(c[h]) \in Nat
    BY Positions
  <1>3a. PICK h \in 1..Len(c) : \E i \in 1..Len(c[h]) : tx = c[h][i] /\ (h < Len(c) \/ i <= k)
    <2>1. \/ \E h \in 1..(Len(c) - 1) : \E i \in 1..Len(c[h]) : tx = c[h][i]
          \/ \E i \in 1..k : tx = c[Len(c)][i]
      BY <1>1, InBefore, SMT DEF PrecedesIn
    <2>2. ASSUME NEW h \in 1..(Len(c) - 1), NEW i \in 1..Len(c[h]), tx = c[h][i] PROVE \E g \in 1..Len(c) : \E j \in 1..Len(c[g]) : tx = c[g][j] /\ (g < Len(c) \/ j <= k)
      <3>1. h \in 1..Len(c) /\ h < Len(c)
        BY <1>2, SMT
      <3>. QED BY <2>2, <3>1
    <2>3. ASSUME NEW i \in 1..k, tx = c[Len(c)][i] PROVE \E g \in 1..Len(c) : \E j \in 1..Len(c[g]) : tx = c[g][j] /\ (g < Len(c) \/ j <= k)
      <3>1. Len(c) \in 1..Len(c) /\ i \in 1..Len(c[Len(c)]) /\ i <= k
        BY <1>2, SMT
      <3>. QED BY <2>3, <3>1
    <2>. QED BY <2>1, <2>2, <2>3
  <1>3. PICK i \in 1..Len(c[h]) : tx = c[h][i] /\ (h < Len(c) \/ i <= k)
    BY <1>3a
  <1>4. PICK ux \in Before(SubSeq(c, 1, h), i - 1) : o \in ux.outs
    BY <1>1, <1>3, SpendsEarlier
  <1>5. i - 1 \in 0..Len(c[h])
    BY <1>2, SMT
  <1>6. \/ \E g \in 1..(h - 1) : \E j \in 1..Len(c[g]) : ux = c[g][j]
        \/ \E j \in 1..(i - 1) : ux = c[h][j]
    <2>1. PrecedesIn(c, h, i - 1, ux)
      BY <1>4, <1>5, BeforeIs
    <2>. QED BY <2>1 DEF PrecedesIn
  <1>7. \/ \E g \in 1..(Len(c) - 1) : \E j \in 1..Len(c[g]) : ux = c[g][j]
        \/ \E j \in 1..k : ux = c[Len(c)][j]
    <2>1. ASSUME NEW g \in 1..(h - 1), NEW j \in 1..Len(c[g]), ux = c[g][j] PROVE \E a \in 1..(Len(c) - 1) : \E d \in 1..Len(c[a]) : ux = c[a][d]
      <3>1. g \in 1..(Len(c) - 1)
        BY <1>2, SMT
      <3>. QED BY <2>1, <3>1
    <2>2. ASSUME NEW j \in 1..(i - 1), ux = c[h][j], h < Len(c) PROVE \E a \in 1..(Len(c) - 1) : \E d \in 1..Len(c[a]) : ux = c[a][d]
      <3>1. h \in 1..(Len(c) - 1) /\ j \in 1..Len(c[h])
        BY <1>2, <2>2, SMT
      <3>. QED BY <2>2, <3>1
    <2>3. ASSUME NEW j \in 1..(i - 1), ux = c[h][j], ~(h < Len(c)) PROVE \E d \in 1..k : ux = c[Len(c)][d]
      <3>1. h = Len(c) /\ j \in 1..k
        BY <1>2, <1>3, <2>3, SMT
      <3>. QED BY <2>3, <3>1
    <2>. QED BY <1>6, <2>1, <2>2, <2>3
  <1>8. ux \in Before(c, k)
    BY <1>7, InBefore DEF PrecedesIn
  <1>. QED BY <1>4, <1>8 DEF Created

\* The next transaction of the block.
LEMMA NextTx ==
  ASSUME NEW c, ChainOK(c), Len(c) >= 1, NEW k \in 0..(Len(c[Len(c)]) - 1), NEW tx, tx = c[Len(c)][k + 1]
  PROVE  /\ tx.ins \subseteq Unspent(Before(c, k))
         /\ tx.outs \cap Created(Before(c, k)) = {}
         /\ Before(c, k + 1) = Before(c, k) \cup {tx}
         /\ \A o \in tx.outs : HeightIn(c, o) = Len(c)
  <1>1. /\ c \in Seq(AllBlocks) /\ Len(c) \in Nat /\ Len(c) \in 1..Len(c) /\ Len(c) \in 0..Len(c)
        /\ \A h \in 1..Len(c) : Len(c[h]) \in Nat
    BY Positions, SMT
  <1>2. SubSeq(c, 1, Len(c)) = c
    BY <1>1, SubSeqFacts
  <1>3. k + 1 \in 1..Len(c[Len(c)]) /\ k \in 0..Len(c[Len(c)]) /\ (k + 1) - 1 = k
    BY <1>1, SMT
  <1>4. tx.ins \subseteq Unspent(Before(c, k))
    <2>1. CASE k = 0
      BY <1>1, <2>1, Kinds, CoinbaseOuts, SMT
    <2>2. CASE k # 0
      <3>1. k + 1 \in 2..Len(c[Len(c)])
        BY <1>3, <2>2, SMT
      <3>2. c[Len(c)][k + 1].ins \subseteq Unspent(Before(SubSeq(c, 1, Len(c)), (k + 1) - 1))
        BY <1>1, <3>1, Fresh
      <3>. QED BY <1>2, <1>3, <3>2
    <2>. QED BY <2>1, <2>2
  <1>5. ASSUME NEW o \in tx.outs, o \in Created(Before(c, k)) PROVE FALSE
    <2>1. PICK ux \in Before(c, k) : o \in ux.outs
      BY <1>5 DEF Created
    <2>2. \/ \E h \in 1..(Len(c) - 1) : \E i \in 1..Len(c[h]) : ux = c[h][i]
          \/ \E i \in 1..k : ux = c[Len(c)][i]
      BY <1>3, <2>1, InBefore, SMT DEF PrecedesIn
    <2>3. ASSUME NEW h \in 1..(Len(c) - 1), NEW i \in 1..Len(c[h]), ux = c[h][i] PROVE FALSE
      <3>1. h \in 1..Len(c) /\ h < Len(c)
        BY <1>1, SMT
      <3>. QED BY <1>1, <1>3, <2>1, <2>3, <3>1, NewOutpoints
    <2>4. ASSUME NEW i \in 1..k, ux = c[Len(c)][i] PROVE FALSE
      <3>1. i \in 1..Len(c[Len(c)]) /\ i < k + 1
        BY <1>1, <1>3, SMT
      <3>. QED BY <1>1, <1>3, <2>1, <2>4, <3>1, NewOutpoints
    <2>. QED BY <2>2, <2>3, <2>4
  <1>6. Before(c, k + 1) = Before(c, k) \cup {tx}
    BY <1>3, SMT DEF Before
  <1>7. \A o \in tx.outs : HeightIn(c, o) = Len(c)
    BY <1>1, <1>3, HeightOf
  <1>. QED BY <1>4, <1>5, <1>6, <1>7

-----------------------------------------------------------------------------
(* P2CBountyCatalog                                                        *)

\* Erase and Insert keep both indexes of a catalog in step.
LEMMA EraseCat ==
  ASSUME NEW f, NEW D, FunctionOn(f, D), NEW S, NEW e, FunctionOn(e, D \ S), \A o \in D \ S : e[o] = f[o]
  PROVE  Erase(Catalog(f), S) = Catalog(e)
  <1>1. DOMAIN f = D /\ DOMAIN e = D \ S
    BY DEF FunctionOn
  <1>2. Restrict(f, D \ S) = e
    BY DEF Restrict, FunctionOn
  <1>3. {<<f[o], o>> : o \in D} \ {<<f[o], o>> : o \in S \cap D} = {<<e[o], o>> : o \in D \ S}
    BY SMT
  <1>. QED BY <1>1, <1>2, <1>3, SMT DEF Erase, Catalog

LEMMA InsertCat ==
  ASSUME NEW f, NEW D, FunctionOn(f, D), NEW g, NEW E, FunctionOn(g, E), NEW u, FunctionOn(u, D \cup E),
         \A o \in E : u[o] = g[o], \A o \in D \ E : u[o] = f[o]
  PROVE  Insert(Catalog(f), g) = Catalog(u)
  <1>. DEFINE r == [o \in D \ E |-> f[o]]
  <1>1. FunctionOn(r, D \ E) /\ \A o \in D \ E : r[o] = f[o]
    BY DEF FunctionOn
  <1>. HIDE DEF r
  <1>2. Erase(Catalog(f), E) = Catalog(r)
    BY <1>1, EraseCat, SMT
  <1>3. DOMAIN f = D /\ DOMAIN g = E /\ DOMAIN r = D \ E /\ DOMAIN u = D \cup E
    BY <1>1 DEF FunctionOn
  <1>4. [o \in (D \ E) \cup E |-> IF o \in E THEN g[o] ELSE r[o]] = u
    <2>1. u = [o \in D \cup E |-> u[o]] /\ (D \ E) \cup E = D \cup E
      BY DEF FunctionOn
    <2>2. \A o \in D \cup E : u[o] = IF o \in E THEN g[o] ELSE r[o]
      BY <1>1
    <2>. QED BY <2>1, <2>2
  <1>5. {<<r[o], o>> : o \in D \ E} \cup {<<g[o], o>> : o \in E} = {<<u[o], o>> : o \in D \cup E}
    BY <1>1
  <1>6. Catalog(r).m_coins = r /\ Catalog(r).m_by_height = {<<r[o], o>> : o \in D \ E}
    BY <1>3 DEF Catalog
  <1>7. Catalog(u) = [m_coins |-> u, m_by_height |-> {<<u[o], o>> : o \in D \cup E}]
    BY <1>3 DEF Catalog
  <1>8. Insert(Catalog(f), g) =
          [m_coins |-> [o \in (D \ E) \cup E |-> IF o \in E THEN g[o] ELSE r[o]],
           m_by_height |-> {<<r[o], o>> : o \in D \ E} \cup {<<g[o], o>> : o \in E}]
    BY <1>2, <1>3, <1>6 DEF Insert
  <1>. QED BY <1>4, <1>5, <1>7, <1>8

LEMMA NothingHeld == EmptyCatalog = Catalog(<<>>)
  <1>1. DOMAIN <<>> = {}
    BY SMT
  <1>2. {<<(<<>>)[o], o>> : o \in DOMAIN <<>>} = {}
    BY <1>1
  <1>. QED BY <1>2 DEF EmptyCatalog, Catalog

LEMMA InsertEmpty ==
  ASSUME NEW g, NEW E, FunctionOn(g, E)
  PROVE  Insert(EmptyCatalog, g) = Catalog(g)
  <1>1. EmptyCatalog = Catalog(<<>>)
    BY NothingHeld
  <1>2. FunctionOn(<<>>, {}) /\ {} \cup E = E
    BY SMT DEF FunctionOn
  <1>3. Insert(Catalog(<<>>), g) = Catalog(g)
    BY <1>2, InsertCat, SMT
  <1>. QED BY <1>1, <1>3

\* The snapshot of a catalog is the part of it from a height on.
LEMMA SnapshotCat ==
  ASSUME NEW f, NEW D, FunctionOn(f, D), NEW min, NEW T, T = {o \in D : f[o] >= min}
  PROVE  Snapshot(Catalog(f), min) = Restrict(f, T)
  <1>. DEFINE pairs == {<<f[o], o>> : o \in D}
              recent == {p \in pairs : p[1] >= min}
  <1>1. Catalog(f).m_by_height = pairs /\ Catalog(f).m_coins = f
    BY DEF Catalog, FunctionOn
  <1>2. {p[2] : p \in recent} = {o \in D : f[o] >= min}
    <2>1. ASSUME NEW o \in D, f[o] >= min PROVE o \in {p[2] : p \in recent}
      <3>1. <<f[o], o>> \in recent /\ <<f[o], o>>[2] = o
        BY <2>1
      <3>. QED BY <3>1
    <2>2. ASSUME NEW p \in recent PROVE p[2] \in {o \in D : f[o] >= min}
      <3>1. PICK o \in D : p = <<f[o], o>>
        OBVIOUS
      <3>. QED BY <3>1
    <2>. QED BY <2>1, <2>2
  <1>. HIDE DEF pairs
  <1>. QED BY <1>1, <1>2 DEF Snapshot, Restrict

-----------------------------------------------------------------------------
(* ApplyP2CBountyBlock                                                     *)

\* The unspent outpoints before and after the next transaction.
Moves(B, A, tx) == A = (B \ tx.ins) \cup tx.outs /\ B = (A \ tx.outs) \cup tx.ins

LEMMA NextUnspent ==
  ASSUME NEW c, ChainOK(c), Len(c) >= 1, NEW k \in 0..(Len(c[Len(c)]) - 1), NEW tx, tx = c[Len(c)][k + 1]
  PROVE  Moves(Unspent(Before(c, k)), Unspent(Before(c, k + 1)), tx)
  <1>1. /\ tx.ins \subseteq Unspent(Before(c, k))
        /\ tx.outs \cap Created(Before(c, k)) = {}
        /\ Before(c, k + 1) = Before(c, k) \cup {tx}
    BY NextTx, SMT
  <1>2. Spent(Before(c, k)) \subseteq Created(Before(c, k))
    <2>1. k \in 0..Len(c[Len(c)])
      BY Positions, SMT
    <2>. QED BY <2>1, SpentCreated
  <1>3. /\ Created(Before(c, k + 1)) = Created(Before(c, k)) \cup tx.outs
        /\ Spent(Before(c, k + 1)) = Spent(Before(c, k)) \cup tx.ins
    BY <1>1, SMT DEF Created, Spent
  <1>. QED BY <1>1, <1>2, <1>3 DEF Unspent, Moves

\* ConnectTx and DisconnectTx go from the coins before a transaction to those after
\* it, and back.
LEMMA ConnectPart ==
  ASSUME NEW c, ChainOK(c), Len(c) >= 1, NEW k \in 0..(Len(c[Len(c)]) - 1), NEW tx, tx = c[Len(c)][k + 1]
  PROVE  ConnectTx(Catalog(PartCoins(c, k)), tx, Len(c)) = Catalog(PartCoins(c, k + 1))
  <1>. DEFINE B == Unspent(Before(c, k))
              A == Unspent(Before(c, k + 1))
              f == PartCoins(c, k)
              u == PartCoins(c, k + 1)
              e == [o \in B \ tx.ins |-> f[o]]
              g == [o \in tx.outs |-> Len(c)]
  <1>0. Moves(Unspent(Before(c, k)), Unspent(Before(c, k + 1)), tx)
    BY NextUnspent
  <1>1. A = (B \ tx.ins) \cup tx.outs
    BY <1>0 DEF Moves
  <1>2. \A o \in tx.outs : HeightIn(c, o) = Len(c)
    BY NextTx
  <1>3. /\ FunctionOn(f, B) /\ FunctionOn(u, A)
        /\ \A o \in B : f[o] = HeightIn(c, o)
        /\ \A o \in A : u[o] = HeightIn(c, o)
    BY DEF PartCoins, FunctionOn
  <1>4. FunctionOn(e, B \ tx.ins) /\ \A o \in B \ tx.ins : e[o] = f[o]
    BY DEF FunctionOn
  <1>5. FunctionOn(g, tx.outs) /\ \A o \in tx.outs : g[o] = Len(c)
    BY DEF FunctionOn
  <1>6. ConnectTx(Catalog(f), tx, Len(c)) = Insert(Erase(Catalog(f), tx.ins), g)
    BY DEF ConnectTx
  <1>. HIDE DEF B, A, f, u, e, g
  <1>7. Erase(Catalog(f), tx.ins) = Catalog(e)
    BY <1>3, <1>4, EraseCat, SMT
  <1>8. FunctionOn(u, (B \ tx.ins) \cup tx.outs)
    BY <1>1, <1>3
  <1>9. \A o \in tx.outs : u[o] = g[o]
    BY <1>1, <1>2, <1>3, <1>5
  <1>10. \A o \in (B \ tx.ins) \ tx.outs : u[o] = e[o]
    BY <1>1, <1>3, <1>4
  <1>11. Insert(Catalog(e), g) = Catalog(u)
    BY ONLY <1>4, <1>5, <1>8, <1>9, <1>10, InsertCat, SMT
  <1>. QED BY <1>6, <1>7, <1>11 DEF f, u

LEMMA DisconnectPart ==
  ASSUME NEW c, ChainOK(c), Len(c) >= 1, NEW k \in 0..(Len(c[Len(c)]) - 1), NEW tx, tx = c[Len(c)][k + 1]
  PROVE  DisconnectTx(Catalog(PartCoins(c, k + 1)), tx, Undo(c, tx)) = Catalog(PartCoins(c, k))
  <1>. DEFINE B == Unspent(Before(c, k))
              A == Unspent(Before(c, k + 1))
              f == PartCoins(c, k + 1)
              u == PartCoins(c, k)
              e == [o \in A \ tx.outs |-> f[o]]
              g == Undo(c, tx)
  <1>0. Moves(Unspent(Before(c, k)), Unspent(Before(c, k + 1)), tx)
    BY NextUnspent
  <1>1. B = (A \ tx.outs) \cup tx.ins
    BY <1>0 DEF Moves
  <1>3. /\ FunctionOn(f, A) /\ FunctionOn(u, B)
        /\ \A o \in A : f[o] = HeightIn(c, o)
        /\ \A o \in B : u[o] = HeightIn(c, o)
    BY DEF PartCoins, FunctionOn
  <1>4. FunctionOn(e, A \ tx.outs) /\ \A o \in A \ tx.outs : e[o] = f[o]
    BY DEF FunctionOn
  <1>5. FunctionOn(g, tx.ins) /\ \A o \in tx.ins : g[o] = HeightIn(c, o)
    BY SMT DEF FunctionOn, Undo, HeightIn
  <1>6. DisconnectTx(Catalog(f), tx, g) = Insert(Erase(Catalog(f), tx.outs), g)
    BY DEF DisconnectTx
  <1>. HIDE DEF B, A, f, u, e, g
  <1>7. Erase(Catalog(f), tx.outs) = Catalog(e)
    BY <1>3, <1>4, EraseCat, SMT
  <1>8. FunctionOn(u, (A \ tx.outs) \cup tx.ins)
    BY <1>1, <1>3
  <1>9. \A o \in tx.ins : u[o] = g[o]
    BY <1>1, <1>3, <1>5
  <1>10. \A o \in (A \ tx.outs) \ tx.ins : u[o] = e[o]
    BY <1>1, <1>3, <1>4
  <1>11. Insert(Catalog(e), g) = Catalog(u)
    BY ONLY <1>4, <1>5, <1>8, <1>9, <1>10, InsertCat, SMT
  <1>. QED BY <1>6, <1>7, <1>11 DEF f, u, g

\* All of a block is applied, or none of it.
LEMMA PartFull ==
  ASSUME NEW c, ChainOK(c), Len(c) >= 1
  PROVE  PartCoins(c, Len(c[Len(c)])) = Coins(c)
  <1>. DEFINE k == Len(c[Len(c)])
  <1>1. Len(c) \in Nat /\ k \in Nat /\ k \in 0..Len(c[Len(c)])
    BY Positions, SMT
  <1>2. ASSUME NEW tx PROVE tx \in Before(c, k) <=> tx \in Confirmed(c)
    <2>1. tx \in Before(c, k) <=> PrecedesIn(c, Len(c), k, tx)
      BY <1>1, InBefore
    <2>2. tx \in Confirmed(c) <=> \E h \in 1..Len(c) : \E i \in 1..Len(c[h]) : tx = c[h][i]
      BY ConfirmedAt, SMT
    <2>3. ASSUME PrecedesIn(c, Len(c), k, tx) PROVE \E h \in 1..Len(c) : \E i \in 1..Len(c[h]) : tx = c[h][i]
      BY <1>1, <2>3, SMT DEF PrecedesIn
    <2>4. ASSUME NEW h \in 1..Len(c), NEW i \in 1..Len(c[h]), tx = c[h][i] PROVE PrecedesIn(c, Len(c), k, tx)
      <3>1. CASE h = Len(c)
        BY <2>4, <3>1 DEF PrecedesIn
      <3>2. CASE h # Len(c)
        <4>1. h \in 1..(Len(c) - 1)
          BY <1>1, <3>2, SMT
        <4>. QED BY <2>4, <4>1 DEF PrecedesIn
      <3>. QED BY <3>1, <3>2
    <2>. QED BY <2>1, <2>2, <2>3, <2>4
  <1>3. Before(c, k) = Confirmed(c)
    BY <1>2
  <1>. QED BY <1>3 DEF PartCoins, Coins, Unspent, HeightIn

LEMMA PartZero ==
  ASSUME NEW c, ChainOK(c), Len(c) >= 1
  PROVE  PartCoins(c, 0) = Coins(Pprev(c))
  <1>. DEFINE d == Pprev(c)
  <1>1. c \in Seq(AllBlocks) /\ Len(c) \in Nat /\ Len(c) - 1 \in 0..Len(c)
    BY Positions, SMT
  <1>2. ChainOK(d) /\ Len(d) = Len(c) - 1 /\ \A h \in 1..(Len(c) - 1) : d[h] = c[h]
    BY <1>1, PrefixOK, SubSeqFacts, ZenonT(30) DEF Pprev
  <1>3. Before(c, 0) = Confirmed(d)
    BY SMT DEF Before
  <1>. HIDE DEF d
  <1>4. ASSUME NEW o \in Created(Confirmed(d)) PROVE HeightIn(c, o) = HeightIn(d, o)
    <2>1. PICK tx \in Confirmed(d) : o \in tx.outs
      BY DEF Created
    <2>2. \E h \in 1..Len(d) : \E i \in 1..Len(d[h]) : tx = d[h][i]
      BY <1>2, <2>1, ConfirmedAt, SMT
    <2>3. PICK h \in 1..Len(d) : \E i \in 1..Len(d[h]) : tx = d[h][i]
      BY <2>2
    <2>3a. PICK i \in 1..Len(d[h]) : tx = d[h][i]
      BY <2>3
    <2>4. h \in 1..Len(c) /\ d[h] = c[h]
      BY <1>1, <1>2, SMT
    <2>5. HeightIn(d, o) = h
      BY <1>2, <2>1, <2>3a, HeightOf, SMT
    <2>6. HeightIn(c, o) = h
      BY <2>1, <2>3a, <2>4, HeightOf
    <2>. QED BY <2>5, <2>6
  <1>5. \A o \in Unspent(Confirmed(d)) : HeightIn(c, o) = HeightIn(d, o)
    BY <1>4 DEF Unspent
  <1>6. Coins(d) = [o \in Unspent(Confirmed(d)) |-> HeightIn(d, o)]
    BY DEF Coins, Unspent, HeightIn
  <1>7. PartCoins(c, 0) = [o \in Unspent(Confirmed(d)) |-> HeightIn(c, o)]
    BY <1>3 DEF PartCoins
  <1>8. PartCoins(c, 0) = Coins(d)
    BY <1>5, <1>6, <1>7
  <1>. QED BY <1>8 DEF d

\* A coin of a chain has a height of the chain.
LEMMA CoinHeights ==
  ASSUME NEW c, ChainOK(c)
  PROVE  /\ FunctionOn(Coins(c), Unspent(Confirmed(c)))
         /\ DOMAIN Coins(c) = Unspent(Confirmed(c))
         /\ \A o \in Unspent(Confirmed(c)) : Coins(c)[o] \in 1..Len(c)
  <1>1. Coins(c) = [o \in Unspent(Confirmed(c)) |-> HeightIn(c, o)]
    BY DEF Coins, Unspent, HeightIn
  <1>2. ASSUME NEW o \in Unspent(Confirmed(c)) PROVE HeightIn(c, o) \in 1..Len(c)
    <2>1. PICK tx \in Confirmed(c) : o \in tx.outs
      BY DEF Unspent, Created
    <2>2. \E h \in 1..Len(c) : \E i \in 1..Len(c[h]) : tx = c[h][i]
      BY <2>1, ConfirmedAt, SMT
    <2>3. PICK h \in 1..Len(c) : \E i \in 1..Len(c[h]) : tx = c[h][i]
      BY <2>2
    <2>4. PICK i \in 1..Len(c[h]) : tx = c[h][i]
      BY <2>3
    <2>5. HeightIn(c, o) = h
      BY <2>1, <2>4, HeightOf
    <2>. QED BY <2>5
  <1>. QED BY <1>1, <1>2 DEF FunctionOn

-----------------------------------------------------------------------------
(* The block at hand                                                       *)

\* A chain is not the missing tip.
LEMMA ChainNotNone == ASSUME NEW c, ChainOK(c) PROVE c # None
  <1>1. c \in Seq(AllBlocks) /\ Len(c) \in Nat /\ Len(c) <= MaxHeight /\ MaxHeight \in Nat
    BY Positions, CatalogAssumption DEF ChainOK
  <1>2. c \in [1..Len(c) -> AllBlocks] /\ Len(c) \in 0..MaxHeight
    BY <1>1, SMT
  <1>. QED BY <1>2, CatalogAssumption

LEMMA PrevFacts ==
  ASSUME NEW c, ChainOK(c), Len(c) >= 1
  PROVE  ChainOK(Pprev(c)) /\ Len(Pprev(c)) = Len(c) - 1 /\ Len(c) \in Nat
         /\ \A f \in Seq(AllBlocks) : Prefix(f, c) /\ f # c => Prefix(f, Pprev(c))
  <1>1. c \in Seq(AllBlocks) /\ Len(c) \in Nat /\ Len(c) - 1 \in 0..Len(c) /\ Len(c) \in 0..Len(c)
    BY Positions, SMT
  <1>2. ChainOK(Pprev(c)) /\ Len(Pprev(c)) = Len(c) - 1
    BY <1>1, PrefixOK, SubSeqFacts DEF Pprev
  <1>3. ASSUME NEW f \in Seq(AllBlocks), Prefix(f, c), f # c PROVE Prefix(f, Pprev(c))
    <2>1. Len(f) \in Nat /\ Len(f) <= Len(c) /\ f = SubSeq(c, 1, Len(f))
      BY <1>3, SMT DEF Prefix
    <2>2. Len(f) # Len(c)
      BY <1>1, <1>3, <2>1, SubSeqFacts
    <2>3. Len(f) \in 0..(Len(c) - 1)
      BY <1>1, <2>1, <2>2, SMT
    <2>4. SubSeq(SubSeq(c, 1, Len(c) - 1), 1, Len(f)) = SubSeq(c, 1, Len(f))
      BY <1>1, <2>3, SubSeqFacts, SMT
    <2>. QED BY <1>1, <1>2, <2>1, <2>3, <2>4, SMT DEF Prefix, Pprev
  <1>. QED BY <1>1, <1>2, <1>3

\* One block further towards the target.
LEMMA StepUp ==
  ASSUME NEW c, NEW t, ChainOK(c), ChainOK(t), Prefix(c, t), c # t,
         NEW d, d = SubSeq(t, 1, Len(c) + 1)
  PROVE  ChainOK(d) /\ Len(d) = Len(c) + 1 /\ Len(d) >= 1 /\ Pprev(d) = c /\ Prefix(d, t)
  <1>1. c \in Seq(AllBlocks) /\ t \in Seq(AllBlocks) /\ Len(c) \in Nat /\ Len(t) \in Nat
    BY Positions
  <1>2. Len(c) <= Len(t) /\ c = SubSeq(t, 1, Len(c))
    BY DEF Prefix
  <1>3. Len(c) # Len(t)
    <2>1. SUFFICES ASSUME Len(c) = Len(t) PROVE FALSE
      OBVIOUS
    <2>2. Len(t) \in 0..Len(t) /\ c = SubSeq(t, 1, Len(t))
      BY <1>1, <1>2, <2>1, SMT
    <2>. QED BY <1>1, <2>2, SubSeqFacts
  <1>4. Len(c) + 1 \in 0..Len(t) /\ Len(c) \in 0..(Len(c) + 1) /\ (Len(c) + 1) - 1 = Len(c)
    BY <1>1, <1>2, <1>3, SMT
  <1>5. ChainOK(d) /\ Len(d) = Len(c) + 1 /\ SubSeq(d, 1, Len(c)) = SubSeq(t, 1, Len(c))
    BY <1>1, <1>4, PrefixOK, SubSeqFacts, SMT
  <1>. QED BY <1>1, <1>2, <1>4, <1>5, SMT DEF Pprev, Prefix

\* The block that is undone is the tip's; the one that is connected follows the tip.
LEMMA AtBlock ==
  ASSUME Fits, Undoing \/ Connecting
  PROVE  /\ m_p2c_tip # None /\ ChainOK(m_p2c_tip)
         /\ ChainOK(Index) /\ Len(Index) >= 1
         /\ Len(Index[Len(Index)]) \in Nat /\ Len(Index[Len(Index)]) >= 1
         /\ Undoing => Index = m_p2c_tip
         /\ ~Undoing => Pprev(Index) = m_p2c_tip /\ Prefix(Index, target)
  <1>1. m_p2c_tip # None /\ ChainOK(m_p2c_tip) /\ ChainOK(target)
    BY DEF Fits, Undoing, Connecting
  <1>2. CASE Undoing
    <2>1. Index = m_p2c_tip
      BY <1>2 DEF Index
    <2>2. Len(m_p2c_tip) >= 1
      <3>1. fork \in Seq(AllBlocks) /\ Len(fork) <= Len(m_p2c_tip) /\ fork = SubSeq(m_p2c_tip, 1, Len(fork))
            /\ fork # m_p2c_tip
        BY <1>2 DEF Undoing, Fits, Prefix
      <3>2. m_p2c_tip \in Seq(AllBlocks) /\ Len(m_p2c_tip) \in Nat /\ Len(fork) \in Nat /\ Len(m_p2c_tip) \in 0..Len(m_p2c_tip)
        BY <1>1, <3>1, Positions, SMT
      <3>3. Len(fork) # Len(m_p2c_tip)
        BY <3>1, <3>2, SubSeqFacts
      <3>. QED BY <3>1, <3>2, <3>3, SMT
    <2>3. Len(Index) \in 1..Len(Index) /\ ChainOK(Index)
      BY <1>1, <2>1, <2>2, Positions, SMT
    <2>. QED BY <1>1, <1>2, <2>1, <2>2, <2>3, Positions
  <1>3. CASE ~Undoing
    <2>1. Connecting /\ Prefix(m_p2c_tip, target) /\ m_p2c_tip # target
      BY <1>3 DEF Connecting, Fits
    <2>2. Index = SubSeq(target, 1, Len(m_p2c_tip) + 1)
      BY <1>3 DEF Index
    <2>3. ChainOK(Index) /\ Len(Index) >= 1 /\ Pprev(Index) = m_p2c_tip /\ Prefix(Index, target)
      BY <1>1, <2>1, <2>2, StepUp, ZenonT(30)
    <2>4. Len(Index) \in 1..Len(Index)
      BY <2>3, Positions, SMT
    <2>. QED BY <1>1, <1>3, <2>3, <2>4, Positions
  <1>. QED BY <1>2, <1>3

\* The catalog between two transactions of the block.
LEMMA AtTx ==
  ASSUME Fits, Held, Undoing \/ Connecting, NEW n, n = Len(Index[Len(Index)])
  PROVE  /\ applied \in 0..(n - 1)
         /\ Undoing => m_p2c_bounties = Catalog(PartCoins(Index, n - applied))
         /\ ~Undoing => m_p2c_bounties = Catalog(PartCoins(Index, applied))
  <1>1. /\ m_p2c_tip # None /\ ChainOK(Index) /\ Len(Index) >= 1 /\ n \in Nat /\ n >= 1
        /\ Undoing => Index = m_p2c_tip
        /\ ~Undoing => Pprev(Index) = m_p2c_tip
    BY AtBlock
  <1>2. CASE applied = 0
    <2>1. m_p2c_bounties = Catalog(Coins(m_p2c_tip))
      BY <1>1, <1>2 DEF Held, TipCoins
    <2>2. PartCoins(Index, n) = Coins(Index) /\ PartCoins(Index, 0) = Coins(Pprev(Index))
      BY <1>1, PartFull, PartZero
    <2>3. n - applied = n /\ applied \in 0..(n - 1)
      BY <1>1, <1>2, SMT
    <2>. QED BY <1>1, <1>2, <2>1, <2>2, <2>3
  <1>3. CASE applied > 0
    <2>1. applied \in Nat /\ applied < n
      BY <1>3 DEF Held
    <2>2. applied \in 0..(n - 1)
      BY <1>1, <2>1, SMT
    <2>. QED BY <1>3, <2>2 DEF Held
  <1>4. applied = 0 \/ applied > 0
    BY SMT DEF Held
  <1>. QED BY <1>2, <1>3, <1>4

-----------------------------------------------------------------------------
(* The invariant                                                           *)

LEMMA EmptyOK == ChainOK(<<>>)
  <1>1. <<>> \in Seq(AllBlocks) /\ Len(<<>>) = 0
    BY SMT
  <1>. QED BY <1>1, CatalogAssumption, SMT DEF ChainOK

LEMMA CatalogInvInit == Init => CatalogInv
  <1>. SUFFICES ASSUME Init PROVE CatalogInv
    OBVIOUS
  <1>1. Fits
    BY EmptyOK DEF Init, Fits
  <1>2. Held
    BY NothingHeld, SMT DEF Init, Held, TipCoins
  <1>3. Witnessed /\ SnapshotConsistent
    BY DEF Init, Witnessed, SnapshotConsistent
  <1>. QED BY <1>1, <1>2, <1>3 DEF CatalogInv

\* Outside a block, all of the catalog is that of its tip.
LEMMA NoneApplied ==
  ASSUME Held, ~Undoing, ~Connecting
  PROVE  applied = 0 /\ m_p2c_bounties = Catalog(TipCoins)
  BY SMT DEF Held

\* A step of the active chain.
LEMMA MoveInv ==
  ASSUME CatalogInv, NEW new, ChainOK(new), MoveTip(new)
  PROVE  CatalogInv'
  <1>. USE DEF CatalogInv, MoveTip, catalogVars
  <1>1. Fits'
    <2>1. ChainOK(chain')
      OBVIOUS
    <2>2. UNCHANGED <<m_p2c_tip, pc, target, fork, cursor>>
      OBVIOUS
    <2>. QED BY <2>1, <2>2 DEF Fits
  <1>2. Held'
    <2>1. UNCHANGED <<m_p2c_tip, m_p2c_bounties, pc, target, fork, applied>>
      OBVIOUS
    <2>2. (Undoing <=> Undoing') /\ (Connecting <=> Connecting') /\ Index' = Index /\ TipCoins' = TipCoins
      BY <2>1 DEF Undoing, Connecting, Index, TipCoins
    <2>. QED BY <2>1, <2>2 DEF Held
  <1>3. Witnessed' /\ SnapshotConsistent'
    <2>1. CASE pc = "idle"
      BY <2>1 DEF Witnessed, SnapshotConsistent
    <2>2. CASE pc # "idle"
      BY <2>2 DEF Witnessed, SnapshotConsistent
    <2>. QED BY <2>1, <2>2
  <1>. QED BY <1>1, <1>2, <1>3

\* A step of ApplyP2CBountyBlock.
LEMMA ApplyInv ==
  ASSUME CatalogInv, ApplyStep
  PROVE  CatalogInv'
  <1>. DEFINE c == Index
              b == Index[Len(Index)]
              n == Len(b)
              tx == b[Position(b)]
  <1>1. Fits /\ Held /\ Witnessed /\ SnapshotConsistent
    BY DEF CatalogInv
  <1>2. /\ Undoing \/ Connecting
        /\ ApplyTx(b, tx)
        /\ UNCHANGED <<chain, seen, pc, target, fork, cursor, snapshot>>
    BY DEF ApplyStep, chainVars
  <1>3. /\ m_p2c_tip # None /\ ChainOK(m_p2c_tip) /\ ChainOK(c) /\ Len(c) >= 1 /\ n \in Nat /\ n >= 1
        /\ Undoing => c = m_p2c_tip
        /\ ~Undoing => Pprev(c) = m_p2c_tip /\ Prefix(c, target)
    BY <1>1, <1>2, AtBlock
  <1>4. /\ applied \in 0..(n - 1)
        /\ Undoing => m_p2c_bounties = Catalog(PartCoins(c, n - applied))
        /\ ~Undoing => m_p2c_bounties = Catalog(PartCoins(c, applied))
    BY <1>1, <1>2, AtTx
  <1>5. pc # "idle" /\ pc # "snapshot" /\ pc \in {"undo", "connect"} /\ ChainOK(chain) /\ ChainOK(target) /\ ChainOK(cursor)
    BY <1>1, <1>2 DEF Undoing, Connecting, Fits
  <1>6. Witnessed' /\ SnapshotConsistent'
    BY <1>1, <1>2, <1>5 DEF Witnessed, SnapshotConsistent
  <1>7. CASE Undoing
    <2>. DEFINE k == n - (applied + 1)
    <2>1. Position(b) = k + 1 /\ k \in 0..(n - 1) /\ n - applied = k + 1 /\ applied \in Nat
      BY <1>3, <1>4, <1>7, SMT DEF Position
    <2>2. m_p2c_bounties' = Catalog(PartCoins(c, k))
      <3>1. m_p2c_bounties' = DisconnectTx(Catalog(PartCoins(c, k + 1)), tx, Undo(c, tx))
        BY <1>2, <1>4, <1>7, <2>1 DEF ApplyTx
      <3>2. tx = c[Len(c)][k + 1]
        BY <2>1
      <3>. HIDE DEF k, tx, c
      <3>3. k \in 0..(Len(c[Len(c)]) - 1)
        BY <2>1 DEF c
      <3>4. ChainOK(c) /\ Len(c) >= 1
        BY <1>3 DEF c
      <3>. QED BY <3>1, <3>2, <3>3, <3>4, DisconnectPart
    <2>3. pc = "undo" /\ m_p2c_tip # fork /\ Prefix(fork, m_p2c_tip) /\ Prefix(fork, target) /\ fork \in Seq(AllBlocks)
      BY <1>1, <1>7 DEF Undoing, Fits
    <2>4. CASE applied + 1 < n
      <3>1. applied' = applied + 1 /\ m_p2c_tip' = m_p2c_tip
        BY <1>2, <2>4 DEF ApplyTx
      <3>2. Undoing' /\ Index' = Index
        BY <1>2, <1>7, <3>1 DEF Undoing, Index
      <3>3. Fits'
        BY <1>2, <1>3, <1>5, <2>3, <3>1 DEF Fits
      <3>4. Held'
        <4>1. applied' \in Nat /\ applied' > 0 /\ applied' < n /\ n - applied' = k
          BY <2>1, <2>4, <3>1, SMT
        <4>2. m_p2c_bounties' = Catalog(PartCoins(Index', Len(Index'[Len(Index')]) - applied'))
          BY <2>2, <3>2, <4>1
        <4>. HIDE DEF k
        <4>. QED BY <3>2, <4>1, <4>2, SMT DEF Held
      <3>. QED BY <1>6, <3>3, <3>4 DEF CatalogInv
    <2>5. CASE ~(applied + 1 < n)
      <3>1. k = 0
        BY <2>1, <2>5, SMT
      <3>2. applied' = 0 /\ m_p2c_tip' = Pprev(m_p2c_tip)
        BY <1>2, <1>7, <2>5 DEF ApplyTx, Pprev
      <3>3. ChainOK(m_p2c_tip') /\ Prefix(fork, m_p2c_tip') /\ m_p2c_tip' # None
        BY <1>3, <1>7, <2>3, <3>2, PrevFacts, ChainNotNone
      <3>4. Fits'
        BY <1>2, <1>5, <2>3, <3>3 DEF Fits
      <3>5. Held'
        <4>1. TipCoins' = Coins(Pprev(c))
          BY <1>3, <1>7, <3>2, <3>3 DEF TipCoins
        <4>2. PartCoins(c, 0) = Coins(Pprev(c))
          BY <1>3, PartZero
        <4>. QED BY <2>2, <3>1, <3>2, <4>1, <4>2, SMT DEF Held
      <3>. QED BY <1>6, <3>4, <3>5 DEF CatalogInv
    <2>. QED BY <2>4, <2>5
  <1>8. CASE ~Undoing
    <2>1. Position(b) = applied + 1 /\ applied \in Nat
      BY <1>3, <1>4, <1>8, SMT DEF Position
    <2>2. m_p2c_bounties' = Catalog(PartCoins(c, applied + 1))
      <3>1. m_p2c_bounties' = ConnectTx(Catalog(PartCoins(c, applied)), tx, Len(c))
        BY <1>2, <1>4, <1>8, <2>1 DEF ApplyTx
      <3>2. tx = c[Len(c)][applied + 1]
        BY <2>1
      <3>. HIDE DEF tx, c
      <3>3. applied \in 0..(Len(c[Len(c)]) - 1)
        BY <1>4 DEF c
      <3>4. ChainOK(c) /\ Len(c) >= 1
        BY <1>3 DEF c
      <3>. QED BY <3>1, <3>2, <3>3, <3>4, ConnectPart
    <2>3. pc = "connect" /\ m_p2c_tip # target /\ Prefix(m_p2c_tip, target)
      BY <1>1, <1>2, <1>8 DEF Connecting, Fits
    <2>4. CASE applied + 1 < n
      <3>1. applied' = applied + 1 /\ m_p2c_tip' = m_p2c_tip
        BY <1>2, <2>4 DEF ApplyTx
      <3>2. ~Undoing' /\ Connecting' /\ Index' = Index
        BY <1>2, <1>8, <2>3, <3>1 DEF Undoing, Connecting, Index
      <3>3. Fits'
        BY <1>2, <1>3, <1>5, <2>3, <3>1 DEF Fits
      <3>4. Held'
        BY <2>1, <2>2, <2>4, <3>1, <3>2, SMT DEF Held
      <3>. QED BY <1>6, <3>3, <3>4 DEF CatalogInv
    <2>5. CASE ~(applied + 1 < n)
      <3>1. applied + 1 = n
        BY <1>3, <1>4, <2>5, SMT
      <3>2. applied' = 0 /\ m_p2c_tip' = c
        BY <1>2, <1>8, <2>5 DEF ApplyTx
      <3>3. ChainOK(m_p2c_tip') /\ Prefix(m_p2c_tip', target) /\ m_p2c_tip' # None
        BY <1>3, <1>8, <3>2, ChainNotNone
      <3>4. Fits'
        BY <1>2, <1>5, <2>3, <3>3 DEF Fits
      <3>5. Held'
        <4>1. TipCoins' = Coins(c)
          BY <3>2, <3>3 DEF TipCoins
        <4>2. PartCoins(c, n) = Coins(c)
          BY <1>3, PartFull
        <4>. QED BY <2>2, <3>1, <3>2, <4>1, <4>2, SMT DEF Held
      <3>. QED BY <1>6, <3>4, <3>5 DEF CatalogInv
    <2>. QED BY <2>4, <2>5
  <1>. QED BY <1>7, <1>8

\* The snapshot of the catalog of a chain is the chain's recent part.
LEMMA RecentPart ==
  ASSUME NEW c, ChainOK(c)
  PROVE  LET recent == {o \in DOMAIN Coins(c) : recent_blocks = 0 \/ Coins(c)[o] > Len(c) - recent_blocks}
         IN  Snapshot(Catalog(Coins(c)), MinHeight(c)) = Restrict(Coins(c), recent)
  <1>. DEFINE f == Coins(c)
              D == Unspent(Confirmed(c))
              recent == {o \in DOMAIN f : recent_blocks = 0 \/ f[o] > Len(c) - recent_blocks}
              high == {o \in D : f[o] >= MinHeight(c)}
  <1>1. FunctionOn(f, D) /\ DOMAIN f = D /\ \A o \in D : f[o] \in 1..Len(c)
    BY CoinHeights
  <1>2. Len(c) \in Nat /\ recent_blocks \in Nat
    BY Positions, CatalogAssumption
  <1>. HIDE DEF f, D
  <1>3. recent = high
    <2>. SUFFICES ASSUME NEW o \in D
                  PROVE  (recent_blocks = 0 \/ f[o] > Len(c) - recent_blocks) <=> f[o] >= MinHeight(c)
      BY <1>1
    <2>1. f[o] \in Nat /\ f[o] >= 1 /\ f[o] <= Len(c)
      BY <1>1, <1>2, SMT
    <2>. QED BY <1>2, <2>1, SMT DEF MinHeight
  <1>4. high = {o \in D : f[o] >= MinHeight(c)}
    OBVIOUS
  <1>. HIDE DEF high
  <1>5. Snapshot(Catalog(f), MinHeight(c)) = Restrict(f, high)
    BY <1>1, <1>4, SnapshotCat, SMT
  <1>6. Snapshot(Catalog(f), MinHeight(c)) = Restrict(f, recent)
    BY <1>3, <1>5
  <1>. QED BY <1>6 DEF f

\* The steps of a scan that leave the chain alone and end no block.
LEMMA ScanInv ==
  ASSUME CatalogInv, ScanStep \/ StartScan
  PROVE  CatalogInv'
  <1>1. Fits /\ Held /\ Witnessed /\ SnapshotConsistent
    BY DEF CatalogInv
  <1>2. pc \notin {"undo", "connect"} => ~Undoing /\ ~Connecting
    BY DEF Undoing, Connecting
  <1>4. CASE StartScan
    <2>. USE <1>4 DEF StartScan, catalogVars
    <2>1. Fits'
      BY <1>1 DEF Fits
    <2>2. Held'
      <3>1. applied = 0 /\ m_p2c_bounties = Catalog(TipCoins)
        BY <1>1, <1>2, NoneApplied
      <3>2. TipCoins' = TipCoins
        BY DEF TipCoins
      <3>. QED BY <3>1, <3>2, SMT DEF Held
    <2>3. Witnessed' /\ SnapshotConsistent'
      BY DEF Witnessed, SnapshotConsistent
    <2>. QED BY <2>1, <2>2, <2>3 DEF CatalogInv
  <1>5. CASE GiveUp
    <2>. USE <1>5 DEF GiveUp, EndScan, chainVars, catalogVars
    <2>1. Fits'
      BY <1>1, EmptyOK DEF Fits
    <2>2. Held'
      <3>1. applied = 0 /\ m_p2c_bounties = Catalog(TipCoins)
        BY <1>1, <1>2, NoneApplied
      <3>2. TipCoins' = TipCoins
        BY DEF TipCoins
      <3>. QED BY <3>1, <3>2, SMT DEF Held
    <2>3. Witnessed' /\ SnapshotConsistent'
      BY <1>1 DEF Witnessed, SnapshotConsistent
    <2>. QED BY <2>1, <2>2, <2>3 DEF CatalogInv
  <1>6. CASE RebuildFlush
    <2>. USE <1>6 DEF RebuildFlush, chainVars, catalogVars
    <2>1. Fits'
      BY <1>1 DEF Fits
    <2>2. Held'
      <3>1. applied = 0 /\ m_p2c_bounties = Catalog(TipCoins)
        BY <1>1, <1>2, NoneApplied
      <3>2. TipCoins' = TipCoins
        BY DEF TipCoins
      <3>. QED BY <3>1, <3>2, SMT DEF Held
    <2>3. Witnessed' /\ SnapshotConsistent'
      BY <1>1 DEF Witnessed, SnapshotConsistent
    <2>. QED BY <2>1, <2>2, <2>3 DEF CatalogInv
  <1>7. CASE RebuildDone
    <2>. USE <1>7 DEF RebuildDone, chainVars
    <2>0. ChainOK(cursor) /\ cursor # None
      BY <1>1, ChainNotNone DEF Fits
    <2>1. Fits'
      BY <1>1, <2>0 DEF Fits
    <2>2. Held'
      <3>1. applied = 0
        BY <1>1, <1>2, NoneApplied
      <3>2. Insert(EmptyCatalog, Coins(cursor)) = Catalog(Coins(cursor))
        <4>1. FunctionOn(Coins(cursor), Unspent(Confirmed(cursor)))
          BY <2>0, CoinHeights
        <4>. QED BY <4>1, InsertEmpty
      <3>3. TipCoins' = Coins(cursor)
        BY <2>0 DEF TipCoins
      <3>. QED BY <3>1, <3>2, <3>3, SMT DEF Held
    <2>3. Witnessed' /\ SnapshotConsistent'
      BY <1>1 DEF Witnessed, SnapshotConsistent
    <2>. QED BY <2>1, <2>2, <2>3 DEF CatalogInv
  <1>8. CASE TakeTarget
    <2>. USE <1>8 DEF TakeTarget, chainVars, catalogVars
    <2>0. ChainOK(chain) /\ ChainOK(m_p2c_tip) /\ m_p2c_tip # None
      BY <1>1 DEF Fits
    <2>1. Fits'
      <3>1. chain \in Seq(AllBlocks) /\ m_p2c_tip \in Seq(AllBlocks)
        BY <2>0, Positions
      <3>2. fork' \in Seq(AllBlocks) /\ Prefix(fork', m_p2c_tip) /\ Prefix(fork', chain)
        BY <3>1, Ancestor
      <3>. QED BY <1>1, <2>0, <3>2 DEF Fits
    <2>2. Held'
      <3>1. applied = 0 /\ m_p2c_bounties = Catalog(TipCoins)
        BY <1>1, <1>2, NoneApplied
      <3>2. TipCoins' = TipCoins
        BY DEF TipCoins
      <3>. QED BY <3>1, <3>2, SMT DEF Held
    <2>3. Witnessed' /\ SnapshotConsistent'
      BY <1>1 DEF Witnessed, SnapshotConsistent
    <2>. QED BY <2>1, <2>2, <2>3 DEF CatalogInv
  <1>9. CASE ApplyFails
    <2>. USE <1>9 DEF ApplyFails, EndScan, chainVars
    <2>0. pc \in {"undo", "connect"}
      BY DEF Undoing, Connecting
    <2>1. Fits'
      BY <1>1, EmptyOK DEF Fits
    <2>2. Held'
      <3>1. applied' = 0 /\ TipCoins' = <<>>
        BY DEF TipCoins
      <3>. QED BY <3>1, NothingHeld, SMT DEF Held
    <2>3. Witnessed' /\ SnapshotConsistent'
      BY <1>1, <2>0 DEF Witnessed, SnapshotConsistent
    <2>. QED BY <2>1, <2>2, <2>3 DEF CatalogInv
  <1>10. CASE UpdateDone
    <2>. USE <1>10 DEF UpdateDone, chainVars, catalogVars
    <2>1. Fits'
      BY <1>1 DEF Fits, Undoing
    <2>2. Held'
      <3>1. applied = 0 /\ m_p2c_bounties = Catalog(TipCoins)
        BY <1>1, NoneApplied
      <3>2. TipCoins' = TipCoins
        BY DEF TipCoins
      <3>. QED BY <3>1, <3>2, SMT DEF Held
    <2>3. Witnessed' /\ SnapshotConsistent'
      BY <1>1 DEF Witnessed, SnapshotConsistent, Connecting
    <2>. QED BY <2>1, <2>2, <2>3 DEF CatalogInv
  <1>11. CASE TakeSnapshot
    <2>. USE <1>11 DEF TakeSnapshot, EndScan, chainVars, catalogVars
    <2>0. m_p2c_tip # None /\ ChainOK(m_p2c_tip) /\ m_p2c_tip \in seen
      BY <1>1 DEF Fits, Witnessed
    <2>1. Fits'
      BY <1>1, EmptyOK DEF Fits
    <2>2. applied = 0 /\ m_p2c_bounties = Catalog(TipCoins)
      BY <1>1, <1>2, NoneApplied
    <2>3. Held'
      <3>1. TipCoins' = TipCoins
        BY DEF TipCoins
      <3>. QED BY <2>2, <3>1, SMT DEF Held
    <2>4. Witnessed'
      BY DEF Witnessed
    <2>5. SnapshotConsistent'
      <3>1. m_p2c_bounties = Catalog(Coins(m_p2c_tip))
        BY <2>0, <2>2 DEF TipCoins
      <3>. DEFINE recent == {o \in DOMAIN Coins(m_p2c_tip) :
                               recent_blocks = 0 \/ Coins(m_p2c_tip)[o] > Len(m_p2c_tip) - recent_blocks}
      <3>2. snapshot' = Restrict(Coins(m_p2c_tip), recent)
        BY <2>0, <3>1, RecentPart
      <3>3. seen' = seen
        OBVIOUS
      <3>. QED BY <2>0, <3>2, <3>3 DEF SnapshotConsistent
    <2>. QED BY <2>1, <2>3, <2>4, <2>5 DEF CatalogInv
  <1>12. CASE ApplyStep
    BY <1>12, ApplyInv
  <1>. QED BY <1>4, <1>5, <1>6, <1>7, <1>8, <1>9, <1>10, <1>11, <1>12 DEF ScanStep

LEMMA CatalogInvNext == CatalogInv /\ [Next]_vars => CatalogInv'
  <1>. SUFFICES ASSUME CatalogInv, [Next]_vars PROVE CatalogInv'
    OBVIOUS
  <1>1. CASE StartScan \/ ScanStep
    BY <1>1, ScanInv
  <1>2. CASE ConnectTip
    <2>1. PICK coinbase \in Coinbases(Len(chain) + 1), n \in 0..MaxBlockTxs :
            \E txs \in [1..n -> Txs] :
              Valid(chain, <<coinbase>> \o txs) /\ MoveTip(Append(chain, <<coinbase>> \o txs))
      BY <1>2 DEF ConnectTip
    <2>2. PICK txs \in [1..n -> Txs] :
            Valid(chain, <<coinbase>> \o txs) /\ MoveTip(Append(chain, <<coinbase>> \o txs))
      BY <2>1
    <2>3. ChainOK(chain) /\ Len(chain) < MaxHeight
      BY <1>2 DEF CatalogInv, Fits, ConnectTip
    <2>. DEFINE b == <<coinbase>> \o txs
    <2>4. b = <<coinbase>> \o txs /\ Valid(chain, b) /\ MoveTip(Append(chain, b))
      BY <2>2
    <2>. HIDE DEF b
    <2>5. ChainOK(Append(chain, b))
      BY <2>3, <2>4, AppendOK
    <2>. QED BY <2>4, <2>5, MoveInv
  <1>3. CASE DisconnectTip
    <2>1. ChainOK(chain) /\ chain # <<>>
      BY <1>3 DEF CatalogInv, Fits, DisconnectTip
    <2>2. Len(chain) - 1 \in 0..Len(chain)
      BY <2>1, Positions, SMT
    <2>3. ChainOK(SubSeq(chain, 1, Len(chain) - 1))
      BY <2>1, <2>2, PrefixOK
    <2>. QED BY <1>3, <2>3, MoveInv DEF DisconnectTip
  <1>4. CASE UNCHANGED vars
    <2>1. UNCHANGED <<chain, seen, m_p2c_tip, m_p2c_bounties, pc, target, fork, applied, cursor, snapshot>>
      BY <1>4 DEF vars, chainVars, catalogVars
    <2>2. (Undoing <=> Undoing') /\ (Connecting <=> Connecting') /\ Index' = Index /\ TipCoins' = TipCoins
      BY <2>1 DEF Undoing, Connecting, Index, TipCoins
    <2>3. Fits' /\ Witnessed' /\ SnapshotConsistent'
      BY <2>1 DEF CatalogInv, Fits, Witnessed, SnapshotConsistent
    <2>4. Held'
      BY <2>1, <2>2 DEF CatalogInv, Held
    <2>. QED BY <2>3, <2>4 DEF CatalogInv
  <1>. QED BY <1>1, <1>2, <1>3, <1>4 DEF Next

\* Through every reorganisation, failure and cancellation the catalog holds what the
\* applied part of the block at hand leaves (scanP2CBounties, ApplyP2CBountyBlock).
THEOREM CatalogInvariance == Spec => []CatalogInv
  BY CatalogInvInit, CatalogInvNext, PTL DEF Spec

\* Whatever the transactions, the sizes of the blocks and the heights: a catalog
\* that is not in the middle of a block is the P2C part of the UTXO set of its tip.
THEOREM CatalogAlwaysMatchesTip == Spec => []CatalogMatchesTip
  <1>1. CatalogInv => CatalogMatchesTip
    BY SMT DEF CatalogInv, Held, CatalogMatchesTip, TipCoins, Catalog
  <1>. QED BY <1>1, CatalogInvariance, PTL

\* What a wallet is handed is the recent part of the UTXO set of one chain that was
\* active during its scan (the visitor of scanP2CBounties).
THEOREM SnapshotAlwaysConsistent == Spec => []SnapshotConsistent
  <1>1. CatalogInv => SnapshotConsistent
    BY DEF CatalogInv
  <1>. QED BY <1>1, CatalogInvariance, PTL
=============================================================================

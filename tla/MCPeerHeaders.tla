---------------------------- MODULE MCPeerHeaders ----------------------------
(* PeerHeaders for TLC: the honest chain g s1 a2 ... a6, a chain that forks *)
(* off at s1 (b2 ... b8) and one that forks off at a3 (c4, c5).             *)
EXTENDS PeerHeaders

Chains == {<<"g", "s1", "a2", "a3", "a4", "a5", "a6">>, <<"g", "s1", "b2", "b3", "b4", "b5", "b6", "b7", "b8">>,
           <<"g", "s1", "a2", "a3", "c4", "c5">>}
MCBlocks == UNION {Range(c) : c \in Chains}
\* Folding with @@ makes TLC compute each table once.
Table(f(_), S) == FoldSet(LAMBDA x, t : t @@ (x :> f(x)), <<>>, S)
MCChainOf ==
    Table(LAMBDA b : LET c == CHOOSE c \in Chains : b \in Range(c)
                     IN  SubSeq(c, 1, CHOOSE i \in DOMAIN c : c[i] = b), MCBlocks)
MCInitialIndex == {"g", "s1"}

StartBits == GetCompact(240)
TooHard == GetCompact(30)

\* Every header states its contents; the mined key of b3, b5 and c5 is that of
\* its own chain or that of the honest chain at the same height, and b4's
\* difficulty is one a retarget permits or not.
MCHeader(w) ==
    LET a4 == CalculateNextWorkRequired(StartBits, w.d3)
        a6 == CalculateNextWorkRequired(a4, w.d5)
        own(key, other) == IF w.forked THEN key ELSE other
        h(nBits, nTime, key) == [nBits |-> nBits, nTime |-> nTime, key |-> key]
        contents ==
            ("g" :> h(StartBits, 0, "g")) @@ ("s1" :> h(StartBits, 8, "g"))
            @@ ("a2" :> h(StartBits, 20, "g")) @@ ("a3" :> h(StartBits, 20 + w.d3, "a2"))
            @@ ("a4" :> h(a4, 100, "a2")) @@ ("a5" :> h(a4, 100 + w.d5, "a4"))
            @@ ("a6" :> h(a6, 200, "a4"))
            @@ ("b2" :> h(StartBits, 20, "g")) @@ ("b3" :> h(StartBits, 28, own("b2", "a2")))
            @@ ("b4" :> h(w.b4, 100, "b2")) @@ ("b5" :> h(w.b4, 108, own("b4", "a4")))
            @@ ("b6" :> h(w.b4, 200, "b4")) @@ ("b7" :> h(w.b4, 208, "b6")) @@ ("b8" :> h(w.b4, 300, "b6"))
            @@ ("c4" :> h(a4, 100, "a2")) @@ ("c5" :> h(a4, 108, own("c4", "a4")))
        work(b) == FoldLeft(LAMBDA sum, x : sum + GetBlockProof(contents[x].nBits), 0, MCChainOf[b])
    IN  Table(LAMBDA b : [nBits |-> contents[b].nBits, nTime |-> contents[b].nTime,
                          key |-> contents[b].key, nChainWork |-> work(b)], MCBlocks)

World(d3, d5, forked, b4) == [d3 |-> d3, d5 |-> d5, forked |-> forked, b4 |-> b4]
MCHeaders ==
    Table(MCHeader, {World(1, 8, TRUE, TooHard), World(7, 40, FALSE, StartBits),
                     World(11, 1, TRUE, CalculateNextWorkRequired(StartBits, 2)),
                     World(40, 7, TRUE, CalculateNextWorkRequired(StartBits, 40))})
=============================================================================

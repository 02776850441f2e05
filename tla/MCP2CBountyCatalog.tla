-------------------------- MODULE MCP2CBountyCatalog --------------------------
(* P2CBountyCatalog for TLC: a bounty p, a claim of it that pays to another *)
(* bounty q, and a claim of q.                                              *)
EXTENDS P2CBountyCatalog

CONSTANTS p, q

MCTxs == {[ins |-> {}, outs |-> {p}], [ins |-> {p}, outs |-> {q}], [ins |-> {q}, outs |-> {}]}
=============================================================================

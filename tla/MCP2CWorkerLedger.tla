-------------------------- MODULE MCP2CWorkerLedger --------------------------
(* TLC instances of P2CWorkerLedger.                                       *)
EXTENDS P2CWorkerLedger, TLC

Symmetry == Permutations(Outpoints) \cup Permutations(Threads)
=============================================================================

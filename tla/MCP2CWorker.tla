----------------------------- MODULE MCP2CWorker -----------------------------
(* P2CWorker for TLC.  Bounties and connection threads are interchangeable. *)
EXTENDS P2CWorker, TLC

Symmetry == Permutations(Outpoints) \cup Permutations(Threads)
=============================================================================

---------------------------- MODULE MCRandomXKeys ----------------------------
(* RandomXKeys for TLC: two competing key blocks, epochs of three blocks   *)
(* with a lag of two, and the keys a chain of that height can have.  The   *)
(* chain is long enough for two rotations, and m_clock for the miner to    *)
(* hold on to the key of a branch that was left.  Hashing is MCRandomXCache's. *)
EXTENDS RandomXKeys, TLC

MCKeys == {c \in Chains : Len(c) % randomx_epoch_blocks = 0}
Symmetry == Permutations(Branches)
=============================================================================

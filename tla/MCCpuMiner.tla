---------------------------- MODULE MCCpuMiner ----------------------------
(* CpuMiner for TLC.                                                       *)
EXTENDS CpuMiner
=============================================================================

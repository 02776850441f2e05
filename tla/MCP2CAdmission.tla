--------------------------- MODULE MCP2CAdmission ---------------------------
(* P2CAdmission for TLC.                                                   *)
EXTENDS P2CAdmission

MCTokens == 1..MaxToken
=============================================================================

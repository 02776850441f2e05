--------------------------- MODULE MCP2CCreateDialog ---------------------------
(* Two coins, two addresses, two confirmations in a row and one probe thread  *)
(* at a time.                                                                 *)
EXTENDS P2CCreateDialog

MCProbes == 1..2
=============================================================================

--------------------------- MODULE P2CWorkerLedger ---------------------------
(***************************************************************************)
(* The claim worker implements the claim ledger.  The ledger's proofs are  *)
(* those of the saved record whose transaction the wallet does not have    *)
(* yet; contested is a history variable, for a bounty may be spent when    *)
(* SubmitOne gives its proof up and unspent again when that is saved.      *)
(***************************************************************************)
EXTENDS P2CWorker

VARIABLE contested

HistoryInit == Init /\ contested = {}
HistoryNext == Next /\ contested' = contested \cup {o \in Outpoints : coin'[o] # "open"}
HistorySpec == HistoryInit /\ [][HistoryNext]_<<vars, contested>>

Ledger == INSTANCE ClaimLedger WITH
    Limit <- MAX_PENDING_CLAIMS,
    proofs <- {c \in SavedProofs : c.tx \notin walletTxs},
    submitted <- walletTxs

\* As long as no database write fails, whatever threads, restarts and crashes do:
\* one proof for a bounty is found and saved, only saved proofs are submitted,
\* and none is given up unless its bounty was spent (Connect, SubmitOne, Load).
ImplementsLedger == Ledger!LedgerSpec
=============================================================================

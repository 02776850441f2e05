----------------------------- MODULE ClaimLedger -----------------------------
(***************************************************************************)
(* What the automatic claim worker promises about proofs, without threads, *)
(* sessions, saves or crashes: a proof found for a bounty is kept until it *)
(* is submitted or its bounty has been spent by somebody.                  *)
(***************************************************************************)
EXTENDS Naturals, FiniteSets

CONSTANTS Outpoints, \* bounties
          Claims,    \* a proof, with the transaction it is for: [tx : [prevout, ...], ...]
          Limit      \* how many proofs may wait

VARIABLES proofs,    \* found, durable, not yet submitted
          submitted, \* transactions handed to the wallet
          contested  \* bounties that have been seen spent, by whomever

ledgerVars == <<proofs, submitted, contested>>

LedgerInit == proofs = {} /\ submitted = {} /\ contested = {}

\* A proof is recorded: one for a bounty, and no more than Limit.
Prove(c) ==
    /\ proofs' = proofs \cup {c}
    /\ \A d \in proofs : d.tx.prevout # c.tx.prevout
    /\ Cardinality(proofs) < Limit
    /\ UNCHANGED <<submitted, contested>>

\* Only a recorded proof is submitted; from then on the wallet has it.
Submit(c) ==
    /\ c \in proofs
    /\ submitted' = submitted \cup {c.tx}
    /\ proofs' = proofs \ {c}
    /\ contested' \in {contested, contested \cup {c.tx.prevout}}

\* A proof is given up only for a bounty that has been spent.
GiveUp(c) ==
    /\ c \in proofs
    /\ c.tx.prevout \in contested
    /\ proofs' = proofs \ {c}
    /\ UNCHANGED <<submitted, contested>>

Contest(o) ==
    /\ contested' = contested \cup {o}
    /\ UNCHANGED <<proofs, submitted>>

LedgerNext ==
    \/ \E c \in Claims \cap (proofs' \ proofs) : Prove(c)
    \/ \E c \in proofs : Submit(c) \/ GiveUp(c)
    \/ \E o \in Outpoints : Contest(o)

LedgerSpec == LedgerInit /\ [][LedgerNext]_ledgerVars
=============================================================================

---------------------------- MODULE MCP2CScheduler ----------------------------
(***************************************************************************)
(* What decides when the automatic-claim worker connects, for TLC: the     *)
(* scheduler and the two pacers it asks.                                   *)
(*                                                                         *)
(* P2CScheduler has two domains: one with two bounties under two masks,    *)
(* which comes and goes with what a Refresh observes, and one with a       *)
(* bounty on a budget of one capture; each has a policy that may be in     *)
(* recovery.                                                               *)
(* P2CRecoveryPolicy has more policies than its table holds and time       *)
(* enough for one to leave its bootstrap phase, P2CConnectionRate time     *)
(* enough for a stall to exceed its credit.  The modules share no state    *)
(* (the scheduler has an abstraction of the pacers), so each runs with the *)
(* others at rest: the product would show nothing more.                    *)
(***************************************************************************)
EXTENDS P2CScheduler, P2CRecoveryPolicy, P2CConnectionRate, TLC

MCDomainOf == <<1, 1, 2>>
MCMaskOf == <<1, 2, 1>>
MCReward == <<2, 3, 2>>
MCLimit == <<None, None, 1>>
MCObservations ==
    {[recent |-> Bounties, lost |-> {}, low |-> {<<1, 2>>, <<2, 1>>}],
     [recent |-> {3}, lost |-> {2}, low |-> {}]}
MCRates == {-1, 0, 1, 2}

SchedulingVars == <<vars, policyVars, rateVars>>
SchedulingInit == Init /\ PolicyInit /\ RateInit
SchedulingNext ==
    \/ PolicyInit /\ RateInit /\ Next /\ UNCHANGED <<policyVars, rateVars>>
    \/ Init /\ RateInit /\ PolicyNext /\ UNCHANGED <<vars, rateVars>>
    \/ Init /\ PolicyInit /\ RateNext /\ UNCHANGED <<vars, policyVars>>

SchedulingSpec == SchedulingInit /\ [][SchedulingNext]_SchedulingVars

\* The operations on lists, written without recursion for the proofs, against those
\* of the libraries.
Lists == INSTANCE SequencesExt
ASSUME ListOperations ==
    \A s \in UNION {[1..n -> 1..3] : n \in 0..3} :
        /\ \A K \in SUBSET (1..3) : Retained(s, K) = SelectSeq(s, LAMBDA e : e \in K)
        /\ \A k \in DOMAIN s : Erase(s, k) = Lists!RemoveAt(s, k)
        /\ IsInjective(s) => \A e \in 1..3 : EraseNode(s, e) = Lists!RemoveFirst(s, e)

Symmetry == Permutations(Threads) \cup Permutations(Policies)
=============================================================================

---------------------------- MODULE FiniteSetFacts ----------------------------
(***************************************************************************)
(* What the proofs use of the library's theorems about finite sets and     *)
(* numbers.  A lemma that needs them has LibraryFacts among its            *)
(* assumptions; the module with the proofs shows LibraryFacts at its end,  *)
(* from an instance of the library's theorems, and then its own theorems.  *)
(* So the library is not in sight of the many obligations before.          *)
(*                                                                         *)
(* An instance has its own IsFiniteSet and Cardinality.  Finite and Size   *)
(* are the two operators as they are here, and SizeFacts is what has to be *)
(* shown of them.                                                          *)
(***************************************************************************)
EXTENDS Integers, Sequences, FiniteSets

CardinalityFact == \A S : IsFiniteSet(S) => Cardinality(S) \in Nat
EmptyFact == IsFiniteSet({}) /\ Cardinality({}) = 0 /\ \A S : IsFiniteSet(S) => (Cardinality(S) = 0 <=> S = {})
SubsetFact ==
    \A S : \A T \in SUBSET S : IsFiniteSet(S) =>
        IsFiniteSet(T) /\ Cardinality(T) <= Cardinality(S) /\ (Cardinality(S) = Cardinality(T) => S = T)
AddFact ==
    \A S, x : IsFiniteSet(S) =>
        /\ IsFiniteSet(S \cup {x})
        /\ Cardinality(S \cup {x}) = IF x \in S THEN Cardinality(S) ELSE Cardinality(S) + 1
RemoveFact ==
    \A S, x : IsFiniteSet(S) =>
        /\ IsFiniteSet(S \ {x})
        /\ Cardinality(S \ {x}) = IF x \in S THEN Cardinality(S) - 1 ELSE Cardinality(S)
LeastFact == \A T \in SUBSET Nat : T # {} => \E x \in T : \A y \in T : x <= y

LibraryFacts ==
    CardinalityFact /\ EmptyFact /\ SubsetFact /\ AddFact /\ RemoveFact /\ LeastFact

Finite(S) == IsFiniteSet(S)
Size(S) == Cardinality(S)
SizeFacts ==
    /\ \A S : Finite(S) => Size(S) \in Nat
    /\ Finite({}) /\ Size({}) = 0 /\ \A S : Finite(S) => (Size(S) = 0 <=> S = {})
    /\ \A S : \A T \in SUBSET S : Finite(S) =>
          Finite(T) /\ Size(T) <= Size(S) /\ (Size(S) = Size(T) => S = T)
    /\ \A S, x : Finite(S) =>
          Finite(S \cup {x}) /\ Size(S \cup {x}) = IF x \in S THEN Size(S) ELSE Size(S) + 1
    /\ \A S, x : Finite(S) =>
          Finite(S \ {x}) /\ Size(S \ {x}) = IF x \in S THEN Size(S) - 1 ELSE Size(S)
=============================================================================

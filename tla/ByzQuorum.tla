------------------------------ MODULE ByzQuorum ------------------------------
(***************************************************************************)
(* The oracles of one OCR protocol instance, the number F of them that the *)
(* configuration allows to be faulty, and the Byzantine quorum size that   *)
(* internal/byzquorum computes from the two.                               *)
(***************************************************************************)
EXTENDS Integers, FiniteSets

CONSTANTS
    Oracle,     \* the oracles of the configuration
    F,          \* how many of them may be faulty (SharedConfig.F)
    Faulty      \* the oracles that are faulty in the modelled execution

\* PublicConfig.checkPublicConfig rejects any other F; the protocol promises
\* nothing when more than F oracles are faulty.
ASSUME OracleAssumption ==
    /\ IsFiniteSet(Oracle)
    /\ F \in Nat
    /\ 3 * F < Cardinality(Oracle)
    /\ Faulty \subseteq Oracle
    /\ Cardinality(Faulty) <= F

Honest == Oracle \ Faulty

\* Mutant of ByzQuorumSize: the one more is forgotten.
HalfQuorumSize == (Cardinality(Oracle) + F) \div 2

\* byzquorum.Size(n, f): integer division, then one more.
ByzQuorumSize == (Cardinality(Oracle) + F) \div 2 + 1

\* A set of verified signers from which such a certificate can be cut.
HasQuorum(signers) == Cardinality(signers) >= ByzQuorumSize
=============================================================================

------------------------ MODULE MCOutcomeGeneration ------------------------
(***************************************************************************)
(* Instances of OutcomeGeneration for TLC.                                 *)
(***************************************************************************)
EXTENDS OutcomeGeneration, TLC

CONSTANTS
    A, B, C, D,
    Joins       \* bound: Joins[e] are the oracles that reach epoch e

\* The leaders of the first epochs: one after the other.
LeadersABC == [e \in Epoch |-> <<A, B, C>>[e]]
LeadersAC == [e \in Epoch |-> <<A, C>>[e]]
LeadersDBC == [e \in Epoch |-> <<D, B, C>>[e]]

\* Each epoch is run by two of three oracles; the third is cut off, or slow, and
\* skips it.
JoinsPairs == [e \in Epoch |-> <<{A, B}, {B, C}, {A, C}>>[e]]

\* The first epoch is run by all three, the second by B and C.
JoinsLast == [e \in Epoch |-> <<{A, B, C}, {B, C}>>[e]]

\* The leader of the first epoch takes part in the second, without B.
JoinsA == [e \in Epoch |-> <<{A, B}, {A, C}>>[e]]

\* Action constraint: an oracle skips the epochs it does not join.
JoinsOnly == \A o \in Honest : epoch'[o] # epoch[o] => o \in Joins[epoch'[o]]

\* The outcomes of a sequence number are told apart and otherwise alike.
ValueSymmetry == Permutations(Value)
=============================================================================

--------------------------- MODULE ByzQuorumProofs ---------------------------
(***************************************************************************)
(* What the quorum size of internal/byzquorum guarantees, for every number *)
(* of oracles and every F below a third of it.                             *)
(***************************************************************************)
EXTENDS ByzQuorum, FiniteSetTheorems, TLAPS

\* The sets involved are finite, and the honest oracles are the rest.
LEMMA HonestFinite ==
    /\ IsFiniteSet(Faulty)
    /\ IsFiniteSet(Honest)
    /\ Cardinality(Oracle) \in Nat
    /\ Cardinality(Faulty) \in Nat
    /\ Cardinality(Honest) = Cardinality(Oracle) - Cardinality(Faulty)
    /\ Cardinality(Faulty) <= F
    /\ F \in Nat
<1>1. IsFiniteSet(Oracle) /\ Faulty \subseteq Oracle
  BY OracleAssumption
<1>2. IsFiniteSet(Faulty)
  BY <1>1, FS_Subset
<1>3. /\ IsFiniteSet(Oracle \ Faulty)
      /\ Cardinality(Oracle \ Faulty)
            = Cardinality(Oracle) - Cardinality(Oracle \cap Faulty)
  BY <1>1, FS_Difference
<1>4. Oracle \cap Faulty = Faulty
  BY <1>1
<1>5. Cardinality(Oracle) \in Nat /\ Cardinality(Faulty) \in Nat
  BY <1>1, <1>2, FS_CardinalityType
<1>6. QED
  BY <1>2, <1>3, <1>4, <1>5, OracleAssumption DEF Honest

\* The quorum size is above half of N + F, and a quorum can be formed without the
\* faulty oracles.
LEMMA ByzQuorumSizeBounds ==
    /\ ByzQuorumSize \in Nat
    /\ 2 * ByzQuorumSize > Cardinality(Oracle) + F
    /\ ByzQuorumSize <= Cardinality(Oracle) - F
<1>1. Cardinality(Oracle) \in Nat /\ F \in Nat /\ 3 * F < Cardinality(Oracle)
  BY HonestFinite, OracleAssumption
<1>2. QED
  BY <1>1 DEF ByzQuorumSize

\* Two quorums have an honest oracle in common: P and Q are the honest members of
\* quorums that all the faulty oracles belong to.
LEMMA QuorumIntersection ==
    ASSUME NEW P \in SUBSET Honest, NEW Q \in SUBSET Honest,
           Cardinality(P) + Cardinality(Faulty) >= ByzQuorumSize,
           Cardinality(Q) + Cardinality(Faulty) >= ByzQuorumSize
    PROVE  P \cap Q # {}
<1>1. /\ Cardinality(P) \in Nat
      /\ Cardinality(Q) \in Nat
  BY HonestFinite, FS_Subset, FS_CardinalityType
<1>2. Cardinality(P) + Cardinality(Q) > Cardinality(Honest)
  BY <1>1, HonestFinite, ByzQuorumSizeBounds
<1>3. QED
  BY <1>2, HonestFinite, FS_MajoritiesIntersect

\* One honest oracle less in H is one more that it leaves out, at most.
LEMMA OneMoreLeftOut ==
    ASSUME NEW H \in SUBSET Honest, NEW o \in Honest, NEW n \in Nat,
           Cardinality(Honest \ H) <= n
    PROVE  Cardinality(Honest \ (H \ {o})) <= n + 1
<1> DEFINE Out == Honest \ H
           More == Honest \ (H \ {o})
<1>1. More = Out \cup {o} /\ IsFiniteSet(Out) /\ Cardinality(Out) \in Nat
  BY HonestFinite, FS_Subset, FS_CardinalityType
<1>2. Cardinality(Out) <= n
  OBVIOUS
<1> SUFFICES Cardinality(More) <= n + 1
  OBVIOUS
<1> HIDE DEF Out, More
<1>3. CASE o \in Out
  <2>1. More = Out
    BY <1>1, <1>3
  <2>2. QED
    BY <1>1, <1>2, <2>1
<1>4. CASE o \notin Out
  <2>1. Cardinality(More) = Cardinality(Out) + 1
    BY <1>1, <1>4, FS_AddElement
  <2>2. QED
    BY <1>1, <1>2, <2>1
<1>5. QED
  BY <1>3, <1>4

\* Also when some of the honest oracles, those that H leaves out, have to be told from
\* the others: as long as these and the faulty ones are no more than F, a quorum has
\* a member in H, ...
LEMMA QuorumMeets ==
    ASSUME NEW H \in SUBSET Honest,
           Cardinality(Faulty) + Cardinality(Honest \ H) <= F,
           NEW P \in SUBSET Honest,
           Cardinality(P) + Cardinality(Faulty) >= ByzQuorumSize
    PROVE  P \cap H # {}
<1> SUFFICES ASSUME P \cap H = {}
             PROVE  FALSE
  OBVIOUS
<1>1. P \subseteq Honest \ H /\ IsFiniteSet(Honest \ H)
  BY HonestFinite, FS_Subset
<1>2. /\ Cardinality(P) <= Cardinality(Honest \ H)
      /\ Cardinality(P) \in Nat /\ Cardinality(Honest \ H) \in Nat
  BY <1>1, FS_Subset, FS_CardinalityType
<1>3. QED
  BY <1>2, HonestFinite, ByzQuorumSizeBounds, OracleAssumption

\* ... and so have two quorums.
LEMMA QuorumIntersectionIn ==
    ASSUME NEW H \in SUBSET Honest,
           Cardinality(Faulty) + Cardinality(Honest \ H) <= F,
           NEW P \in SUBSET Honest, NEW Q \in SUBSET Honest,
           Cardinality(P) + Cardinality(Faulty) >= ByzQuorumSize,
           Cardinality(Q) + Cardinality(Faulty) >= ByzQuorumSize
    PROVE  P \cap Q \cap H # {}
<1> DEFINE X == Honest \ H
           h == Cardinality(Honest)
           x == Cardinality(X)
           p == Cardinality(P)
           q == Cardinality(Q)
<1>1. /\ IsFiniteSet(P) /\ IsFiniteSet(Q) /\ IsFiniteSet(X)
      /\ IsFiniteSet(P \cap Q) /\ IsFiniteSet(P \cup Q)
  BY HonestFinite, FS_Subset
<1>2. /\ Cardinality(P \cup Q) = p + q - Cardinality(P \cap Q)
      /\ Cardinality(P \cup Q) <= h
  BY <1>1, HonestFinite, FS_Union, FS_Subset
<1>3. /\ p \in Nat /\ q \in Nat /\ x \in Nat /\ h \in Nat
      /\ Cardinality(P \cap Q) \in Nat /\ Cardinality(P \cup Q) \in Nat
  BY <1>1, HonestFinite, FS_CardinalityType
<1>4. Cardinality(P \cap Q) > x
  <2>1. Cardinality(P \cap Q) >= p + q - h
    BY <1>2, <1>3
  <2>2. p + q + 2 * Cardinality(Faulty) > Cardinality(Oracle) + F
    BY <1>3, HonestFinite, ByzQuorumSizeBounds
  <2>3. p + q - h > F - Cardinality(Faulty)
    BY <1>3, <2>2, HonestFinite
  <2>4. x <= F - Cardinality(Faulty)
    BY <1>3, HonestFinite
  <2>5. QED
    BY <1>3, <2>1, <2>3, <2>4, HonestFinite
<1>5. ~(P \cap Q \subseteq X)
  BY <1>1, <1>3, <1>4, FS_Subset
<1>6. QED
  BY <1>5

\* The honest members of a set of signers that holds every faulty oracle.
LEMMA QuorumHonestPart ==
    ASSUME NEW P \in SUBSET Honest, HasQuorum(Faulty \cup P)
    PROVE  Cardinality(P) + Cardinality(Faulty) >= ByzQuorumSize
<1>1. IsFiniteSet(P)
  BY HonestFinite, FS_Subset
<1>2. Faulty \cap P = {}
  BY DEF Honest
<1>3. Cardinality(Faulty \cup P)
          = Cardinality(Faulty) + Cardinality(P) - Cardinality(Faulty \cap P)
  BY <1>1, HonestFinite, FS_Union
<1>4. Cardinality(Faulty \cap P) = 0
  BY <1>2, FS_EmptySet
<1>5. Cardinality(P) \in Nat
  BY <1>1, FS_CardinalityType
<1>6. QED
  BY <1>3, <1>4, <1>5, HonestFinite DEF HasQuorum

\* byzquorum.Size: whatever two sets of oracles sign, if each is a quorum then an
\* oracle that is not faulty signed both.
THEOREM QuorumsShareHonestOracle ==
    ASSUME NEW P \in SUBSET Honest, NEW Q \in SUBSET Honest,
           HasQuorum(Faulty \cup P), HasQuorum(Faulty \cup Q)
    PROVE  P \cap Q # {}
  BY QuorumHonestPart, QuorumIntersection
=============================================================================

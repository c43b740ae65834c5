---------------------- MODULE OutcomeGenerationAgreement ----------------------
(***************************************************************************)
(* What outcome generation decides, for every set of oracles, F, faulty    *)
(* oracles, leaders, epochs and sequence numbers: who drives a round, what *)
(* an oracle works from, which outcomes can be prepared and committed for  *)
(* a sequence number, and that the decisions are the log of OutcomeLog.    *)
(* Each theorem says which faults it tolerates; as in OutcomeGeneration-   *)
(* Safety, those about what oracles signed hold as long as the faulty      *)
(* ones, the restarts and the failed writes are no more than F.            *)
(***************************************************************************)
EXTENDS OutcomeGenerationSafety

(***************************************************************************)
(* Who starts the rounds.                                                  *)
(***************************************************************************)
\* Of the two calls of startSubsequentLeaderRound that a round needs, an oracle
\* that does not lead its epoch can have one in store at most: it is readied only
\* by the timer, which it does not arm again.
ArmedLeadersOnly ==
    \A o \in Honest :
        readyToStartRound[o] /\ tRound[o] => Leader[epoch[o]] = o

LeaderRounds == ArmedLeadersOnly /\ OnlyLeaderStartsRounds

LEMMA LeaderRoundsInit == Init => LeaderRounds
  BY DEF Init, LeaderRounds, ArmedLeadersOnly, OnlyLeaderStartsRounds

LEMMA LeaderRoundsNext ==
    ASSUME TypeInv, LeaderRounds, [Next]_vars
    PROVE  LeaderRounds'
<1> DEFINE Stays(p) ==
        /\ readyToStartRound'[p] /\ tRound'[p] => Leader[epoch'[p]] = p
        /\ leaderPhase'[p] \in {"sentRoundStart", "grace"} => Leader[epoch'[p]] = p
<1> SUFFICES ASSUME NEW p \in Honest
             PROVE  Stays(p)
  BY DEF LeaderRounds, ArmedLeadersOnly, OnlyLeaderStartsRounds
<1> USE DEF LeaderRounds, ArmedLeadersOnly, OnlyLeaderStartsRounds
<1>1. CASE UNCHANGED <<epoch, leaderVars>>
  BY <1>1 DEF leaderVars
<1>2. ASSUME NEW o \in Honest, NEW e \in Epoch, EnterEpoch(o, e)
      PROVE  Stays(p)
  BY <1>2 DEF EnterEpoch, StartEpoch, TypeInv, TypeOK
<1>3. ASSUME NEW o \in Honest, Restart(o)
      PROVE  Stays(p)
  BY <1>3 DEF Restart, StartEpoch, TypeInv, TypeOK
\* A former leader whose timer fires arms the flag instead of starting a round.
<1>4. ASSUME NEW o \in Honest, TRoundTimeout(o)
      PROVE  Stays(p)
  BY <1>4 DEF TRoundTimeout, StartLeaderRound, TypeInv, TypeOK
<1>5. ASSUME NEW o \in Honest, NEW c, NEW R, NEW B, SendEpochStart(o, c, R, B)
      PROVE  Stays(p)
  BY <1>5 DEF SendEpochStart, StartLeaderRound, TypeInv, TypeOK
<1>6. ASSUME NEW o \in Honest, StartGrace(o)
      PROVE  Stays(p)
  BY <1>6 DEF StartGrace, sharedVars, TypeInv, TypeOK
<1>7. ASSUME NEW o \in Honest, NEW v, TGraceTimeout(o, v)
      PROVE  Stays(p)
  BY <1>7 DEF TGraceTimeout, sharedVars, TypeInv, TypeOK
<1>8. ASSUME NEW o \in Honest, ReceiveCommits(o)
      PROVE  Stays(p)
  <2>1. UNCHANGED epoch
    BY <1>8 DEF ReceiveCommits
  <2>2. CASE UNCHANGED leaderVars
    BY <2>1, <2>2 DEF leaderVars
  <2>3. CASE Leader[epoch[o]] = o /\ StartLeaderRound(o, tRound[o], leaderPhase[o])
    BY <2>1, <2>3 DEF StartLeaderRound, TypeInv, TypeOK
  <2>4. QED
    BY <1>8, <2>2, <2>3 DEF ReceiveCommits
<1>9. ASSUME NEW o \in Honest,
             \/ \E m \in epochStarts : ReceiveEpochStart(o, m)
             \/ SendObservation(o) \/ SendCommit(o)
             \/ \E v \in Value : SendPrepare(o, v)
      PROVE  Stays(p)
  <2>1. UNCHANGED <<epoch, leaderVars>>
    BY <1>9 DEF ReceiveEpochStart, SendObservation, SendCommit, SendPrepare,
                sharedVars
  <2>2. QED
    BY <1>1, <2>1
<1>10. ASSUME NEW e, NEW c, NEW R, NEW B, FaultyEpochStart(e, c, R, B)
       PROVE  Stays(p)
  BY <1>1, <1>10 DEF FaultyEpochStart, sharedVars
<1>11. CASE UNCHANGED vars
  BY <1>1, <1>11 DEF vars, sharedVars
<1>12. QED
  BY <1>2, <1>3, <1>4, <1>5, <1>6, <1>7, <1>8, <1>9, <1>10, <1>11 DEF Next

\* eventTRoundTimeout and startSubsequentLeaderRound: the timer of a former leader
\* that nothing stopped never makes it announce a round of another's epoch.
THEOREM RoundsAreTheLeaders == Spec => []OnlyLeaderStartsRounds
<1>1. Init => TypeInv /\ LeaderRounds
  BY InitTyped, LeaderRoundsInit
<1>2. TypeInv /\ LeaderRounds /\ [Next]_vars => (TypeInv /\ LeaderRounds)'
  BY NextTyped, LeaderRoundsNext
<1>3. LeaderRounds => OnlyLeaderStartsRounds
  BY DEF LeaderRounds
<1>4. QED
  BY <1>1, <1>2, <1>3, PTL DEF Spec
-----------------------------------------------------------------------------
(***************************************************************************)
(* Quorums of votes.                                                       *)
(***************************************************************************)
\* Votes are never taken back.
LEMMA PreparesGrow ==
    ASSUME [Next]_vars
    PROVE  prepares \subseteq prepares'
<1>1. ASSUME NEW o \in Honest,
             \/ \E e \in Epoch : EnterEpoch(o, e)
             \/ Restart(o)
             \/ \E m \in epochStarts : ReceiveEpochStart(o, m)
             \/ TRoundTimeout(o) \/ SendObservation(o) \/ StartGrace(o)
             \/ \E v \in Value : TGraceTimeout(o, v) \/ SendPrepare(o, v)
             \/ SendCommit(o) \/ ReceiveCommits(o)
      PROVE  prepares \subseteq prepares'
  BY <1>1 DEF EnterEpoch, Restart, StartEpoch, ReceiveEpochStart, TRoundTimeout,
       SendObservation, StartGrace, TGraceTimeout, SendPrepare, SendCommit,
       ReceiveCommits, votes
<1>2. ASSUME NEW o, NEW c, NEW R, NEW B, SendEpochStart(o, c, R, B)
      PROVE  prepares \subseteq prepares'
  BY <1>2 DEF SendEpochStart, votes
<1>3. ASSUME NEW e, NEW c, NEW R, NEW B, FaultyEpochStart(e, c, R, B)
      PROVE  prepares \subseteq prepares'
  BY <1>3 DEF FaultyEpochStart, votes
<1>4. CASE UNCHANGED vars
  BY <1>4 DEF vars, votes
<1>5. QED
  BY <1>1, <1>2, <1>3, <1>4 DEF Next

\* A larger set of signers is a quorum too.
LEMMA QuorumGrows ==
    ASSUME NEW P \in SUBSET Honest, NEW Q \in SUBSET Honest, P \subseteq Q,
           HasQuorum(Faulty \cup P)
    PROVE  HasQuorum(Faulty \cup Q)
<1>1. IsFiniteSet(Faulty \cup Q) /\ IsFiniteSet(Faulty \cup P)
  BY HonestFinite, FS_Subset, FS_Union
<1>2. Cardinality(Faulty \cup P) <= Cardinality(Faulty \cup Q)
  BY <1>1, FS_Subset
<1>3. /\ Cardinality(Faulty \cup P) \in Nat
      /\ Cardinality(Faulty \cup Q) \in Nat
      /\ ByzQuorumSize \in Nat
  BY <1>1, FS_CardinalityType, ByzQuorumSizeBounds
<1>4. QED
  BY <1>2, <1>3 DEF HasQuorum

\* The honest oracles that signed, as a set of their own.
PreparedBy(e, s, in, v) ==
    {p.from : p \in {q \in prepares :
        q.epoch = e /\ q.seqNr = s /\ q.inputs = in /\ q.outcome = v}}
CommittedBy(e, s, v) ==
    {p.from : p \in {q \in commits :
        q.epoch = e /\ q.seqNr = s /\ q.outcome = v}}

LEMMA SignersTyped ==
    ASSUME TypeInv, NEW e, NEW s, NEW in, NEW v
    PROVE  /\ PreparedBy(e, s, in, v) \in SUBSET Honest
           /\ CommittedBy(e, s, v) \in SUBSET Honest
           /\ PrepareQuorum(e, s, in, v) <=>
                  HasQuorum(Faulty \cup PreparedBy(e, s, in, v))
           /\ CommitQuorum(e, s, v) <=> HasQuorum(Faulty \cup CommittedBy(e, s, v))
  BY DEF PreparedBy, CommittedBy, PrepareQuorum, PrepareSigners, CommitQuorum,
         CommitSigners, TypeInv, TypeOK

\* What a certificate can be put together for stays so.
LEMMA PreparedStable ==
    ASSUME TypeInv, [Next]_vars, NEW e, NEW s, NEW in, NEW v,
           PrepareQuorum(e, s, in, v)
    PROVE  PrepareQuorum(e, s, in, v)'
<1>1. TypeInv'
  BY NextTyped
<1> DEFINE P == PreparedBy(e, s, in, v)
           Q == PreparedBy(e, s, in, v)'
<1>2. P \in SUBSET Honest /\ HasQuorum(Faulty \cup P)
  BY SignersTyped
<1>3. Q \in SUBSET Honest
  BY <1>1 DEF PreparedBy, TypeInv, TypeOK
<1>4. P \subseteq Q
  BY PreparesGrow DEF PreparedBy
<1>5. HasQuorum(Faulty \cup Q)
  <2>. HIDE DEF P, Q
  <2>. QED
    BY <1>2, <1>3, <1>4, QuorumGrows
<1>6. QED
  BY <1>5 DEF PrepareQuorum, PrepareSigners, PreparedBy, HasQuorum

LEMMA CommittedStable ==
    ASSUME TypeInv, [Next]_vars, NEW e, NEW s, NEW v, CommitQuorum(e, s, v)
    PROVE  CommitQuorum(e, s, v)'
<1>1. TypeInv'
  BY NextTyped
<1> DEFINE P == CommittedBy(e, s, v)
           Q == CommittedBy(e, s, v)'
<1>2. P \in SUBSET Honest /\ HasQuorum(Faulty \cup P)
  BY SignersTyped
<1>3. Q \in SUBSET Honest
  BY <1>1 DEF CommittedBy, TypeInv, TypeOK
<1>4. P \subseteq Q
  BY StepMonotone DEF CommittedBy
<1>5. HasQuorum(Faulty \cup Q)
  <2>. HIDE DEF P, Q
  <2>. QED
    BY <1>2, <1>3, <1>4, QuorumGrows
<1>6. QED
  BY <1>5 DEF CommitQuorum, CommitSigners, CommittedBy, HasQuorum

\* A prepared outcome was voted for by an honest oracle; so was a committed one,
\* which makes it one of CommitCertificates.
LEMMA PreparedHasVote ==
    ASSUME TypeInv, NEW e, NEW s, NEW in, NEW v, PrepareQuorum(e, s, in, v)
    PROVE  \E n \in prepares :
               n.epoch = e /\ n.seqNr = s /\ n.inputs = in /\ n.outcome = v
<1>1. PreparedBy(e, s, in, v) # {}
  BY SignersTyped, QuorumsShareHonestOracle
<1>2. QED
  BY <1>1 DEF PreparedBy

LEMMA CommittedHasVote ==
    ASSUME TypeInv, NEW e, NEW s, NEW v, CommitQuorum(e, s, v)
    PROVE  CertifiedCommit(e, s, v) \in CommitCertificates
<1>1. CommittedBy(e, s, v) # {}
  BY SignersTyped, QuorumsShareHonestOracle
<1>2. PICK n \in commits : n.epoch = e /\ n.seqNr = s /\ n.outcome = v
  BY <1>1 DEF CommittedBy
<1>3. QED
  BY <1>2 DEF CommitCertificates

LEMMA CommitCertificatesGrow ==
    ASSUME TypeInv, [Next]_vars
    PROVE  CommitCertificates \subseteq CommitCertificates'
<1> SUFFICES ASSUME NEW n \in commits, CommitQuorum(n.epoch, n.seqNr, n.outcome)
             PROVE  /\ n \in commits'
                    /\ CommitQuorum(n.epoch, n.seqNr, n.outcome)'
  BY DEF CommitCertificates
<1>1. QED
  BY StepMonotone, CommittedStable

\* The fields of what CommitCertificates holds.
LEMMA CommitCertificatesTyped ==
    ASSUME TypeInv, NEW c \in CommitCertificates
    PROVE  /\ c \in Certificate
           /\ c.committed
           /\ c.epoch \in Epoch /\ c.seqNr \in SeqNr /\ c.outcome \in Value
           /\ CommitQuorum(c.epoch, c.seqNr, c.outcome)
<1>1. PICK n \in commits :
          /\ CommitQuorum(n.epoch, n.seqNr, n.outcome)
          /\ c = CertifiedCommit(n.epoch, n.seqNr, n.outcome)
  BY DEF CommitCertificates
<1>2. n.epoch \in Epoch /\ n.seqNr \in SeqNr /\ n.outcome \in Value
  BY DEF TypeInv, TypeOK
<1>3. QED
  BY <1>1, <1>2 DEF CertifiedCommit, Certificate
-----------------------------------------------------------------------------
(***************************************************************************)
(* One outcome is prepared per epoch and sequence number.                  *)
(***************************************************************************)
\* An oracle votes in the epoch it is in, for the sequence number it is at, and then
\* stays in the phases after the vote until the sequence number grows.  (One that is
\* restarted votes again; H is the set of those relied on.)
PreparesInOrder(H) ==
    \A n \in prepares : n.from \in H =>
        /\ n.epoch <= epoch[n.from]
        /\ n.epoch = epoch[n.from] =>
              /\ followerPhase[n.from] \notin {"unknown", "newEpoch"}
              /\ n.seqNr <= seqNr[n.from]
              /\ n.seqNr = seqNr[n.from] =>
                    followerPhase[n.from] \in {"sentPrepare", "sentCommit"}

\* It votes once, then.
PreparesOnce(H) ==
    \A m, n \in prepares :
        /\ m.from \in H /\ m.from = n.from
        /\ m.epoch = n.epoch /\ m.seqNr = n.seqNr
        => m = n

PrepareVotes(H) == PreparesInOrder(H) /\ PreparesOnce(H)

\* v gathered a prepare quorum for sequence number s in epoch e.
Prepared(e, s, v) == \E in \in Inputs : PrepareQuorum(e, s, in, v)

\* How the follower of o moves: into a later epoch, or on through the phases of a
\* round, the sequence number of which only grows within an epoch.
FollowerMoves(o) ==
    \/ /\ epoch'[o] > epoch[o]
       /\ followerPhase'[o] = "newEpoch"
    \/ /\ epoch'[o] = epoch[o]
       /\ \/ /\ followerPhase'[o] = followerPhase[o]
             /\ seqNr'[o] = seqNr[o]
          \/ /\ followerPhase[o] = "newEpoch"
             /\ followerPhase'[o] = "newRound"
             /\ \E m \in epochStarts :
                    m.epoch = epoch[o] /\ m.cert.seqNr < seqNr'[o]
          \/ /\ followerPhase[o] = "newEpoch"
             /\ followerPhase'[o] = "sentPrepare"
          \/ /\ followerPhase[o] = "newRound"
             /\ followerPhase'[o] = "sentObservation"
             /\ seqNr'[o] = seqNr[o]
          \/ /\ followerPhase[o] = "sentObservation"
             /\ followerPhase'[o] = "sentPrepare"
             /\ seqNr'[o] = seqNr[o]
          \/ /\ followerPhase[o] = "sentPrepare"
             /\ followerPhase'[o] = "sentCommit"
             /\ seqNr'[o] = seqNr[o]
          \/ /\ followerPhase[o] = "sentCommit"
             /\ followerPhase'[o] = "newRound"
             /\ seqNr'[o] > seqNr[o]

\* n is the vote o casts when it comes to phase sentPrepare.
CastsPrepare(o, n) ==
    /\ n.from = o
    /\ n.epoch = epoch[o]
    /\ n.seqNr = seqNr'[o]
    /\ epoch'[o] = epoch[o]
    /\ followerPhase[o] \in {"newEpoch", "sentObservation"}
    /\ followerPhase'[o] = "sentPrepare"

\* What a step lets the oracles of H do, and the votes it adds, theirs or others'.
VotesCast(H) ==
    /\ \A o \in H : FollowerMoves(o)
    /\ \/ prepares' = prepares
       \/ \E o \in Honest : \E n :
              /\ n.from = o
              /\ o \in H => CastsPrepare(o, n)
              /\ prepares' = prepares \cup {n}

LEMMA ReceiveEpochStartCasts ==
    ASSUME TypeInv, UNCHANGED failures,
           NEW o \in Honest, NEW m \in epochStarts, ReceiveEpochStart(o, m)
    PROVE  VotesCast(Honest)
<1>1. m.cert \in Certificate \cup {Genesis}
  BY DEF TypeInv, TypeOK
<1>2. CASE /\ Commit(o, m.cert)
           /\ StartFollowerRound(o)
           /\ UNCHANGED prepares
  <2>1. /\ m.cert.seqNr <= committedSeqNr'[o]
        /\ committedSeqNr'[o] \in Nat
        /\ m.cert.seqNr \in Nat
    BY <1>1, <1>2, CommitEffect
  <2>2. /\ seqNr' = [seqNr EXCEPT ![o] = committedSeqNr'[o] + 1]
        /\ followerPhase' = [followerPhase EXCEPT ![o] = "newRound"]
        /\ UNCHANGED <<epoch, prepares>>
        /\ followerPhase[o] = "newEpoch"
        /\ m.epoch = epoch[o]
    BY <1>2 DEF ReceiveEpochStart, StartFollowerRound
  <2>3. \A p \in Honest : FollowerMoves(p)
    BY <2>1, <2>2 DEF FollowerMoves, TypeInv, TypeOK
  <2>4. QED
    BY <2>2, <2>3 DEF VotesCast
<1>3. CASE ~m.cert.committed
  <2> DEFINE n == [epoch |-> epoch[o], seqNr |-> m.cert.seqNr, from |-> o,
                   inputs |-> Reproposal, outcome |-> m.cert.outcome]
  <2>1. /\ seqNr' = [seqNr EXCEPT ![o] = m.cert.seqNr]
        /\ followerPhase' = [followerPhase EXCEPT ![o] = "sentPrepare"]
        /\ prepares' = prepares \cup {n}
        /\ UNCHANGED epoch
        /\ followerPhase[o] = "newEpoch"
    BY <1>3 DEF ReceiveEpochStart
  <2>2. \A p \in Honest : FollowerMoves(p)
    BY <2>1 DEF FollowerMoves, TypeInv, TypeOK
  <2>3. CastsPrepare(o, n)
    BY <2>1 DEF CastsPrepare, TypeInv, TypeOK
  <2>4. QED
    BY <2>1, <2>2, <2>3 DEF VotesCast
<1>4. QED
  BY <1>2, <1>3 DEF ReceiveEpochStart

LEMMA SendPrepareCasts ==
    ASSUME TypeInv, NEW o \in Honest, NEW v, SendPrepare(o, v)
    PROVE  VotesCast(Honest)
<1> DEFINE n == [epoch |-> epoch[o], seqNr |-> seqNr[o], from |-> o,
                 inputs |-> committedOutcome[o], outcome |-> v]
<1>1. /\ followerPhase[o] = "sentObservation"
      /\ followerPhase' = [followerPhase EXCEPT ![o] = "sentPrepare"]
      /\ prepares' = prepares \cup {n}
      /\ UNCHANGED <<epoch, seqNr>>
  BY DEF SendPrepare, sharedVars
<1>2. \A p \in Honest : FollowerMoves(p)
  BY <1>1 DEF FollowerMoves, TypeInv, TypeOK
<1>3. CastsPrepare(o, n)
  BY <1>1 DEF CastsPrepare, TypeInv, TypeOK
<1>4. QED
  BY <1>1, <1>2, <1>3 DEF VotesCast

LEMMA ReceiveCommitsCasts ==
    ASSUME TypeInv, UNCHANGED failures, NEW o \in Honest, ReceiveCommits(o)
    PROVE  VotesCast(Honest)
<1> DEFINE c == CertifiedCommit(epoch[o], seqNr[o], outcome[o].outcome)
<1>1. /\ followerPhase[o] = "sentCommit"
      /\ UNCHANGED <<epoch, prepares>>
      /\ Commit(o, c)
      /\ c \in Certificate \cup {Genesis}
      /\ c.seqNr = seqNr[o]
      /\ seqNr[o] \in Nat
  BY ParameterAssumption
     DEF ReceiveCommits, votes, CertifiedCommit, Certificate, TypeInv, TypeOK,
         PhasesOK
<1>. HIDE DEF c
<1>2. seqNr[o] <= committedSeqNr'[o] /\ committedSeqNr'[o] \in Nat
  BY <1>1, CommitEffect
<1>3. CASE UNCHANGED <<seqNr, followerPhase>>
  BY <1>1, <1>3 DEF VotesCast, FollowerMoves
<1>4. CASE StartFollowerRound(o)
  <2>1. /\ seqNr' = [seqNr EXCEPT ![o] = committedSeqNr'[o] + 1]
        /\ followerPhase' = [followerPhase EXCEPT ![o] = "newRound"]
    BY <1>4 DEF StartFollowerRound
  <2>2. \A p \in Honest : FollowerMoves(p)
    BY <1>1, <1>2, <2>1 DEF FollowerMoves, TypeInv, TypeOK
  <2>3. QED
    BY <1>1, <2>2 DEF VotesCast
<1>5. QED
  BY <1>3, <1>4 DEF ReceiveCommits

\* The vote of an oracle that is not relied on.
LEMMA OutsideCasts ==
    ASSUME TypeInv, NEW H \in SUBSET Honest, NEW o \in Honest, o \notin H, StepOf(o)
    PROVE  VotesCast(H)
<1>1. \A p \in H : FollowerMoves(p)
  BY StepsOfOthers DEF FollowerMoves
<1>2. \/ prepares' = prepares
      \/ \E n : n.from = o /\ prepares' = prepares \cup {n}
  <2> DEFINE Own == \/ prepares' = prepares
                    \/ \E n : n.from = o /\ prepares' = prepares \cup {n}
  <2>1. ASSUME NEW m, ReceiveEpochStart(o, m)
        PROVE  Own
    <3> DEFINE n == [epoch |-> epoch[o], seqNr |-> m.cert.seqNr, from |-> o,
                     inputs |-> Reproposal, outcome |-> m.cert.outcome]
    <3>1. n.from = o
      OBVIOUS
    <3>2. prepares' = prepares \/ prepares' = prepares \cup {n}
      BY <2>1 DEF ReceiveEpochStart
    <3> HIDE DEF n
    <3>3. QED
      BY <3>1, <3>2
  <2>2. ASSUME NEW v, SendPrepare(o, v)
        PROVE  Own
    <3> DEFINE n == [epoch |-> epoch[o], seqNr |-> seqNr[o], from |-> o,
                     inputs |-> committedOutcome[o], outcome |-> v]
    <3>1. n.from = o
      OBVIOUS
    <3>2. prepares' = prepares \cup {n}
      BY <2>2 DEF SendPrepare
    <3> HIDE DEF n
    <3>3. QED
      BY <3>1, <3>2
  <2>3. CASE \/ \E e \in Epoch : EnterEpoch(o, e)
             \/ Restart(o)
             \/ TRoundTimeout(o) \/ SendObservation(o) \/ StartGrace(o)
             \/ \E v \in Value : TGraceTimeout(o, v)
             \/ SendCommit(o) \/ ReceiveCommits(o)
    BY <2>3 DEF EnterEpoch, Restart, StartEpoch, TRoundTimeout, SendObservation,
         StartGrace, TGraceTimeout, SendCommit, ReceiveCommits, votes
  <2>4. ASSUME NEW c, NEW R, NEW B, SendEpochStart(o, c, R, B)
        PROVE  Own
    BY <2>4 DEF SendEpochStart, votes
  <2>5. QED
    BY <2>1, <2>2, <2>3, <2>4 DEF StepOf
<1>3. QED
  BY <1>1, <1>2 DEF VotesCast

LEMMA InsideCasts ==
    ASSUME TypeInv, NEW o \in Honest, StepOf(o), UNCHANGED faultVars
    PROVE  VotesCast(Honest)
<1>1. UNCHANGED failures /\ UNCHANGED restarts
  BY DEF faultVars
<1>2. ASSUME NEW e \in Epoch, EnterEpoch(o, e)
      PROVE  VotesCast(Honest)
  <2>1. UNCHANGED prepares /\ \A p \in Honest : FollowerMoves(p)
    BY <1>2 DEF EnterEpoch, StartEpoch, votes, FollowerMoves, TypeInv, TypeOK
  <2>2. QED
    BY <2>1 DEF VotesCast
<1>3. CASE Restart(o)
  BY <1>1, <1>3, ParameterAssumption DEF Restart, TypeInv, TypeOK
<1>4. CASE SendObservation(o)
  <2>1. UNCHANGED prepares /\ \A p \in Honest : FollowerMoves(p)
    BY <1>4 DEF SendObservation, sharedVars, votes, FollowerMoves, TypeInv, TypeOK
  <2>2. QED
    BY <2>1 DEF VotesCast
<1>5. CASE SendCommit(o)
  <2>1. UNCHANGED prepares /\ \A p \in Honest : FollowerMoves(p)
    BY <1>5 DEF SendCommit, sharedVars, FollowerMoves, TypeInv, TypeOK
  <2>2. QED
    BY <2>1 DEF VotesCast
<1>6. CASE UNCHANGED <<epoch, seqNr, followerPhase, prepares>>
  BY <1>6 DEF VotesCast, FollowerMoves
<1>7. CASE \/ TRoundTimeout(o) \/ StartGrace(o)
           \/ \E v \in Value : TGraceTimeout(o, v)
  BY <1>6, <1>7
     DEF TRoundTimeout, StartGrace, TGraceTimeout, sharedVars, followerVars, votes
<1>8. ASSUME NEW c, NEW R, NEW B, SendEpochStart(o, c, R, B)
      PROVE  VotesCast(Honest)
  BY <1>6, <1>8 DEF SendEpochStart, votes
<1>9. QED
  BY <1>1, <1>2, <1>3, <1>4, <1>5, <1>7, <1>8, ReceiveEpochStartCasts,
     SendPrepareCasts, ReceiveCommitsCasts DEF StepOf

LEMMA SteadyCasts ==
    ASSUME TypeInv, NEW H \in SUBSET Honest, SteadyNext(H)
    PROVE  VotesCast(H)
<1>1. VotesCast(Honest) => VotesCast(H)
  BY DEF VotesCast
<1>2. CASE UNCHANGED <<epoch, seqNr, followerPhase, prepares>>
  BY <1>2 DEF VotesCast, FollowerMoves
<1>3. CASE UNCHANGED vars \/ FaultyStep
  <2>1. UNCHANGED <<epoch, seqNr, followerPhase, prepares>>
    BY <1>3 DEF FaultyStep, FaultyEpochStart, vars, sharedVars, followerVars, votes
  <2>2. QED
    BY <1>2, <2>1
<1>4. ASSUME NEW o \in Honest, StepOf(o), o \in H => UNCHANGED faultVars
      PROVE  VotesCast(H)
  BY <1>1, <1>4, InsideCasts, OutsideCasts
<1>5. QED
  BY <1>3, <1>4 DEF SteadyNext

LEMMA PrepareVotesInit ==
    ASSUME NEW H \in SUBSET Honest
    PROVE  Init => PrepareVotes(H)
  BY DEF Init, PrepareVotes, PreparesInOrder, PreparesOnce

LEMMA PrepareVotesNext ==
    ASSUME NEW H \in SUBSET Honest, TypeInv, PrepareVotes(H), SteadyNext(H)
    PROVE  PrepareVotes(H)'
<1>0. [Next]_vars
  BY SteadyIsNext
<1>1. VotesCast(H)
  BY SteadyCasts
<1>2. \A n \in prepares :
          /\ n.from \in Honest
          /\ n.epoch \in Nat /\ n.seqNr \in Nat
          /\ epoch[n.from] \in Nat /\ seqNr[n.from] \in Nat
  BY ParameterAssumption DEF TypeInv, TypeOK, Epoch, SeqNr
<1>3. \A o \in Honest : epoch'[o] \in Nat /\ seqNr'[o] \in Nat
  BY <1>0, NextTyped, ParameterAssumption DEF TypeInv, TypeOK
<1> DEFINE InOrder(n) ==
        /\ n.epoch <= epoch'[n.from]
        /\ n.epoch = epoch'[n.from] =>
              /\ followerPhase'[n.from] \notin {"unknown", "newEpoch"}
              /\ n.seqNr <= seqNr'[n.from]
              /\ n.seqNr = seqNr'[n.from] =>
                    followerPhase'[n.from] \in {"sentPrepare", "sentCommit"}
<1>4. ASSUME NEW n \in prepares, n.from \in H
      PROVE  InOrder(n)
  <2>1. /\ FollowerMoves(n.from)
        /\ n.epoch \in Nat /\ n.seqNr \in Nat
        /\ epoch[n.from] \in Nat /\ seqNr[n.from] \in Nat
        /\ epoch'[n.from] \in Nat /\ seqNr'[n.from] \in Nat
    BY <1>1, <1>2, <1>3, <1>4 DEF VotesCast
  <2>2. /\ n.epoch <= epoch[n.from]
        /\ n.epoch = epoch[n.from] =>
              /\ followerPhase[n.from] \notin {"unknown", "newEpoch"}
              /\ n.seqNr <= seqNr[n.from]
              /\ n.seqNr = seqNr[n.from] =>
                    followerPhase[n.from] \in {"sentPrepare", "sentCommit"}
    BY <1>4 DEF PrepareVotes, PreparesInOrder
  <2>3. QED
    BY <2>1, <2>2 DEF FollowerMoves
<1>5. CASE prepares' = prepares
  <2>1. PreparesInOrder(H)'
    BY <1>4, <1>5 DEF PreparesInOrder
  <2>2. PreparesOnce(H)'
    BY <1>5 DEF PrepareVotes, PreparesOnce
  <2>3. QED
    BY <2>1, <2>2 DEF PrepareVotes
<1>6. ASSUME NEW o \in Honest, NEW n, n.from = o, o \in H => CastsPrepare(o, n),
             prepares' = prepares \cup {n}
      PROVE  PrepareVotes(H)'
  <2>1. n.from \in H => InOrder(n)
    BY <1>3, <1>6 DEF CastsPrepare
  <2>2. PreparesInOrder(H)'
    BY <1>4, <1>6, <2>1 DEF PreparesInOrder
  <2>3. ASSUME NEW m \in prepares, n.from \in H,
               m.from = n.from, m.epoch = n.epoch, m.seqNr = n.seqNr
        PROVE  FALSE
    BY <1>1, <1>2, <1>3, <1>6, <2>3
       DEF CastsPrepare, VotesCast, FollowerMoves, PrepareVotes, PreparesInOrder
  <2>4. PreparesOnce(H)'
    BY <1>6, <2>3 DEF PrepareVotes, PreparesOnce
  <2>5. QED
    BY <2>2, <2>4 DEF PrepareVotes
<1>7. QED
  BY <1>1, <1>5, <1>6 DEF VotesCast

LEMMA PrepareVotesOfFewer ==
    ASSUME NEW H \in SUBSET Honest, NEW G \in SUBSET H, PrepareVotes(H)
    PROVE  PrepareVotes(G)
  BY DEF PrepareVotes, PreparesInOrder, PreparesOnce

\* One oracle cannot vote for two outcomes, so two quorums cannot be for two.
LEMMA OnePrepared ==
    ASSUME NEW H \in SUBSET Honest, Few(H), TypeInv, PrepareVotes(H), NEW e, NEW s,
           NEW v, NEW w, Prepared(e, s, v), Prepared(e, s, w)
    PROVE  v = w
<1>1. PICK i \in Inputs : PrepareQuorum(e, s, i, v)
  BY DEF Prepared
<1>2. PICK j \in Inputs : PrepareQuorum(e, s, j, w)
  BY DEF Prepared
<1>3. PreparedBy(e, s, i, v) \cap PreparedBy(e, s, j, w) \cap H # {}
  BY <1>1, <1>2, SignersTyped, QuorumHonestPart, QuorumIntersectionIn DEF Few
<1>4. PICK m \in prepares, n \in prepares :
          /\ m.from \in H /\ m.from = n.from
          /\ m.epoch = e /\ m.seqNr = s /\ m.outcome = v
          /\ n.epoch = e /\ n.seqNr = s /\ n.outcome = w
  BY <1>3 DEF PreparedBy
<1>5. QED
  BY <1>4 DEF PrepareVotes, PreparesOnce

PrepareVotesOfMost ==
    \E H \in SUBSET Honest :
        Cardinality(Honest \ H) <= failures + restarts /\ PrepareVotes(H)

LEMMA PrepareVotesOfMostInit == Init => PrepareVotesOfMost
<1> SUFFICES ASSUME Init
             PROVE  PrepareVotesOfMost
  OBVIOUS
<1>1. Cardinality(Honest \ Honest) <= failures + restarts
  BY NoneLeftOut DEF Init
<1>2. PrepareVotes(Honest)
  BY PrepareVotesInit
<1>3. QED
  BY <1>1, <1>2 DEF PrepareVotesOfMost

LEMMA PrepareVotesOfMostNext ==
    ASSUME TypeInv, PrepareVotesOfMost, [Next]_vars
    PROVE  PrepareVotesOfMost'
<1>1. PICK H \in SUBSET Honest :
          Cardinality(Honest \ H) <= failures + restarts /\ PrepareVotes(H)
  BY DEF PrepareVotesOfMost
<1>2. PICK G \in SUBSET H :
          SteadyNext(G) /\ Cardinality(Honest \ G) <= failures' + restarts'
  BY <1>1, SteadyRemain
<1>3. G \in SUBSET Honest
  BY <1>1, <1>2
<1>4. PrepareVotes(G)'
  BY <1>1, <1>2, <1>3, PrepareVotesOfFewer, PrepareVotesNext
<1>5. QED
  BY <1>2, <1>3, <1>4 DEF PrepareVotesOfMost

\* tryProcessProposalPool and messageEpochStart: a follower signs one outcome for a
\* sequence number in an epoch, whatever a leader proposes to whom, unless it is
\* restarted or fails to write a certificate; as long as no more than F do or are
\* faulty, no two outcomes are prepared.
THEOREM PreparedOncePerEpoch == Spec => [](Tolerated => OnePreparedPerEpoch)
<1>1. Init => TypeInv /\ PrepareVotesOfMost
  BY InitTyped, PrepareVotesOfMostInit
<1>2. TypeInv /\ PrepareVotesOfMost /\ [Next]_vars
          => (TypeInv /\ PrepareVotesOfMost)'
  BY NextTyped, PrepareVotesOfMostNext
<1>3. TypeInv /\ PrepareVotesOfMost => (Tolerated => OnePreparedPerEpoch)
  <2> SUFFICES ASSUME TypeInv, PrepareVotesOfMost, Tolerated,
                      NEW m \in PreparedVotes, NEW n \in PreparedVotes,
                      m.epoch = n.epoch, m.seqNr = n.seqNr
               PROVE  m.outcome = n.outcome
    BY DEF OnePreparedPerEpoch
  <2>1. m.inputs \in Inputs /\ n.inputs \in Inputs
    BY DEF PreparedVotes, TypeInv, TypeOK
  <2>2. /\ Prepared(m.epoch, m.seqNr, m.outcome)
        /\ Prepared(m.epoch, m.seqNr, n.outcome)
    BY <2>1 DEF PreparedVotes, Prepared
  <2>3. PICK H \in SUBSET Honest :
            Cardinality(Honest \ H) <= failures + restarts /\ PrepareVotes(H)
    BY DEF PrepareVotesOfMost
  <2>4. Few(H)
    BY <2>3, ToleratedFew
  <2>5. QED
    BY <2>2, <2>3, <2>4, OnePrepared
<1>4. QED
  BY <1>1, <1>2, <1>3, PTL DEF Spec
-----------------------------------------------------------------------------
(***************************************************************************)
(* Decisions of different epochs.                                          *)
(***************************************************************************)
\* What the EpochStarts carry was verified, and a vote to commit follows a prepare
\* quorum.
CertificatesVerify ==
    /\ \A m \in epochStarts : Verifies(m.cert)
    /\ \A m \in commits : Prepared(m.epoch, m.seqNr, m.outcome)

\* A round that computes an outcome is for a sequence number above the certificate
\* its epoch started from.
StartedAbove(H) ==
    \A o \in H : followerPhase[o] \in {"newRound", "sentObservation"} =>
        \E m \in epochStarts : m.epoch = epoch[o] /\ m.cert.seqNr < seqNr[o]

\* If s may be committed in e, then all that is voted for at s in later epochs was
\* prepared in e or before.
PreparesRestOnEarlier(H) ==
    \A e \in Epoch, s \in SeqNr :
        \/ Blocked(H, e, s)
        \/ \A n \in prepares : n.from \in H /\ n.epoch > e /\ n.seqNr = s =>
               \E d \in Epoch : d <= e /\ Prepared(d, s, n.outcome)

\* Two commit certificates disagree only if the outcome of the later one had been
\* prepared before the epoch of the earlier one.
DisagreementIsOlder ==
    \A c, d \in CommitCertificates :
        c.seqNr = d.seqNr /\ c.epoch <= d.epoch =>
            \/ c.outcome = d.outcome
            \/ /\ c.epoch < d.epoch
               /\ \E e \in Epoch :
                      e < c.epoch /\ Prepared(e, c.seqNr, d.outcome)

LEMMA PreparedGrows ==
    ASSUME TypeInv, [Next]_vars, NEW e, NEW s, NEW v, Prepared(e, s, v)
    PROVE  Prepared(e, s, v)'
  BY PreparedStable DEF Prepared

LEMMA VerifiesGrows ==
    ASSUME TypeInv, [Next]_vars, NEW c, Verifies(c)
    PROVE  Verifies(c)'
  BY PreparedStable, CommittedStable DEF Verifies

\* The votes to commit and the EpochStarts that a step adds.
LEMMA CertificatesAdded ==
    ASSUME TypeInv, [Next]_vars
    PROVE  /\ \A m \in epochStarts' \ epochStarts : Verifies(m.cert)
           /\ \A m \in commits' \ commits : Prepared(m.epoch, m.seqNr, m.outcome)
<1> DEFINE Added ==
        /\ \A m \in epochStarts' \ epochStarts : Verifies(m.cert)
        /\ \A m \in commits' \ commits : Prepared(m.epoch, m.seqNr, m.outcome)
<1>1. CASE UNCHANGED <<epochStarts, commits>>
  BY <1>1
<1>2. ASSUME NEW o \in Honest, NEW c, NEW R, NEW B, SendEpochStart(o, c, R, B)
      PROVE  Added
  BY <1>2 DEF SendEpochStart, ProofVerifies, votes
<1>3. ASSUME NEW e, NEW c, NEW R, NEW B, FaultyEpochStart(e, c, R, B)
      PROVE  Added
  BY <1>3 DEF FaultyEpochStart, ProofVerifies, votes
<1>4. ASSUME NEW o \in Honest, SendCommit(o)
      PROVE  Added
  <2>1. /\ UNCHANGED epochStarts
        /\ PrepareQuorum(epoch[o], seqNr[o], outcome[o].inputs, outcome[o].outcome)
        /\ commits' \subseteq commits \cup
              {[epoch |-> epoch[o], seqNr |-> seqNr[o], from |-> o,
                outcome |-> outcome[o].outcome]}
    BY <1>4 DEF SendCommit, epochMsgs
  <2>2. outcome[o].inputs \in Inputs
    BY DEF TypeInv, TypeOK
  <2>3. QED
    BY <2>1, <2>2 DEF Prepared
<1>5. ASSUME NEW o \in Honest,
             \/ \E e \in Epoch : EnterEpoch(o, e)
             \/ Restart(o)
             \/ \E m \in epochStarts : ReceiveEpochStart(o, m)
             \/ TRoundTimeout(o) \/ SendObservation(o) \/ StartGrace(o)
             \/ \E v \in Value : TGraceTimeout(o, v) \/ SendPrepare(o, v)
             \/ ReceiveCommits(o)
      PROVE  Added
  <2>1. UNCHANGED <<epochStarts, commits>>
    BY <1>5 DEF EnterEpoch, Restart, StartEpoch, ReceiveEpochStart, TRoundTimeout,
         SendObservation, StartGrace, TGraceTimeout, SendPrepare, ReceiveCommits,
         epochMsgs, votes
  <2>2. QED
    BY <1>1, <2>1
<1>6. CASE UNCHANGED vars
  BY <1>1, <1>6 DEF vars, epochMsgs, votes
<1>7. QED
  BY <1>2, <1>3, <1>4, <1>5, <1>6 DEF Next

LEMMA CertificatesVerifyInit == Init => CertificatesVerify
  BY DEF Init, CertificatesVerify

LEMMA CertificatesVerifyNext ==
    ASSUME TypeInv, CertificatesVerify, [Next]_vars
    PROVE  CertificatesVerify'
<1>1. ASSUME NEW m \in epochStarts'
      PROVE  Verifies(m.cert)'
  <2>1. Verifies(m.cert)
    BY CertificatesAdded DEF CertificatesVerify
  <2>2. QED
    BY <2>1, VerifiesGrows
<1>2. ASSUME NEW m \in commits'
      PROVE  Prepared(m.epoch, m.seqNr, m.outcome)'
  <2>1. Prepared(m.epoch, m.seqNr, m.outcome)
    BY CertificatesAdded DEF CertificatesVerify
  <2>2. QED
    BY <2>1, PreparedGrows
<1>3. QED
  BY <1>1, <1>2 DEF CertificatesVerify

\* Where a prepare vote comes from: the re-proposal of a prepared outcome, or a
\* round of the epoch.
LEMMA PreparesAdded ==
    ASSUME [Next]_vars, TypeInv, NEW n \in prepares' \ prepares
    PROVE  \/ \E m \in epochStarts :
                  /\ ~m.cert.committed
                  /\ m.epoch = n.epoch
                  /\ m.cert.seqNr = n.seqNr /\ m.cert.outcome = n.outcome
                  /\ n.inputs = Reproposal
           \/ \E o \in Honest :
                  /\ n.from = o
                  /\ followerPhase[o] = "sentObservation"
                  /\ n.epoch = epoch[o] /\ n.seqNr = seqNr[o]
                  /\ n.inputs = committedOutcome[o]
<1> DEFINE Origin ==
        \/ \E m \in epochStarts :
               /\ ~m.cert.committed
               /\ m.epoch = n.epoch
               /\ m.cert.seqNr = n.seqNr /\ m.cert.outcome = n.outcome
               /\ n.inputs = Reproposal
        \/ \E o \in Honest :
               /\ n.from = o
               /\ followerPhase[o] = "sentObservation"
               /\ n.epoch = epoch[o] /\ n.seqNr = seqNr[o]
               /\ n.inputs = committedOutcome[o]
<1>1. ASSUME NEW o \in Honest, NEW m \in epochStarts, ReceiveEpochStart(o, m)
      PROVE  Origin
  BY <1>1 DEF ReceiveEpochStart
<1>2. ASSUME NEW o \in Honest, NEW v, SendPrepare(o, v)
      PROVE  Origin
  BY <1>2 DEF SendPrepare
<1>3. ASSUME NEW o \in Honest,
             \/ \E e \in Epoch : EnterEpoch(o, e)
             \/ Restart(o)
             \/ TRoundTimeout(o) \/ SendObservation(o) \/ StartGrace(o)
             \/ \E v \in Value : TGraceTimeout(o, v)
             \/ SendCommit(o) \/ ReceiveCommits(o)
      PROVE  FALSE
  BY <1>3 DEF EnterEpoch, Restart, StartEpoch, TRoundTimeout, SendObservation,
       StartGrace, TGraceTimeout, SendCommit, ReceiveCommits, votes
<1>4. ASSUME NEW o, NEW c, NEW R, NEW B, SendEpochStart(o, c, R, B)
      PROVE  FALSE
  BY <1>4 DEF SendEpochStart, votes
<1>5. ASSUME NEW e, NEW c, NEW R, NEW B, FaultyEpochStart(e, c, R, B)
      PROVE  FALSE
  BY <1>5 DEF FaultyEpochStart, votes
<1>6. CASE UNCHANGED vars
  BY <1>6 DEF vars, votes
<1>7. QED
  BY <1>1, <1>2, <1>3, <1>4, <1>5, <1>6 DEF Next

LEMMA StartedAboveNext ==
    ASSUME NEW H \in SUBSET Honest, TypeInv, Handshake(H), StartedAbove(H),
           SteadyNext(H)
    PROVE  StartedAbove(H)'
<1> SUFFICES ASSUME NEW o \in H,
                    followerPhase'[o] \in {"newRound", "sentObservation"}
             PROVE  \E m \in epochStarts' :
                        m.epoch = epoch'[o] /\ m.cert.seqNr < seqNr'[o]
  BY DEF StartedAbove
<1>1. epochStarts \subseteq epochStarts' /\ FollowerMoves(o)
  BY SteadyIsNext, SteadyCasts, StepMonotone DEF VotesCast
<1>2. seqNr[o] \in Nat /\ seqNr'[o] \in Nat
  BY SteadyIsNext, NextTyped, ParameterAssumption DEF TypeInv, TypeOK
<1>3. CASE followerPhase[o] = "sentCommit"
  <2>1. PICK m \in epochStarts : m.epoch = epoch[o] /\ m.cert.seqNr <= seqNr[o]
    BY <1>3 DEF Handshake, FollowsEpochStart
  <2>2. m.cert.seqNr \in Nat
    BY ParameterAssumption DEF TypeInv, TypeOK, Certificate, Genesis, SeqNr
  <2>3. QED
    BY <1>1, <1>2, <1>3, <2>1, <2>2 DEF FollowerMoves
<1>4. CASE followerPhase[o] # "sentCommit"
  BY <1>1, <1>2, <1>4 DEF FollowerMoves, StartedAbove
<1>5. QED
  BY <1>3, <1>4

\* A certificate in an EpochStart that is not one of a commit.
LEMMA ReproposalPrepared ==
    ASSUME TypeInv, CertificatesVerify, NEW m \in epochStarts, ~m.cert.committed
    PROVE  /\ m.cert.epoch \in Epoch /\ m.cert.seqNr \in SeqNr
           /\ Prepared(m.cert.epoch, m.cert.seqNr, m.cert.outcome)
<1>1. Verifies(m.cert)
  BY DEF CertificatesVerify
<1>2. QED
  BY <1>1 DEF Verifies, Prepared, Genesis, Certificate

\* An oracle that is relied on is among those that prepared an outcome.
LEMMA PreparedHasSteadyVote ==
    ASSUME NEW H \in SUBSET Honest, Few(H), TypeInv,
           NEW e, NEW s, NEW v, Prepared(e, s, v)
    PROVE  \E n \in prepares :
               n.from \in H /\ n.epoch = e /\ n.seqNr = s /\ n.outcome = v
<1>1. PICK in \in Inputs : PrepareQuorum(e, s, in, v)
  BY DEF Prepared
<1>2. PreparedBy(e, s, in, v) \cap H # {}
  BY <1>1, SignersTyped, QuorumHonestPart, QuorumMeets DEF Few
<1>3. QED
  BY <1>2 DEF PreparedBy

LEMMA PreparesRestNext ==
    ASSUME NEW H \in SUBSET Honest, Few(H), TypeInv, Handshake(H),
           CertificatesVerify, StartedAbove(H), PreparesRestOnEarlier(H),
           SteadyNext(H)
    PROVE  PreparesRestOnEarlier(H)'
<1>0. [Next]_vars
  BY SteadyIsNext
<1> SUFFICES ASSUME NEW e \in Epoch, NEW s \in SeqNr, ~Blocked(H, e, s),
                    NEW n \in prepares', n.from \in H, n.epoch > e, n.seqNr = s
             PROVE  \E d \in Epoch : d <= e /\ Prepared(d, s, n.outcome)
  BY <1>0, BlockedStable, PreparedGrows DEF PreparesRestOnEarlier
<1>1. ASSUME NEW m \in prepares, m.from \in H, m.epoch > e, m.seqNr = s
      PROVE  \E d \in Epoch : d <= e /\ Prepared(d, s, m.outcome)
  BY <1>1 DEF PreparesRestOnEarlier
<1>2. ASSUME NEW m \in epochStarts, ~m.cert.committed,
             m.cert.seqNr = s, m.cert.outcome = n.outcome
      PROVE  \E d \in Epoch : d <= e /\ Prepared(d, s, n.outcome)
  <2>1. /\ m.cert.epoch \in Epoch
        /\ Prepared(m.cert.epoch, s, n.outcome)
    BY <1>2, ReproposalPrepared
  <2>2. PICK k \in prepares :
            /\ k.from \in H
            /\ k.epoch = m.cert.epoch /\ k.seqNr = s /\ k.outcome = n.outcome
    BY <2>1, PreparedHasSteadyVote
  <2>3. CASE m.cert.epoch <= e
    BY <2>1, <2>3
  <2>4. CASE m.cert.epoch > e
    BY <1>1, <2>2, <2>4
  <2>5. QED
    BY <2>1, <2>3, <2>4, ParameterAssumption DEF Epoch
<1>3. ASSUME NEW o \in H, followerPhase[o] = "sentObservation",
             n.epoch = epoch[o], s = seqNr[o]
      PROVE  FALSE
  <2>1. PICK m \in epochStarts : m.epoch = n.epoch /\ m.cert.seqNr < s
    BY <1>3 DEF StartedAbove
  <2>2. e < m.epoch
    BY <1>3, <2>1, ParameterAssumption DEF TypeInv, TypeOK, Epoch
  <2>3. Blocked(H, e, s)
    BY <2>1, <2>2 DEF Handshake, EpochStartsBlock
  <2>4. QED
    BY <2>3
<1>4. QED
  BY <1>0, <1>1, <1>2, <1>3, PreparesAdded

\* Why decisions do not fork, as one invariant.
Decisions(H) ==
    /\ PrepareVotes(H)
    /\ CertificatesVerify
    /\ StartedAbove(H)
    /\ PreparesRestOnEarlier(H)

LEMMA DecisionsInit ==
    ASSUME NEW H \in SUBSET Honest
    PROVE  Init => Decisions(H)
<1>1. Init => PreparesRestOnEarlier(H)
  BY DEF Init, PreparesRestOnEarlier
<1>2. Init => StartedAbove(H)
  BY DEF Init, StartedAbove
<1>3. QED
  BY <1>1, <1>2, PrepareVotesInit, CertificatesVerifyInit DEF Decisions

LEMMA DecisionsNext ==
    ASSUME NEW H \in SUBSET Honest, Few(H), TypeInv, Handshake(H), Decisions(H),
           SteadyNext(H)
    PROVE  Decisions(H)'
  BY SteadyIsNext, PrepareVotesNext, CertificatesVerifyNext, StartedAboveNext,
     PreparesRestNext DEF Decisions

LEMMA DecisionsOfFewer ==
    ASSUME NEW H \in SUBSET Honest, NEW G \in SUBSET H, Decisions(H)
    PROVE  Decisions(G)
<1>1. PrepareVotes(G)
  BY PrepareVotesOfFewer DEF Decisions
<1>2. StartedAbove(G)
  BY DEF Decisions, StartedAbove
<1>3. PreparesRestOnEarlier(G)
  BY BlockedOfFewer DEF Decisions, PreparesRestOnEarlier
<1>4. QED
  BY <1>1, <1>2, <1>3 DEF Decisions

LEMMA DecisionsImply ==
    ASSUME NEW H \in SUBSET Honest, Few(H), TypeInv, Handshake(H), Decisions(H)
    PROVE  DisagreementIsOlder
<1> SUFFICES ASSUME NEW c \in CommitCertificates, NEW d \in CommitCertificates,
                    c.seqNr = d.seqNr, c.epoch <= d.epoch
             PROVE  \/ c.outcome = d.outcome
                    \/ /\ c.epoch < d.epoch
                       /\ \E e \in Epoch :
                              e < c.epoch /\ Prepared(e, c.seqNr, d.outcome)
  BY DEF DisagreementIsOlder
<1> DEFINE s == c.seqNr
<1>1. /\ c.epoch \in Epoch /\ d.epoch \in Epoch /\ s \in SeqNr
      /\ c.outcome \in Value /\ d.outcome \in Value
      /\ CommitQuorum(c.epoch, s, c.outcome)
      /\ CommitQuorum(d.epoch, s, d.outcome)
  BY CommitCertificatesTyped
<1>2. Prepared(c.epoch, s, c.outcome) /\ Prepared(d.epoch, s, d.outcome)
  BY DEF CommitCertificates, CertifiedCommit, Decisions, CertificatesVerify
<1>. HIDE DEF s
<1>3. CASE c.epoch = d.epoch
  BY <1>2, <1>3, OnePrepared DEF Decisions
<1>4. CASE c.epoch < d.epoch
  <2>2. PICK n \in prepares :
            /\ n.from \in H
            /\ n.epoch = d.epoch /\ n.seqNr = s /\ n.outcome = d.outcome
    BY <1>2, PreparedHasSteadyVote
  <2>3. ~Blocked(H, c.epoch, s)
    BY <1>1, BlockedNotCommitted
  <2>4. PICK e \in Epoch : e <= c.epoch /\ Prepared(e, s, d.outcome)
    BY <1>1, <1>4, <2>2, <2>3 DEF Decisions, PreparesRestOnEarlier, Epoch
  <2>5. CASE e = c.epoch
    BY <1>2, <2>4, <2>5, OnePrepared DEF Decisions
  <2>6. CASE e < c.epoch
    BY <1>4, <2>4, <2>6 DEF s
  <2>7. QED
    BY <1>1, <2>4, <2>5, <2>6 DEF Epoch
<1>5. QED
  BY <1>1, <1>3, <1>4 DEF Epoch

\* The inductive invariant.  That an outcome was prepared rests on a vote of an
\* oracle relied on, so nothing is claimed when more than F are not.
DecisionsOfMost ==
    Tolerated =>
        \E H \in SUBSET Honest :
            /\ Cardinality(Honest \ H) <= failures + restarts
            /\ Handshake(H) /\ Decisions(H)

LEMMA DecisionsOfMostInit == Init => DecisionsOfMost
<1> SUFFICES ASSUME Init
             PROVE  DecisionsOfMost
  OBVIOUS
<1>1. Cardinality(Honest \ Honest) <= failures + restarts
  BY NoneLeftOut DEF Init
<1>2. Handshake(Honest) /\ Decisions(Honest)
  BY HandshakeInit, DecisionsInit
<1>3. QED
  BY <1>1, <1>2 DEF DecisionsOfMost

LEMMA DecisionsOfMostNext ==
    ASSUME TypeInv, DecisionsOfMost, [Next]_vars
    PROVE  DecisionsOfMost'
<1> SUFFICES ASSUME Tolerated'
             PROVE  \E H \in SUBSET Honest :
                        /\ Cardinality(Honest \ H) <= failures' + restarts'
                        /\ Handshake(H)' /\ Decisions(H)'
  BY DEF DecisionsOfMost
<1>1. Tolerated
  BY ToleratedBefore
<1>2. PICK H \in SUBSET Honest :
          /\ Cardinality(Honest \ H) <= failures + restarts
          /\ Handshake(H) /\ Decisions(H)
  BY <1>1 DEF DecisionsOfMost
<1>3. PICK G \in SUBSET H :
          SteadyNext(G) /\ Cardinality(Honest \ G) <= failures' + restarts'
  BY <1>2, SteadyRemain
<1>4. G \in SUBSET Honest
  BY <1>2, <1>3
<1>5. Few(G)
  <2>1. failures' \in Nat /\ restarts' \in Nat
    BY NextTyped, ParameterAssumption DEF TypeInv, TypeOK
  <2>3. Cardinality(Honest \ G) \in Nat
    BY HonestFinite, FS_Subset, FS_CardinalityType
  <2>2. QED
    BY <1>3, <2>1, <2>3, HonestFinite DEF Tolerated, Few
<1>6. Handshake(G) /\ Decisions(G)
  BY <1>2, <1>3, HandshakeOfFewer, DecisionsOfFewer
<1>7. Handshake(G)' /\ Decisions(G)'
  BY <1>3, <1>4, <1>5, <1>6, HandshakeNext, DecisionsNext
<1>8. QED
  BY <1>3, <1>4, <1>7

\* EpochStartProof.Verify and messageEpochStart: the highest certificate of a quorum
\* carries a decision over to later epochs, except that HighestCertifiedTimestamp
\* does not compare epochs, so that what an epoch before the decision prepared may
\* be decided again after it.
THEOREM DisagreementNeedsOlderPrepare ==
    Spec => [](Tolerated => DisagreementIsOlder)
<1>1. Init => TypeInv /\ DecisionsOfMost
  BY InitTyped, DecisionsOfMostInit
<1>2. TypeInv /\ DecisionsOfMost /\ [Next]_vars => (TypeInv /\ DecisionsOfMost)'
  BY NextTyped, DecisionsOfMostNext
<1>3. TypeInv /\ DecisionsOfMost => (Tolerated => DisagreementIsOlder)
  <2> SUFFICES ASSUME TypeInv, DecisionsOfMost, Tolerated
               PROVE  DisagreementIsOlder
    OBVIOUS
  <2>1. PICK H \in SUBSET Honest :
            /\ Cardinality(Honest \ H) <= failures + restarts
            /\ Handshake(H) /\ Decisions(H)
    BY DEF DecisionsOfMost
  <2>2. QED
    BY <2>1, ToleratedFew, DecisionsImply
<1>4. QED
  BY <1>1, <1>2, <1>3, PTL DEF Spec

\* For the same reason two consecutive epochs cannot decide differently: nothing was
\* prepared before the first one.
THEOREM AgreementOfTwoEpochs ==
    ASSUME MaxEpoch <= 2
    PROVE  Spec => [](Tolerated => Agreement)
<1>1. TypeInv /\ DisagreementIsOlder => Agreement
  <2> SUFFICES ASSUME TypeInv, DisagreementIsOlder,
                      NEW c \in CommitCertificates, NEW d \in CommitCertificates,
                      c.seqNr = d.seqNr
               PROVE  c.outcome = d.outcome
    BY DEF Agreement
  <2>1. c.epoch \in {1, 2} /\ d.epoch \in {1, 2}
    BY CommitCertificatesTyped, ParameterAssumption DEF Epoch
  <2>2. ASSUME NEW x \in CommitCertificates, NEW y \in CommitCertificates,
               x.seqNr = y.seqNr, x.epoch \in {1, 2}, y.epoch \in {1, 2},
               x.epoch <= y.epoch
        PROVE  x.outcome = y.outcome
    <3>1. CASE x.epoch = 1
      BY <2>2, <3>1 DEF DisagreementIsOlder, Epoch
    <3>2. CASE x.epoch = 2 /\ y.epoch = 2
      BY <2>2, <3>2 DEF DisagreementIsOlder, Epoch
    <3>3. QED
      BY <2>2, <3>1, <3>2
  <2>3. QED
    BY <2>1, <2>2
<1>2. Spec => []TypeInv
  <2>1. Init => TypeInv
    BY InitTyped
  <2>2. TypeInv /\ [Next]_vars => TypeInv'
    BY NextTyped
  <2>3. QED
    BY <2>1, <2>2, PTL DEF Spec
<1>3. QED
  BY <1>1, <1>2, DisagreementNeedsOlderPrepare, PTL
-----------------------------------------------------------------------------
(***************************************************************************)
(* What an oracle works from, whatever fails, restarts or is faulty.       *)
(***************************************************************************)
\* An honest leader has come to the epochs it has sent EpochStarts of.
EpochStartsReached ==
    \A m \in epochStarts :
        Leader[m.epoch] \in Honest => m.epoch <= epoch[Leader[m.epoch]]

\* As long as a leader collects requests, its own follower waits: no EpochStart of
\* its epoch is left for it, after a restart neither.
LeaderAwaitsItself ==
    \A o \in Honest :
        leaderPhase[o] = "newEpoch" /\ Leader[epoch[o]] = o =>
            /\ followerPhase[o] = "newEpoch"
            /\ \A m \in epochStarts : m.epoch = epoch[o] => m \in handled[o]

\* committedSeqNr and committedOutcome are those of one commit certificate.
CommittedIsDecided ==
    \A o \in Honest :
        \/ committedSeqNr[o] = 0 /\ committedOutcome[o] = NoOutcome
        \/ \E c \in CommitCertificates :
               c.seqNr = committedSeqNr[o] /\ c.outcome = committedOutcome[o]

\* The committedSeqNr a round was started from is not overtaken during the round.
RoundFollowsCommit ==
    \A o \in Honest : followerPhase[o] \in {"newRound", "sentObservation"} =>
        seqNr[o] = committedSeqNr[o] + 1

\* The sequence number before one that is voted for is decided.
Gapless ==
    \A n \in prepares :
        n.seqNr = 1 \/ \E c \in CommitCertificates : c.seqNr = n.seqNr - 1

\* What an oracle works from, as one invariant.
WorksFromDecided ==
    /\ CertificatesVerify
    /\ EpochStartsReached
    /\ LeaderAwaitsItself
    /\ CommittedIsDecided
    /\ RoundFollowsCommit
    /\ Gapless
    /\ PreviousOutcomeIsDecided

LEMMA EpochStartsReachedNext ==
    ASSUME TypeInv, EpochStartsReached, [Next]_vars
    PROVE  EpochStartsReached'
<1> SUFFICES ASSUME NEW m \in epochStarts', Leader[m.epoch] \in Honest
             PROVE  m.epoch <= epoch'[Leader[m.epoch]]
  BY DEF EpochStartsReached
<1> DEFINE l == Leader[m.epoch]
<1>1. /\ epoch[l] <= epoch'[l]
      /\ epoch[l] \in Nat /\ epoch'[l] \in Nat
  BY NextTyped, StepMonotone, ParameterAssumption DEF TypeInv, TypeOK
<1>2. m.epoch \in Nat
  <2>1. TypeInv'
    BY NextTyped
  <2>2. m \in [epoch : Epoch, cert : Certificate \cup {Genesis}]
    BY <2>1 DEF TypeInv, TypeOK
  <2>3. QED
    BY <2>2, ParameterAssumption DEF Epoch
<1>3. CASE m \in epochStarts
  BY <1>1, <1>2, <1>3 DEF EpochStartsReached
<1>4. ASSUME NEW o \in Honest, NEW c, NEW R, NEW B, SendEpochStart(o, c, R, B),
             m \notin epochStarts
      PROVE  m.epoch <= epoch'[l]
  BY <1>1, <1>2, <1>4 DEF SendEpochStart
<1>5. ASSUME NEW e, NEW c, NEW R, NEW B, FaultyEpochStart(e, c, R, B),
             m \notin epochStarts
      PROVE  FALSE
  BY <1>5 DEF FaultyEpochStart, Honest
<1>6. ASSUME NEW o \in Honest,
             \/ \E e \in Epoch : EnterEpoch(o, e)
             \/ Restart(o)
             \/ \E n \in epochStarts : ReceiveEpochStart(o, n)
             \/ TRoundTimeout(o) \/ SendObservation(o) \/ StartGrace(o)
             \/ \E v \in Value : TGraceTimeout(o, v) \/ SendPrepare(o, v)
             \/ SendCommit(o) \/ ReceiveCommits(o)
      PROVE  m \in epochStarts
  BY <1>6 DEF EnterEpoch, Restart, StartEpoch, ReceiveEpochStart, TRoundTimeout,
       SendObservation, StartGrace, TGraceTimeout, SendPrepare, SendCommit,
       ReceiveCommits, epochMsgs
<1>7. CASE UNCHANGED vars
  BY <1>3, <1>7 DEF vars, epochMsgs
<1>8. QED
  BY <1>3, <1>4, <1>5, <1>6, <1>7 DEF Next

LEMMA LeaderAwaitsNext ==
    ASSUME TypeInv, EpochStartsReached, LeaderAwaitsItself, [Next]_vars
    PROVE  LeaderAwaitsItself'
<1> DEFINE Awaits(p) ==
        leaderPhase'[p] = "newEpoch" /\ Leader[epoch'[p]] = p =>
            /\ followerPhase'[p] = "newEpoch"
            /\ \A m \in epochStarts' : m.epoch = epoch'[p] => m \in handled'[p]
<1> SUFFICES ASSUME NEW p \in Honest
             PROVE  Awaits(p)
  BY DEF LeaderAwaitsItself
<1> USE DEF LeaderAwaitsItself
<1>1. CASE UNCHANGED <<leaderPhase[p], epoch[p], followerPhase[p], handled[p],
                       epochStarts>>
  BY <1>1
<1>2. ASSUME NEW o \in Honest, NEW e \in Epoch, EnterEpoch(o, e)
      PROVE  Awaits(p)
  <2>1. /\ UNCHANGED epochStarts
        /\ p # o => UNCHANGED <<leaderPhase[p], epoch[p], followerPhase[p],
                                handled[p], epochStarts>>
        /\ e > epoch[o] /\ epoch'[o] = e /\ followerPhase'[o] = "newEpoch"
        /\ e \in Nat /\ epoch[o] \in Nat
    BY <1>2, ParameterAssumption DEF EnterEpoch, StartEpoch, TypeInv, TypeOK, Epoch
  <2>2. CASE p = o
    BY <2>1, <2>2 DEF EpochStartsReached
  <2>3. QED
    BY <1>1, <2>1, <2>2
<1>3. ASSUME NEW o \in Honest, Restart(o)
      PROVE  Awaits(p)
  <2>1. /\ UNCHANGED <<epoch, epochStarts>>
        /\ p # o => UNCHANGED <<leaderPhase[p], followerPhase[p], handled[p]>>
        /\ followerPhase'[o] = "newEpoch"
        /\ Leader[epoch[o]] = o =>
              handled'[o] = {m \in epochStarts : m.epoch = epoch[o]}
    BY <1>3 DEF Restart, StartEpoch, TypeInv, TypeOK
  <2>2. QED
    BY <1>1, <2>1
<1>4. ASSUME NEW o \in Honest, NEW c, NEW R, NEW B, SendEpochStart(o, c, R, B)
      PROVE  Awaits(p)
  <2> DEFINE m0 == [epoch |-> epoch[o], cert |-> c]
  <2>1. /\ UNCHANGED <<epoch, followerPhase>>
        /\ epochStarts' = epochStarts \cup {m0}
        /\ handled'[p] = handled[p] \ {m0}
        /\ Leader[epoch[o]] = o
        /\ m0.epoch = epoch[o]
    BY <1>4 DEF SendEpochStart
  <2>2. /\ leaderPhase'[o] # "newEpoch"
        /\ p # o => leaderPhase'[p] = leaderPhase[p]
    BY <1>4 DEF SendEpochStart, StartLeaderRound, TypeInv, TypeOK
  <2>. HIDE DEF m0
  <2>3. QED
    BY <2>1, <2>2
<1>5. ASSUME NEW o \in Honest, NEW m \in epochStarts, ReceiveEpochStart(o, m)
      PROVE  Awaits(p)
  <2>1. /\ UNCHANGED <<epoch, leaderPhase, epochStarts>>
        /\ p # o => UNCHANGED <<followerPhase[p], handled[p]>>
        /\ m.epoch = epoch[o] /\ m \notin handled[o]
    BY <1>5 DEF ReceiveEpochStart, StartFollowerRound, leaderVars, epochMsgs,
                TypeInv, TypeOK
  <2>2. QED
    BY <1>1, <2>1
<1>6. ASSUME NEW o \in Honest, TRoundTimeout(o)
      PROVE  Awaits(p)
  <2>1. /\ UNCHANGED <<epoch, followerPhase, handled, epochStarts>>
        /\ leaderPhase'[p] = "newEpoch" => leaderPhase[p] = "newEpoch"
    BY <1>6 DEF TRoundTimeout, StartLeaderRound, followerVars, epochMsgs, TypeInv,
                TypeOK
  <2>2. QED
    BY <2>1
<1>7. ASSUME NEW o \in Honest,
             StartGrace(o) \/ \E v \in Value : TGraceTimeout(o, v)
      PROVE  Awaits(p)
  <2>1. /\ UNCHANGED <<epoch, followerPhase, handled, epochStarts>>
        /\ leaderPhase'[p] = "newEpoch" => leaderPhase[p] = "newEpoch"
    BY <1>7 DEF StartGrace, TGraceTimeout, sharedVars, followerVars, epochMsgs,
                TypeInv, TypeOK
  <2>2. QED
    BY <2>1
<1>8. ASSUME NEW o \in Honest,
             \/ SendObservation(o) \/ SendCommit(o)
             \/ \E v \in Value : SendPrepare(o, v)
      PROVE  Awaits(p)
  <2>1. /\ UNCHANGED <<epoch, leaderPhase, handled, epochStarts>>
        /\ p # o => followerPhase'[p] = followerPhase[p]
        /\ followerPhase[o] # "newEpoch"
    BY <1>8 DEF SendObservation, SendCommit, SendPrepare, sharedVars, leaderVars,
                epochMsgs, TypeInv, TypeOK
  <2>2. QED
    BY <1>1, <2>1
<1>9. ASSUME NEW o \in Honest, ReceiveCommits(o)
      PROVE  Awaits(p)
  <2>1. /\ UNCHANGED <<epoch, handled, epochStarts>>
        /\ p # o => UNCHANGED <<followerPhase[p], leaderPhase[p]>>
        /\ followerPhase[o] # "newEpoch"
        /\ leaderPhase'[o] = "newEpoch" => leaderPhase[o] = "newEpoch"
    BY <1>9 DEF ReceiveCommits, StartFollowerRound, StartLeaderRound, leaderVars,
                epochMsgs, TypeInv, TypeOK
  <2>2. QED
    BY <1>1, <2>1
<1>10. ASSUME NEW e, NEW c, NEW R, NEW B, FaultyEpochStart(e, c, R, B)
       PROVE  Awaits(p)
  BY <1>10 DEF FaultyEpochStart, sharedVars, followerVars, leaderVars, Honest
<1>11. CASE UNCHANGED vars
  BY <1>1, <1>11 DEF vars, sharedVars, followerVars, leaderVars, epochMsgs
<1>12. QED
  BY <1>2, <1>3, <1>4, <1>5, <1>6, <1>7, <1>8, <1>9, <1>10, <1>11 DEF Next
\* o takes over the outcome of commit certificate c, and o forgets all it learned.
Learns(o, c) ==
    /\ c.seqNr > committedSeqNr[o]
    /\ committedSeqNr' = [committedSeqNr EXCEPT ![o] = c.seqNr]
    /\ committedOutcome' = [committedOutcome EXCEPT ![o] = c.outcome]
Forgets(o) ==
    /\ committedSeqNr' = [committedSeqNr EXCEPT ![o] = 0]
    /\ committedOutcome' = [committedOutcome EXCEPT ![o] = NoOutcome]

LEMMA VerifiedCommitDecided ==
    ASSUME TypeInv, NEW c, Verifies(c), c.committed, c.seqNr > 0
    PROVE  c \in CommitCertificates
<1>1. c \in Certificate /\ CommitQuorum(c.epoch, c.seqNr, c.outcome)
  BY DEF Verifies, Genesis
<1>2. c = CertifiedCommit(c.epoch, c.seqNr, c.outcome)
  BY <1>1 DEF Certificate, CertifiedCommit
<1>3. QED
  BY <1>1, <1>2, CommittedHasVote

LEMMA CommitLearns ==
    ASSUME TypeInv, NEW o \in Honest, NEW c, Verifies(c), c.committed, Commit(o, c)
    PROVE  \/ UNCHANGED <<committedSeqNr, committedOutcome>>
           \/ c \in CommitCertificates /\ Learns(o, c)
<1>1. committedSeqNr[o] \in Nat /\ c.seqNr \in Nat
  BY ParameterAssumption
     DEF TypeInv, TypeOK, Verifies, Certificate, Genesis, SeqNr
<1>2. CASE c.seqNr > committedSeqNr[o]
  BY <1>1, <1>2, VerifiedCommitDecided DEF Commit, Learns
<1>3. CASE c.seqNr <= committedSeqNr[o]
  BY <1>1, <1>3 DEF Commit
<1>4. QED
  BY <1>1, <1>2, <1>3

\* commit and the restart of a process are all that change what is committed.
LEMMA CommittedChanges ==
    ASSUME TypeInv, CertificatesVerify, [Next]_vars
    PROVE  \/ UNCHANGED <<committedSeqNr, committedOutcome>>
           \/ /\ UNCHANGED commits
              /\ \E o \in Honest :
                     Forgets(o) \/ \E c \in CommitCertificates : Learns(o, c)
<1> DEFINE Same == UNCHANGED <<committedSeqNr, committedOutcome>>
           Changes == /\ UNCHANGED commits
                      /\ \E o \in Honest :
                             \/ Forgets(o)
                             \/ \E c \in CommitCertificates : Learns(o, c)
<1>1. ASSUME NEW o \in Honest, Restart(o)
      PROVE  Changes
  BY <1>1 DEF Restart, StartEpoch, votes, Forgets
<1>2. ASSUME NEW o \in Honest, NEW c, NEW R, NEW B, SendEpochStart(o, c, R, B)
      PROVE  Same \/ Changes
  <2>1. UNCHANGED commits /\ Verifies(c)
    BY <1>2 DEF SendEpochStart, ProofVerifies, votes
  <2>2. Same \/ (c.committed /\ Commit(o, c))
    BY <1>2 DEF SendEpochStart
  <2>3. QED
    BY <2>1, <2>2, CommitLearns
<1>3. ASSUME NEW o \in Honest, NEW m \in epochStarts, ReceiveEpochStart(o, m)
      PROVE  Same \/ Changes
  <2>1. UNCHANGED commits /\ Verifies(m.cert)
    BY <1>3 DEF ReceiveEpochStart, CertificatesVerify
  <2>2. Same \/ (m.cert.committed /\ Commit(o, m.cert))
    BY <1>3 DEF ReceiveEpochStart
  <2>3. QED
    BY <2>1, <2>2, CommitLearns
<1>4. ASSUME NEW o \in Honest, ReceiveCommits(o)
      PROVE  Same \/ Changes
  <2> DEFINE c == CertifiedCommit(epoch[o], seqNr[o], outcome[o].outcome)
  <2>1. /\ UNCHANGED commits /\ Commit(o, c)
        /\ CommitQuorum(epoch[o], seqNr[o], outcome[o].outcome)
        /\ followerPhase[o] = "sentCommit"
    BY <1>4 DEF ReceiveCommits, votes
  <2>2. /\ epoch[o] \in Epoch /\ seqNr[o] \in SeqNr
        /\ outcome[o].outcome \in Value
    BY <2>1 DEF TypeInv, PhasesOK
  <2>3. Verifies(c) /\ c.committed
    BY <2>1, <2>2 DEF Verifies, CertifiedCommit, Certificate
  <2>. HIDE DEF c
  <2>4. QED
    BY <2>1, <2>3, CommitLearns
<1>5. ASSUME NEW o \in Honest,
             \/ \E e \in Epoch : EnterEpoch(o, e)
             \/ TRoundTimeout(o) \/ SendObservation(o) \/ StartGrace(o)
             \/ \E v \in Value : TGraceTimeout(o, v) \/ SendPrepare(o, v)
             \/ SendCommit(o)
      PROVE  Same
  BY <1>5 DEF EnterEpoch, TRoundTimeout, SendObservation, StartGrace,
       TGraceTimeout, SendPrepare, SendCommit, sharedVars
<1>6. ASSUME NEW e, NEW c, NEW R, NEW B, FaultyEpochStart(e, c, R, B)
      PROVE  Same
  BY <1>6 DEF FaultyEpochStart, sharedVars
<1>7. CASE UNCHANGED vars
  BY <1>7 DEF vars, sharedVars
<1>8. QED
  BY <1>1, <1>2, <1>3, <1>4, <1>5, <1>6, <1>7 DEF Next

LEMMA CommittedIsDecidedNext ==
    ASSUME TypeInv, CertificatesVerify, CommittedIsDecided, [Next]_vars
    PROVE  CommittedIsDecided'
<1>1. CommitCertificates \subseteq CommitCertificates'
  BY CommitCertificatesGrow
<1> SUFFICES ASSUME NEW p \in Honest
             PROVE  \/ committedSeqNr'[p] = 0 /\ committedOutcome'[p] = NoOutcome
                    \/ \E c \in CommitCertificates' :
                           /\ c.seqNr = committedSeqNr'[p]
                           /\ c.outcome = committedOutcome'[p]
  BY DEF CommittedIsDecided
<1>2. CASE UNCHANGED <<committedSeqNr[p], committedOutcome[p]>>
  BY <1>1, <1>2 DEF CommittedIsDecided
<1>3. ASSUME NEW o \in Honest, Forgets(o)
      PROVE  \/ UNCHANGED <<committedSeqNr[p], committedOutcome[p]>>
             \/ committedSeqNr'[p] = 0 /\ committedOutcome'[p] = NoOutcome
  BY <1>3 DEF Forgets, TypeInv, TypeOK
<1>4. ASSUME NEW o \in Honest, NEW c \in CommitCertificates, Learns(o, c)
      PROVE  \/ UNCHANGED <<committedSeqNr[p], committedOutcome[p]>>
             \/ /\ c.seqNr = committedSeqNr'[p]
                /\ c.outcome = committedOutcome'[p]
  BY <1>4 DEF Learns, TypeInv, TypeOK
<1>5. QED
  BY <1>1, <1>2, <1>3, <1>4, CommittedChanges

LEMMA RoundFollowsCommitNext ==
    ASSUME TypeInv, LeaderAwaitsItself, RoundFollowsCommit, [Next]_vars
    PROVE  RoundFollowsCommit'
<1> DEFINE Follows(p) ==
        followerPhase'[p] \in {"newRound", "sentObservation"} =>
            seqNr'[p] = committedSeqNr'[p] + 1
<1> SUFFICES ASSUME NEW p \in Honest
             PROVE  Follows(p)
  BY DEF RoundFollowsCommit
<1> USE DEF RoundFollowsCommit
<1>1. CASE UNCHANGED <<seqNr[p], followerPhase[p], committedSeqNr[p]>>
  BY <1>1
<1>2. ASSUME NEW o \in Honest,
             Restart(o) \/ \E e \in Epoch : EnterEpoch(o, e)
      PROVE  Follows(p)
  <2>1. /\ followerPhase'[o] = "newEpoch"
        /\ p # o => UNCHANGED <<seqNr[p], followerPhase[p], committedSeqNr[p]>>
    BY <1>2 DEF EnterEpoch, Restart, StartEpoch, TypeInv, TypeOK
  <2>2. QED
    BY <1>1, <2>1
<1>3. ASSUME NEW o \in Honest, NEW c, NEW R, NEW B, SendEpochStart(o, c, R, B)
      PROVE  Follows(p)
  <2>1. followerPhase[o] = "newEpoch"
    BY <1>3 DEF SendEpochStart, LeaderAwaitsItself
  <2>2. /\ UNCHANGED <<seqNr, followerPhase>>
        /\ p # o => committedSeqNr'[p] = committedSeqNr[p]
    BY <1>3 DEF SendEpochStart, Commit, TypeInv, TypeOK
  <2>3. QED
    BY <1>1, <2>1, <2>2
<1>4. ASSUME NEW o \in Honest, NEW m \in epochStarts, ReceiveEpochStart(o, m)
      PROVE  Follows(p)
  <2>1. p # o => UNCHANGED <<seqNr[p], followerPhase[p], committedSeqNr[p]>>
    BY <1>4 DEF ReceiveEpochStart, Commit, StartFollowerRound, TypeInv, TypeOK
  <2>2. \/ followerPhase'[o] = "sentPrepare"
        \/ seqNr'[o] = committedSeqNr'[o] + 1
    BY <1>4 DEF ReceiveEpochStart, StartFollowerRound, TypeInv, TypeOK
  <2>3. QED
    BY <1>1, <2>1, <2>2
<1>5. ASSUME NEW o \in Honest,
             \/ SendObservation(o) \/ SendCommit(o)
             \/ \E v \in Value : SendPrepare(o, v)
      PROVE  Follows(p)
  <2>1. /\ UNCHANGED <<seqNr, committedSeqNr>>
        /\ followerPhase'[p] \in {"newRound", "sentObservation"} =>
              followerPhase[p] \in {"newRound", "sentObservation"}
    BY <1>5 DEF SendObservation, SendCommit, SendPrepare, sharedVars, TypeInv,
                TypeOK
  <2>2. QED
    BY <2>1
<1>6. ASSUME NEW o \in Honest, ReceiveCommits(o)
      PROVE  Follows(p)
  <2>1. p # o => UNCHANGED <<seqNr[p], followerPhase[p], committedSeqNr[p]>>
    BY <1>6 DEF ReceiveCommits, Commit, StartFollowerRound, TypeInv, TypeOK
  <2>2. \/ followerPhase'[o] = "sentCommit"
        \/ seqNr'[o] = committedSeqNr'[o] + 1
    BY <1>6 DEF ReceiveCommits, StartFollowerRound, TypeInv, TypeOK
  <2>3. QED
    BY <1>1, <2>1, <2>2
<1>7. ASSUME NEW o \in Honest,
             \/ TRoundTimeout(o) \/ StartGrace(o)
             \/ \E v \in Value : TGraceTimeout(o, v)
      PROVE  Follows(p)
  BY <1>1, <1>7 DEF TRoundTimeout, StartGrace, TGraceTimeout, sharedVars,
                    followerVars
<1>8. ASSUME NEW e, NEW c, NEW R, NEW B, FaultyEpochStart(e, c, R, B)
      PROVE  Follows(p)
  BY <1>1, <1>8 DEF FaultyEpochStart, sharedVars, followerVars
<1>9. CASE UNCHANGED vars
  BY <1>1, <1>9 DEF vars, sharedVars, followerVars
<1>10. QED
  BY <1>2, <1>3, <1>4, <1>5, <1>6, <1>7, <1>8, <1>9 DEF Next

LEMMA GaplessNext ==
    ASSUME TypeInv, CertificatesVerify, CommittedIsDecided, RoundFollowsCommit,
           Gapless, [Next]_vars
    PROVE  Gapless'
<1> SUFFICES ASSUME NEW n \in prepares'
             PROVE  n.seqNr = 1 \/ \E c \in CommitCertificates : c.seqNr = n.seqNr - 1
  BY CommitCertificatesGrow DEF Gapless
<1>1. CASE n \in prepares
  BY <1>1 DEF Gapless
<1>2. ASSUME NEW m \in epochStarts, ~m.cert.committed, m.cert.seqNr = n.seqNr
      PROVE  \E k \in prepares : k.seqNr = n.seqNr
  <2>1. PICK in \in Inputs :
            PrepareQuorum(m.cert.epoch, n.seqNr, in, m.cert.outcome)
    BY <1>2, ReproposalPrepared DEF Prepared
  <2>2. QED
    BY <2>1, PreparedHasVote
<1>3. ASSUME NEW o \in Honest, followerPhase[o] = "sentObservation",
             n.seqNr = seqNr[o]
      PROVE  n.seqNr = 1 \/ \E c \in CommitCertificates : c.seqNr = n.seqNr - 1
  <2>1. n.seqNr = committedSeqNr[o] + 1
    BY <1>3 DEF RoundFollowsCommit
  <2>2. committedSeqNr[o] \in Nat
    BY ParameterAssumption DEF TypeInv, TypeOK
  <2>3. QED
    BY <2>1, <2>2 DEF CommittedIsDecided
<1>4. QED
  BY <1>1, <1>2, <1>3, PreparesAdded DEF Gapless

LEMMA PreviousOutcomeNext ==
    ASSUME TypeInv, CommittedIsDecided, RoundFollowsCommit,
           PreviousOutcomeIsDecided, [Next]_vars
    PROVE  PreviousOutcomeIsDecided'
<1> SUFFICES ASSUME NEW n \in prepares'
             PROVE  \/ n.inputs = Reproposal
                    \/ n.inputs = NoOutcome /\ n.seqNr = 1
                    \/ \E c \in CommitCertificates :
                           c.seqNr = n.seqNr - 1 /\ c.outcome = n.inputs
  BY CommitCertificatesGrow DEF PreviousOutcomeIsDecided
<1>1. CASE n \in prepares
  BY <1>1 DEF PreviousOutcomeIsDecided
<1>2. ASSUME NEW o \in Honest, followerPhase[o] = "sentObservation",
             n.seqNr = seqNr[o], n.inputs = committedOutcome[o]
      PROVE  \/ n.inputs = NoOutcome /\ n.seqNr = 1
             \/ \E c \in CommitCertificates :
                    c.seqNr = n.seqNr - 1 /\ c.outcome = n.inputs
  <2>1. n.seqNr = committedSeqNr[o] + 1
    BY <1>2 DEF RoundFollowsCommit
  <2>2. committedSeqNr[o] \in Nat
    BY ParameterAssumption DEF TypeInv, TypeOK
  <2>3. QED
    BY <1>2, <2>1, <2>2 DEF CommittedIsDecided
<1>3. QED
  BY <1>1, <1>2, PreparesAdded

LEMMA WorksFromDecidedInit == Init => WorksFromDecided
<1> SUFFICES ASSUME Init
             PROVE  WorksFromDecided
  OBVIOUS
<1>1. EpochStartsReached /\ LeaderAwaitsItself
  BY DEF Init, EpochStartsReached, LeaderAwaitsItself
<1>2. CommittedIsDecided /\ RoundFollowsCommit
  BY DEF Init, CommittedIsDecided, RoundFollowsCommit
<1>3. Gapless /\ PreviousOutcomeIsDecided
  BY DEF Init, Gapless, PreviousOutcomeIsDecided
<1>4. QED
  BY <1>1, <1>2, <1>3, CertificatesVerifyInit DEF WorksFromDecided

LEMMA WorksFromDecidedNext ==
    ASSUME TypeInv, WorksFromDecided, [Next]_vars
    PROVE  WorksFromDecided'
  BY CertificatesVerifyNext, EpochStartsReachedNext, LeaderAwaitsNext,
     CommittedIsDecidedNext, RoundFollowsCommitNext, GaplessNext,
     PreviousOutcomeNext DEF WorksFromDecided

LEMMA WorksFromDecidedHolds == Spec => [](TypeInv /\ WorksFromDecided)
<1>1. Init => TypeInv /\ WorksFromDecided
  BY InitTyped, WorksFromDecidedInit
<1>2. TypeInv /\ WorksFromDecided /\ [Next]_vars => (TypeInv /\ WorksFromDecided)'
  BY NextTyped, WorksFromDecidedNext
<1>3. QED
  BY <1>1, <1>2, PTL DEF Spec

\* startSubsequentFollowerRound and tryProcessProposalPool: the previous outcome that
\* a new outcome is computed from is one that a commit certificate exists for, with
\* the sequence number before.
THEOREM PreviousOutcomesDecided == Spec => []PreviousOutcomeIsDecided
<1>1. WorksFromDecided => PreviousOutcomeIsDecided
  BY DEF WorksFromDecided
<1>2. QED
  BY <1>1, WorksFromDecidedHolds, PTL
-----------------------------------------------------------------------------
(***************************************************************************)
(* The refinement of OutcomeLog.                                           *)
(***************************************************************************)
\* The log that a set of commit certificates amounts to.
LogOf(certificates) ==
    [s \in SeqNr |->
        IF \E c \in certificates : c.seqNr = s
        THEN (CHOOSE c \in certificates : c.seqNr = s).outcome
        ELSE NoOutcome]

DecidedLog == LogOf(CommitCertificates)

\* When no two certificates disagree it does not matter which of them is chosen.
LEMMA LogOfAgreed ==
    ASSUME NEW C, \A c, d \in C : c.seqNr = d.seqNr => c.outcome = d.outcome,
           NEW s \in SeqNr
    PROVE  /\ \A c \in C : c.seqNr = s => LogOf(C)[s] = c.outcome
           /\ (\A c \in C : c.seqNr # s) => LogOf(C)[s] = NoOutcome
<1>1. CASE \E c \in C : c.seqNr = s
  <2> DEFINE x == CHOOSE c \in C : c.seqNr = s
  <2>1. x \in C /\ x.seqNr = s
    BY <1>1
  <2>2. LogOf(C)[s] = x.outcome
    BY <1>1 DEF LogOf
  <2>. HIDE DEF x
  <2>3. QED
    BY <1>1, <2>1, <2>2
<1>2. CASE \A c \in C : c.seqNr # s
  BY <1>2 DEF LogOf
<1>3. QED
  BY <1>1, <1>2

\* The actions of OutcomeLog under the refinement mapping.
LEMMA MappedDecide ==
    ASSUME NEW s \in SeqNr, NEW v \in Value,
           DecidedLog[s] = NoOutcome,
           s > 1 => DecidedLog[s - 1] # NoOutcome,
           DecidedLog' = [DecidedLog EXCEPT ![s] = v],
           UNCHANGED <<committedSeqNr, committedOutcome>>
    PROVE  Outcomes!Next
<1>1. Outcomes!Decide(s, v)
  BY DEF Outcomes!Decide, DecidedLog, LogOf
<1>2. QED
  BY <1>1 DEF Outcomes!Next, Outcomes!SeqNr, SeqNr

LEMMA MappedLearn ==
    ASSUME NEW o \in Honest, NEW c \in CommitCertificates, Learns(o, c),
           c.seqNr \in SeqNr, DecidedLog[c.seqNr] = c.outcome,
           c.outcome # NoOutcome, DecidedLog' = DecidedLog
    PROVE  Outcomes!Next
<1>1. Outcomes!Learn(o, c.seqNr)
  BY DEF Outcomes!Learn, DecidedLog, LogOf, Learns
<1>2. QED
  BY <1>1 DEF Outcomes!Next, Outcomes!SeqNr, SeqNr

LEMMA MappedForget ==
    ASSUME NEW o \in Honest, Forgets(o), DecidedLog' = DecidedLog
    PROVE  Outcomes!Next
<1>1. Outcomes!Forget(o)
  BY DEF Outcomes!Forget, DecidedLog, LogOf, Forgets
<1>2. QED
  BY <1>1 DEF Outcomes!Next

\* Votes to commit are sent one at a time, each for a prepared outcome.
LEMMA CommitsAdded ==
    ASSUME TypeInv, [Next]_vars
    PROVE  \/ commits' = commits
           \/ \E n : commits' = commits \cup {n}
<1>1. ASSUME NEW o \in Honest, SendCommit(o)
      PROVE  commits' = commits \/ \E n : commits' = commits \cup {n}
  BY <1>1 DEF SendCommit
<1>2. ASSUME NEW o \in Honest,
             \/ \E e \in Epoch : EnterEpoch(o, e)
             \/ Restart(o)
             \/ \E m \in epochStarts : ReceiveEpochStart(o, m)
             \/ TRoundTimeout(o) \/ SendObservation(o) \/ StartGrace(o)
             \/ \E v \in Value : TGraceTimeout(o, v) \/ SendPrepare(o, v)
             \/ ReceiveCommits(o)
      PROVE  commits' = commits
  BY <1>2 DEF EnterEpoch, Restart, StartEpoch, ReceiveEpochStart, TRoundTimeout,
       SendObservation, StartGrace, TGraceTimeout, SendPrepare, ReceiveCommits,
       votes
<1>3. ASSUME NEW o \in Honest, NEW c, NEW R, NEW B, SendEpochStart(o, c, R, B)
      PROVE  commits' = commits
  BY <1>3 DEF SendEpochStart, votes
<1>4. ASSUME NEW e, NEW c, NEW R, NEW B, FaultyEpochStart(e, c, R, B)
      PROVE  commits' = commits
  BY <1>4 DEF FaultyEpochStart, votes
<1>5. CASE UNCHANGED vars
  BY <1>5 DEF vars, votes
<1>6. QED
  BY <1>1, <1>2, <1>3, <1>4, <1>5 DEF Next

\* Such a vote completes the quorum of one certificate at most.
LEMMA CertificatesAddedOne ==
    ASSUME TypeInv, [Next]_vars, NEW n, commits' = commits \cup {n}
    PROVE  CommitCertificates' \subseteq
               CommitCertificates \cup {CertifiedCommit(n.epoch, n.seqNr, n.outcome)}
<1> SUFFICES ASSUME NEW k \in commits',
                    CommitQuorum(k.epoch, k.seqNr, k.outcome)',
                    \/ k.epoch # n.epoch \/ k.seqNr # n.seqNr
                    \/ k.outcome # n.outcome
             PROVE  CertifiedCommit(k.epoch, k.seqNr, k.outcome)
                        \in CommitCertificates
  BY DEF CommitCertificates
<1>1. k \in commits
  OBVIOUS
<1>2. {q \in commits' : q.epoch = k.epoch /\ q.seqNr = k.seqNr
                            /\ q.outcome = k.outcome}
        = {q \in commits : q.epoch = k.epoch /\ q.seqNr = k.seqNr
                               /\ q.outcome = k.outcome}
  OBVIOUS
<1>3. CommitQuorum(k.epoch, k.seqNr, k.outcome)
  BY <1>2 DEF CommitQuorum, CommitSigners
<1>4. QED
  BY <1>1, <1>3 DEF CommitCertificates

LEMMA LogStep ==
    ASSUME TypeInv, WorksFromDecided, Agreement, Agreement', [Next]_vars
    PROVE  \/ Outcomes!Next
           \/ UNCHANGED <<DecidedLog, committedSeqNr, committedOutcome>>
<1>1. ASSUME UNCHANGED commits
      PROVE  DecidedLog' = DecidedLog
  <2>1. CommitCertificates' = CommitCertificates
    BY <1>1 DEF CommitCertificates, CommitQuorum, CommitSigners
  <2>2. QED
    BY <2>1 DEF DecidedLog, LogOf
<1>2. CASE UNCHANGED commits
  <2>1. ASSUME NEW o \in Honest, NEW c \in CommitCertificates, Learns(o, c)
        PROVE  Outcomes!Next
    <3>1. c.seqNr \in SeqNr /\ c.outcome \in Value
      BY CommitCertificatesTyped
    <3>2. c.outcome # NoOutcome
      BY <3>1, ParameterAssumption
    <3>3. DecidedLog[c.seqNr] = c.outcome
      BY <3>1, LogOfAgreed DEF DecidedLog, Agreement
    <3>4. QED
      BY <1>1, <1>2, <2>1, <3>1, <3>2, <3>3, MappedLearn
  <2>2. QED
    BY <1>1, <1>2, <2>1, MappedForget, CommittedChanges DEF WorksFromDecided
<1>3. ASSUME NEW n, commits' = commits \cup {n}, n \notin commits
      PROVE  \/ Outcomes!Next
             \/ UNCHANGED <<DecidedLog, committedSeqNr, committedOutcome>>
  <2> DEFINE d == CertifiedCommit(n.epoch, n.seqNr, n.outcome)
  <2>1. UNCHANGED <<committedSeqNr, committedOutcome>>
    BY <1>3, CommittedChanges DEF WorksFromDecided
  <2>2. n.seqNr \in SeqNr /\ n.outcome \in Value
    <3>1. TypeInv'
      BY NextTyped
    <3>2. n \in commits'
      BY <1>3
    <3>3. QED
      BY <3>1, <3>2 DEF TypeInv, TypeOK
  <2>3. /\ CommitCertificates \subseteq CommitCertificates'
        /\ CommitCertificates' \subseteq CommitCertificates \cup {d}
        /\ d.seqNr = n.seqNr /\ d.outcome = n.outcome
    BY <1>3, CommitCertificatesGrow, CertificatesAddedOne DEF CertifiedCommit
  <2>. HIDE DEF d
  <2>4. ASSUME NEW s \in SeqNr
        PROVE  /\ \A c \in CommitCertificates : c.seqNr = s =>
                      DecidedLog[s] = c.outcome /\ DecidedLog'[s] = c.outcome
               /\ (\A c \in CommitCertificates : c.seqNr # s) =>
                      DecidedLog[s] = NoOutcome
               /\ (\A c \in CommitCertificates' : c.seqNr # s) =>
                      DecidedLog'[s] = NoOutcome
               /\ d \in CommitCertificates' /\ d.seqNr = s =>
                      DecidedLog'[s] = d.outcome
    <3>1. /\ \A c \in CommitCertificates : c.seqNr = s =>
                 LogOf(CommitCertificates)[s] = c.outcome
          /\ (\A c \in CommitCertificates : c.seqNr # s) =>
                 LogOf(CommitCertificates)[s] = NoOutcome
      BY LogOfAgreed DEF Agreement
    <3>2. /\ \A c \in CommitCertificates' : c.seqNr = s =>
                 LogOf(CommitCertificates')[s] = c.outcome
          /\ (\A c \in CommitCertificates' : c.seqNr # s) =>
                 LogOf(CommitCertificates')[s] = NoOutcome
      BY LogOfAgreed DEF Agreement
    <3>3. DecidedLog' = LogOf(CommitCertificates')
      BY DEF DecidedLog, LogOf
    <3>4. QED
      BY <2>3, <3>1, <3>2, <3>3 DEF DecidedLog
  <2>5. /\ DecidedLog = [s \in SeqNr |-> DecidedLog[s]]
        /\ DecidedLog' = [s \in SeqNr |-> DecidedLog'[s]]
    BY DEF DecidedLog, LogOf
  <2>6. CASE \/ d \notin CommitCertificates'
             \/ \E c \in CommitCertificates : c.seqNr = n.seqNr
    <3>1. \A s \in SeqNr : DecidedLog'[s] = DecidedLog[s]
      BY <2>3, <2>4, <2>6
    <3>2. DecidedLog' = DecidedLog
      BY <2>5, <3>1
    <3>3. QED
      BY <2>1, <3>2
  <2>7. CASE /\ d \in CommitCertificates'
             /\ \A c \in CommitCertificates : c.seqNr # n.seqNr
    <3>1. DecidedLog[n.seqNr] = NoOutcome
      BY <2>2, <2>4, <2>7
    <3>2. n.seqNr > 1 => DecidedLog[n.seqNr - 1] # NoOutcome
      <4> SUFFICES ASSUME n.seqNr > 1
                   PROVE  DecidedLog[n.seqNr - 1] # NoOutcome
        OBVIOUS
      <4>1. Prepared(n.epoch, n.seqNr, n.outcome)
        BY <1>3, CertificatesAdded
      <4>2. PICK k \in prepares : k.seqNr = n.seqNr
        BY <4>1, PreparedHasVote DEF Prepared
      <4>3. PICK c \in CommitCertificates : c.seqNr = n.seqNr - 1
        BY <2>2, <4>2 DEF WorksFromDecided, Gapless, SeqNr
      <4>4. c.seqNr \in SeqNr /\ c.outcome \in Value
        BY CommitCertificatesTyped
      <4>5. DecidedLog[n.seqNr - 1] = c.outcome
        BY <2>4, <4>3, <4>4
      <4>6. QED
        BY <4>4, <4>5, ParameterAssumption
    <3>3. \A s \in SeqNr :
              DecidedLog'[s] = IF s = n.seqNr THEN n.outcome ELSE DecidedLog[s]
      BY <2>3, <2>4, <2>7
    <3>4. DecidedLog' = [DecidedLog EXCEPT ![n.seqNr] = n.outcome]
      BY <2>2, <2>5, <3>3
    <3>5. QED
      BY <2>1, <2>2, <3>1, <3>2, <3>4, MappedDecide
  <2>8. QED
    BY <2>6, <2>7
<1>4. QED
  <2>1. ASSUME NEW n, commits' = commits \cup {n}, n \in commits
        PROVE  UNCHANGED commits
    BY <2>1
  <2>2. QED
    BY <1>2, <1>3, <2>1, CommitsAdded

LEMMA LogInit == Init => Outcomes!Init
<1> SUFFICES ASSUME Init
             PROVE  Outcomes!Init
  OBVIOUS
<1>1. CommitCertificates = {}
  BY DEF Init, CommitCertificates
<1>2. QED
  BY <1>1 DEF Init, Outcomes!Init, Outcomes!SeqNr, SeqNr

\* As long as no two commit certificates disagree, outcome generation is the log
\* of OutcomeLog, whatever is faulty, fails or is restarted.
THEOREM AgreedLog == Spec /\ []Agreement => OutcomeLogSpec
<1>1. Init => Outcomes!Init
  BY LogInit
<1>2. TypeInv /\ WorksFromDecided /\ Agreement /\ Agreement' /\ [Next]_vars
          => [Outcomes!Next]_<<DecidedLog, committedSeqNr, committedOutcome>>
  BY LogStep
<1>3. QED
  BY <1>1, <1>2, WorksFromDecidedHolds, PTL
     DEF Spec, OutcomeLogSpec, Outcomes!Spec, DecidedLog, LogOf

\* The same without that condition, where agreement is proved: in two epochs, as long
\* as no more oracles are faulty, restarted or without their certificate than F.
THEOREM ImplementsOutcomeLog ==
    ASSUME MaxEpoch <= 2
    PROVE  Spec /\ []Tolerated => OutcomeLogSpec
<1>1. Spec => [](Tolerated => Agreement)
  BY AgreementOfTwoEpochs
<1>2. QED
  BY <1>1, AgreedLog, PTL
-----------------------------------------------------------------------------
(***************************************************************************)
(* The assumption of commit, when no oracle is faulty: certificates travel *)
(* forward in epochs only, or back to a process that was started again.    *)
(***************************************************************************)
\* No certificate is of an epoch after that in which it is held or sent.
CertificatesTravelForward ==
    /\ \A o \in Honest :
           cert[o].epoch <= epoch[o] /\ storedCert[o].epoch <= epoch[o]
    /\ \A r \in requests : r.cert.epoch <= r.epoch
    /\ \A m \in epochStarts : m.cert.epoch <= m.epoch

\* A leader that has committed, from the EpochStart it sends, what was decided in its
\* own epoch before it was restarted, and has yet to receive that message.
AwaitsOwn(o) ==
    /\ Leader[epoch[o]] = o
    /\ leaderPhase[o] # "newEpoch"
    /\ \A m \in epochStarts : m.epoch = epoch[o] /\ m \notin handled[o] =>
           committedSeqNr[o] <= m.cert.seqNr

\* Another oracle that waits for an EpochStart has committed nothing of its epoch.
CommittedEarlier ==
    \A o \in Honest :
        \/ committedSeqNr[o] = 0
        \/ \E c \in CommitCertificates :
              /\ c.seqNr = committedSeqNr[o]
              /\ c.epoch <= epoch[o]
              /\ followerPhase[o] = "newEpoch" => c.epoch < epoch[o] \/ AwaitsOwn(o)

CommitsForward ==
    WorksFromDecided /\ CertificatesTravelForward /\ CommittedEarlier

\* Whether or not a write of c fails, nothing but c is stored.
LEMMA WriteTakes ==
    ASSUME TypeInv, NEW o \in Honest, NEW c,
           \/ storedCert' = [storedCert EXCEPT ![o] = c]
           \/ CertWriteFails(o, c)
           \/ UNCHANGED storedCert
    PROVE  /\ \A p \in Honest \ {o} : storedCert'[p] = storedCert[p]
           /\ storedCert'[o] \in {storedCert[o], c}
<1>1. storedCert = [p \in Honest |-> storedCert[p]]
  BY DEF TypeInv, TypeOK
<1>2. CASE storedCert' = [storedCert EXCEPT ![o] = c]
  BY <1>1, <1>2
<1>3. CASE storedCert' = storedCert
  BY <1>3
<1>4. QED
  BY <1>2, <1>3 DEF CertWriteFails

\* Whether or not its write fails, commit puts nothing but c in memory.
LEMMA CommitTakes ==
    ASSUME TypeInv, NEW o \in Honest, NEW c, Commit(o, c)
    PROVE  /\ \A p \in Honest \ {o} :
                  cert'[p] = cert[p] /\ storedCert'[p] = storedCert[p]
           /\ cert'[o] \in {cert[o], c}
           /\ storedCert'[o] \in {storedCert[o], c}
<1>1. \/ storedCert' = [storedCert EXCEPT ![o] = c]
      \/ CertWriteFails(o, c)
      \/ UNCHANGED storedCert
  BY DEF Commit
<1>2. cert' = cert \/ cert' = [cert EXCEPT ![o] = c]
  BY DEF Commit
<1>3. cert = [p \in Honest |-> cert[p]]
  BY DEF TypeInv, TypeOK
<1>4. /\ \A p \in Honest \ {o} : cert'[p] = cert[p]
      /\ cert'[o] \in {cert[o], c}
  BY <1>2, <1>3
<1>5. QED
  BY <1>1, <1>4, WriteTakes

LEMMA CertificatesTravelForwardNext ==
    ASSUME Faulty = {}, TypeInv, CertificatesTravelForward, [Next]_vars
    PROVE  CertificatesTravelForward'
<1> DEFINE Forward ==
        /\ \A o \in Honest :
               cert'[o].epoch <= epoch'[o] /\ storedCert'[o].epoch <= epoch'[o]
        /\ \A r \in requests' : r.cert.epoch <= r.epoch
        /\ \A m \in epochStarts' : m.cert.epoch <= m.epoch
<1> SUFFICES Forward
  BY DEF CertificatesTravelForward
<1> USE DEF CertificatesTravelForward
<1>1. /\ \A c \in Certificate \cup {Genesis} : c.epoch \in Nat
      /\ \A o \in Honest : /\ epoch[o] \in Nat
                           /\ cert[o].epoch \in Nat /\ storedCert[o].epoch \in Nat
      /\ \A e \in Epoch : e \in Nat
  BY ParameterAssumption DEF TypeInv, TypeOK, Certificate, Genesis, Epoch
<1>2. CASE UNCHANGED <<cert, storedCert, epoch, requests, epochStarts>>
  BY <1>2
<1>3. ASSUME NEW o \in Honest, NEW e \in Epoch, EnterEpoch(o, e)
      PROVE  Forward
  <2>1. /\ UNCHANGED <<cert, storedCert, epochStarts>>
        /\ epoch' = [epoch EXCEPT ![o] = e]
        /\ e > epoch[o]
        /\ requests' = requests \cup
               {[epoch |-> e, from |-> o, cert |-> cert[o]]}
    BY <1>3 DEF EnterEpoch, StartEpoch
  <2>2. cert[o].epoch <= e /\ storedCert[o].epoch <= e
    BY <1>1, <2>1
  <2>3. \A p \in Honest :
              cert[p].epoch <= epoch'[p] /\ storedCert[p].epoch <= epoch'[p]
    BY <2>1, <2>2 DEF TypeInv, TypeOK
  <2>4. QED
    BY <2>1, <2>2, <2>3
<1>4. ASSUME NEW o \in Honest, Restart(o)
      PROVE  Forward
  <2>1. /\ UNCHANGED <<storedCert, epochStarts>>
        /\ epoch' = [epoch EXCEPT ![o] = epoch[o]]
        /\ cert' = [cert EXCEPT ![o] = storedCert[o]]
        /\ requests' \subseteq requests \cup
               {[epoch |-> epoch[o], from |-> o, cert |-> storedCert[o]]}
    BY <1>4 DEF Restart, StartEpoch
  <2>2. UNCHANGED epoch
    BY <2>1 DEF TypeInv, TypeOK
  <2>3. \A p \in Honest : cert'[p] = cert[p] \/ cert'[p] = storedCert[p]
    BY <2>1 DEF TypeInv, TypeOK
  <2>4. QED
    BY <2>1, <2>2, <2>3
<1>5. ASSUME NEW o \in Honest,
             NEW R \in SUBSET RequestsOf(epoch[o]), NEW B \in SUBSET Faulty,
             NEW c \in Offered(R, B), SendEpochStart(o, c, R, B)
      PROVE  Forward
  <2>1. c.epoch <= epoch[o]
    BY <1>5 DEF Offered, RequestsOf, TypeInv, TypeOK
  <2>2. /\ \A p \in Honest \ {o} :
               cert'[p] = cert[p] /\ storedCert'[p] = storedCert[p]
        /\ cert'[o] \in {cert[o], c}
        /\ storedCert'[o] \in {storedCert[o], c}
    <3>1. Commit(o, c) \/ UNCHANGED <<cert, storedCert>>
      BY <1>5 DEF SendEpochStart
    <3>2. QED
      BY <3>1, CommitTakes
  <2>3. /\ UNCHANGED epoch
        /\ requests' \subseteq requests
        /\ epochStarts' = epochStarts \cup {[epoch |-> epoch[o], cert |-> c]}
    BY <1>5 DEF SendEpochStart
  <2>4. QED
    BY <2>1, <2>2, <2>3
<1>6. ASSUME NEW o \in Honest, NEW m \in epochStarts, ReceiveEpochStart(o, m)
      PROVE  Forward
  <2>1. Commit(o, m.cert) \/ UNCHANGED <<cert, storedCert>>
    BY <1>6 DEF ReceiveEpochStart
  <2>2. /\ \A p \in Honest \ {o} :
               cert'[p] = cert[p] /\ storedCert'[p] = storedCert[p]
        /\ cert'[o] \in {cert[o], m.cert}
        /\ storedCert'[o] \in {storedCert[o], m.cert}
    BY <2>1, CommitTakes
  <2>3. m.epoch = epoch[o] /\ UNCHANGED <<epoch, requests, epochStarts>>
    BY <1>6 DEF ReceiveEpochStart, epochMsgs
  <2>4. QED
    BY <2>2, <2>3
<1>7. ASSUME NEW o \in Honest, SendCommit(o)
      PROVE  Forward
  <2> DEFINE c == CertifiedPrepare(epoch[o], seqNr[o], outcome[o].outcome)
  <2>1. /\ UNCHANGED <<epoch, requests, epochStarts>>
        /\ cert' = [cert EXCEPT ![o] = c]
        /\ \/ storedCert' = [storedCert EXCEPT ![o] = c]
           \/ CertWriteFails(o, c)
           \/ UNCHANGED storedCert
    BY <1>7 DEF SendCommit, sharedVars, epochMsgs
  <2>2. c.epoch <= epoch[o]
    BY <1>1 DEF CertifiedPrepare
  <2>. HIDE DEF c
  <2>3. /\ \A p \in Honest \ {o} : storedCert'[p] = storedCert[p]
        /\ storedCert'[o] \in {storedCert[o], c}
    BY <2>1, WriteTakes
  <2>4. \A p \in Honest :
              cert'[p].epoch <= epoch[p] /\ storedCert'[p].epoch <= epoch[p]
    BY <2>1, <2>2, <2>3 DEF TypeInv, TypeOK
  <2>5. QED
    BY <2>1, <2>4
<1>8. ASSUME NEW o \in Honest, ReceiveCommits(o)
      PROVE  Forward
  <2> DEFINE c == CertifiedCommit(epoch[o], seqNr[o], outcome[o].outcome)
  <2>1. /\ UNCHANGED <<epoch, requests, epochStarts>>
        /\ Commit(o, c)
        /\ c.epoch <= epoch[o]
    BY <1>1, <1>8 DEF ReceiveCommits, epochMsgs, CertifiedCommit
  <2>. HIDE DEF c
  <2>2. /\ \A p \in Honest \ {o} :
               cert'[p] = cert[p] /\ storedCert'[p] = storedCert[p]
        /\ cert'[o] \in {cert[o], c}
        /\ storedCert'[o] \in {storedCert[o], c}
    BY <2>1, CommitTakes
  <2>3. QED
    BY <2>1, <2>2
<1>9. ASSUME NEW o \in Honest,
             \/ TRoundTimeout(o) \/ SendObservation(o) \/ StartGrace(o)
             \/ \E v \in Value : TGraceTimeout(o, v) \/ SendPrepare(o, v)
      PROVE  Forward
  <2>1. UNCHANGED <<cert, storedCert, epoch, requests, epochStarts>>
    BY <1>9 DEF TRoundTimeout, SendObservation, StartGrace, TGraceTimeout,
                SendPrepare, sharedVars, followerVars, epochMsgs
  <2>2. QED
    BY <1>2, <2>1
<1>10. ASSUME NEW e \in Epoch, Leader[e] \in Faulty
       PROVE  FALSE
  BY <1>10
<1>11. CASE UNCHANGED vars
  BY <1>2, <1>11 DEF vars, sharedVars, followerVars, epochMsgs
<1>12. QED
  BY <1>3, <1>4, <1>5, <1>6, <1>7, <1>8, <1>9, <1>10, <1>11 DEF Next

\* What others send, a leader's wait for its own message is not about.
LEMMA AwaitsOwnStable ==
    ASSUME NEW o \in Honest, AwaitsOwn(o),
           UNCHANGED <<epoch[o], committedSeqNr[o]>>,
           leaderPhase'[o] = "newEpoch" => leaderPhase[o] = "newEpoch",
           \A m \in epochStarts' \ epochStarts : Leader[m.epoch] # o,
           \A m \in handled[o] \ handled'[o] : Leader[m.epoch] # o
    PROVE  AwaitsOwn(o)'
  BY DEF AwaitsOwn

LEMMA CommittedEarlierNext ==
    ASSUME Faulty = {}, TypeInv, CommitsForward, [Next]_vars
    PROVE  CommittedEarlier'
<1> DEFINE Earlier(p) ==
        \/ committedSeqNr'[p] = 0
        \/ \E c \in CommitCertificates :
              /\ c.seqNr = committedSeqNr'[p]
              /\ c.epoch <= epoch'[p]
              /\ followerPhase'[p] = "newEpoch" =>
                     c.epoch < epoch'[p] \/ AwaitsOwn(p)'
           Quiet(p) ==
        /\ UNCHANGED <<committedSeqNr[p], epoch[p]>>
        /\ followerPhase'[p] = "newEpoch" => followerPhase[p] = "newEpoch"
        /\ leaderPhase'[p] = "newEpoch" => leaderPhase[p] = "newEpoch"
        /\ \A m \in epochStarts' \ epochStarts : Leader[m.epoch] # p
        /\ \A m \in handled[p] \ handled'[p] : Leader[m.epoch] # p
<1> SUFFICES ASSUME NEW p \in Honest
             PROVE  Earlier(p)
  BY CommitCertificatesGrow DEF CommittedEarlier
<1>0. /\ CertificatesVerify /\ LeaderAwaitsItself
      /\ CertificatesTravelForward /\ CommittedEarlier
  BY DEF CommitsForward, WorksFromDecided
<1>1. /\ \A c \in CommitCertificates : c.epoch \in Nat
      /\ \A o \in Honest : epoch[o] \in Nat /\ committedSeqNr[o] \in Nat
      /\ \A e \in Epoch : e \in Nat
  <2>1. \A e \in Epoch : e \in Nat
    BY ParameterAssumption DEF Epoch
  <2>2. \A o \in Honest : epoch[o] \in Nat /\ committedSeqNr[o] \in Nat
    BY ParameterAssumption DEF TypeInv, TypeOK
  <2>3. QED
    BY <2>1, <2>2, CommitCertificatesTyped
<1>2. CASE Quiet(p)
  <2>1. AwaitsOwn(p) => AwaitsOwn(p)'
    BY <1>2, AwaitsOwnStable
  <2>2. QED
    BY <1>0, <1>2, <2>1 DEF CommittedEarlier
<1>3. ASSUME NEW o \in Honest, NEW e \in Epoch, EnterEpoch(o, e)
      PROVE  Earlier(p)
  <2>1. /\ UNCHANGED <<committedSeqNr, epochStarts>>
        /\ p # o => UNCHANGED <<epoch[p], followerPhase[p], leaderPhase[p], handled[p]>>
        /\ e > epoch[o] /\ epoch'[o] = e
    BY <1>3 DEF EnterEpoch, StartEpoch, TypeInv, TypeOK
  <2>2. CASE p = o
    <3>1. CASE committedSeqNr[o] = 0
      BY <2>1, <2>2, <3>1
    <3>2. ASSUME NEW c \in CommitCertificates,
                 c.seqNr = committedSeqNr[o], c.epoch <= epoch[o]
          PROVE  Earlier(p)
      <4>1. c.epoch <= epoch'[o] /\ c.epoch < epoch'[o]
        BY <1>1, <2>1, <3>2
      <4>2. QED
        BY <2>1, <2>2, <3>2, <4>1
    <3>3. QED
      BY <1>0, <3>1, <3>2 DEF CommittedEarlier
  <2>3. QED
    BY <1>2, <2>1, <2>2
<1>4. ASSUME NEW o \in Honest, Restart(o)
      PROVE  Earlier(p)
  <2>1. /\ UNCHANGED epochStarts
        /\ p # o => UNCHANGED <<committedSeqNr[p], epoch[p], followerPhase[p],
                                leaderPhase[p], handled[p]>>
        /\ committedSeqNr'[o] = 0
    BY <1>4 DEF Restart, StartEpoch, TypeInv, TypeOK
  <2>2. QED
    BY <1>2, <2>1
\* commit, of a certificate that is not of a later epoch, by a follower of its epoch.
<1>5. ASSUME NEW c, Verifies(c), c.committed, Commit(p, c), c.epoch <= epoch[p],
             UNCHANGED epoch, followerPhase'[p] # "newEpoch"
      PROVE  Earlier(p)
  <2>1. CASE UNCHANGED <<committedSeqNr, committedOutcome>>
    BY <1>0, <1>5, <2>1 DEF CommittedEarlier
  <2>2. CASE c \in CommitCertificates /\ Learns(p, c)
    BY <1>5, <2>2 DEF Learns, TypeInv, TypeOK
  <2>3. QED
    BY <1>5, <2>1, <2>2, CommitLearns
<1>6. ASSUME NEW o \in Honest,
             NEW R \in SUBSET RequestsOf(epoch[o]), NEW B \in SUBSET Faulty,
             NEW c \in Offered(R, B), SendEpochStart(o, c, R, B)
      PROVE  Earlier(p)
  <2> DEFINE m0 == [epoch |-> epoch[o], cert |-> c]
  <2>1. /\ c.epoch <= epoch[o]
        /\ c \in Certificate \cup {Genesis}
        /\ c.seqNr \in Nat
    <3>1. PICK r \in R : c = r.cert
      BY <1>6 DEF Offered
    <3>2. r \in requests /\ r.epoch = epoch[o]
      BY <1>6 DEF RequestsOf
    <3>3. c \in Certificate \cup {Genesis}
      BY <3>1, <3>2 DEF TypeInv, TypeOK
    <3>4. c.seqNr \in Nat
      BY <3>3, ParameterAssumption DEF Certificate, Genesis, SeqNr
    <3>5. QED
      BY <1>0, <3>1, <3>2, <3>3, <3>4 DEF CertificatesTravelForward
  <2>2. /\ UNCHANGED <<epoch, followerPhase>>
        /\ leaderPhase[o] = "newEpoch" /\ Leader[epoch[o]] = o
        /\ Verifies(c)
        /\ UNCHANGED <<committedSeqNr, committedOutcome>>
           \/ (c.committed /\ Commit(o, c))
        /\ epochStarts' = epochStarts \cup {m0}
        /\ handled' = [q \in Honest |-> handled[q] \ {m0}]
    BY <1>6 DEF SendEpochStart, ProofVerifies
  <2>3. /\ leaderPhase'[o] # "newEpoch"
        /\ p # o => leaderPhase'[p] = leaderPhase[p]
    BY <1>6 DEF SendEpochStart, StartLeaderRound, TypeInv, TypeOK
  <2>4. UNCHANGED <<committedSeqNr, committedOutcome>>
        \/ (c \in CommitCertificates /\ Learns(o, c))
    BY <2>2, CommitLearns
  <2>5. CASE p # o
    <3>1. committedSeqNr'[p] = committedSeqNr[p]
      BY <2>4, <2>5 DEF Learns, TypeInv, TypeOK
    <3>2. QED
      BY <1>2, <2>2, <2>3, <2>5, <3>1
  <2>6. CASE p = o /\ UNCHANGED committedSeqNr
    <3>1. ~AwaitsOwn(o)
      BY <2>2 DEF AwaitsOwn
    <3>2. QED
      BY <1>0, <2>2, <2>6, <3>1 DEF CommittedEarlier
\* The leader has received, or started again after, all its earlier EpochStarts.
  <2>7. CASE p = o /\ c \in CommitCertificates /\ Learns(o, c)
    <3>1. committedSeqNr'[o] = c.seqNr
      BY <2>7 DEF Learns, TypeInv, TypeOK
    <3>2. ASSUME NEW m \in epochStarts', m.epoch = epoch[o], m \notin handled'[o]
          PROVE  m.cert = c
      <4>1. m = m0 \/ m \in handled[o]
        BY <1>0, <2>2, <3>2 DEF LeaderAwaitsItself
      <4>2. QED
        BY <2>2, <3>2, <4>1
    <3>3. AwaitsOwn(o)'
      BY <2>1, <2>2, <2>3, <3>1, <3>2 DEF AwaitsOwn
    <3>4. QED
      BY <2>1, <2>2, <2>7, <3>1, <3>3
  <2>8. QED
    BY <2>4, <2>5, <2>6, <2>7
<1>7. ASSUME NEW o \in Honest, NEW m \in epochStarts, ReceiveEpochStart(o, m)
      PROVE  Earlier(p)
  <2>1. m.cert.epoch <= epoch[o] /\ Verifies(m.cert)
    BY <1>0, <1>7
       DEF ReceiveEpochStart, CertificatesTravelForward, CertificatesVerify
  <2>2. /\ UNCHANGED <<epoch, leaderPhase, epochStarts>>
        /\ p # o => UNCHANGED <<followerPhase[p], handled[p]>>
        /\ followerPhase'[o] # "newEpoch"
        /\ UNCHANGED <<committedSeqNr, committedOutcome>>
           \/ (m.cert.committed /\ Commit(o, m.cert))
    BY <1>7 DEF ReceiveEpochStart, StartFollowerRound, leaderVars, epochMsgs,
                TypeInv, TypeOK
  <2>3. CASE p # o
    <3>1. committedSeqNr'[p] = committedSeqNr[p]
      BY <2>2, <2>3 DEF Commit, TypeInv, TypeOK
    <3>2. QED
      BY <1>2, <2>2, <2>3, <3>1
  <2>4. CASE p = o /\ UNCHANGED committedSeqNr
    BY <1>0, <2>2, <2>4 DEF CommittedEarlier
  <2>5. CASE p = o /\ m.cert.committed /\ Commit(o, m.cert)
    BY <1>5, <2>1, <2>2, <2>5
  <2>6. QED
    BY <2>2, <2>3, <2>4, <2>5
<1>8. ASSUME NEW o \in Honest, ReceiveCommits(o)
      PROVE  Earlier(p)
  <2> DEFINE c == CertifiedCommit(epoch[o], seqNr[o], outcome[o].outcome)
  <2>1. /\ epoch[o] \in Epoch /\ seqNr[o] \in SeqNr
        /\ outcome[o].outcome \in Value
        /\ CommitQuorum(epoch[o], seqNr[o], outcome[o].outcome)
        /\ Commit(o, c)
    BY <1>8 DEF ReceiveCommits, TypeInv, PhasesOK
  <2>2. c \in Certificate /\ c.committed /\ Verifies(c) /\ c.epoch = epoch[o]
    BY <2>1 DEF CertifiedCommit, Certificate, Verifies
  <2>3. /\ UNCHANGED <<epoch, epochStarts, handled>>
        /\ p # o => followerPhase'[p] = followerPhase[p]
        /\ p # o => leaderPhase'[p] = leaderPhase[p]
        /\ followerPhase'[o] # "newEpoch"
    BY <1>8 DEF ReceiveCommits, StartFollowerRound, StartLeaderRound, leaderVars,
                epochMsgs, TypeInv, TypeOK
  <2>. HIDE DEF c
  <2>4. CASE p = o
    <3>1. c.epoch <= epoch[p]
      BY <1>1, <2>2, <2>4
    <3>2. QED
      BY <1>5, <2>1, <2>2, <2>3, <2>4, <3>1
  <2>5. CASE p # o
    <3>1. committedSeqNr'[p] = committedSeqNr[p]
      BY <2>1, <2>5 DEF Commit, TypeInv, TypeOK
    <3>2. QED
      BY <1>2, <2>3, <2>5, <3>1
  <2>6. QED
    BY <2>4, <2>5
<1>9. ASSUME NEW o \in Honest,
             \/ TRoundTimeout(o) \/ SendObservation(o) \/ StartGrace(o)
             \/ \E v \in Value : TGraceTimeout(o, v) \/ SendPrepare(o, v)
             \/ SendCommit(o)
      PROVE  Earlier(p)
  <2>1. /\ UNCHANGED <<committedSeqNr, epoch, epochStarts, handled>>
        /\ followerPhase'[p] = "newEpoch" => followerPhase[p] = "newEpoch"
    BY <1>9 DEF TRoundTimeout, SendObservation, StartGrace, TGraceTimeout,
         SendPrepare, SendCommit, sharedVars, followerVars, epochMsgs, TypeInv, TypeOK
  <2>2. leaderPhase'[p] = "newEpoch" => leaderPhase[p] = "newEpoch"
    BY <1>9 DEF TRoundTimeout, StartLeaderRound, SendObservation, StartGrace,
         TGraceTimeout, SendPrepare, SendCommit, leaderVars, TypeInv, TypeOK
  <2>3. QED
    BY <1>2, <2>1, <2>2
<1>10. ASSUME NEW e \in Epoch, Leader[e] \in Faulty
       PROVE  FALSE
  BY <1>10
<1>11. CASE UNCHANGED vars
  BY <1>2, <1>11 DEF vars, sharedVars, followerVars, leaderVars, epochMsgs
<1>12. QED
  BY <1>3, <1>4, <1>6, <1>7, <1>8, <1>9, <1>10, <1>11 DEF Next

LEMMA CommitsForwardInit == Init => CommitsForward
<1> SUFFICES ASSUME Init
             PROVE  CommitsForward
  OBVIOUS
<1>1. CertificatesTravelForward
  BY DEF Init, CertificatesTravelForward, Genesis
<1>2. CommittedEarlier
  BY DEF Init, CommittedEarlier
<1>3. QED
  BY <1>1, <1>2, WorksFromDecidedInit DEF CommitsForward

LEMMA CommitsForwardNext ==
    ASSUME Faulty = {}, TypeInv, CommitsForward, [Next]_vars
    PROVE  CommitsForward'
  BY WorksFromDecidedNext, CertificatesTravelForwardNext, CommittedEarlierNext
     DEF CommitsForward

\* The "assumption violation" of commit: when the oracles follow the protocol, and
\* there were no more than F restarts and failed writes of certificates, the certificate
\* of an EpochStart is never below what its receiver has committed.
THEOREM AssumptionHolds ==
    ASSUME Faulty = {}
    PROVE  Spec => [](Tolerated => NoAssumptionViolation)
<1>1. Init => TypeInv /\ CommitsForward
  BY InitTyped, CommitsForwardInit
<1>2. TypeInv /\ CommitsForward /\ [Next]_vars => (TypeInv /\ CommitsForward)'
  BY NextTyped, CommitsForwardNext
<1>3. TypeInv /\ CommitsForward /\ EpochStartsAboveCommits
          => NoAssumptionViolation
  <2> SUFFICES ASSUME TypeInv, CommitsForward, EpochStartsAboveCommits,
                      NEW o \in Honest, NEW m \in epochStarts,
                      m.epoch = epoch[o], m \notin handled[o],
                      followerPhase[o] = "newEpoch"
               PROVE  committedSeqNr[o] <= m.cert.seqNr
    BY DEF NoAssumptionViolation
  <2>1. m.cert.seqNr \in Nat
    BY ParameterAssumption DEF TypeInv, TypeOK, Certificate, Genesis, SeqNr
  <2>2. QED
    BY <2>1 DEF CommitsForward, CommittedEarlier, AwaitsOwn, EpochStartsAboveCommits
<1>4. QED
  BY <1>1, <1>2, <1>3, CommitsRemembered, PTL DEF Spec
===============================================================================

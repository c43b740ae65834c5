----------------------- MODULE OutcomeGenerationSafety -----------------------
(***************************************************************************)
(* Outcome generation has its types, and the EpochStart handshake forgets  *)
(* no decided sequence number, for every set of oracles, F, faulty         *)
(* oracles, leaders, epochs and sequence numbers.  The types are kept      *)
(* whatever fails; the handshake, as long as the faulty oracles, the       *)
(* restarts and the failed writes of certificates are no more than F:      *)
(* either event may make an oracle forget what it signed.                  *)
(***************************************************************************)
EXTENDS OutcomeGeneration, ByzQuorumProofs, TLAPS

\* What the phases of an oracle say of its epoch, sequence number and outcome: the
\* votes and certificates are made from these.
PhasesOK ==
    \A o \in Honest :
        /\ \/ epoch[o] \in Epoch
           \/ /\ followerPhase[o] = "unknown"
              /\ leaderPhase[o] = "unknown"
              /\ ~tRound[o]
        /\ followerPhase[o] \in {"sentObservation", "sentPrepare", "sentCommit"}
              => seqNr[o] \in SeqNr
        /\ followerPhase[o] \in {"sentPrepare", "sentCommit"}
              => outcome[o].outcome \in Value
        /\ leaderPhase[o] = "grace" => observations[o] \in SeqNr

TypeInv == TypeOK /\ PhasesOK

LEMMA InitTyped == Init => TypeInv
  BY ParameterAssumption
     DEF Init, TypeInv, TypeOK, PhasesOK, FollowerPhase, LeaderPhase, EmptyPool,
         EmptyOutcome, Genesis, Inputs, SeqNr

LEMMA EnterEpochTyped ==
    ASSUME TypeInv, NEW o \in Honest, NEW e \in Epoch, EnterEpoch(o, e)
    PROVE  TypeInv'
<1>0. /\ e \in 0..MaxEpoch /\ 0 \in 0..MaxSeqNr + 1
      /\ "newEpoch" \in FollowerPhase /\ "newEpoch" \in LeaderPhase
      /\ EmptyPool \in [SeqNr -> Value \cup {NoOutcome}]
      /\ EmptyOutcome \in [outcome : Value \cup {NoOutcome}, inputs : Inputs]
  BY ParameterAssumption
     DEF FollowerPhase, LeaderPhase, EmptyPool, EmptyOutcome, Inputs, Epoch
<1>1. TypeOK'
  <2>1. /\ epoch' \in [Honest -> 0..MaxEpoch]
        /\ firstSeqNrOfEpoch' \in [Honest -> 0..MaxSeqNr + 1]
        /\ seqNr' \in [Honest -> 0..MaxSeqNr + 1]
        /\ followerPhase' \in [Honest -> FollowerPhase]
        /\ leaderPhase' \in [Honest -> LeaderPhase]
    BY <1>0 DEF EnterEpoch, StartEpoch, TypeInv, TypeOK
  <2>2. /\ proposalPool' \in [Honest -> [SeqNr -> Value \cup {NoOutcome}]]
        /\ outcome' \in [Honest ->
               [outcome : Value \cup {NoOutcome}, inputs : Inputs]]
    BY <1>0 DEF EnterEpoch, StartEpoch, TypeInv, TypeOK
  <2>3. readyToStartRound' \in [Honest -> BOOLEAN]
    BY DEF EnterEpoch, StartEpoch, TypeInv, TypeOK
  <2>4. tRound' \in [Honest -> BOOLEAN]
    BY DEF EnterEpoch, TypeInv, TypeOK
  <2>5. /\ handled' \in [Honest -> SUBSET epochStarts']
        /\ requests' \subseteq
               [epoch : Epoch, from : Honest, cert : Certificate \cup {Genesis}]
    BY DEF EnterEpoch, StartEpoch, TypeInv, TypeOK
  <2>6. QED
    BY <2>1, <2>2, <2>3, <2>4, <2>5
       DEF EnterEpoch, StartEpoch, TypeInv, TypeOK, faultVars, roundMsgs, votes
<1>2. PhasesOK'
  BY DEF EnterEpoch, StartEpoch, TypeInv, TypeOK, PhasesOK
<1>3. QED
  BY <1>1, <1>2 DEF TypeInv

LEMMA RestartTyped ==
    ASSUME TypeInv, NEW o \in Honest, Restart(o)
    PROVE  TypeInv'
<1>1. epoch[o] \in Epoch
  BY DEF Restart, TypeInv, TypeOK, Epoch
<1>2. requests' \subseteq
          [epoch : Epoch, from : Honest, cert : Certificate \cup {Genesis}]
  BY <1>1 DEF Restart, TypeInv, TypeOK
<1>3. handled' \in [Honest -> SUBSET epochStarts']
  <2>1. {m \in epochStarts : m.epoch = epoch[o]} \in SUBSET epochStarts
    OBVIOUS
  <2>2. epochStarts' = epochStarts
    BY DEF Restart, StartEpoch
  <2>3. QED
    BY <2>1, <2>2 DEF Restart, TypeInv, TypeOK
<1>4. /\ restarts' \in 0..MaxRestarts
      /\ UNCHANGED <<epochStarts, roundMsgs, votes, storedCert, failures>>
      /\ epoch' \in [Honest -> 0..MaxEpoch]
      /\ firstSeqNrOfEpoch' \in [Honest -> 0..MaxSeqNr + 1]
      /\ seqNr' \in [Honest -> 0..MaxSeqNr + 1]
      /\ committedSeqNr' \in [Honest -> 0..MaxSeqNr]
      /\ committedOutcome' \in [Honest -> Value \cup {NoOutcome}]
      /\ observations' \in [Honest -> 0..MaxSeqNr]
  BY ParameterAssumption DEF Restart, StartEpoch, TypeInv, TypeOK
<1>5. /\ followerPhase' \in [Honest -> FollowerPhase]
      /\ proposalPool' \in [Honest -> [SeqNr -> Value \cup {NoOutcome}]]
      /\ outcome' \in [Honest ->
             [outcome : Value \cup {NoOutcome}, inputs : Inputs]]
      /\ leaderPhase' \in [Honest -> LeaderPhase]
      /\ readyToStartRound' \in [Honest -> BOOLEAN]
      /\ tRound' \in [Honest -> BOOLEAN]
      /\ cert' \in [Honest -> Certificate \cup {Genesis}]
  BY DEF Restart, StartEpoch, TypeInv, TypeOK, FollowerPhase, LeaderPhase,
         EmptyPool, EmptyOutcome, Inputs
<1>6. TypeOK'
  BY <1>2, <1>3, <1>4, <1>5 DEF TypeInv, TypeOK, roundMsgs, votes
<1>7. PhasesOK'
  BY <1>1 DEF Restart, StartEpoch, TypeInv, TypeOK, PhasesOK
<1>8. QED
  BY <1>6, <1>7 DEF TypeInv

LEMMA SendObservationTyped ==
    ASSUME TypeInv, NEW o \in Honest, SendObservation(o)
    PROVE  TypeInv'
<1>1. epoch[o] \in Epoch /\ seqNr[o] \in SeqNr
  BY DEF SendObservation, TypeInv, PhasesOK
<1>2. TypeOK'
  BY <1>1
     DEF SendObservation, TypeInv, TypeOK, FollowerPhase, sharedVars, leaderVars,
         epochMsgs, votes, faultVars
<1>3. PhasesOK'
  BY <1>1
     DEF SendObservation, TypeInv, TypeOK, PhasesOK, sharedVars, leaderVars
<1>4. QED
  BY <1>2, <1>3 DEF TypeInv

LEMMA StartGraceTyped ==
    ASSUME TypeInv, NEW o \in Honest, StartGrace(o)
    PROVE  TypeInv'
<1>1. epoch[o] \in Epoch /\ seqNr[o] \in SeqNr
  BY DEF StartGrace, TypeInv, PhasesOK
<1>2. TypeOK'
  BY <1>1, ParameterAssumption
     DEF StartGrace, TypeInv, TypeOK, LeaderPhase, SeqNr, sharedVars,
         followerVars, epochMsgs, roundMsgs, votes, faultVars
<1>3. PhasesOK'
  BY <1>1
     DEF StartGrace, TypeInv, TypeOK, PhasesOK, sharedVars, followerVars
<1>4. QED
  BY <1>2, <1>3 DEF TypeInv

LEMMA TGraceTimeoutTyped ==
    ASSUME TypeInv, NEW o \in Honest, NEW v \in Value, TGraceTimeout(o, v)
    PROVE  TypeInv'
<1>1. epoch[o] \in Epoch /\ observations[o] \in SeqNr
  BY DEF TGraceTimeout, TypeInv, PhasesOK
<1>2. proposals' \subseteq [epoch : Epoch, seqNr : SeqNr, outcome : Value]
  BY <1>1 DEF TGraceTimeout, TypeInv, TypeOK
<1>3. TypeOK'
  BY <1>2
     DEF TGraceTimeout, TypeInv, TypeOK, LeaderPhase, sharedVars,
         followerVars, epochMsgs, votes, faultVars
<1>4. PhasesOK'
  BY <1>1
     DEF TGraceTimeout, TypeInv, TypeOK, PhasesOK, sharedVars, followerVars
<1>5. QED
  BY <1>3, <1>4 DEF TypeInv

LEMMA SendPrepareTyped ==
    ASSUME TypeInv, NEW o \in Honest, NEW v \in Value, SendPrepare(o, v)
    PROVE  TypeInv'
<1>1. /\ epoch[o] \in Epoch /\ seqNr[o] \in SeqNr
      /\ committedOutcome[o] \in Inputs
  BY DEF SendPrepare, TypeInv, TypeOK, PhasesOK, Inputs
<1>2. TypeOK'
  BY <1>1
     DEF SendPrepare, TypeInv, TypeOK, FollowerPhase, sharedVars, leaderVars,
         epochMsgs, roundMsgs, faultVars
<1>3. PhasesOK'
  BY <1>1
     DEF SendPrepare, TypeInv, TypeOK, PhasesOK, sharedVars, leaderVars
<1>4. QED
  BY <1>2, <1>3 DEF TypeInv

\* After a failed write the old certificate is stored or the new one.
LEMMA FailedWriteTyped ==
    ASSUME TypeInv, NEW o \in Honest, NEW c \in Certificate \cup {Genesis},
           CertWriteFails(o, c)
    PROVE  /\ storedCert' \in [Honest -> Certificate \cup {Genesis}]
           /\ failures' \in 0..MaxFailures
<1>1. storedCert \in [Honest -> Certificate \cup {Genesis}]
  BY DEF TypeInv, TypeOK
<1>2. failures \in 0..MaxFailures /\ MaxFailures \in Nat
  BY ParameterAssumption DEF TypeInv, TypeOK
<1>3. failures' \in 0..MaxFailures
  BY <1>2 DEF CertWriteFails
<1>4. CASE storedCert' = storedCert
  BY <1>1, <1>3, <1>4
<1>5. CASE storedCert' = [storedCert EXCEPT ![o] = c]
  BY <1>1, <1>3, <1>5
<1>6. QED
  BY <1>4, <1>5 DEF CertWriteFails

LEMMA SendCommitTyped ==
    ASSUME TypeInv, NEW o \in Honest, SendCommit(o)
    PROVE  TypeInv'
<1>1. epoch[o] \in Epoch /\ seqNr[o] \in SeqNr /\ outcome[o].outcome \in Value
  BY DEF SendCommit, TypeInv, PhasesOK
<1> DEFINE c == CertifiedPrepare(epoch[o], seqNr[o], outcome[o].outcome)
<1>2. c \in Certificate
  BY <1>1 DEF CertifiedPrepare, Certificate
<1>3. CASE CertWriteFails(o, c) /\ UNCHANGED <<followerPhase, commits>>
  <2>0. /\ storedCert' \in [Honest -> Certificate \cup {Genesis}]
        /\ failures' \in 0..MaxFailures
    BY <1>2, <1>3, FailedWriteTyped
  <2>1. TypeOK'
    BY <1>2, <1>3, <2>0
       DEF SendCommit, TypeInv, TypeOK, sharedVars, leaderVars, epochMsgs, roundMsgs
  <2>2. PhasesOK'
    BY <1>3
       DEF SendCommit, TypeInv, TypeOK, PhasesOK, sharedVars, leaderVars
  <2>3. QED
    BY <2>1, <2>2 DEF TypeInv
<1>4. CASE /\ storedCert' = [storedCert EXCEPT ![o] = c]
           /\ followerPhase' = [followerPhase EXCEPT ![o] = "sentCommit"]
           /\ commits' = commits \cup
                  {[epoch |-> epoch[o], seqNr |-> seqNr[o], from |-> o,
                    outcome |-> outcome[o].outcome]}
           /\ UNCHANGED failures
  <2>1. TypeOK'
    BY <1>1, <1>2, <1>4
       DEF SendCommit, TypeInv, TypeOK, FollowerPhase, sharedVars, leaderVars,
           epochMsgs, roundMsgs
  <2>2. PhasesOK'
    BY <1>1, <1>4
       DEF SendCommit, TypeInv, TypeOK, PhasesOK, sharedVars, leaderVars
  <2>3. QED
    BY <2>1, <2>2 DEF TypeInv
<1>5. QED
  BY <1>3, <1>4 DEF SendCommit

\* What commit leaves behind.
LEMMA CommitTyped ==
    ASSUME TypeInv, NEW o \in Honest, NEW c \in Certificate \cup {Genesis},
           Commit(o, c)
    PROVE  /\ cert' \in [Honest -> Certificate \cup {Genesis}]
           /\ storedCert' \in [Honest -> Certificate \cup {Genesis}]
           /\ committedSeqNr' \in [Honest -> 0..MaxSeqNr]
           /\ committedOutcome' \in [Honest -> Value \cup {NoOutcome}]
           /\ failures' \in 0..MaxFailures
<1>1. c.seqNr \in 0..MaxSeqNr /\ c.outcome \in Value \cup {NoOutcome}
  BY ParameterAssumption DEF Certificate, Genesis, SeqNr
<1>2. CASE UNCHANGED <<cert, storedCert, committedSeqNr, committedOutcome,
                       failures>>
  BY <1>2 DEF TypeInv, TypeOK
<1>3. CASE /\ cert' = [cert EXCEPT ![o] = c]
           /\ storedCert' = [storedCert EXCEPT ![o] = c]
           /\ committedSeqNr' = [committedSeqNr EXCEPT ![o] = c.seqNr]
           /\ committedOutcome' = [committedOutcome EXCEPT ![o] = c.outcome]
           /\ UNCHANGED failures
  BY <1>1, <1>3 DEF TypeInv, TypeOK
<1>4. CASE /\ cert' = [cert EXCEPT ![o] = c]
           /\ CertWriteFails(o, c)
           /\ UNCHANGED <<committedSeqNr, committedOutcome>>
  BY <1>4, FailedWriteTyped DEF TypeInv, TypeOK
<1>5. QED
  BY <1>2, <1>3, <1>4 DEF Commit

\* What startSubsequentFollowerRound leaves behind.
LEMMA StartFollowerRoundTyped ==
    ASSUME TypeInv, NEW o \in Honest, committedSeqNr' \in [Honest -> 0..MaxSeqNr],
           StartFollowerRound(o)
    PROVE  /\ seqNr' \in [Honest -> 0..MaxSeqNr + 1]
           /\ followerPhase' \in [Honest -> FollowerPhase]
           /\ outcome' \in [Honest ->
                  [outcome : Value \cup {NoOutcome}, inputs : Inputs]]
           /\ \A p \in Honest \ {o} :
                  UNCHANGED <<seqNr[p], followerPhase[p], outcome[p]>>
           /\ followerPhase'[o] = "newRound"
<1>1. committedSeqNr'[o] + 1 \in 0..MaxSeqNr + 1
  BY ParameterAssumption
<1>2. EmptyOutcome \in [outcome : Value \cup {NoOutcome}, inputs : Inputs]
  BY DEF EmptyOutcome, Inputs
<1>3. QED
  BY <1>1, <1>2 DEF StartFollowerRound, TypeInv, TypeOK, FollowerPhase

\* What startSubsequentLeaderRound leaves behind.
LEMMA StartLeaderRoundTyped ==
    ASSUME TypeInv, NEW o \in Honest, committedSeqNr' \in [Honest -> 0..MaxSeqNr],
           epoch[o] \in Epoch,
           NEW armed \in BOOLEAN, NEW phase \in LeaderPhase,
           phase = "grace" => leaderPhase[o] = "grace",
           StartLeaderRound(o, armed, phase)
    PROVE  /\ leaderPhase' \in [Honest -> LeaderPhase]
           /\ readyToStartRound' \in [Honest -> BOOLEAN]
           /\ tRound' \in [Honest -> BOOLEAN]
           /\ observations' \in [Honest -> 0..MaxSeqNr]
           /\ roundStarts' \subseteq [epoch : Epoch, seqNr : SeqNr]
           /\ \A p \in Honest \ {o} :
                  UNCHANGED <<leaderPhase[p], tRound[p], observations[p]>>
           /\ leaderPhase'[o] = "grace" => observations'[o] \in SeqNr
<1> DEFINE next == committedSeqNr'[o] + 1
<1>1. CASE /\ next \in SeqNr
           /\ tRound' = [tRound EXCEPT ![o] = TRUE]
           /\ leaderPhase' = [leaderPhase EXCEPT ![o] = "sentRoundStart"]
           /\ observations' = [observations EXCEPT ![o] = 0]
           /\ roundStarts' = roundStarts \cup
                  {[epoch |-> epoch[o], seqNr |-> next]}
  <2>. HIDE DEF next
  <2>. QED
    BY <1>1, ParameterAssumption
       DEF StartLeaderRound, TypeInv, TypeOK, LeaderPhase
<1>2. CASE /\ tRound' = [tRound EXCEPT ![o] = armed]
           /\ leaderPhase' = [leaderPhase EXCEPT ![o] = phase]
           /\ UNCHANGED <<observations, roundStarts>>
  BY <1>2 DEF StartLeaderRound, TypeInv, TypeOK, PhasesOK
<1>3. QED
  BY <1>1, <1>2 DEF StartLeaderRound

LEMMA TRoundTimeoutTyped ==
    ASSUME TypeInv, NEW o \in Honest, TRoundTimeout(o)
    PROVE  TypeInv'
<1>1. /\ epoch[o] \in Epoch
      /\ leaderPhase[o] \in LeaderPhase
      /\ committedSeqNr' \in [Honest -> 0..MaxSeqNr]
      /\ StartLeaderRound(o, FALSE, leaderPhase[o])
  BY DEF TRoundTimeout, TypeInv, TypeOK, PhasesOK
<1>5. "grace" = leaderPhase[o] => leaderPhase[o] = "grace"
  OBVIOUS
<1>6. /\ leaderPhase' \in [Honest -> LeaderPhase]
      /\ readyToStartRound' \in [Honest -> BOOLEAN]
      /\ tRound' \in [Honest -> BOOLEAN]
      /\ observations' \in [Honest -> 0..MaxSeqNr]
      /\ roundStarts' \subseteq [epoch : Epoch, seqNr : SeqNr]
      /\ \A p \in Honest \ {o} :
             UNCHANGED <<leaderPhase[p], tRound[p], observations[p]>>
      /\ leaderPhase'[o] = "grace" => observations'[o] \in SeqNr
  BY <1>1, StartLeaderRoundTyped
<1>2. TypeOK'
  BY <1>6 DEF TRoundTimeout, TypeInv, TypeOK, followerVars, epochMsgs, votes,
              faultVars
<1>3. PhasesOK'
  BY <1>6 DEF TRoundTimeout, TypeInv, TypeOK, PhasesOK, followerVars
<1>4. QED
  BY <1>2, <1>3 DEF TypeInv

LEMMA ReceiveCommitsTyped ==
    ASSUME TypeInv, NEW o \in Honest, ReceiveCommits(o)
    PROVE  TypeInv'
<1> DEFINE c == CertifiedCommit(epoch[o], seqNr[o], outcome[o].outcome)
<1>1. epoch[o] \in Epoch /\ seqNr[o] \in SeqNr /\ outcome[o].outcome \in Value
  BY DEF ReceiveCommits, TypeInv, PhasesOK
<1>2. c \in Certificate \cup {Genesis}
  BY <1>1 DEF CertifiedCommit, Certificate
<1>3. Commit(o, c)
  BY DEF ReceiveCommits
<1>. HIDE DEF c
<1>4. /\ cert' \in [Honest -> Certificate \cup {Genesis}]
      /\ storedCert' \in [Honest -> Certificate \cup {Genesis}]
      /\ committedSeqNr' \in [Honest -> 0..MaxSeqNr]
      /\ committedOutcome' \in [Honest -> Value \cup {NoOutcome}]
      /\ failures' \in 0..MaxFailures
  BY <1>2, <1>3, CommitTyped
<1>5. CASE UNCHANGED <<seqNr, followerPhase, outcome, leaderVars, roundStarts>>
  <2>1. TypeOK'
    BY <1>4, <1>5
       DEF ReceiveCommits, TypeInv, TypeOK, leaderVars, epochMsgs, votes
  <2>2. PhasesOK'
    BY <1>5 DEF ReceiveCommits, TypeInv, PhasesOK, leaderVars
  <2>3. QED
    BY <2>1, <2>2 DEF TypeInv
<1>6. CASE /\ StartFollowerRound(o)
           /\ \/ StartLeaderRound(o, tRound[o], leaderPhase[o])
              \/ UNCHANGED <<leaderVars, roundStarts>>
  <2>1. /\ seqNr' \in [Honest -> 0..MaxSeqNr + 1]
        /\ followerPhase' \in [Honest -> FollowerPhase]
        /\ outcome' \in [Honest ->
               [outcome : Value \cup {NoOutcome}, inputs : Inputs]]
        /\ \A p \in Honest \ {o} :
               UNCHANGED <<seqNr[p], followerPhase[p], outcome[p]>>
        /\ followerPhase'[o] = "newRound"
    BY <1>4, <1>6, StartFollowerRoundTyped
  <2>2. /\ leaderPhase' \in [Honest -> LeaderPhase]
        /\ readyToStartRound' \in [Honest -> BOOLEAN]
        /\ tRound' \in [Honest -> BOOLEAN]
        /\ observations' \in [Honest -> 0..MaxSeqNr]
        /\ roundStarts' \subseteq [epoch : Epoch, seqNr : SeqNr]
        /\ \A p \in Honest \ {o} :
               UNCHANGED <<leaderPhase[p], tRound[p], observations[p]>>
        /\ leaderPhase'[o] = "grace" => observations'[o] \in SeqNr
    <3>1. leaderPhase[o] \in LeaderPhase /\ tRound[o] \in BOOLEAN
      BY DEF TypeInv, TypeOK
    <3>2. CASE StartLeaderRound(o, tRound[o], leaderPhase[o])
      BY <1>1, <1>4, <3>1, <3>2, StartLeaderRoundTyped
    <3>3. CASE UNCHANGED <<leaderVars, roundStarts>>
      BY <3>3 DEF TypeInv, TypeOK, PhasesOK, leaderVars
    <3>4. QED
      BY <1>6, <3>2, <3>3
  <2>3. TypeOK'
    BY <1>4, <2>1, <2>2 DEF ReceiveCommits, TypeInv, TypeOK, epochMsgs, votes
  <2>4. PhasesOK'
    BY <1>1, <2>1, <2>2 DEF ReceiveCommits, TypeInv, PhasesOK
  <2>5. QED
    BY <2>3, <2>4 DEF TypeInv
<1>7. QED
  BY <1>5, <1>6 DEF ReceiveCommits
LEMMA ReceiveEpochStartTyped ==
    ASSUME TypeInv, NEW o \in Honest, NEW m \in epochStarts,
           ReceiveEpochStart(o, m)
    PROVE  TypeInv'
<1>1. /\ epoch[o] \in Epoch
      /\ m.cert \in Certificate \cup {Genesis}
      /\ handled' \in [Honest -> SUBSET epochStarts']
  BY DEF ReceiveEpochStart, TypeInv, TypeOK, epochMsgs
<1>2. CASE /\ Commit(o, m.cert)
           /\ firstSeqNrOfEpoch' =
                  [firstSeqNrOfEpoch EXCEPT ![o] = committedSeqNr'[o] + 1]
           /\ StartFollowerRound(o)
           /\ UNCHANGED prepares
  <2>1. /\ cert' \in [Honest -> Certificate \cup {Genesis}]
        /\ storedCert' \in [Honest -> Certificate \cup {Genesis}]
        /\ committedSeqNr' \in [Honest -> 0..MaxSeqNr]
        /\ committedOutcome' \in [Honest -> Value \cup {NoOutcome}]
        /\ failures' \in 0..MaxFailures
    BY <1>1, <1>2, CommitTyped
  <2>2. /\ seqNr' \in [Honest -> 0..MaxSeqNr + 1]
        /\ followerPhase' \in [Honest -> FollowerPhase]
        /\ outcome' \in [Honest ->
               [outcome : Value \cup {NoOutcome}, inputs : Inputs]]
        /\ \A p \in Honest \ {o} :
               UNCHANGED <<seqNr[p], followerPhase[p], outcome[p]>>
        /\ followerPhase'[o] = "newRound"
    BY <1>2, <2>1, StartFollowerRoundTyped
  <2>3. firstSeqNrOfEpoch' \in [Honest -> 0..MaxSeqNr + 1]
    <3>1. committedSeqNr'[o] + 1 \in 0..MaxSeqNr + 1
      BY <2>1, ParameterAssumption
    <3>2. QED
      BY <1>2, <3>1 DEF TypeInv, TypeOK
  <2>4. TypeOK'
    BY <1>1, <1>2, <2>1, <2>2, <2>3
       DEF ReceiveEpochStart, TypeInv, TypeOK, leaderVars, epochMsgs, roundMsgs
  <2>5. PhasesOK'
    BY <1>1, <2>2 DEF ReceiveEpochStart, TypeInv, PhasesOK, leaderVars
  <2>6. QED
    BY <2>4, <2>5 DEF TypeInv
<1>3. CASE /\ ~m.cert.committed
           /\ firstSeqNrOfEpoch' =
                  [firstSeqNrOfEpoch EXCEPT ![o] = m.cert.seqNr + 1]
           /\ seqNr' = [seqNr EXCEPT ![o] = m.cert.seqNr]
           /\ followerPhase' = [followerPhase EXCEPT ![o] = "sentPrepare"]
           /\ outcome' = [outcome EXCEPT ![o] =
                  [outcome |-> m.cert.outcome, inputs |-> Reproposal]]
           /\ prepares' = prepares \cup
                  {[epoch |-> epoch[o], seqNr |-> m.cert.seqNr, from |-> o,
                    inputs |-> Reproposal, outcome |-> m.cert.outcome]}
           /\ UNCHANGED <<committedSeqNr, committedOutcome, cert, storedCert,
                          failures>>
  <2>1. /\ m.cert.seqNr \in SeqNr
        /\ m.cert.outcome \in Value
    BY <1>1, <1>3 DEF Certificate, Genesis
  <2>2. m.cert.seqNr + 1 \in 0..MaxSeqNr + 1 /\ m.cert.seqNr \in 0..MaxSeqNr + 1
    BY <2>1, ParameterAssumption DEF SeqNr
  <2>3. prepares' \subseteq
            [epoch : Epoch, seqNr : SeqNr, from : Honest, inputs : Inputs,
             outcome : Value]
    BY <1>1, <1>3, <2>1 DEF TypeInv, TypeOK, Inputs
  <2>4. outcome' \in [Honest ->
            [outcome : Value \cup {NoOutcome}, inputs : Inputs]]
    BY <1>3, <2>1 DEF TypeInv, TypeOK, Inputs
  <2>5. TypeOK'
    BY <1>1, <1>3, <2>2, <2>3, <2>4
       DEF ReceiveEpochStart, TypeInv, TypeOK, FollowerPhase, leaderVars,
           epochMsgs, roundMsgs
  <2>6. PhasesOK'
    BY <1>1, <1>3, <2>1
       DEF ReceiveEpochStart, TypeInv, TypeOK, PhasesOK, leaderVars
  <2>7. QED
    BY <2>5, <2>6 DEF TypeInv
<1>4. QED
  BY <1>2, <1>3 DEF ReceiveEpochStart

LEMMA SendEpochStartTyped ==
    ASSUME TypeInv, NEW o \in Honest,
           NEW R \in SUBSET RequestsOf(epoch[o]), NEW B \in SUBSET Faulty,
           NEW c \in Offered(R, B), SendEpochStart(o, c, R, B)
    PROVE  TypeInv'
<1>1. /\ epoch[o] \in Epoch
      /\ c \in Certificate \cup {Genesis}
  BY DEF SendEpochStart, Offered, RequestsOf, TypeInv, TypeOK, PhasesOK
<1>2. /\ requests' \subseteq
             [epoch : Epoch, from : Honest, cert : Certificate \cup {Genesis}]
      /\ epochStarts' \subseteq [epoch : Epoch, cert : Certificate \cup {Genesis}]
      /\ handled' \in [Honest -> SUBSET epochStarts']
  BY <1>1 DEF SendEpochStart, TypeInv, TypeOK
<1>3. "sentEpochStart" \in LeaderPhase /\ tRound[o] \in BOOLEAN
  BY DEF LeaderPhase, TypeInv, TypeOK
<1>4. CASE /\ Commit(o, c)
           /\ firstSeqNrOfEpoch' =
                  [firstSeqNrOfEpoch EXCEPT ![o] = committedSeqNr'[o] + 1]
           /\ StartLeaderRound(o, tRound[o], "sentEpochStart")
  <2>1. /\ cert' \in [Honest -> Certificate \cup {Genesis}]
        /\ storedCert' \in [Honest -> Certificate \cup {Genesis}]
        /\ committedSeqNr' \in [Honest -> 0..MaxSeqNr]
        /\ committedOutcome' \in [Honest -> Value \cup {NoOutcome}]
        /\ failures' \in 0..MaxFailures
    BY <1>1, <1>4, CommitTyped
  <2>2. /\ leaderPhase' \in [Honest -> LeaderPhase]
        /\ readyToStartRound' \in [Honest -> BOOLEAN]
        /\ tRound' \in [Honest -> BOOLEAN]
        /\ observations' \in [Honest -> 0..MaxSeqNr]
        /\ roundStarts' \subseteq [epoch : Epoch, seqNr : SeqNr]
        /\ \A p \in Honest \ {o} :
               UNCHANGED <<leaderPhase[p], tRound[p], observations[p]>>
        /\ leaderPhase'[o] = "grace" => observations'[o] \in SeqNr
    BY <1>1, <1>3, <1>4, <2>1, StartLeaderRoundTyped
  <2>3. firstSeqNrOfEpoch' \in [Honest -> 0..MaxSeqNr + 1]
    <3>1. committedSeqNr'[o] + 1 \in 0..MaxSeqNr + 1
      BY <2>1, ParameterAssumption
    <3>2. QED
      BY <1>4, <3>1 DEF TypeInv, TypeOK
  <2>4. TypeOK'
    BY <1>2, <2>1, <2>2, <2>3
       DEF SendEpochStart, TypeInv, TypeOK, votes
  <2>5. PhasesOK'
    BY <1>1, <2>2 DEF SendEpochStart, TypeInv, PhasesOK
  <2>6. QED
    BY <2>4, <2>5 DEF TypeInv
<1>5. CASE /\ ~c.committed
           /\ firstSeqNrOfEpoch' = [firstSeqNrOfEpoch EXCEPT ![o] = c.seqNr + 1]
           /\ leaderPhase' = [leaderPhase EXCEPT ![o] = "sentEpochStart"]
           /\ UNCHANGED <<committedSeqNr, committedOutcome, cert, storedCert,
                          readyToStartRound, tRound, observations, roundStarts,
                          failures>>
  <2>1. c.seqNr + 1 \in 0..MaxSeqNr + 1
    BY <1>1, <1>5, ParameterAssumption DEF Certificate, Genesis, SeqNr
  <2>2. TypeOK'
    BY <1>2, <1>3, <1>5, <2>1
       DEF SendEpochStart, TypeInv, TypeOK, votes
  <2>3. PhasesOK'
    BY <1>1, <1>5 DEF SendEpochStart, TypeInv, TypeOK, PhasesOK
  <2>4. QED
    BY <2>2, <2>3 DEF TypeInv
<1>6. QED
  BY <1>4, <1>5 DEF SendEpochStart

LEMMA FaultyEpochStartTyped ==
    ASSUME TypeInv, NEW e \in Epoch, NEW c \in Certificate \cup {Genesis},
           NEW R, NEW B, FaultyEpochStart(e, c, R, B)
    PROVE  TypeInv'
<1>1. /\ epochStarts' \subseteq [epoch : Epoch, cert : Certificate \cup {Genesis}]
      /\ handled' \in [Honest -> SUBSET epochStarts']
  BY DEF FaultyEpochStart, TypeInv, TypeOK, followerVars
<1>2. TypeOK'
  BY <1>1
     DEF FaultyEpochStart, TypeInv, TypeOK, sharedVars, followerVars, leaderVars,
         roundMsgs, votes, faultVars
<1>3. PhasesOK'
  BY DEF FaultyEpochStart, TypeInv, PhasesOK, sharedVars, followerVars, leaderVars
<1>4. QED
  BY <1>2, <1>3 DEF TypeInv

LEMMA StutterTyped ==
    ASSUME TypeInv, UNCHANGED vars
    PROVE  TypeInv'
  BY DEF TypeInv, TypeOK, PhasesOK, vars, sharedVars, followerVars, leaderVars,
         epochMsgs, roundMsgs, votes, faultVars

LEMMA NextTyped == TypeInv /\ [Next]_vars => TypeInv'
<1> SUFFICES ASSUME TypeInv, [Next]_vars
             PROVE  TypeInv'
  OBVIOUS
<1>1. ASSUME NEW o \in Honest, NEW e \in Epoch, EnterEpoch(o, e)
      PROVE  TypeInv'
  BY <1>1, EnterEpochTyped
<1>2. ASSUME NEW o \in Honest, Restart(o)
      PROVE  TypeInv'
  BY <1>2, RestartTyped
<1>3. ASSUME NEW o \in Honest,
             NEW R \in SUBSET RequestsOf(epoch[o]), NEW B \in SUBSET Faulty,
             NEW c \in Offered(R, B), SendEpochStart(o, c, R, B)
      PROVE  TypeInv'
  BY <1>3, SendEpochStartTyped
<1>4. ASSUME NEW o \in Honest, NEW m \in epochStarts, ReceiveEpochStart(o, m)
      PROVE  TypeInv'
  BY <1>4, ReceiveEpochStartTyped
<1>5. ASSUME NEW o \in Honest,
             \/ TRoundTimeout(o) \/ SendObservation(o) \/ StartGrace(o)
             \/ SendCommit(o) \/ ReceiveCommits(o)
      PROVE  TypeInv'
  BY <1>5, TRoundTimeoutTyped, SendObservationTyped, StartGraceTyped,
     SendCommitTyped, ReceiveCommitsTyped
<1>6. ASSUME NEW o \in Honest, NEW v \in Value,
             TGraceTimeout(o, v) \/ SendPrepare(o, v)
      PROVE  TypeInv'
  BY <1>6, TGraceTimeoutTyped, SendPrepareTyped
<1>7. ASSUME NEW e \in Epoch, NEW c \in Certificate \cup {Genesis},
             NEW R \in SUBSET RequestsOf(e), NEW B \in SUBSET Faulty,
             FaultyEpochStart(e, c, R, B)
      PROVE  TypeInv'
  BY <1>7, FaultyEpochStartTyped
<1>8. CASE UNCHANGED vars
  BY <1>8, StutterTyped
<1>9. QED
  BY <1>1, <1>2, <1>3, <1>4, <1>5, <1>6, <1>7, <1>8 DEF Next

\* Every handler keeps the state of an oracle, the certificates it writes and the
\* messages it sends within their types, whatever fails, restarts or is faulty.
THEOREM TypeCorrect == Spec => []TypeOK
<1>1. Init => TypeInv
  BY InitTyped
<1>2. TypeInv /\ [Next]_vars => TypeInv'
  BY NextTyped
<1>3. TypeInv => TypeOK
  BY DEF TypeInv
<1>4. QED
  BY <1>1, <1>2, <1>3, PTL DEF Spec
-----------------------------------------------------------------------------
(***************************************************************************)
(* Which oracles are relied on.  An oracle that has been restarted, or that*)
(* has failed to write a certificate, has forgotten part of what it signed *)
(* and counts as a faulty one; the model does not say which ones these are,*)
(* so the invariants are stated of a set H of oracles that are not.        *)
(***************************************************************************)
\* Together with the faulty oracles, those that H leaves out are no more than F.
Few(H) == Cardinality(Faulty) + Cardinality(Honest \ H) <= F

\* The steps of one oracle.
StepOf(o) ==
    \/ \E e \in Epoch : EnterEpoch(o, e)
    \/ Restart(o)
    \/ \E R \in SUBSET RequestsOf(epoch[o]), B \in SUBSET Faulty :
           \E c \in Offered(R, B) : SendEpochStart(o, c, R, B)
    \/ \E m \in epochStarts : ReceiveEpochStart(o, m)
    \/ TRoundTimeout(o)
    \/ SendObservation(o)
    \/ StartGrace(o)
    \/ \E v \in Value : TGraceTimeout(o, v)
    \/ \E v \in Value : SendPrepare(o, v)
    \/ SendCommit(o)
    \/ ReceiveCommits(o)

FaultyStep ==
    \E e \in {d \in Epoch : Leader[d] \in Faulty} :
    \E c \in {d \in Certificate \cup {Genesis} : Verifies(d)} :
    \E R \in SUBSET RequestsOf(e), B \in SUBSET Faulty :
        FaultyEpochStart(e, c, R, B)

\* The steps in which no oracle of H is restarted or fails to write.
SteadyNext(H) ==
    \/ UNCHANGED vars
    \/ \E o \in Honest : StepOf(o) /\ (o \in H => UNCHANGED faultVars)
    \/ FaultyStep

LEMMA NextIsSomeStep == Next <=> (\E o \in Honest : StepOf(o)) \/ FaultyStep
  BY DEF Next, StepOf, FaultyStep

LEMMA SteadyIsNext ==
    ASSUME NEW H \in SUBSET Honest, SteadyNext(H)
    PROVE  [Next]_vars
  BY NextIsSomeStep DEF SteadyNext

\* A step that the environment makes fail is counted.
LEMMA StepFaults ==
    ASSUME TypeInv, NEW o \in Honest, StepOf(o)
    PROVE  \/ UNCHANGED faultVars
           \/ failures' = failures + 1 /\ restarts' = restarts
           \/ failures' = failures /\ restarts' = restarts + 1
<1> DEFINE Counted ==
        \/ UNCHANGED faultVars
        \/ failures' = failures + 1 /\ restarts' = restarts
        \/ failures' = failures /\ restarts' = restarts + 1
<1>1. ASSUME NEW c, Commit(o, c), UNCHANGED restarts
      PROVE  Counted
  BY <1>1 DEF Commit, CertWriteFails, faultVars
<1>2. ASSUME NEW R, NEW B, NEW c, SendEpochStart(o, c, R, B)
      PROVE  Counted
  BY <1>1, <1>2 DEF SendEpochStart, faultVars
<1>3. ASSUME NEW m, ReceiveEpochStart(o, m)
      PROVE  Counted
  BY <1>1, <1>3 DEF ReceiveEpochStart, faultVars
<1>4. CASE SendCommit(o)
  BY <1>4 DEF SendCommit, CertWriteFails, faultVars
<1>5. CASE ReceiveCommits(o)
  BY <1>1, <1>5 DEF ReceiveCommits, faultVars
<1>6. CASE Restart(o)
  BY <1>6 DEF Restart
<1>7. CASE \/ \E e \in Epoch : EnterEpoch(o, e)
           \/ TRoundTimeout(o) \/ SendObservation(o) \/ StartGrace(o)
           \/ \E v \in Value : TGraceTimeout(o, v) \/ SendPrepare(o, v)
  BY <1>7 DEF EnterEpoch, TRoundTimeout, SendObservation, StartGrace,
              TGraceTimeout, SendPrepare
<1>8. QED
  BY <1>2, <1>3, <1>4, <1>5, <1>6, <1>7 DEF StepOf

\* All but the oracle that such a step happens to, if there is one, stay steady.
LEMMA SteadyRemain ==
    ASSUME TypeInv, [Next]_vars, NEW H \in SUBSET Honest,
           Cardinality(Honest \ H) <= failures + restarts
    PROVE  /\ failures + restarts <= failures' + restarts'
           /\ \E G \in SUBSET H :
                 /\ SteadyNext(G)
                 /\ Cardinality(Honest \ G) <= failures' + restarts'
<1>1. /\ failures \in Nat /\ restarts \in Nat
      /\ Cardinality(Honest \ H) \in Nat /\ IsFiniteSet(Honest \ H)
  BY HonestFinite, FS_Subset, FS_CardinalityType, ParameterAssumption
     DEF TypeInv, TypeOK
<1>2. CASE UNCHANGED faultVars /\ SteadyNext(H)
  BY <1>1, <1>2 DEF faultVars
<1>3. CASE UNCHANGED vars \/ FaultyStep
  <2>1. UNCHANGED faultVars
    BY <1>3 DEF vars, FaultyStep, FaultyEpochStart
  <2>2. QED
    BY <1>2, <1>3, <2>1 DEF SteadyNext
<1>4. ASSUME NEW o \in Honest, StepOf(o),
             failures' + restarts' = failures + restarts + 1
      PROVE  /\ failures + restarts <= failures' + restarts'
             /\ \E G \in SUBSET H :
                   /\ SteadyNext(G)
                   /\ Cardinality(Honest \ G) <= failures' + restarts'
  <2> DEFINE G == H \ {o}
  <2>1. SteadyNext(G) /\ G \in SUBSET H
    BY <1>4 DEF SteadyNext
  <2>2. Cardinality(Honest \ G) <= failures + restarts + 1
    BY <1>1, <1>4, OneMoreLeftOut
  <2> HIDE DEF G
  <2>3. Cardinality(Honest \ G) <= failures' + restarts'
    BY <1>4, <2>2
  <2>4. QED
    BY <1>1, <1>4, <2>1, <2>3
<1>5. ASSUME NEW o \in Honest, StepOf(o)
      PROVE  /\ failures + restarts <= failures' + restarts'
             /\ \E G \in SUBSET H :
                   /\ SteadyNext(G)
                   /\ Cardinality(Honest \ G) <= failures' + restarts'
  <2>1. CASE UNCHANGED faultVars
    BY <1>2, <1>5, <2>1 DEF SteadyNext
  <2>2. CASE failures' + restarts' = failures + restarts + 1
    BY <1>4, <1>5, <2>2
  <2>3. UNCHANGED faultVars \/ failures' + restarts' = failures + restarts + 1
    <3>1. \/ UNCHANGED faultVars
          \/ failures' = failures + 1 /\ restarts' = restarts
          \/ failures' = failures /\ restarts' = restarts + 1
      BY <1>5, StepFaults
    <3>2. QED
      BY <1>1, <3>1
  <2>4. QED
    BY <2>1, <2>2, <2>3
<1>6. QED
  BY <1>3, <1>5, NextIsSomeStep
-----------------------------------------------------------------------------
(* What the handshake remembers.                                           *)

\* o is past epoch e and has not voted to commit s in it.
NoVoteLeft(o, e, s) ==
    /\ epoch[o] > e
    /\ \A m \in commits : ~(m.from = o /\ m.epoch = e /\ m.seqNr = s)

\* So many oracles have no vote left, but for those outside H, that s cannot be
\* committed in e any more.
Blocked(H, e, s) ==
    \E Q \in SUBSET Honest :
        /\ Cardinality(Q) + Cardinality(Faulty) >= ByzQuorumSize
        /\ \A o \in Q \cap H : NoVoteLeft(o, e, s)

\* An oracle votes in the epoch it is in, and there for no sequence number beyond
\* the one it has reached.
VotesInOrder(H) ==
    \A m \in commits : m.from \in H =>
        /\ m.epoch <= epoch[m.from]
        /\ m.epoch = epoch[m.from] =>
              /\ followerPhase[m.from] \notin {"unknown", "newEpoch"}
              /\ m.seqNr <= seqNr[m.from]

\* A follower of an epoch has acted on an EpochStart of it.
FollowsEpochStart(H) ==
    \A o \in H : followerPhase[o] \notin {"unknown", "newEpoch"} =>
        \E m \in epochStarts : m.epoch = epoch[o] /\ m.cert.seqNr <= seqNr[o]

\* An honest leader in phase newEpoch has not sent the EpochStart of its epoch, let
\* alone that of a later one.
LeaderStartsOnce(H) ==
    \A m \in epochStarts : Leader[m.epoch] \in H =>
        /\ m.epoch <= epoch[Leader[m.epoch]]
        /\ m.epoch = epoch[Leader[m.epoch]] =>
              leaderPhase[Leader[m.epoch]] # "newEpoch"

\* The certificate an oracle holds is as high as what it voted to commit, unless
\* that vote has become void.
CertCoversVotes(H) ==
    \A m \in commits : m.from \in H =>
        \/ m.seqNr <= cert[m.from].seqNr
        \/ Blocked(H, m.epoch, m.seqNr)

\* So is the certificate in a request, with regard to the epochs before.
RequestsCoverVotes(H) ==
    \A r \in requests, e \in Epoch, s \in SeqNr :
        r.from \in H /\ e < r.epoch /\ r.cert.seqNr < s =>
            NoVoteLeft(r.from, e, s) \/ Blocked(H, e, s)

\* What lies above the certificate of an EpochStart was not and will not be
\* committed in an earlier epoch.
EpochStartsBlock(H) ==
    \A m \in epochStarts, e \in Epoch, s \in SeqNr :
        e < m.epoch /\ m.cert.seqNr < s => Blocked(H, e, s)

Handshake(H) ==
    /\ VotesInOrder(H)
    /\ FollowsEpochStart(H)
    /\ LeaderStartsOnce(H)
    /\ CertCoversVotes(H)
    /\ RequestsCoverVotes(H)
    /\ EpochStartsBlock(H)
-----------------------------------------------------------------------------
LEMMA StepMonotone ==
    ASSUME TypeInv, [Next]_vars
    PROVE  /\ \A o \in Honest : epoch[o] <= epoch'[o]
           /\ commits \subseteq commits'
           /\ \A m \in commits' \ commits : m.epoch = epoch[m.from]
           /\ epochStarts \subseteq epochStarts'
<1> DEFINE Monotone ==
        /\ \A o \in Honest : epoch[o] <= epoch'[o]
        /\ commits \subseteq commits'
        /\ \A m \in commits' \ commits : m.epoch = epoch[m.from]
        /\ epochStarts \subseteq epochStarts'
<1>1. \A o \in Honest : epoch[o] \in Nat
  BY ParameterAssumption DEF TypeInv, TypeOK
<1>2. ASSUME NEW o \in Honest, NEW e \in Epoch, EnterEpoch(o, e)
      PROVE  Monotone
  BY <1>1, <1>2, ParameterAssumption
     DEF EnterEpoch, StartEpoch, TypeInv, TypeOK, votes, Epoch
<1>3. ASSUME NEW o \in Honest, Restart(o)
      PROVE  Monotone
  <2>1. epoch' = [epoch EXCEPT ![o] = epoch[o]] /\ UNCHANGED <<votes, epochStarts>>
    BY <1>3 DEF Restart, StartEpoch
  <2>2. QED
    BY <1>1, <2>1 DEF TypeInv, TypeOK, votes
<1>4. ASSUME NEW o \in Honest, SendCommit(o)
      PROVE  Monotone
  BY <1>1, <1>4 DEF SendCommit, sharedVars, epochMsgs
<1>5. ASSUME UNCHANGED <<epoch, commits>>, epochStarts \subseteq epochStarts'
      PROVE  Monotone
  BY <1>1, <1>5
<1>6. ASSUME NEW o \in Honest, NEW c, NEW R, NEW B, SendEpochStart(o, c, R, B)
      PROVE  Monotone
  BY <1>5, <1>6 DEF SendEpochStart, votes
<1>7. ASSUME NEW o \in Honest, NEW m \in epochStarts, ReceiveEpochStart(o, m)
      PROVE  Monotone
  BY <1>5, <1>7 DEF ReceiveEpochStart, epochMsgs
<1>8. ASSUME NEW o \in Honest, TRoundTimeout(o)
      PROVE  Monotone
  BY <1>5, <1>8 DEF TRoundTimeout, epochMsgs, votes
<1>9. ASSUME NEW o \in Honest, SendObservation(o) \/ StartGrace(o)
      PROVE  Monotone
  BY <1>5, <1>9 DEF SendObservation, StartGrace, sharedVars, epochMsgs, votes
<1>10. ASSUME NEW o \in Honest, NEW v, TGraceTimeout(o, v) \/ SendPrepare(o, v)
       PROVE  Monotone
  BY <1>5, <1>10 DEF TGraceTimeout, SendPrepare, sharedVars, epochMsgs, votes
<1>11. ASSUME NEW o \in Honest, ReceiveCommits(o)
       PROVE  Monotone
  BY <1>5, <1>11 DEF ReceiveCommits, epochMsgs, votes
<1>12. ASSUME NEW e, NEW c, NEW R, NEW B, FaultyEpochStart(e, c, R, B)
       PROVE  Monotone
  BY <1>5, <1>12 DEF FaultyEpochStart, sharedVars, votes
<1>13. CASE UNCHANGED vars
  BY <1>5, <1>13 DEF vars, sharedVars, epochMsgs, votes
<1>14. QED
  BY <1>2, <1>3, <1>4, <1>6, <1>7, <1>8, <1>9, <1>10, <1>11, <1>12, <1>13
     DEF Next

\* A vote that an oracle cannot cast any more stays void.
LEMMA NoVoteLeftStable ==
    ASSUME TypeInv, [Next]_vars,
           NEW o \in Honest, NEW e \in Epoch, NEW s \in SeqNr, NoVoteLeft(o, e, s)
    PROVE  NoVoteLeft(o, e, s)'
<1>1. /\ epoch[o] \in Nat /\ epoch'[o] \in Nat /\ e \in Nat
      /\ epoch[o] <= epoch'[o] /\ epoch[o] > e
  <2>1. TypeInv'
    BY NextTyped
  <2>2. epoch[o] \in Nat /\ epoch'[o] \in Nat /\ e \in Nat
    BY <2>1, ParameterAssumption DEF TypeInv, TypeOK, Epoch
  <2>3. QED
    BY <2>2, StepMonotone DEF NoVoteLeft
<1>2. ASSUME NEW m \in commits', m.from = o, m.epoch = e, m.seqNr = s
      PROVE  FALSE
  <2>1. m \notin commits
    BY <1>2 DEF NoVoteLeft
  <2>2. m.epoch = epoch[o]
    BY <1>2, <2>1, StepMonotone
  <2>3. QED
    BY <1>1, <1>2, <2>2
<1>3. QED
  BY <1>1, <1>2 DEF NoVoteLeft

LEMMA BlockedStable ==
    ASSUME NEW H \in SUBSET Honest, TypeInv, [Next]_vars,
           NEW e \in Epoch, NEW s \in SeqNr, Blocked(H, e, s)
    PROVE  Blocked(H, e, s)'
<1>1. PICK Q \in SUBSET Honest :
          /\ Cardinality(Q) + Cardinality(Faulty) >= ByzQuorumSize
          /\ \A o \in Q \cap H : NoVoteLeft(o, e, s)
  BY DEF Blocked
<1>2. \A o \in Q \cap H : NoVoteLeft(o, e, s)'
  BY <1>1, NoVoteLeftStable
<1>3. QED
  BY <1>1, <1>2 DEF Blocked

\* A blocked sequence number has no commit certificate.
LEMMA BlockedNotCommitted ==
    ASSUME NEW H \in SUBSET Honest, Few(H), TypeInv,
           NEW e \in Epoch, NEW s \in SeqNr, NEW v \in Value, Blocked(H, e, s)
    PROVE  ~CommitQuorum(e, s, v)
<1> SUFFICES ASSUME CommitQuorum(e, s, v)
             PROVE  FALSE
  OBVIOUS
<1> DEFINE P == {p.from : p \in {q \in commits :
                   q.epoch = e /\ q.seqNr = s /\ q.outcome = v}}
<1>1. P \in SUBSET Honest
  BY DEF TypeInv, TypeOK
<1>2. HasQuorum(Faulty \cup P)
  BY DEF CommitQuorum, CommitSigners
<1>3. PICK Q \in SUBSET Honest :
          /\ Cardinality(Q) + Cardinality(Faulty) >= ByzQuorumSize
          /\ \A o \in Q \cap H : NoVoteLeft(o, e, s)
  BY DEF Blocked
<1>4. P \cap Q \cap H # {}
  <2>. HIDE DEF P
  <2>. QED
    BY <1>1, <1>2, <1>3, QuorumHonestPart, QuorumIntersectionIn DEF Few
<1>5. PICK m \in commits : m.epoch = e /\ m.seqNr = s /\ m.from \in Q \cap H
  BY <1>4
<1>6. QED
  BY <1>3, <1>5 DEF NoVoteLeft

\* The requests that an EpochStart is made from come from different oracles.
LEMMA RequestSenders ==
    ASSUME NEW R \in SUBSET requests, TypeInv,
           \A r1, r2 \in R : r1.from = r2.from => r1 = r2
    PROVE  /\ {r.from : r \in R} \in SUBSET Honest
           /\ Cardinality({r.from : r \in R}) = Cardinality(R)
<1> DEFINE Q == {r.from : r \in R}
           f == [r \in R |-> r.from]
<1>1. Q \in SUBSET Honest
  BY DEF TypeInv, TypeOK
<1>2. f \in Bijection(R, Q)
  BY DEF Bijection, Injection, Surjection, IsInjective
<1>3. f \in Injection(R, Q)
  BY <1>2 DEF Bijection
<1>4. IsFiniteSet(Q)
  BY <1>1, HonestFinite, FS_Subset
<1>5. IsFiniteSet(R)
  BY <1>3, <1>4, FS_Injection
<1>6. Cardinality(Q) = Cardinality(R)
  BY <1>2, <1>5, FS_Bijection DEF ExistsBijection
<1>7. QED
  BY <1>1, <1>6

\* What an EpochStart that is about to be sent says of the epochs before.
LEMMA ProofBlocks ==
    ASSUME NEW H \in SUBSET Honest, TypeInv, RequestsCoverVotes(H),
           NEW e \in Epoch, NEW c \in Certificate \cup {Genesis},
           NEW R \in SUBSET requests, NEW B \in SUBSET Faulty,
           ProofVerifies(e, c, R, B),
           NEW d \in Epoch, NEW s \in SeqNr, d < e, c.seqNr < s
    PROVE  Blocked(H, d, s)
<1> DEFINE Q == {r.from : r \in R}
<1>1. \A r \in R : r.from \in H => NoVoteLeft(r.from, d, s) \/ Blocked(H, d, s)
  <2> SUFFICES ASSUME NEW r \in R, r.from \in H
               PROVE  NoVoteLeft(r.from, d, s) \/ Blocked(H, d, s)
    OBVIOUS
  <2>1. r.epoch = e /\ ~(c.seqNr < r.cert.seqNr)
    BY DEF ProofVerifies, Less
  <2>2. c.seqNr \in Nat /\ r.cert.seqNr \in Nat /\ s \in Nat
    BY ParameterAssumption DEF TypeInv, TypeOK, Certificate, Genesis, SeqNr
  <2>3. r.cert.seqNr < s
    BY <2>1, <2>2
  <2>4. QED
    BY <2>1, <2>3 DEF RequestsCoverVotes
<1>2. CASE \A r \in R : r.from \in H => NoVoteLeft(r.from, d, s)
  <2>1. Q \in SUBSET Honest /\ Cardinality(Q) = Cardinality(R)
    BY RequestSenders DEF ProofVerifies
  <2>2. Cardinality(R) + Cardinality(B) = ByzQuorumSize
    BY DEF ProofVerifies
  <2>3. Cardinality(B) <= Cardinality(Faulty) /\ IsFiniteSet(B)
    BY HonestFinite, FS_Subset
  <2>4. Cardinality(B) \in Nat /\ Cardinality(Q) \in Nat
    BY <2>1, <2>3, HonestFinite, FS_Subset, FS_CardinalityType
  <2>5. Cardinality(Q) + Cardinality(Faulty) >= ByzQuorumSize
    BY <2>1, <2>2, <2>3, <2>4, HonestFinite, ByzQuorumSizeBounds
  <2>6. \A o \in Q \cap H : NoVoteLeft(o, d, s)
    BY <1>2
  <2>. HIDE DEF Q
  <2>7. QED
    BY <2>1, <2>5, <2>6 DEF Blocked
<1>3. QED
  BY <1>1, <1>2
-----------------------------------------------------------------------------
LEMMA HandshakeInit ==
    ASSUME NEW H \in SUBSET Honest
    PROVE  Init => Handshake(H)
  BY DEF Init, Handshake, VotesInOrder, FollowsEpochStart, LeaderStartsOnce,
         CertCoversVotes, RequestsCoverVotes, EpochStartsBlock

\* The parts of Handshake that a step preserves because it leaves alone what they
\* are about, or lets it grow.
LEMMA VotesCoveredStable ==
    ASSUME NEW H \in SUBSET Honest, TypeInv, [Next]_vars, CertCoversVotes(H),
           UNCHANGED <<commits, cert>>
    PROVE  CertCoversVotes(H)'
<1> SUFFICES ASSUME NEW m \in commits
             PROVE  m.from \in H =>
                        m.seqNr <= cert[m.from].seqNr \/ Blocked(H, m.epoch, m.seqNr)'
  BY DEF CertCoversVotes
<1>1. m.epoch \in Epoch /\ m.seqNr \in SeqNr
  BY DEF TypeInv, TypeOK
<1>2. QED
  BY <1>1, BlockedStable DEF CertCoversVotes

LEMMA RequestsCoveredStable ==
    ASSUME NEW H \in SUBSET Honest, TypeInv, [Next]_vars, RequestsCoverVotes(H),
           requests' \subseteq requests
    PROVE  RequestsCoverVotes(H)'
<1> SUFFICES ASSUME NEW r \in requests, NEW e \in Epoch, NEW s \in SeqNr,
                    r.from \in H, e < r.epoch, r.cert.seqNr < s
             PROVE  NoVoteLeft(r.from, e, s)' \/ Blocked(H, e, s)'
  BY DEF RequestsCoverVotes
<1>1. r.from \in Honest
  BY DEF TypeInv, TypeOK
<1>2. QED
  BY <1>1, NoVoteLeftStable, BlockedStable DEF RequestsCoverVotes

LEMMA EpochStartsBlockStable ==
    ASSUME NEW H \in SUBSET Honest, TypeInv, [Next]_vars, EpochStartsBlock(H),
           UNCHANGED epochStarts
    PROVE  EpochStartsBlock(H)'
<1> SUFFICES ASSUME NEW m \in epochStarts, NEW e \in Epoch, NEW s \in SeqNr,
                    e < m.epoch, m.cert.seqNr < s
             PROVE  Blocked(H, e, s)'
  BY DEF EpochStartsBlock
<1>1. QED
  BY BlockedStable DEF EpochStartsBlock

\* What an oracle voted for above the sequence number it is at is void.
LEMMA HigherVotesVoid ==
    ASSUME NEW H \in SUBSET Honest, TypeInv, Handshake(H),
           NEW o \in Honest, o \in H,
           followerPhase[o] \notin {"unknown", "newEpoch"},
           NEW m \in commits, m.from = o, seqNr[o] < m.seqNr
    PROVE  Blocked(H, m.epoch, m.seqNr)
<1>1. /\ m.epoch \in Epoch /\ m.seqNr \in SeqNr
      /\ m.epoch \in Nat /\ m.seqNr \in Nat
      /\ epoch[o] \in Nat /\ seqNr[o] \in Nat
  BY ParameterAssumption DEF TypeInv, TypeOK, Epoch, SeqNr
<1>2. m.epoch < epoch[o]
  BY <1>1 DEF Handshake, VotesInOrder
<1>3. PICK n \in epochStarts : n.epoch = epoch[o] /\ n.cert.seqNr <= seqNr[o]
  BY DEF Handshake, FollowsEpochStart
<1>4. n.cert.seqNr \in Nat
  BY ParameterAssumption DEF TypeInv, TypeOK, Certificate, Genesis, SeqNr
<1>5. n.cert.seqNr < m.seqNr
  BY <1>1, <1>3, <1>4
<1>6. QED
  BY <1>1, <1>2, <1>3, <1>5 DEF Handshake, EpochStartsBlock

\* commit, when its write does not fail.
LEMMA CommitEffect ==
    ASSUME TypeInv, NEW o \in Honest, UNCHANGED failures,
           NEW c \in Certificate \cup {Genesis}, Commit(o, c)
    PROVE  /\ \A p \in Honest \ {o} : cert'[p] = cert[p]
           /\ cert'[o] \in {cert[o], c}
           /\ c.seqNr <= committedSeqNr'[o]
           /\ committedSeqNr'[o] \in Nat
           /\ c.seqNr \in Nat
<1>1. ~CertWriteFails(o, c)
  BY ParameterAssumption DEF CertWriteFails, TypeInv, TypeOK
<1>2. c.seqNr \in Nat /\ committedSeqNr[o] \in Nat
  BY ParameterAssumption DEF TypeInv, TypeOK, Certificate, Genesis, SeqNr
<1>3. QED
  BY <1>1, <1>2 DEF Commit, TypeInv, TypeOK

\* Steps within a round that send neither a vote to commit nor a certificate.
LEMMA QuietStep ==
    ASSUME NEW H \in SUBSET Honest, TypeInv, [Next]_vars, Handshake(H),
           UNCHANGED <<epoch, seqNr, cert, requests, epochStarts, commits>>,
           \A o \in Honest :
               \/ followerPhase'[o] = followerPhase[o]
               \/ /\ followerPhase[o] \notin {"unknown", "newEpoch"}
                  /\ followerPhase'[o] \notin {"unknown", "newEpoch"},
           \A o \in Honest :
               leaderPhase'[o] = "newEpoch" => leaderPhase[o] = "newEpoch"
    PROVE  Handshake(H)'
<1>1. VotesInOrder(H)'
  <2>1. \A m \in commits : m.from \in Honest
    BY DEF TypeInv, TypeOK
  <2>2. QED
    BY <2>1 DEF Handshake, VotesInOrder
<1>2. FollowsEpochStart(H)'
  BY DEF Handshake, FollowsEpochStart
<1>3. LeaderStartsOnce(H)'
  BY DEF Handshake, LeaderStartsOnce
<1>4. QED
  BY <1>1, <1>2, <1>3, VotesCoveredStable, RequestsCoveredStable,
     EpochStartsBlockStable DEF Handshake

LEMMA RoundSteps ==
    ASSUME NEW H \in SUBSET Honest, TypeInv, Next, Handshake(H), NEW o \in Honest,
           \/ TRoundTimeout(o) \/ SendObservation(o) \/ StartGrace(o)
           \/ \E v \in Value : TGraceTimeout(o, v) \/ SendPrepare(o, v)
    PROVE  Handshake(H)'
<1>1. UNCHANGED <<epoch, seqNr, cert, requests, epochStarts, commits>>
  BY DEF TRoundTimeout, SendObservation, StartGrace, TGraceTimeout, SendPrepare,
         sharedVars, followerVars, epochMsgs, votes
<1>2. ASSUME NEW p \in Honest
      PROVE  \/ followerPhase'[p] = followerPhase[p]
             \/ /\ followerPhase[p] \notin {"unknown", "newEpoch"}
                /\ followerPhase'[p] \notin {"unknown", "newEpoch"}
  BY DEF TRoundTimeout, SendObservation, StartGrace, TGraceTimeout, SendPrepare,
         followerVars, TypeInv, TypeOK
<1>3. ASSUME NEW p \in Honest, leaderPhase'[p] = "newEpoch"
      PROVE  leaderPhase[p] = "newEpoch"
  BY <1>3 DEF TRoundTimeout, StartLeaderRound, SendObservation, StartGrace,
              TGraceTimeout, SendPrepare, leaderVars, TypeInv, TypeOK
<1>4. QED
  BY <1>1, <1>2, <1>3, QuietStep

LEMMA EnterEpochHandshake ==
    ASSUME NEW H \in SUBSET Honest, TypeInv, Next, Handshake(H),
           NEW o \in Honest, NEW e \in Epoch, EnterEpoch(o, e)
    PROVE  Handshake(H)'
<1>1. /\ epoch' = [epoch EXCEPT ![o] = e]
      /\ followerPhase' = [followerPhase EXCEPT ![o] = "newEpoch"]
      /\ seqNr' = [seqNr EXCEPT ![o] = 0]
      /\ leaderPhase' = [leaderPhase EXCEPT ![o] = "newEpoch"]
      /\ requests' = requests \cup {[epoch |-> e, from |-> o, cert |-> cert[o]]}
      /\ UNCHANGED <<cert, epochStarts, commits>>
  BY DEF EnterEpoch, StartEpoch, votes
<1>2. e \in Nat /\ epoch[o] \in Nat /\ epoch[o] < e
  BY ParameterAssumption DEF EnterEpoch, TypeInv, TypeOK, Epoch
<1>3. VotesInOrder(H)'
  <2> SUFFICES ASSUME NEW m \in commits, m.from \in H
               PROVE  /\ m.epoch <= epoch'[m.from]
                      /\ m.epoch = epoch'[m.from] =>
                            /\ followerPhase'[m.from] \notin {"unknown", "newEpoch"}
                            /\ m.seqNr <= seqNr'[m.from]
    BY <1>1 DEF VotesInOrder
  <2>1. m.from \in Honest /\ m.epoch \in Nat
    BY ParameterAssumption DEF TypeInv, TypeOK, Epoch
  <2>2. m.epoch <= epoch[m.from]
    BY DEF Handshake, VotesInOrder
  <2>3. CASE m.from = o
    BY <1>1, <1>2, <2>1, <2>2, <2>3 DEF TypeInv, TypeOK
  <2>4. CASE m.from # o
    BY <1>1, <2>1, <2>4 DEF Handshake, VotesInOrder, TypeInv, TypeOK
  <2>5. QED
    BY <2>3, <2>4
<1>4. FollowsEpochStart(H)'
  BY <1>1 DEF Handshake, FollowsEpochStart, TypeInv, TypeOK
<1>5. LeaderStartsOnce(H)'
  <2> SUFFICES ASSUME NEW m \in epochStarts, Leader[m.epoch] \in H
               PROVE  /\ m.epoch <= epoch'[Leader[m.epoch]]
                      /\ m.epoch = epoch'[Leader[m.epoch]] =>
                            leaderPhase'[Leader[m.epoch]] # "newEpoch"
    BY <1>1 DEF LeaderStartsOnce
  <2>1. m.epoch \in Nat
    BY ParameterAssumption DEF TypeInv, TypeOK, Epoch
  <2>2. m.epoch <= epoch[Leader[m.epoch]]
    BY DEF Handshake, LeaderStartsOnce
  <2>3. CASE Leader[m.epoch] = o
    BY <1>1, <1>2, <2>1, <2>2, <2>3 DEF TypeInv, TypeOK
  <2>4. CASE Leader[m.epoch] # o
    BY <1>1, <2>4 DEF Handshake, LeaderStartsOnce, TypeInv, TypeOK
  <2>5. QED
    BY <2>3, <2>4
<1>6. CertCoversVotes(H)'
  BY <1>1, VotesCoveredStable DEF Handshake
<1>7. RequestsCoverVotes(H)'
  <2> SUFFICES ASSUME NEW r \in requests', NEW d \in Epoch, NEW s \in SeqNr,
                      r.from \in H, d < r.epoch, r.cert.seqNr < s
               PROVE  NoVoteLeft(r.from, d, s)' \/ Blocked(H, d, s)'
    BY DEF RequestsCoverVotes
  <2>1. CASE r \in requests
    <3>1. r.from \in Honest
      BY <2>1 DEF TypeInv, TypeOK
    <3>2. NoVoteLeft(r.from, d, s) \/ Blocked(H, d, s)
      BY <2>1 DEF Handshake, RequestsCoverVotes
    <3>3. QED
      BY <3>1, <3>2, NoVoteLeftStable, BlockedStable
  <2>2. CASE r = [epoch |-> e, from |-> o, cert |-> cert[o]]
    <3>1. CASE \E m \in commits : m.from = o /\ m.epoch = d /\ m.seqNr = s
      <4>1. cert[o].seqNr \in Nat /\ s \in Nat
        BY ParameterAssumption
           DEF TypeInv, TypeOK, Certificate, Genesis, SeqNr
      <4>2. Blocked(H, d, s)
        BY <2>2, <3>1, <4>1 DEF Handshake, CertCoversVotes
      <4>3. QED
        BY <4>2, BlockedStable
    <3>2. CASE ~\E m \in commits : m.from = o /\ m.epoch = d /\ m.seqNr = s
      <4>1. epoch'[o] > d
        BY <1>1, <1>2, <2>2, ParameterAssumption DEF Epoch, TypeInv, TypeOK
      <4>2. QED
        BY <1>1, <2>2, <3>2, <4>1 DEF NoVoteLeft
    <3>3. QED
      BY <3>1, <3>2
  <2>3. QED
    BY <1>1, <2>1, <2>2
<1>8. EpochStartsBlock(H)'
  BY <1>1, EpochStartsBlockStable DEF Handshake
<1>9. QED
  BY <1>3, <1>4, <1>5, <1>6, <1>7, <1>8 DEF Handshake

\* The handshake remembers as much of fewer oracles, ...
LEMMA BlockedOfFewer ==
    ASSUME NEW H \in SUBSET Honest, NEW G \in SUBSET H, NEW e, NEW s,
           Blocked(H, e, s)
    PROVE  Blocked(G, e, s)
<1>1. PICK Q \in SUBSET Honest :
          /\ Cardinality(Q) + Cardinality(Faulty) >= ByzQuorumSize
          /\ \A o \in Q \cap H : NoVoteLeft(o, e, s)
  BY DEF Blocked
<1>2. \A o \in Q \cap G : NoVoteLeft(o, e, s)
  BY <1>1
<1>3. QED
  BY <1>1, <1>2 DEF Blocked

LEMMA HandshakeOfFewer ==
    ASSUME NEW H \in SUBSET Honest, NEW G \in SUBSET H, Handshake(H)
    PROVE  Handshake(G)
<1>1. \A e, s : Blocked(H, e, s) => Blocked(G, e, s)
  BY BlockedOfFewer
<1>2. VotesInOrder(G) /\ FollowsEpochStart(G) /\ LeaderStartsOnce(G)
  BY DEF Handshake, VotesInOrder, FollowsEpochStart, LeaderStartsOnce
<1>3. CertCoversVotes(G)
  BY <1>1 DEF Handshake, CertCoversVotes
<1>4. RequestsCoverVotes(G)
  BY <1>1 DEF Handshake, RequestsCoverVotes
<1>5. EpochStartsBlock(G)
  BY <1>1 DEF Handshake, EpochStartsBlock
<1>6. QED
  BY <1>2, <1>3, <1>4, <1>5 DEF Handshake

\* ... and what others do leaves that alone: their votes and requests are their own,
\* and the EpochStarts they send need the proof that everybody verifies.
LEMMA OutsideStep ==
    ASSUME NEW H \in SUBSET Honest, TypeInv, Next, Handshake(H),
           \A p \in H : UNCHANGED <<epoch[p], seqNr[p], followerPhase[p], cert[p],
                                    leaderPhase[p]>>,
           \A m \in commits' \ commits : m.from \notin H,
           \A r \in requests' \ requests : r.from \notin H,
           \A m \in epochStarts' \ epochStarts :
               /\ Leader[m.epoch] \notin H
               /\ \A e \in Epoch, s \in SeqNr :
                      e < m.epoch /\ m.cert.seqNr < s => Blocked(H, e, s)
    PROVE  Handshake(H)'
<1>1. commits \subseteq commits' /\ epochStarts \subseteq epochStarts'
  BY StepMonotone
<1>2. VotesInOrder(H)'
  BY <1>1 DEF Handshake, VotesInOrder
<1>3. FollowsEpochStart(H)'
  BY <1>1 DEF Handshake, FollowsEpochStart
<1>4. LeaderStartsOnce(H)'
  BY <1>1 DEF Handshake, LeaderStartsOnce
<1>5. CertCoversVotes(H)'
  <2> SUFFICES ASSUME NEW m \in commits', m.from \in H
               PROVE  m.seqNr <= cert'[m.from].seqNr \/ Blocked(H, m.epoch, m.seqNr)'
    BY DEF CertCoversVotes
  <2>1. m \in commits /\ m.epoch \in Epoch /\ m.seqNr \in SeqNr
    BY DEF TypeInv, TypeOK
  <2>2. m.seqNr <= cert[m.from].seqNr \/ Blocked(H, m.epoch, m.seqNr)
    BY <2>1 DEF Handshake, CertCoversVotes
  <2>3. QED
    BY <2>1, <2>2, BlockedStable
<1>6. RequestsCoverVotes(H)'
  <2> SUFFICES ASSUME NEW r \in requests', NEW e \in Epoch, NEW s \in SeqNr,
                      r.from \in H, e < r.epoch, r.cert.seqNr < s
               PROVE  NoVoteLeft(r.from, e, s)' \/ Blocked(H, e, s)'
    BY DEF RequestsCoverVotes
  <2>1. NoVoteLeft(r.from, e, s) \/ Blocked(H, e, s)
    BY DEF Handshake, RequestsCoverVotes
  <2>2. QED
    BY <2>1, NoVoteLeftStable, BlockedStable
<1>7. EpochStartsBlock(H)'
  <2> SUFFICES ASSUME NEW m \in epochStarts', NEW e \in Epoch, NEW s \in SeqNr,
                      e < m.epoch, m.cert.seqNr < s
               PROVE  Blocked(H, e, s)'
    BY DEF EpochStartsBlock
  <2>1. Blocked(H, e, s)
    BY DEF Handshake, EpochStartsBlock
  <2>2. QED
    BY <2>1, BlockedStable
<1>8. QED
  BY <1>2, <1>3, <1>4, <1>5, <1>6, <1>7 DEF Handshake

LEMMA FaultyStepHandshake ==
    ASSUME NEW H \in SUBSET Honest, TypeInv, Next, Handshake(H), FaultyStep
    PROVE  Handshake(H)'
<1>1. PICK e \in {d \in Epoch : Leader[d] \in Faulty},
           c \in {d \in Certificate \cup {Genesis} : Verifies(d)} :
          \E R \in SUBSET RequestsOf(e), B \in SUBSET Faulty :
              FaultyEpochStart(e, c, R, B)
  BY DEF FaultyStep
<1>2. PICK R \in SUBSET RequestsOf(e), B \in SUBSET Faulty :
          FaultyEpochStart(e, c, R, B)
  BY <1>1
<1>3. /\ epochStarts' = epochStarts \cup {[epoch |-> e, cert |-> c]}
      /\ UNCHANGED <<epoch, seqNr, followerPhase, leaderPhase, cert, requests,
                     commits>>
      /\ ProofVerifies(e, c, R, B)
  BY <1>2 DEF FaultyEpochStart, sharedVars, followerVars, leaderVars, votes
<1>4. R \in SUBSET requests
  BY DEF RequestsOf
<1>5. ASSUME NEW d \in Epoch, NEW s \in SeqNr, d < e, c.seqNr < s
      PROVE  Blocked(H, d, s)
  BY <1>3, <1>4, <1>5, ProofBlocks DEF Handshake
<1>6. Leader[e] \notin H
  BY DEF Honest
<1>7. QED
  BY <1>3, <1>5, <1>6, OutsideStep

\* What a step of o leaves alone of the others.
LEMMA StepsOfOthers ==
    ASSUME NEW o \in Honest, TypeInv, StepOf(o)
    PROVE  /\ \A p \in Honest \ {o} :
                 UNCHANGED <<epoch[p], seqNr[p], followerPhase[p], cert[p],
                             leaderPhase[p]>>
           /\ \A m \in commits' \ commits : m.from = o
           /\ \A r \in requests' \ requests : r.from = o
<1> DEFINE Others ==
        \A p \in Honest \ {o} :
            UNCHANGED <<epoch[p], seqNr[p], followerPhase[p], cert[p],
                        leaderPhase[p]>>
           Own ==
        /\ \A m \in commits' \ commits : m.from = o
        /\ \A r \in requests' \ requests : r.from = o
<1>1. ASSUME NEW e \in Epoch, EnterEpoch(o, e)
      PROVE  Others /\ Own
  <2>1. Others
    BY <1>1 DEF EnterEpoch, StartEpoch, TypeInv, TypeOK
  <2>2. Own
    BY <1>1 DEF EnterEpoch, StartEpoch, votes
  <2>3. QED
    BY <2>1, <2>2
<1>2. CASE Restart(o)
  <2>1. Others
    BY <1>2 DEF Restart, StartEpoch, TypeInv, TypeOK
  <2>2. Own
    BY <1>2 DEF Restart, StartEpoch, votes
  <2>3. QED
    BY <2>1, <2>2
<1>3. ASSUME NEW R, NEW B, NEW c, SendEpochStart(o, c, R, B)
      PROVE  Others /\ Own
  <2>1. Others
    BY <1>3 DEF SendEpochStart, Commit, StartLeaderRound, TypeInv, TypeOK
  <2>2. Own
    BY <1>3 DEF SendEpochStart, votes
  <2>3. QED
    BY <2>1, <2>2
<1>4. ASSUME NEW m, ReceiveEpochStart(o, m)
      PROVE  Others /\ Own
  <2>1. Others
    BY <1>4 DEF ReceiveEpochStart, Commit, StartFollowerRound, leaderVars,
                TypeInv, TypeOK
  <2>2. Own
    BY <1>4 DEF ReceiveEpochStart, epochMsgs
  <2>3. QED
    BY <2>1, <2>2
<1>5. CASE TRoundTimeout(o)
  BY <1>5 DEF TRoundTimeout, StartLeaderRound, followerVars, epochMsgs, votes,
              TypeInv, TypeOK
<1>6. CASE \/ SendObservation(o) \/ StartGrace(o)
           \/ \E v \in Value : TGraceTimeout(o, v) \/ SendPrepare(o, v)
  BY <1>6 DEF SendObservation, StartGrace, TGraceTimeout, SendPrepare, sharedVars,
              followerVars, leaderVars, epochMsgs, votes, TypeInv, TypeOK
<1>7. CASE SendCommit(o)
  BY <1>7 DEF SendCommit, sharedVars, leaderVars, epochMsgs, TypeInv, TypeOK
<1>8. CASE ReceiveCommits(o)
  BY <1>8 DEF ReceiveCommits, Commit, StartFollowerRound, StartLeaderRound,
              leaderVars, epochMsgs, votes, TypeInv, TypeOK
<1>9. QED
  BY <1>1, <1>2, <1>3, <1>4, <1>5, <1>6, <1>7, <1>8 DEF StepOf

LEMMA StepOutsideHandshake ==
    ASSUME NEW H \in SUBSET Honest, TypeInv, Next, Handshake(H),
           NEW o \in Honest, o \notin H, StepOf(o)
    PROVE  Handshake(H)'
<1>1. ASSUME NEW m \in epochStarts' \ epochStarts
      PROVE  /\ Leader[m.epoch] \notin H
             /\ \A e \in Epoch, s \in SeqNr :
                    e < m.epoch /\ m.cert.seqNr < s => Blocked(H, e, s)
  <2>1. PICK R \in SUBSET RequestsOf(epoch[o]), B \in SUBSET Faulty :
            \E c \in Offered(R, B) : SendEpochStart(o, c, R, B)
    BY <1>1 DEF StepOf, EnterEpoch, Restart, StartEpoch, ReceiveEpochStart,
         TRoundTimeout, SendObservation, StartGrace, TGraceTimeout, SendPrepare,
         SendCommit, ReceiveCommits, epochMsgs
  <2>2. PICK c \in Offered(R, B) : SendEpochStart(o, c, R, B)
    BY <2>1
  <2>3. /\ epoch[o] \in Epoch
        /\ R \in SUBSET requests
        /\ c \in Certificate \cup {Genesis}
    BY <2>2 DEF SendEpochStart, Offered, RequestsOf, TypeInv, TypeOK, PhasesOK
  <2>4. /\ m = [epoch |-> epoch[o], cert |-> c]
        /\ Leader[epoch[o]] = o
        /\ ProofVerifies(epoch[o], c, R, B)
    BY <1>1, <2>2 DEF SendEpochStart
  <2>5. QED
    BY <2>3, <2>4, ProofBlocks DEF Handshake
<1>2. QED
  BY <1>1, StepsOfOthers, OutsideStep

LEMMA SendEpochStartHandshake ==
    ASSUME NEW H \in SUBSET Honest, TypeInv, Next, UNCHANGED failures,
           Handshake(H), NEW o \in Honest, o \in H,
           NEW R \in SUBSET RequestsOf(epoch[o]), NEW B \in SUBSET Faulty,
           NEW c \in Offered(R, B), SendEpochStart(o, c, R, B)
    PROVE  Handshake(H)'
<1> DEFINE m0 == [epoch |-> epoch[o], cert |-> c]
<1>1. /\ epoch[o] \in Epoch
      /\ R \in SUBSET requests
      /\ c \in Certificate \cup {Genesis}
  BY DEF SendEpochStart, Offered, RequestsOf, TypeInv, TypeOK, PhasesOK
<1>2. /\ epochStarts' = epochStarts \cup {m0}
      /\ requests' \subseteq requests
      /\ UNCHANGED <<epoch, seqNr, followerPhase, commits>>
      /\ Leader[epoch[o]] = o /\ leaderPhase[o] = "newEpoch"
      /\ ProofVerifies(epoch[o], c, R, B)
  BY DEF SendEpochStart, votes
<1>3. /\ \A p \in Honest \ {o} : leaderPhase'[p] = leaderPhase[p]
      /\ leaderPhase'[o] # "newEpoch"
  BY DEF SendEpochStart, StartLeaderRound, TypeInv, TypeOK
<1>4. /\ \A p \in Honest \ {o} : cert'[p] = cert[p]
      /\ cert'[o] \in {cert[o], c}
  <2>1. CASE Commit(o, c)
    BY <1>1, <2>1, CommitEffect
  <2>2. CASE UNCHANGED cert
    BY <2>2
  <2>3. QED
    BY <2>1, <2>2 DEF SendEpochStart
<1>5. VotesInOrder(H)' /\ FollowsEpochStart(H)'
  BY <1>2 DEF Handshake, VotesInOrder, FollowsEpochStart
<1>6. LeaderStartsOnce(H)'
  <2> SUFFICES ASSUME NEW m \in epochStarts', Leader[m.epoch] \in H
               PROVE  /\ m.epoch <= epoch[Leader[m.epoch]]
                      /\ m.epoch = epoch[Leader[m.epoch]] =>
                            leaderPhase'[Leader[m.epoch]] # "newEpoch"
    BY <1>2 DEF LeaderStartsOnce
  <2>1. CASE m \in epochStarts
    BY <1>3, <2>1 DEF Handshake, LeaderStartsOnce
  <2>2. CASE m = m0
    BY <1>1, <1>2, <1>3, <2>2, ParameterAssumption DEF Epoch
  <2>3. QED
    BY <1>2, <2>1, <2>2
<1>7. ASSUME NEW d \in Epoch, NEW s \in SeqNr, d < epoch[o], c.seqNr < s
      PROVE  Blocked(H, d, s)
  BY <1>1, <1>2, <1>7, ProofBlocks DEF Handshake
<1>8. CertCoversVotes(H)'
  <2> SUFFICES ASSUME NEW m \in commits, m.from \in H
               PROVE  \/ m.seqNr <= cert'[m.from].seqNr
                      \/ Blocked(H, m.epoch, m.seqNr)'
    BY <1>2 DEF CertCoversVotes
  <2>1. /\ m.from \in Honest /\ m.epoch \in Epoch /\ m.seqNr \in SeqNr
        /\ m.seqNr \in Nat /\ m.epoch \in Nat /\ epoch[o] \in Nat
    BY <1>1, ParameterAssumption DEF TypeInv, TypeOK, Epoch, SeqNr
  <2>2. CASE cert'[m.from] = cert[m.from]
    BY <2>1, <2>2, BlockedStable DEF Handshake, CertCoversVotes
  <2>3. CASE m.from = o /\ cert'[o] = c /\ ~(m.seqNr <= c.seqNr)
    <3>1. c.seqNr < m.seqNr
      <4>1. c.seqNr \in Nat
        BY <1>1, ParameterAssumption DEF Certificate, Genesis, SeqNr
      <4>2. QED
        BY <2>1, <2>3, <4>1
    <3>2. m.epoch # epoch[o]
      <4> SUFFICES ASSUME m.epoch = epoch[o]
                   PROVE  FALSE
        OBVIOUS
      <4>1. followerPhase[o] \notin {"unknown", "newEpoch"}
        BY <2>3 DEF Handshake, VotesInOrder
      <4>2. PICK n \in epochStarts : n.epoch = epoch[o]
        BY <4>1 DEF Handshake, FollowsEpochStart
      <4>3. QED
        BY <1>2, <4>2 DEF Handshake, LeaderStartsOnce
    <3>3. m.epoch < epoch[o]
      BY <2>1, <2>3, <3>2 DEF Handshake, VotesInOrder
    <3>4. QED
      BY <1>7, <2>1, <3>1, <3>3, BlockedStable
  <2>4. QED
    BY <1>4, <2>1, <2>2, <2>3
<1>9. RequestsCoverVotes(H)'
  BY <1>2, RequestsCoveredStable DEF Handshake
<1>10. EpochStartsBlock(H)'
  <2> SUFFICES ASSUME NEW m \in epochStarts', NEW d \in Epoch, NEW s \in SeqNr,
                      d < m.epoch, m.cert.seqNr < s
               PROVE  Blocked(H, d, s)'
    BY DEF EpochStartsBlock
  <2>1. CASE m \in epochStarts
    BY <2>1, BlockedStable DEF Handshake, EpochStartsBlock
  <2>2. CASE m = m0
    BY <1>7, <2>2, BlockedStable
  <2>3. QED
    BY <1>2, <2>1, <2>2
<1>11. QED
  BY <1>5, <1>6, <1>8, <1>9, <1>10 DEF Handshake

LEMMA ReceiveEpochStartHandshake ==
    ASSUME NEW H \in SUBSET Honest, TypeInv, Next, UNCHANGED failures,
           Handshake(H), NEW o \in Honest, o \in H,
           NEW m \in epochStarts, ReceiveEpochStart(o, m)
    PROVE  Handshake(H)'
<1>1. /\ m.cert \in Certificate \cup {Genesis}
      /\ m.cert.seqNr \in Nat /\ epoch[o] \in Epoch
  BY ParameterAssumption
     DEF ReceiveEpochStart, TypeInv, TypeOK, Certificate, Genesis, SeqNr
<1>2. /\ m.epoch = epoch[o]
      /\ followerPhase[o] = "newEpoch"
      /\ UNCHANGED <<epoch, leaderPhase, requests, epochStarts, commits>>
  BY DEF ReceiveEpochStart, leaderVars, epochMsgs
<1>3. /\ \A p \in Honest \ {o} : /\ cert'[p] = cert[p]
                                /\ seqNr'[p] = seqNr[p]
                                /\ followerPhase'[p] = followerPhase[p]
      /\ cert'[o] \in {cert[o], m.cert}
      /\ m.cert.seqNr <= seqNr'[o]
      /\ followerPhase'[o] \notin {"unknown", "newEpoch"}
  <2>1. CASE Commit(o, m.cert) /\ StartFollowerRound(o)
    <3>1. /\ \A p \in Honest \ {o} : cert'[p] = cert[p]
          /\ cert'[o] \in {cert[o], m.cert}
          /\ m.cert.seqNr <= committedSeqNr'[o]
          /\ committedSeqNr'[o] \in Nat
      BY <1>1, <2>1, CommitEffect
    <3>2. /\ \A p \in Honest \ {o} : /\ seqNr'[p] = seqNr[p]
                                    /\ followerPhase'[p] = followerPhase[p]
          /\ seqNr'[o] = committedSeqNr'[o] + 1
          /\ followerPhase'[o] = "newRound"
      BY <2>1 DEF StartFollowerRound, TypeInv, TypeOK
    <3>3. QED
      BY <1>1, <3>1, <3>2
  <2>2. CASE /\ seqNr' = [seqNr EXCEPT ![o] = m.cert.seqNr]
             /\ followerPhase' = [followerPhase EXCEPT ![o] = "sentPrepare"]
             /\ UNCHANGED cert
    BY <1>1, <2>2 DEF TypeInv, TypeOK
  <2>3. QED
    BY <2>1, <2>2 DEF ReceiveEpochStart
\* In phase newEpoch o has not voted in its epoch.
<1>4. ASSUME NEW n \in commits, n.from = o
      PROVE  n.epoch < epoch[o]
  <2>1. n.epoch \in Nat /\ epoch[o] \in Nat
    BY ParameterAssumption DEF TypeInv, TypeOK, Epoch
  <2>2. QED
    BY <1>2, <1>4, <2>1 DEF Handshake, VotesInOrder
<1>5. VotesInOrder(H)'
  <2> SUFFICES ASSUME NEW n \in commits, n.from \in H
               PROVE  /\ n.epoch <= epoch[n.from]
                      /\ n.epoch = epoch[n.from] =>
                            /\ followerPhase'[n.from] \notin {"unknown", "newEpoch"}
                            /\ n.seqNr <= seqNr'[n.from]
    BY <1>2 DEF VotesInOrder
  <2>1. n.from \in Honest /\ n.epoch \in Nat /\ epoch[n.from] \in Nat
    BY ParameterAssumption DEF TypeInv, TypeOK, Epoch
  <2>2. CASE n.from = o
    BY <1>4, <2>1, <2>2
  <2>3. CASE n.from # o
    BY <1>3, <2>1, <2>3 DEF Handshake, VotesInOrder
  <2>4. QED
    BY <2>2, <2>3
<1>6. FollowsEpochStart(H)'
  BY <1>2, <1>3 DEF Handshake, FollowsEpochStart
<1>7. LeaderStartsOnce(H)'
  BY <1>2 DEF Handshake, LeaderStartsOnce
<1>8. CertCoversVotes(H)'
  <2> SUFFICES ASSUME NEW n \in commits, n.from \in H
               PROVE  \/ n.seqNr <= cert'[n.from].seqNr
                      \/ Blocked(H, n.epoch, n.seqNr)'
    BY <1>2 DEF CertCoversVotes
  <2>1. /\ n.from \in Honest /\ n.epoch \in Epoch /\ n.seqNr \in SeqNr
        /\ n.seqNr \in Nat
    BY ParameterAssumption DEF TypeInv, TypeOK, SeqNr
  <2>2. CASE cert'[n.from] = cert[n.from]
    BY <2>1, <2>2, BlockedStable DEF Handshake, CertCoversVotes
  <2>3. CASE n.from = o /\ cert'[o] = m.cert /\ ~(n.seqNr <= m.cert.seqNr)
    <3>1. Blocked(H, n.epoch, n.seqNr)
      BY <1>1, <1>2, <1>4, <2>1, <2>3 DEF Handshake, EpochStartsBlock
    <3>2. QED
      BY <2>1, <3>1, BlockedStable
  <2>4. QED
    BY <1>3, <2>1, <2>2, <2>3
<1>9. QED
  BY <1>2, <1>5, <1>6, <1>7, <1>8, RequestsCoveredStable, EpochStartsBlockStable
     DEF Handshake

\* A certificate for the sequence number an oracle is at covers its votes.
LEMMA CertAtSeqNrCovers ==
    ASSUME NEW H \in SUBSET Honest, TypeInv, Next, Handshake(H), NEW o \in Honest,
           followerPhase[o] \notin {"unknown", "newEpoch"},
           \A p \in Honest \ {o} : cert'[p] = cert[p],
           cert'[o] = cert[o] \/ cert'[o].seqNr = seqNr[o],
           NEW m \in commits, m.from \in H
    PROVE  m.seqNr <= cert'[m.from].seqNr \/ Blocked(H, m.epoch, m.seqNr)'
<1>1. /\ m.from \in Honest /\ m.epoch \in Epoch /\ m.seqNr \in SeqNr
      /\ m.seqNr \in Nat /\ seqNr[o] \in Nat
  BY ParameterAssumption DEF TypeInv, TypeOK, SeqNr
<1>2. CASE cert'[m.from] = cert[m.from]
  BY <1>1, <1>2, BlockedStable DEF Handshake, CertCoversVotes
<1>3. CASE m.from = o /\ cert'[o].seqNr = seqNr[o] /\ ~(m.seqNr <= seqNr[o])
  <2>1. Blocked(H, m.epoch, m.seqNr)
    BY <1>1, <1>3, HigherVotesVoid
  <2>2. QED
    BY <1>1, <2>1, BlockedStable
<1>4. QED
  BY <1>1, <1>2, <1>3

LEMMA SendCommitHandshake ==
    ASSUME NEW H \in SUBSET Honest, TypeInv, Next, UNCHANGED failures,
           Handshake(H), NEW o \in Honest, o \in H,
           SendCommit(o)
    PROVE  Handshake(H)'
<1> DEFINE m0 == [epoch |-> epoch[o], seqNr |-> seqNr[o], from |-> o,
                  outcome |-> outcome[o].outcome]
<1>1. ~CertWriteFails(o, CertifiedPrepare(epoch[o], seqNr[o], outcome[o].outcome))
  BY ParameterAssumption DEF CertWriteFails, TypeInv, TypeOK
<1>2. /\ followerPhase[o] = "sentPrepare"
      /\ followerPhase' = [followerPhase EXCEPT ![o] = "sentCommit"]
      /\ commits' = commits \cup {m0}
      /\ cert' = [cert EXCEPT ![o] =
             CertifiedPrepare(epoch[o], seqNr[o], outcome[o].outcome)]
      /\ UNCHANGED <<epoch, seqNr, leaderPhase, requests, epochStarts>>
  BY <1>1 DEF SendCommit, sharedVars, leaderVars, epochMsgs
<1>3. /\ \A p \in Honest \ {o} : cert'[p] = cert[p]
      /\ cert'[o].seqNr = seqNr[o]
      /\ epoch[o] \in Nat /\ seqNr[o] \in Nat
  BY <1>2, ParameterAssumption DEF CertifiedPrepare, TypeInv, TypeOK
<1>4. VotesInOrder(H)'
  <2> SUFFICES ASSUME NEW m \in commits', m.from \in H
               PROVE  /\ m.epoch <= epoch[m.from]
                      /\ m.epoch = epoch[m.from] =>
                            /\ followerPhase'[m.from] \notin {"unknown", "newEpoch"}
                            /\ m.seqNr <= seqNr[m.from]
    BY <1>2 DEF VotesInOrder
  <2>1. CASE m \in commits
    BY <1>2, <2>1 DEF Handshake, VotesInOrder, TypeInv, TypeOK
  <2>2. CASE m = m0
    BY <1>2, <1>3, <2>2 DEF TypeInv, TypeOK
  <2>3. QED
    BY <1>2, <2>1, <2>2
<1>5. FollowsEpochStart(H)' /\ LeaderStartsOnce(H)'
  BY <1>2 DEF Handshake, FollowsEpochStart, LeaderStartsOnce, TypeInv, TypeOK
<1>6. CertCoversVotes(H)'
  <2> SUFFICES ASSUME NEW m \in commits', m.from \in H
               PROVE  \/ m.seqNr <= cert'[m.from].seqNr
                      \/ Blocked(H, m.epoch, m.seqNr)'
    BY DEF CertCoversVotes
  <2>1. CASE m \in commits
    BY <1>2, <1>3, <2>1, CertAtSeqNrCovers
  <2>2. CASE m = m0
    BY <1>3, <2>2
  <2>3. QED
    BY <1>2, <2>1, <2>2
<1>7. QED
  BY <1>2, <1>4, <1>5, <1>6, RequestsCoveredStable, EpochStartsBlockStable
     DEF Handshake

LEMMA ReceiveCommitsHandshake ==
    ASSUME NEW H \in SUBSET Honest, TypeInv, Next, UNCHANGED failures,
           Handshake(H), NEW o \in Honest, o \in H,
           ReceiveCommits(o)
    PROVE  Handshake(H)'
<1> DEFINE c == CertifiedCommit(epoch[o], seqNr[o], outcome[o].outcome)
<1>1. /\ followerPhase[o] = "sentCommit"
      /\ UNCHANGED <<epoch, requests, epochStarts, commits>>
      /\ Commit(o, c)
      /\ c \in Certificate \cup {Genesis}
      /\ c.seqNr = seqNr[o]
      /\ seqNr[o] \in Nat
  BY ParameterAssumption
     DEF ReceiveCommits, epochMsgs, votes, CertifiedCommit, Certificate, TypeInv,
         TypeOK, PhasesOK
<1>. HIDE DEF c
<1>2. /\ \A p \in Honest \ {o} : cert'[p] = cert[p]
      /\ cert'[o] \in {cert[o], c}
      /\ seqNr[o] <= committedSeqNr'[o]
      /\ committedSeqNr'[o] \in Nat
  BY <1>1, CommitEffect
<1>3. /\ \A p \in Honest \ {o} : /\ seqNr'[p] = seqNr[p]
                                /\ followerPhase'[p] = followerPhase[p]
      /\ seqNr[o] <= seqNr'[o]
      /\ seqNr'[o] \in Nat
      /\ followerPhase'[o] \notin {"unknown", "newEpoch"}
  <2>1. CASE UNCHANGED <<seqNr, followerPhase>>
    BY <1>1, <2>1
  <2>2. CASE StartFollowerRound(o)
    BY <1>1, <1>2, <2>2 DEF StartFollowerRound, TypeInv, TypeOK
  <2>3. QED
    BY <2>1, <2>2 DEF ReceiveCommits
<1>4. \A p \in Honest : leaderPhase'[p] = "newEpoch" => leaderPhase[p] = "newEpoch"
  BY DEF ReceiveCommits, StartLeaderRound, leaderVars, TypeInv, TypeOK
<1>5. VotesInOrder(H)'
  <2> SUFFICES ASSUME NEW m \in commits, m.from \in H
               PROVE  /\ m.epoch <= epoch[m.from]
                      /\ m.epoch = epoch[m.from] =>
                            /\ followerPhase'[m.from] \notin {"unknown", "newEpoch"}
                            /\ m.seqNr <= seqNr'[m.from]
    BY <1>1 DEF VotesInOrder
  <2>1. m.from \in Honest /\ m.seqNr \in Nat
    BY ParameterAssumption DEF TypeInv, TypeOK, SeqNr
  <2>2. CASE m.from = o
    BY <1>1, <1>3, <2>1, <2>2 DEF Handshake, VotesInOrder
  <2>3. CASE m.from # o
    BY <1>3, <2>1, <2>3 DEF Handshake, VotesInOrder
  <2>4. QED
    BY <2>2, <2>3
<1>6. FollowsEpochStart(H)'
  <2> SUFFICES ASSUME NEW p \in H,
                      followerPhase'[p] \notin {"unknown", "newEpoch"}
               PROVE  \E m \in epochStarts :
                          m.epoch = epoch[p] /\ m.cert.seqNr <= seqNr'[p]
    BY <1>1 DEF FollowsEpochStart
  <2>1. CASE p = o
    <3>1. PICK m \in epochStarts : m.epoch = epoch[o] /\ m.cert.seqNr <= seqNr[o]
      BY <1>1 DEF Handshake, FollowsEpochStart
    <3>2. m.cert.seqNr \in Nat
      BY ParameterAssumption DEF TypeInv, TypeOK, Certificate, Genesis, SeqNr
    <3>3. QED
      BY <1>1, <1>3, <2>1, <3>1, <3>2
  <2>2. CASE p # o
    BY <1>3, <2>2 DEF Handshake, FollowsEpochStart
  <2>3. QED
    BY <2>1, <2>2
<1>7. LeaderStartsOnce(H)'
  BY <1>1, <1>4 DEF Handshake, LeaderStartsOnce
<1>8. CertCoversVotes(H)'
  <2>1. \A m \in commits : m.from \in H =>
            m.seqNr <= cert'[m.from].seqNr \/ Blocked(H, m.epoch, m.seqNr)'
    BY <1>1, <1>2, CertAtSeqNrCovers
  <2>2. QED
    BY <1>1, <2>1 DEF CertCoversVotes
<1>9. QED
  BY <1>1, <1>5, <1>6, <1>7, <1>8, RequestsCoveredStable, EpochStartsBlockStable
     DEF Handshake

LEMMA StepInsideHandshake ==
    ASSUME NEW H \in SUBSET Honest, TypeInv, Next, Handshake(H),
           NEW o \in Honest, o \in H, StepOf(o), UNCHANGED faultVars
    PROVE  Handshake(H)'
<1>1. UNCHANGED failures
  BY DEF faultVars
<1>2. ASSUME NEW e \in Epoch, EnterEpoch(o, e)
      PROVE  Handshake(H)'
  BY <1>2, EnterEpochHandshake
<1>3. CASE Restart(o)
  BY <1>3, ParameterAssumption DEF Restart, faultVars, TypeInv, TypeOK
<1>4. ASSUME NEW R \in SUBSET RequestsOf(epoch[o]), NEW B \in SUBSET Faulty,
             NEW c \in Offered(R, B), SendEpochStart(o, c, R, B)
      PROVE  Handshake(H)'
  BY <1>1, <1>4, SendEpochStartHandshake
<1>5. ASSUME NEW m \in epochStarts, ReceiveEpochStart(o, m)
      PROVE  Handshake(H)'
  BY <1>1, <1>5, ReceiveEpochStartHandshake
<1>6. CASE \/ TRoundTimeout(o) \/ SendObservation(o) \/ StartGrace(o)
           \/ \E v \in Value : TGraceTimeout(o, v) \/ SendPrepare(o, v)
  BY <1>6, RoundSteps
<1>7. CASE SendCommit(o) \/ ReceiveCommits(o)
  BY <1>1, <1>7, SendCommitHandshake, ReceiveCommitsHandshake
<1>8. QED
  BY <1>2, <1>3, <1>4, <1>5, <1>6, <1>7 DEF StepOf

LEMMA HandshakeNext ==
    ASSUME NEW H \in SUBSET Honest, TypeInv, Handshake(H), SteadyNext(H)
    PROVE  Handshake(H)'
<1>1. CASE UNCHANGED vars
  <2>1. UNCHANGED <<epoch, seqNr, cert, requests, epochStarts, commits,
                    followerPhase, leaderPhase>>
    BY <1>1 DEF vars, sharedVars, followerVars, leaderVars, epochMsgs, votes
  <2>2. QED
    BY <1>1, <2>1, QuietStep
<1>2. CASE FaultyStep
  BY <1>2, NextIsSomeStep, FaultyStepHandshake
<1>3. ASSUME NEW o \in Honest, StepOf(o), o \in H => UNCHANGED faultVars
      PROVE  Handshake(H)'
  BY <1>3, NextIsSomeStep, StepInsideHandshake, StepOutsideHandshake
<1>4. QED
  BY <1>1, <1>2, <1>3 DEF SteadyNext

LEMMA HandshakeImplies ==
    ASSUME NEW H \in SUBSET Honest, Few(H), TypeInv, Handshake(H)
    PROVE  EpochStartsAboveCommits
<1> SUFFICES ASSUME NEW n \in commits, CommitQuorum(n.epoch, n.seqNr, n.outcome),
                    NEW m \in epochStarts, n.epoch < m.epoch
             PROVE  n.seqNr <= m.cert.seqNr
  BY DEF EpochStartsAboveCommits, CommitCertificates, CertifiedCommit
<1>1. /\ n.epoch \in Epoch /\ n.seqNr \in SeqNr /\ n.outcome \in Value
      /\ n.seqNr \in Nat /\ m.cert.seqNr \in Nat
  BY ParameterAssumption DEF TypeInv, TypeOK, Certificate, Genesis, SeqNr
<1>2. ~Blocked(H, n.epoch, n.seqNr)
  BY <1>1, BlockedNotCommitted
<1>3. QED
  BY <1>1, <1>2 DEF Handshake, EpochStartsBlock

\* So far, the faulty oracles and those that were restarted or failed to write a
\* certificate are no more than F.  (Each restart and each failed write is counted,
\* also the second one of an oracle.)
Tolerated == Cardinality(Faulty) + failures + restarts <= F

\* The inductive invariant: all that the handshake remembers, of the oracles that
\* have kept what they signed.
HandshakeOfMost ==
    \E H \in SUBSET Honest :
        Cardinality(Honest \ H) <= failures + restarts /\ Handshake(H)

LEMMA NoneLeftOut == Cardinality(Honest \ Honest) = 0
<1>1. Honest \ Honest = {}
  OBVIOUS
<1>2. QED
  BY <1>1, FS_EmptySet

LEMMA ToleratedFew ==
    ASSUME TypeInv, Tolerated, NEW H \in SUBSET Honest,
           Cardinality(Honest \ H) <= failures + restarts
    PROVE  Few(H)
<1>1. /\ failures \in Nat /\ restarts \in Nat
      /\ Cardinality(Honest \ H) \in Nat
  BY HonestFinite, FS_Subset, FS_CardinalityType, ParameterAssumption
     DEF TypeInv, TypeOK
<1>2. QED
  BY <1>1, HonestFinite DEF Tolerated, Few

LEMMA OneFaultLess ==
    ASSUME NEW n \in Nat, NEW f \in Nat,
           NEW a \in Nat, NEW b \in Nat, NEW c \in Nat, NEW d \in Nat,
           c + d = a + b + 1, n + c + d <= f
    PROVE  n + a + b <= f
  OBVIOUS

LEMMA ToleratedBefore ==
    ASSUME TypeInv, [Next]_vars, Tolerated'
    PROVE  Tolerated
<1>1. UNCHANGED faultVars
      \/ failures' + restarts' = failures + restarts + 1
  <2>1. CASE UNCHANGED vars \/ FaultyStep
    BY <2>1 DEF vars, FaultyStep, FaultyEpochStart
  <2>2. ASSUME NEW o \in Honest, StepOf(o)
        PROVE  UNCHANGED faultVars
               \/ failures' + restarts' = failures + restarts + 1
    <3>1. failures \in Nat /\ restarts \in Nat
      BY ParameterAssumption DEF TypeInv, TypeOK
    <3>2. QED
      BY <2>2, <3>1, StepFaults
  <2>3. QED
    BY <2>1, <2>2, NextIsSomeStep
<1>2. failures \in Nat /\ restarts \in Nat
  BY ParameterAssumption DEF TypeInv, TypeOK
<1>3. /\ failures' \in Nat /\ restarts' \in Nat
      /\ F \in Nat /\ Cardinality(Faulty) \in Nat
  <2>1. TypeInv'
    BY NextTyped
  <2>2. QED
    BY <2>1, HonestFinite, ParameterAssumption DEF TypeInv, TypeOK
<1>4. Cardinality(Faulty) + failures' + restarts' <= F
  BY DEF Tolerated
<1>5. CASE UNCHANGED faultVars
  <2>1. failures' = failures /\ restarts' = restarts
    BY <1>5 DEF faultVars
  <2>2. QED
    BY <1>4, <2>1 DEF Tolerated
<1>6. CASE failures' + restarts' = failures + restarts + 1
  <2>1. Cardinality(Faulty) + failures + restarts <= F
    BY <1>2, <1>3, <1>4, <1>6, OneFaultLess
  <2>2. QED
    BY <2>1 DEF Tolerated
<1>7. QED
  BY <1>1, <1>5, <1>6

LEMMA HandshakeOfMostInit == Init => HandshakeOfMost
<1> SUFFICES ASSUME Init
             PROVE  HandshakeOfMost
  OBVIOUS
<1>1. Cardinality(Honest \ Honest) <= failures + restarts
  BY NoneLeftOut DEF Init
<1>2. Handshake(Honest)
  BY HandshakeInit
<1>3. QED
  BY <1>1, <1>2 DEF HandshakeOfMost

LEMMA HandshakeOfMostNext ==
    ASSUME TypeInv, HandshakeOfMost, [Next]_vars
    PROVE  HandshakeOfMost'
<1>1. PICK H \in SUBSET Honest :
          Cardinality(Honest \ H) <= failures + restarts /\ Handshake(H)
  BY DEF HandshakeOfMost
<1>2. PICK G \in SUBSET H :
          SteadyNext(G) /\ Cardinality(Honest \ G) <= failures' + restarts'
  BY <1>1, SteadyRemain
<1>3. G \in SUBSET Honest
  BY <1>1, <1>2
<1>4. Handshake(G)'
  BY <1>1, <1>2, <1>3, HandshakeOfFewer, HandshakeNext
<1>5. QED
  BY <1>2, <1>3, <1>4 DEF HandshakeOfMost

\* messageEpochStartRequest and EpochStartProof.Verify: the highest of a quorum of
\* certificates is at least as high as any sequence number committed before, as
\* long as no more than F oracles are faulty, are restarted or fail to write a
\* certificate.
THEOREM CommitsRemembered == Spec => [](Tolerated => EpochStartsAboveCommits)
<1>1. Init => TypeInv /\ HandshakeOfMost
  BY InitTyped, HandshakeOfMostInit
<1>2. TypeInv /\ HandshakeOfMost /\ [Next]_vars => (TypeInv /\ HandshakeOfMost)'
  BY NextTyped, HandshakeOfMostNext
<1>3. TypeInv /\ HandshakeOfMost => (Tolerated => EpochStartsAboveCommits)
  <2> SUFFICES ASSUME TypeInv, HandshakeOfMost, Tolerated
               PROVE  EpochStartsAboveCommits
    OBVIOUS
  <2>1. PICK H \in SUBSET Honest :
            Cardinality(Honest \ H) <= failures + restarts /\ Handshake(H)
    BY DEF HandshakeOfMost
  <2>2. QED
    BY <2>1, ToleratedFew, HandshakeImplies
<1>4. QED
  BY <1>1, <1>2, <1>3, PTL DEF Spec
==============================================================================

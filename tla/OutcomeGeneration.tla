-------------------------- MODULE OutcomeGeneration --------------------------
(***************************************************************************)
(* The OCR3 outcome generation protocol: the epochs the pacemaker starts,  *)
(* the EpochStart handshake in which a leader collects the highest         *)
(* certificates, the rounds the leader drives, and the prepare and commit  *)
(* votes by which the oracles agree on one outcome per sequence number.    *)
(*                                                                         *)
(* The network is asynchronous: each kind of message has a set that only   *)
(* grows, so a message may be delayed for ever (lost), reordered, or seen  *)
(* late.  An oracle's message pools are the part of those sets it happens  *)
(* to have received; a handler that finds a quorum in its pool is an       *)
(* action enabled when the quorum has been sent.  The one pool whose       *)
(* contents matter beyond that is the proposal pool, which keeps the first *)
(* proposal of the leader for a sequence number and drops the others.      *)
(*                                                                         *)
(* A faulty oracle has, at any time, sent every signature the protocol     *)
(* could ask it for; it cannot produce another oracle's signature.         *)
(***************************************************************************)
EXTENDS ByzQuorum

CONSTANTS
    Value,          \* what distinguishes the outcomes of a sequence number
    NoOutcome,      \* the nil outcome
    Reproposal,     \* the empty OutcomeInputsDigest of a re-proposal
    Leader,         \* Leader[e]: the oracle that leads epoch e
    RMax,           \* SharedConfig.RMax: rounds after which an epoch ends
    ObservationQuorum,  \* what the plugin's ObservationQuorum returns
    MaxEpoch,       \* bound: the last epoch the pacemakers start
    MaxSeqNr,       \* bound: the last sequence number a round is run for
    MaxFailures,    \* bound: how many writes of a certificate fail
    MaxRestarts     \* bound: how many times an oracle process is restarted

Epoch == 1..MaxEpoch
SeqNr == 1..MaxSeqNr

ASSUME ParameterAssumption ==
    /\ MaxEpoch \in Nat
    /\ MaxSeqNr \in Nat
    /\ MaxFailures \in Nat
    /\ MaxRestarts \in Nat
    /\ RMax \in Nat \ {0}
    /\ Leader \in [Epoch -> Oracle]
    /\ ObservationQuorum \in 1..(Cardinality(Oracle) - F)
    /\ NoOutcome \notin Value
    /\ Reproposal \notin Value \cup {NoOutcome}

VARIABLES
    \* sharedState
    epoch, firstSeqNrOfEpoch, seqNr, committedSeqNr, committedOutcome,
    \* followerState
    followerPhase, proposalPool, outcome, cert,
    \* the EpochStarts of its epoch that the oracle will not receive any more
    handled,
    \* leaderState
    leaderPhase, readyToStartRound, tRound,
    observations,   \* the sequence number the collected ones are signed for
    \* the certificate in the database
    storedCert,
    \* the messages sent so far, one set per message type
    requests, epochStarts, roundStarts, observed, proposals, prepares, commits,
    \* the bounded environment: failed writes and restarts so far
    failures, restarts

sharedVars == <<epoch, firstSeqNrOfEpoch, seqNr, committedSeqNr,
                committedOutcome>>
followerVars == <<followerPhase, proposalPool, outcome, cert, handled>>
leaderVars == <<leaderPhase, readyToStartRound, tRound, observations>>
epochMsgs == <<requests, epochStarts>>
roundMsgs == <<roundStarts, observed, proposals>>
votes == <<prepares, commits>>
faultVars == <<failures, restarts>>
vars == <<sharedVars, followerVars, leaderVars, storedCert, epochMsgs,
          roundMsgs, votes, faultVars>>
-----------------------------------------------------------------------------
(***************************************************************************)
(* Certificates.                                                           *)
(***************************************************************************)
\* A CertifiedPrepare (committed = FALSE) or a CertifiedCommit; the signatures
\* it carries are the votes in prepares and commits.
Certificate ==
    [committed : BOOLEAN, epoch : Epoch, seqNr : SeqNr, outcome : Value]

CertifiedPrepare(e, s, v) ==
    [committed |-> FALSE, epoch |-> e, seqNr |-> s, outcome |-> v]

CertifiedCommit(e, s, v) ==
    [committed |-> TRUE, epoch |-> e, seqNr |-> s, outcome |-> v]

\* The empty CertifiedCommit{}.
Genesis ==
    [committed |-> TRUE, epoch |-> 0, seqNr |-> 0, outcome |-> NoOutcome]

\* HighestCertifiedTimestamp.Less on the timestamps of two certificates: the
\* sequence number first, then prepared before committed.  The epoch of the
\* certificates plays no part.
Less(c, d) ==
    \/ c.seqNr < d.seqNr
    \/ c.seqNr = d.seqNr /\ ~c.committed /\ d.committed

SameTimestamp(c, d) == c.seqNr = d.seqNr /\ c.committed = d.committed

\* What a prepare signature covers besides the outcome: a digest of the inputs
\* the outcome was computed from, empty for a re-proposal.  The outcome names
\* the observations, so the previous outcome is what is left of the inputs.
Inputs == Value \cup {NoOutcome, Reproposal}

PrepareSigners(e, s, in, v) ==
    Faulty \cup {p.from : p \in {q \in prepares :
        q.epoch = e /\ q.seqNr = s /\ q.inputs = in /\ q.outcome = v}}

CommitSigners(e, s, v) ==
    Faulty \cup {p.from : p \in {q \in commits :
        q.epoch = e /\ q.seqNr = s /\ q.outcome = v}}

PrepareQuorum(e, s, in, v) == HasQuorum(PrepareSigners(e, s, in, v))
CommitQuorum(e, s, v) == HasQuorum(CommitSigners(e, s, v))

\* CertifiedPrepare.Verify and CertifiedCommit.Verify.
Verifies(c) ==
    \/ c = Genesis
    \/ /\ c \in Certificate
       /\ IF c.committed
          THEN CommitQuorum(c.epoch, c.seqNr, c.outcome)
          ELSE \E in \in Inputs : PrepareQuorum(c.epoch, c.seqNr, in, c.outcome)

\* Mutant of ProofVerifies: the maximum of the timestamps is not checked.
ProofOfAnyTimestamp(e, c, R, B) ==
    /\ \A r \in R : r.epoch = e
    /\ B \subseteq Faulty
    /\ Cardinality(R) + Cardinality(B) = ByzQuorumSize
    /\ Verifies(c)

\* EpochStartProof.Verify: a quorum of signed timestamps of epoch e, those of the
\* requests R and of the faulty oracles B, the largest of which is that of c.  A
\* faulty oracle signs the timestamp it is asked for.
ProofVerifies(e, c, R, B) ==
    /\ \A r \in R : r.epoch = e /\ ~Less(c, r.cert)
    /\ \A r1, r2 \in R : r1.from = r2.from => r1 = r2
    /\ B \subseteq Faulty
    /\ Cardinality(R) + Cardinality(B) = ByzQuorumSize
    /\ B = {} => \E r \in R : SameTimestamp(c, r.cert)
    /\ Verifies(c)
-----------------------------------------------------------------------------
EmptyPool == [s \in SeqNr |-> NoOutcome]
EmptyOutcome == [outcome |-> NoOutcome, inputs |-> NoOutcome]

FollowerPhase == {"unknown", "newEpoch", "newRound", "sentObservation",
                  "sentPrepare", "sentCommit"}
LeaderPhase == {"unknown", "newEpoch", "sentEpochStart", "sentRoundStart",
                "grace", "sentProposal"}

Init ==
    /\ epoch = [o \in Honest |-> 0]
    /\ firstSeqNrOfEpoch = [o \in Honest |-> 0]
    /\ seqNr = [o \in Honest |-> 0]
    /\ committedSeqNr = [o \in Honest |-> 0]
    /\ committedOutcome = [o \in Honest |-> NoOutcome]
    /\ followerPhase = [o \in Honest |-> "unknown"]
    /\ proposalPool = [o \in Honest |-> EmptyPool]
    /\ outcome = [o \in Honest |-> EmptyOutcome]
    /\ cert = [o \in Honest |-> Genesis]
    /\ handled = [o \in Honest |-> {}]
    /\ leaderPhase = [o \in Honest |-> "unknown"]
    /\ readyToStartRound = [o \in Honest |-> FALSE]
    /\ tRound = [o \in Honest |-> FALSE]
    /\ observations = [o \in Honest |-> 0]
    /\ storedCert = [o \in Honest |-> Genesis]
    /\ requests = {} /\ epochStarts = {}
    /\ roundStarts = {} /\ observed = {} /\ proposals = {}
    /\ prepares = {} /\ commits = {}
    /\ failures = 0 /\ restarts = 0

\* Mutant of StartEpoch: readyToStartRound survives from the epoch before.
StartEpochStillReady(o, e) ==
    /\ epoch' = [epoch EXCEPT ![o] = e]
    /\ firstSeqNrOfEpoch' = [firstSeqNrOfEpoch EXCEPT ![o] = 0]
    /\ seqNr' = [seqNr EXCEPT ![o] = 0]
    /\ followerPhase' = [followerPhase EXCEPT ![o] = "newEpoch"]
    /\ proposalPool' = [proposalPool EXCEPT ![o] = EmptyPool]
    /\ outcome' = [outcome EXCEPT ![o] = EmptyOutcome]
    /\ leaderPhase' = [leaderPhase EXCEPT ![o] = "newEpoch"]
    /\ UNCHANGED <<readyToStartRound, epochStarts, roundMsgs, votes>>

\* What eventNewEpochStart does whether or not the process is a new one.
StartEpoch(o, e) ==
    /\ epoch' = [epoch EXCEPT ![o] = e]
    /\ firstSeqNrOfEpoch' = [firstSeqNrOfEpoch EXCEPT ![o] = 0]
    /\ seqNr' = [seqNr EXCEPT ![o] = 0]
    /\ followerPhase' = [followerPhase EXCEPT ![o] = "newEpoch"]
    /\ proposalPool' = [proposalPool EXCEPT ![o] = EmptyPool]
    /\ outcome' = [outcome EXCEPT ![o] = EmptyOutcome]
    /\ leaderPhase' = [leaderPhase EXCEPT ![o] = "newEpoch"]
    /\ readyToStartRound' = [readyToStartRound EXCEPT ![o] = FALSE]
    /\ UNCHANGED <<epochStarts, roundMsgs, votes>>

\* eventNewEpochStart: the pacemaker moves on to a later epoch, and o reports its
\* certificate to the leader.  tRound is left alone unless o leads.
EnterEpoch(o, e) ==
    /\ e > epoch[o]
    /\ StartEpoch(o, e)
    /\ requests' = requests \cup {[epoch |-> e, from |-> o, cert |-> cert[o]]}
    /\ tRound' = [tRound EXCEPT ![o] = @ \/ Leader[e] = o]
    /\ handled' = [handled EXCEPT ![o] = {}]
    /\ UNCHANGED <<committedSeqNr, committedOutcome, cert, observations,
                   storedCert, faultVars>>

\* p has sent messages of epoch e after its request.
HasTakenPart(p, e) ==
    \E m \in observed \cup prepares : m.epoch = e /\ m.from = p

\* The process of o dies and is started again: RunOutcomeGeneration with the
\* certificate of the database, then the eventNewEpochStart that a restored
\* pacemaker sends for the epoch it was in, which is the same one when its writes
\* succeed (EpochsNeverGoBack of Pacemaker).  No message reaches both the old process
\* and the new one.  What a leader sent itself dies with the old process; so do the
\* requests of those it has heard from since, links being FIFO.
Restart(o) ==
    /\ epoch[o] > 0
    /\ restarts < MaxRestarts
    /\ restarts' = restarts + 1
    /\ StartEpoch(o, epoch[o])
    /\ requests' =
           {r \in requests :
               /\ r.epoch = epoch[o] /\ Leader[epoch[o]] = o
               => r.from # o /\ ~HasTakenPart(r.from, epoch[o])}
           \cup {[epoch |-> epoch[o], from |-> o, cert |-> storedCert[o]]}
    /\ committedSeqNr' = [committedSeqNr EXCEPT ![o] = 0]
    /\ committedOutcome' = [committedOutcome EXCEPT ![o] = NoOutcome]
    /\ cert' = [cert EXCEPT ![o] = storedCert[o]]
    /\ tRound' = [tRound EXCEPT ![o] = Leader[epoch[o]] = o]
    /\ handled' = [handled EXCEPT ![o] =
           IF Leader[epoch[o]] = o
           THEN {m \in epochStarts : m.epoch = epoch[o]} ELSE @]
    /\ observations' = [observations EXCEPT ![o] = 0]
    /\ UNCHANGED <<storedCert, failures>>
-----------------------------------------------------------------------------
(***************************************************************************)
(* commit, startSubsequentFollowerRound and startSubsequentLeaderRound,    *)
(* which several handlers end with.  The latter two read the committedSeqNr*)
(* that commit has just written.                                           *)
(***************************************************************************)
\* A write of certificate c reports an error, and may have been done all the same.
CertWriteFails(o, c) ==
    /\ failures < MaxFailures
    /\ failures' = failures + 1
    /\ storedCert' \in {storedCert, [storedCert EXCEPT ![o] = c]}

\* Mutant of Commit: the outcome of the certificate is not taken over.
CommitKeepingOutcome(o, c) ==
    \/ /\ c.seqNr <= committedSeqNr[o]
       /\ UNCHANGED <<cert, storedCert, committedSeqNr, failures>>
       /\ UNCHANGED committedOutcome
    \/ /\ c.seqNr > committedSeqNr[o]
       /\ cert' = [cert EXCEPT ![o] = c]
       /\ storedCert' = [storedCert EXCEPT ![o] = c]
       /\ committedSeqNr' = [committedSeqNr EXCEPT ![o] = c.seqNr]
       /\ UNCHANGED <<committedOutcome, failures>>

\* commit(c).  A certificate for the committed sequence number is skipped; so
\* is a lower one, with an "assumption violation" in the log.  When the write
\* fails the certificate stays in memory and committedSeqNr is not advanced.
Commit(o, c) ==
    \/ /\ c.seqNr <= committedSeqNr[o]
       /\ UNCHANGED <<cert, storedCert, committedSeqNr, committedOutcome,
                      failures>>
    \/ /\ c.seqNr > committedSeqNr[o]
       /\ cert' = [cert EXCEPT ![o] = c]
       /\ \/ /\ storedCert' = [storedCert EXCEPT ![o] = c]
             /\ committedSeqNr' = [committedSeqNr EXCEPT ![o] = c.seqNr]
             /\ committedOutcome' = [committedOutcome EXCEPT ![o] = c.outcome]
             /\ UNCHANGED failures
          \/ /\ CertWriteFails(o, c)
             /\ UNCHANGED <<committedSeqNr, committedOutcome>>

StartFollowerRound(o) ==
    /\ seqNr' = [seqNr EXCEPT ![o] = committedSeqNr'[o] + 1]
    /\ followerPhase' = [followerPhase EXCEPT ![o] = "newRound"]
    /\ outcome' = [outcome EXCEPT ![o] = EmptyOutcome]

\* armed: whether tRound is still to fire, and phase: leaderState.phase, when the
\* function is called.  The first of the two calls a round needs (TRound, and
\* the commit or EpochStart before it) sets the flag, the second starts the
\* round, unless the plugin's Query fails (in instances with failures, which it
\* does not count towards).  No round starts beyond MaxSeqNr.
StartLeaderRound(o, armed, phase) ==
    LET next == committedSeqNr'[o] + 1
        StartsRound ==
            /\ readyToStartRound[o]
            /\ next \in SeqNr
            /\ tRound' = [tRound EXCEPT ![o] = TRUE]
            /\ leaderPhase' = [leaderPhase EXCEPT ![o] = "sentRoundStart"]
            /\ observations' = [observations EXCEPT ![o] = 0]
            /\ roundStarts' = roundStarts \cup
                   {[epoch |-> epoch[o], seqNr |-> next]}
        StartsNone ==
            /\ readyToStartRound[o] => MaxFailures > 0 \/ next \notin SeqNr
            /\ tRound' = [tRound EXCEPT ![o] = armed]
            /\ leaderPhase' = [leaderPhase EXCEPT ![o] = phase]
            /\ UNCHANGED <<observations, roundStarts>>
    IN  /\ readyToStartRound' = [readyToStartRound EXCEPT ![o] = ~@]
        /\ StartsRound \/ StartsNone
-----------------------------------------------------------------------------
(***************************************************************************)
(* The EpochStart handshake.                                               *)
(***************************************************************************)
\* messageEpochStartRequest, for the request that completes a quorum R of good
\* requests (B of them from faulty oracles, which may hold any certificate): the
\* leader takes the certificate of a request whose timestamp no other exceeds,
\* found by iterating over a map, so any of several equal ones.  The requests are
\* used up.  Genesis counts as committed by everyone: Commit skips it.
SendEpochStart(o, c, R, B) ==
    LET e == epoch[o] IN
    /\ leaderPhase[o] = "newEpoch"
    /\ Leader[e] = o
    /\ ProofVerifies(e, c, R, B)
    /\ B = {} => \E r \in R : r.cert = c
    /\ requests' = requests \ R
    /\ epochStarts' = epochStarts \cup {[epoch |-> e, cert |-> c]}
    /\ handled' = [p \in Honest |-> handled[p] \ {[epoch |-> e, cert |-> c]}]
    /\ \/ /\ c.committed
          /\ Commit(o, c)
          /\ firstSeqNrOfEpoch' =
                 [firstSeqNrOfEpoch EXCEPT ![o] = committedSeqNr'[o] + 1]
          /\ StartLeaderRound(o, tRound[o], "sentEpochStart")
       \/ /\ ~c.committed
          /\ firstSeqNrOfEpoch' = [firstSeqNrOfEpoch EXCEPT ![o] = c.seqNr + 1]
          /\ leaderPhase' = [leaderPhase EXCEPT ![o] = "sentEpochStart"]
          /\ UNCHANGED <<committedSeqNr, committedOutcome, cert, storedCert,
                         readyToStartRound, tRound, observations, roundStarts,
                         failures>>
    /\ UNCHANGED <<epoch, seqNr, followerPhase, proposalPool, outcome, observed,
                   proposals, votes, restarts>>

\* A faulty leader may start its epoch from any certificate that verifies, with
\* any proof that verifies, and may do so more than once.
FaultyEpochStart(e, c, R, B) ==
    /\ Leader[e] \in Faulty
    /\ ProofVerifies(e, c, R, B)
    /\ epochStarts' = epochStarts \cup {[epoch |-> e, cert |-> c]}
    /\ UNCHANGED <<sharedVars, followerVars, leaderVars, storedCert, requests,
                   roundMsgs, votes, faultVars>>

\* messageEpochStart.  After a CertifiedCommit (or genesis) a new round follows;
\* a CertifiedPrepare is proposed again, with the empty inputs digest.
ReceiveEpochStart(o, m) ==
    /\ m.epoch = epoch[o]
    /\ m \notin handled[o]
    /\ followerPhase[o] = "newEpoch"
    /\ handled' = [handled EXCEPT ![o] = @ \cup {m}]
    /\ \/ /\ m.cert.committed
          /\ Commit(o, m.cert)
          /\ firstSeqNrOfEpoch' =
                 [firstSeqNrOfEpoch EXCEPT ![o] = committedSeqNr'[o] + 1]
          /\ StartFollowerRound(o)
          /\ UNCHANGED prepares
       \/ /\ ~m.cert.committed
          /\ firstSeqNrOfEpoch' =
                 [firstSeqNrOfEpoch EXCEPT ![o] = m.cert.seqNr + 1]
          /\ seqNr' = [seqNr EXCEPT ![o] = m.cert.seqNr]
          /\ followerPhase' = [followerPhase EXCEPT ![o] = "sentPrepare"]
          /\ outcome' = [outcome EXCEPT ![o] =
                 [outcome |-> m.cert.outcome, inputs |-> Reproposal]]
          /\ prepares' = prepares \cup
                 {[epoch |-> epoch[o], seqNr |-> m.cert.seqNr, from |-> o,
                   inputs |-> Reproposal, outcome |-> m.cert.outcome]}
          /\ UNCHANGED <<committedSeqNr, committedOutcome, cert, storedCert,
                         failures>>
    /\ UNCHANGED <<epoch, proposalPool, leaderVars, epochMsgs, roundMsgs,
                   commits, restarts>>
-----------------------------------------------------------------------------
(***************************************************************************)
(* A round.                                                                *)
(***************************************************************************)
\* eventTRoundTimeout.  The timer also fires at an oracle that armed it as the
\* leader of an earlier epoch.
TRoundTimeout(o) ==
    /\ tRound[o]
    /\ UNCHANGED committedSeqNr
    /\ StartLeaderRound(o, FALSE, leaderPhase[o])
    /\ UNCHANGED <<epoch, firstSeqNrOfEpoch, seqNr, committedOutcome,
                   followerVars, storedCert, epochMsgs, observed, proposals,
                   votes, faultVars>>

\* tryProcessRoundStartPool, whether messageRoundStart or the start of the round
\* calls it.  (When Observation fails the follower answers no other RoundStart
\* of the round, as though it had received none.)
SendObservation(o) ==
    /\ followerPhase[o] = "newRound"
    /\ seqNr[o] \in SeqNr
    /\ \/ [epoch |-> epoch[o], seqNr |-> seqNr[o]] \in roundStarts
       \/ Leader[epoch[o]] \in Faulty
    /\ followerPhase' = [followerPhase EXCEPT ![o] = "sentObservation"]
    /\ observed' = observed \cup
           {[epoch |-> epoch[o], seqNr |-> seqNr[o], from |-> o]}
    /\ UNCHANGED <<sharedVars, proposalPool, outcome, cert, handled, leaderVars,
                   storedCert, epochMsgs, roundStarts, proposals, votes,
                   faultVars>>

\* messageObservation, for the observation that completes the quorum.  The leader
\* compares with the sequence number of its own follower, which is 0 until that has
\* handled the EpochStart; observations are taken to have one of a round.
StartGrace(o) ==
    /\ leaderPhase[o] = "sentRoundStart"
    /\ Leader[epoch[o]] = o
    /\ seqNr[o] \in SeqNr
    /\ ObservationQuorum <= Cardinality(Faulty \cup {p \in Honest :
           [epoch |-> epoch[o], seqNr |-> seqNr[o], from |-> p] \in observed})
    /\ leaderPhase' = [leaderPhase EXCEPT ![o] = "grace"]
    /\ observations' = [observations EXCEPT ![o] = seqNr[o]]
    /\ UNCHANGED <<sharedVars, followerVars, readyToStartRound, tRound,
                   storedCert, epochMsgs, roundMsgs, votes, faultVars>>

\* Mutant of TGraceTimeout: a proposal is accepted whichever round its
\* observations were signed for.
TGraceTimeoutUnsigned(o, v) ==
    /\ leaderPhase[o] = "grace"
    /\ leaderPhase' = [leaderPhase EXCEPT ![o] = "sentProposal"]
    /\ proposals' = proposals \cup
           {[epoch |-> epoch[o], seqNr |-> seqNr[o], outcome |-> v]}
    /\ UNCHANGED <<sharedVars, followerVars, readyToStartRound, tRound,
                   observations, storedCert, epochMsgs, roundStarts, observed,
                   votes, faultVars>>

\* eventTGraceTimeout: the proposal carries the observations, and v is the
\* outcome the plugin computes from them.  The proposal is for the sequence number
\* the oracle's follower has reached by then; if the observations were signed for
\* another one, no follower accepts it.
TGraceTimeout(o, v) ==
    /\ leaderPhase[o] = "grace"
    /\ leaderPhase' = [leaderPhase EXCEPT ![o] = "sentProposal"]
    /\ proposals' = proposals \cup
           IF observations[o] = seqNr[o]
           THEN {[epoch |-> epoch[o], seqNr |-> seqNr[o], outcome |-> v]}
           ELSE {}
    /\ UNCHANGED <<sharedVars, followerVars, readyToStartRound, tRound,
                   observations, storedCert, epochMsgs, roundStarts, observed,
                   votes, faultVars>>

\* The leader's proposals that o may receive: the leader itself gets only the one
\* that its present process has sent.
Receivable(o, v) ==
    \/ Leader[epoch[o]] \in Faulty
    \/ /\ [epoch |-> epoch[o], seqNr |-> seqNr[o], outcome |-> v] \in proposals
       /\ Leader[epoch[o]] = o =>
              leaderPhase[o] = "sentProposal" /\ observations[o] = seqNr[o]

\* Mutant of PoolableProposal: a later proposal replaces the pooled one.
LatestProposal(o, v) == Receivable(o, v)

\* The proposal pool holds one proposal of the leader for a sequence number: the
\* one it already has, or else any that is received.
PoolableProposal(o, v) ==
    IF proposalPool[o][seqNr[o]] # NoOutcome
    THEN v = proposalPool[o][seqNr[o]]
    ELSE Receivable(o, v)

\* messageProposal and tryProcessProposalPool.
SendPrepare(o, v) ==
    /\ followerPhase[o] = "sentObservation"
    /\ PoolableProposal(o, v)
    /\ proposalPool' = [proposalPool EXCEPT ![o][seqNr[o]] = v]
    /\ followerPhase' = [followerPhase EXCEPT ![o] = "sentPrepare"]
    /\ outcome' = [outcome EXCEPT ![o] =
           [outcome |-> v, inputs |-> committedOutcome[o]]]
    /\ prepares' = prepares \cup
           {[epoch |-> epoch[o], seqNr |-> seqNr[o], from |-> o,
             inputs |-> committedOutcome[o], outcome |-> v]}
    /\ UNCHANGED <<sharedVars, cert, handled, leaderVars, storedCert, epochMsgs,
                   roundMsgs, commits, faultVars>>

\* Mutant of SendCommit: the vote is broadcast before the certificate is written.
SendCommitUnpersisted(o) ==
    LET v == outcome[o].outcome IN
    /\ followerPhase[o] = "sentPrepare"
    /\ PrepareQuorum(epoch[o], seqNr[o], outcome[o].inputs, v)
    /\ cert' = [cert EXCEPT ![o] = CertifiedPrepare(epoch[o], seqNr[o], v)]
    /\ followerPhase' = [followerPhase EXCEPT ![o] = "sentCommit"]
    /\ commits' = commits \cup
           {[epoch |-> epoch[o], seqNr |-> seqNr[o], from |-> o, outcome |-> v]}
    /\ UNCHANGED <<sharedVars, proposalPool, outcome, handled, leaderVars,
                   storedCert, epochMsgs, roundMsgs, prepares, faultVars>>

\* tryProcessPreparePool.  A failed write leaves the new certificate in memory
\* and the phase as it was.
SendCommit(o) ==
    LET v == outcome[o].outcome
        c == CertifiedPrepare(epoch[o], seqNr[o], v)
    IN
    /\ followerPhase[o] = "sentPrepare"
    /\ PrepareQuorum(epoch[o], seqNr[o], outcome[o].inputs, v)
    /\ cert' = [cert EXCEPT ![o] = c]
    /\ \/ /\ storedCert' = [storedCert EXCEPT ![o] = c]
          /\ followerPhase' = [followerPhase EXCEPT ![o] = "sentCommit"]
          /\ commits' = commits \cup
                 {[epoch |-> epoch[o], seqNr |-> seqNr[o], from |-> o,
                   outcome |-> v]}
          /\ UNCHANGED failures
       \/ /\ CertWriteFails(o, c)
          /\ UNCHANGED <<followerPhase, commits>>
    /\ UNCHANGED <<sharedVars, proposalPool, outcome, handled, leaderVars, epochMsgs,
                   roundMsgs, prepares, restarts>>

\* RMax <= seqNr - firstSeqNrOfEpoch + 1 on uint64: a negative difference wraps
\* to a number no RMax exceeds.
EpochExhausted(o) ==
    LET rounds == seqNr[o] - firstSeqNrOfEpoch[o] + 1
    IN  rounds < 0 \/ RMax <= rounds

\* tryProcessCommitPool: commit, then the next round unless the epoch has run its
\* RMax rounds.
ReceiveCommits(o) ==
    LET v == outcome[o].outcome IN
    /\ followerPhase[o] = "sentCommit"
    /\ CommitQuorum(epoch[o], seqNr[o], v)
    /\ Commit(o, CertifiedCommit(epoch[o], seqNr[o], v))
    /\ \/ /\ EpochExhausted(o)
          /\ UNCHANGED <<seqNr, followerPhase, outcome, leaderVars, roundStarts>>
       \/ /\ ~EpochExhausted(o)
          /\ StartFollowerRound(o)
          /\ \/ /\ Leader[epoch[o]] = o
                /\ StartLeaderRound(o, tRound[o], leaderPhase[o])
             \/ /\ Leader[epoch[o]] # o
                /\ UNCHANGED <<leaderVars, roundStarts>>
    /\ UNCHANGED <<epoch, firstSeqNrOfEpoch, proposalPool, handled, epochMsgs, observed,
                   proposals, votes, restarts>>
-----------------------------------------------------------------------------
RequestsOf(e) == {r \in requests : r.epoch = e}

\* The certificates that a quorum of requests may hold.
Offered(R, B) ==
    {r.cert : r \in R} \cup
        (IF B = {} THEN {} ELSE Certificate \cup {Genesis})

Next ==
    \/ \E o \in Honest :
        \/ \E e \in Epoch : EnterEpoch(o, e)
        \/ Restart(o)
        \/ \E R \in SUBSET RequestsOf(epoch[o]), B \in SUBSET Faulty :
               \E c \in Offered(R, B) : SendEpochStart(o, c, R, B)
        \/ \E m \in epochStarts : ReceiveEpochStart(o, m)
        \/ TRoundTimeout(o)
        \/ SendObservation(o)
        \/ StartGrace(o)
        \/ \E v \in Value : TGraceTimeout(o, v)
        \/ \E v \in Value : SendPrepare(o, v)
        \/ SendCommit(o)
        \/ ReceiveCommits(o)
    \/ \E e \in {d \in Epoch : Leader[d] \in Faulty} :
       \E c \in {d \in Certificate \cup {Genesis} : Verifies(d)} :
       \E R \in SUBSET RequestsOf(e), B \in SUBSET Faulty :
           FaultyEpochStart(e, c, R, B)

Spec == Init /\ [][Next]_vars
-----------------------------------------------------------------------------
TypeOK ==
    /\ epoch \in [Honest -> 0..MaxEpoch]
    /\ firstSeqNrOfEpoch \in [Honest -> 0..MaxSeqNr + 1]
    /\ seqNr \in [Honest -> 0..MaxSeqNr + 1]
    /\ committedSeqNr \in [Honest -> 0..MaxSeqNr]
    /\ committedOutcome \in [Honest -> Value \cup {NoOutcome}]
    /\ followerPhase \in [Honest -> FollowerPhase]
    /\ proposalPool \in [Honest -> [SeqNr -> Value \cup {NoOutcome}]]
    /\ outcome \in [Honest ->
           [outcome : Value \cup {NoOutcome}, inputs : Inputs]]
    /\ cert \in [Honest -> Certificate \cup {Genesis}]
    /\ storedCert \in [Honest -> Certificate \cup {Genesis}]
    /\ handled \in [Honest -> SUBSET epochStarts]
    /\ leaderPhase \in [Honest -> LeaderPhase]
    /\ readyToStartRound \in [Honest -> BOOLEAN]
    /\ tRound \in [Honest -> BOOLEAN]
    /\ observations \in [Honest -> 0..MaxSeqNr]
    /\ requests \subseteq
           [epoch : Epoch, from : Honest, cert : Certificate \cup {Genesis}]
    /\ epochStarts \subseteq
           [epoch : Epoch, cert : Certificate \cup {Genesis}]
    /\ roundStarts \subseteq [epoch : Epoch, seqNr : SeqNr]
    /\ observed \subseteq
           [epoch : Epoch, seqNr : SeqNr, from : Honest]
    /\ proposals \subseteq [epoch : Epoch, seqNr : SeqNr, outcome : Value]
    /\ prepares \subseteq
           [epoch : Epoch, seqNr : SeqNr, from : Honest, inputs : Inputs,
            outcome : Value]
    /\ commits \subseteq
           [epoch : Epoch, seqNr : SeqNr, from : Honest, outcome : Value]
    /\ failures \in 0..MaxFailures
    /\ restarts \in 0..MaxRestarts

\* The commit certificates that can be put together from the votes sent.
CommitCertificates ==
    {CertifiedCommit(m.epoch, m.seqNr, m.outcome) : m \in
        {n \in commits : CommitQuorum(n.epoch, n.seqNr, n.outcome)}}

\* The prepare votes of which a prepare certificate can be put together.
PreparedVotes ==
    {m \in prepares : PrepareQuorum(m.epoch, m.seqNr, m.inputs, m.outcome)}

\* ocr3types.OutcomeContext.PreviousOutcome: "This is guaranteed (!) to be the
\* unique outcome with sequence number (SeqNr-1)."  No two commit certificates
\* that can be put together certify different outcomes for a sequence number.
Agreement ==
    \A c, d \in CommitCertificates :
        c.seqNr = d.seqNr => c.outcome = d.outcome

\* Within an epoch no two outcomes of a sequence number gather a prepare quorum,
\* though a faulty leader proposes several.  This rests on the certificate writes:
\* after a failed one "we cannot safely continue current round"
\* (outcome_generation_follower.go:732), but tryProcessCommitPool goes on, and after
\* a re-proposal the oracle prepares the same sequence number again.
OnePreparedPerEpoch ==
    \A m, n \in PreparedVotes :
        m.epoch = n.epoch /\ m.seqNr = n.seqNr => m.outcome = n.outcome

\* The EpochStart of a later epoch never starts below a sequence number that a
\* commit certificate of an earlier epoch exists for: the highest certificates
\* of a quorum remember it across restarts, although an oracle's own certificate
\* can go down when it takes part in a re-proposal.
EpochStartsAboveCommits ==
    \A c \in CommitCertificates, m \in epochStarts :
        c.epoch < m.epoch => c.seqNr <= m.cert.seqNr

\* The "assumption violation" of commit is not reachable: no certificate lower
\* than what the oracle has committed arrives in an EpochStart it still accepts.
\* Oracles that follow the protocol cannot bring it about; a faulty one that leads
\* an earlier epoch may, when it hands an oracle that is behind the certificate of
\* a later epoch: the oracle loses nothing by it but the epoch.
NoAssumptionViolation ==
    \A o \in Honest, m \in epochStarts :
        /\ m.epoch = epoch[o]
        /\ m \notin handled[o]
        /\ m.cert.committed
        /\ followerPhase[o] = "newEpoch"
        => committedSeqNr[o] <= m.cert.seqNr

\* Only the leader of an epoch announces rounds in it, although the tRound timer
\* of a former leader is not stopped and fires in a later epoch.
OnlyLeaderStartsRounds ==
    \A o \in Honest :
        leaderPhase[o] \in {"sentRoundStart", "grace"} => Leader[epoch[o]] = o

\* The inputs of a prepared outcome: "outctx.previousOutcome contains the
\* consensus outcome with sequence number (outctx.SeqNr-1)".
PreviousOutcomeIsDecided ==
    \A m \in prepares :
        \/ m.inputs = Reproposal
        \/ m.inputs = NoOutcome /\ m.seqNr = 1
        \/ \E c \in CommitCertificates :
               c.seqNr = m.seqNr - 1 /\ c.outcome = m.inputs

\* The sequence of decided outcomes, read off the commit certificates, and what
\* each oracle has learned of it, behave as OutcomeLog says.
Outcomes == INSTANCE OutcomeLog WITH
    log <- [s \in SeqNr |->
        IF \E c \in CommitCertificates : c.seqNr = s
        THEN (CHOOSE c \in CommitCertificates : c.seqNr = s).outcome
        ELSE NoOutcome],
    learned <- committedSeqNr,
    previous <- committedOutcome

OutcomeLogSpec == Outcomes!Spec
=============================================================================

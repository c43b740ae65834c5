-------------------------------- MODULE Round --------------------------------
(***************************************************************************)
(* The rounds of one OCR3 epoch, from the leader's RoundStart to the votes *)
(* for an outcome, with the observations and the queries told apart, the   *)
(* pools that keep messages for later rounds, and the buffer of oracles    *)
(* that have not entered the epoch yet.                                    *)
(*                                                                         *)
(* What a leader broadcasts arrives in order, or not at all.  The prepare  *)
(* and commit votes, whose interleavings OutcomeGeneration is about, are   *)
(* one step here: an oracle may commit what a quorum prepared.  The votes  *)
(* take no places in the buffer, so BufferSize is what they leave of it,   *)
(* and the write of a certificate that fails is OutcomeGeneration's too.   *)
(* The epoch starts after a committed outcome, or none: sequence numbers   *)
(* are counted from there.                                                 *)
(***************************************************************************)
EXTENDS ByzQuorum, MessagePool

CONSTANTS
    Leaders,            \* the oracles one of which leads the epoch
    Query,
    NoQuery,
    ObservationQuorum,  \* what the plugin's ObservationQuorum returns
    RMax,               \* SharedConfig.RMax: after so many rounds the epoch ends
    MaxFaults           \* bound: how many messages are lost and calls fail

SeqNr == 1..RMax

ASSUME RoundAssumption ==
    /\ Leaders \subseteq Oracle
    /\ NoQuery \notin Query
    /\ ObservationQuorum \in 1..(Cardinality(Oracle) - F)
    /\ RMax \in Nat \ {0}
    /\ MaxFaults \in Nat

VARIABLES
    leader,
    \* of an honest leader: leaderState, and what it has broadcast
    leaderPhase, readyToStartRound, tRound, query, observations, broadcast,
    \* of every honest oracle: followerState with its pools, and what it has sent
    follower,
    \* how many of the leader's messages have arrived or are lost, and those that
    \* are buffered
    received, bufferedMessages,
    faults

leaderVars == <<leaderPhase, readyToStartRound, tRound, query, observations,
                broadcast>>
vars == <<leader, leaderVars, follower, received, bufferedMessages, faults>>

\* An observation is signed together with the query and the sequence number it is
\* made for.  Honest oracles make valid ones.
SignedObservation ==
    [observer : Oracle, seqNr : SeqNr, query : Query, valid : BOOLEAN]

MessageEpochStart == [type |-> "EpochStart", seqNr |-> 0]
MessageRoundStart(s, q) == [type |-> "RoundStart", seqNr |-> s, query |-> q]
MessageProposal(s, obs) ==
    [type |-> "Proposal", seqNr |-> s, observations |-> obs]

\* "EarlierEpoch": the pacemaker has not started the epoch yet.  "SentCommit": the
\* last round is over.
FollowerPhase ==
    {"EarlierEpoch", "NewEpoch", "NewRound", "SentObservation", "SentPrepare",
     "SentCommit"}
LeaderPhase == {"SentEpochStart", "SentRoundStart", "Grace", "SentProposal"}

NewFollower(phase) ==
    [phase |-> phase, committedSeqNr |-> 0, query |-> NoQuery,
     roundStartPool |-> NewPool, proposalPool |-> NewPool,
     observed |-> {}, prepared |-> {}]

TypeOK ==
    /\ leader \in Leaders
    /\ leaderPhase \in LeaderPhase
    /\ readyToStartRound \in BOOLEAN
    /\ tRound \in BOOLEAN
    /\ query \in Query \cup {NoQuery}
    /\ observations \subseteq SignedObservation
    /\ \A i \in DOMAIN broadcast : broadcast[i].seqNr \in 0..RMax
    /\ \A o \in Honest :
        LET f == follower[o] IN
        /\ f.phase \in FollowerPhase
        /\ f.committedSeqNr \in 0..RMax
        /\ f.query \in Query \cup {NoQuery}
        /\ f.observed \subseteq SignedObservation
        /\ \A pool \in {f.roundStartPool, f.proposalPool} :
            /\ pool.completedSeqNr = f.committedSeqNr
            /\ pool.count = Cardinality(pool.entries)
            /\ pool.count <= PoolSize
        /\ received[o] \in 0..Len(broadcast)
        /\ Len(bufferedMessages[o]) <= BufferSize
    /\ faults \in 0..MaxFaults
-----------------------------------------------------------------------------
\* What a follower does with the messages it has, as functions of its state.

Select(pool, s) == {m \in pool.entries : m.seqNr = s}

\* Mutant of IsAcceptable: the query that was signed is not checked.
IsAcceptableForAnyQuery(f, m) ==
    /\ Cardinality(m.observations) >= ObservationQuorum
    /\ \A x, y \in m.observations : x.observer = y.observer => x = y
    /\ \A x \in m.observations : x.seqNr = m.seqNr

\* Mutant of IsAcceptable: the return that is missing after the warning.
IsAcceptableIfValid(f, m) ==
    /\ Cardinality(m.observations) >= ObservationQuorum
    /\ \A x, y \in m.observations : x.observer = y.observer => x = y
    /\ \A x \in m.observations :
           x.seqNr = m.seqNr /\ x.query = f.query /\ x.valid

\* The checks of tryProcessProposalPool: enough observations, one of each observer,
\* signed for this round and its query.  One that ValidateObservation rejects is
\* logged as dropped and is not.
IsAcceptable(f, m) ==
    /\ Cardinality(m.observations) >= ObservationQuorum
    /\ \A x, y \in m.observations : x.observer = y.observer => x = y
    /\ \A x \in m.observations : x.seqNr = m.seqNr /\ x.query = f.query

\* The calls of the plugin that a follower's handler makes.  "Outcome" stands for
\* ObservationQuorum too, which is called before it.
Calls == {"Observation", "Outcome"}

\* ok are the calls that return.  A proposal whose calls fail stays in the pool, where
\* it is tried again only when another proposal is pooled.
TryProcessProposalPool(f, ok) ==
    LET s == f.committedSeqNr + 1
        acceptable == {m \in Select(f.proposalPool, s) : IsAcceptable(f, m)}
        prepared == {[seqNr |-> s, query |-> f.query,
                      observations |-> m.observations] : m \in acceptable}
    IN  IF f.phase = "SentObservation" /\ acceptable # {} /\ "Outcome" \in ok
        THEN [f EXCEPT !.phase = "SentPrepare", !.prepared = @ \cup prepared]
        ELSE f

\* The query is noted before the plugin is called; when Observation fails, the
\* follower stays in its phase and answers no other RoundStart.
TryProcessRoundStartPool(f, o, ok) ==
    LET s == f.committedSeqNr + 1
        starts == Select(f.roundStartPool, s)
        q == (CHOOSE m \in starts : TRUE).query
        made == [observer |-> o, seqNr |-> s, query |-> q, valid |-> TRUE]
    IN  IF f.phase # "NewRound" \/ starts = {} \/ f.query # NoQuery THEN f
        ELSE IF "Observation" \notin ok THEN [f EXCEPT !.query = q]
        ELSE TryProcessProposalPool(
                 [f EXCEPT !.query = q, !.phase = "SentObservation",
                           !.observed = @ \cup {made}], ok)

StartSubsequentFollowerRound(f, o, ok) ==
    TryProcessRoundStartPool([f EXCEPT !.phase = "NewRound", !.query = NoQuery],
                             o, ok)

\* messageEpochStart, messageRoundStart, messageProposal.
Process(f, o, m, ok) ==
    CASE m.type = "EpochStart" ->
            IF f.phase = "NewEpoch" THEN StartSubsequentFollowerRound(f, o, ok)
            ELSE f
      [] m.type = "RoundStart" ->
            IF Accepts(f.roundStartPool, m)
            THEN TryProcessRoundStartPool(
                     [f EXCEPT !.roundStartPool = Put(@, m)], o, ok)
            ELSE f
      [] m.type = "Proposal" ->
            IF Accepts(f.proposalPool, m)
            THEN TryProcessProposalPool(
                     [f EXCEPT !.proposalPool = Put(@, m)], ok)
            ELSE f

\* Mutant of Committed: the pools are left as they are.
CommittedUnreaped(f) ==
    [f EXCEPT !.committedSeqNr = @ + 1, !.phase = "SentCommit"]

\* The votes of a quorum for what o has prepared commit it, its certificate being
\* written: the pools are reaped.
Committed(f) ==
    LET s == f.committedSeqNr + 1
    IN  [f EXCEPT !.committedSeqNr = s, !.phase = "SentCommit",
                  !.roundStartPool = ReapCompleted(@, s),
                  !.proposalPool = ReapCompleted(@, s)]
-----------------------------------------------------------------------------
Fault == faults < MaxFaults /\ faults' = faults + 1

\* All calls of the plugin return (ok), or one fails.
Call(ok) == IF ok THEN UNCHANGED faults ELSE Fault

\* An honest leader has sent its EpochStart, for which startSubsequentLeaderRound
\* was called, and waits for tRound.  A faulty one has everybody start.
Init ==
    /\ leader \in Leaders
    /\ leaderPhase = "SentEpochStart"
    /\ readyToStartRound = TRUE
    /\ tRound = TRUE
    /\ query = NoQuery
    /\ observations = {}
    /\ broadcast = <<MessageEpochStart>>
    /\ \E late \in SUBSET (Honest \ {leader}) :
        /\ leader \in Faulty => late = {}
        /\ follower = [o \in Honest |->
               NewFollower(CASE o \in late -> "EarlierEpoch"
                             [] leader \in Faulty -> "NewRound"
                             [] OTHER -> "NewEpoch")]
    /\ received = [o \in Honest |-> 0]
    /\ bufferedMessages = [o \in Honest |-> <<>>]
    /\ faults = 0

\* startSubsequentLeaderRound, called when the last round is over and when tRound
\* fires, starts a round the second time.  When Query fails (ok is FALSE), it
\* starts none, and none after.
StartLeaderRound(armed, ok) ==
    LET s == follower'[leader].committedSeqNr + 1
        StartsRound ==
            \E q \in Query :
                /\ query' = q
                /\ observations' = {}
                /\ tRound' = TRUE
                /\ leaderPhase' = "SentRoundStart"
                /\ broadcast' = Append(broadcast, MessageRoundStart(s, q))
    IN  /\ readyToStartRound' = ~readyToStartRound
        /\ \/ readyToStartRound /\ ok /\ StartsRound
           \/ /\ ~(readyToStartRound /\ ok)
              /\ tRound' = armed
              /\ UNCHANGED <<query, observations, leaderPhase, broadcast>>

\* Whether o handles messages: not while unbufferMessages runs.
Idle(o) == bufferedMessages[o] = <<>> \/ follower[o].phase = "EarlierEpoch"

EventTRoundTimeout(ok) ==
    /\ leader \in Honest
    /\ Idle(leader)
    /\ tRound
    /\ Call(ok)
    /\ follower' = follower
    /\ StartLeaderRound(FALSE, ok)
    /\ UNCHANGED <<leader, received, bufferedMessages>>

\* Mutant of MessageObservation: the grace period starts after one more.
MessageObservationOneMore(x) ==
    /\ leader \in Honest
    /\ Idle(leader)
    /\ leaderPhase \in {"SentRoundStart", "Grace"}
    /\ follower[leader].phase # "NewEpoch"
    /\ x.seqNr = follower[leader].committedSeqNr + 1
    /\ \A y \in observations : y.observer # x.observer
    /\ x.query = query
    /\ leaderPhase' = IF Cardinality(observations) = ObservationQuorum
                      THEN "Grace" ELSE leaderPhase
    /\ observations' = observations \cup {x}
    /\ UNCHANGED <<leader, readyToStartRound, tRound, query, broadcast, follower,
                   received, bufferedMessages, faults>>

\* messageObservation.  One that ValidateObservation rejects is logged as dropped
\* and is kept all the same.  (When ObservationQuorum fails, nothing changes: it may
\* not be handled at all.)
MessageObservation(x) ==
    /\ leader \in Honest
    /\ Idle(leader)
    /\ leaderPhase \in {"SentRoundStart", "Grace"}
    /\ follower[leader].phase # "NewEpoch"
    /\ x.seqNr = follower[leader].committedSeqNr + 1
    /\ \A y \in observations : y.observer # x.observer
    /\ x.query = query
    /\ observations' = observations \cup {x}
    /\ leaderPhase' = IF Cardinality(observations') = ObservationQuorum
                      THEN "Grace" ELSE leaderPhase
    /\ UNCHANGED <<leader, readyToStartRound, tRound, query, broadcast, follower,
                   received, bufferedMessages, faults>>

\* eventTGraceTimeout; the timer runs in the phase Grace.
EventTGraceTimeout ==
    /\ leader \in Honest
    /\ Idle(leader)
    /\ leaderPhase = "Grace"
    /\ leaderPhase' = "SentProposal"
    /\ broadcast' = Append(broadcast, MessageProposal(
                        follower[leader].committedSeqNr + 1, observations))
    /\ UNCHANGED <<leader, readyToStartRound, tRound, query, observations,
                   follower, received, bufferedMessages, faults>>

\* eventNewEpochStart: the buffer is emptied next.
EventNewEpochStart(o) ==
    /\ follower[o].phase = "EarlierEpoch"
    /\ follower' = [follower EXCEPT ![o] = NewFollower("NewEpoch")]
    /\ UNCHANGED <<leader, leaderVars, received, bufferedMessages, faults>>

\* One message of the loop of unbufferMessages.
UnbufferMessage(o, ok) ==
    /\ ~Idle(o)
    /\ Call(ok = Calls)
    /\ follower' = [follower EXCEPT
           ![o] = Process(@, o, Head(bufferedMessages[o]), ok)]
    /\ bufferedMessages' = [bufferedMessages EXCEPT ![o] = Tail(@)]
    /\ UNCHANGED <<leader, leaderVars, received>>

\* messageToOutcomeGeneration.
MessageToOutcomeGeneration(o, m, ok) ==
    /\ Idle(o)
    /\ Call(ok = Calls)
    /\ IF follower[o].phase = "EarlierEpoch"
       THEN /\ bufferedMessages' = [bufferedMessages EXCEPT ![o] = Push(@, m)]
            /\ UNCHANGED follower
       ELSE /\ follower' = [follower EXCEPT ![o] = Process(@, o, m, ok)]
            /\ UNCHANGED bufferedMessages
    /\ UNCHANGED <<leader, leaderVars>>

\* The next message of the leader arrives.
Receive(o, ok) ==
    /\ leader \in Honest
    /\ received[o] < Len(broadcast)
    /\ received' = [received EXCEPT ![o] = @ + 1]
    /\ MessageToOutcomeGeneration(o, broadcast[received'[o]], ok)

\* ... or is lost.
Lose(o) ==
    /\ leader \in Honest
    /\ received[o] < Len(broadcast)
    /\ Fault
    /\ received' = [received EXCEPT ![o] = @ + 1]
    /\ UNCHANGED <<leader, leaderVars, follower, bufferedMessages>>

\* All observations that are signed: those of honest oracles, and any of a faulty
\* one.
Signed == {x \in SignedObservation : x.observer \in Faulty}
              \cup UNION {follower[o].observed : o \in Honest}

\* A faulty leader sends o a RoundStart with any query, or a Proposal with any of
\* the observations that are signed.  (Those of another round are refused as too few
\* are.)
ReceiveFaulty(o) ==
    /\ leader \in Faulty
    /\ \E s \in SeqNr :
        \E m \in {MessageRoundStart(s, q) : q \in Query}
                  \cup {MessageProposal(s, obs) :
                           obs \in SUBSET {x \in Signed : x.seqNr = s}} :
           MessageToOutcomeGeneration(o, m, Calls)
    /\ UNCHANGED received

\* tryProcessCommitPool, when a quorum has prepared the same: the epoch ends, or
\* the next round starts.
TryProcessCommitPool(o, ok, queryOk) ==
    LET f == Committed(follower[o])
        p == {x \in follower[o].prepared : x.seqNr = f.committedSeqNr}
    IN  /\ Idle(o)
        /\ follower[o].phase = "SentPrepare"
        /\ HasQuorum(Faulty \cup {q \in Honest : p \subseteq follower[q].prepared})
        /\ Call(ok = Calls /\ queryOk)
        /\ \/ /\ f.committedSeqNr = RMax
              /\ follower' = [follower EXCEPT ![o] = f]
              /\ UNCHANGED leaderVars
           \/ /\ f.committedSeqNr < RMax
              /\ follower' = [follower EXCEPT
                     ![o] = StartSubsequentFollowerRound(f, o, ok)]
              /\ IF o = leader THEN StartLeaderRound(tRound, queryOk)
                 ELSE UNCHANGED leaderVars
        /\ UNCHANGED <<leader, received, bufferedMessages>>

Next ==
    \/ \E ok \in BOOLEAN : EventTRoundTimeout(ok)
    \/ \E x \in Signed : MessageObservation(x)
    \/ EventTGraceTimeout
    \/ \E o \in Honest :
        \/ EventNewEpochStart(o)
        \/ \E ok \in SUBSET Calls :
            \/ UnbufferMessage(o, ok)
            \/ Receive(o, ok)
            \/ \E queryOk \in BOOLEAN : TryProcessCommitPool(o, ok, queryOk)
        \/ Lose(o)
        \/ ReceiveFaulty(o)

Spec == Init /\ [][Next]_vars

\* The links deliver, timers fire, the pacemaker starts the epoch, and the event
\* loops handle what arrives.  Nothing is asked of faulty oracles.
Fairness ==
    /\ WF_vars(EventTRoundTimeout(TRUE))
    /\ WF_vars(EventTGraceTimeout)
    /\ \A o \in Honest :
        /\ WF_vars(EventNewEpochStart(o))
        /\ WF_vars(UnbufferMessage(o, Calls))
        /\ WF_vars(Receive(o, Calls))
        /\ WF_vars(\E x \in follower[o].observed : MessageObservation(x))
        /\ WF_vars(TryProcessCommitPool(o, Calls, TRUE))

FairSpec == Spec /\ Fairness
-----------------------------------------------------------------------------
\* "You may assume that all provided observations have been validated by
\* ValidateObservation" (plugin.go:205, of Outcome).
ObservationsAreValidated ==
    \A o \in Honest : \A p \in follower[o].prepared :
        \A x \in p.observations : x.valid

\* The query and the observations that Outcome is called with belong together,
\* though a faulty leader may send different queries to different oracles: but for
\* the faulty ones, a quorum of oracles was asked this query in this round.
OutcomesRestOnHonestObservations ==
    \A o \in Honest : \A p \in follower[o].prepared :
        LET asked == {q \in Honest : \E x \in follower[q].observed :
                         x.seqNr = p.seqNr /\ x.query = p.query}
        IN  Cardinality(asked) >= ObservationQuorum - Cardinality(Faulty)

\* Whatever queries and observations a faulty leader sends to whom, oracles commit
\* the outcome of a sequence number from the same inputs.
CommittedInputsAgree ==
    \A o, q \in Honest :
        \A x \in follower[o].prepared, y \in follower[q].prepared :
            /\ x.seqNr = y.seqNr
            /\ x.seqNr <= follower[o].committedSeqNr
            /\ y.seqNr <= follower[q].committedSeqNr
            => x = y

\* No follower refuses the proposal of an honest leader: what leader and followers
\* take for an acceptable observation is the same, also when a faulty oracle made
\* it.  A refused proposal would stay in the pool and end the epoch; as it is, only
\* one stays there whose calls failed.
HonestProposalsAreAccepted ==
    leader \in Honest =>
        \A o \in Honest :
            follower[o].phase = "SentObservation" =>
                \A m \in Select(follower[o].proposalPool,
                                follower[o].committedSeqNr + 1) :
                    IsAcceptable(follower[o], m)

\* The buffer keeps the EpochStart, which comes first, for an oracle that enters
\* the epoch late by no more messages than the buffer takes ("big enough for a
\* couple of full rounds", outcome_generation.go:22).
LateFollowersStart ==
    leader \in Honest =>
        \A o \in Honest :
            follower[o].phase = "NewEpoch" /\ Idle(o) =>
                received[o] \notin 1..BufferSize \/ faults > 0

Pooled(f) == f.roundStartPool.entries \cup f.proposalPool.entries

\* The messages that o takes from its link or from its buffer in a step.
Taken(o) ==
    {broadcast[i] : i \in {received'[o]} \ {received[o]}}
        \cup {Head(bufferedMessages[o]) :
                 b \in {bufferedMessages'[o]} \ {bufferedMessages[o]}}

\* A message of an honest leader that a follower drops is for a round that is
\* further ahead of it than the pool is large: what it needs next is never dropped
\* for what it needs later.
KeepsNearMessages(o) ==
    LET s == follower[o].committedSeqNr IN
    follower[o].phase # "EarlierEpoch" /\ faults' = faults =>
        \A m \in Taken(o) :
            m.seqNr \in (s + 1)..(s + PoolSize) => m \in Pooled(follower'[o])

NearMessagesAreKept ==
    [][\A o \in Honest : leader \in Honest => KeepsNearMessages(o)]_vars

\* Whether a message of a later round did not find room.
HasDropped(o) ==
    \E i \in 1..received[o] :
        /\ broadcast[i].seqNr > follower[o].committedSeqNr
        /\ broadcast[i] \notin Pooled(follower[o])
        /\ \A j \in DOMAIN bufferedMessages[o] :
               bufferedMessages[o][j] # broadcast[i]

\* Under an honest leader all rounds of the epoch are completed, though faulty
\* oracles are silent and some enter the epoch late; unless a message is lost, a
\* call fails, or an oracle that the others need falls behind by more than the
\* pools and the buffer keep.
RoundsComplete ==
    <>(\/ \A o \in Honest : follower[o].committedSeqNr = RMax
       \/ leader \in Faulty
       \/ faults > 0
       \/ \E o \in Honest :
              \/ HasDropped(o)
              \/ received[o] > BufferSize /\ follower[o].phase = "EarlierEpoch")
=============================================================================

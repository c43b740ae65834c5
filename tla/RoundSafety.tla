----------------------------- MODULE RoundSafety -----------------------------
(***************************************************************************)
(* The safety properties of Round, for every set of oracles, every F, any  *)
(* quorum of observations the plugin asks for, any number of rounds, lost  *)
(* messages and failing calls, and pools and buffers of any size.          *)
(***************************************************************************)
EXTENDS Round, ByzQuorumProofs

RoundStartMessage ==
    [type : {"RoundStart"}, seqNr : SeqNr, query : Query]
ProposalMessage ==
    [type : {"Proposal"}, seqNr : SeqNr, observations : SUBSET SignedObservation]
Message == {MessageEpochStart} \cup RoundStartMessage \cup ProposalMessage

PreparedInputs ==
    [seqNr : SeqNr, query : Query, observations : SUBSET SignedObservation]

PoolOf(M) == [completedSeqNr : 0..RMax, entries : SUBSET M, count : Nat]

Follower ==
    [phase : FollowerPhase, committedSeqNr : 0..RMax,
     query : Query \cup {NoQuery}, roundStartPool : PoolOf(RoundStartMessage),
     proposalPool : PoolOf(ProposalMessage),
     observed : SUBSET SignedObservation, prepared : SUBSET PreparedInputs]

\* A pool counts what it holds: one message at most of each later sequence number.
PoolInv(pool, s) ==
    /\ pool.completedSeqNr = s
    /\ IsFiniteSet(pool.entries)
    /\ pool.count = Cardinality(pool.entries)
    /\ pool.count <= PoolSize
    /\ \A m \in pool.entries : s < m.seqNr
    /\ \A m, n \in pool.entries : m.seqNr = n.seqNr => m = n

\* What each step of a follower leaves true of it.  "sent" is what the leader may have sent.
FollowerShape(o, f, sent) ==
    /\ f \in Follower
    /\ PoolInv(f.roundStartPool, f.committedSeqNr)
    /\ PoolInv(f.proposalPool, f.committedSeqNr)
    /\ f.phase = "SentCommit" <=> f.committedSeqNr = RMax
    /\ f.phase = "EarlierEpoch" => f = NewFollower("EarlierEpoch")
    /\ Pooled(f) \subseteq sent
    /\ \A x \in f.observed : x.observer = o

\* The query is one that the leader sent for this round.
QueryAsked(f, sent) ==
    /\ f.phase \in {"SentObservation", "SentPrepare"} => f.query # NoQuery
    /\ f.phase \in {"NewRound", "SentObservation", "SentPrepare"}
          /\ f.query # NoQuery
       => MessageRoundStart(f.committedSeqNr + 1, f.query) \in sent

OneEach(obs) == \A x, y \in obs : x.observer = y.observer => x = y

\* What is prepared passed the checks and was proposed; it is for a round that is
\* committed or the present one; there is one for each round.
PreparedInv(f, sent) ==
    /\ \A x \in f.prepared :
        /\ Cardinality(x.observations) >= ObservationQuorum
        /\ OneEach(x.observations)
        /\ \A y \in x.observations : y.seqNr = x.seqNr /\ y.query = x.query
        /\ MessageProposal(x.seqNr, x.observations) \in sent
        /\ \/ x.seqNr <= f.committedSeqNr
           \/ x.seqNr = f.committedSeqNr + 1 /\ f.phase = "SentPrepare"
    /\ \A x, y \in f.prepared : x.seqNr = y.seqNr => x = y
    /\ f.phase = "SentPrepare" =>
           \E x \in f.prepared : x.seqNr = f.committedSeqNr + 1

FollowerInv(o, f, sent) ==
    /\ FollowerShape(o, f, sent)
    /\ QueryAsked(f, sent)
    /\ PreparedInv(f, sent)

\* What the leader has sent, if it is honest, or what a faulty one may send.
Sent ==
    IF leader \in Honest THEN {broadcast[i] : i \in DOMAIN broadcast}
    ELSE {MessageRoundStart(s, q) : s \in SeqNr, q \in Query}
         \cup {MessageProposal(s, obs) : s \in SeqNr, obs \in SUBSET Signed}

\* The place of a message in what an honest leader broadcasts.
Rank(m) == 2 * m.seqNr + (IF m.type = "RoundStart" THEN 0 ELSE 1)

Typed ==
    /\ leader \in Leaders
    /\ leaderPhase \in LeaderPhase
    /\ readyToStartRound \in BOOLEAN
    /\ tRound \in BOOLEAN
    /\ query \in Query \cup {NoQuery}
    /\ observations \subseteq Signed
    /\ broadcast \in Seq(Message)
    /\ follower \in [Honest -> Follower]
    /\ received \in [Honest -> Nat]
    /\ \A o \in Honest : received[o] <= Len(broadcast)
    /\ bufferedMessages \in [Honest -> Seq(Message)]
    /\ \A o \in Honest : Len(bufferedMessages[o]) <= BufferSize
    /\ faults \in 0..MaxFaults

\* EpochStart, and for each round its RoundStart and its Proposal.
BroadcastInOrder ==
    /\ broadcast # <<>>
    /\ \A i \in DOMAIN broadcast : Rank(broadcast[i]) = i

\* A round at a time: the next one is started when tRound has fired and the last
\* one is over.  When a Query has failed, no other is.
LeaderPace ==
    leader \in Honest =>
        LET c == follower[leader].committedSeqNr
            started == Len(broadcast) \div 2
        IN  /\ tRound = readyToStartRound => started = c
            /\ tRound # readyToStartRound =>
                   started = c + 1 \/ (started = c /\ c = RMax)
            /\ tRound /\ readyToStartRound => c < RMax
            /\ leaderPhase \in {"SentRoundStart", "Grace"} =>
                   Len(broadcast) = 2 * (c + 1)
            /\ leaderPhase \notin {"SentRoundStart", "Grace"} =>
                   Len(broadcast) = 2 * started + 1

\* The observations that the leader collects are for the round it has started.
LeaderObservations ==
    leader \in Honest /\ leaderPhase \in {"SentRoundStart", "Grace"} =>
        LET s == follower[leader].committedSeqNr + 1 IN
        /\ broadcast[Len(broadcast)] = MessageRoundStart(s, query)
        /\ OneEach(observations)
        /\ \A x \in observations : x.seqNr = s /\ x.query = query
        /\ leaderPhase = "Grace" =>
               Cardinality(observations) >= ObservationQuorum

\* What an honest leader proposes passes the checks of every follower; all that is
\* proposed is signed.
ProposalsInv ==
    \A m \in Sent : m.type = "Proposal" =>
        /\ m.observations \subseteq Signed
        /\ leader \in Honest =>
            /\ Cardinality(m.observations) >= ObservationQuorum
            /\ OneEach(m.observations)
            /\ \A x \in m.observations :
                /\ x.seqNr = m.seqNr
                /\ x.query = broadcast[2 * m.seqNr].query

FollowersInv ==
    \A o \in Honest :
        /\ FollowerInv(o, follower[o], Sent)
        /\ \A i \in DOMAIN bufferedMessages[o] : bufferedMessages[o][i] \in Sent

\* What is committed has a quorum that prepared it.
CommitsPrepared ==
    \A o \in Honest : \A x \in follower[o].prepared :
        x.seqNr <= follower[o].committedSeqNr =>
            HasQuorum(Faulty \cup {q \in Honest : x \in follower[q].prepared})

\* What waits in a buffer is in order, and later than what is in the pools.
InOrder(o) ==
    LET b == bufferedMessages[o] IN
    /\ \A i \in DOMAIN b : Rank(b[i]) <= received[o]
    /\ \A i, j \in DOMAIN b : i < j => Rank(b[i]) < Rank(b[j])
    /\ \A m \in Pooled(follower[o]) :
        /\ Rank(m) <= received[o]
        /\ \A i \in DOMAIN b : Rank(m) < Rank(b[i])

LinksInOrder == leader \in Honest => \A o \in Honest : InOrder(o)

\* The EpochStart is at the front of the buffer until it is processed.
KeepsEpochStart(o) ==
    faults = 0 /\ received[o] <= BufferSize =>
        /\ follower[o].phase = "EarlierEpoch" =>
               Len(bufferedMessages[o]) = received[o]
        /\ follower[o].phase \in {"EarlierEpoch", "NewEpoch"} /\ received[o] # 0 =>
               /\ bufferedMessages[o] # <<>>
               /\ Head(bufferedMessages[o]) = MessageEpochStart

EpochStartsKept == leader \in Honest => \A o \in Honest : KeepsEpochStart(o)

IInv ==
    /\ Typed
    /\ BroadcastInOrder
    /\ LeaderPace
    /\ LeaderObservations
    /\ ProposalsInv
    /\ FollowersInv
    /\ CommitsPrepared
    /\ LinksInOrder
    /\ EpochStartsKept
-----------------------------------------------------------------------------
(* The functions of a follower's state.                                    *)

\* What the assumptions say of the constants.
LEMMA Constants ==
    /\ RMax \in Nat \ {0}
    /\ ObservationQuorum \in Nat \ {0}
    /\ PoolSize \in Nat \ {0}
    /\ BufferSize \in Nat \ {0}
    /\ MaxFaults \in Nat
    /\ NoQuery \notin Query
    /\ Leaders \subseteq Oracle
  BY RoundAssumption, MessagePoolAssumption

\* Put keeps the count of a pool that accepts the message.
LEMMA PutKeepsPool ==
    ASSUME NEW M, NEW pool \in PoolOf(M), NEW m \in M, m.seqNr \in SeqNr,
           NEW s \in 0..RMax, PoolInv(pool, s), Accepts(pool, m)
    PROVE  /\ Put(pool, m) \in PoolOf(M)
           /\ PoolInv(Put(pool, m), s)
           /\ Put(pool, m).entries = pool.entries \cup {m}
<1> DEFINE p == Put(pool, m)
<1>0. p = [pool EXCEPT !.entries = @ \cup {m}, !.count = @ + 1]
  BY DEF Put
<1> HIDE DEF p
<1>1. /\ p = [completedSeqNr |-> pool.completedSeqNr,
              entries |-> pool.entries \cup {m}, count |-> pool.count + 1]
      /\ pool.completedSeqNr \in 0..RMax
      /\ pool.entries \subseteq M
      /\ pool.count \in Nat
  BY <1>0 DEF PoolOf
<1>7. p \in PoolOf(M)
  BY <1>1 DEF PoolOf
<1>2. m \notin pool.entries
  BY DEF Accepts
<1>3. /\ IsFiniteSet(p.entries)
      /\ Cardinality(p.entries) = Cardinality(pool.entries) + 1
  BY <1>1, <1>2, FS_AddElement DEF PoolInv
<1>4. p.count <= PoolSize
  BY <1>1, Constants DEF Accepts, PoolOf
<1>5. /\ \A k \in p.entries : s < k.seqNr
      /\ \A k, n \in p.entries : k.seqNr = n.seqNr => k = n
  BY <1>1 DEF Accepts, PoolInv
<1>6. QED
  BY <1>1, <1>3, <1>4, <1>5, <1>7 DEF PoolInv, p

\* ReapCompleted counts down what it removes.
LEMMA ReapKeepsPool ==
    ASSUME NEW M, NEW pool \in PoolOf(M), NEW s \in 0..RMax,
           \A m \in M : m.seqNr \in SeqNr,
           NEW t \in 0..RMax, PoolInv(pool, s)
    PROVE  /\ ReapCompleted(pool, t) \in PoolOf(M)
           /\ PoolInv(ReapCompleted(pool, t), t)
           /\ ReapCompleted(pool, t).entries \subseteq pool.entries
<1> DEFINE p == ReapCompleted(pool, t)
           later == {m \in pool.entries : t < m.seqNr}
           reaped == {m \in pool.entries : m.seqNr <= t}
<1>0. p = [pool EXCEPT !.completedSeqNr = t, !.entries = later,
                       !.count = pool.count - Cardinality(reaped)]
  BY DEF ReapCompleted
<1>2. \A m \in pool.entries : m.seqNr \in Nat
  BY Constants DEF PoolOf, SeqNr
<1>3. later = pool.entries \ reaped /\ pool.entries \cap reaped = reaped
  BY <1>2
<1> HIDE DEF p, later, reaped
<1>1. /\ pool.count \in Nat
      /\ p = [completedSeqNr |-> t, entries |-> later,
              count |-> pool.count - Cardinality(reaped)]
  BY <1>0 DEF PoolOf
<1>4. /\ IsFiniteSet(later)
      /\ Cardinality(later) = Cardinality(pool.entries) - Cardinality(reaped)
  <2>1. IsFiniteSet(pool.entries)
    BY DEF PoolInv
  <2>2. /\ IsFiniteSet(pool.entries \ reaped)
        /\ Cardinality(pool.entries \ reaped)
              = Cardinality(pool.entries) - Cardinality(pool.entries \cap reaped)
    BY <2>1, FS_Difference
  <2>3. QED
    BY <1>3, <2>2
<1>5. IsFiniteSet(reaped)
  BY <1>3, FS_Subset DEF PoolInv
<1>6. /\ Cardinality(later) \in Nat
      /\ Cardinality(reaped) \in Nat
      /\ Cardinality(pool.entries) \in Nat
  BY <1>4, <1>5, FS_CardinalityType DEF PoolInv
<1>7. p.count = Cardinality(later) /\ p.count <= PoolSize /\ p.count \in Nat
  BY <1>1, <1>4, <1>6, Constants DEF PoolInv
<1>8. \A m \in later : t < m.seqNr
  BY DEF later
<1>9. later \subseteq pool.entries
  BY <1>3
<1>10. p \in PoolOf(M)
  BY <1>1, <1>7, <1>9 DEF PoolOf
<1>11. QED
  BY <1>1, <1>4, <1>7, <1>8, <1>9, <1>10 DEF PoolInv, p

\* What a step within a round changes of a follower.
Moves(f, g) ==
    /\ g.committedSeqNr = f.committedSeqNr
    /\ f.observed \subseteq g.observed
    /\ f.prepared \subseteq g.prepared
    /\ \A x \in g.prepared \ f.prepared : x.seqNr = f.committedSeqNr + 1
    /\ g.roundStartPool = f.roundStartPool
    /\ g.proposalPool = f.proposalPool
    /\ f.phase \notin {"EarlierEpoch", "NewEpoch"}
          => g.phase \notin {"EarlierEpoch", "NewEpoch"}

\* A proposal that is taken leaves the follower with one vote more.
LEMMA ProposalPoolTried ==
    ASSUME NEW o, NEW f, NEW sent, NEW ok \in SUBSET Calls,
           FollowerInv(o, f, sent)
    PROVE  /\ FollowerInv(o, TryProcessProposalPool(f, ok), sent)
           /\ Moves(f, TryProcessProposalPool(f, ok))
<1> DEFINE s == f.committedSeqNr + 1
           acceptable == {m \in Select(f.proposalPool, s) : IsAcceptable(f, m)}
           made == {[seqNr |-> s, query |-> f.query,
                     observations |-> m.observations] : m \in acceptable}
           g == TryProcessProposalPool(f, ok)
           takes == f.phase = "SentObservation" /\ acceptable # {} /\ "Outcome" \in ok
<1>0. FollowerShape(o, f, sent) /\ QueryAsked(f, sent) /\ PreparedInv(f, sent)
  BY DEF FollowerInv
<1>1. CASE ~takes
  <2>1. g = f
    BY <1>1 DEF TryProcessProposalPool
  <2>2. QED
    BY <2>1 DEF Moves
<1>2. CASE takes
  <2>1. g = [f EXCEPT !.phase = "SentPrepare", !.prepared = @ \cup made]
    BY <1>2 DEF TryProcessProposalPool
  <2>2. PICK m \in acceptable : TRUE
    BY <1>2
  <2>3. /\ m \in f.proposalPool.entries
        /\ m.seqNr = s
        /\ IsAcceptable(f, m)
        /\ m \in ProposalMessage
    BY <1>0, <2>2 DEF Select, FollowerShape, Follower, PoolOf
  <2>4. acceptable = {m}
    BY <1>0, <2>2 DEF Select, FollowerShape, PoolInv
  <2> DEFINE x == [seqNr |-> s, query |-> f.query,
                   observations |-> m.observations]
  <2>5. made = {x}
    BY <2>4
  <2>6. f.query \in Query
    BY <1>0, <1>2 DEF QueryAsked, FollowerShape, Follower
  <2>7. x \in PreparedInputs
    BY <2>3, <2>6 DEF PreparedInputs, ProposalMessage
  <2>8. m = MessageProposal(s, m.observations)
    BY <2>3 DEF ProposalMessage, MessageProposal
  <2>9. MessageProposal(x.seqNr, x.observations) \in sent
    BY <1>0, <2>3, <2>8 DEF FollowerShape, Pooled
  <2> HIDE DEF acceptable, made
  <2>10. /\ g \in Follower
         /\ g.phase = "SentPrepare"
         /\ g.prepared = f.prepared \cup {x}
         /\ g.committedSeqNr = f.committedSeqNr
         /\ g.query = f.query
         /\ g.roundStartPool = f.roundStartPool
         /\ g.proposalPool = f.proposalPool
         /\ g.observed = f.observed
    <3> HIDE DEF g, x
    <3>1. f \in Follower
      BY <1>0 DEF FollowerShape
    <3>2. QED
      BY <2>1, <2>5, <2>7, <3>1 DEF Follower, FollowerPhase
  <2> HIDE DEF g
  <2>11. FollowerShape(o, g, sent)
    BY <1>0, <1>2, <2>10 DEF FollowerShape, Pooled
  <2>12. QueryAsked(g, sent)
    BY <1>0, <1>2, <2>10 DEF QueryAsked
  <2>13. PreparedInv(g, sent)
    <3>1. f.committedSeqNr \in Nat
      BY <1>0 DEF FollowerShape, Follower
    <3>2. \A y \in f.prepared : y.seqNr <= f.committedSeqNr /\ y.seqNr \in Nat
      BY <1>0, <1>2, Constants DEF PreparedInv, FollowerShape, Follower,
                             PreparedInputs, SeqNr
    <3>3. /\ Cardinality(x.observations) >= ObservationQuorum
          /\ OneEach(x.observations)
          /\ \A y \in x.observations : y.seqNr = x.seqNr /\ y.query = x.query
      BY <2>3 DEF IsAcceptable, OneEach
    <3>4. \A y \in f.prepared : y.seqNr # x.seqNr
      BY <3>1, <3>2
    <3>5. x.seqNr = f.committedSeqNr + 1
      OBVIOUS
    <3> HIDE DEF x
    <3>6. QED
      BY <1>0, <2>9, <2>10, <3>2, <3>3, <3>4, <3>5 DEF PreparedInv
  <2>14. QED
    BY <1>2, <2>10, <2>11, <2>12, <2>13 DEF FollowerInv, Moves, g
<1>3. QED
  BY <1>1, <1>2

\* A RoundStart that is taken makes the follower observe for its query.
LEMMA RoundStartPoolTried ==
    ASSUME NEW o \in Oracle, NEW f, NEW sent, NEW ok \in SUBSET Calls,
           FollowerInv(o, f, sent)
    PROVE  /\ FollowerInv(o, TryProcessRoundStartPool(f, o, ok), sent)
           /\ Moves(f, TryProcessRoundStartPool(f, o, ok))
<1> DEFINE s == f.committedSeqNr + 1
           starts == Select(f.roundStartPool, s)
           q == (CHOOSE m \in starts : TRUE).query
           made == [observer |-> o, seqNr |-> s, query |-> q, valid |-> TRUE]
           g == TryProcessRoundStartPool(f, o, ok)
<1>1. CASE f.phase # "NewRound" \/ starts = {} \/ f.query # NoQuery
  <2>1. g = f
    BY <1>1 DEF TryProcessRoundStartPool
  <2>2. QED
    BY <2>1 DEF Moves
<1>2. CASE ~(f.phase # "NewRound" \/ starts = {} \/ f.query # NoQuery)
  <2>1. PICK m \in starts : q = m.query
    BY <1>2
  <2>2. /\ m \in RoundStartMessage
        /\ m \in sent
        /\ m.seqNr = s
    BY <2>1 DEF Select, FollowerInv, FollowerShape, Follower, PoolOf, Pooled
  <2>3. m = MessageRoundStart(s, q) /\ q \in Query /\ s \in SeqNr
    BY <2>1, <2>2 DEF RoundStartMessage, MessageRoundStart
  <2>4. made \in SignedObservation
    BY <2>3 DEF SignedObservation
  <2>5. q # NoQuery
    BY <2>3, Constants
  <2> HIDE DEF q
  <2>6. CASE "Observation" \notin ok
    <3>1. g = [f EXCEPT !.query = q]
      BY <1>2, <2>6 DEF TryProcessRoundStartPool, q
    <3>2. /\ g \in Follower
          /\ g.phase = f.phase
          /\ g.prepared = f.prepared
          /\ g.committedSeqNr = f.committedSeqNr
          /\ g.query = q
          /\ g.roundStartPool = f.roundStartPool
          /\ g.proposalPool = f.proposalPool
          /\ g.observed = f.observed
      BY <3>1, <2>3 DEF FollowerInv, FollowerShape, Follower
    <3> HIDE DEF g
    <3>3. FollowerShape(o, g, sent)
      BY <1>2, <3>2 DEF FollowerInv, FollowerShape, Pooled
    <3>4. QueryAsked(g, sent)
      BY <1>2, <2>2, <2>3, <3>2 DEF FollowerInv, QueryAsked
    <3>5. PreparedInv(g, sent)
      BY <1>2, <3>2 DEF FollowerInv, PreparedInv
    <3>6. QED
      BY <1>2, <3>2, <3>3, <3>4, <3>5 DEF FollowerInv, Moves, g
  <2>7. CASE "Observation" \in ok
    <3> DEFINE h == [f EXCEPT !.query = q, !.phase = "SentObservation",
                              !.observed = @ \cup {made}]
    <3>1. g = TryProcessProposalPool(h, ok)
      BY <1>2, <2>7 DEF TryProcessRoundStartPool, q
    <3>2. /\ h \in Follower
          /\ h.phase = "SentObservation"
          /\ h.prepared = f.prepared
          /\ h.committedSeqNr = f.committedSeqNr
          /\ h.query = q
          /\ h.roundStartPool = f.roundStartPool
          /\ h.proposalPool = f.proposalPool
          /\ h.observed = f.observed \cup {made}
      BY <2>3, <2>4 DEF FollowerInv, FollowerShape, Follower, FollowerPhase
    <3>3. made.observer = o
      OBVIOUS
    <3> HIDE DEF g, h, made
    <3>4. FollowerShape(o, h, sent)
      BY <1>2, <3>2, <3>3 DEF FollowerInv, FollowerShape, Pooled
    <3>5. QueryAsked(h, sent)
      BY <2>2, <2>3, <2>5, <3>2 DEF QueryAsked
    <3>6. PreparedInv(h, sent)
      BY <1>2, <3>2 DEF FollowerInv, PreparedInv
    <3>7. FollowerInv(o, g, sent) /\ Moves(h, g)
      BY <3>1, <3>4, <3>5, <3>6, ProposalPoolTried DEF FollowerInv
    <3>8. Moves(f, g)
      BY <3>2, <3>7 DEF Moves
    <3>9. QED
      BY <3>7, <3>8 DEF g
  <2>8. QED
    BY <2>6, <2>7
<1>3. QED
  BY <1>1, <1>2

\* A round begins without a query, and with what the pools hold for it.
LEMMA NewRoundKeeps ==
    ASSUME NEW o \in Oracle, NEW f \in Follower, NEW sent, NEW ok \in SUBSET Calls,
           NEW h, h = [f EXCEPT !.phase = "NewRound", !.query = NoQuery],
           FollowerShape(o, h, sent), PreparedInv(h, sent)
    PROVE  /\ FollowerInv(o, StartSubsequentFollowerRound(f, o, ok), sent)
           /\ Moves(h, StartSubsequentFollowerRound(f, o, ok))
<1>1. h.phase = "NewRound" /\ h.query = NoQuery
  BY DEF Follower
<1>2. QueryAsked(h, sent)
  BY <1>1 DEF QueryAsked
<1>3. FollowerInv(o, h, sent)
  BY <1>2 DEF FollowerInv
<1>4. StartSubsequentFollowerRound(f, o, ok) = TryProcessRoundStartPool(h, o, ok)
  BY DEF StartSubsequentFollowerRound
<1>5. QED
  BY <1>3, <1>4, RoundStartPoolTried

\* What processing a message of the leader changes of a follower.
Processed(f, m, g) ==
    /\ g.committedSeqNr = f.committedSeqNr
    /\ f.observed \subseteq g.observed
    /\ f.prepared \subseteq g.prepared
    /\ \A x \in g.prepared \ f.prepared : x.seqNr = f.committedSeqNr + 1
    /\ Pooled(g) \subseteq Pooled(f) \cup {m}
    /\ m.type = "RoundStart" /\ Accepts(f.roundStartPool, m) => m \in Pooled(g)
    /\ m.type = "Proposal" /\ Accepts(f.proposalPool, m) => m \in Pooled(g)
    /\ g.phase # "EarlierEpoch"
    /\ f.phase # "NewEpoch" \/ m.type = "EpochStart" => g.phase # "NewEpoch"

\* messageEpochStart, messageRoundStart and messageProposal keep what a follower
\* guarantees.
LEMMA ProcessKeeps ==
    ASSUME NEW o \in Oracle, NEW f, NEW sent, NEW ok \in SUBSET Calls,
           NEW m \in Message, m \in sent, FollowerInv(o, f, sent),
           f.phase # "EarlierEpoch"
    PROVE  /\ FollowerInv(o, Process(f, o, m, ok), sent)
           /\ Processed(f, m, Process(f, o, m, ok))
<1> DEFINE g == Process(f, o, m, ok)
<1>0. f \in Follower /\ FollowerShape(o, f, sent)
  BY DEF FollowerInv, FollowerShape
<1>1. CASE m.type = "EpochStart"
  <2>1. CASE f.phase # "NewEpoch"
    <3>1. g = f
      BY <1>1, <2>1 DEF Process
    <3>2. QED
      BY <1>1, <2>1, <3>1 DEF Processed
  <2>2. CASE f.phase = "NewEpoch"
    <3> DEFINE h == [f EXCEPT !.phase = "NewRound", !.query = NoQuery]
    <3>1. g = StartSubsequentFollowerRound(f, o, ok)
      BY <1>1, <2>2 DEF Process
    <3>2. /\ h \in Follower
          /\ h.phase = "NewRound"
          /\ h.prepared = f.prepared
          /\ h.committedSeqNr = f.committedSeqNr
          /\ h.roundStartPool = f.roundStartPool
          /\ h.proposalPool = f.proposalPool
          /\ h.observed = f.observed
      BY <1>0 DEF Follower, FollowerPhase
    <3>3. h = [f EXCEPT !.phase = "NewRound", !.query = NoQuery]
      OBVIOUS
    <3> HIDE DEF h, g
    <3>4. FollowerShape(o, h, sent)
      BY <1>0, <2>2, <3>2 DEF FollowerShape, Pooled
    <3>5. PreparedInv(h, sent)
      BY <2>2, <3>2 DEF FollowerInv, PreparedInv
    <3>6. FollowerInv(o, g, sent) /\ Moves(h, g)
      BY <1>0, <3>1, <3>3, <3>4, <3>5, NewRoundKeeps
    <3>7. Processed(f, m, g)
      BY <1>1, <3>2, <3>6 DEF Moves, Processed, Pooled
    <3>8. QED
      BY <3>6, <3>7 DEF g
  <2>3. QED
    BY <2>1, <2>2
<1>2. CASE m.type = "RoundStart"
  <2>1. CASE ~Accepts(f.roundStartPool, m)
    <3>1. g = f
      BY <1>2, <2>1 DEF Process
    <3>2. QED
      BY <1>2, <2>1, <3>1 DEF Processed
  <2>2. CASE Accepts(f.roundStartPool, m)
    <3> DEFINE h == [f EXCEPT !.roundStartPool = Put(@, m)]
    <3>1. g = TryProcessRoundStartPool(h, o, ok)
      BY <1>2, <2>2 DEF Process
    <3>2. m \in RoundStartMessage /\ m.seqNr \in SeqNr
      BY <1>2 DEF Message, MessageEpochStart, ProposalMessage, RoundStartMessage
    <3> DEFINE pool == f.roundStartPool
               p == Put(pool, m)
               s == f.committedSeqNr
    <3>3. /\ pool \in PoolOf(RoundStartMessage)
          /\ PoolInv(pool, s)
          /\ s \in 0..RMax
          /\ Accepts(pool, m)
      BY <1>0, <2>2 DEF FollowerShape, Follower
    <3>4. h = [f EXCEPT !.roundStartPool = p]
      OBVIOUS
    <3> HIDE DEF h, p, pool, s, g
    <3>5. /\ p \in PoolOf(RoundStartMessage)
          /\ PoolInv(p, s)
          /\ p.entries = pool.entries \cup {m}
      BY <3>2, <3>3, PutKeepsPool DEF p
    <3>6. /\ h \in Follower
          /\ h.phase = f.phase
          /\ h.prepared = f.prepared
          /\ h.committedSeqNr = f.committedSeqNr
          /\ h.query = f.query
          /\ h.roundStartPool = p
          /\ h.proposalPool = f.proposalPool
          /\ h.observed = f.observed
      BY <1>0, <3>4, <3>5 DEF Follower
    <3>7. FollowerShape(o, h, sent)
      BY <1>0, <3>5, <3>6 DEF FollowerShape, Pooled, pool, s
    <3>8. QueryAsked(h, sent) /\ PreparedInv(h, sent)
      BY <3>6 DEF FollowerInv, QueryAsked, PreparedInv
    <3>9. FollowerInv(o, g, sent) /\ Moves(h, g)
      BY <3>1, <3>7, <3>8, RoundStartPoolTried DEF FollowerInv
    <3>10. g.phase # "EarlierEpoch" /\ (f.phase # "NewEpoch" => g.phase # "NewEpoch")
      <4>1. CASE f.phase # "NewEpoch"
        BY <3>6, <3>9, <4>1 DEF Moves
      <4>2. CASE f.phase = "NewEpoch"
        BY <3>1, <3>6, <4>2 DEF TryProcessRoundStartPool
      <4>3. QED
        BY <4>1, <4>2
    <3>11. Processed(f, m, g)
      BY <1>2, <3>5, <3>6, <3>9, <3>10 DEF Moves, Processed, Pooled, pool
    <3>12. QED
      BY <3>9, <3>11 DEF g
  <2>3. QED
    BY <2>1, <2>2
<1>3. CASE m.type = "Proposal"
  <2>1. CASE ~Accepts(f.proposalPool, m)
    <3>1. g = f
      BY <1>3, <2>1 DEF Process
    <3>2. QED
      BY <1>3, <2>1, <3>1 DEF Processed
  <2>2. CASE Accepts(f.proposalPool, m)
    <3> DEFINE h == [f EXCEPT !.proposalPool = Put(@, m)]
    <3>1. g = TryProcessProposalPool(h, ok)
      BY <1>3, <2>2 DEF Process
    <3>2. m \in ProposalMessage /\ m.seqNr \in SeqNr
      BY <1>3 DEF Message, MessageEpochStart, ProposalMessage, RoundStartMessage
    <3> DEFINE pool == f.proposalPool
               p == Put(pool, m)
               s == f.committedSeqNr
    <3>3. /\ pool \in PoolOf(ProposalMessage)
          /\ PoolInv(pool, s)
          /\ s \in 0..RMax
          /\ Accepts(pool, m)
      BY <1>0, <2>2 DEF FollowerShape, Follower
    <3>4. h = [f EXCEPT !.proposalPool = p]
      OBVIOUS
    <3> HIDE DEF h, p, pool, s, g
    <3>5. /\ p \in PoolOf(ProposalMessage)
          /\ PoolInv(p, s)
          /\ p.entries = pool.entries \cup {m}
      BY <3>2, <3>3, PutKeepsPool DEF p
    <3>6. /\ h \in Follower
          /\ h.phase = f.phase
          /\ h.prepared = f.prepared
          /\ h.committedSeqNr = f.committedSeqNr
          /\ h.query = f.query
          /\ h.roundStartPool = f.roundStartPool
          /\ h.proposalPool = p
          /\ h.observed = f.observed
      BY <1>0, <3>4, <3>5 DEF Follower
    <3>7. FollowerShape(o, h, sent)
      BY <1>0, <3>5, <3>6 DEF FollowerShape, Pooled, pool, s
    <3>8. QueryAsked(h, sent) /\ PreparedInv(h, sent)
      BY <3>6 DEF FollowerInv, QueryAsked, PreparedInv
    <3>9. FollowerInv(o, g, sent) /\ Moves(h, g)
      BY <3>1, <3>7, <3>8, ProposalPoolTried DEF FollowerInv
    <3>10. g.phase # "EarlierEpoch" /\ (f.phase # "NewEpoch" => g.phase # "NewEpoch")
      <4>1. CASE f.phase # "NewEpoch"
        BY <3>6, <3>9, <4>1 DEF Moves
      <4>2. CASE f.phase = "NewEpoch"
        BY <3>1, <3>6, <4>2 DEF TryProcessProposalPool
      <4>3. QED
        BY <4>1, <4>2
    <3>11. Processed(f, m, g)
      BY <1>3, <3>5, <3>6, <3>9, <3>10 DEF Moves, Processed, Pooled, pool
    <3>12. QED
      BY <3>9, <3>11 DEF g
  <2>3. QED
    BY <2>1, <2>2
<1>4. m.type \in {"EpochStart", "RoundStart", "Proposal"}
  BY DEF Message, MessageEpochStart, RoundStartMessage, ProposalMessage
<1>5. QED
  BY <1>1, <1>2, <1>3, <1>4

\* What a follower is after it has committed: in the next round, or done.
AfterCommit(f, o, ok) ==
    IF Committed(f).committedSeqNr = RMax THEN Committed(f)
    ELSE StartSubsequentFollowerRound(Committed(f), o, ok)

\* A commit is for the next sequence number.
LEMMA CommittedCounts ==
    ASSUME NEW o, NEW f, NEW sent, FollowerInv(o, f, sent)
    PROVE  Committed(f).committedSeqNr = f.committedSeqNr + 1
  BY DEF FollowerInv, FollowerShape, Follower, Committed

\* A commit, and the round that starts after it, keep what a follower guarantees.
LEMMA CommitKeeps ==
    ASSUME NEW o \in Oracle, NEW f, NEW sent, NEW ok \in SUBSET Calls,
           FollowerInv(o, f, sent), f.phase = "SentPrepare",
           NEW g, g = AfterCommit(f, o, ok)
    PROVE  /\ FollowerInv(o, g, sent)
           /\ Committed(f).committedSeqNr = f.committedSeqNr + 1
           /\ f.committedSeqNr < RMax
           /\ g.committedSeqNr = f.committedSeqNr + 1
           /\ f.observed \subseteq g.observed
           /\ f.prepared \subseteq g.prepared
           /\ \A x \in g.prepared \ f.prepared : x.seqNr = g.committedSeqNr + 1
           /\ Pooled(g) \subseteq Pooled(f)
           /\ g.phase \notin {"EarlierEpoch", "NewEpoch"}
<1> DEFINE c == f.committedSeqNr
           s == c + 1
           d == Committed(f)
           p == ReapCompleted(f.roundStartPool, s)
           r == ReapCompleted(f.proposalPool, s)
<1>1. /\ f \in Follower
      /\ c \in 0..RMax
      /\ f.roundStartPool \in PoolOf(RoundStartMessage)
      /\ f.proposalPool \in PoolOf(ProposalMessage)
      /\ PoolInv(f.roundStartPool, c)
      /\ PoolInv(f.proposalPool, c)
      /\ c # RMax
      /\ Pooled(f) \subseteq sent
      /\ \A x \in f.observed : x.observer = o
      /\ PreparedInv(f, sent)
  BY DEF FollowerInv, FollowerShape, Follower
<1>2. s \in 0..RMax /\ c < RMax
  BY <1>1, Constants
<1>3. /\ \A m \in RoundStartMessage : m.seqNr \in SeqNr
      /\ \A m \in ProposalMessage : m.seqNr \in SeqNr
  BY DEF RoundStartMessage, ProposalMessage
<1>4. d = [f EXCEPT !.committedSeqNr = s, !.phase = "SentCommit",
                    !.roundStartPool = p, !.proposalPool = r]
  BY DEF Committed
<1> HIDE DEF p, r, d, s, c
<1>5. /\ p \in PoolOf(RoundStartMessage)
      /\ PoolInv(p, s)
      /\ p.entries \subseteq f.roundStartPool.entries
  BY <1>1, <1>2, <1>3, ReapKeepsPool DEF p
<1>6. /\ r \in PoolOf(ProposalMessage)
      /\ PoolInv(r, s)
      /\ r.entries \subseteq f.proposalPool.entries
  BY <1>1, <1>2, <1>3, ReapKeepsPool DEF r
<1>7. /\ d \in Follower
      /\ d.phase = "SentCommit"
      /\ d.prepared = f.prepared
      /\ d.committedSeqNr = s
      /\ d.roundStartPool = p
      /\ d.proposalPool = r
      /\ d.observed = f.observed
  BY <1>1, <1>2, <1>4, <1>5, <1>6 DEF Follower, FollowerPhase
<1>8. Pooled(d) \subseteq Pooled(f)
  BY <1>5, <1>6, <1>7 DEF Pooled
<1>9. \A x \in f.prepared : x.seqNr <= s
  BY <1>1 DEF PreparedInv, s, c, Follower, PreparedInputs, SeqNr
<1>10. CASE s = RMax
  <2>1. g = d
    BY <1>7, <1>10 DEF AfterCommit, d
  <2>2. FollowerShape(o, d, sent)
    BY <1>1, <1>5, <1>6, <1>7, <1>8, <1>10 DEF FollowerShape
  <2>3. QueryAsked(d, sent)
    BY <1>7 DEF QueryAsked
  <2>4. PreparedInv(d, sent)
    BY <1>1, <1>7, <1>9 DEF PreparedInv
  <2>5. FollowerInv(o, g, sent)
    BY <2>1, <2>2, <2>3, <2>4 DEF FollowerInv
  <2>6. QED
    BY <1>2, <1>7, <1>8, <2>1, <2>5 DEF d, s, c
<1>11. CASE s # RMax
  <2> DEFINE h == [d EXCEPT !.phase = "NewRound", !.query = NoQuery]
  <2>1. g = StartSubsequentFollowerRound(d, o, ok)
    BY <1>7, <1>11 DEF AfterCommit, d
  <2>2. /\ h \in Follower
        /\ h.phase = "NewRound"
        /\ h.prepared = f.prepared
        /\ h.committedSeqNr = s
        /\ h.roundStartPool = p
        /\ h.proposalPool = r
        /\ h.observed = f.observed
    BY <1>7 DEF Follower, FollowerPhase
  <2>3. h = [d EXCEPT !.phase = "NewRound", !.query = NoQuery]
    OBVIOUS
  <2> HIDE DEF h
  <2>4. FollowerShape(o, h, sent)
    BY <1>1, <1>5, <1>6, <1>7, <1>8, <1>11, <2>2 DEF FollowerShape, Pooled
  <2>5. PreparedInv(h, sent)
    BY <1>1, <1>9, <2>2 DEF PreparedInv
  <2>6. FollowerInv(o, g, sent) /\ Moves(h, g)
    BY <1>7, <2>1, <2>3, <2>4, <2>5, NewRoundKeeps
  <2>7. Pooled(g) \subseteq Pooled(f)
    BY <1>7, <1>8, <2>2, <2>6 DEF Moves, Pooled
  <2>8. QED
    BY <1>2, <1>7, <2>2, <2>6, <2>7 DEF Moves, d, s, c
<1>12. QED
  BY <1>10, <1>11

\* A commit is for the next sequence number, a vote after it for the one after that.
LEMMA CommitCounts ==
    ASSUME NEW o \in Oracle, NEW f, NEW sent, NEW ok \in SUBSET Calls,
           FollowerInv(o, f, sent), f.phase = "SentPrepare"
    PROVE  /\ AfterCommit(f, o, ok).committedSeqNr = f.committedSeqNr + 1
           /\ \A x \in AfterCommit(f, o, ok).prepared \ f.prepared :
                  x.seqNr = AfterCommit(f, o, ok).committedSeqNr + 1
<1> DEFINE g == AfterCommit(f, o, ok)
<1>1. g = AfterCommit(f, o, ok)
  OBVIOUS
<1> HIDE DEF g
<1>2. /\ g.committedSeqNr = f.committedSeqNr + 1
      /\ \A x \in g.prepared \ f.prepared : x.seqNr = g.committedSeqNr + 1
  BY <1>1, CommitKeeps
<1>3. QED
  BY <1>1, <1>2

\* More may be sent later.
LEMMA MoreSent ==
    ASSUME NEW o, NEW f, NEW sent, NEW more, sent \subseteq more,
           FollowerInv(o, f, sent)
    PROVE  FollowerInv(o, f, more)
<1>1. FollowerShape(o, f, more)
  BY DEF FollowerInv, FollowerShape
<1>2. QueryAsked(f, more)
  BY DEF FollowerInv, QueryAsked
<1>3. PreparedInv(f, more)
  BY DEF FollowerInv, PreparedInv
<1>4. QED
  BY <1>1, <1>2, <1>3 DEF FollowerInv
-----------------------------------------------------------------------------
(* The steps of the followers.                                             *)

\* A follower that has just started guarantees all that one does.
LEMMA NewFollowerKeeps ==
    ASSUME NEW o, NEW sent, NEW phase \in {"EarlierEpoch", "NewEpoch", "NewRound"}
    PROVE  /\ FollowerInv(o, NewFollower(phase), sent)
           /\ Pooled(NewFollower(phase)) = {}
           /\ NewFollower(phase).phase = phase
           /\ NewFollower(phase).committedSeqNr = 0
           /\ NewFollower(phase).prepared = {}
           /\ NewFollower(phase).observed = {}
<1> DEFINE f == NewFollower(phase)
<1>1. NewPool.entries = {} /\ NewPool.completedSeqNr = 0 /\ NewPool.count = 0
  BY DEF NewPool
<1>2. \A M : NewPool \in PoolOf(M)
  BY Constants DEF NewPool, PoolOf
<1>3. PoolInv(NewPool, 0)
  BY <1>1, FS_EmptySet, Constants DEF PoolInv
<1>4. /\ f \in Follower
      /\ f.phase = phase
      /\ f.committedSeqNr = 0
      /\ f.query = NoQuery
      /\ f.roundStartPool = NewPool
      /\ f.proposalPool = NewPool
      /\ f.observed = {}
      /\ f.prepared = {}
  BY <1>2, Constants DEF NewFollower, Follower, FollowerPhase
<1>5. phase = "EarlierEpoch" => f = NewFollower("EarlierEpoch")
  OBVIOUS
<1> HIDE DEF f
<1>6. FollowerShape(o, f, sent)
  BY <1>1, <1>3, <1>4, <1>5, Constants DEF FollowerShape, Pooled
<1>7. QueryAsked(f, sent) /\ PreparedInv(f, sent)
  BY <1>4 DEF QueryAsked, PreparedInv
<1>8. QED
  BY <1>1, <1>4, <1>6, <1>7 DEF FollowerInv, Pooled, f

\* The quorum that tryProcessCommitPool needs.
CommitQuorumFor(o) ==
    HasQuorum(Faulty \cup
        {q \in Honest :
            {x \in follower[o].prepared :
                x.seqNr = follower[o].committedSeqNr + 1}
            \subseteq follower[q].prepared})

EntersEpoch(o) ==
    /\ follower[o].phase = "EarlierEpoch"
    /\ follower'[o] = NewFollower("NewEpoch")

Processes(o, m) ==
    /\ follower[o].phase # "EarlierEpoch"
    /\ \E ok \in SUBSET Calls : follower'[o] = Process(follower[o], o, m, ok)

Commits(o) ==
    /\ follower[o].phase = "SentPrepare"
    /\ CommitQuorumFor(o)
    /\ \E ok \in SUBSET Calls : follower'[o] = AfterCommit(follower[o], o, ok)

\* What a step of the system is for one follower.
FollowerStep(o) ==
    \/ follower'[o] = follower[o]
    \/ EntersEpoch(o)
    \/ \E m \in Sent \cap Message : Processes(o, m)
    \/ Commits(o)

\* The observations that are signed are observations.
LEMMA SignedTyped ==
    ASSUME Typed
    PROVE  Signed \subseteq SignedObservation
  BY DEF Typed, Signed, Follower

\* What ReceiveFaulty hands over is among what a faulty leader may send.
LEMMA FaultyLeaderSends ==
    ASSUME Typed, leader \notin Honest, NEW s \in SeqNr,
           NEW m \in {MessageRoundStart(s, q) : q \in Query}
                     \cup {MessageProposal(s, obs) :
                              obs \in SUBSET {x \in Signed : x.seqNr = s}}
    PROVE  m \in Sent \cap Message
<1>1. CASE m \in {MessageRoundStart(s, q) : q \in Query}
  <2>1. PICK q \in Query : m = MessageRoundStart(s, q)
    BY <1>1
  <2>2. m \in Sent
    BY <2>1 DEF Sent
  <2>3. m \in Message
    BY <2>1 DEF Message, MessageRoundStart, RoundStartMessage
  <2>4. QED
    BY <2>2, <2>3
<1>2. CASE m \in {MessageProposal(s, obs) :
                     obs \in SUBSET {x \in Signed : x.seqNr = s}}
  <2>1. PICK obs \in SUBSET Signed : m = MessageProposal(s, obs)
    BY <1>2
  <2>2. m \in Sent
    BY <2>1 DEF Sent
  <2>3. m \in Message
    BY <2>1, SignedTyped DEF Message, MessageProposal, ProposalMessage
  <2>4. QED
    BY <2>2, <2>3
<1>3. QED
  BY <1>1, <1>2

\* messageToOutcomeGeneration moves one follower, if it is not buffering.
LEMMA MessageProcessed ==
    ASSUME Typed, NEW o \in Honest, NEW m \in Sent \cap Message,
           NEW ok \in SUBSET Calls, MessageToOutcomeGeneration(o, m, ok)
    PROVE  /\ follower' = [q \in Honest |-> follower'[q]]
           /\ \A q \in Honest : FollowerStep(q)
<1>1. CASE follower[o].phase = "EarlierEpoch"
  BY <1>1 DEF MessageToOutcomeGeneration, Typed, FollowerStep
<1>2. CASE follower[o].phase # "EarlierEpoch"
  <2>1. follower' = [follower EXCEPT ![o] = Process(@, o, m, ok)]
    BY <1>2 DEF MessageToOutcomeGeneration
  <2>2. /\ follower'[o] = Process(follower[o], o, m, ok)
        /\ \A q \in Honest \ {o} : follower'[q] = follower[q]
        /\ follower' = [q \in Honest |-> follower'[q]]
    BY <2>1 DEF Typed
  <2>3. Processes(o, m)
    BY <1>2, <2>2 DEF Processes
  <2>4. QED
    BY <2>2, <2>3 DEF FollowerStep
<1>3. QED
  BY <1>1, <1>2

\* The message that arrives is the next one that was broadcast.
LEMMA Received ==
    ASSUME Typed, NEW o \in Honest, NEW ok \in SUBSET Calls, Receive(o, ok)
    PROVE  /\ received'[o] = received[o] + 1
           /\ received' \in [Honest -> Nat]
           /\ \A q \in Honest \ {o} : received'[q] = received[q]
           /\ received'[o] \in DOMAIN broadcast
           /\ broadcast[received'[o]] \in Sent \cap Message
<1>1. /\ received'[o] = received[o] + 1
      /\ received' \in [Honest -> Nat]
      /\ \A q \in Honest \ {o} : received'[q] = received[q]
      /\ received[o] \in Nat
      /\ received[o] < Len(broadcast)
      /\ broadcast \in Seq(Message)
      /\ leader \in Honest
  BY DEF Receive, Typed
<1>2. received'[o] \in DOMAIN broadcast
  BY <1>1
<1>3. QED
  BY <1>1, <1>2 DEF Sent

\* unbufferMessages hands over the front of the buffer, which the leader has sent.
LEMMA Unbuffered ==
    ASSUME Typed, FollowersInv, NEW o \in Honest, NEW ok \in SUBSET Calls,
           UnbufferMessage(o, ok)
    PROVE  /\ bufferedMessages[o] # <<>>
           /\ follower[o].phase # "EarlierEpoch"
           /\ Head(bufferedMessages[o]) = bufferedMessages[o][1]
           /\ Head(bufferedMessages[o]) \in Sent \cap Message
           /\ bufferedMessages[o] \in Seq(Message)
           /\ bufferedMessages'[o] = Tail(bufferedMessages[o])
           /\ bufferedMessages' \in [Honest -> Seq(Message)]
           /\ \A q \in Honest \ {o} : bufferedMessages'[q] = bufferedMessages[q]
<1>1. /\ bufferedMessages[o] # <<>>
      /\ follower[o].phase # "EarlierEpoch"
      /\ bufferedMessages[o] \in Seq(Message)
  BY DEF UnbufferMessage, Idle, Typed
<1>2. /\ Head(bufferedMessages[o]) = bufferedMessages[o][1]
      /\ 1 \in DOMAIN bufferedMessages[o]
      /\ Head(bufferedMessages[o]) \in Message
      /\ Tail(bufferedMessages[o]) \in Seq(Message)
  BY <1>1
<1>3. Head(bufferedMessages[o]) \in Sent
  BY <1>2 DEF FollowersInv
<1>4. QED
  BY <1>1, <1>2, <1>3 DEF UnbufferMessage, Typed

\* Every step is one of the four for every follower.
LEMMA FollowerSteps ==
    ASSUME Typed, FollowersInv, [Next]_vars
    PROVE  /\ follower' = [q \in Honest |-> follower'[q]]
           /\ \A q \in Honest : FollowerStep(q)
<1> DEFINE Goal == /\ follower' = [q \in Honest |-> follower'[q]]
                   /\ \A q \in Honest : FollowerStep(q)
<1>0. ASSUME follower' = follower
      PROVE  Goal
  BY <1>0 DEF Typed, FollowerStep
<1>1. ASSUME NEW ok \in BOOLEAN, EventTRoundTimeout(ok)
      PROVE  Goal
  BY <1>0, <1>1 DEF EventTRoundTimeout
<1>2. ASSUME NEW x \in Signed, MessageObservation(x)
      PROVE  Goal
  BY <1>0, <1>2 DEF MessageObservation
<1>3. ASSUME EventTGraceTimeout
      PROVE  Goal
  BY <1>0, <1>3 DEF EventTGraceTimeout
<1>4. ASSUME NEW o \in Honest, EventNewEpochStart(o)
      PROVE  Goal
  BY <1>4 DEF EventNewEpochStart, Typed, FollowerStep, EntersEpoch
<1>5. ASSUME NEW o \in Honest, NEW ok \in SUBSET Calls, UnbufferMessage(o, ok)
      PROVE  Goal
  <2> DEFINE m == Head(bufferedMessages[o])
  <2>1. follower[o].phase # "EarlierEpoch" /\ m \in Sent \cap Message
    BY <1>5, Unbuffered
  <2>2. follower' = [follower EXCEPT ![o] = Process(@, o, m, ok)]
    BY <1>5 DEF UnbufferMessage
  <2> HIDE DEF m
  <2>3. /\ follower'[o] = Process(follower[o], o, m, ok)
        /\ \A q \in Honest \ {o} : follower'[q] = follower[q]
        /\ follower' = [q \in Honest |-> follower'[q]]
    BY <2>2 DEF Typed
  <2>4. Processes(o, m)
    BY <2>1, <2>3 DEF Processes
  <2>5. QED
    BY <2>1, <2>3, <2>4 DEF FollowerStep
<1>6. ASSUME NEW o \in Honest, NEW ok \in SUBSET Calls, Receive(o, ok)
      PROVE  Goal
  <2>1. broadcast[received'[o]] \in Sent \cap Message
    BY <1>6, Received
  <2>2. MessageToOutcomeGeneration(o, broadcast[received'[o]], ok)
    BY <1>6 DEF Receive
  <2> HIDE DEF Goal
  <2>3. QED
    BY <2>1, <2>2, MessageProcessed DEF Goal
<1>7. ASSUME NEW o \in Honest, NEW ok \in SUBSET Calls, NEW queryOk \in BOOLEAN,
             TryProcessCommitPool(o, ok, queryOk)
      PROVE  Goal
  <2> DEFINE f == Committed(follower[o])
  <2>1. o \in Oracle
    BY DEF Honest
  <2>2. follower[o].phase = "SentPrepare"
    BY <1>7 DEF TryProcessCommitPool
  <2>3. f.committedSeqNr = follower[o].committedSeqNr + 1
    BY CommittedCounts DEF FollowersInv
  <2>4. CommitQuorumFor(o)
    BY <1>7, <2>3 DEF TryProcessCommitPool, CommitQuorumFor
  <2>5. follower' = [follower EXCEPT ![o] = AfterCommit(@, o, ok)]
    <3>1. follower' = [follower EXCEPT
              ![o] = IF f.committedSeqNr = RMax THEN f
                     ELSE StartSubsequentFollowerRound(f, o, ok)]
      <4> HIDE DEF f
      <4>1. \/ f.committedSeqNr = RMax /\ follower' = [follower EXCEPT ![o] = f]
            \/ /\ f.committedSeqNr < RMax
               /\ follower' = [follower EXCEPT
                      ![o] = StartSubsequentFollowerRound(f, o, ok)]
        BY <1>7 DEF TryProcessCommitPool, f
      <4>2. f.committedSeqNr < RMax => f.committedSeqNr # RMax
        BY Constants
      <4>3. QED
        BY <4>1, <4>2
    <3>2. QED
      BY <3>1 DEF AfterCommit
  <2>6. /\ follower'[o] = AfterCommit(follower[o], o, ok)
        /\ \A q \in Honest \ {o} : follower'[q] = follower[q]
        /\ follower' = [q \in Honest |-> follower'[q]]
    BY <2>5 DEF Typed
  <2>7. Commits(o)
    BY <2>2, <2>4, <2>6 DEF Commits
  <2>8. QED
    BY <2>6, <2>7 DEF FollowerStep
<1>8. ASSUME NEW o \in Honest, Lose(o)
      PROVE  Goal
  BY <1>0, <1>8 DEF Lose
<1>9. ASSUME NEW o \in Honest, ReceiveFaulty(o)
      PROVE  Goal
  <2>1. leader \notin Honest
    BY <1>9 DEF ReceiveFaulty, Honest
  <2>2. PICK m \in Sent \cap Message : MessageToOutcomeGeneration(o, m, Calls)
    BY <1>9, <2>1, FaultyLeaderSends DEF ReceiveFaulty
  <2>3. QED
    BY <2>2, MessageProcessed
<1>10. CASE UNCHANGED vars
  BY <1>0, <1>10 DEF vars
<1>11. QED
  BY <1>1, <1>2, <1>3, <1>4, <1>5, <1>6, <1>7, <1>8, <1>9, <1>10 DEF Next

Grown(f, g) ==
    /\ f.committedSeqNr <= g.committedSeqNr
    /\ f.observed \subseteq g.observed
    /\ f.prepared \subseteq g.prepared

\* Every step keeps what a follower guarantees, given what has been sent before it.
LEMMA FollowersKept ==
    ASSUME Typed, FollowersInv, [Next]_vars
    PROVE  /\ follower' \in [Honest -> Follower]
           /\ \A o \in Honest :
                /\ FollowerInv(o, follower'[o], Sent)
                /\ Grown(follower[o], follower'[o])
<1>1. ASSUME NEW o \in Honest
      PROVE  /\ FollowerInv(o, follower'[o], Sent)
             /\ Grown(follower[o], follower'[o])
  <2>0. /\ FollowerInv(o, follower[o], Sent)
        /\ o \in Oracle
        /\ follower[o].committedSeqNr \in Nat
    BY DEF FollowersInv, FollowerInv, FollowerShape, Follower, Honest
  <2>1. CASE follower'[o] = follower[o]
    BY <2>0, <2>1 DEF Grown
  <2>2. CASE EntersEpoch(o)
    <3>1. follower[o] = NewFollower("EarlierEpoch")
      BY <2>0, <2>2 DEF EntersEpoch, FollowerInv, FollowerShape
    <3>2. follower'[o] = NewFollower("NewEpoch")
      BY <2>2 DEF EntersEpoch
    <3>3. FollowerInv(o, follower'[o], Sent)
      BY <3>2, NewFollowerKeeps
    <3>4. /\ NewFollower("EarlierEpoch").committedSeqNr = 0
          /\ NewFollower("EarlierEpoch").observed = {}
          /\ NewFollower("EarlierEpoch").prepared = {}
          /\ NewFollower("NewEpoch").committedSeqNr = 0
      BY NewFollowerKeeps
    <3>5. Grown(follower[o], follower'[o])
      BY <3>1, <3>2, <3>4 DEF Grown
    <3>6. QED
      BY <3>3, <3>5
  <2>3. ASSUME NEW m \in Sent \cap Message, Processes(o, m)
        PROVE  /\ FollowerInv(o, follower'[o], Sent)
               /\ Grown(follower[o], follower'[o])
    <3>1. PICK ok \in SUBSET Calls : follower'[o] = Process(follower[o], o, m, ok)
      BY <2>3 DEF Processes
    <3>2. /\ FollowerInv(o, follower'[o], Sent)
          /\ Processed(follower[o], m, follower'[o])
      BY <2>0, <2>3, <3>1, ProcessKeeps DEF Processes
    <3>3. QED
      BY <2>0, <3>2 DEF Processed, Grown
  <2>4. CASE Commits(o)
    <3>1. PICK ok \in SUBSET Calls : follower'[o] = AfterCommit(follower[o], o, ok)
      BY <2>4 DEF Commits
    <3>2. follower[o].phase = "SentPrepare"
      BY <2>4 DEF Commits
    <3> DEFINE h == follower[o]
               g == follower'[o]
    <3>3. g = AfterCommit(h, o, ok) /\ h.phase = "SentPrepare"
          /\ FollowerInv(o, h, Sent)
      BY <2>0, <3>1, <3>2
    <3> HIDE DEF h, g
    <3>4. /\ FollowerInv(o, g, Sent)
          /\ g.committedSeqNr = h.committedSeqNr + 1
          /\ h.observed \subseteq g.observed
          /\ h.prepared \subseteq g.prepared
      BY <2>0, <3>3, CommitKeeps
    <3>5. QED
      BY <2>0, <3>4 DEF Grown, h, g
  <2>5. QED
    BY <2>1, <2>2, <2>3, <2>4, FollowerSteps DEF FollowerStep
<1>2. \A o \in Honest : follower'[o] \in Follower
  BY <1>1 DEF FollowerInv, FollowerShape
<1>3. QED
  BY <1>1, <1>2, FollowerSteps

\* What is signed stays signed.
LEMMA SignedGrows ==
    ASSUME Typed, FollowersInv, [Next]_vars
    PROVE  Signed \subseteq Signed'
  BY FollowersKept DEF Signed, Grown
-----------------------------------------------------------------------------
(* The steps of the leader.                                                *)

\* There are at most as many observations as oracles, if each made one.
LEMMA OneEachFinite ==
    ASSUME NEW obs \in SUBSET SignedObservation, OneEach(obs),
           NEW T \in SUBSET Oracle, \A x \in obs : x.observer \in T
    PROVE  IsFiniteSet(obs) /\ Cardinality(obs) <= Cardinality(T)
<1> DEFINE f == [x \in obs |-> x.observer]
<1>1. f \in Injection(obs, T)
  BY DEF OneEach, Injection, IsInjective
<1>2. IsFiniteSet(T)
  BY FS_Subset, OracleAssumption
<1>3. QED
  BY <1>1, <1>2, FS_Injection

\* Observations of which there is one of each observer are finitely many.
LEMMA SignedFinite ==
    ASSUME NEW obs \in SUBSET SignedObservation, OneEach(obs)
    PROVE  IsFiniteSet(obs)
<1>1. \A x \in obs : x.observer \in Oracle
  BY DEF SignedObservation
<1>2. QED
  BY <1>1, OneEachFinite

\* The messages have the ranks of their types.
LEMMA Ranks ==
    ASSUME NEW m \in Message
    PROVE  /\ m.seqNr \in 0..RMax
           /\ Rank(m) \in Nat
           /\ m.type = "RoundStart" =>
                /\ Rank(m) = 2 * m.seqNr
                /\ m.seqNr \in SeqNr
                /\ m.query \in Query
                /\ m = MessageRoundStart(m.seqNr, m.query)
           /\ m.type = "Proposal" =>
                /\ Rank(m) = 2 * m.seqNr + 1
                /\ m.seqNr \in SeqNr
                /\ m.observations \subseteq SignedObservation
                /\ m = MessageProposal(m.seqNr, m.observations)
           /\ m.type = "EpochStart" => m = MessageEpochStart /\ Rank(m) = 1
           /\ m.type \in {"EpochStart", "RoundStart", "Proposal"}
<1>1. CASE m = MessageEpochStart
  BY <1>1, Constants DEF MessageEpochStart, Rank
<1>2. CASE m \in RoundStartMessage
  BY <1>2, Constants DEF RoundStartMessage, MessageRoundStart, Rank, SeqNr
<1>3. CASE m \in ProposalMessage
  BY <1>3, Constants DEF ProposalMessage, MessageProposal, Rank, SeqNr
<1>4. QED
  BY <1>1, <1>2, <1>3 DEF Message

\* The arithmetic of two messages in each round.
LEMMA Halves ==
    ASSUME NEW c \in Nat, NEW n \in Nat
    PROVE  /\ n = 2 * c + 1 => n \div 2 = c /\ n + 1 = 2 * (c + 1)
           /\ n = 2 * (c + 1) => n \div 2 = c + 1
           /\ n >= 2 * (c + 1) + 1 => n # 2 * (c + 1)
  OBVIOUS

\* What a commit of the leader rests on: it has proposed, and nothing since.
LEMMA CommitProposed ==
    ASSUME Typed, BroadcastInOrder, LeaderPace, FollowersInv,
           leader \in Honest, follower[leader].phase = "SentPrepare"
    PROVE  /\ leaderPhase \notin {"SentRoundStart", "Grace"}
           /\ Len(broadcast) = 2 * (follower[leader].committedSeqNr + 1) + 1
           /\ tRound # readyToStartRound
<1> DEFINE c == follower[leader].committedSeqNr
           started == Len(broadcast) \div 2
<1>1. c \in 0..RMax /\ c # RMax
  BY DEF FollowersInv, FollowerInv, FollowerShape, Follower
<1>2. PICK x \in follower[leader].prepared :
          x.seqNr = c + 1 /\ MessageProposal(x.seqNr, x.observations) \in Sent
  BY DEF FollowersInv, FollowerInv, PreparedInv
<1>3. PICK i \in DOMAIN broadcast :
          broadcast[i] = MessageProposal(c + 1, x.observations)
  BY <1>2 DEF Sent
<1>4. Rank(broadcast[i]) = 2 * (c + 1) + 1
  BY <1>3 DEF Rank, MessageProposal
<1>5. Len(broadcast) \in Nat /\ DOMAIN broadcast = 1..Len(broadcast)
  BY DEF Typed
<1>6. Len(broadcast) >= 2 * (c + 1) + 1
  BY <1>3, <1>4, <1>5 DEF BroadcastInOrder
<1>7. leaderPhase \notin {"SentRoundStart", "Grace"}
  <2>1. leaderPhase \in {"SentRoundStart", "Grace"} => Len(broadcast) = 2 * (c + 1)
    BY DEF LeaderPace
  <2>2. c \in Nat
    BY <1>1, Constants
  <2> HIDE DEF c
  <2>3. Len(broadcast) # 2 * (c + 1)
    BY <1>5, <1>6, <2>2, Halves
  <2>4. QED
    BY <2>1, <2>3
<1>8. Len(broadcast) = 2 * started + 1
  BY <1>7 DEF LeaderPace
<1>9. started = c \/ started = c + 1
  BY DEF LeaderPace
<1>14. c \in Nat
  BY <1>1, Constants
<1> HIDE DEF started, c
<1>10. Len(broadcast) = 2 * (c + 1) + 1
  BY <1>5, <1>6, <1>8, <1>9, <1>14
<1>11. started # c
  BY <1>8, <1>10, <1>14
<1> USE DEF started, c
<1>12. tRound # readyToStartRound
  BY <1>11 DEF LeaderPace
<1>13. QED
  BY <1>7, <1>10, <1>12

\* A message that comes next in the order keeps it.
LEMMA AppendKeepsOrder ==
    ASSUME broadcast \in Seq(Message), BroadcastInOrder, NEW m \in Message,
           Rank(m) = Len(broadcast) + 1, broadcast' = Append(broadcast, m)
    PROVE  /\ broadcast' \in Seq(Message)
           /\ BroadcastInOrder'
           /\ Len(broadcast') = Len(broadcast) + 1
           /\ broadcast'[Len(broadcast) + 1] = m
           /\ \A i \in DOMAIN broadcast :
                i \in DOMAIN broadcast' /\ broadcast'[i] = broadcast[i]
<1>1. /\ broadcast' \in Seq(Message)
      /\ Len(broadcast') = Len(broadcast) + 1
      /\ broadcast'[Len(broadcast) + 1] = m
      /\ \A i \in DOMAIN broadcast :
            i \in DOMAIN broadcast' /\ broadcast'[i] = broadcast[i]
  OBVIOUS
<1>2. /\ \A i \in DOMAIN broadcast' :
            i \in DOMAIN broadcast \/ i = Len(broadcast) + 1
      /\ broadcast' # <<>>
  BY <1>1
<1>3. BroadcastInOrder'
  BY <1>1, <1>2 DEF BroadcastInOrder, Rank
<1>4. QED
  BY <1>1, <1>3

\* A proposal of an honest leader is acceptable.
WellProposed(m, b) ==
    /\ Cardinality(m.observations) >= ObservationQuorum
    /\ OneEach(m.observations)
    /\ \A x \in m.observations :
           x.seqNr = m.seqNr /\ x.query = b[2 * m.seqNr].query

\* What a step leaves true of the leader, and of what it has broadcast.
LeaderStep ==
    /\ leader' = leader
    /\ leaderPhase' \in LeaderPhase
    /\ readyToStartRound' \in BOOLEAN
    /\ tRound' \in BOOLEAN
    /\ query' \in Query \cup {NoQuery}
    /\ observations' \subseteq Signed
    /\ broadcast' \in Seq(Message)
    /\ BroadcastInOrder'
    /\ LeaderPace'
    /\ LeaderObservations'
    /\ \A i \in DOMAIN broadcast :
           i \in DOMAIN broadcast' /\ broadcast'[i] = broadcast[i]
    /\ \A i \in DOMAIN broadcast' \ DOMAIN broadcast :
           broadcast'[i].type = "Proposal" =>
               /\ broadcast'[i].observations \subseteq Signed
               /\ WellProposed(broadcast'[i], broadcast')

\* startSubsequentLeaderRound starts the round after the last one.
LEMMA StartKeepsPace ==
    ASSUME Typed, BroadcastInOrder, leader \in Honest, leader' = leader,
           NEW c \in 0..RMax, c = follower'[leader].committedSeqNr, c < RMax,
           Len(broadcast) = 2 * c + 1,
           NEW q \in Query, query' = q, observations' = {}, tRound' = TRUE,
           readyToStartRound' = FALSE, leaderPhase' = "SentRoundStart",
           broadcast' = Append(broadcast, MessageRoundStart(c + 1, q))
    PROVE  LeaderStep
<1> DEFINE m == MessageRoundStart(c + 1, q)
<1>1. c + 1 \in SeqNr
  <2>1. RMax \in Nat /\ c \in 0..RMax /\ c < RMax
    BY Constants
  <2>2. QED
    BY ONLY <2>1 DEF SeqNr
<1>2. m \in Message /\ m.type = "RoundStart" /\ m.seqNr = c + 1
  BY <1>1 DEF MessageRoundStart, Message, RoundStartMessage
<1>3. Rank(m) = Len(broadcast) + 1
  BY <1>2 DEF Rank
<1> HIDE DEF m
<1>4. /\ broadcast' \in Seq(Message)
      /\ BroadcastInOrder'
      /\ Len(broadcast') = Len(broadcast) + 1
      /\ broadcast'[Len(broadcast) + 1] = m
      /\ \A i \in DOMAIN broadcast :
            i \in DOMAIN broadcast' /\ broadcast'[i] = broadcast[i]
  BY <1>2, <1>3, AppendKeepsOrder DEF Typed, m
<1>5. Len(broadcast') = 2 * (c + 1) /\ Len(broadcast') \div 2 = c + 1
  <2>1. c \in Nat /\ Len(broadcast) \in Nat
    BY Constants DEF Typed
  <2>2. Len(broadcast) + 1 = 2 * (c + 1)
    BY <2>1, Halves
  <2>3. Len(broadcast) + 1 \in Nat
    BY <2>1
  <2>4. Len(broadcast') \in Nat /\ Len(broadcast') = 2 * (c + 1)
    BY <1>4, <2>2, <2>3
  <2>5. Len(broadcast') \div 2 = c + 1
    BY <2>1, <2>4, Halves
  <2>6. QED
    BY <2>4, <2>5
<1>6. LeaderPace'
  BY <1>5 DEF LeaderPace
<1>7. LeaderObservations'
  <2>1. broadcast'[Len(broadcast')] = MessageRoundStart(c + 1, query')
    BY <1>4 DEF m
  <2>2. QED
    BY <2>1 DEF LeaderObservations, OneEach
<1>8. \A i \in DOMAIN broadcast' \ DOMAIN broadcast : i = Len(broadcast) + 1
  BY <1>4 DEF Typed
<1>9. QED
  BY <1>2, <1>4, <1>6, <1>7, <1>8 DEF LeaderStep, LeaderPhase

\* It does not start one, because its turn has not come or the Query fails.
LEMMA NoStartKeepsPace ==
    ASSUME Typed, BroadcastInOrder, LeaderObservations, leader' = leader,
           UNCHANGED <<query, observations, leaderPhase, broadcast>>,
           readyToStartRound' \in BOOLEAN, tRound' \in BOOLEAN, LeaderPace',
           leaderPhase \in {"SentRoundStart", "Grace"} =>
               follower'[leader].committedSeqNr = follower[leader].committedSeqNr
    PROVE  LeaderStep
<1>1. BroadcastInOrder'
  BY DEF BroadcastInOrder, Rank
<1>2. LeaderObservations'
  BY DEF LeaderObservations
<1>3. QED
  BY <1>1, <1>2 DEF LeaderStep, Typed

\* tRound fires: the next round starts, if the last one is over.
LEMMA TimeoutKeepsPace ==
    ASSUME Typed, BroadcastInOrder, LeaderPace, LeaderObservations, FollowersInv,
           NEW ok \in BOOLEAN, EventTRoundTimeout(ok)
    PROVE  LeaderStep
<1> DEFINE c == follower[leader].committedSeqNr
           started == Len(broadcast) \div 2
<1>1. /\ leader \in Honest
      /\ leader' = leader
      /\ tRound
      /\ follower' = follower
      /\ StartLeaderRound(FALSE, ok)
  BY DEF EventTRoundTimeout
<1>2. c \in 0..RMax
  BY <1>1 DEF Typed, Follower
<1>3. /\ readyToStartRound' = ~readyToStartRound
      /\ readyToStartRound \in BOOLEAN
      /\ tRound \in BOOLEAN
  BY <1>1 DEF StartLeaderRound, Typed
<1>4. CASE readyToStartRound /\ ok /\ leaderPhase' = "SentRoundStart"
           /\ \E q \in Query :
                /\ query' = q
                /\ observations' = {}
                /\ tRound' = TRUE
                /\ broadcast' = Append(broadcast, MessageRoundStart(c + 1, q))
  <2>1. Len(broadcast) = 2 * c + 1 /\ c < RMax
    <3>1. started = c /\ c < RMax
      BY <1>1, <1>3, <1>4 DEF LeaderPace
    <3>2. Len(broadcast) # 2 * (c + 1)
      BY <1>2, <3>1 DEF Typed
    <3>3. QED
      BY <1>1, <3>1, <3>2 DEF LeaderPace
  <2>2. PICK q \in Query :
            /\ query' = q
            /\ observations' = {}
            /\ tRound' = TRUE
            /\ broadcast' = Append(broadcast, MessageRoundStart(c + 1, q))
    BY <1>4
  <2>3. c = follower'[leader].committedSeqNr
    BY <1>1
  <2>4. readyToStartRound' = FALSE /\ leaderPhase' = "SentRoundStart"
    BY <1>3, <1>4
  <2> HIDE DEF c
  <2>5. QED
    BY <1>1, <1>2, <2>1, <2>2, <2>3, <2>4, StartKeepsPace
<1>5. CASE /\ ~(readyToStartRound /\ ok)
           /\ tRound' = FALSE
           /\ UNCHANGED <<query, observations, leaderPhase, broadcast>>
  <2>1. LeaderPace'
    BY <1>1, <1>2, <1>3, <1>5 DEF LeaderPace
  <2>2. QED
    BY <1>1, <1>3, <1>5, <2>1, NoStartKeepsPace
<1>6. QED
  BY <1>1, <1>4, <1>5 DEF StartLeaderRound

\* The leader commits: it has proposed for this round, and the next one may start.
LEMMA CommitKeepsPace ==
    ASSUME Typed, BroadcastInOrder, LeaderPace, LeaderObservations, FollowersInv,
           leader \in Honest, NEW ok \in SUBSET Calls, NEW queryOk \in BOOLEAN,
           TryProcessCommitPool(leader, ok, queryOk)
    PROVE  LeaderStep
<1> DEFINE c == follower[leader].committedSeqNr
           d == follower'[leader].committedSeqNr
           f == Committed(follower[leader])
<1>1. /\ leader' = leader
      /\ follower[leader].phase = "SentPrepare"
  BY DEF TryProcessCommitPool
<1>2. c \in 0..RMax /\ leader \in Oracle
  BY DEF Typed, Follower, Honest
<1>3. f.committedSeqNr = c + 1 /\ c < RMax
  BY <1>1, <1>2, CommitKeeps DEF FollowersInv
<1>4. d = c + 1
  <2>1. follower' = [follower EXCEPT ![leader] = AfterCommit(@, leader, ok)]
    <3> HIDE DEF f
    <3>1. \/ /\ f.committedSeqNr = RMax
             /\ follower' = [follower EXCEPT ![leader] = f]
          \/ /\ f.committedSeqNr < RMax
             /\ follower' = [follower EXCEPT
                    ![leader] = StartSubsequentFollowerRound(f, leader, ok)]
      BY DEF TryProcessCommitPool, f
    <3>2. f.committedSeqNr < RMax => f.committedSeqNr # RMax
      BY Constants
    <3>3. QED
      BY <3>1, <3>2 DEF AfterCommit, f
  <2>2. follower'[leader] = AfterCommit(follower[leader], leader, ok)
    BY <2>1 DEF Typed
  <2>3. QED
    <3> DEFINE h == follower[leader]
               g == follower'[leader]
    <3>1. FollowerInv(leader, h, Sent) /\ h.phase = "SentPrepare"
      BY <1>1 DEF FollowersInv
    <3>2. g = AfterCommit(h, leader, ok)
      BY <2>2
    <3> HIDE DEF h, g
    <3>3. g.committedSeqNr = h.committedSeqNr + 1
      BY <1>2, <3>1, <3>2, CommitCounts
    <3>4. QED
      BY <3>3 DEF h, g
<1>5. /\ leaderPhase \notin {"SentRoundStart", "Grace"}
      /\ Len(broadcast) = 2 * (c + 1) + 1
      /\ tRound # readyToStartRound
      /\ tRound \in BOOLEAN
      /\ readyToStartRound \in BOOLEAN
  BY <1>1, CommitProposed DEF Typed
<1>6. Len(broadcast) \div 2 = c + 1
  BY <1>2, <1>5
<1>7. CASE f.committedSeqNr = RMax
  <2>1. UNCHANGED leaderVars
    BY <1>7, Constants DEF TryProcessCommitPool
  <2>2. LeaderPace'
    BY <1>1, <1>2, <1>3, <1>4, <1>5, <1>6, <1>7, <2>1 DEF LeaderPace, leaderVars
  <2>3. QED
    BY <1>1, <1>5, <2>1, <2>2, NoStartKeepsPace DEF leaderVars
<1>8. CASE f.committedSeqNr # RMax
  <2>1. StartLeaderRound(tRound, queryOk)
    BY <1>8 DEF TryProcessCommitPool
  <2>2. readyToStartRound' = ~readyToStartRound
    BY <2>1 DEF StartLeaderRound
  <2>3. d < RMax /\ d \in 0..RMax /\ Len(broadcast) = 2 * d + 1
    BY <1>2, <1>3, <1>4, <1>5, <1>8, Constants
  <2>4. CASE /\ ~(readyToStartRound /\ queryOk)
             /\ tRound' = tRound
             /\ UNCHANGED <<query, observations, leaderPhase, broadcast>>
    <3>1. LeaderPace'
      BY <1>1, <1>2, <1>4, <1>5, <1>6, <2>2, <2>3, <2>4 DEF LeaderPace
    <3>2. QED
      BY <1>1, <1>5, <2>2, <2>4, <3>1, NoStartKeepsPace
  <2>5. ASSUME readyToStartRound, leaderPhase' = "SentRoundStart",
               NEW q \in Query, query' = q, observations' = {}, tRound' = TRUE,
               broadcast' = Append(broadcast, MessageRoundStart(d + 1, q))
        PROVE  LeaderStep
    <3>1. readyToStartRound' = FALSE
      BY <2>2, <2>5
    <3>2. d = follower'[leader].committedSeqNr
      OBVIOUS
    <3> HIDE DEF d
    <3>3. QED
      BY <1>1, <2>3, <2>5, <3>1, <3>2, StartKeepsPace
  <2>6. QED
    BY <2>1, <2>4, <2>5 DEF StartLeaderRound
<1>9. QED
  BY <1>7, <1>8

\* messageObservation collects what is signed for the round the leader is in.
LEMMA ObservationKeepsPace ==
    ASSUME Typed, BroadcastInOrder, LeaderPace, LeaderObservations,
           NEW x \in Signed, MessageObservation(x)
    PROVE  LeaderStep
<1> DEFINE s == follower[leader].committedSeqNr + 1
<1>1. /\ leader \in Honest
      /\ leaderPhase \in {"SentRoundStart", "Grace"}
      /\ leaderPhase' \in {"SentRoundStart", "Grace"}
      /\ observations' = observations \cup {x}
      /\ x.seqNr = s
      /\ x.query = query
      /\ \A y \in observations : y.observer # x.observer
      /\ leaderPhase' = IF Cardinality(observations') = ObservationQuorum
                        THEN "Grace" ELSE leaderPhase
      /\ UNCHANGED <<leader, readyToStartRound, tRound, query, broadcast, follower>>
  BY DEF MessageObservation
<1>2. LeaderPace' /\ BroadcastInOrder'
  BY <1>1 DEF LeaderPace, BroadcastInOrder, Rank
<1>3. observations' \subseteq Signed
  BY <1>1 DEF Typed
<1>4. OneEach(observations) /\ OneEach(observations')
  BY <1>1 DEF LeaderObservations, OneEach
<1>5. /\ IsFiniteSet(observations)
      /\ IsFiniteSet(observations')
  BY <1>3, <1>4, SignedTyped, SignedFinite DEF Typed
<1>6. /\ Cardinality(observations) \in Nat
      /\ Cardinality(observations') = Cardinality(observations) + 1
  <2>1. x \notin observations
    BY <1>1
  <2>2. QED
    BY <1>1, <1>5, <2>1, FS_AddElement, FS_CardinalityType
<1>7. leaderPhase' = "Grace" => Cardinality(observations') >= ObservationQuorum
  BY <1>1, <1>6, Constants DEF LeaderObservations
<1>8. LeaderObservations'
  BY <1>1, <1>4, <1>7 DEF LeaderObservations
<1>9. QED
  BY <1>1, <1>2, <1>3, <1>8 DEF LeaderStep, Typed, LeaderPhase

\* The proposal of the observations that were collected.
LEMMA GraceKeepsPace ==
    ASSUME Typed, BroadcastInOrder, LeaderPace, LeaderObservations,
           EventTGraceTimeout
    PROVE  LeaderStep
<1> DEFINE c == follower[leader].committedSeqNr
           s == c + 1
           m == MessageProposal(s, observations)
           n == Len(broadcast)
<1>1. /\ leader \in Honest
      /\ leaderPhase = "Grace"
      /\ leaderPhase' = "SentProposal"
      /\ broadcast' = Append(broadcast, m)
      /\ UNCHANGED <<leader, readyToStartRound, tRound, query, observations,
                     follower>>
  BY DEF EventTGraceTimeout
<1>2. n = 2 * (c + 1) /\ c \in Nat /\ n \in Nat
  BY <1>1, Constants DEF LeaderPace, Typed, Follower
<1>3. /\ broadcast[n] = MessageRoundStart(s, query)
      /\ OneEach(observations)
      /\ \A x \in observations : x.seqNr = s /\ x.query = query
      /\ Cardinality(observations) >= ObservationQuorum
  BY <1>1 DEF LeaderObservations
<1>4. n \in DOMAIN broadcast /\ broadcast[n] \in Message
  BY <1>2 DEF Typed
<1>5. s \in SeqNr
  BY <1>3, <1>4, Ranks DEF MessageRoundStart
<1>6. m \in Message
  BY <1>5, SignedTyped DEF Typed, Message, MessageProposal, ProposalMessage
<1>7. /\ m.type = "Proposal"
      /\ m.seqNr = s
      /\ m.observations = observations
  BY DEF MessageProposal
<1>8. Rank(m) = n + 1
  BY <1>2, <1>7 DEF Rank
<1> HIDE DEF m
<1>9. /\ broadcast' \in Seq(Message)
      /\ BroadcastInOrder'
      /\ Len(broadcast') = n + 1
      /\ broadcast'[n + 1] = m
      /\ \A i \in DOMAIN broadcast :
            i \in DOMAIN broadcast' /\ broadcast'[i] = broadcast[i]
  BY <1>1, <1>6, <1>8, AppendKeepsOrder DEF Typed
<1>10. LeaderPace'
  <2>1. n \div 2 = c + 1 /\ (n + 1) \div 2 = c + 1 /\ n + 1 = 2 * (c + 1) + 1
    <3>1. c + 1 \in Nat /\ n + 1 \in Nat
      BY <1>2
    <3>2. n + 1 = 2 * (c + 1) + 1
      BY <1>2
    <3>3. QED
      BY <1>2, <3>1, <3>2, Halves
  <2>2. Len(broadcast') \div 2 = Len(broadcast) \div 2
    BY <1>9, <2>1
  <2>3. Len(broadcast') = 2 * (Len(broadcast') \div 2) + 1
    BY <1>9, <2>1
  <2> HIDE DEF n
  <2>4. QED
    BY <1>1, <2>2, <2>3 DEF LeaderPace
<1>11. LeaderObservations'
  BY <1>1 DEF LeaderObservations
<1>12. m.observations \subseteq Signed /\ WellProposed(m, broadcast')
  <2>1. broadcast'[2 * m.seqNr].query = query
    BY <1>2, <1>3, <1>4, <1>7, <1>9 DEF MessageRoundStart
  <2>2. QED
    BY <1>3, <1>7, <2>1 DEF WellProposed, Typed
<1>13. \A i \in DOMAIN broadcast' \ DOMAIN broadcast : i = n + 1
  BY <1>9 DEF Typed
<1>14. observations' \subseteq Signed /\ query' \in Query \cup {NoQuery}
       /\ readyToStartRound' \in BOOLEAN /\ tRound' \in BOOLEAN
  BY <1>1 DEF Typed
<1>15. QED
  BY <1>1, <1>9, <1>10, <1>11, <1>12, <1>13, <1>14 DEF LeaderStep, LeaderPhase

\* A step of which the leader's part is that of a follower.
LEMMA QuietKeepsPace ==
    ASSUME Typed, BroadcastInOrder, LeaderPace, LeaderObservations, FollowersInv,
           leader' = leader, UNCHANGED leaderVars,
           leader \in Honest =>
               follower'[leader].committedSeqNr = follower[leader].committedSeqNr
    PROVE  LeaderStep
<1>1. LeaderPace'
  BY DEF LeaderPace, leaderVars
<1>2. QED
  <2>1. readyToStartRound' \in BOOLEAN /\ tRound' \in BOOLEAN
    BY DEF Typed, leaderVars
  <2>2. UNCHANGED <<query, observations, leaderPhase, broadcast>>
    BY DEF leaderVars
  <2>3. BroadcastInOrder'
    BY <2>2 DEF BroadcastInOrder, Rank
  <2>4. LeaderObservations'
    BY <2>2 DEF LeaderObservations
  <2>5. QED
    BY <1>1, <2>1, <2>2, <2>3, <2>4 DEF LeaderStep, Typed

\* A follower commits in Commits only.
LEMMA SameRound ==
    ASSUME Typed, FollowersInv, NEW o \in Honest, FollowerStep(o), ~Commits(o)
    PROVE  follower'[o].committedSeqNr = follower[o].committedSeqNr
<1>0. /\ FollowerInv(o, follower[o], Sent)
      /\ o \in Oracle
  BY DEF FollowersInv, Honest
<1>1. CASE follower'[o] = follower[o]
  BY <1>1
<1>2. CASE EntersEpoch(o)
  <2>1. follower[o] = NewFollower("EarlierEpoch")
    BY <1>0, <1>2 DEF EntersEpoch, FollowerInv, FollowerShape
  <2>2. follower'[o] = NewFollower("NewEpoch")
    BY <1>2 DEF EntersEpoch
  <2>3. /\ NewFollower("EarlierEpoch").committedSeqNr = 0
        /\ NewFollower("NewEpoch").committedSeqNr = 0
    BY NewFollowerKeeps
  <2>4. QED
    BY <2>1, <2>2, <2>3
<1>3. ASSUME NEW m \in Sent \cap Message, Processes(o, m)
      PROVE  follower'[o].committedSeqNr = follower[o].committedSeqNr
  <2>1. PICK ok \in SUBSET Calls : follower'[o] = Process(follower[o], o, m, ok)
    BY <1>3 DEF Processes
  <2>2. Processed(follower[o], m, follower'[o])
    BY <1>0, <1>3, <2>1, ProcessKeeps DEF Processes
  <2>3. QED
    BY <2>2 DEF Processed
<1>4. QED
  BY <1>1, <1>2, <1>3 DEF FollowerStep

\* A message that arrives does not find its receiver committing.
LEMMA NoCommitInMessage ==
    ASSUME Typed, FollowersInv, NEW o \in Honest, NEW m \in Sent \cap Message,
           NEW ok \in SUBSET Calls, MessageToOutcomeGeneration(o, m, ok)
    PROVE  \A q \in Honest :
               follower'[q].committedSeqNr = follower[q].committedSeqNr
<1>0. FollowerInv(o, follower[o], Sent) /\ o \in Oracle
  BY DEF FollowersInv, Honest
<1>1. CASE follower[o].phase = "EarlierEpoch"
  BY <1>1 DEF MessageToOutcomeGeneration
<1>2. CASE follower[o].phase # "EarlierEpoch"
  <2>1. follower' = [follower EXCEPT ![o] = Process(@, o, m, ok)]
    BY <1>2 DEF MessageToOutcomeGeneration
  <2>2. /\ follower'[o] = Process(follower[o], o, m, ok)
        /\ \A q \in Honest \ {o} : follower'[q] = follower[q]
    BY <2>1 DEF Typed
  <2>3. Processed(follower[o], m, follower'[o])
    BY <1>0, <1>2, <2>2, ProcessKeeps
  <2>4. QED
    BY <2>2, <2>3 DEF Processed
<1>3. QED
  BY <1>1, <1>2

\* Every step keeps the leader in pace.
LEMMA LeaderSteps ==
    ASSUME Typed, BroadcastInOrder, LeaderPace, LeaderObservations, FollowersInv,
           [Next]_vars
    PROVE  LeaderStep
<1>1. ASSUME NEW ok \in BOOLEAN, EventTRoundTimeout(ok)
      PROVE  LeaderStep
  BY <1>1, TimeoutKeepsPace
<1>2. ASSUME NEW x \in Signed, MessageObservation(x)
      PROVE  LeaderStep
  BY <1>2, ObservationKeepsPace
<1>3. ASSUME EventTGraceTimeout
      PROVE  LeaderStep
  BY <1>3, GraceKeepsPace
<1>4. ASSUME NEW o \in Honest, EventNewEpochStart(o)
      PROVE  LeaderStep
  <2>1. /\ EntersEpoch(o)
        /\ \A q \in Honest \ {o} : follower'[q] = follower[q]
    BY <1>4 DEF EventNewEpochStart, EntersEpoch, Typed
  <2>2. FollowerStep(o) /\ ~Commits(o)
    BY <2>1 DEF FollowerStep, EntersEpoch, Commits
  <2>3. \A q \in Honest : follower'[q].committedSeqNr = follower[q].committedSeqNr
    BY <2>1, <2>2, SameRound
  <2>4. leader' = leader /\ UNCHANGED leaderVars
    BY <1>4 DEF EventNewEpochStart
  <2>5. QED
    BY <2>3, <2>4, QuietKeepsPace
<1>5. ASSUME NEW o \in Honest, NEW ok \in SUBSET Calls, UnbufferMessage(o, ok)
      PROVE  LeaderStep
  <2> DEFINE m == Head(bufferedMessages[o])
  <2>1. follower[o].phase # "EarlierEpoch" /\ m \in Sent \cap Message
    BY <1>5, Unbuffered
  <2>2. follower' = [follower EXCEPT ![o] = Process(@, o, m, ok)]
    BY <1>5 DEF UnbufferMessage
  <2> HIDE DEF m
  <2>3. /\ follower'[o] = Process(follower[o], o, m, ok)
        /\ \A q \in Honest \ {o} : follower'[q] = follower[q]
    BY <2>2 DEF Typed
  <2>4. FollowerInv(o, follower[o], Sent) /\ o \in Oracle
    BY DEF FollowersInv, Honest
  <2>5. Processed(follower[o], m, follower'[o])
    BY <2>1, <2>3, <2>4, ProcessKeeps
  <2>6. \A q \in Honest : follower'[q].committedSeqNr = follower[q].committedSeqNr
    BY <2>3, <2>5 DEF Processed
  <2>7. leader' = leader /\ UNCHANGED leaderVars
    BY <1>5 DEF UnbufferMessage
  <2>8. QED
    BY <2>6, <2>7, QuietKeepsPace
<1>6. ASSUME NEW o \in Honest, NEW ok \in SUBSET Calls, Receive(o, ok)
      PROVE  LeaderStep
  <2> DEFINE m == broadcast[received'[o]]
  <2>1. m \in Sent \cap Message
    BY <1>6, Received
  <2>2. MessageToOutcomeGeneration(o, m, ok)
    BY <1>6 DEF Receive
  <2> HIDE DEF m
  <2>3. \A q \in Honest : follower'[q].committedSeqNr = follower[q].committedSeqNr
    BY <2>1, <2>2, NoCommitInMessage
  <2>4. leader' = leader /\ UNCHANGED leaderVars
    BY <2>2 DEF MessageToOutcomeGeneration
  <2>5. QED
    BY <2>3, <2>4, QuietKeepsPace
<1>7. ASSUME NEW o \in Honest, NEW ok \in SUBSET Calls, NEW queryOk \in BOOLEAN,
             TryProcessCommitPool(o, ok, queryOk)
      PROVE  LeaderStep
  <2>1. CASE o = leader
    BY <1>7, <2>1, CommitKeepsPace
  <2>2. CASE o # leader
    <3>1. UNCHANGED leaderVars /\ leader' = leader
      BY <1>7, <2>2 DEF TryProcessCommitPool
    <3>2. \A q \in Honest \ {o} : follower'[q] = follower[q]
      BY <1>7 DEF TryProcessCommitPool, Typed
    <3>3. QED
      BY <2>2, <3>1, <3>2, QuietKeepsPace
  <2>3. QED
    BY <2>1, <2>2
<1>8. ASSUME NEW o \in Honest, Lose(o)
      PROVE  LeaderStep
  BY <1>8, QuietKeepsPace DEF Lose
<1>9. ASSUME NEW o \in Honest, ReceiveFaulty(o)
      PROVE  LeaderStep
  <2>1. leader \notin Honest
    BY <1>9 DEF ReceiveFaulty, Honest
  <2>2. PICK m \in Sent \cap Message : MessageToOutcomeGeneration(o, m, Calls)
    BY <1>9, <2>1, FaultyLeaderSends DEF ReceiveFaulty
  <2>3. leader' = leader /\ UNCHANGED leaderVars
    BY <2>2 DEF MessageToOutcomeGeneration
  <2>4. QED
    BY <2>1, <2>3, QuietKeepsPace
<1>10. CASE UNCHANGED vars
  BY <1>10, QuietKeepsPace DEF vars, leaderVars
<1>11. QED
  BY <1>1, <1>2, <1>3, <1>4, <1>5, <1>6, <1>7, <1>8, <1>9, <1>10 DEF Next
-----------------------------------------------------------------------------
(* The links.                                                              *)

\* The buffer drops the oldest message when it is full.
LEMMA PushKeeps ==
    ASSUME NEW b \in Seq(Message), Len(b) <= BufferSize, NEW m \in Message
    PROVE  /\ Push(b, m) \in Seq(Message)
           /\ Len(Push(b, m)) <= BufferSize
           /\ Len(b) < BufferSize => Push(b, m) = Append(b, m)
           /\ \E k \in {0, 1} :
                /\ Len(Push(b, m)) = Len(b) - k + 1
                /\ \A i \in 1..(Len(b) - k) :
                     i + k \in DOMAIN b /\ Push(b, m)[i] = b[i + k]
                /\ Push(b, m)[Len(b) - k + 1] = m
<1> DEFINE p == Push(b, m)
<1>1. Len(b) \in Nat /\ DOMAIN b = 1..Len(b)
  OBVIOUS
<1>2. CASE Len(b) = BufferSize
  <2>1. p = Append(Tail(b), m)
    BY <1>2 DEF Push
  <2>2. b # <<>>
    BY <1>2, Constants
  <2>3. /\ Tail(b) \in Seq(Message)
        /\ Len(Tail(b)) = Len(b) - 1
        /\ \A i \in 1..(Len(b) - 1) : Tail(b)[i] = b[i + 1]
    BY <2>2
  <2>4. /\ p \in Seq(Message)
        /\ Len(p) = Len(b)
        /\ \A i \in 1..(Len(b) - 1) : p[i] = b[i + 1]
        /\ p[Len(b)] = m
    BY <2>1, <2>3
  <2>5. \A i \in 1..(Len(b) - 1) : i + 1 \in DOMAIN b
    BY <1>1
  <2> HIDE DEF p
  <2>6. \E k \in {0, 1} :
            /\ Len(p) = Len(b) - k + 1
            /\ \A i \in 1..(Len(b) - k) : i + k \in DOMAIN b /\ p[i] = b[i + k]
            /\ p[Len(b) - k + 1] = m
    <3>1. Len(b) - 1 + 1 = Len(b)
      BY <1>1
    <3>2. QED
      BY <2>4, <2>5, <3>1
  <2>7. QED
    BY <1>1, <1>2, <2>4, <2>6 DEF p
<1>3. CASE Len(b) # BufferSize
  <2>1. p = Append(b, m)
    BY <1>3 DEF Push
  <2>2. /\ p \in Seq(Message)
        /\ Len(p) = Len(b) + 1
        /\ \A i \in 1..Len(b) : p[i] = b[i]
        /\ p[Len(b) + 1] = m
    BY <2>1
  <2> HIDE DEF p
  <2>3. \E k \in {0, 1} :
            /\ Len(p) = Len(b) - k + 1
            /\ \A i \in 1..(Len(b) - k) : i + k \in DOMAIN b /\ p[i] = b[i + k]
            /\ p[Len(b) - k + 1] = m
    <3>1. Len(b) - 0 = Len(b) /\ \A i \in 1..Len(b) : i + 0 = i
      BY <1>1
    <3>2. QED
      BY <1>1, <2>2, <3>1
  <2>4. Len(b) + 1 <= BufferSize
    <3> DEFINE n == Len(b)
    <3>1. n \in Nat /\ n <= BufferSize /\ n # BufferSize /\ BufferSize \in Nat
      BY <1>1, <1>3, Constants
    <3> HIDE DEF n
    <3>2. n + 1 <= BufferSize
      BY <3>1
    <3>3. QED
      BY <3>2 DEF n
  <2>5. QED
    BY <2>1, <2>2, <2>3, <2>4 DEF p
<1>4. QED
  BY <1>2, <1>3

\* What a step is for the link from the leader to one oracle.
NothingArrives(o) ==
    /\ received'[o] = received[o]
    /\ bufferedMessages'[o] = bufferedMessages[o]
    /\ Pooled(follower'[o]) \subseteq Pooled(follower[o])
    /\ follower'[o].phase = "EarlierEpoch" => follower[o].phase = "EarlierEpoch"
    /\ follower'[o].phase = "NewEpoch" =>
           follower[o].phase \in {"EarlierEpoch", "NewEpoch"}

IsLost(o) ==
    /\ faults' = faults + 1
    /\ received[o] < Len(broadcast)
    /\ received'[o] = received[o] + 1
    /\ bufferedMessages'[o] = bufferedMessages[o]
    /\ follower'[o] = follower[o]

Arrives(o, m) ==
    /\ \/ /\ leader \in Honest
          /\ received'[o] = received[o] + 1
          /\ received'[o] \in DOMAIN broadcast
          /\ m = broadcast[received'[o]]
       \/ leader \notin Honest /\ received'[o] = received[o]
    /\ \/ /\ follower[o].phase = "EarlierEpoch"
          /\ follower'[o] = follower[o]
          /\ bufferedMessages'[o] = Push(bufferedMessages[o], m)
       \/ /\ bufferedMessages[o] = <<>>
          /\ bufferedMessages'[o] = bufferedMessages[o]
          /\ Processes(o, m)

IsUnbuffered(o) ==
    /\ bufferedMessages[o] # <<>>
    /\ Head(bufferedMessages[o]) = bufferedMessages[o][1]
    /\ Head(bufferedMessages[o]) \in Sent \cap Message
    /\ bufferedMessages'[o] = Tail(bufferedMessages[o])
    /\ received'[o] = received[o]
    /\ Processes(o, Head(bufferedMessages[o]))

LinkStep(o) ==
    \/ NothingArrives(o)
    \/ IsLost(o)
    \/ \E m \in Sent \cap Message : Arrives(o, m)
    \/ IsUnbuffered(o)

LinksStep ==
    /\ received' = [q \in Honest |-> received'[q]]
    /\ bufferedMessages' = [q \in Honest |-> bufferedMessages'[q]]
    /\ \A q \in Honest : LinkStep(q)

\* A message that arrives is a step of one link.
LEMMA ArrivesAtOne ==
    ASSUME Typed, NEW o \in Honest, NEW m \in Sent \cap Message,
           NEW ok \in SUBSET Calls, MessageToOutcomeGeneration(o, m, ok),
           \A q \in Honest \ {o} : received'[q] = received[q],
           received' = [q \in Honest |-> received'[q]],
           \/ /\ leader \in Honest
              /\ received'[o] = received[o] + 1
              /\ received'[o] \in DOMAIN broadcast
              /\ m = broadcast[received'[o]]
           \/ leader \notin Honest /\ received'[o] = received[o]
    PROVE  LinksStep
<1>1. CASE follower[o].phase = "EarlierEpoch"
  <2>1. /\ bufferedMessages' = [bufferedMessages EXCEPT ![o] = Push(@, m)]
        /\ follower' = follower
    BY <1>1 DEF MessageToOutcomeGeneration
  <2>2. /\ bufferedMessages'[o] = Push(bufferedMessages[o], m)
        /\ \A q \in Honest \ {o} : bufferedMessages'[q] = bufferedMessages[q]
        /\ bufferedMessages' = [q \in Honest |-> bufferedMessages'[q]]
    BY <2>1 DEF Typed
  <2>3. Arrives(o, m)
    BY <1>1, <2>1, <2>2 DEF Arrives
  <2>4. \A q \in Honest \ {o} : NothingArrives(q)
    BY <2>1, <2>2 DEF NothingArrives
  <2>5. QED
    BY <2>2, <2>3, <2>4 DEF LinksStep, LinkStep
<1>2. CASE follower[o].phase # "EarlierEpoch"
  <2>1. /\ follower' = [follower EXCEPT ![o] = Process(@, o, m, ok)]
        /\ bufferedMessages' = bufferedMessages
        /\ bufferedMessages[o] = <<>>
    BY <1>2 DEF MessageToOutcomeGeneration, Idle
  <2>2. /\ follower'[o] = Process(follower[o], o, m, ok)
        /\ \A q \in Honest \ {o} : follower'[q] = follower[q]
    BY <2>1 DEF Typed
  <2>3. Processes(o, m)
    BY <1>2, <2>2 DEF Processes
  <2>4. Arrives(o, m)
    BY <2>1, <2>3 DEF Arrives
  <2>5. \A q \in Honest \ {o} : NothingArrives(q)
    BY <2>1, <2>2 DEF NothingArrives
  <2>6. bufferedMessages' = [q \in Honest |-> bufferedMessages'[q]]
    BY <2>1 DEF Typed
  <2>7. QED
    BY <2>4, <2>5, <2>6 DEF LinksStep, LinkStep
<1>3. QED
  BY <1>1, <1>2

\* Every step is one of the four for every link.
LEMMA LinkSteps ==
    ASSUME Typed, FollowersInv, [Next]_vars
    PROVE  LinksStep
<1>0. ASSUME UNCHANGED <<follower, received, bufferedMessages>>
      PROVE  LinksStep
  BY <1>0 DEF LinksStep, LinkStep, NothingArrives, Typed
<1>1. ASSUME NEW ok \in BOOLEAN, EventTRoundTimeout(ok)
      PROVE  LinksStep
  BY <1>0, <1>1 DEF EventTRoundTimeout
<1>2. ASSUME NEW x \in Signed, MessageObservation(x)
      PROVE  LinksStep
  BY <1>0, <1>2 DEF MessageObservation
<1>3. ASSUME EventTGraceTimeout
      PROVE  LinksStep
  BY <1>0, <1>3 DEF EventTGraceTimeout
<1>4. ASSUME NEW o \in Honest, EventNewEpochStart(o)
      PROVE  LinksStep
  <2>1. /\ follower[o].phase = "EarlierEpoch"
        /\ follower'[o] = NewFollower("NewEpoch")
        /\ \A q \in Honest \ {o} : follower'[q] = follower[q]
        /\ UNCHANGED <<received, bufferedMessages>>
    BY <1>4 DEF EventNewEpochStart, Typed
  <2>2. Pooled(follower'[o]) = {} /\ follower'[o].phase = "NewEpoch"
    BY <2>1, NewFollowerKeeps
  <2>3. \A q \in Honest : NothingArrives(q)
    BY <2>1, <2>2 DEF NothingArrives
  <2>4. QED
    BY <2>1, <2>3 DEF LinksStep, LinkStep, Typed
<1>5. ASSUME NEW o \in Honest, NEW ok \in SUBSET Calls, UnbufferMessage(o, ok)
      PROVE  LinksStep
  <2> DEFINE m == Head(bufferedMessages[o])
  <2>1. /\ bufferedMessages[o] # <<>>
        /\ follower[o].phase # "EarlierEpoch"
        /\ m = bufferedMessages[o][1]
        /\ m \in Sent \cap Message
        /\ bufferedMessages'[o] = Tail(bufferedMessages[o])
        /\ bufferedMessages' \in [Honest -> Seq(Message)]
        /\ \A q \in Honest \ {o} : bufferedMessages'[q] = bufferedMessages[q]
    BY <1>5, Unbuffered
  <2>2. /\ follower' = [follower EXCEPT ![o] = Process(@, o, m, ok)]
        /\ received' = received
    BY <1>5 DEF UnbufferMessage
  <2> HIDE DEF m
  <2>3. /\ follower'[o] = Process(follower[o], o, m, ok)
        /\ \A q \in Honest \ {o} : follower'[q] = follower[q]
    BY <2>2 DEF Typed
  <2>4. Processes(o, m)
    BY <2>1, <2>3 DEF Processes
  <2>5. IsUnbuffered(o)
    BY <2>1, <2>2, <2>4 DEF IsUnbuffered, m
  <2>6. \A q \in Honest \ {o} : NothingArrives(q)
    BY <2>1, <2>2, <2>3 DEF NothingArrives
  <2>7. QED
    BY <2>1, <2>2, <2>5, <2>6 DEF LinksStep, LinkStep, Typed
<1>6. ASSUME NEW o \in Honest, NEW ok \in SUBSET Calls, Receive(o, ok)
      PROVE  LinksStep
  <2> DEFINE m == broadcast[received'[o]]
  <2>1. /\ m \in Sent \cap Message
        /\ received'[o] = received[o] + 1
        /\ received' \in [Honest -> Nat]
        /\ \A q \in Honest \ {o} : received'[q] = received[q]
        /\ received'[o] \in DOMAIN broadcast
    BY <1>6, Received
  <2>2. MessageToOutcomeGeneration(o, m, ok) /\ leader \in Honest
    BY <1>6 DEF Receive
  <2>3. received' = [q \in Honest |-> received'[q]]
    BY <2>1
  <2>4. m = broadcast[received'[o]]
    OBVIOUS
  <2> HIDE DEF m
  <2>5. QED
    BY <2>1, <2>2, <2>3, <2>4, ArrivesAtOne
<1>7. ASSUME NEW o \in Honest, NEW ok \in SUBSET Calls, NEW queryOk \in BOOLEAN,
             TryProcessCommitPool(o, ok, queryOk)
      PROVE  LinksStep
  <2>1. UNCHANGED <<received, bufferedMessages>>
    BY <1>7 DEF TryProcessCommitPool
  <2>2. follower[o].phase = "SentPrepare"
    BY <1>7 DEF TryProcessCommitPool
  <2>3. \A q \in Honest \ {o} : follower'[q] = follower[q]
    BY <1>7 DEF TryProcessCommitPool, Typed
  <2>4. /\ FollowerStep(o)
        /\ FollowerInv(o, follower[o], Sent)
        /\ o \in Oracle
    BY FollowerSteps DEF FollowersInv, Honest
  <2>5. Commits(o) => NothingArrives(o)
    <3> DEFINE h == follower[o]
               g == follower'[o]
    <3>1. ASSUME Commits(o)
          PROVE  NothingArrives(o)
      <4>1. PICK k \in SUBSET Calls : g = AfterCommit(h, o, k)
        BY <3>1 DEF Commits
      <4>2. FollowerInv(o, h, Sent) /\ h.phase = "SentPrepare"
        BY <2>2, <2>4
      <4> HIDE DEF h, g
      <4>3. Pooled(g) \subseteq Pooled(h)
            /\ g.phase \notin {"EarlierEpoch", "NewEpoch"}
        BY <2>4, <4>1, <4>2, CommitKeeps
      <4>4. QED
        BY <2>1, <4>3 DEF NothingArrives, h, g
    <3>2. QED
      BY <3>1
  <2>6. Commits(o)
    <3> DEFINE f == Committed(follower[o])
    <3>1. f.committedSeqNr = follower[o].committedSeqNr + 1
      BY <2>4, CommittedCounts
    <3>2. CommitQuorumFor(o)
      BY <1>7, <3>1 DEF TryProcessCommitPool, CommitQuorumFor
    <3>3. follower'[o] = AfterCommit(follower[o], o, ok)
      <4> HIDE DEF f
      <4>1. \/ f.committedSeqNr = RMax /\ follower' = [follower EXCEPT ![o] = f]
            \/ /\ f.committedSeqNr < RMax
               /\ follower' = [follower EXCEPT
                      ![o] = StartSubsequentFollowerRound(f, o, ok)]
        BY <1>7 DEF TryProcessCommitPool, f
      <4>2. f.committedSeqNr < RMax => f.committedSeqNr # RMax
        BY Constants
      <4>3. QED
        BY <4>1, <4>2 DEF AfterCommit, f, Typed
    <3>4. QED
      BY <2>2, <3>2, <3>3 DEF Commits
  <2>7. \A q \in Honest : NothingArrives(q)
    BY <2>1, <2>3, <2>5, <2>6 DEF NothingArrives
  <2>8. QED
    BY <2>1, <2>7 DEF LinksStep, LinkStep, Typed
<1>8. ASSUME NEW o \in Honest, Lose(o)
      PROVE  LinksStep
  <2>1. /\ IsLost(o)
        /\ \A q \in Honest \ {o} : NothingArrives(q)
        /\ received' = [q \in Honest |-> received'[q]]
        /\ bufferedMessages' = bufferedMessages
    BY <1>8 DEF Lose, Fault, IsLost, NothingArrives, Typed
  <2>2. QED
    BY <2>1 DEF LinksStep, LinkStep, Typed
<1>9. ASSUME NEW o \in Honest, ReceiveFaulty(o)
      PROVE  LinksStep
  <2>1. leader \notin Honest /\ received' = received
    BY <1>9 DEF ReceiveFaulty, Honest
  <2>2. PICK m \in Sent \cap Message : MessageToOutcomeGeneration(o, m, Calls)
    BY <1>9, <2>1, FaultyLeaderSends DEF ReceiveFaulty
  <2>3. received' = [q \in Honest |-> received'[q]]
    BY <2>1 DEF Typed
  <2>4. QED
    BY <2>1, <2>2, <2>3, ArrivesAtOne
<1>10. CASE UNCHANGED vars
  BY <1>0, <1>10 DEF vars
<1>11. QED
  BY <1>1, <1>2, <1>3, <1>4, <1>5, <1>6, <1>7, <1>8, <1>9, <1>10 DEF Next
-----------------------------------------------------------------------------
(* The parts of the invariant.                                             *)

\* What is sent stays sent.
LEMMA SentGrows ==
    ASSUME Typed, FollowersInv, LeaderStep, [Next]_vars
    PROVE  Sent \subseteq Sent'
<1>1. Signed \subseteq Signed' /\ leader' = leader
  BY SignedGrows DEF LeaderStep
<1>2. CASE leader \in Honest
  <2>1. \A i \in DOMAIN broadcast :
            i \in DOMAIN broadcast' /\ broadcast'[i] = broadcast[i]
    BY DEF LeaderStep
  <2>2. QED
    BY <1>1, <1>2, <2>1 DEF Sent
<1>3. CASE leader \notin Honest
  BY <1>1, <1>3 DEF Sent
<1>4. QED
  BY <1>2, <1>3

\* What is proposed is signed, and acceptable if the leader is honest.
LEMMA ProposalsNext ==
    ASSUME Typed, BroadcastInOrder, ProposalsInv, FollowersInv, LeaderStep,
           [Next]_vars
    PROVE  ProposalsInv'
<1>1. Signed \subseteq Signed' /\ leader' = leader
  BY SignedGrows DEF LeaderStep
<1>2. SUFFICES ASSUME NEW m \in Sent', m.type = "Proposal"
               PROVE  /\ m.observations \subseteq Signed'
                      /\ leader \in Honest => WellProposed(m, broadcast')
  BY <1>1 DEF ProposalsInv, WellProposed
<1>3. CASE leader \notin Honest
  <2>1. \/ m \in {MessageRoundStart(s, q) : s \in SeqNr, q \in Query}
        \/ m \in {MessageProposal(s, obs) : s \in SeqNr, obs \in SUBSET Signed'}
    BY <1>1, <1>2, <1>3 DEF Sent
  <2>2. m.observations \subseteq Signed'
    BY <1>2, <2>1 DEF MessageRoundStart, MessageProposal
  <2>3. QED
    BY <1>3, <2>2
<1>4. CASE leader \in Honest
  <2>1. PICK i \in DOMAIN broadcast' : m = broadcast'[i]
    BY <1>1, <1>2, <1>4 DEF Sent
  <2>2. CASE i \notin DOMAIN broadcast
    BY <1>1, <1>2, <2>1, <2>2 DEF LeaderStep
  <2>3. CASE i \in DOMAIN broadcast
    <3>1. m = broadcast[i] /\ m \in Sent /\ m \in Message
      BY <1>4, <2>1, <2>3 DEF LeaderStep, Sent, Typed
    <3>2. m.observations \subseteq Signed /\ WellProposed(m, broadcast)
      BY <1>2, <1>4, <3>1 DEF ProposalsInv, WellProposed
    <3>3. i = 2 * m.seqNr + 1 /\ m.seqNr \in SeqNr
      BY <1>2, <2>3, <3>1, Ranks DEF BroadcastInOrder
    <3>4. 2 * m.seqNr \in DOMAIN broadcast
      <4> DEFINE n == m.seqNr
                 l == Len(broadcast)
      <4>1. n \in Nat \ {0} /\ i = 2 * n + 1 /\ l \in Nat /\ i <= l
        BY <2>3, <3>3, Constants DEF SeqNr, Typed
      <4> HIDE DEF n, l
      <4>2. 2 * n \in 1..l
        BY <4>1
      <4>3. QED
        BY <4>2 DEF n, l, Typed
    <3>5. broadcast'[2 * m.seqNr] = broadcast[2 * m.seqNr]
      BY <3>4 DEF LeaderStep
    <3>6. QED
      BY <1>1, <3>2, <3>5 DEF WellProposed
  <2>4. QED
    BY <2>2, <2>3
<1>5. QED
  BY <1>3, <1>4

\* Faults are counted up, to the bound.
LEMMA FaultsGrow ==
    ASSUME Typed, [Next]_vars
    PROVE  faults' \in 0..MaxFaults /\ faults <= faults'
<1>0. faults \in 0..MaxFaults /\ MaxFaults \in Nat
  BY Constants DEF Typed
<1>1. faults' = faults \/ Fault
  <2>1. ASSUME NEW ok, Call(ok)
        PROVE  faults' = faults \/ Fault
    BY <2>1 DEF Call
  <2>2. QED
    BY <2>1 DEF Next, vars, EventTRoundTimeout, MessageObservation,
       EventTGraceTimeout, EventNewEpochStart, UnbufferMessage, Receive,
       MessageToOutcomeGeneration, TryProcessCommitPool, Lose, ReceiveFaulty
<1>2. QED
  BY <1>0, <1>1 DEF Fault

\* The sequences of the links keep their types, and what is buffered was sent.
LEMMA BuffersNext ==
    ASSUME Typed, FollowersInv, LeaderStep, [Next]_vars
    PROVE  /\ received' \in [Honest -> Nat]
           /\ \A o \in Honest : received'[o] <= Len(broadcast')
           /\ bufferedMessages' \in [Honest -> Seq(Message)]
           /\ \A o \in Honest :
                /\ Len(bufferedMessages'[o]) <= BufferSize
                /\ \A i \in DOMAIN bufferedMessages'[o] :
                       bufferedMessages'[o][i] \in Sent
<1>1. Len(broadcast) \in Nat /\ Len(broadcast') \in Nat
      /\ Len(broadcast) <= Len(broadcast')
  <2>1. broadcast \in Seq(Message) /\ broadcast' \in Seq(Message)
    BY DEF Typed, LeaderStep
  <2>2. \A i \in 1..Len(broadcast) : i \in 1..Len(broadcast')
    BY <2>1 DEF LeaderStep
  <2>3. Len(broadcast) \in Nat /\ Len(broadcast') \in Nat
    BY <2>1
  <2>4. QED
    BY <2>2, <2>3
<1>2. ASSUME NEW o \in Honest
      PROVE  /\ received'[o] \in Nat
             /\ received'[o] <= Len(broadcast)
             /\ bufferedMessages'[o] \in Seq(Message)
             /\ Len(bufferedMessages'[o]) <= BufferSize
             /\ \A i \in DOMAIN bufferedMessages'[o] :
                    bufferedMessages'[o][i] \in Sent
  <2> DEFINE b == bufferedMessages[o]
             d == bufferedMessages'[o]
  <2>1. /\ received[o] \in Nat
        /\ received[o] <= Len(broadcast)
        /\ b \in Seq(Message)
        /\ Len(b) <= BufferSize
        /\ \A i \in DOMAIN b : b[i] \in Sent
    BY DEF Typed, FollowersInv
  <2>2. LinkStep(o)
    BY LinkSteps DEF LinksStep
  <2>3. CASE NothingArrives(o)
    BY <2>1, <2>3 DEF NothingArrives
  <2>4. CASE IsLost(o)
    BY <1>1, <2>1, <2>4 DEF IsLost
  <2>5. ASSUME NEW m \in Sent \cap Message, Arrives(o, m)
        PROVE  /\ received'[o] \in Nat
               /\ received'[o] <= Len(broadcast)
               /\ d \in Seq(Message)
               /\ Len(d) <= BufferSize
               /\ \A i \in DOMAIN d : d[i] \in Sent
    <3>1. received'[o] \in Nat /\ received'[o] <= Len(broadcast)
      <4>1. DOMAIN broadcast = 1..Len(broadcast)
        BY DEF Typed
      <4>2. QED
        BY <1>1, <2>1, <2>5, <4>1 DEF Arrives
    <3>2. CASE d = b
      BY <2>1, <3>1, <3>2
    <3>3. CASE d = Push(b, m)
      <4> HIDE DEF b, d
      <4>1. /\ d \in Seq(Message)
            /\ Len(d) <= BufferSize
            /\ \E k \in {0, 1} :
                 /\ Len(d) = Len(b) - k + 1
                 /\ \A i \in 1..(Len(b) - k) : i + k \in DOMAIN b /\ d[i] = b[i + k]
                 /\ d[Len(b) - k + 1] = m
        BY <2>1, <3>3, PushKeeps
      <4>2. \A i \in DOMAIN d : d[i] \in Sent
        <5>1. PICK k \in {0, 1} :
                /\ Len(d) = Len(b) - k + 1
                /\ \A i \in 1..(Len(b) - k) : i + k \in DOMAIN b /\ d[i] = b[i + k]
                /\ d[Len(b) - k + 1] = m
          BY <4>1
        <5> DEFINE n == Len(b) - k
        <5>2. n \in Int /\ DOMAIN d = 1..(n + 1)
          BY <2>1, <4>1, <5>1
        <5> HIDE DEF n
        <5>3. \A i \in DOMAIN d : i \in 1..n \/ i = n + 1
          BY <5>2
        <5>4. (\A i \in 1..n : d[i] \in Sent) /\ d[n + 1] = m
          BY <2>1, <5>1 DEF n
        <5>5. QED
          BY <5>3, <5>4
      <4>3. QED
        BY <3>1, <4>1, <4>2
    <3>4. QED
      BY <2>5, <3>2, <3>3 DEF Arrives
  <2>6. CASE IsUnbuffered(o)
    <3>1. b # <<>> /\ d = Tail(b) /\ received'[o] = received[o]
      BY <2>6 DEF IsUnbuffered
    <3> HIDE DEF b, d
    <3>2. /\ d \in Seq(Message)
          /\ Len(d) <= BufferSize
          /\ \A i \in DOMAIN d : i + 1 \in DOMAIN b /\ d[i] = b[i + 1]
      BY <2>1, <3>1, Constants
    <3>3. QED
      BY <2>1, <3>1, <3>2 DEF b, d
  <2>7. QED
    BY <2>2, <2>3, <2>4, <2>5, <2>6 DEF LinkStep
<1>3. QED
  BY <1>1, <1>2, LinkSteps DEF LinksStep

\* Followers keep their guarantees when more is sent.
LEMMA FollowersNext ==
    ASSUME Typed, FollowersInv, LeaderStep, [Next]_vars
    PROVE  FollowersInv'
  BY FollowersKept, SentGrows, BuffersNext, MoreSent DEF FollowersInv

\* Every step keeps the types.
LEMMA TypedNext ==
    ASSUME Typed, FollowersInv, LeaderStep, [Next]_vars
    PROVE  Typed'
<1>1. observations' \subseteq Signed'
  BY SignedGrows DEF LeaderStep
<1>2. QED
  BY <1>1, FollowersKept, BuffersNext, FaultsGrow DEF Typed, LeaderStep

\* More oracles than a quorum are one.
LEMMA QuorumGrows ==
    ASSUME NEW S, NEW T \in SUBSET Oracle, S \subseteq T, HasQuorum(S)
    PROVE  HasQuorum(T)
<1>1. IsFiniteSet(T) /\ IsFiniteSet(S)
  BY FS_Subset, OracleAssumption
<1>2. Cardinality(S) <= Cardinality(T)
      /\ Cardinality(S) \in Nat /\ Cardinality(T) \in Nat
  BY <1>1, FS_Subset, FS_CardinalityType
<1>3. QED
  BY <1>2, ByzQuorumSizeBounds DEF HasQuorum

\* Votes stay, so what had a quorum keeps it; a commit needs one for what it commits.
LEMMA CommitsPreparedNext ==
    ASSUME Typed, FollowersInv, CommitsPrepared, [Next]_vars
    PROVE  CommitsPrepared'
<1> SUFFICES ASSUME NEW o \in Honest, NEW x \in follower'[o].prepared,
                    x.seqNr <= follower'[o].committedSeqNr
             PROVE  HasQuorum(Faulty \cup
                        {q \in Honest : x \in follower'[q].prepared})
  BY DEF CommitsPrepared
<1> DEFINE c == follower[o].committedSeqNr
           Voted == Faulty \cup {q \in Honest : x \in follower[q].prepared}
           Voted2 == Faulty \cup {q \in Honest : x \in follower'[q].prepared}
<1>1. Voted \subseteq Voted2 /\ Voted2 \in SUBSET Oracle
  BY FollowersKept, OracleAssumption DEF Grown, Honest
<1>2. /\ FollowerInv(o, follower[o], Sent)
      /\ FollowerStep(o)
      /\ o \in Oracle
      /\ c \in Nat
      /\ x.seqNr \in Nat
  <2>1. FollowerInv(o, follower[o], Sent) /\ o \in Oracle
    BY DEF FollowersInv, Honest
  <2>2. FollowerStep(o)
    BY FollowerSteps
  <2>3. follower[o] \in Follower /\ follower'[o] \in Follower
    BY FollowersKept DEF Typed
  <2>4. c \in Nat
    BY <2>3, Constants DEF Follower
  <2>5. x \in PreparedInputs
    BY <2>3 DEF Follower
  <2>6. x.seqNr \in Nat
    BY <2>5, Constants DEF PreparedInputs, SeqNr
  <2>7. QED
    BY <2>1, <2>2, <2>4, <2>6
<1>3. CASE x \in follower[o].prepared /\ x.seqNr <= c
  <2>1. HasQuorum(Voted)
    BY <1>3 DEF CommitsPrepared
  <2> HIDE DEF Voted, Voted2
  <2>2. HasQuorum(Voted2)
    BY <1>1, <2>1, QuorumGrows
  <2>3. QED
    BY <2>2 DEF Voted2
<1>4. CASE ~Commits(o) /\ ~(x \in follower[o].prepared /\ x.seqNr <= c)
  <2>1. follower'[o].committedSeqNr = c
    BY <1>2, <1>4, SameRound
  <2>2. x \notin follower[o].prepared /\ x.seqNr <= c
    BY <1>4, <2>1
  <2>3. CASE follower'[o] = follower[o]
    BY <2>2, <2>3
  <2>4. CASE EntersEpoch(o)
    BY <2>4, NewFollowerKeeps DEF EntersEpoch
  <2>5. ASSUME NEW m \in Sent \cap Message, Processes(o, m)
        PROVE  FALSE
    <3>1. PICK ok \in SUBSET Calls : follower'[o] = Process(follower[o], o, m, ok)
      BY <2>5 DEF Processes
    <3>2. Processed(follower[o], m, follower'[o])
      BY <1>2, <2>5, <3>1, ProcessKeeps DEF Processes
    <3>3. x.seqNr = c + 1
      BY <2>2, <3>2 DEF Processed
    <3> HIDE DEF c
    <3>4. QED
      BY <1>2, <2>2, <3>3
  <2>6. QED
    BY <1>2, <1>4, <2>3, <2>4, <2>5 DEF FollowerStep
<1>5. CASE Commits(o) /\ ~(x \in follower[o].prepared /\ x.seqNr <= c)
  <2> DEFINE h == follower[o]
             g == follower'[o]
  <2>1. PICK ok \in SUBSET Calls : g = AfterCommit(h, o, ok)
    BY <1>5 DEF Commits
  <2>2. FollowerInv(o, h, Sent) /\ h.phase = "SentPrepare"
    BY <1>2, <1>5 DEF Commits
  <2>3. /\ g.committedSeqNr = h.committedSeqNr + 1
        /\ \A y \in g.prepared \ h.prepared : y.seqNr = g.committedSeqNr + 1
    <3> HIDE DEF h, g
    <3>1. QED
      BY <1>2, <2>1, <2>2, CommitCounts
  <2>4. g.committedSeqNr = c + 1
    BY <2>3
  <2>5. x \in follower[o].prepared
    <3>1. ASSUME x \notin h.prepared
          PROVE  FALSE
      <4>1. x.seqNr = g.committedSeqNr + 1 /\ x.seqNr <= g.committedSeqNr
        BY <2>3, <3>1
      <4>2. g.committedSeqNr \in Nat
        BY <1>2, <2>4
      <4> HIDE DEF g, h
      <4>3. QED
        BY <4>1, <4>2
    <3>2. QED
      BY <3>1
  <2>6. x.seqNr = c + 1
    <3>1. x.seqNr <= c + 1 /\ ~(x.seqNr <= c)
      BY <1>5, <2>4, <2>5
    <3> HIDE DEF c
    <3>2. QED
      BY <1>2, <3>1
  <2> DEFINE Quorum == Faulty \cup
        {q \in Honest :
            {y \in follower[o].prepared : y.seqNr = follower[o].committedSeqNr + 1}
            \subseteq follower[q].prepared}
  <2>7. HasQuorum(Quorum)
    BY <1>5 DEF Commits, CommitQuorumFor
  <2>8. Quorum \subseteq Voted
    BY <2>5, <2>6
  <2>9. Quorum \subseteq Voted2
    BY <1>1, <2>8
  <2> HIDE DEF Quorum, Voted, Voted2
  <2>10. HasQuorum(Voted2)
    BY <1>1, <2>7, <2>9, QuorumGrows
  <2>11. QED
    BY <2>10 DEF Voted2
<1>6. QED
  BY <1>3, <1>4, <1>5

\* The message that a link delivers is later than all in the pools.
LEMMA LinksInOrderNext ==
    ASSUME Typed, BroadcastInOrder, FollowersInv, LinksInOrder, LeaderStep,
           [Next]_vars
    PROVE  LinksInOrder'
<1> SUFFICES ASSUME leader \in Honest, NEW o \in Honest
             PROVE  InOrder(o)'
  BY DEF LinksInOrder, LeaderStep
<1> DEFINE b == bufferedMessages[o]
           d == bufferedMessages'[o]
           P == Pooled(follower[o])
           Q == Pooled(follower'[o])
           r == received[o]
<1>1. /\ b \in Seq(Message)
      /\ Len(b) <= BufferSize
      /\ r \in Nat
      /\ \A i \in DOMAIN b : Rank(b[i]) <= r /\ Rank(b[i]) \in Nat
      /\ \A i, j \in DOMAIN b : i < j => Rank(b[i]) < Rank(b[j])
      /\ \A m \in P : Rank(m) <= r /\ Rank(m) \in Nat
      /\ \A m \in P : \A i \in DOMAIN b : Rank(m) < Rank(b[i])
  <2>1. P \subseteq Message
    BY DEF Typed, Follower, PoolOf, Pooled, Message
  <2>2. b \in Seq(Message) /\ r \in Nat /\ Len(b) <= BufferSize
    BY DEF Typed
  <2>3. \A i \in DOMAIN b : b[i] \in Message
    BY <2>2
  <2>4. InOrder(o)
    BY DEF LinksInOrder
  <2>5. QED
    BY <2>1, <2>2, <2>3, <2>4, Ranks DEF InOrder
<1>2. LinkStep(o)
  BY LinkSteps DEF LinksStep
<1>3. SUFFICES /\ \A i \in DOMAIN d : Rank(d[i]) <= received'[o]
               /\ \A i, j \in DOMAIN d : i < j => Rank(d[i]) < Rank(d[j])
               /\ \A m \in Q : Rank(m) <= received'[o]
               /\ \A m \in Q : \A i \in DOMAIN d : Rank(m) < Rank(d[i])
  BY DEF InOrder, Rank
<1>4. ASSUME NEW m, Processes(o, m), m \in Sent \cap Message
      PROVE  Q \subseteq P \cup {m}
  <2>1. FollowerInv(o, follower[o], Sent) /\ o \in Oracle
    BY DEF FollowersInv, Honest
  <2>2. PICK ok \in SUBSET Calls : follower'[o] = Process(follower[o], o, m, ok)
    BY <1>4 DEF Processes
  <2>3. Processed(follower[o], m, follower'[o])
    BY <1>4, <2>1, <2>2, ProcessKeeps DEF Processes
  <2>4. QED
    BY <2>3 DEF Processed
<1>5. CASE NothingArrives(o)
  <2>1. d = b /\ received'[o] = r /\ Q \subseteq P
    BY <1>5 DEF NothingArrives
  <2> HIDE DEF b, d, P, Q, r
  <2>2. QED
    BY <1>1, <2>1
<1>6. CASE IsLost(o)
  <2>1. d = b /\ received'[o] = r + 1 /\ Q = P
    BY <1>6 DEF IsLost
  <2> HIDE DEF b, d, P, Q, r
  <2>2. QED
    BY <1>1, <2>1
<1>7. ASSUME NEW m \in Sent \cap Message, Arrives(o, m)
      PROVE  /\ \A i \in DOMAIN d : Rank(d[i]) <= received'[o]
             /\ \A i, j \in DOMAIN d : i < j => Rank(d[i]) < Rank(d[j])
             /\ \A n \in Q : Rank(n) <= received'[o]
             /\ \A n \in Q : \A i \in DOMAIN d : Rank(n) < Rank(d[i])
  <2>1. received'[o] = r + 1 /\ Rank(m) = r + 1
    BY <1>7 DEF Arrives, BroadcastInOrder
  <2>2. CASE d = Push(b, m) /\ follower'[o] = follower[o]
    <3>1. Q = P
      BY <2>2
    <3> HIDE DEF b, d, P, Q, r
    <3>2. PICK k \in {0, 1} :
              /\ Len(d) = Len(b) - k + 1
              /\ \A i \in 1..(Len(b) - k) : i + k \in DOMAIN b /\ d[i] = b[i + k]
              /\ d[Len(b) - k + 1] = m
      BY <1>1, <2>2, PushKeeps
    <3>3. d \in Seq(Message)
      BY <1>1, <2>2, PushKeeps
    <3> DEFINE n == Len(b) - k
    <3>4. n \in Int /\ DOMAIN d = 1..(n + 1)
      BY <1>1, <3>2, <3>3
    <3>5. /\ \A i \in 1..n : i + k \in DOMAIN b /\ d[i] = b[i + k]
          /\ d[n + 1] = m
      BY <3>2
    <3> HIDE DEF n
    <3>6. \A i \in DOMAIN d : i \in Int /\ (i \in 1..n \/ i = n + 1)
      BY <3>4
    <3>7. \A i \in 1..n : Rank(d[i]) <= r /\ Rank(d[i]) \in Nat
      BY <1>1, <3>5
    <3>8. \A i, j \in 1..n : i < j => Rank(d[i]) < Rank(d[j])
      <4>1. \A i, j \in 1..n : i < j => i + k < j + k
        BY <3>4
      <4>2. QED
        BY <1>1, <3>5, <4>1
    <3>9. \A x \in P : \A i \in 1..n : Rank(x) < Rank(d[i])
      BY <1>1, <3>5
    <3>10. \A i \in DOMAIN d : Rank(d[i]) <= r + 1
      BY <1>1, <2>1, <3>5, <3>6, <3>7
    <3>11. \A i, j \in DOMAIN d : i < j => Rank(d[i]) < Rank(d[j])
      <4>1. TAKE i, j \in DOMAIN d
      <4>2. HAVE i < j
      <4>3. i \in 1..n /\ (j \in 1..n \/ j = n + 1)
        BY <3>4, <3>6, <4>2
      <4>4. QED
        BY <1>1, <2>1, <3>5, <3>7, <3>8, <4>2, <4>3
    <3>12. \A x \in Q : Rank(x) <= r + 1
      BY <1>1, <3>1
    <3>13. \A x \in Q : \A i \in DOMAIN d : Rank(x) < Rank(d[i])
      BY <1>1, <2>1, <3>1, <3>5, <3>6, <3>9
    <3>14. QED
      BY <2>1, <3>10, <3>11, <3>12, <3>13
  <2>3. CASE b = <<>> /\ d = b /\ Processes(o, m)
    <3>1. Q \subseteq P \cup {m}
      BY <1>4, <2>3
    <3>2. DOMAIN d = {}
      BY <2>3
    <3> HIDE DEF b, d, P, Q, r
    <3>3. \A x \in Q : Rank(x) <= r + 1
      BY <1>1, <2>1, <3>1
    <3>4. QED
      BY <2>1, <3>2, <3>3
  <2>4. QED
    BY <1>7, <2>2, <2>3 DEF Arrives
<1>8. CASE IsUnbuffered(o)
  <2>1. b # <<>> /\ d = Tail(b) /\ received'[o] = r /\ Q \subseteq P \cup {b[1]}
    BY <1>4, <1>8 DEF IsUnbuffered
  <2> HIDE DEF b, d, P, Q, r
  <2>2. /\ 1 \in DOMAIN b
        /\ \A i \in DOMAIN d : i + 1 \in DOMAIN b /\ d[i] = b[i + 1] /\ 1 < i + 1
        /\ \A i, j \in DOMAIN d : i < j => i + 1 < j + 1
    BY <1>1, <2>1
  <2>3. /\ \A i \in DOMAIN d : Rank(d[i]) <= r
        /\ \A i, j \in DOMAIN d : i < j => Rank(d[i]) < Rank(d[j])
    BY <1>1, <2>2
  <2>4. \A m \in Q : Rank(m) <= r
    BY <1>1, <2>1, <2>2
  <2>5. \A m \in Q : \A i \in DOMAIN d : Rank(m) < Rank(d[i])
    BY <1>1, <2>1, <2>2
  <2>6. QED
    BY <2>1, <2>3, <2>4, <2>5
<1>9. QED
  BY <1>2, <1>5, <1>6, <1>7, <1>8 DEF LinkStep

\* While no more has arrived than the buffer holds, nothing was dropped from it.
LEMMA EpochStartsKeptNext ==
    ASSUME Typed, BroadcastInOrder, FollowersInv, LinksInOrder, EpochStartsKept,
           LeaderStep, [Next]_vars
    PROVE  EpochStartsKept'
<1> SUFFICES ASSUME leader \in Honest, NEW o \in Honest,
                    faults' = 0, received'[o] <= BufferSize
             PROVE  /\ follower'[o].phase = "EarlierEpoch" =>
                           Len(bufferedMessages'[o]) = received'[o]
                    /\ follower'[o].phase \in {"EarlierEpoch", "NewEpoch"}
                          /\ received'[o] # 0 =>
                           /\ bufferedMessages'[o] # <<>>
                           /\ Head(bufferedMessages'[o]) = MessageEpochStart
  BY DEF EpochStartsKept, KeepsEpochStart, LeaderStep
<1> DEFINE b == bufferedMessages[o]
           d == bufferedMessages'[o]
           r == received[o]
<1>1. faults = 0 /\ b \in Seq(Message) /\ r \in Nat
  <2>1. faults \in Nat /\ faults <= faults'
    BY FaultsGrow, Constants DEF Typed
  <2>2. QED
    BY <2>1 DEF Typed
<1>2. LinkStep(o)
  BY LinkSteps DEF LinksStep
<1>3. r <= BufferSize =>
        /\ follower[o].phase = "EarlierEpoch" => Len(b) = r
        /\ follower[o].phase \in {"EarlierEpoch", "NewEpoch"} /\ r # 0 =>
               b # <<>> /\ Head(b) = MessageEpochStart
  BY <1>1 DEF EpochStartsKept, KeepsEpochStart
<1>4. ASSUME NEW m, Processes(o, m), m \in Sent \cap Message
      PROVE  /\ follower'[o].phase # "EarlierEpoch"
             /\ follower'[o].phase = "NewEpoch" =>
                    follower[o].phase = "NewEpoch" /\ m.type # "EpochStart"
  <2>1. FollowerInv(o, follower[o], Sent) /\ o \in Oracle
    BY DEF FollowersInv, Honest
  <2>2. PICK ok \in SUBSET Calls : follower'[o] = Process(follower[o], o, m, ok)
    BY <1>4 DEF Processes
  <2>3. Processed(follower[o], m, follower'[o])
    BY <1>4, <2>1, <2>2, ProcessKeeps DEF Processes
  <2>4. QED
    BY <2>3 DEF Processed
<1>5. ASSUME NEW m \in Message, Rank(m) = 1
      PROVE  m = MessageEpochStart /\ m.type = "EpochStart"
  <2>1. m.type # "RoundStart" /\ m.type # "Proposal"
    <3>1. m.type = "RoundStart" => Rank(m) = 2 * m.seqNr /\ m.seqNr \in Nat
      BY Ranks, Constants DEF SeqNr
    <3>2. m.type = "Proposal" => Rank(m) = 2 * m.seqNr + 1 /\ m.seqNr \in Nat \ {0}
      BY Ranks, Constants DEF SeqNr
    <3>3. QED
      BY <1>5, <3>1, <3>2
  <2>2. QED
    BY <2>1, Ranks
<1>6. CASE NothingArrives(o)
  BY <1>3, <1>6 DEF NothingArrives
<1>7. CASE IsLost(o)
  BY <1>1, <1>7 DEF IsLost
<1>8. ASSUME NEW m \in Sent \cap Message, Arrives(o, m)
      PROVE  /\ follower'[o].phase = "EarlierEpoch" => Len(d) = received'[o]
             /\ follower'[o].phase \in {"EarlierEpoch", "NewEpoch"}
                   /\ received'[o] # 0 =>
                    d # <<>> /\ Head(d) = MessageEpochStart
  <2>1. received'[o] = r + 1 /\ Rank(m) = r + 1
    BY <1>8 DEF Arrives, BroadcastInOrder
  <2>2. r < BufferSize /\ r <= BufferSize
    BY <1>1, <2>1, Constants
  <2>3. CASE /\ follower[o].phase = "EarlierEpoch"
             /\ d = Push(b, m)
             /\ follower'[o] = follower[o]
    <3>1. Len(b) = r /\ (r # 0 => b # <<>> /\ Head(b) = MessageEpochStart)
      BY <1>3, <2>2, <2>3
    <3> HIDE DEF b, d, r
    <3>2. d = Append(b, m)
      BY <1>1, <2>2, <2>3, <3>1, PushKeeps
    <3>3. Len(d) = r + 1 /\ d # <<>>
      BY <1>1, <3>1, <3>2
    <3>4. CASE r = 0
      <4>1. m = MessageEpochStart
        BY <1>5, <2>1, <3>4
      <4>2. b = <<>>
        BY <1>1, <3>1, <3>4
      <4>3. Head(d) = m
        BY <3>2, <4>2
      <4>4. QED
        BY <2>1, <3>3, <4>1, <4>3
    <3>5. CASE r # 0
      <4>1. Head(d) = Head(b)
        BY <1>1, <3>1, <3>2, <3>5
      <4>2. QED
        BY <2>1, <3>1, <3>3, <3>5, <4>1
    <3>6. QED
      BY <3>4, <3>5
  <2>4. CASE b = <<>> /\ Processes(o, m)
    <3>1. /\ follower'[o].phase # "EarlierEpoch"
          /\ follower'[o].phase = "NewEpoch" =>
                 follower[o].phase = "NewEpoch" /\ m.type # "EpochStart"
      BY <1>4, <2>4
    <3>2. follower'[o].phase # "NewEpoch"
      <4>1. SUFFICES ASSUME follower[o].phase = "NewEpoch", m.type # "EpochStart"
                     PROVE  FALSE
        BY <3>1
      <4>2. r = 0
        BY <1>3, <2>2, <2>4, <4>1
      <4>3. Rank(m) = 1
        BY <2>1, <4>2
      <4>4. QED
        BY <1>5, <4>1, <4>3
    <3>3. QED
      BY <3>1, <3>2
  <2>5. QED
    BY <1>8, <2>3, <2>4 DEF Arrives
<1>9. CASE IsUnbuffered(o)
  <2>1. /\ received'[o] = r
        /\ Processes(o, Head(b))
        /\ Head(b) \in Sent \cap Message
    BY <1>9 DEF IsUnbuffered
  <2>2. /\ follower'[o].phase # "EarlierEpoch"
        /\ follower'[o].phase = "NewEpoch" =>
               follower[o].phase = "NewEpoch" /\ Head(b).type # "EpochStart"
    BY <1>4, <2>1
  <2>3. MessageEpochStart.type = "EpochStart"
    BY DEF MessageEpochStart
  <2>4. QED
    BY <1>3, <2>1, <2>2, <2>3
<1>10. QED
  BY <1>2, <1>6, <1>7, <1>8, <1>9 DEF LinkStep

\* The epoch begins in the inductive invariant.
LEMMA InitIInv == Init => IInv
<1> SUFFICES ASSUME Init
             PROVE  IInv
  OBVIOUS
<1>1. PICK late \in SUBSET (Honest \ {leader}) :
          follower = [o \in Honest |->
              NewFollower(CASE o \in late -> "EarlierEpoch"
                            [] leader \in Faulty -> "NewRound"
                            [] OTHER -> "NewEpoch")]
  BY DEF Init
<1>2. ASSUME NEW o \in Honest
      PROVE  \E phase \in {"EarlierEpoch", "NewEpoch", "NewRound"} :
                 follower[o] = NewFollower(phase)
  BY <1>1
<1>3. \A o \in Honest :
        /\ FollowerInv(o, follower[o], Sent)
        /\ Pooled(follower[o]) = {}
        /\ follower[o].committedSeqNr = 0
        /\ follower[o].prepared = {}
  BY <1>2, NewFollowerKeeps
<1>4. follower \in [Honest -> Follower]
  <2>1. \A o \in Honest : follower[o] \in Follower
    BY <1>3 DEF FollowerInv, FollowerShape
  <2>2. QED
    BY <1>1, <2>1
<1>5. /\ broadcast = <<MessageEpochStart>>
      /\ broadcast \in Seq(Message)
      /\ Len(broadcast) = 1
      /\ broadcast[1] = MessageEpochStart
      /\ DOMAIN broadcast = {1}
  <2>1. broadcast = <<MessageEpochStart>> /\ MessageEpochStart \in Message
    BY DEF Init, Message
  <2> DEFINE m == MessageEpochStart
  <2> HIDE DEF m
  <2>2. \A x \in {m} : /\ <<x>> \in Seq({m})
                       /\ Len(<<x>>) = 1
                       /\ <<x>>[1] = x
                       /\ DOMAIN <<x>> = {1}
    OBVIOUS
  <2>3. broadcast \in Seq(Message)
    BY <2>1
  <2>4. QED
    BY <2>1, <2>2, <2>3 DEF m
<1>6. Typed
  <2>1. /\ received \in [Honest -> Nat]
        /\ \A o \in Honest : received[o] <= Len(broadcast)
        /\ bufferedMessages \in [Honest -> Seq(Message)]
        /\ \A o \in Honest : Len(bufferedMessages[o]) <= BufferSize
    BY <1>5, Constants DEF Init
  <2>2. QED
    BY <1>4, <1>5, <2>1, Constants DEF Typed, Init, LeaderPhase
<1>7. BroadcastInOrder
  <2>1. Rank(MessageEpochStart) = 1
    BY DEF Rank, MessageEpochStart
  <2>2. QED
    BY <1>5, <2>1 DEF BroadcastInOrder
<1>8. LeaderPace
  <2>1. 1 \div 2 = 0
    OBVIOUS
  <2>2. QED
    BY <1>3, <1>5, <2>1, Constants DEF Init, LeaderPace
<1>9. LeaderObservations
  BY DEF Init, LeaderObservations
<1>10. ProposalsInv
  <2>1. CASE leader \in Honest
    BY <1>5, <2>1 DEF ProposalsInv, Sent, MessageEpochStart
  <2>2. CASE leader \notin Honest
    BY <2>2 DEF ProposalsInv, Sent, MessageRoundStart, MessageProposal
  <2>3. QED
    BY <2>1, <2>2
<1>11. \A o \in Honest : bufferedMessages[o] = <<>> /\ received[o] = 0
  BY DEF Init
<1>12. FollowersInv
  BY <1>3, <1>11 DEF FollowersInv
<1>13. CommitsPrepared
  BY <1>3 DEF CommitsPrepared
<1>14. LinksInOrder
  BY <1>3, <1>11 DEF LinksInOrder, InOrder
<1>15. EpochStartsKept
  BY <1>11 DEF EpochStartsKept, KeepsEpochStart
<1>16. QED
  BY <1>6, <1>7, <1>8, <1>9, <1>10, <1>12, <1>13, <1>14, <1>15 DEF IInv

\* Every step keeps the inductive invariant.
LEMMA NextIInv == IInv /\ [Next]_vars => IInv'
<1> SUFFICES ASSUME IInv, [Next]_vars
             PROVE  IInv'
  OBVIOUS
<1>1. LeaderStep
  BY LeaderSteps DEF IInv
<1>2. Typed' /\ FollowersInv'
  BY <1>1, TypedNext, FollowersNext DEF IInv
<1>3. ProposalsInv'
  BY <1>1, ProposalsNext DEF IInv
<1>4. CommitsPrepared'
  BY CommitsPreparedNext DEF IInv
<1>5. LinksInOrder' /\ EpochStartsKept'
  BY <1>1, LinksInOrderNext, EpochStartsKeptNext DEF IInv
<1>6. BroadcastInOrder' /\ LeaderPace' /\ LeaderObservations'
  BY <1>1 DEF LeaderStep
<1>7. QED
  BY <1>2, <1>3, <1>4, <1>5, <1>6 DEF IInv

\* The inductive invariant holds throughout.
LEMMA IInvHolds == Spec => []IInv
  BY InitIInv, NextIInv, PTL DEF Spec
-----------------------------------------------------------------------------
(* The theorems.                                                           *)

\* The state of the rounds has its types: a pool counts what it holds and holds
\* no more than it may (MessagePool), the buffer neither, and the leader's messages
\* and the commits of followers are for rounds 1..RMax (outcome_generation.go).
THEOREM TypeCorrect == Spec => []TypeOK
<1>1. ASSUME IInv
      PROVE  TypeOK
  <2>1. Typed /\ FollowersInv
    BY <1>1 DEF IInv
  <2>2. observations \subseteq SignedObservation
    BY <2>1, SignedTyped DEF Typed
  <2>3. \A i \in DOMAIN broadcast : broadcast[i].seqNr \in 0..RMax
    BY <2>1, Ranks DEF Typed
  <2>4. ASSUME NEW o \in Honest, NEW f, f = follower[o]
        PROVE  /\ f.phase \in FollowerPhase
               /\ f.committedSeqNr \in 0..RMax
               /\ f.query \in Query \cup {NoQuery}
               /\ f.observed \subseteq SignedObservation
               /\ \A pool \in {f.roundStartPool, f.proposalPool} :
                   /\ pool.completedSeqNr = f.committedSeqNr
                   /\ pool.count = Cardinality(pool.entries)
                   /\ pool.count <= PoolSize
    <3>1. FollowerShape(o, f, Sent)
      BY <2>1, <2>4 DEF FollowersInv, FollowerInv
    <3>2. f \in Follower
      BY <3>1 DEF FollowerShape
    <3>3. \A pool \in {f.roundStartPool, f.proposalPool} :
              PoolInv(pool, f.committedSeqNr)
      BY <3>1 DEF FollowerShape
    <3>4. QED
      BY <3>2, <3>3 DEF Follower, PoolInv
  <2>5. \A o \in Honest :
            /\ received[o] \in 0..Len(broadcast)
            /\ Len(bufferedMessages[o]) <= BufferSize
    BY <2>1 DEF Typed
  <2>6. QED
    BY <2>1, <2>2, <2>3, <2>4, <2>5 DEF Typed, TypeOK
<1>2. QED
  BY <1>1, IInvHolds, PTL

\* The inputs that ReportingPlugin.Outcome is called with in tryProcessProposalPool
\* belong together: whatever query a faulty leader sends to whom, so many of the
\* observations are by oracles that honestly observed for this query and round.
THEOREM OutcomesRestOnHonest == Spec => []OutcomesRestOnHonestObservations
<1>1. ASSUME IInv, NEW o \in Honest, NEW p \in follower[o].prepared
      PROVE  Cardinality({q \in Honest : \E x \in follower[q].observed :
                              x.seqNr = p.seqNr /\ x.query = p.query})
                 >= ObservationQuorum - Cardinality(Faulty)
  <2> DEFINE asked == {q \in Honest : \E x \in follower[q].observed :
                           x.seqNr = p.seqNr /\ x.query = p.query}
             obs == p.observations
  <2>1. /\ Typed
        /\ ProposalsInv
        /\ FollowersInv
    BY <1>1 DEF IInv
  <2>2. /\ Cardinality(obs) >= ObservationQuorum
        /\ OneEach(obs)
        /\ \A x \in obs : x.seqNr = p.seqNr /\ x.query = p.query
        /\ MessageProposal(p.seqNr, obs) \in Sent
    BY <2>1 DEF FollowersInv, FollowerInv, PreparedInv
  <2>3. obs \subseteq Signed
    <3>1. /\ MessageProposal(p.seqNr, obs).type = "Proposal"
          /\ MessageProposal(p.seqNr, obs).observations = obs
      BY DEF MessageProposal
    <3>2. QED
      BY <2>1, <2>2, <3>1 DEF ProposalsInv
  <2>4. \A x \in obs : x.observer \in asked \cup Faulty
    <3>1. SUFFICES ASSUME NEW x \in obs, x.observer \notin Faulty
                   PROVE  x.observer \in asked
      OBVIOUS
    <3>2. PICK q \in Honest : x \in follower[q].observed
      BY <2>3, <3>1 DEF Signed
    <3>3. x.observer = q
      BY <2>1, <3>2 DEF FollowersInv, FollowerInv, FollowerShape
    <3>4. QED
      BY <2>2, <3>2, <3>3
  <2>5. obs \in SUBSET SignedObservation /\ asked \cup Faulty \subseteq Oracle
    BY <2>1, <2>3, SignedTyped, OracleAssumption DEF Honest
  <2>6. asked \subseteq Honest
    OBVIOUS
  <2> HIDE DEF asked, obs
  <2>7. Cardinality(obs) <= Cardinality(asked \cup Faulty) /\ IsFiniteSet(obs)
    BY <2>2, <2>4, <2>5, OneEachFinite
  <2>8. /\ IsFiniteSet(asked) /\ IsFiniteSet(asked \cap Faulty)
        /\ IsFiniteSet(Faulty)
    BY <2>6, HonestFinite, FS_Subset
  <2>9. /\ Cardinality(asked \cup Faulty) = Cardinality(asked)
               + Cardinality(Faulty) - Cardinality(asked \cap Faulty)
        /\ Cardinality(asked) \in Nat
        /\ Cardinality(Faulty) \in Nat
        /\ Cardinality(asked \cap Faulty) \in Nat
        /\ Cardinality(obs) \in Nat
    BY <2>7, <2>8, FS_Union, FS_CardinalityType
  <2>10. Cardinality(asked) >= ObservationQuorum - Cardinality(Faulty)
    <3>1. Cardinality(obs) <= Cardinality(asked) + Cardinality(Faulty)
      BY <2>7, <2>9
    <3>2. QED
      BY <2>2, <2>9, <3>1, Constants
  <2>11. QED
    BY <2>10 DEF asked
<1>2. IInv => OutcomesRestOnHonestObservations
  BY <1>1 DEF OutcomesRestOnHonestObservations
<1>3. QED
  BY <1>2, IInvHolds, PTL

\* Two oracles that commit the same sequence number (tryProcessCommitPool) have
\* called Outcome for it with the same query and the same observations.
THEOREM CommittedInputs == Spec => []CommittedInputsAgree
<1>1. ASSUME IInv, NEW o \in Honest, NEW q \in Honest,
             NEW x \in follower[o].prepared, NEW y \in follower[q].prepared,
             x.seqNr = y.seqNr, x.seqNr <= follower[o].committedSeqNr,
             y.seqNr <= follower[q].committedSeqNr
      PROVE  x = y
  <2> DEFINE Voted(z) == {r \in Honest : z \in follower[r].prepared}
  <2>1. HasQuorum(Faulty \cup Voted(x)) /\ HasQuorum(Faulty \cup Voted(y))
    BY <1>1 DEF IInv, CommitsPrepared
  <2>2. PICK r \in Honest : r \in Voted(x) \cap Voted(y)
    <3>1. Voted(x) \in SUBSET Honest /\ Voted(y) \in SUBSET Honest
      OBVIOUS
    <3> HIDE DEF Voted
    <3>2. QED
      BY <2>1, <3>1, QuorumsShareHonestOracle
  <2>3. PreparedInv(follower[r], Sent)
    BY <1>1 DEF IInv, FollowersInv, FollowerInv
  <2>4. QED
    BY <1>1, <2>2, <2>3 DEF PreparedInv
<1>2. IInv => CommittedInputsAgree
  BY <1>1 DEF CommittedInputsAgree
<1>3. QED
  BY <1>2, IInvHolds, PTL

\* No follower refuses in tryProcessProposalPool what an honest leader took for
\* acceptable observations in messageObservation, whoever made them: the query that
\* both check is the one of the leader's RoundStart.
THEOREM HonestProposalsPass == Spec => []HonestProposalsAreAccepted
<1>1. ASSUME IInv, leader \in Honest, NEW o \in Honest,
             follower[o].phase = "SentObservation",
             NEW m \in Select(follower[o].proposalPool,
                              follower[o].committedSeqNr + 1)
      PROVE  IsAcceptable(follower[o], m)
  <2> DEFINE f == follower[o]
             c == f.committedSeqNr
  <2>1. Typed /\ BroadcastInOrder /\ ProposalsInv /\ FollowerInv(o, f, Sent)
    BY <1>1 DEF IInv, FollowersInv
  <2>2. /\ m \in f.proposalPool.entries
        /\ m.seqNr = c + 1
    BY <1>1 DEF Select
  <2>3. f \in Follower /\ m \in Sent
    BY <2>1, <2>2 DEF FollowerInv, FollowerShape, Pooled
  <2>4. m.type = "Proposal"
    BY <2>2, <2>3 DEF Follower, PoolOf, ProposalMessage
  <2>5. /\ Cardinality(m.observations) >= ObservationQuorum
        /\ OneEach(m.observations)
        /\ \A x \in m.observations :
              x.seqNr = m.seqNr /\ x.query = broadcast[2 * m.seqNr].query
    BY <1>1, <2>1, <2>3, <2>4 DEF ProposalsInv
  <2>6. broadcast[2 * (c + 1)].query = f.query
    <3>1. MessageRoundStart(c + 1, f.query) \in Sent
      BY <1>1, <2>1 DEF FollowerInv, QueryAsked
    <3>2. PICK i \in DOMAIN broadcast :
              broadcast[i] = MessageRoundStart(c + 1, f.query)
      BY <1>1, <3>1 DEF Sent
    <3>3. i = Rank(MessageRoundStart(c + 1, f.query))
      BY <2>1, <3>2 DEF BroadcastInOrder
    <3>4. i = 2 * (c + 1)
      <4>1. /\ MessageRoundStart(c + 1, f.query).seqNr = c + 1
            /\ MessageRoundStart(c + 1, f.query).type = "RoundStart"
        BY DEF MessageRoundStart
      <4>2. c \in Nat
        BY <2>3 DEF Follower
      <4> HIDE DEF c
      <4>3. QED
        BY <3>3, <4>1, <4>2 DEF Rank
    <3>5. QED
      BY <3>2, <3>4 DEF MessageRoundStart
  <2>7. QED
    BY <2>2, <2>5, <2>6 DEF IsAcceptable, OneEach
<1>2. IInv => HonestProposalsAreAccepted
  BY <1>1 DEF HonestProposalsAreAccepted
<1>3. QED
  BY <1>2, IInvHolds, PTL

\* The ring buffer of outcome_generation.go keeps the EpochStart for an oracle that
\* enters the epoch late by no more messages than it takes: nothing is lost of what
\* starts its first round.
THEOREM LateFollowersDoStart == Spec => []LateFollowersStart
<1>1. ASSUME IInv, leader \in Honest, NEW o \in Honest,
             follower[o].phase = "NewEpoch", Idle(o),
             received[o] \in 1..BufferSize, ~(faults > 0)
      PROVE  FALSE
  <2>1. Typed /\ KeepsEpochStart(o)
    BY <1>1 DEF IInv, EpochStartsKept
  <2>2. faults = 0 /\ received[o] <= BufferSize /\ received[o] # 0
    BY <1>1, <2>1, Constants DEF Typed
  <2>3. bufferedMessages[o] = <<>>
    BY <1>1 DEF Idle
  <2>4. QED
    BY <1>1, <2>1, <2>2, <2>3 DEF KeepsEpochStart
<1>2. IInv => LateFollowersStart
  BY <1>1 DEF LateFollowersStart
<1>3. QED
  BY <1>2, IInvHolds, PTL

\* Messages that are all earlier, but later than s, leave room for one that is not
\* further ahead than the pool is large.
LEMMA RoomFor ==
    ASSUME NEW pool, NEW s \in Nat, PoolInv(pool, s), NEW m,
           m.seqNr \in (s + 1)..(s + PoolSize),
           \A x \in pool.entries : x.seqNr \in Nat /\ x.seqNr < m.seqNr
    PROVE  Accepts(pool, m)
<1> DEFINE t == m.seqNr
           T == (s + 1)..(t - 1)
           g == [x \in pool.entries |-> x.seqNr]
<1>1. t \in Nat /\ s < t /\ t <= s + PoolSize
  BY Constants
<1>2. g \in Injection(pool.entries, T)
  <2>1. \A x \in pool.entries : x.seqNr \in T
    BY <1>1 DEF PoolInv
  <2>2. QED
    BY <2>1 DEF PoolInv, Injection, IsInjective
<1> HIDE DEF g, t
<1>3. IsFiniteSet(T) /\ Cardinality(T) = t - 1 - s
  <2>1. s + 1 \in Int /\ t - 1 \in Int
    BY <1>1
  <2>2. IsFiniteSet(T) /\ Cardinality(T)
            = IF s + 1 > t - 1 THEN 0 ELSE (t - 1) - (s + 1) + 1
    BY <2>1, FS_Interval
  <2>3. QED
    BY <1>1, <2>2
<1>4. Cardinality(pool.entries) <= Cardinality(T)
  BY <1>2, <1>3, FS_Injection
<1>5. pool.count < PoolSize
  <2>1. pool.count = Cardinality(pool.entries) /\ pool.count \in Nat
    BY FS_CardinalityType DEF PoolInv
  <2>2. QED
    BY <1>1, <1>3, <1>4, <2>1, Constants
<1>6. QED
  BY <1>1, <1>5 DEF Accepts, PoolInv, t

\* What a follower is given when all that is in its pools was sent earlier, is in
\* its pools after the step, unless it is for a round too far ahead.
LEMMA NearIsPooled ==
    ASSUME IInv, NEW o \in Honest, NEW m \in Message, m \in Sent, Processes(o, m),
           \A x \in Pooled(follower[o]) : Rank(x) < Rank(m),
           m.seqNr \in (follower[o].committedSeqNr + 1)
                           ..(follower[o].committedSeqNr + PoolSize)
    PROVE  m \in Pooled(follower'[o])
<1> DEFINE f == follower[o]
           s == f.committedSeqNr
           g == follower'[o]
<1>1. /\ FollowerInv(o, f, Sent)
      /\ o \in Oracle
  BY DEF IInv, FollowersInv, Honest
<1>2. /\ f \in Follower
      /\ PoolInv(f.roundStartPool, s)
      /\ PoolInv(f.proposalPool, s)
  BY <1>1 DEF FollowerInv, FollowerShape
<1>3. Processed(f, m, g)
  BY <1>1, ProcessKeeps DEF Processes
<1>4. s \in Nat
  BY <1>2 DEF Follower
<1>5. \A x \in f.roundStartPool.entries :
          x \in Message /\ x.type = "RoundStart" /\ Rank(x) < Rank(m)
  BY <1>2 DEF Follower, PoolOf, RoundStartMessage, Message, Pooled
<1>6. \A x \in f.proposalPool.entries :
          x \in Message /\ x.type = "Proposal" /\ Rank(x) < Rank(m)
  BY <1>2 DEF Follower, PoolOf, ProposalMessage, Message, Pooled
<1>7. m.seqNr \in (s + 1)..(s + PoolSize)
  OBVIOUS
<1> HIDE DEF f, s, g
<1>8. CASE m.type = "RoundStart"
  <2>1. Rank(m) = 2 * m.seqNr /\ m.seqNr \in Nat
    BY <1>8, Ranks, Constants DEF SeqNr
  <2>2. \A x \in f.roundStartPool.entries : x.seqNr \in Nat /\ x.seqNr < m.seqNr
    <3>1. ASSUME NEW x \in f.roundStartPool.entries
          PROVE  x.seqNr \in Nat /\ x.seqNr < m.seqNr
      <4>1. Rank(x) = 2 * x.seqNr /\ x.seqNr \in Nat /\ Rank(x) < Rank(m)
        BY <1>5, Ranks, Constants DEF SeqNr
      <4>2. QED
        BY <2>1, <4>1
    <3>2. QED
      BY <3>1
  <2>3. Accepts(f.roundStartPool, m)
    BY <1>2, <1>4, <1>7, <2>2, RoomFor
  <2>4. QED
    BY <1>3, <1>8, <2>3 DEF Processed, g
<1>9. CASE m.type = "Proposal"
  <2>1. Rank(m) = 2 * m.seqNr + 1 /\ m.seqNr \in Nat
    BY <1>9, Ranks, Constants DEF SeqNr
  <2>2. \A x \in f.proposalPool.entries : x.seqNr \in Nat /\ x.seqNr < m.seqNr
    <3>1. ASSUME NEW x \in f.proposalPool.entries
          PROVE  x.seqNr \in Nat /\ x.seqNr < m.seqNr
      <4>1. Rank(x) = 2 * x.seqNr + 1 /\ x.seqNr \in Nat /\ Rank(x) < Rank(m)
        BY <1>6, Ranks, Constants DEF SeqNr
      <4>2. QED
        BY <2>1, <4>1
    <3>2. QED
      BY <3>1
  <2>3. Accepts(f.proposalPool, m)
    BY <1>2, <1>4, <1>7, <2>2, RoomFor
  <2>4. QED
    BY <1>3, <1>9, <2>3 DEF Processed, g
<1>10. CASE m.type = "EpochStart"
  <2>1. m.seqNr = 0
    BY <1>10, Ranks DEF MessageEpochStart
  <2>2. QED
    BY <1>4, <1>7, <2>1, Constants
<1>11. QED
  BY <1>8, <1>9, <1>10, Ranks

\* What is sent by an honest leader reaches a follower in order (the links are), and
\* so a message that a pool has no room for (message_pool.go) is for a round further
\* ahead than the pool is large: none is dropped for the sake of later ones.
THEOREM NearMessages == Spec => NearMessagesAreKept
<1>1. ASSUME IInv, [Next]_vars, NEW o \in Honest, leader \in Honest,
             follower[o].phase # "EarlierEpoch", faults' = faults,
             NEW m \in Taken(o),
             m.seqNr \in (follower[o].committedSeqNr + 1)
                             ..(follower[o].committedSeqNr + PoolSize)
      PROVE  m \in Pooled(follower'[o])
  <2> DEFINE b == bufferedMessages[o]
             r == received[o]
  <2>1. Typed /\ BroadcastInOrder /\ InOrder(o) /\ LinkStep(o)
    BY <1>1, LinkSteps DEF IInv, LinksInOrder, LinksStep
  <2>2. \A x \in Pooled(follower[o]) :
            /\ Rank(x) <= r
            /\ \A i \in DOMAIN b : Rank(x) < Rank(b[i])
    BY <2>1 DEF InOrder
  <2>3. \A x \in Pooled(follower[o]) : Rank(x) \in Nat
    <3>1. FollowerInv(o, follower[o], Sent)
      BY <1>1 DEF IInv, FollowersInv
    <3>2. Pooled(follower[o]) \subseteq Message
      BY <3>1 DEF FollowerInv, FollowerShape, Pooled, Follower, PoolOf, Message
    <3>3. QED
      BY <3>2, Ranks
  <2>4. r \in Nat
    BY <2>1 DEF Typed
  <2>5. CASE NothingArrives(o)
    BY <1>1, <2>5 DEF NothingArrives, Taken
  <2>6. CASE IsLost(o)
    <3>1. faults \in Nat
      BY <2>1, Constants DEF Typed
    <3>2. QED
      BY <1>1, <2>6, <3>1 DEF IsLost
  <2>7. ASSUME NEW n \in Sent \cap Message, Arrives(o, n)
        PROVE  m \in Pooled(follower'[o])
    <3>1. /\ received'[o] = r + 1
          /\ received'[o] \in DOMAIN broadcast
          /\ n = broadcast[received'[o]]
          /\ bufferedMessages'[o] = b
          /\ Processes(o, n)
      BY <1>1, <2>7 DEF Arrives
    <3>2. m = n
      BY <3>1 DEF Taken
    <3>3. Rank(n) = r + 1
      BY <2>1, <3>1 DEF BroadcastInOrder
    <3>4. \A x \in Pooled(follower[o]) : Rank(x) < Rank(n)
      BY <2>2, <2>3, <2>4, <3>3
    <3>5. QED
      BY <1>1, <3>1, <3>2, <3>4, NearIsPooled
  <2>8. CASE IsUnbuffered(o)
    <3>1. /\ received'[o] = r
          /\ b # <<>>
          /\ Head(b) = b[1]
          /\ Head(b) \in Sent \cap Message
          /\ Processes(o, Head(b))
      BY <2>8 DEF IsUnbuffered
    <3>2. m = Head(b)
      BY <3>1 DEF Taken
    <3>3. 1 \in DOMAIN b
      BY <2>1, <3>1 DEF Typed
    <3>4. \A x \in Pooled(follower[o]) : Rank(x) < Rank(Head(b))
      BY <2>2, <3>1, <3>3
    <3>5. QED
      BY <1>1, <3>1, <3>2, <3>4, NearIsPooled
  <2>9. QED
    BY <2>1, <2>5, <2>6, <2>7, <2>8 DEF LinkStep
<1>2. IInv /\ [Next]_vars
          => [\A o \in Honest : leader \in Honest => KeepsNearMessages(o)]_vars
  BY <1>1 DEF KeepsNearMessages
<1>3. QED
  BY <1>2, IInvHolds, PTL DEF Spec, NearMessagesAreKept
=============================================================================

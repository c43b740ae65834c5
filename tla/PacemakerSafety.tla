-------------------------- MODULE PacemakerSafety --------------------------
(***************************************************************************)
(* The safety of the pacemaker, for every set of oracles, F, faulty        *)
(* oracles, number of epochs, restarts and failed writes.  Each theorem    *)
(* says how many of the last two may come together.                        *)
(***************************************************************************)
EXTENDS Pacemaker, ByzQuorumProofs

\* A set of more than k + F oracles has more than k honest members.
LEMMA HonestPart ==
    ASSUME NEW S \in SUBSET Oracle, NEW k \in Nat, Cardinality(S) > k + F
    PROVE  Cardinality(S \cap Honest) > k
<1>1. IsFiniteSet(S)
  BY OracleAssumption, FS_Subset
<1>2. Cardinality(S \ Faulty) = Cardinality(S) - Cardinality(S \cap Faulty)
  BY <1>1, FS_Difference
<1>3. Cardinality(S \cap Faulty) <= Cardinality(Faulty)
  BY HonestFinite, FS_Subset
<1>4. S \ Faulty = S \cap Honest
  BY DEF Honest
<1>5. Cardinality(S) \in Nat /\ Cardinality(S \cap Faulty) \in Nat
  BY <1>1, FS_Subset, FS_CardinalityType
<1>6. Cardinality(S \ Faulty) > k
  BY <1>2, <1>3, <1>5, HonestFinite
<1>7. QED
  BY <1>4, <1>6

\* What messageNewEpochWish picks is nothing or an epoch backed by enough wishes.
LEMMA CandidateBacked ==
    ASSUME NEW wishes, NEW y, NEW k, NEW c \in Candidate(wishes, y, k)
    PROVE  \/ c = 0
           \/ /\ c \in Epoch
              /\ c > y
              /\ Cardinality({s \in Oracle : wishes[s] >= c}) > k
  BY DEF Candidate, Backed
-----------------------------------------------------------------------------
\* What is in the database was written by this protocol, or nothing is.
StoredOK ==
    \A o \in Honest :
        \/ stored[o] = NoState
        \/ stored[o] \in [epoch : Epoch, highestSentNewEpochWish : Epoch]

TypeInv == TypeOK /\ StoredOK

LEMMA InitTyped == Init => TypeInv
  BY PacemakerAssumption
     DEF Init, TypeInv, TypeOK, StoredOK, Epoch, PacemakerState, NoState, Event

\* A write keeps the type of the database and of the count of failures.
LEMMA PersistTyped ==
    ASSUME TypeInv, NEW o \in Honest,
           NEW state \in [epoch : Epoch, highestSentNewEpochWish : Epoch],
           Persist(o, state)
    PROVE  /\ stored' \in [Honest -> PacemakerState]
           /\ StoredOK'
           /\ failures' \in 0..MaxFailures
<1>1. state \in PacemakerState
  BY DEF PacemakerState, Epoch
<1>2. CASE failures' = failures /\ stored' = [stored EXCEPT ![o] = state]
  BY <1>1, <1>2 DEF TypeInv, TypeOK, StoredOK
<1>3. CASE failures < MaxFailures /\ failures' = failures + 1 /\ stored' = stored
  BY <1>3, PacemakerAssumption DEF TypeInv, TypeOK, StoredOK
<1>4. QED
  BY <1>2, <1>3 DEF Persist

LEMMA RestartTyped ==
    ASSUME TypeInv, NEW o \in Honest, Restart(o)
    PROVE  TypeInv'
<1>1. ne'[o] \in Epoch /\ e'[o] \in Epoch /\ firstWish'[o] = ne'[o]
  <2>1. CASE stored[o] = NoState
    BY <2>1, PacemakerAssumption DEF Restart, TypeInv, TypeOK, Epoch
  <2>2. CASE stored[o] # NoState
    BY <2>2 DEF Restart, TypeInv, TypeOK, StoredOK
  <2>3. QED
    BY <2>1, <2>2
<1>2. /\ ne' \in [Honest -> Epoch]
      /\ e' \in [Honest -> Epoch]
      /\ firstWish' \in [Honest -> Epoch]
  BY <1>1 DEF Restart, TypeInv, TypeOK
<1>3. wire' \in [Honest -> SUBSET Epoch]
  BY <1>1 DEF Restart, SendNewEpochWish, TypeInv, TypeOK
<1>4. restarts' \in 0..MaxRestarts
  BY PacemakerAssumption DEF Restart, TypeInv, TypeOK
<1>5. newEpochWishes' \in [Honest -> [Oracle -> 0..MaxEpoch]]
  BY PacemakerAssumption DEF Restart, TypeInv, TypeOK
<1>6. /\ tProgress' \in [Honest -> BOOLEAN]
      /\ notifyOutcomeGenerationOfNewEpoch' \in [Honest -> BOOLEAN]
      /\ outgen' \in [Honest -> 0..MaxEpoch]
      /\ ask' \in [Honest -> Event]
      /\ UNCHANGED <<stored, givenUp, failures>>
  BY PacemakerAssumption DEF Restart, TypeInv, TypeOK, Event
<1>7. QED
  BY <1>2, <1>3, <1>4, <1>5, <1>6 DEF TypeInv, TypeOK, StoredOK

LEMMA NewEpochRequestTyped ==
    ASSUME TypeInv, NEW o \in Honest, NewEpochRequest(o),
           ask' \in [Honest -> Event]
    PROVE  TypeInv'
<1>1. /\ ne' \in [Honest -> Epoch]
      /\ wire' \in [Honest -> SUBSET Epoch]
      /\ givenUp' \in SUBSET Epoch
      /\ stored' \in [Honest -> PacemakerState]
      /\ StoredOK'
      /\ failures' \in 0..MaxFailures
  <2>1. CASE e[o] = MaxEpoch
    <3>1. UNCHANGED <<ne, stored, wire, givenUp, failures>>
      BY <2>1, PacemakerAssumption DEF NewEpochRequest
    <3>2. QED
      BY <3>1 DEF TypeInv, TypeOK, StoredOK
  <2>2. CASE e[o] < MaxEpoch /\ ne[o] < e[o] + 1
    <3>1. e[o] \in Epoch /\ e[o] + 1 \in Epoch /\ e[o] # MaxEpoch
      BY <2>2, PacemakerAssumption DEF TypeInv, TypeOK, Epoch
    <3>2. /\ Persist(o, [epoch |-> e[o], highestSentNewEpochWish |-> e[o] + 1])
          /\ ne' = [ne EXCEPT ![o] = e[o] + 1]
          /\ givenUp' = givenUp \cup {e[o]}
          /\ SendNewEpochWish(o, ne'[o])
      BY <2>2, <3>1, PacemakerAssumption DEF NewEpochRequest, TypeInv, TypeOK, Epoch
    <3>3. ne' \in [Honest -> Epoch] /\ ne'[o] \in Epoch /\ givenUp' \in SUBSET Epoch
      BY <3>1, <3>2 DEF TypeInv, TypeOK
    <3>4. wire' \in [Honest -> SUBSET Epoch]
      BY <3>2, <3>3 DEF SendNewEpochWish, TypeInv, TypeOK
    <3>5. QED
      BY <3>1, <3>2, <3>3, <3>4, PersistTyped
  <2>3. CASE e[o] < MaxEpoch /\ ne[o] >= e[o] + 1
    <3>1. e[o] \in Epoch /\ ne[o] \in Epoch /\ e[o] # MaxEpoch
      BY <2>3, PacemakerAssumption DEF TypeInv, TypeOK, Epoch
    <3>2. /\ UNCHANGED <<ne, stored, failures>>
          /\ givenUp' = givenUp \cup {e[o]}
          /\ SendNewEpochWish(o, ne'[o])
      BY <2>3, <3>1, PacemakerAssumption DEF NewEpochRequest, TypeInv, TypeOK, Epoch
    <3>3. QED
      BY <3>1, <3>2 DEF SendNewEpochWish, TypeInv, TypeOK, StoredOK
  <2>4. QED
    BY <2>1, <2>2, <2>3 DEF NewEpochRequest
<1>2. /\ tProgress' \in [Honest -> BOOLEAN]
      /\ UNCHANGED <<e, newEpochWishes, notifyOutcomeGenerationOfNewEpoch,
                     firstWish, outgen, restarts>>
  BY DEF NewEpochRequest, TypeInv, TypeOK
<1>3. QED
  BY <1>1, <1>2 DEF TypeInv, TypeOK

\* The wishes as the receiver has them once the message is counted.
Counted(o, sender, w) ==
    [newEpochWishes[o] EXCEPT ![sender] = Larger(@, w)]

\* What a message does to the wish, the epoch and the database: the two rules of
\* messageNewEpochWish fire (an epoch) or do not (0).
Moves(o, sender, w, wishForEpoch, switchToEpoch) ==
    LET nextE == IF switchToEpoch = 0 THEN e[o] ELSE switchToEpoch
        wished == IF wishForEpoch = 0 THEN ne[o] ELSE wishForEpoch
    IN
    /\ \/ wishForEpoch = 0
       \/ /\ wishForEpoch \in Epoch
          /\ wishForEpoch > ne[o]
          /\ Cardinality({s \in Oracle :
                 Counted(o, sender, w)[s] >= wishForEpoch}) > F
    /\ \/ switchToEpoch = 0
       \/ /\ switchToEpoch \in Epoch
          /\ switchToEpoch > e[o]
          /\ Cardinality({s \in Oracle :
                 Counted(o, sender, w)[s] >= switchToEpoch}) > 2 * F
    /\ \/ Persist(o, [epoch |-> nextE,
                      highestSentNewEpochWish |-> Larger(wished, nextE)])
       \/ wishForEpoch = 0 /\ switchToEpoch = 0 /\ UNCHANGED <<stored, failures>>
    /\ ne' = [ne EXCEPT ![o] = IF switchToEpoch = 0 THEN wished
                               ELSE Larger(wished, nextE)]
    /\ e' = [e EXCEPT ![o] = nextE]
    /\ \/ wishForEpoch # 0 /\ SendNewEpochWish(o, wishForEpoch)
       \/ wishForEpoch = 0 /\ UNCHANGED wire
    /\ \/ switchToEpoch # 0 /\ StartEpoch(o)
       \/ /\ switchToEpoch = 0
          /\ UNCHANGED <<tProgress, notifyOutcomeGenerationOfNewEpoch>>

LEMMA MessageMoves ==
    ASSUME NEW o \in Honest, NEW sender \in Oracle, NEW w \in Epoch,
           MessageNewEpochWish(o, sender, w)
    PROVE  /\ \E wishForEpoch, switchToEpoch :
                  Moves(o, sender, w, wishForEpoch, switchToEpoch)
           /\ newEpochWishes' =
                  [newEpochWishes EXCEPT ![o] = Counted(o, sender, w)]
           /\ UNCHANGED <<firstWish, outgen, ask, givenUp, restarts>>
<1>1. PICK wishForEpoch \in Candidate(Counted(o, sender, w), ne[o], F),
           switchToEpoch \in Candidate(Counted(o, sender, w), e[o], 2 * F) :
       LET nextE == IF switchToEpoch = 0 THEN e[o] ELSE switchToEpoch
           wished == IF wishForEpoch = 0 THEN ne[o] ELSE wishForEpoch
           nextNe == IF switchToEpoch = 0 THEN wished ELSE Larger(wished, nextE)
       IN
       /\ IF wishForEpoch # 0 \/ switchToEpoch # 0
          THEN Persist(o, [epoch |-> nextE,
                           highestSentNewEpochWish |-> Larger(wished, nextE)])
          ELSE UNCHANGED <<stored, failures>>
       /\ ne' = [ne EXCEPT ![o] = nextNe]
       /\ e' = [e EXCEPT ![o] = nextE]
       /\ IF wishForEpoch # 0
          THEN SendNewEpochWish(o, wishForEpoch)
          ELSE UNCHANGED wire
       /\ IF switchToEpoch # 0
          THEN StartEpoch(o)
          ELSE UNCHANGED <<tProgress, notifyOutcomeGenerationOfNewEpoch>>
  BY DEF MessageNewEpochWish, Counted
<1>2. Moves(o, sender, w, wishForEpoch, switchToEpoch)
  BY <1>1, CandidateBacked DEF Moves
<1>3. QED
  BY <1>2 DEF MessageNewEpochWish, Counted

LEMMA MessageTyped ==
    ASSUME TypeInv, NEW o \in Honest, NEW sender \in Oracle, NEW w \in Epoch,
           MessageNewEpochWish(o, sender, w)
    PROVE  TypeInv'
<1>1. PICK wishForEpoch, switchToEpoch :
          Moves(o, sender, w, wishForEpoch, switchToEpoch)
  BY MessageMoves
<1> DEFINE nextE == IF switchToEpoch = 0 THEN e[o] ELSE switchToEpoch
           wished == IF wishForEpoch = 0 THEN ne[o] ELSE wishForEpoch
<1>2. nextE \in Epoch /\ wished \in Epoch /\ Larger(wished, nextE) \in Epoch
  BY <1>1 DEF Moves, TypeInv, TypeOK, Larger
<1>3. ne' \in [Honest -> Epoch] /\ e' \in [Honest -> Epoch]
  <2>1. /\ ne' = [ne EXCEPT ![o] = IF switchToEpoch = 0 THEN wished
                                   ELSE Larger(wished, nextE)]
        /\ e' = [e EXCEPT ![o] = nextE]
    BY <1>1 DEF Moves
  <2> HIDE DEF nextE, wished
  <2>2. QED
    BY <2>1, <1>2 DEF TypeInv, TypeOK
<1>4. /\ stored' \in [Honest -> PacemakerState]
      /\ StoredOK'
      /\ failures' \in 0..MaxFailures
  <2>1. CASE Persist(o, [epoch |-> nextE,
                         highestSentNewEpochWish |-> Larger(wished, nextE)])
    <3> HIDE DEF nextE, wished
    <3>1. QED
      BY <2>1, <1>2, PersistTyped
  <2>2. CASE UNCHANGED <<stored, failures>>
    BY <2>2 DEF TypeInv, TypeOK, StoredOK
  <2>3. QED
    BY <1>1, <2>1, <2>2 DEF Moves
<1>5. wire' \in [Honest -> SUBSET Epoch]
  BY <1>1 DEF Moves, SendNewEpochWish, TypeInv, TypeOK
<1>6. newEpochWishes' \in [Honest -> [Oracle -> 0..MaxEpoch]]
  <2>1. Counted(o, sender, w) \in [Oracle -> 0..MaxEpoch]
    BY DEF Counted, Larger, TypeInv, TypeOK, Epoch
  <2>2. newEpochWishes' = [newEpochWishes EXCEPT ![o] = Counted(o, sender, w)]
    BY MessageMoves
  <2>3. QED
    BY <2>1, <2>2 DEF TypeInv, TypeOK
<1>7. /\ tProgress' \in [Honest -> BOOLEAN]
      /\ notifyOutcomeGenerationOfNewEpoch' \in [Honest -> BOOLEAN]
  BY <1>1 DEF Moves, StartEpoch, TypeInv, TypeOK
<1>8. UNCHANGED <<firstWish, outgen, ask, givenUp, restarts>>
  BY MessageMoves
<1>9. QED
  BY <1>3, <1>4, <1>5, <1>6, <1>7, <1>8 DEF TypeInv, TypeOK

\* The other actions change little.
LEMMA ChannelsTyped ==
    ASSUME TypeInv, NEW o \in Honest,
           \/ NotifyNewEpochStart(o)
           \/ OutcomeGenerationSends(o, "progress")
           \/ OutcomeGenerationSends(o, "newEpochRequest")
           \/ EventProgress(o)
           \/ EventTResendTimeout(o)
           \/ \E w \in Epoch : Lose(o, w)
    PROVE  TypeInv'
<1>1. CASE NotifyNewEpochStart(o)
  BY <1>1 DEF NotifyNewEpochStart, TypeInv, TypeOK, StoredOK, Epoch, envVars
<1>2. CASE OutcomeGenerationSends(o, "progress")
  BY <1>2 DEF OutcomeGenerationSends, TypeInv, TypeOK, StoredOK, Event, envVars,
              paceVars
<1>3. CASE OutcomeGenerationSends(o, "newEpochRequest")
  BY <1>3 DEF OutcomeGenerationSends, TypeInv, TypeOK, StoredOK, Event, envVars,
              paceVars
<1>4. CASE EventProgress(o)
  BY <1>4 DEF EventProgress, TypeInv, TypeOK, StoredOK, Event, envVars
<1>5. CASE EventTResendTimeout(o)
  BY <1>5 DEF EventTResendTimeout, SendNewEpochWish, TypeInv, TypeOK, StoredOK,
              envVars, paceVars
<1>6. ASSUME NEW w \in Epoch, Lose(o, w)
      PROVE  TypeInv'
  BY <1>6 DEF Lose, TypeInv, TypeOK, StoredOK, envVars, paceVars
<1>7. QED
  BY <1>1, <1>2, <1>3, <1>4, <1>5, <1>6

LEMMA NextTyped == TypeInv /\ [Next]_vars => TypeInv'
<1> SUFFICES ASSUME TypeInv, [Next]_vars PROVE TypeInv'
  OBVIOUS
<1>1. ASSUME NEW o \in Honest, EventNewEpochRequest(o)
      PROVE  TypeInv'
  <2>1. ask' \in [Honest -> Event] /\ NewEpochRequest(o)
    BY <1>1 DEF EventNewEpochRequest, TypeInv, TypeOK, Event
  <2>2. QED
    BY <2>1, NewEpochRequestTyped
<1>2. ASSUME NEW o \in Honest, EventTProgressTimeout(o)
      PROVE  TypeInv'
  <2>1. ask' \in [Honest -> Event] /\ NewEpochRequest(o)
    BY <1>2 DEF EventTProgressTimeout, TypeInv, TypeOK
  <2>2. QED
    BY <2>1, NewEpochRequestTyped
<1>3. CASE UNCHANGED vars
  BY <1>3 DEF vars, paceVars, envVars, TypeInv, TypeOK, StoredOK
<1>4. QED
  BY <1>1, <1>2, <1>3, RestartTyped, MessageTyped, ChannelsTyped DEF Next

\* Every reachable state of the pacemakers is well typed: no wish and no epoch
\* leaves the range of a uint64, in particular e + 1 in eventNewEpochRequest.
THEOREM TypeCorrect == Spec => []TypeOK
<1>1. TypeInv => TypeOK
  BY DEF TypeInv
<1>2. QED
  BY <1>1, InitTyped, NextTyped, PTL DEF Spec

-----------------------------------------------------------------------------
(***************************************************************************)
(* The timer.  This needs neither the database nor the wishes heard.       *)
(***************************************************************************)
\* What is left to show of a step of oracle o.
LEMMA TimedStepOf ==
    ASSUME TypeInv, EpochsAreTimed, NEW o \in Honest,
           \A p \in Honest \ {o} : /\ tProgress'[p] = tProgress[p]
                                   /\ ne'[p] = ne[p]
                                   /\ e'[p] = e[p],
           \/ tProgress'[o]
           \/ ne'[o] > e'[o]
           \/ e'[o] = MaxEpoch
    PROVE  EpochsAreTimed'
  BY DEF EpochsAreTimed

LEMMA NewEpochRequestTimed ==
    ASSUME TypeInv, EpochsAreTimed, NEW o \in Honest, NewEpochRequest(o)
    PROVE  EpochsAreTimed'
<1>1. /\ ne[o] \in Epoch /\ e[o] \in Epoch /\ MaxEpoch \in Nat
      /\ e' = e
      /\ \A p \in Honest \ {o} : tProgress'[p] = tProgress[p] /\ ne'[p] = ne[p]
  BY PacemakerAssumption DEF NewEpochRequest, TypeInv, TypeOK
<1>2. CASE e[o] = MaxEpoch
  BY <1>1, <1>2, TimedStepOf
<1>3. CASE e[o] < MaxEpoch
  <2>1. ne'[o] = e[o] + 1 \/ (ne'[o] = ne[o] /\ ne[o] >= e[o] + 1)
    BY <1>1, <1>3 DEF NewEpochRequest, TypeInv, TypeOK, Epoch
  <2>2. ne'[o] > e'[o]
    BY <1>1, <2>1 DEF Epoch
  <2>3. QED
    BY <1>1, <2>2, TimedStepOf
<1>4. QED
  BY <1>1, <1>2, <1>3 DEF Epoch

LEMMA MessageTimed ==
    ASSUME TypeInv, EpochsAreTimed, NEW o \in Honest, NEW sender \in Oracle,
           NEW w \in Epoch, MessageNewEpochWish(o, sender, w)
    PROVE  EpochsAreTimed'
<1>1. PICK wishForEpoch, switchToEpoch :
          Moves(o, sender, w, wishForEpoch, switchToEpoch)
  BY MessageMoves
<1>2. \A p \in Honest \ {o} : /\ tProgress'[p] = tProgress[p]
                              /\ ne'[p] = ne[p]
                              /\ e'[p] = e[p]
  BY <1>1 DEF Moves, StartEpoch, TypeInv, TypeOK
<1>3. CASE switchToEpoch # 0
  <2>1. tProgress'[o]
    BY <1>1, <1>3 DEF Moves, StartEpoch, TypeInv, TypeOK
  <2>2. QED
    BY <1>2, <2>1, TimedStepOf
<1>4. CASE switchToEpoch = 0
  <2>1. /\ e'[o] = e[o]
        /\ tProgress'[o] = tProgress[o]
        /\ ne'[o] = IF wishForEpoch = 0 THEN ne[o] ELSE wishForEpoch
    BY <1>1, <1>4 DEF Moves, TypeInv, TypeOK
  <2>2. wishForEpoch = 0 \/ (wishForEpoch \in Epoch /\ wishForEpoch > ne[o])
    BY <1>1 DEF Moves
  <2>3. ne[o] \in Nat /\ e[o] \in Nat /\ Epoch \subseteq Nat
    BY DEF TypeInv, TypeOK, Epoch
  <2>4. tProgress'[o] \/ ne'[o] > e'[o] \/ e'[o] = MaxEpoch
    <3>1. ne[o] > e[o] => ne'[o] > e'[o]
      <4>1. CASE wishForEpoch = 0
        BY <2>1, <4>1
      <4>2. CASE wishForEpoch # 0
        <5>1. wishForEpoch \in Nat /\ wishForEpoch > ne[o] /\ ne'[o] = wishForEpoch
          BY <2>1, <2>2, <2>3, <4>2
        <5>2. QED
          BY <5>1, <2>1, <2>3
      <4>3. QED
        BY <4>1, <4>2
    <3>2. tProgress[o] \/ ne[o] > e[o] \/ e[o] = MaxEpoch
      BY DEF EpochsAreTimed
    <3>3. QED
      BY <2>1, <3>1, <3>2
  <2>5. QED
    BY <1>2, <2>4, TimedStepOf
<1>5. QED
  BY <1>3, <1>4

LEMMA NextTimed == TypeInv /\ EpochsAreTimed /\ [Next]_vars => EpochsAreTimed'
<1> SUFFICES ASSUME TypeInv, EpochsAreTimed, [Next]_vars
             PROVE  EpochsAreTimed'
  OBVIOUS
<1>1. ASSUME NEW o \in Honest, Restart(o)
      PROVE  EpochsAreTimed'
  <2>1. /\ tProgress'[o]
        /\ \A p \in Honest \ {o} : /\ tProgress'[p] = tProgress[p]
                                    /\ ne'[p] = ne[p]
                                    /\ e'[p] = e[p]
    BY <1>1 DEF Restart, TypeInv, TypeOK
  <2>2. QED
    BY <2>1, TimedStepOf
<1>2. ASSUME NEW o \in Honest, EventProgress(o)
      PROVE  EpochsAreTimed'
  <2>1. /\ tProgress'[o]
        /\ \A p \in Honest \ {o} : /\ tProgress'[p] = tProgress[p]
                                    /\ ne'[p] = ne[p]
                                    /\ e'[p] = e[p]
    BY <1>2 DEF EventProgress, TypeInv, TypeOK
  <2>2. QED
    BY <2>1, TimedStepOf
<1>3. ASSUME NEW o \in Honest,
             EventNewEpochRequest(o) \/ EventTProgressTimeout(o)
      PROVE  EpochsAreTimed'
  BY <1>3, NewEpochRequestTimed DEF EventNewEpochRequest, EventTProgressTimeout
<1>4. ASSUME NEW o \in Honest,
             \/ NotifyNewEpochStart(o)
             \/ OutcomeGenerationSends(o, "progress")
             \/ OutcomeGenerationSends(o, "newEpochRequest")
             \/ EventTResendTimeout(o)
             \/ \E w \in Epoch : Lose(o, w)
      PROVE  EpochsAreTimed'
  <2>1. UNCHANGED <<tProgress, ne, e>>
    BY <1>4 DEF NotifyNewEpochStart, OutcomeGenerationSends,
                EventTResendTimeout, Lose, paceVars
  <2>2. QED
    BY <2>1 DEF EpochsAreTimed
<1>5. CASE UNCHANGED vars
  BY <1>5 DEF vars, paceVars, EpochsAreTimed
<1>6. CASE Next
  BY <1>1, <1>2, <1>3, <1>4, <1>6, MessageTimed DEF Next
<1>7. QED
  BY <1>5, <1>6

\* eventTProgressTimeout and messageNewEpochWish: in every epoch but the last the
\* timer runs or the oracle has wished for a later one, whatever is restarted and
\* whatever writes fail.
THEOREM TimedEpochs == Spec => []EpochsAreTimed
<1>1. Init => EpochsAreTimed
  BY DEF Init, EpochsAreTimed
<1>2. QED
  BY <1>1, InitTyped, NextTyped, NextTimed, PTL DEF Spec

-----------------------------------------------------------------------------
(***************************************************************************)
(* Which wishes there can be.  This does not need the database to be       *)
(* right, either: what was due once stays due.                             *)
(***************************************************************************)
\* What messageNewEpochWish counts for an honest oracle with more than F wishes
\* has been wished for by an honest one.
LEMMA CountedOfHonest ==
    ASSUME TypeInv, NEW wishes \in [Oracle -> 0..MaxEpoch], NEW c \in Epoch,
           Cardinality({s \in Oracle : wishes[s] >= c}) > F
    PROVE  \E h \in Honest : c <= wishes[h]
<1> DEFINE S == {s \in Oracle : wishes[s] >= c}
<1>1. S \in SUBSET Oracle /\ Cardinality(S) > 0 + F
  BY HonestFinite
<1> HIDE DEF S
<1>2. Cardinality(S \cap Honest) > 0
  BY <1>1, HonestPart
<1>3. PICK h \in S \cap Honest : TRUE
  BY <1>2, FS_EmptySet
<1>4. h \in Honest /\ wishes[h] >= c
  BY <1>3 DEF S
<1>5. wishes[h] \in Int /\ c \in Int
  BY <1>4 DEF Epoch, Honest
<1>6. QED
  BY <1>4, <1>5

LEMMA CountedTyped ==
    ASSUME TypeInv, NEW o \in Honest, NEW sender \in Oracle, NEW w \in Epoch
    PROVE  Counted(o, sender, w) \in [Oracle -> 0..MaxEpoch]
  BY DEF Counted, Larger, TypeInv, TypeOK, Epoch

\* The epochs that may be wished for when those of G have been given up.
Due(G, k) == k <= 1 \/ \E j \in G : k <= j + 1

LEMMA DueStays ==
    ASSUME NEW G, NEW H, G \subseteq H, NEW k, Due(G, k)
    PROVE  Due(H, k)
  BY DEF Due

LEMMA DueBelow ==
    ASSUME NEW G \in SUBSET Nat, NEW k \in Int, NEW c \in Int, c <= k, Due(G, k)
    PROVE  Due(G, c)
<1>1. CASE k <= 1
  BY <1>1 DEF Due
<1>2. ASSUME NEW j \in G, k <= j + 1
      PROVE  Due(G, c)
  <2>1. c <= j + 1
    BY <1>2
  <2>2. QED
    BY <2>1 DEF Due
<1>3. QED
  BY <1>1, <1>2 DEF Due

\* Everything the oracles wish for, have written, have sent or have heard of each
\* other is due.
AllDue ==
    \A o \in Honest :
        /\ Due(givenUp, ne[o]) /\ Due(givenUp, e[o])
        /\ Due(givenUp, stored[o].epoch)
        /\ Due(givenUp, stored[o].highestSentNewEpochWish)
        /\ \A w \in wire[o] : Due(givenUp, w)
        /\ \A h \in Honest : Due(givenUp, newEpochWishes[o][h])

LEMMA DueInit == Init => AllDue
<1> SUFFICES ASSUME Init, NEW o \in Honest
             PROVE  /\ ne[o] <= 1 /\ e[o] <= 1
                    /\ stored[o].epoch <= 1
                    /\ stored[o].highestSentNewEpochWish <= 1
                    /\ \A w \in wire[o] : w <= 1
                    /\ \A h \in Honest : newEpochWishes[o][h] <= 1
  BY DEF AllDue, Due
<1>1. QED
  BY DEF Init, NoState, Honest

LEMMA DueImplies == AllDue /\ TypeInv => WishesAreDue
<1> SUFFICES ASSUME AllDue, TypeInv, NEW o \in Honest
             PROVE  ne[o] = 1 \/ \E k \in givenUp : ne[o] <= k + 1
  BY DEF WishesAreDue
<1>1. Due(givenUp, ne[o]) /\ ne[o] \in Nat /\ ne[o] >= 1
  BY DEF AllDue, TypeInv, TypeOK, Epoch
<1>2. QED
  BY <1>1 DEF Due

\* What is left to show of a step of oracle o.
LEMMA DueStepOf ==
    ASSUME AllDue, NEW o \in Honest, givenUp \subseteq givenUp',
           \A p \in Honest \ {o} : /\ ne'[p] = ne[p]
                                   /\ e'[p] = e[p]
                                   /\ stored'[p] = stored[p]
                                   /\ wire'[p] \subseteq wire[p],
           Due(givenUp', ne'[o]), Due(givenUp', e'[o]),
           \/ stored'[o] = stored[o]
           \/ /\ Due(givenUp', stored'[o].epoch)
              /\ Due(givenUp', stored'[o].highestSentNewEpochWish),
           \A w \in wire'[o] : w \in wire[o] \/ Due(givenUp', w),
           \A p, h \in Honest : \/ newEpochWishes'[p][h] = newEpochWishes[p][h]
                                \/ Due(givenUp', newEpochWishes'[p][h])
    PROVE  AllDue'
<1>1. ASSUME NEW k, Due(givenUp, k)
      PROVE  Due(givenUp', k)
  BY <1>1, DueStays
<1> SUFFICES ASSUME NEW p \in Honest
             PROVE  /\ Due(givenUp', ne'[p]) /\ Due(givenUp', e'[p])
                    /\ Due(givenUp', stored'[p].epoch)
                    /\ Due(givenUp', stored'[p].highestSentNewEpochWish)
                    /\ \A w \in wire'[p] : Due(givenUp', w)
                    /\ \A h \in Honest : Due(givenUp', newEpochWishes'[p][h])
  BY DEF AllDue
<1>2. \A h \in Honest : Due(givenUp', newEpochWishes'[p][h])
  BY <1>1 DEF AllDue
<1>3. CASE p = o
  <2>1. Due(givenUp', ne'[o]) /\ Due(givenUp', e'[o])
    OBVIOUS
  <2>2. \A w \in wire'[o] : Due(givenUp', w)
    BY <1>1 DEF AllDue
  <2>3. /\ Due(givenUp', stored'[o].epoch)
        /\ Due(givenUp', stored'[o].highestSentNewEpochWish)
    <3>1. CASE stored'[o] = stored[o]
      BY <1>1, <3>1 DEF AllDue
    <3>2. QED
      BY <3>1
  <2>4. QED
    BY <1>2, <1>3, <2>1, <2>2, <2>3
<1>4. CASE p # o
  <2>1. /\ ne'[p] = ne[p] /\ e'[p] = e[p] /\ stored'[p] = stored[p]
        /\ wire'[p] \subseteq wire[p]
    BY <1>4
  <2>2. /\ Due(givenUp', ne[p]) /\ Due(givenUp', e[p])
        /\ Due(givenUp', stored[p].epoch)
        /\ Due(givenUp', stored[p].highestSentNewEpochWish)
        /\ \A w \in wire[p] : Due(givenUp', w)
    BY <1>1 DEF AllDue
  <2>3. QED
    BY <1>2, <2>1, <2>2
<1>5. QED
  BY <1>3, <1>4

LEMMA RestartDue ==
    ASSUME TypeInv, AllDue, NEW o \in Honest, Restart(o)
    PROVE  AllDue'
<1>1. \A p \in Honest \ {o} : /\ ne'[p] = ne[p]
                              /\ e'[p] = e[p]
                              /\ stored'[p] = stored[p]
                              /\ wire'[p] \subseteq wire[p]
  BY DEF Restart, SendNewEpochWish, TypeInv, TypeOK
<1>2. /\ givenUp' = givenUp /\ stored' = stored
      /\ ne'[o] \in {1, stored[o].highestSentNewEpochWish}
      /\ e'[o] \in {1, stored[o].epoch}
      /\ wire'[o] = wire[o] \cup {ne'[o]}
  BY DEF Restart, SendNewEpochWish, TypeInv, TypeOK
<1>3. Due(givenUp, 1) /\ Due(givenUp, 0)
  BY DEF Due
<1>4. Due(givenUp', ne'[o]) /\ Due(givenUp', e'[o])
  BY <1>2, <1>3 DEF AllDue
<1>5. \A p, h \in Honest : \/ newEpochWishes'[p][h] = newEpochWishes[p][h]
                           \/ newEpochWishes'[p][h] = 0
  BY DEF Restart, TypeInv, TypeOK, Honest
<1>6. \A p, h \in Honest : \/ newEpochWishes'[p][h] = newEpochWishes[p][h]
                           \/ Due(givenUp', newEpochWishes'[p][h])
  BY <1>2, <1>3, <1>5
<1>7. \A w \in wire'[o] : w \in wire[o] \/ Due(givenUp', w)
  BY <1>2, <1>4
<1>8. givenUp \subseteq givenUp' /\ stored'[o] = stored[o]
  BY <1>2
<1>9. QED
  BY <1>1, <1>4, <1>6, <1>7, <1>8, DueStepOf

\* What a write leaves in the database.
LEMMA PersistWrites ==
    ASSUME TypeInv, NEW o \in Honest, NEW state, Persist(o, state)
    PROVE  /\ \A p \in Honest \ {o} : stored'[p] = stored[p]
           /\ \/ stored'[o] = state /\ failures' = failures
              \/ stored'[o] = stored[o] /\ failures' = failures + 1
<1>1. stored \in [Honest -> PacemakerState]
  BY DEF TypeInv, TypeOK
<1>2. QED
  BY <1>1 DEF Persist

\* eventNewEpochRequest: the wish becomes e + 1, or stays and is sent again.
LEMMA RequestMoves ==
    ASSUME TypeInv, NEW o \in Honest, NewEpochRequest(o)
    PROVE  /\ e' = e /\ newEpochWishes' = newEpochWishes /\ restarts' = restarts
           /\ givenUp \subseteq givenUp'
           /\ \A p \in Honest \ {o} : /\ ne'[p] = ne[p]
                                      /\ stored'[p] = stored[p]
                                      /\ wire'[p] \subseteq wire[p]
           /\ wire'[o] \subseteq wire[o] \cup {ne'[o]}
           /\ \/ /\ ne'[o] = ne[o] /\ stored' = stored /\ failures' = failures
              \/ /\ ne'[o] = e[o] + 1
                 /\ ne[o] < e[o] + 1
                 /\ e[o] \in givenUp'
                 /\ \/ /\ stored'[o] = [epoch |-> e[o],
                                        highestSentNewEpochWish |-> e[o] + 1]
                       /\ failures' = failures
                    \/ stored'[o] = stored[o] /\ failures' = failures + 1
<1>1. /\ ne[o] \in Epoch /\ e[o] \in Epoch /\ MaxEpoch \in Nat
      /\ e' = e /\ newEpochWishes' = newEpochWishes /\ restarts' = restarts
  BY PacemakerAssumption DEF NewEpochRequest, TypeInv, TypeOK
<1>2. CASE e[o] = MaxEpoch
  <2>1. UNCHANGED <<ne, stored, wire, givenUp, failures>>
    BY <1>1, <1>2 DEF NewEpochRequest, Epoch
  <2>2. QED
    BY <1>1, <2>1
<1>3. CASE e[o] < MaxEpoch
  <2>1. /\ givenUp' = givenUp \cup {e[o]}
        /\ SendNewEpochWish(o, ne'[o])
    BY <1>1, <1>3 DEF NewEpochRequest, Epoch
  <2>2. /\ \A p \in Honest \ {o} : wire'[p] \subseteq wire[p]
        /\ wire'[o] \subseteq wire[o] \cup {ne'[o]}
    BY <2>1 DEF SendNewEpochWish, TypeInv, TypeOK
  <2>3. CASE ne[o] < e[o] + 1
    <3>1. /\ Persist(o, [epoch |-> e[o], highestSentNewEpochWish |-> e[o] + 1])
          /\ ne' = [ne EXCEPT ![o] = e[o] + 1]
      BY <1>1, <1>3, <2>3 DEF NewEpochRequest, Epoch
    <3>2. ne'[o] = e[o] + 1 /\ \A p \in Honest \ {o} : ne'[p] = ne[p]
      BY <3>1 DEF TypeInv, TypeOK
    <3>3. QED
      BY <1>1, <2>1, <2>2, <2>3, <3>1, <3>2, PersistWrites
  <2>4. CASE ne[o] >= e[o] + 1
    <3>1. UNCHANGED <<ne, stored, failures>>
      BY <1>1, <1>3, <2>4 DEF NewEpochRequest, Epoch
    <3>2. QED
      BY <1>1, <2>1, <2>2, <3>1
  <2>5. QED
    BY <1>1, <2>3, <2>4 DEF Epoch
<1>4. QED
  BY <1>1, <1>2, <1>3 DEF Epoch

LEMMA RequestDue ==
    ASSUME TypeInv, AllDue, NEW o \in Honest, NewEpochRequest(o)
    PROVE  AllDue'
<1>1. e[o] \in Int /\ givenUp \subseteq givenUp'
  <2>1. givenUp \subseteq givenUp'
    BY RequestMoves
  <2>2. QED
    BY <2>1 DEF TypeInv, TypeOK, Epoch
<1>2. Due(givenUp', ne[o]) /\ Due(givenUp', e[o])
  BY <1>1, DueStays DEF AllDue
<1>3. ne'[o] = e[o] + 1 /\ e[o] \in givenUp' => Due(givenUp', ne'[o])
  BY <1>1 DEF Due
<1>4. Due(givenUp', ne'[o])
  BY <1>2, <1>3, RequestMoves
<1>5. \/ stored'[o] = stored[o]
      \/ /\ Due(givenUp', stored'[o].epoch)
         /\ Due(givenUp', stored'[o].highestSentNewEpochWish)
  <2>1. CASE /\ stored'[o] = [epoch |-> e[o],
                              highestSentNewEpochWish |-> e[o] + 1]
             /\ ne'[o] = e[o] + 1
    BY <1>2, <1>4, <2>1
  <2>2. QED
    BY <2>1, RequestMoves
<1>6. \A w \in wire'[o] : w \in wire[o] \/ Due(givenUp', w)
  BY <1>4, RequestMoves
<1>7. e' = e /\ newEpochWishes' = newEpochWishes
  BY RequestMoves
<1>8. \A p \in Honest \ {o} : /\ ne'[p] = ne[p]
                              /\ e'[p] = e[p]
                              /\ stored'[p] = stored[p]
                              /\ wire'[p] \subseteq wire[p]
  BY <1>7, RequestMoves
<1>9. QED
  BY <1>1, <1>2, <1>4, <1>5, <1>6, <1>7, <1>8, DueStepOf

\* What messageNewEpochWish does: the wish is raised to what more than F oracles wish
\* for, the epoch to what more than 2F do, or they stay.
MovedTo(o, sender, w, wished, nextE) ==
    /\ wished \in Epoch
    /\ \/ wished = ne[o]
       \/ /\ wished > ne[o]
          /\ Cardinality({s \in Oracle : Counted(o, sender, w)[s] >= wished}) > F
    /\ nextE \in Epoch
    /\ \/ nextE = e[o]
       \/ /\ nextE > e[o]
          /\ Cardinality({s \in Oracle : Counted(o, sender, w)[s] >= nextE}) > 2 * F
    /\ e'[o] = nextE
    /\ \/ nextE = e[o] /\ ne'[o] = wished
       \/ ne'[o] = Larger(wished, nextE)
    /\ wire'[o] \subseteq wire[o] \cup {wished}
    /\ \/ /\ wished = ne[o] /\ nextE = e[o] /\ ne'[o] = ne[o]
          /\ stored'[o] = stored[o] /\ failures' = failures
       \/ /\ stored'[o] = [epoch |-> nextE,
                           highestSentNewEpochWish |-> Larger(wished, nextE)]
          /\ failures' = failures
       \/ stored'[o] = stored[o] /\ failures' = failures + 1

LEMMA MessageEffect ==
    ASSUME TypeInv, NEW o \in Honest, NEW sender \in Oracle, NEW w \in Epoch,
           MessageNewEpochWish(o, sender, w)
    PROVE  /\ \E wished, nextE : MovedTo(o, sender, w, wished, nextE)
           /\ \A p \in Honest \ {o} : /\ ne'[p] = ne[p]
                                      /\ e'[p] = e[p]
                                      /\ stored'[p] = stored[p]
                                      /\ wire'[p] \subseteq wire[p]
<1>1. PICK wishForEpoch, switchToEpoch :
          Moves(o, sender, w, wishForEpoch, switchToEpoch)
  BY MessageMoves
<1> DEFINE nextE == IF switchToEpoch = 0 THEN e[o] ELSE switchToEpoch
           wished == IF wishForEpoch = 0 THEN ne[o] ELSE wishForEpoch
<1>2. /\ wished \in Epoch
      /\ \/ wished = ne[o]
         \/ /\ wished > ne[o]
            /\ Cardinality({s \in Oracle : Counted(o, sender, w)[s] >= wished}) > F
  <2>1. CASE wishForEpoch = 0
    BY <2>1 DEF TypeInv, TypeOK
  <2>2. CASE wishForEpoch # 0
    <3>1. wished = wishForEpoch
      BY <2>2
    <3> HIDE DEF wished
    <3>2. QED
      BY <1>1, <2>2, <3>1 DEF Moves
  <2>3. QED
    BY <2>1, <2>2
<1>3. /\ nextE \in Epoch
      /\ \/ nextE = e[o]
         \/ /\ nextE > e[o]
            /\ Cardinality({s \in Oracle :
                   Counted(o, sender, w)[s] >= nextE}) > 2 * F
  <2>1. CASE switchToEpoch = 0
    BY <2>1 DEF TypeInv, TypeOK
  <2>2. CASE switchToEpoch # 0
    <3>1. nextE = switchToEpoch
      BY <2>2
    <3> HIDE DEF nextE
    <3>2. QED
      BY <1>1, <2>2, <3>1 DEF Moves
  <2>3. QED
    BY <2>1, <2>2
<1>4. /\ e' = [e EXCEPT ![o] = nextE]
      /\ ne' = [ne EXCEPT ![o] = IF switchToEpoch = 0 THEN wished
                                 ELSE Larger(wished, nextE)]
  BY <1>1 DEF Moves
<1>5. /\ e'[o] = nextE
      /\ \/ nextE = e[o] /\ ne'[o] = wished
         \/ ne'[o] = Larger(wished, nextE)
  <2>1. switchToEpoch = 0 => nextE = e[o]
    OBVIOUS
  <2> HIDE DEF wished, nextE
  <2>2. QED
    BY <1>4, <2>1 DEF TypeInv, TypeOK
<1>6. /\ wire'[o] \subseteq wire[o] \cup {wished}
      /\ \A p \in Honest \ {o} : wire'[p] \subseteq wire[p]
  <2>1. CASE wishForEpoch # 0 /\ SendNewEpochWish(o, wishForEpoch)
    <3>1. wished = wishForEpoch
      BY <2>1
    <3> HIDE DEF wished, nextE
    <3>2. QED
      BY <2>1, <3>1 DEF SendNewEpochWish, TypeInv, TypeOK
  <2>2. CASE wire' = wire
    BY <2>2
  <2>3. QED
    BY <1>1, <2>1, <2>2 DEF Moves
<1>7. /\ \A p \in Honest \ {o} : stored'[p] = stored[p]
      /\ \/ /\ wished = ne[o] /\ nextE = e[o] /\ ne'[o] = ne[o]
            /\ stored'[o] = stored[o] /\ failures' = failures
         \/ /\ stored'[o] = [epoch |-> nextE,
                             highestSentNewEpochWish |-> Larger(wished, nextE)]
            /\ failures' = failures
         \/ stored'[o] = stored[o] /\ failures' = failures + 1
  <2>1. CASE Persist(o, [epoch |-> nextE,
                         highestSentNewEpochWish |-> Larger(wished, nextE)])
    <3> HIDE DEF wished, nextE
    <3>1. QED
      BY <2>1, PersistWrites
  <2>2. CASE wishForEpoch = 0 /\ switchToEpoch = 0 /\ UNCHANGED <<stored, failures>>
    <3>1. wished = ne[o] /\ nextE = e[o]
      BY <2>2
    <3>2. ne'[o] = ne[o]
      BY <1>4, <2>2, <3>1 DEF TypeInv, TypeOK
    <3>3. QED
      BY <2>2, <3>1, <3>2
  <2>3. QED
    BY <1>1, <2>1, <2>2 DEF Moves
<1>8. \A p \in Honest \ {o} : ne'[p] = ne[p] /\ e'[p] = e[p]
  <2> HIDE DEF wished, nextE
  <2>1. QED
    BY <1>4 DEF TypeInv, TypeOK
<1>9. MovedTo(o, sender, w, wished, nextE)
  <2> HIDE DEF wished, nextE
  <2>1. QED
    BY <1>2, <1>3, <1>5, <1>6, <1>7 DEF MovedTo
<1>10. QED
  <2> HIDE DEF wished, nextE
  <2>1. QED
    BY <1>6, <1>7, <1>8, <1>9

LEMMA MessageDue ==
    ASSUME TypeInv, AllDue, NEW o \in Honest, NEW sender \in Oracle, NEW w \in Epoch,
           MessageNewEpochWish(o, sender, w)
    PROVE  AllDue'
<1>1. PICK wished, nextE : MovedTo(o, sender, w, wished, nextE)
  BY MessageEffect
<1>2. /\ Receivable(o, sender, w)
      /\ newEpochWishes' = [newEpochWishes EXCEPT ![o] = Counted(o, sender, w)]
      /\ givenUp' = givenUp
  <2>1. Receivable(o, sender, w)
    BY DEF MessageNewEpochWish
  <2>2. QED
    BY <2>1, MessageMoves
<1>3. /\ givenUp \in SUBSET Nat /\ Epoch \subseteq Int /\ F \in Nat
      /\ Cardinality(Oracle) \in Nat
  BY HonestFinite DEF TypeInv, TypeOK, Epoch
<1>4. ASSUME NEW h \in Honest
      PROVE  Due(givenUp, Counted(o, sender, w)[h])
  <2>1. h \in Oracle /\ newEpochWishes[o] \in [Oracle -> 0..MaxEpoch]
    BY DEF Honest, TypeInv, TypeOK
  <2>2. Due(givenUp, newEpochWishes[o][h])
    BY DEF AllDue
  <2>3. CASE h # sender
    BY <2>1, <2>2, <2>3 DEF Counted
  <2>4. CASE h = sender
    <3>1. w \in wire[h]
      BY <1>2, <2>4 DEF Receivable, Honest
    <3>2. Due(givenUp, w)
      BY <3>1 DEF AllDue
    <3>3. Counted(o, sender, w)[h] \in {newEpochWishes[o][h], w}
      BY <2>1, <2>4 DEF Counted, Larger
    <3>4. QED
      BY <2>2, <3>2, <3>3
  <2>5. QED
    BY <2>3, <2>4
<1>5. ASSUME NEW c \in Epoch,
             Cardinality({s \in Oracle : Counted(o, sender, w)[s] >= c}) > F
      PROVE  Due(givenUp, c)
  <2>1. Counted(o, sender, w) \in [Oracle -> 0..MaxEpoch]
    BY CountedTyped
  <2>2. PICK h \in Honest : c <= Counted(o, sender, w)[h]
    BY <1>5, <2>1, CountedOfHonest
  <2>3. Counted(o, sender, w)[h] \in Int /\ c \in Int
    BY <1>3, <2>1 DEF Honest
  <2>4. QED
    BY <1>3, <1>4, <2>2, <2>3, DueBelow
<1>6. Due(givenUp, wished) /\ Due(givenUp, nextE)
  <2>1. Due(givenUp, wished)
    BY <1>1, <1>5 DEF MovedTo, AllDue
  <2>2. nextE = e[o] => Due(givenUp, nextE)
    BY DEF AllDue
  <2>3. ASSUME Cardinality({s \in Oracle :
                   Counted(o, sender, w)[s] >= nextE}) > 2 * F
        PROVE  Due(givenUp, nextE)
    <3>1. Cardinality({s \in Oracle : Counted(o, sender, w)[s] >= nextE}) \in Nat
      BY OracleAssumption, FS_Subset, FS_CardinalityType
    <3>2. Cardinality({s \in Oracle : Counted(o, sender, w)[s] >= nextE}) > F
      BY <1>3, <2>3, <3>1
    <3>3. nextE \in Epoch
      BY <1>1 DEF MovedTo
    <3>4. QED
      BY <1>5, <3>2, <3>3
  <2>4. QED
    BY <1>1, <2>1, <2>2, <2>3 DEF MovedTo
<1>7. Due(givenUp, Larger(wished, nextE))
  BY <1>6 DEF Larger
<1>8. /\ e'[o] = nextE
      /\ ne'[o] \in {wished, Larger(wished, nextE)}
      /\ wire'[o] \subseteq wire[o] \cup {wished}
      /\ \/ stored'[o] = stored[o]
         \/ stored'[o] = [epoch |-> nextE,
                          highestSentNewEpochWish |-> Larger(wished, nextE)]
  BY <1>1 DEF MovedTo
<1>9. \A p, h \in Honest : \/ newEpochWishes'[p][h] = newEpochWishes[p][h]
                           \/ Due(givenUp', newEpochWishes'[p][h])
  <2> SUFFICES ASSUME NEW p \in Honest, NEW h \in Honest
               PROVE  \/ newEpochWishes'[p][h] = newEpochWishes[p][h]
                      \/ Due(givenUp', newEpochWishes'[p][h])
    OBVIOUS
  <2>1. newEpochWishes'[p] = IF p = o THEN Counted(o, sender, w)
                             ELSE newEpochWishes[p]
    BY <1>2 DEF TypeInv, TypeOK
  <2>2. QED
    BY <1>2, <1>4, <2>1
<1>10. /\ Due(givenUp', ne'[o]) /\ Due(givenUp', e'[o])
       /\ \/ stored'[o] = stored[o]
          \/ /\ Due(givenUp', stored'[o].epoch)
             /\ Due(givenUp', stored'[o].highestSentNewEpochWish)
       /\ \A v \in wire'[o] : v \in wire[o] \/ Due(givenUp', v)
  BY <1>2, <1>6, <1>7, <1>8
<1>11. QED
  BY <1>2, <1>9, <1>10, MessageEffect, DueStepOf

\* The other actions send what the oracle wishes for, or nothing.
LEMMA OthersMove ==
    ASSUME NEW o \in Honest,
           \/ NotifyNewEpochStart(o)
           \/ OutcomeGenerationSends(o, "progress")
           \/ OutcomeGenerationSends(o, "newEpochRequest")
           \/ EventProgress(o)
           \/ EventTResendTimeout(o)
           \/ \E w \in Epoch : Lose(o, w)
    PROVE  /\ UNCHANGED <<ne, e, newEpochWishes, stored, givenUp, restarts, failures>>
           /\ \/ UNCHANGED wire
              \/ wire' = [wire EXCEPT ![o] = @ \cup {ne[o]}]
              \/ \E w \in Epoch : wire' = [wire EXCEPT ![o] = @ \ {w}]
  BY DEF NotifyNewEpochStart, OutcomeGenerationSends, EventProgress,
         EventTResendTimeout, SendNewEpochWish, Lose, paceVars, envVars

LEMMA OthersSend ==
    ASSUME TypeInv, NEW o \in Honest,
           \/ NotifyNewEpochStart(o)
           \/ OutcomeGenerationSends(o, "progress")
           \/ OutcomeGenerationSends(o, "newEpochRequest")
           \/ EventProgress(o)
           \/ EventTResendTimeout(o)
           \/ \E w \in Epoch : Lose(o, w)
    PROVE  \A p \in Honest : \A w \in wire'[p] : w \in wire[p] \/ w = ne[p]
<1>1. \/ UNCHANGED wire
      \/ wire' = [wire EXCEPT ![o] = @ \cup {ne[o]}]
      \/ \E w \in Epoch : wire' = [wire EXCEPT ![o] = @ \ {w}]
  BY OthersMove
<1>2. wire \in [Honest -> SUBSET Epoch]
  BY DEF TypeInv, TypeOK
<1>3. QED
  BY <1>1, <1>2

LEMMA NextDue == TypeInv /\ AllDue /\ [Next]_vars => AllDue'
<1> SUFFICES ASSUME TypeInv, AllDue, [Next]_vars
             PROVE  AllDue'
  OBVIOUS
<1>1. ASSUME NEW o \in Honest,
             \/ NotifyNewEpochStart(o)
             \/ OutcomeGenerationSends(o, "progress")
             \/ OutcomeGenerationSends(o, "newEpochRequest")
             \/ EventProgress(o)
             \/ EventTResendTimeout(o)
             \/ \E w \in Epoch : Lose(o, w)
      PROVE  AllDue'
  <2>1. UNCHANGED <<ne, e, newEpochWishes, stored, givenUp>>
    BY <1>1, OthersMove
  <2>2. \A p \in Honest : \A w \in wire'[p] : w \in wire[p] \/ w = ne[p]
    BY <1>1, OthersSend
  <2>3. QED
    BY <2>1, <2>2 DEF AllDue
<1>2. ASSUME NEW o \in Honest,
             EventNewEpochRequest(o) \/ EventTProgressTimeout(o)
      PROVE  AllDue'
  BY <1>2, RequestDue DEF EventNewEpochRequest, EventTProgressTimeout
<1>3. CASE UNCHANGED vars
  BY <1>3 DEF vars, paceVars, AllDue
<1>4. CASE Next
  BY <1>1, <1>2, <1>4, RestartDue, MessageDue DEF Next
<1>5. QED
  BY <1>3, <1>4

\* eventNewEpochRequest and the f+1 rule: no number of messages of the faulty oracles
\* makes an honest one wish to end an epoch that no honest oracle has asked to end,
\* whatever is restarted and whatever writes fail.
THEOREM DueWishes == Spec => []WishesAreDue
<1>1. Init => TypeInv /\ AllDue
  BY InitTyped, DueInit
<1>2. TypeInv /\ AllDue /\ [Next]_vars => (TypeInv /\ AllDue)'
  BY NextTyped, NextDue
<1>3. QED
  BY <1>1, <1>2, DueImplies, PTL DEF Spec

-----------------------------------------------------------------------------
(***************************************************************************)
(* What every write is for.  Of an oracle in R, memory and database agree, *)
(* so that a restart changes neither its wish nor its epoch.  An oracle in *)
(* K has not forgotten anything, so far: K loses an oracle when that is    *)
(* restarted with a write missing, and R when the write fails.             *)
(***************************************************************************)
RememberedOf(o) ==
    /\ e[o] <= ne[o]
    /\ IF stored[o] = NoState
       THEN ne[o] = 1 /\ e[o] = 1
       ELSE stored[o] = [epoch |-> e[o], highestSentNewEpochWish |-> ne[o]]

\* The oracles of which nothing is known that contradicts a wish for k: the faulty
\* ones, those that may have forgotten, and those that wish for k or more now.
Ahead(K, wish, k) == Oracle \ {h \in K : wish[h] < k}

\* More than the 2F that a move takes.
Supported(K, wish, k) == Cardinality(Ahead(K, wish, k)) > 2 * F

MemoryInv(K, R) ==
    /\ \A o \in R : RememberedOf(o)
    /\ \A o \in K : \A w \in wire[o] : w <= ne[o]
    /\ \A o \in Honest, h \in K : newEpochWishes[o][h] <= ne[h]
    /\ \A o \in Honest : /\ Supported(K, ne, e[o])
                         /\ Supported(K, ne, stored[o].epoch)

MemoryOfMost ==
    \E K \in SUBSET Honest : \E R \in SUBSET K :
        /\ Cardinality(Honest \ R) <= failures
        /\ restarts = 0 => K = Honest
        /\ MemoryInv(K, R)

LEMMA SupportedByMore ==
    ASSUME NEW S \in SUBSET Oracle, NEW T \in SUBSET Oracle, S \subseteq T,
           Cardinality(S) > 2 * F
    PROVE  Cardinality(T) > 2 * F
<1>1. /\ Cardinality(S) <= Cardinality(T)
      /\ Cardinality(S) \in Nat /\ Cardinality(T) \in Nat /\ F \in Nat
  BY OracleAssumption, FS_Subset, FS_CardinalityType
<1>2. QED
  BY <1>1

\* What is supported stays so when fewer oracles have to remember, ...
LEMMA SupportedByFewer ==
    ASSUME NEW K, NEW L \in SUBSET K, NEW wish, NEW k, Supported(K, wish, k)
    PROVE  Supported(L, wish, k)
<1>1. Ahead(K, wish, k) \subseteq Ahead(L, wish, k)
  BY DEF Ahead
<1>2. QED
  BY <1>1, SupportedByMore DEF Supported, Ahead

\* ... and when these wish for more.
LEMMA SupportedStays ==
    ASSUME NEW K \in SUBSET Honest, NEW wish \in [Honest -> Epoch],
           NEW next \in [Honest -> Epoch], \A h \in K : next[h] >= wish[h],
           NEW k \in Nat, Supported(K, wish, k)
    PROVE  Supported(K, next, k)
<1>1. ASSUME NEW h \in K, next[h] < k
      PROVE  wish[h] < k
  <2>1. next[h] \in Nat /\ wish[h] \in Nat /\ next[h] >= wish[h]
    BY DEF Epoch
  <2>2. QED
    BY <1>1, <2>1
<1>2. Ahead(K, wish, k) \subseteq Ahead(K, next, k)
  BY <1>1 DEF Ahead
<1>3. QED
  BY <1>2, SupportedByMore DEF Supported, Ahead

\* Everybody wishes for the first epoch.
LEMMA FirstSupported ==
    ASSUME NEW K \in SUBSET Honest, NEW wish \in [Honest -> Epoch], NEW k \in Int,
           k <= 1
    PROVE  Supported(K, wish, k)
<1>1. ASSUME NEW h \in K
      PROVE  ~(wish[h] < k)
  <2>1. wish[h] \in Int /\ wish[h] >= 1
    BY DEF Epoch
  <2>2. QED
    BY <2>1
<1>2. Ahead(K, wish, k) = Oracle
  BY <1>1 DEF Ahead
<1>3. QED
  BY <1>2, HonestFinite, OracleAssumption DEF Supported

LEMMA MemoryInit == Init => MemoryOfMost
<1> SUFFICES ASSUME Init
             PROVE  MemoryOfMost
  OBVIOUS
<1>1. Cardinality(Honest \ Honest) <= failures
  <2>1. Honest \ Honest = {}
    OBVIOUS
  <2>2. QED
    BY <2>1, FS_EmptySet DEF Init
<1>2. ne \in [Honest -> Epoch] /\ failures = 0
  BY InitTyped DEF TypeInv, TypeOK, Init
<1>3. \A o \in Honest : e[o] = 1 /\ ne[o] = 1 /\ stored[o] = NoState
  BY DEF Init
<1>4. \A o \in Honest : /\ Supported(Honest, ne, e[o])
                        /\ Supported(Honest, ne, stored[o].epoch)
  <2>1. Supported(Honest, ne, 0) /\ Supported(Honest, ne, 1)
    BY <1>2, FirstSupported
  <2>2. QED
    BY <1>3, <2>1 DEF NoState
<1>5. /\ \A o \in Honest : \A w \in wire[o] : w <= ne[o]
      /\ \A o, h \in Honest : newEpochWishes[o][h] <= ne[h]
  BY DEF Init, Honest
<1>6. MemoryInv(Honest, Honest)
  BY <1>3, <1>4, <1>5 DEF MemoryInv, RememberedOf
<1>7. QED
  BY <1>1, <1>6 DEF MemoryOfMost

LEMMA MemoryOfFewer ==
    ASSUME NEW K \in SUBSET Honest, NEW R \in SUBSET K, MemoryInv(K, R),
           NEW L \in SUBSET K, NEW Q \in SUBSET R
    PROVE  MemoryInv(L, Q)
<1>1. \A o \in Honest : /\ Supported(L, ne, e[o])
                        /\ Supported(L, ne, stored[o].epoch)
  BY SupportedByFewer DEF MemoryInv
<1>2. QED
  BY <1>1 DEF MemoryInv

\* What is left to show of a step of oracle o: its wish does not go back if it is in
\* K, its memory agrees with its database if it is in R, its epoch is supported, and
\* the rest follows.
LEMMA MemoryStepOf ==
    ASSUME TypeInv, TypeInv', NEW K \in SUBSET Honest, NEW R \in SUBSET K,
           MemoryInv(K, R), NEW o \in Honest,
           \A p \in Honest \ {o} : /\ ne'[p] = ne[p]
                                   /\ e'[p] = e[p]
                                   /\ stored'[p] = stored[p]
                                   /\ wire'[p] \subseteq wire[p],
           o \in K => /\ ne'[o] >= ne[o]
                      /\ \A w \in wire'[o] : w \in wire[o] \/ w <= ne'[o],
           o \in R => RememberedOf(o)',
           \A p \in Honest, h \in K : newEpochWishes'[p][h] <= ne[h],
           Supported(K, ne, e'[o]),
           stored'[o] = stored[o] \/ stored'[o].epoch = e'[o]
    PROVE  MemoryInv(K, R)'
<1>1. /\ ne \in [Honest -> Epoch] /\ ne' \in [Honest -> Epoch]
      /\ e' \in [Honest -> Epoch]
      /\ stored' \in [Honest -> PacemakerState]
      /\ \A p \in Honest : wire[p] \subseteq Epoch
      /\ \A p, h \in Honest : newEpochWishes'[p][h] \in Int
      /\ Epoch \subseteq Nat
  BY DEF TypeInv, TypeOK, Epoch, Honest
<1>2. \A p \in Honest : /\ ne[p] \in Nat /\ ne'[p] \in Nat /\ e'[p] \in Nat
                        /\ stored'[p].epoch \in Nat
  <2>1. \A p \in Honest : ne[p] \in Nat /\ ne'[p] \in Nat /\ e'[p] \in Nat
    BY <1>1
  <2>2. \A p \in Honest : stored'[p].epoch \in Nat
    BY <1>1 DEF PacemakerState
  <2>3. QED
    BY <2>1, <2>2
<1>3. \A h \in K : ne'[h] >= ne[h]
  <2> SUFFICES ASSUME NEW h \in K
               PROVE  ne'[h] >= ne[h]
    OBVIOUS
  <2>1. h # o => ne'[h] = ne[h]
    OBVIOUS
  <2>2. ne[h] \in Nat
    BY <1>2
  <2>3. QED
    BY <2>1, <2>2
<1>4. \A p \in R : RememberedOf(p)'
  <2> SUFFICES ASSUME NEW p \in R, p # o
               PROVE  RememberedOf(p)'
    OBVIOUS
  <2>1. RememberedOf(p)
    BY DEF MemoryInv
  <2>2. ne'[p] = ne[p] /\ e'[p] = e[p] /\ stored'[p] = stored[p]
    OBVIOUS
  <2>3. QED
    BY <2>1, <2>2 DEF RememberedOf
<1>5. \A p \in K : \A w \in wire'[p] : w <= ne'[p]
  <2> SUFFICES ASSUME NEW p \in K, NEW w \in wire'[p]
               PROVE  w <= ne'[p]
    OBVIOUS
  <2>1. ASSUME w \in wire[p]
        PROVE  w <= ne'[p]
    <3>1. w <= ne[p] /\ ne[p] <= ne'[p]
      BY <1>1, <1>3, <2>1 DEF MemoryInv
    <3>2. w \in Nat /\ ne[p] \in Nat /\ ne'[p] \in Nat
      BY <1>2, <1>1, <2>1
    <3>3. QED
      BY <3>1, <3>2
  <2>2. w \in wire[p] \/ w <= ne'[p]
    <3>1. CASE p = o
      BY <3>1
    <3>2. CASE p # o
      BY <3>2
    <3>3. QED
      BY <3>1, <3>2
  <2>3. QED
    BY <2>1, <2>2
<1>6. \A p \in Honest, h \in K : newEpochWishes'[p][h] <= ne'[h]
  <2> SUFFICES ASSUME NEW p \in Honest, NEW h \in K
               PROVE  newEpochWishes'[p][h] <= ne'[h]
    OBVIOUS
  <2>1. newEpochWishes'[p][h] <= ne[h] /\ ne[h] <= ne'[h]
    BY <1>3
  <2>2. h \in Honest
    OBVIOUS
  <2>3. newEpochWishes'[p][h] \in Int /\ ne[h] \in Nat /\ ne'[h] \in Nat
    BY <1>2, <1>1, <2>2
  <2>4. QED
    BY <2>1, <2>3
<1>7. \A p \in Honest : /\ Supported(K, ne, e'[p])
                        /\ Supported(K, ne, stored'[p].epoch)
  <2> SUFFICES ASSUME NEW p \in Honest
               PROVE  /\ Supported(K, ne, e'[p])
                      /\ Supported(K, ne, stored'[p].epoch)
    OBVIOUS
  <2>1. Supported(K, ne, e[p]) /\ Supported(K, ne, stored[p].epoch)
    BY DEF MemoryInv
  <2>2. CASE p = o
    <3>1. CASE stored'[o] = stored[o]
      BY <2>1, <2>2, <3>1
    <3>2. CASE stored'[o].epoch = e'[o]
      BY <2>2, <3>2
    <3>3. QED
      BY <3>1, <3>2
  <2>3. CASE p # o
    BY <2>1, <2>3
  <2>4. QED
    BY <2>2, <2>3
<1>8. \A p \in Honest : /\ Supported(K, ne', e'[p])
                        /\ Supported(K, ne', stored'[p].epoch)
  <2> SUFFICES ASSUME NEW p \in Honest
               PROVE  /\ Supported(K, ne', e'[p])
                      /\ Supported(K, ne', stored'[p].epoch)
    OBVIOUS
  <2>1. e'[p] \in Nat /\ stored'[p].epoch \in Nat
    BY <1>2
  <2>2. QED
    BY <1>1, <1>3, <1>7, <2>1, SupportedStays
<1>9. QED
  BY <1>4, <1>5, <1>6, <1>8 DEF MemoryInv

LEMMA RestartKeeps ==
    ASSUME TypeInv, TypeInv', NEW K \in SUBSET Honest, NEW R \in SUBSET K,
           MemoryInv(K, R), NEW o \in Honest, o \in R \/ o \notin K, Restart(o)
    PROVE  MemoryInv(K, R)' /\ (o \in R => e'[o] = e[o])
<1>1. \A p \in Honest \ {o} : /\ ne'[p] = ne[p]
                              /\ e'[p] = e[p]
                              /\ stored'[p] = stored[p]
                              /\ wire'[p] \subseteq wire[p]
  BY DEF Restart, SendNewEpochWish, TypeInv, TypeOK
<1>2. /\ stored' = stored
      /\ ne'[o] = IF stored[o] = NoState THEN 1
                  ELSE stored[o].highestSentNewEpochWish
      /\ e'[o] = IF stored[o] = NoState THEN 1 ELSE stored[o].epoch
      /\ wire'[o] = wire[o] \cup {ne'[o]}
  BY DEF Restart, SendNewEpochWish, TypeInv, TypeOK
<1>3. /\ ne \in [Honest -> Epoch] /\ ne[o] \in Nat
      /\ \A h \in Honest : ne[h] \in Nat
  BY DEF TypeInv, TypeOK, Epoch
<1>4. o \in R => RememberedOf(o)
  BY DEF MemoryInv
<1>5. o \in R => ne'[o] = ne[o] /\ e'[o] = e[o]
  BY <1>2, <1>4 DEF RememberedOf
<1>6. o \in R => RememberedOf(o)'
  BY <1>2, <1>4, <1>5 DEF RememberedOf
<1>7. o \in K => /\ ne'[o] >= ne[o]
                 /\ \A w \in wire'[o] : w \in wire[o] \/ w <= ne'[o]
  BY <1>2, <1>3, <1>5
<1>8. \A p \in Honest, h \in K : newEpochWishes'[p][h] <= ne[h]
  <2> SUFFICES ASSUME NEW p \in Honest, NEW h \in K
               PROVE  newEpochWishes'[p][h] <= ne[h]
    OBVIOUS
  <2>1. newEpochWishes'[p][h] \in {0, newEpochWishes[p][h]}
    BY DEF Restart, TypeInv, TypeOK, Honest
  <2>2. newEpochWishes[p][h] <= ne[h]
    BY DEF MemoryInv
  <2>3. 0 <= ne[h]
    BY <1>3
  <2>4. QED
    BY <2>1, <2>2, <2>3
<1>9. Supported(K, ne, e'[o])
  <2>1. Supported(K, ne, 1)
    BY <1>3, FirstSupported
  <2>2. Supported(K, ne, stored[o].epoch)
    BY DEF MemoryInv
  <2>3. QED
    BY <1>2, <2>1, <2>2
<1>10. stored'[o] = stored[o]
  BY <1>2
<1>11. QED
  BY <1>1, <1>5, <1>6, <1>7, <1>8, <1>9, <1>10, MemoryStepOf

LEMMA RequestKeeps ==
    ASSUME TypeInv, TypeInv', NEW K \in SUBSET Honest, NEW R \in SUBSET K,
           MemoryInv(K, R), NEW o \in Honest, o \in R => failures' = failures,
           NewEpochRequest(o)
    PROVE  MemoryInv(K, R)'
<1>1. /\ ne[o] \in Nat /\ e[o] \in Nat /\ failures \in Nat
      /\ e[o] \in Epoch
  BY PacemakerAssumption DEF TypeInv, TypeOK, Epoch
<1>2. e' = e /\ newEpochWishes' = newEpochWishes
  BY RequestMoves
<1>3. \A p \in Honest \ {o} : /\ ne'[p] = ne[p]
                              /\ e'[p] = e[p]
                              /\ stored'[p] = stored[p]
                              /\ wire'[p] \subseteq wire[p]
  BY <1>2, RequestMoves
<1>4. \/ /\ ne'[o] = ne[o] /\ stored'[o] = stored[o]
      \/ /\ ne'[o] = e[o] + 1
         /\ ne[o] < e[o] + 1
         /\ \/ stored'[o] = [epoch |-> e[o], highestSentNewEpochWish |-> e[o] + 1]
            \/ stored'[o] = stored[o] /\ failures' = failures + 1
  BY RequestMoves
<1>5. o \in K => /\ ne'[o] >= ne[o]
                 /\ \A w \in wire'[o] : w \in wire[o] \/ w <= ne'[o]
  <2>1. ne'[o] >= ne[o] /\ ne'[o] <= ne'[o]
    BY <1>1, <1>4
  <2>2. wire'[o] \subseteq wire[o] \cup {ne'[o]}
    BY RequestMoves
  <2>3. QED
    BY <2>1, <2>2
<1>6. o \in R => RememberedOf(o)'
  <2> SUFFICES ASSUME o \in R
               PROVE  RememberedOf(o)'
    OBVIOUS
  <2>1. RememberedOf(o)
    BY DEF MemoryInv
  <2>2. CASE ne'[o] = ne[o] /\ stored'[o] = stored[o]
    BY <1>2, <2>1, <2>2 DEF RememberedOf
  <2>3. CASE /\ ne'[o] = e[o] + 1
             /\ stored'[o] = [epoch |-> e[o], highestSentNewEpochWish |-> e[o] + 1]
    <3>1. stored'[o] # NoState
      BY <1>1, <2>3 DEF NoState, Epoch
    <3>2. e'[o] <= ne'[o]
      BY <1>1, <1>2, <2>3
    <3>3. QED
      BY <1>2, <2>3, <3>1, <3>2 DEF RememberedOf
  <2>4. failures' # failures + 1
    BY <1>1
  <2>5. QED
    BY <1>4, <2>2, <2>3, <2>4
<1>7. \A p \in Honest, h \in K : newEpochWishes'[p][h] <= ne[h]
  BY <1>2 DEF MemoryInv
<1>8. Supported(K, ne, e'[o])
  BY <1>2 DEF MemoryInv
<1>9. stored'[o] = stored[o] \/ stored'[o].epoch = e'[o]
  BY <1>2, <1>4
<1>10. QED
  BY <1>3, <1>5, <1>6, <1>7, <1>8, <1>9, MemoryStepOf

\* What is counted for an oracle that remembers is at most what it wishes for now.
LEMMA CountedWithin ==
    ASSUME TypeInv, NEW K \in SUBSET Honest, NEW R \in SUBSET K, MemoryInv(K, R),
           NEW o \in Honest, NEW sender \in Oracle, NEW w \in Epoch,
           Receivable(o, sender, w), NEW h \in K
    PROVE  Counted(o, sender, w)[h] <= ne[h]
<1>1. /\ h \in Oracle /\ h \in Honest
      /\ newEpochWishes[o] \in [Oracle -> 0..MaxEpoch]
      /\ newEpochWishes[o][h] <= ne[h]
  BY DEF MemoryInv, Honest, TypeInv, TypeOK
<1>2. CASE h = sender
  <2>1. w \in wire[h]
    BY <1>1, <1>2 DEF Receivable, Honest
  <2>2. w <= ne[h]
    BY <2>1 DEF MemoryInv
  <2>3. Counted(o, sender, w)[h] \in {newEpochWishes[o][h], w}
    BY <1>1, <1>2 DEF Counted, Larger
  <2>4. QED
    BY <1>1, <2>2, <2>3
<1>3. CASE h # sender
  BY <1>1, <1>3 DEF Counted
<1>4. QED
  BY <1>2, <1>3

\* What is counted often enough is supported.
LEMMA CountedSupported ==
    ASSUME TypeInv, NEW K \in SUBSET Honest, NEW R \in SUBSET K, MemoryInv(K, R),
           NEW o \in Honest, NEW sender \in Oracle, NEW w \in Epoch,
           Receivable(o, sender, w), NEW c \in Epoch,
           Cardinality({s \in Oracle : Counted(o, sender, w)[s] >= c}) > 2 * F
    PROVE  Supported(K, ne, c)
<1> DEFINE S == {s \in Oracle : Counted(o, sender, w)[s] >= c}
<1>1. ASSUME NEW h \in K, ne[h] < c
      PROVE  h \notin S
  <2>1. Counted(o, sender, w)[h] <= ne[h]
    BY CountedWithin
  <2>2. /\ Counted(o, sender, w)[h] \in Int
        /\ ne[h] \in Int /\ c \in Int
    <3>1. Counted(o, sender, w) \in [Oracle -> 0..MaxEpoch] /\ h \in Oracle
      BY CountedTyped DEF Honest
    <3>2. QED
      BY <3>1 DEF TypeInv, TypeOK, Epoch
  <2>3. ~(Counted(o, sender, w)[h] >= c)
    BY <1>1, <2>1, <2>2
  <2>4. QED
    BY <2>3
<1>2. S \subseteq Ahead(K, ne, c) /\ S \in SUBSET Oracle
  BY <1>1 DEF Ahead
<1>3. Cardinality(S) > 2 * F
  OBVIOUS
<1>4. Ahead(K, ne, c) \in SUBSET Oracle
  BY DEF Ahead
<1> HIDE DEF S
<1>5. QED
  BY <1>2, <1>3, <1>4, SupportedByMore DEF Supported

LEMMA MessageKeeps ==
    ASSUME TypeInv, TypeInv', NEW K \in SUBSET Honest, NEW R \in SUBSET K,
           MemoryInv(K, R), NEW o \in Honest, o \in R => failures' = failures,
           NEW sender \in Oracle, NEW w \in Epoch, MessageNewEpochWish(o, sender, w)
    PROVE  MemoryInv(K, R)'
<1>1. PICK wished, nextE : MovedTo(o, sender, w, wished, nextE)
  BY MessageEffect
<1>2. /\ Receivable(o, sender, w)
      /\ newEpochWishes' = [newEpochWishes EXCEPT ![o] = Counted(o, sender, w)]
  <2>1. Receivable(o, sender, w)
    BY DEF MessageNewEpochWish
  <2>2. QED
    BY <2>1, MessageMoves
<1>3. /\ wished \in Epoch /\ nextE \in Epoch
      /\ wished \in Nat /\ nextE \in Nat /\ ne[o] \in Nat /\ e[o] \in Nat
      /\ failures \in Nat
  <2>1. wished \in Epoch /\ nextE \in Epoch
    BY <1>1 DEF MovedTo
  <2>2. QED
    BY <2>1, PacemakerAssumption DEF TypeInv, TypeOK, Epoch
<1>4. wished >= ne[o] /\ nextE >= e[o]
  <2>1. (wished = ne[o] \/ wished > ne[o]) /\ (nextE = e[o] \/ nextE > e[o])
    BY <1>1 DEF MovedTo
  <2>2. QED
    BY <1>3, <2>1
<1>5. /\ e'[o] = nextE
      /\ \/ nextE = e[o] /\ ne'[o] = wished
         \/ ne'[o] = Larger(wished, nextE)
      /\ wire'[o] \subseteq wire[o] \cup {wished}
      /\ \/ /\ ne'[o] = ne[o] /\ nextE = e[o] /\ stored'[o] = stored[o]
         \/ stored'[o] = [epoch |-> nextE,
                          highestSentNewEpochWish |-> Larger(wished, nextE)]
         \/ stored'[o] = stored[o] /\ failures' = failures + 1
  BY <1>1 DEF MovedTo
<1>6. ne'[o] >= wished /\ ne'[o] >= ne[o]
  <2>1. Larger(wished, nextE) \in Nat /\ Larger(wished, nextE) >= wished
    BY <1>3 DEF Larger
  <2>2. ne'[o] = wished \/ ne'[o] = Larger(wished, nextE)
    BY <1>5
  <2>3. QED
    BY <1>3, <1>4, <2>1, <2>2
<1>7. o \in K => /\ ne'[o] >= ne[o]
                 /\ \A v \in wire'[o] : v \in wire[o] \/ v <= ne'[o]
  <2>1. ne'[o] \in Nat
    BY DEF TypeInv, TypeOK, Epoch
  <2>2. wished <= ne'[o]
    BY <1>3, <1>6, <2>1
  <2>3. QED
    BY <1>5, <1>6, <2>2
<1>8. o \in R => RememberedOf(o)'
  <2> SUFFICES ASSUME o \in R
               PROVE  RememberedOf(o)'
    OBVIOUS
  <2>1. RememberedOf(o) /\ e[o] <= ne[o]
    BY DEF MemoryInv, RememberedOf
  <2>2. CASE ne'[o] = ne[o] /\ nextE = e[o] /\ stored'[o] = stored[o]
    BY <1>5, <2>1, <2>2 DEF RememberedOf
  <2>3. CASE stored'[o] = [epoch |-> nextE,
                           highestSentNewEpochWish |-> Larger(wished, nextE)]
    <3>1. nextE = e[o] => Larger(wished, nextE) = wished
      BY <1>3, <1>4, <2>1 DEF Larger
    <3>2. ne'[o] = Larger(wished, nextE)
      BY <1>5, <3>1
    <3>3. nextE <= Larger(wished, nextE)
      BY <1>3 DEF Larger
    <3>4. nextE # 0
      BY <1>3 DEF Epoch
    <3>5. stored'[o] # NoState
      BY <2>3, <3>4 DEF NoState
    <3>6. QED
      BY <1>5, <2>3, <3>2, <3>3, <3>5 DEF RememberedOf
  <2>4. failures' # failures + 1
    BY <1>3
  <2>5. QED
    BY <1>5, <2>2, <2>3, <2>4
<1>9. \A p \in Honest, h \in K : newEpochWishes'[p][h] <= ne[h]
  <2> SUFFICES ASSUME NEW p \in Honest, NEW h \in K
               PROVE  newEpochWishes'[p][h] <= ne[h]
    OBVIOUS
  <2>1. newEpochWishes'[p] = IF p = o THEN Counted(o, sender, w)
                             ELSE newEpochWishes[p]
    BY <1>2 DEF TypeInv, TypeOK
  <2>2. Counted(o, sender, w)[h] <= ne[h]
    BY <1>2, CountedWithin
  <2>3. newEpochWishes[p][h] <= ne[h]
    BY DEF MemoryInv
  <2>4. QED
    BY <2>1, <2>2, <2>3
<1>10. Supported(K, ne, e'[o])
  <2>1. CASE nextE = e[o]
    BY <1>5, <2>1 DEF MemoryInv
  <2>2. CASE Cardinality({s \in Oracle :
                 Counted(o, sender, w)[s] >= nextE}) > 2 * F
    BY <1>2, <1>3, <1>5, <2>2, CountedSupported
  <2>3. QED
    BY <1>1, <2>1, <2>2 DEF MovedTo
<1>11. stored'[o] = stored[o] \/ stored'[o].epoch = e'[o]
  BY <1>5
<1>12. QED
  BY <1>7, <1>8, <1>9, <1>10, <1>11, MessageEffect, MemoryStepOf

LEMMA OthersKeep ==
    ASSUME TypeInv, NEW K \in SUBSET Honest, NEW R \in SUBSET K, MemoryInv(K, R),
           UNCHANGED <<ne, e, newEpochWishes, stored>>,
           \A p \in Honest : \A w \in wire'[p] : w \in wire[p] \/ w = ne[p]
    PROVE  MemoryInv(K, R)'
<1>1. \A p \in K : ne[p] <= ne[p]
  BY DEF TypeInv, TypeOK, Epoch
<1>2. \A p \in K : \A w \in wire'[p] : w <= ne'[p]
  BY <1>1 DEF MemoryInv
<1>3. \A p \in R : RememberedOf(p)'
  BY DEF MemoryInv, RememberedOf
<1>4. QED
  BY <1>2, <1>3 DEF MemoryInv

\* A step that may fail to write: R then loses the oracle.
LEMMA MemoryWhenWriting ==
    ASSUME TypeInv, NEW K \in SUBSET Honest, NEW R \in SUBSET K, MemoryInv(K, R),
           Cardinality(Honest \ R) <= failures, restarts = 0 => K = Honest,
           NEW o \in Honest, restarts' = restarts,
           failures' = failures \/ failures' = failures + 1,
           \A Q \in SUBSET R : MemoryInv(K, Q) /\ (o \in Q => failures' = failures)
                                   => MemoryInv(K, Q)'
    PROVE  MemoryOfMost'
<1>1. failures \in Nat
  BY PacemakerAssumption DEF TypeInv, TypeOK
<1>2. CASE failures' = failures
  <2>1. MemoryInv(K, R)'
    BY <1>2
  <2>2. QED
    BY <1>2, <2>1 DEF MemoryOfMost
<1>3. CASE failures' = failures + 1
  <2>1. R \ {o} \in SUBSET R /\ o \notin R \ {o}
    OBVIOUS
  <2>2. MemoryInv(K, R \ {o})
    BY <2>1, MemoryOfFewer
  <2>3. MemoryInv(K, R \ {o})'
    BY <2>1, <2>2
  <2>4. Cardinality(Honest \ (R \ {o})) <= failures'
    BY <1>1, <1>3, OneMoreLeftOut
  <2>5. QED
    BY <2>1, <2>3, <2>4 DEF MemoryOfMost
<1>4. QED
  BY <1>2, <1>3

LEMMA RequestFaults ==
    ASSUME TypeInv, NEW o \in Honest, NewEpochRequest(o)
    PROVE  restarts' = restarts /\ (failures' = failures \/ failures' = failures + 1)
  BY RequestMoves

LEMMA MessageFaults ==
    ASSUME TypeInv, NEW o \in Honest, NEW sender \in Oracle, NEW w \in Epoch,
           MessageNewEpochWish(o, sender, w)
    PROVE  restarts' = restarts /\ (failures' = failures \/ failures' = failures + 1)
<1>1. PICK wished, nextE : MovedTo(o, sender, w, wished, nextE)
  BY MessageEffect
<1>2. failures' = failures \/ failures' = failures + 1
  BY <1>1 DEF MovedTo
<1>3. restarts' = restarts
  BY MessageMoves
<1>4. QED
  BY <1>2, <1>3

LEMMA MemoryNext ==
    ASSUME TypeInv, TypeInv', MemoryOfMost, [Next]_vars
    PROVE  MemoryOfMost'
<1>1. PICK K \in SUBSET Honest, R \in SUBSET Honest :
          /\ R \in SUBSET K
          /\ Cardinality(Honest \ R) <= failures
          /\ restarts = 0 => K = Honest
          /\ MemoryInv(K, R)
  BY DEF MemoryOfMost
<1>2. ASSUME NEW o \in Honest, Restart(o)
      PROVE  MemoryOfMost'
  <2>1. failures' = failures /\ restarts' # 0
    BY <1>2, PacemakerAssumption DEF Restart, TypeInv, TypeOK
  <2>2. CASE o \in R
    <3>1. MemoryInv(K, R)'
      BY <1>1, <1>2, <2>2, RestartKeeps
    <3>2. QED
      BY <1>1, <2>1, <3>1 DEF MemoryOfMost
  <2>3. CASE o \notin R
    <3>1. /\ K \ {o} \in SUBSET K /\ K \ {o} \in SUBSET Honest
          /\ R \in SUBSET (K \ {o}) /\ R \in SUBSET R
          /\ o \notin K \ {o}
      BY <1>1, <2>3
    <3>2. MemoryInv(K \ {o}, R)
      BY <1>1, <3>1, MemoryOfFewer
    <3>3. MemoryInv(K \ {o}, R)'
      BY <1>2, <3>1, <3>2, RestartKeeps
    <3>4. QED
      BY <1>1, <2>1, <3>1, <3>3 DEF MemoryOfMost
  <2>4. QED
    BY <2>2, <2>3
<1>3. ASSUME NEW o \in Honest,
             EventNewEpochRequest(o) \/ EventTProgressTimeout(o)
      PROVE  MemoryOfMost'
  <2>1. NewEpochRequest(o)
    BY <1>3 DEF EventNewEpochRequest, EventTProgressTimeout
  <2>2. \A Q \in SUBSET R : MemoryInv(K, Q) /\ (o \in Q => failures' = failures)
                                => MemoryInv(K, Q)'
    <3> SUFFICES ASSUME NEW Q \in SUBSET R, MemoryInv(K, Q),
                        o \in Q => failures' = failures
                 PROVE  MemoryInv(K, Q)'
      OBVIOUS
    <3>1. Q \in SUBSET K
      BY <1>1
    <3>2. QED
      BY <2>1, <3>1, RequestKeeps
  <2>3. restarts' = restarts /\ (failures' = failures \/ failures' = failures + 1)
    BY <2>1, RequestFaults
  <2>4. QED
    BY <1>1, <2>2, <2>3, MemoryWhenWriting
<1>4. ASSUME NEW o \in Honest, NEW sender \in Oracle, NEW w \in Epoch,
             MessageNewEpochWish(o, sender, w)
      PROVE  MemoryOfMost'
  <2>1. \A Q \in SUBSET R : MemoryInv(K, Q) /\ (o \in Q => failures' = failures)
                                => MemoryInv(K, Q)'
    <3> SUFFICES ASSUME NEW Q \in SUBSET R, MemoryInv(K, Q),
                        o \in Q => failures' = failures
                 PROVE  MemoryInv(K, Q)'
      OBVIOUS
    <3>1. Q \in SUBSET K
      BY <1>1
    <3>2. QED
      BY <1>4, <3>1, MessageKeeps
  <2>2. restarts' = restarts /\ (failures' = failures \/ failures' = failures + 1)
    BY <1>4, MessageFaults
  <2>3. QED
    BY <1>1, <2>1, <2>2, MemoryWhenWriting
<1>5. ASSUME UNCHANGED <<ne, e, newEpochWishes, stored, restarts, failures>>,
             \A p \in Honest : \A w \in wire'[p] : w \in wire[p] \/ w = ne[p]
      PROVE  MemoryOfMost'
  <2>1. MemoryInv(K, R)'
    BY <1>1, <1>5, OthersKeep
  <2>2. QED
    BY <1>1, <1>5, <2>1 DEF MemoryOfMost
<1>6. ASSUME NEW o \in Honest,
             \/ NotifyNewEpochStart(o)
             \/ OutcomeGenerationSends(o, "progress")
             \/ OutcomeGenerationSends(o, "newEpochRequest")
             \/ EventProgress(o)
             \/ EventTResendTimeout(o)
             \/ \E w \in Epoch : Lose(o, w)
      PROVE  MemoryOfMost'
  <2>1. UNCHANGED <<ne, e, newEpochWishes, stored, restarts, failures>>
    BY <1>6, OthersMove
  <2>2. \A p \in Honest : \A w \in wire'[p] : w \in wire[p] \/ w = ne[p]
    BY <1>6, OthersSend
  <2>3. QED
    BY <1>5, <2>1, <2>2
<1>7. CASE UNCHANGED vars
  BY <1>5, <1>7 DEF vars, paceVars, envVars
<1>8. CASE Next
  BY <1>2, <1>3, <1>4, <1>6, <1>8 DEF Next
<1>9. QED
  BY <1>7, <1>8

LEMMA MemoryHolds == Spec => [](TypeInv /\ MemoryOfMost)
<1>1. Init => TypeInv /\ MemoryOfMost
  BY InitTyped, MemoryInit
<1>2. TypeInv /\ MemoryOfMost /\ [Next]_vars => (TypeInv /\ MemoryOfMost)'
  BY NextTyped, MemoryNext
<1>3. QED
  BY <1>1, <1>2, PTL DEF Spec

\* Without failed writes, or without restarts, nothing has been forgotten.
NothingForgotten == failures = 0 \/ restarts = 0

\* The faulty oracles and the failed writes, each of which a restart may turn into a
\* wish forgotten, are no more than F; or there was no restart.
EnoughRemember == restarts = 0 \/ Cardinality(Faulty) + failures <= F

LEMMA AllRemember ==
    ASSUME TypeInv, failures = 0, NEW R \in SUBSET Honest,
           Cardinality(Honest \ R) <= failures
    PROVE  R = Honest
<1>1. IsFiniteSet(Honest \ R)
  BY HonestFinite, FS_Subset
<1>2. Cardinality(Honest \ R) = 0
  BY <1>1, FS_CardinalityType
<1>3. Honest \ R = {}
  BY <1>1, <1>2, FS_EmptySet
<1>4. QED
  BY <1>3

\* persist before the broadcast: no pacemaker forgets a wish that it has sent, in
\* whatever process, unless the write failed that the next process would have read.
THEOREM RememberedWishes == Spec => [](NothingForgotten => WishesAreRemembered)
<1>1. ASSUME TypeInv, MemoryOfMost, NothingForgotten
      PROVE  WishesAreRemembered
  <2>1. PICK K \in SUBSET Honest, R \in SUBSET Honest :
            /\ R \in SUBSET K
            /\ Cardinality(Honest \ R) <= failures
            /\ restarts = 0 => K = Honest
            /\ MemoryInv(K, R)
    BY <1>1 DEF MemoryOfMost
  <2>2. K = Honest
    BY <1>1, <2>1, AllRemember DEF NothingForgotten
  <2>3. QED
    BY <2>1, <2>2 DEF MemoryInv, WishesAreRemembered
<1>2. TypeInv /\ MemoryOfMost => (NothingForgotten => WishesAreRemembered)
  BY <1>1
<1>3. QED
  BY <1>2, MemoryHolds, PTL

\* A set of more than 2F oracles has more than F members besides F others.
LEMMA MoreThanOthers ==
    ASSUME NEW A \in SUBSET Oracle, Cardinality(A) > 2 * F,
           NEW B \in SUBSET Oracle, NEW C \in SUBSET Oracle,
           Cardinality(B) <= F, A \subseteq B \cup C
    PROVE  Cardinality(C) > F
<1>1. /\ IsFiniteSet(A) /\ IsFiniteSet(B) /\ IsFiniteSet(C)
      /\ IsFiniteSet(B \cup C) /\ IsFiniteSet(B \cap C) /\ F \in Nat
  BY OracleAssumption, FS_Subset
<1>2. /\ Cardinality(B \cup C) = Cardinality(B) + Cardinality(C) - Cardinality(B \cap C)
      /\ Cardinality(A) <= Cardinality(B \cup C)
  BY <1>1, FS_Union, FS_Subset
<1>3. /\ Cardinality(A) \in Nat /\ Cardinality(B) \in Nat /\ Cardinality(C) \in Nat
      /\ Cardinality(B \cup C) \in Nat /\ Cardinality(B \cap C) \in Nat
  BY <1>1, FS_CardinalityType
<1>4. QED
  BY <1>1, <1>2, <1>3

\* The oracles that may speak against what they wished for.
LEMMA FewForget ==
    ASSUME TypeInv, EnoughRemember,
           NEW K \in SUBSET Honest, NEW R \in SUBSET K,
           Cardinality(Honest \ R) <= failures, restarts = 0 => K = Honest
    PROVE  Cardinality(Faulty \cup (Honest \ K)) <= F
<1>1. CASE K = Honest
  <2>1. Faulty \cup (Honest \ K) = Faulty
    BY <1>1
  <2>2. QED
    BY <2>1, HonestFinite
<1>2. CASE Cardinality(Faulty) + failures <= F
  <2> DEFINE Out == Honest \ K
  <2>1. /\ IsFiniteSet(Out) /\ IsFiniteSet(Faulty) /\ IsFiniteSet(Faulty \cup Out)
        /\ IsFiniteSet(Faulty \cap Out)
    BY HonestFinite, FS_Subset, FS_Union
  <2>2. Cardinality(Out) <= Cardinality(Honest \ R)
    <3>1. Out \subseteq Honest \ R /\ IsFiniteSet(Honest \ R)
      BY HonestFinite, FS_Subset
    <3>2. QED
      BY <3>1, FS_Subset
  <2>3. /\ Cardinality(Out) \in Nat /\ Cardinality(Faulty) \in Nat
        /\ Cardinality(Honest \ R) \in Nat /\ Cardinality(Faulty \cup Out) \in Nat
        /\ Cardinality(Faulty \cap Out) \in Nat
        /\ failures \in Nat /\ F \in Nat
    <3>1. IsFiniteSet(Honest \ R)
      BY HonestFinite, FS_Subset
    <3>2. failures \in Nat
      BY PacemakerAssumption DEF TypeInv, TypeOK
    <3> HIDE DEF Out
    <3>3. QED
      BY <2>1, <3>1, <3>2, HonestFinite, FS_CardinalityType
  <2> HIDE DEF Out
  <2>4. Cardinality(Faulty \cup Out) <= Cardinality(Faulty) + Cardinality(Out)
    <3>1. Cardinality(Faulty \cup Out)
              = Cardinality(Faulty) + Cardinality(Out) - Cardinality(Faulty \cap Out)
      BY <2>1, FS_Union
    <3>2. QED
      BY <2>3, <3>1
  <2>5. Cardinality(Faulty \cup Out) <= F
    BY <1>2, <2>2, <2>3, <2>4
  <2>6. QED
    BY <2>5 DEF Out
<1>3. QED
  BY <1>1, <1>2 DEF EnoughRemember

\* messageNewEpochWish: an oracle that moves to an epoch is backed by more than F
\* honest wishes, and so many are never withdrawn: whoever is restarted, as long as
\* no more than F oracles are faulty or have failed to write, and whatever fails as
\* long as nobody is restarted.
THEOREM BackedEpochs == Spec => [](EnoughRemember => EpochsAreBacked)
<1>1. ASSUME TypeInv, MemoryOfMost, EnoughRemember
      PROVE  EpochsAreBacked
  <2>1. PICK K \in SUBSET Honest, R \in SUBSET Honest :
            /\ R \in SUBSET K
            /\ Cardinality(Honest \ R) <= failures
            /\ restarts = 0 => K = Honest
            /\ MemoryInv(K, R)
    BY <1>1 DEF MemoryOfMost
  <2> SUFFICES ASSUME NEW o \in Honest
               PROVE  Cardinality({h \in Honest : ne[h] >= e[o]}) > F
    BY DEF EpochsAreBacked
  <2>2. Cardinality(Ahead(K, ne, e[o])) > 2 * F
    BY <2>1 DEF MemoryInv, Supported
  <2>3. Cardinality(Faulty \cup (Honest \ K)) <= F
    BY <1>1, <2>1, FewForget
  <2>4. Ahead(K, ne, e[o]) \subseteq
            (Faulty \cup (Honest \ K)) \cup {h \in Honest : ne[h] >= e[o]}
    <3>1. ASSUME NEW h \in Honest, ~(ne[h] < e[o])
          PROVE  ne[h] >= e[o]
      <4>1. ne[h] \in Int /\ e[o] \in Int
        BY <1>1 DEF TypeInv, TypeOK, Epoch
      <4>2. QED
        BY <3>1, <4>1
    <3>2. QED
      BY <3>1 DEF Ahead, Honest
  <2>5. /\ Ahead(K, ne, e[o]) \in SUBSET Oracle
        /\ Faulty \cup (Honest \ K) \in SUBSET Oracle
        /\ {h \in Honest : ne[h] >= e[o]} \in SUBSET Oracle
    BY OracleAssumption DEF Ahead, Honest
  <2>6. QED
    BY <2>2, <2>3, <2>4, <2>5, MoreThanOthers
<1>2. TypeInv /\ MemoryOfMost => (EnoughRemember => EpochsAreBacked)
  BY <1>1
<1>3. QED
  BY <1>2, MemoryHolds, PTL

\* Only a restart can move an oracle back.
LEMMA NoStepBack ==
    ASSUME TypeInv, TypeInv', MemoryOfMost, NothingForgotten', [Next]_vars
    PROVE  \A o \in Honest : e'[o] >= e[o]
<1>1. \A p \in Honest : e[p] \in Nat /\ e[p] >= e[p]
  BY DEF TypeInv, TypeOK, Epoch
<1>2. ASSUME NEW o \in Honest, Restart(o)
      PROVE  e' = e
  <2>1. failures' = failures /\ restarts' # 0
    BY <1>2, PacemakerAssumption DEF Restart, TypeInv, TypeOK
  <2>2. failures = 0
    BY <2>1 DEF NothingForgotten
  <2>3. PICK K \in SUBSET Honest, R \in SUBSET Honest :
            /\ R \in SUBSET K
            /\ Cardinality(Honest \ R) <= failures
            /\ MemoryInv(K, R)
    BY DEF MemoryOfMost
  <2>4. o \in R
    BY <2>2, <2>3, AllRemember
  <2>5. e'[o] = e[o]
    BY <1>2, <2>3, <2>4, RestartKeeps
  <2>6. QED
    BY <1>2, <2>5 DEF Restart, TypeInv, TypeOK
<1>3. ASSUME NEW o \in Honest,
             EventNewEpochRequest(o) \/ EventTProgressTimeout(o)
      PROVE  e' = e
  BY <1>3, RequestMoves DEF EventNewEpochRequest, EventTProgressTimeout
<1>4. ASSUME NEW o \in Honest, NEW sender \in Oracle, NEW w \in Epoch,
             MessageNewEpochWish(o, sender, w)
      PROVE  \A p \in Honest : e'[p] >= e[p]
  <2>1. PICK wished, nextE : MovedTo(o, sender, w, wished, nextE)
    BY <1>4, MessageEffect
  <2>2. e'[o] = nextE /\ nextE \in Epoch /\ (nextE = e[o] \/ nextE > e[o])
    BY <2>1 DEF MovedTo
  <2>3. nextE \in Nat
    BY <2>2 DEF Epoch
  <2>4. e'[o] >= e[o]
    BY <1>1, <2>2, <2>3
  <2>5. \A p \in Honest \ {o} : e'[p] = e[p]
    BY <1>4, MessageEffect
  <2>6. QED
    BY <1>1, <2>4, <2>5
<1>5. ASSUME NEW o \in Honest,
             \/ NotifyNewEpochStart(o)
             \/ OutcomeGenerationSends(o, "progress")
             \/ OutcomeGenerationSends(o, "newEpochRequest")
             \/ EventProgress(o)
             \/ EventTResendTimeout(o)
             \/ \E w \in Epoch : Lose(o, w)
      PROVE  e' = e
  BY <1>5, OthersMove
<1>6. CASE UNCHANGED vars
  <2>1. e' = e
    BY <1>6 DEF vars, paceVars
  <2>2. QED
    BY <1>1, <2>1
<1>7. CASE Next
  BY <1>1, <1>2, <1>3, <1>4, <1>5, <1>7 DEF Next
<1>8. QED
  BY <1>6, <1>7

\* persist before the move: no pacemaker returns to an epoch it has left, restarts
\* included, unless the write of the move failed.
THEOREM NoWayBack == Spec /\ []NothingForgotten => EpochsNeverGoBack
<1>1. TypeInv /\ TypeInv' /\ MemoryOfMost /\ NothingForgotten' /\ [Next]_vars
          => [\A o \in Honest : e'[o] >= e[o]]_vars
  BY NoStepBack
<1>2. QED
  BY <1>1, MemoryHolds, PTL DEF Spec, EpochsNeverGoBack
=============================================================================

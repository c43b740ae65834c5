------------------------- MODULE ManagedOracleSafety -------------------------
(***************************************************************************)
(* The safety properties of ManagedOracle, for any number of               *)
(* configurations and crashes, any buffer, and any number of rounds that   *)
(* a handler of outcome generation goes through.                           *)
(***************************************************************************)
EXTENDS ManagedOracle, TLAPS

\* The children run while the oracle does, and are cancelled as it winds down.
\* Messages of later rounds are committed by a handler that is under way.
ChildrenInv ==
    /\ oracle \in {"ended", "restoring"} => ChildrenEnded
    /\ oracle \in {"receiving"} \cup Child =>
        /\ ~childCtx
        /\ pacemaker # "ended"
        /\ outgen # "ended"
        /\ repatt # "ended"
        /\ transmission # "ended"

\* The configuration that rwcc has switched to or is about to.
Current == IF rwcc = "waiting" THEN change ELSE configDigest

\* The tracker starts with the loop of rwcc.
TrackerInv ==
    /\ rwcc = "restoring" => tracker = "unstarted" /\ configDigest = 0
    /\ tracker = "unstarted" =>
        /\ chNewConfig = <<>>
        /\ rwcc \in {"restoring", "waiting", "writing"}

\* What is in the channel is newer than what rwcc has, in order, and no newer than
\* what the tracker returned last.
ChannelInv ==
    /\ \A i \in DOMAIN chNewConfig :
        /\ Current < chNewConfig[i]
        /\ chNewConfig[i] <= trackedDigest
    /\ \A i, j \in DOMAIN chNewConfig :
           i < j => chNewConfig[i] < chNewConfig[j]

\* The tracker reads and sends what is newer still.
TrackedInv ==
    /\ trackedDigest <= contract
    /\ latestConfigDigest <= contract
    /\ tracker # "unstarted" => Current <= trackedDigest
    /\ tracker = "checking" => trackedDigest < latestConfigDigest
    /\ tracker = "sending" =>
        /\ trackedDigest = latestConfigDigest
        /\ Current < latestConfigDigest
        /\ \A i \in DOMAIN chNewConfig : chNewConfig[i] < latestConfigDigest

SwitchInv ==
    /\ rwcc = "waiting" => configDigest < change
    /\ rwcc = "writing" => configDigest = change

OrderInv == TrackerInv /\ ChannelInv /\ TrackedInv /\ SwitchInv

IInv == TypeOK /\ ChildrenInv /\ OrderInv
-----------------------------------------------------------------------------
\* Every step of the oracle and of its children keeps their states, and none starts
\* an oracle that has ended.
LEMMA RuntimeStepsKeep ==
    ASSUME RuntimeTypeOK, ChildrenInv, RuntimeNext
    PROVE  RuntimeTypeOK' /\ ChildrenInv' /\ (oracle = "ended" => oracle' = "ended")
<1> DEFINE Goal == /\ RuntimeTypeOK'
                   /\ ChildrenInv'
                   /\ oracle = "ended" => oracle' = "ended"
<1> USE OracleRuntimeAssumption
        DEF RuntimeTypeOK, ChildrenInv, ChildrenEnded, Child, children
<1>1. CASE Restore
  BY <1>1 DEF Restore, AllChildren
<1>2. CASE RestoreCancelled
  BY <1>2 DEF RestoreCancelled
<1>3. CASE \E c \in Child : Receive(c)
  BY <1>3 DEF Receive
<1>4. CASE WindDown \/ Exit
  BY <1>4 DEF WindDown, Exit, NextIteration
<1>5. CASE DispatchToPacemaker
  BY <1>5 DEF DispatchToPacemaker, NextIteration
<1>6. CASE DispatchToOutcomeGeneration
  BY <1>6 DEF DispatchToOutcomeGeneration, NextIteration, OutcomeGenerationHandles,
              Idle, ChildDone
<1>7. CASE DispatchToReportAttestation
  BY <1>7 DEF DispatchToReportAttestation, NextIteration, Idle, ChildDone
<1>8. CASE NotifyNewEpochStart
  <2>1. /\ pacemaker = "select" /\ outgen = "select"
        /\ notify' = FALSE
        /\ pacemaker' = Idle
        /\ OutcomeGenerationHandles
        /\ UNCHANGED <<ctx, childCtx, oracle, repatt, transmission>>
    BY <1>8 DEF NotifyNewEpochStart
  <2>2. /\ Idle \in {"ended", "select"}
        /\ ~childCtx => Idle = "select"
    BY DEF Idle, ChildDone
  <2>3. /\ \/ outgen' = Idle /\ ahead' = 0
           \/ outgen' \in {"committing", "asking"} /\ ahead' \in 1..MaxAhead
    BY <2>1 DEF OutcomeGenerationHandles
  <2>4. notify' \in BOOLEAN
    BY <2>1
  <2>5. RuntimeTypeOK'
    BY <2>1, <2>2, <2>3, <2>4
  <2>6. QED
    BY <2>1, <2>2, <2>3, <2>5
<1>9. CASE EventTInitialTimeout
  BY <1>9 DEF EventTInitialTimeout
<1>10. CASE EventCommittedOutcome
  BY <1>10 DEF EventCommittedOutcome, StartSubsequentRound, Idle, ChildDone
<1>11. CASE SendEventToPacemaker
  BY <1>11 DEF SendEventToPacemaker, StartSubsequentRound, Idle, ChildDone
<1>12. CASE EventAttestedReport \/ Scheduled \/ CallReturns
  BY <1>12 DEF EventAttestedReport, Scheduled, CallReturns, Idle, ChildDone
<1>13. CASE StopPacemaker
  BY <1>13 DEF StopPacemaker, ChildDone
<1>14. CASE StopOutcomeGeneration
  BY <1>14 DEF StopOutcomeGeneration, ChildDone
<1>15. CASE StopReportAttestation \/ StopTransmission
  BY <1>15 DEF StopReportAttestation, StopTransmission, ChildDone
<1>16. QED
  BY <1>1, <1>2, <1>3, <1>4, <1>5, <1>6, <1>7, <1>8, <1>9, <1>10, <1>11, <1>12,
     <1>13, <1>14, <1>15 DEF RuntimeNext

\* The steps of runWithContractConfig, of the tracker and of the function that runs
\* an oracle, and those from outside.
ManagedNext ==
    \/ Crash \/ Stop \/ SetConfig
    \/ RestoreFromDatabase \/ ReceiveChange \/ SwitchConfig \/ RejectConfig
    \/ WriteConfig \/ ManagedWindDown \/ ManagedExit
    \/ LatestConfigDetails \/ LatestConfig \/ LatestConfigDiscarded
    \/ SendChange \/ StopTracker
    \/ StartOracle \/ StartFails \/ CloseOracle

\* What these do to the oracle is to cancel its context, to start it when none
\* runs, or to end the process.
LEMMA ManagedStepsKeep ==
    ASSUME TypeOK, ChildrenInv, ManagedNext
    PROVE  RuntimeTypeOK' /\ ChildrenInv' /\ (oracle' # "ended" => fn' = "running")
<1> USE OracleRuntimeAssumption
        DEF RuntimeTypeOK, TypeOK, ChildrenInv, ChildrenEnded, Child,
            children, runtimeVars
<1>1. CASE Crash
  <2>1. /\ ctx' = TRUE /\ childCtx' = TRUE /\ notify' = FALSE
        /\ oracle' = "ended"
        /\ ahead' = 0
        /\ AllChildren("ended")
    BY <1>1 DEF Crash, RuntimeCrash
  <2>2. /\ ctx' \in BOOLEAN
        /\ childCtx' \in BOOLEAN
        /\ notify' \in BOOLEAN
    BY <2>1
  <2>3. /\ pacemaker' = "ended" /\ outgen' = "ended"
        /\ repatt' = "ended" /\ transmission' = "ended"
    BY <2>1 DEF AllChildren
  <2>4. ahead' \in 0..MaxAhead
    BY <2>1
  <2>5. QED
    BY <2>1, <2>2, <2>3, <2>4
<1>2. CASE Stop
  <2>1. ctx' = TRUE /\ UNCHANGED <<childCtx, oracle, children, notify, ahead, fn>>
    BY <1>2 DEF Stop
  <2>2. ctx' \in BOOLEAN
    BY <2>1
  <2>3. QED
    BY <2>1, <2>2
<1>10. CASE SetConfig
  BY <1>10 DEF SetConfig
<1>3. CASE RestoreFromDatabase
  <2>1. /\ ctx' = TRUE \/ UNCHANGED ctx
        /\ UNCHANGED <<childCtx, oracle, children, notify, ahead, fn>>
    BY <1>3 DEF RestoreFromDatabase, ConfigChanged
  <2>2. ctx' \in BOOLEAN
    BY <2>1
  <2>3. QED
    BY <2>1, <2>2
<1>4. CASE ReceiveChange
  BY <1>4 DEF ReceiveChange, ConfigChanged
<1>5. CASE SwitchConfig
  <2>1. /\ fn = "ended"
        /\ ctx' = stop
        /\ UNCHANGED <<childCtx, oracle, children, notify, ahead>>
    BY <1>5 DEF SwitchConfig
  <2>2. ctx' \in BOOLEAN
    BY <2>1
  <2>3. QED
    BY <2>1, <2>2
<1>6. CASE RejectConfig \/ WriteConfig \/ ManagedWindDown \/ ManagedExit
  BY <1>6 DEF RejectConfig, WriteConfig, ManagedWindDown, ManagedExit
<1>7. CASE LatestConfigDetails \/ LatestConfig \/ LatestConfigDiscarded
  BY <1>7 DEF LatestConfigDetails, LatestConfig, LatestConfigDiscarded
<1>8. CASE SendChange \/ StopTracker
  BY <1>8 DEF SendChange, StopTracker
<1>9. CASE StartOracle \/ StartFails \/ CloseOracle
  BY <1>9 DEF StartOracle, StartFails, CloseOracle
<1>11. QED
  BY <1>1, <1>2, <1>3, <1>4, <1>5, <1>6, <1>7, <1>8, <1>9, <1>10 DEF ManagedNext

\* The oracle and its children keep their states in every step.
LEMMA RuntimeKept ==
    ASSUME TypeOK, ChildrenInv, [Next]_vars
    PROVE  RuntimeTypeOK' /\ ChildrenInv' /\ (oracle' # "ended" => fn' = "running")
<1>1. CASE UNCHANGED vars
  BY <1>1 DEF vars, runtimeVars, managedVars, children, TypeOK, RuntimeTypeOK,
              ChildrenInv, ChildrenEnded
<1>2. CASE RuntimeNext /\ UNCHANGED managedVars
  BY <1>2, RuntimeStepsKeep DEF TypeOK, managedVars
<1>3. CASE ManagedNext
  BY <1>3, ManagedStepsKeep
<1>4. QED
  BY <1>1, <1>2, <1>3 DEF Next, ManagedNext

\* What is appended to or taken from the channel is a configuration.
LEMMA Channels ==
    ASSUME NEW S, NEW q \in Seq(S), NEW c \in S
    PROVE  /\ Append(q, c) \in Seq(S)
           /\ Len(Append(q, c)) = Len(q) + 1
           /\ \A i \in DOMAIN Append(q, c) :
                \/ i \in DOMAIN q /\ i < Len(q) + 1 /\ Append(q, c)[i] = q[i]
                \/ i = Len(q) + 1 /\ Append(q, c)[i] = c
           /\ q # <<>> =>
                /\ Head(q) = q[1]
                /\ 1 \in DOMAIN q
                /\ Tail(q) \in Seq(S)
                /\ Len(Tail(q)) = Len(q) - 1
                /\ \A i \in DOMAIN Tail(q) :
                     i + 1 \in DOMAIN q /\ 1 < i + 1 /\ Tail(q)[i] = q[i + 1]
  OBVIOUS

LEMMA ChannelTyped ==
    ASSUME TypeOK
    PROVE  /\ Config \subseteq Nat
           /\ \A i \in DOMAIN chNewConfig : chNewConfig[i] \in Config
           /\ Len(chNewConfig) \in Nat
           /\ MaxConfig \in Nat \ {0}
           /\ MaxCrashes \in Nat
           /\ BufferSize \in Nat \ {0}
  BY ManagedOracleAssumption DEF TypeOK, Config

\* Every step keeps the types of the rest, given the order of the configurations.
LEMMA ManagedTypesKept ==
    ASSUME IInv, [Next]_vars
    PROVE  TypeOK'
<1> DEFINE Rest ==
        /\ contract \in Config
        /\ stored \in Config /\ stored <= contract
        /\ stop \in BOOLEAN
        /\ rwcc \in {"restoring", "select", "waiting", "writing", "windingDown",
                     "exited"}
        /\ change \in Config /\ change <= contract
        /\ configDigest \in Config
        /\ chNewConfig \in Seq(Config) /\ Len(chNewConfig) <= BufferSize
        /\ tracker \in {"unstarted", "idle", "checking", "sending", "ended"}
        /\ latestConfigDigest \in Config
        /\ trackedDigest \in Config
        /\ fn \in {"ended", "starting", "running"}
        /\ missed \in BOOLEAN
        /\ crashes \in 0..MaxCrashes
<1>1. TypeOK /\ OrderInv
  BY DEF IInv
<1>2. Rest /\ 0 \in Config
  BY <1>1, ManagedOracleAssumption DEF TypeOK, Config
<1>3. RuntimeTypeOK' /\ (oracle' # "ended" => fn' = "running")
  BY <1>1, RuntimeKept DEF IInv
<1> SUFFICES Rest'
  BY <1>3 DEF TypeOK, Config
<1> USE <1>2 DEF rwccVars, trackerVars
<1>4. CASE UNCHANGED vars \/ (RuntimeNext /\ UNCHANGED managedVars)
  BY <1>4 DEF vars, managedVars
<1>5. CASE Crash
  <2>1. <<>> \in Seq(Config) /\ Len(<<>>) <= BufferSize
    BY ManagedOracleAssumption
  <2>2. crashes' \in 0..MaxCrashes
    BY <1>5, ManagedOracleAssumption DEF Crash
  <2>3. missed' \in BOOLEAN
    BY <1>5 DEF Crash
  <2>4. 0 <= contract
    BY <1>1, <1>2, ChannelTyped
  <2>5. QED
    BY <1>5, <2>1, <2>2, <2>3, <2>4 DEF Crash
<1>6. CASE Stop
  <2>1. stop' \in BOOLEAN
    BY <1>6 DEF Stop
  <2>2. QED
    BY <1>6, <2>1 DEF Stop
<1>7. CASE SetConfig
  BY <1>7, ManagedOracleAssumption DEF SetConfig, Config
<1>8. CASE RestoreFromDatabase
  BY <1>8 DEF RestoreFromDatabase, ConfigChanged, EventLoop
<1>9. CASE ReceiveChange
  <2>1. /\ Head(chNewConfig) \in Config
        /\ Head(chNewConfig) <= contract
        /\ Tail(chNewConfig) \in Seq(Config)
        /\ Len(Tail(chNewConfig)) <= BufferSize
    <3>1. chNewConfig # <<>>
      BY <1>9 DEF ReceiveChange
    <3>2. /\ Head(chNewConfig) = chNewConfig[1]
          /\ 1 \in DOMAIN chNewConfig
          /\ Tail(chNewConfig) \in Seq(Config)
          /\ Len(Tail(chNewConfig)) = Len(chNewConfig) - 1
      BY <1>2, <3>1, Channels
    <3>3. /\ Config \subseteq Nat
          /\ chNewConfig[1] \in Config
          /\ Len(chNewConfig) \in Nat
          /\ BufferSize \in Nat
      BY <1>1, <3>2, ChannelTyped
    <3>4. chNewConfig[1] <= trackedDigest /\ trackedDigest <= contract
      BY <1>1, <3>2 DEF OrderInv, ChannelInv, TrackedInv
    <3>5. trackedDigest \in Nat /\ contract \in Nat /\ chNewConfig[1] \in Nat
      BY <1>2, <3>3
    <3>6. Head(chNewConfig) <= contract
      BY <3>2, <3>3, <3>4, <3>5
    <3>7. Len(Tail(chNewConfig)) <= BufferSize
      BY <1>2, <3>2, <3>3
    <3>8. QED
      BY <3>2, <3>3, <3>6, <3>7
  <2>2. QED
    BY <1>9, <2>1 DEF ReceiveChange, ConfigChanged
<1>10. CASE SwitchConfig
  <2>1. missed' \in BOOLEAN
    BY <1>10 DEF SwitchConfig
  <2>2. QED
    BY <1>10, <2>1 DEF SwitchConfig
<1>11. CASE RejectConfig \/ WriteConfig
  BY <1>11 DEF RejectConfig, WriteConfig, EventLoop
<1>12. CASE ManagedWindDown \/ ManagedExit
  BY <1>12 DEF ManagedWindDown, ManagedExit
<1>13. CASE LatestConfigDetails \/ LatestConfig \/ LatestConfigDiscarded
  BY <1>13 DEF LatestConfigDetails, LatestConfig, LatestConfigDiscarded
<1>14. CASE SendChange
  <2>1. /\ Append(chNewConfig, latestConfigDigest) \in Seq(Config)
        /\ Len(Append(chNewConfig, latestConfigDigest)) <= BufferSize
    BY <1>2, <1>14, Channels, ManagedOracleAssumption DEF SendChange
  <2>2. QED
    BY <1>14, <2>1 DEF SendChange
<1>15. CASE StopTracker
  BY <1>15 DEF StopTracker
<1>16. CASE StartOracle \/ CloseOracle
  BY <1>16 DEF StartOracle, CloseOracle
<1>17. CASE StartFails
  <2>1. missed' \in BOOLEAN
    BY <1>17 DEF StartFails
  <2>2. QED
    BY <1>17, <2>1 DEF StartFails
<1>18. QED
  BY <1>4, <1>5, <1>6, <1>7, <1>8, <1>9, <1>10, <1>11, <1>12, <1>13, <1>14,
     <1>15, <1>16, <1>17 DEF Next

\* Numbers that are typed, for the comparisons below.
LEMMA Numbers ==
    ASSUME TypeOK
    PROVE  /\ contract \in Nat
           /\ change \in Nat
           /\ configDigest \in Nat
           /\ stored \in Nat
           /\ latestConfigDigest \in Nat
           /\ trackedDigest \in Nat
           /\ Current \in Nat
           /\ Len(chNewConfig) \in Nat
           /\ \A i \in DOMAIN chNewConfig : chNewConfig[i] \in Nat
  BY ChannelTyped DEF TypeOK, Current

\* rwcc takes the next configuration: what is left is newer.
LEMMA ReceiveChangeOrders ==
    ASSUME TypeOK, OrderInv, ReceiveChange
    PROVE  OrderInv'
<1> DEFINE q == chNewConfig
<1>1. /\ rwcc = "select"
      /\ q # <<>>
      /\ rwcc' = "waiting"
      /\ change' = Head(q)
      /\ q' = Tail(q)
      /\ UNCHANGED <<contract, configDigest, tracker, latestConfigDigest,
                     trackedDigest>>
  BY DEF ReceiveChange, ConfigChanged, trackerVars
<1>2. /\ Head(q) = q[1]
      /\ 1 \in DOMAIN q
      /\ \A i \in DOMAIN Tail(q) :
           i + 1 \in DOMAIN q /\ 1 < i + 1 /\ Tail(q)[i] = q[i + 1]
  <2>1. q \in Seq(Config)
    BY DEF TypeOK
  <2>2. QED
    BY <1>1, <2>1, Channels
<1>3. /\ \A i \in DOMAIN q : q[i] \in Nat /\ i \in Nat
      /\ configDigest \in Nat /\ latestConfigDigest \in Nat
  BY Numbers DEF TypeOK
<1>4. Current = configDigest /\ Current' = q[1]
  BY <1>1, <1>2 DEF Current
<1> HIDE DEF q
<1>5. ASSUME NEW i \in DOMAIN q'
      PROVE  /\ i \in Nat
             /\ i + 1 \in DOMAIN q
             /\ q'[i] = q[i + 1]
             /\ q[1] < q[i + 1]
  <2>1. i + 1 \in DOMAIN q /\ 1 < i + 1 /\ q'[i] = q[i + 1]
    BY <1>1, <1>2
  <2>2. i \in Nat
    BY <1>1, <1>2 DEF q, TypeOK
  <2>3. QED
    BY <1>2, <2>1, <2>2 DEF OrderInv, ChannelInv, q
<1>6. ChannelInv'
  <2>1. \A i \in DOMAIN q' : q[1] < q'[i] /\ q'[i] <= trackedDigest'
    BY <1>1, <1>5 DEF OrderInv, ChannelInv, q
  <2>2. \A i, j \in DOMAIN q' : i < j => q'[i] < q'[j]
    <3>1. SUFFICES ASSUME NEW i \in DOMAIN q', NEW j \in DOMAIN q', i < j
                   PROVE  q'[i] < q'[j]
      OBVIOUS
    <3>2. i + 1 < j + 1
      BY <1>5, <3>1
    <3>3. q[i + 1] < q[j + 1]
      BY <1>5, <3>2 DEF OrderInv, ChannelInv, q
    <3>4. QED
      BY <1>5, <3>3
  <2>3. QED
    BY <1>4, <2>1, <2>2 DEF ChannelInv, q
<1>7. TrackedInv'
  <2>1. q[1] <= trackedDigest
    BY <1>2 DEF OrderInv, ChannelInv, q
  <2>2. tracker = "sending" => q[1] < latestConfigDigest
    BY <1>2 DEF OrderInv, TrackedInv, q
  <2>3. tracker = "sending" => \A i \in DOMAIN q' : q'[i] < latestConfigDigest
    BY <1>5 DEF OrderInv, TrackedInv, q
  <2>4. QED
    BY <1>1, <1>4, <2>1, <2>2, <2>3 DEF OrderInv, TrackedInv, q
<1>8. TrackerInv' /\ SwitchInv'
  <2>1. configDigest < q[1]
    BY <1>2, <1>4 DEF OrderInv, ChannelInv, q
  <2>2. QED
    BY <1>1, <1>2, <2>1 DEF OrderInv, TrackerInv, SwitchInv, q
<1>9. QED
  BY <1>6, <1>7, <1>8 DEF OrderInv

\* The tracker sends what it has returned, which is newer than all before.
LEMMA SendChangeOrders ==
    ASSUME TypeOK, OrderInv, SendChange
    PROVE  OrderInv'
<1> DEFINE q == chNewConfig
           c == latestConfigDigest
<1>1. /\ tracker = "sending"
      /\ tracker' = "idle"
      /\ q' = Append(q, c)
      /\ UNCHANGED <<contract, rwcc, change, configDigest, latestConfigDigest,
                     trackedDigest>>
  BY DEF SendChange, rwccVars
<1>2. \A i \in DOMAIN q' :
        \/ i \in DOMAIN q /\ i < Len(q) + 1 /\ q'[i] = q[i]
        \/ i = Len(q) + 1 /\ q'[i] = c
  BY <1>1, Channels DEF TypeOK
<1>3. /\ trackedDigest = c
      /\ Current < c
      /\ Current' = Current
      /\ Current <= trackedDigest
      /\ \A i \in DOMAIN q : q[i] < c
  BY <1>1 DEF OrderInv, TrackedInv, Current
<1>4. /\ \A i \in DOMAIN q : q[i] \in Nat /\ i \in Nat /\ i < Len(q) + 1
      /\ Len(q) \in Nat
      /\ c \in Nat /\ Current \in Nat
  BY Numbers DEF TypeOK
<1>5. /\ \A i \in DOMAIN q : Current < q[i] /\ q[i] <= trackedDigest
      /\ \A i, j \in DOMAIN q : i < j => q[i] < q[j]
  BY DEF OrderInv, ChannelInv
<1> HIDE DEF q, c
<1>6. \A i \in DOMAIN q' : Current' < q'[i] /\ q'[i] <= trackedDigest'
  BY <1>1, <1>2, <1>3, <1>4, <1>5
<1>7. \A i, j \in DOMAIN q' : i < j => q'[i] < q'[j]
  <2>1. SUFFICES ASSUME NEW i \in DOMAIN q', NEW j \in DOMAIN q', i < j
                 PROVE  q'[i] < q'[j]
    OBVIOUS
  <2>2. CASE i = Len(q) + 1
    BY <1>2, <1>4, <2>1, <2>2
  <2>3. CASE i \in DOMAIN q /\ q'[i] = q[i]
    BY <1>2, <1>3, <1>5, <2>1, <2>3
  <2>4. QED
    BY <1>2, <2>2, <2>3
<1>8. ChannelInv'
  BY <1>6, <1>7 DEF ChannelInv, q
<1>9. TrackerInv' /\ SwitchInv' /\ TrackedInv'
  BY <1>1, <1>3 DEF OrderInv, TrackerInv, SwitchInv, TrackedInv, Current
<1>10. QED
  BY <1>8, <1>9 DEF OrderInv

\* No other step puts anything into the channel, and each keeps the order.
LEMMA OrderKept ==
    ASSUME IInv, [Next]_vars
    PROVE  OrderInv'
<1> DEFINE Unread == chNewConfig' = chNewConfig
<1>1. TypeOK /\ OrderInv
  BY DEF IInv
<1>2. /\ contract \in Nat
      /\ change \in Nat
      /\ configDigest \in Nat
      /\ stored \in Nat
      /\ latestConfigDigest \in Nat
      /\ trackedDigest \in Nat
      /\ \A i \in DOMAIN chNewConfig : chNewConfig[i] \in Nat
  BY <1>1, Numbers
<1> USE <1>1, <1>2
        DEF OrderInv, TrackerInv, ChannelInv, TrackedInv, SwitchInv, Current,
            rwccVars, trackerVars
<1>3. CASE UNCHANGED vars \/ (RuntimeNext /\ UNCHANGED managedVars)
  BY <1>3 DEF vars, managedVars
<1>4. CASE Crash
  <2>1. DOMAIN chNewConfig' = {}
    BY <1>4 DEF Crash
  <2>2. QED
    BY <1>4, <2>1 DEF Crash
<1>5. CASE Stop
  BY <1>5 DEF Stop
<1>6. CASE SetConfig
  BY <1>6 DEF SetConfig
<1>7. CASE RestoreFromDatabase
  <2>1. /\ chNewConfig' = chNewConfig
        /\ DOMAIN chNewConfig = {}
        /\ UNCHANGED <<contract, configDigest, latestConfigDigest>>
        /\ tracker = "unstarted"
        /\ configDigest = 0
    BY <1>7 DEF RestoreFromDatabase, EventLoop
  <2>2. \/ /\ stored # 0
           /\ rwcc' = "waiting"
           /\ change' = stored
           /\ UNCHANGED <<tracker, trackedDigest>>
        \/ /\ rwcc' = "select"
           /\ tracker' = "idle"
           /\ trackedDigest' = configDigest
    BY <1>7, <2>1 DEF RestoreFromDatabase, EventLoop, ConfigChanged
  <2>3. QED
    BY <2>1, <2>2
<1>8. CASE ReceiveChange
  BY <1>8, ReceiveChangeOrders
<1>9. CASE SwitchConfig
  BY <1>9 DEF SwitchConfig
<1>10. CASE RejectConfig
  <2>1. DOMAIN chNewConfig = {} /\ chNewConfig' = chNewConfig
    BY <1>10 DEF RejectConfig
  <2>2. configDigest <= contract
    BY <1>10 DEF RejectConfig, TypeOK
  <2>3. QED
    BY <1>10, <2>1, <2>2 DEF RejectConfig, EventLoop
<1>11. CASE WriteConfig
  <2>1. /\ chNewConfig' = chNewConfig
        /\ configDigest = change
        /\ change <= contract
    BY <1>11 DEF WriteConfig, TypeOK
  <2>2. CASE tracker = "unstarted"
    <3>1. DOMAIN chNewConfig = {}
      BY <2>2
    <3>2. QED
      BY <1>11, <2>1, <2>2, <3>1 DEF WriteConfig, EventLoop
  <2>3. CASE tracker # "unstarted"
    BY <1>11, <2>1, <2>3 DEF WriteConfig, EventLoop
  <2>4. QED
    BY <2>2, <2>3
<1>12. CASE ManagedWindDown \/ ManagedExit
  BY <1>12 DEF ManagedWindDown, ManagedExit
<1>13. CASE LatestConfigDetails
  BY <1>13 DEF LatestConfigDetails
<1>14. CASE LatestConfig
  BY <1>14 DEF LatestConfig
<1>15. CASE LatestConfigDiscarded
  BY <1>15 DEF LatestConfigDiscarded
<1>16. CASE SendChange
  BY <1>16, SendChangeOrders
<1>17. CASE StopTracker
  BY <1>17 DEF StopTracker
<1>18. CASE StartOracle \/ StartFails \/ CloseOracle
  BY <1>18 DEF StartOracle, StartFails, CloseOracle
<1>19. QED
  BY <1>3, <1>4, <1>5, <1>6, <1>7, <1>8, <1>9, <1>10, <1>11, <1>12, <1>13,
     <1>14, <1>15, <1>16, <1>17, <1>18 DEF Next

LEMMA InitIInv == Init => IInv
<1> SUFFICES ASSUME Init
             PROVE  IInv
  OBVIOUS
<1>1. RuntimeTypeOK /\ ChildrenInv
  <2>1. ctx \in BOOLEAN /\ childCtx \in BOOLEAN /\ notify \in BOOLEAN
    BY DEF Init, RuntimeInit
  <2>2. oracle = "ended" /\ ChildrenEnded /\ ahead = 0
    BY DEF Init, RuntimeInit
  <2>3. QED
    BY <2>1, <2>2, OracleRuntimeAssumption
       DEF RuntimeTypeOK, ChildrenInv, ChildrenEnded, Child
<1>2. chNewConfig \in Seq(Config) /\ Len(chNewConfig) <= BufferSize
  BY ManagedOracleAssumption DEF Init
<1>3. TypeOK
  <2>1. stop \in BOOLEAN /\ missed \in BOOLEAN
    BY DEF Init
  <2>2. oracle = "ended"
    BY DEF Init, RuntimeInit
  <2>3. 0 \in Config /\ crashes \in 0..MaxCrashes
    BY ManagedOracleAssumption DEF Init, Config
  <2>4. QED
    BY <1>1, <1>2, <2>1, <2>2, <2>3 DEF Init, TypeOK
<1>4. DOMAIN chNewConfig = {}
  BY DEF Init
<1>5. OrderInv
  BY <1>4 DEF Init, OrderInv, TrackerInv, ChannelInv, TrackedInv, SwitchInv,
              Current
<1>6. QED
  BY <1>1, <1>3, <1>5 DEF IInv

\* The inductive invariant holds throughout.
LEMMA IInvHolds == Spec => []IInv
<1>1. IInv /\ [Next]_vars => IInv'
  BY RuntimeKept, ManagedTypesKept, OrderKept DEF IInv
<1>2. QED
  BY <1>1, InitIInv, PTL DEF Spec

\* An oracle is started in one place only (configChanged).
LEMMA StartedBySwitch ==
    ASSUME TypeOK, [Next]_vars, fn' = "starting", fn # "starting"
    PROVE  SwitchConfig
<1>1. CASE RuntimeNext /\ UNCHANGED managedVars
  BY <1>1 DEF managedVars
<1>2. CASE UNCHANGED vars
  BY <1>2 DEF vars, managedVars
<1>3. CASE ManagedNext
  BY <1>3 DEF ManagedNext, Crash, Stop, SetConfig, RestoreFromDatabase,
       ReceiveChange, RejectConfig, WriteConfig, ManagedWindDown, ManagedExit,
       LatestConfigDetails, LatestConfig, LatestConfigDiscarded, SendChange,
       StopTracker, StartOracle, StartFails, CloseOracle
<1>4. QED
  BY <1>1, <1>2, <1>3 DEF Next, ManagedNext
-----------------------------------------------------------------------------
\* The goroutines, the configurations and the channel have their types; no oracle
\* runs outside the function that runs it (run_with_contract_config.go).
THEOREM TypeCorrect == Spec => []TypeOK
<1>1. IInv => TypeOK
  BY DEF IInv
<1>2. QED
  BY <1>1, IInvHolds, PTL

\* The sends to the subprotocols (message.go:118) are not "contained in select{}
\* statements that also contain a case for context cancellation" (oracle.go:114):
\* while the oracle's loop is in one, no subprotocol has ended, though the oracle's
\* context be cancelled.
ReceiversAlive ==
    oracle \in Child =>
        \A child \in {pacemaker, outgen, repatt, transmission} : child # "ended"

\* The oracle's loop never waits to send to a subprotocol that has ended, although
\* those sends (message.go:118) have no case for a cancelled context: the loop alone
\* cancels the context of its children, and not while it sends.
THEOREM SendsAreReceived == Spec => []ReceiversAlive
<1>1. IInv => ReceiversAlive
  BY DEF IInv, ChildrenInv, ReceiversAlive
<1>2. QED
  BY <1>1, IInvHolds, PTL

\* configChanged starts an oracle after every goroutine of the one before has ended,
\* whatever crashes, fails, or changes meanwhile.
THEOREM OneOracle == Spec => OneOracleAtATime
<1>1. ASSUME IInv, [Next]_vars, fn' = "starting", fn # "starting"
      PROVE  fn = "ended" /\ oracle = "ended" /\ ChildrenEnded
  <2>1. TypeOK /\ SwitchConfig
    BY <1>1, StartedBySwitch DEF IInv
  <2>2. fn = "ended"
    BY <2>1 DEF SwitchConfig
  <2>3. oracle = "ended"
    BY <2>1, <2>2 DEF TypeOK
  <2>4. QED
    BY <1>1, <2>2, <2>3 DEF IInv, ChildrenInv
<1>2. IInv /\ [Next]_vars
        => [fn' = "starting" /\ fn # "starting" =>
                fn = "ended" /\ oracle = "ended" /\ ChildrenEnded]_vars
  BY <1>1
<1>3. QED
  BY <1>2, IInvHolds, PTL DEF Spec, OneOracleAtATime

\* No configuration is run again, or after a newer one, in one process: what
\* TrackConfig returns is newer than what it returned before and than what was
\* restored, and the channel keeps the order.
THEOREM ConfigsRunInOrder == Spec => ConfigsInOrder
<1>1. ASSUME IInv, [Next]_vars, fn' = "starting", fn # "starting"
      PROVE  configDigest' > configDigest
  <2>1. SwitchConfig /\ configDigest \in Nat /\ change \in Nat
    BY <1>1, StartedBySwitch, Numbers DEF IInv
  <2>2. rwcc = "waiting" /\ configDigest' = change
    BY <2>1 DEF SwitchConfig
  <2>3. configDigest < change
    BY <1>1, <2>2 DEF IInv, OrderInv, SwitchInv
  <2>4. QED
    BY <2>1, <2>2, <2>3
<1>2. IInv /\ [Next]_vars
        => [fn' = "starting" /\ fn # "starting" =>
                configDigest' > configDigest]_vars
  BY <1>1
<1>3. QED
  BY <1>2, IInvHolds, PTL DEF Spec, ConfigsInOrder
=============================================================================

---------------------------- MODULE ManagedOracle ----------------------------
(***************************************************************************)
(* RunManagedOCR3Oracle: an oracle for the newest configuration of the     *)
(* contract.  TrackConfig polls the contract and sends each new            *)
(* configuration through a buffered channel to runWithContractConfig,      *)
(* which ends the oracle of the configuration before, starts one for the   *)
(* new, and writes the configuration to the database, from which it is     *)
(* restored when the process starts.  OracleRuntime is that oracle.        *)
(*                                                                         *)
(* Configurations are numbered in the order in which the contract gets     *)
(* them; 0 is the zero digest.  What is read of the contract never goes    *)
(* back: the tracker does not check that, and leaves it to the blocks it   *)
(* waits for.                                                              *)
(***************************************************************************)
EXTENDS OracleRuntime, Sequences

CONSTANTS
    MaxConfig,      \* bound: how many configurations the contract gets
    MaxCrashes,     \* bound: how many times the process crashes
    BufferSize      \* the capacity of chNewConfig

ASSUME ManagedOracleAssumption ==
    /\ MaxConfig \in Nat \ {0}
    /\ MaxCrashes \in Nat
    /\ BufferSize \in Nat \ {0}

VARIABLES
    contract,       \* the newest configuration of the contract
    stored,         \* the configuration in the database
    stop,           \* whether the context of the process is cancelled
    \* runWithContractConfigState: what its loop does, the configuration it
    \* switches to, and the one it has switched to
    rwcc, change, configDigest,
    chNewConfig,
    \* trackConfigState: what it does, the digest it has read or sends, and the
    \* last that it returned
    tracker, latestConfigDigest, trackedDigest,
    fn,             \* the function that runs an oracle
    missed,         \* it returned without running one
    crashes

managedVars == <<contract, stored, stop, rwcc, change, configDigest,
                 chNewConfig, tracker, latestConfigDigest, trackedDigest, fn,
                 missed, crashes>>
vars == <<runtimeVars, managedVars>>

trackerVars == <<tracker, latestConfigDigest, trackedDigest>>
rwccVars == <<rwcc, change, configDigest>>

Config == 0..MaxConfig

TypeOK ==
    /\ RuntimeTypeOK
    /\ contract \in Config
    /\ stored \in Config /\ stored <= contract
    /\ stop \in BOOLEAN
    /\ rwcc \in {"restoring", "select", "waiting", "writing", "windingDown",
                 "exited"}
    /\ change \in Config /\ change <= contract
    /\ configDigest \in Config
    /\ chNewConfig \in Seq(Config) /\ Len(chNewConfig) <= BufferSize
    /\ tracker \in {"unstarted", "idle", "checking", "sending", "ended"}
    /\ latestConfigDigest \in Config
    /\ trackedDigest \in Config
    /\ fn \in {"ended", "starting", "running"}
    /\ oracle # "ended" => fn = "running"
    /\ missed \in BOOLEAN
    /\ crashes \in 0..MaxCrashes
-----------------------------------------------------------------------------
Init ==
    /\ RuntimeInit
    /\ contract = 0
    /\ stored = 0
    /\ stop = FALSE
    /\ rwcc = "restoring"
    /\ change = 0
    /\ configDigest = 0
    /\ chNewConfig = <<>>
    /\ tracker = "unstarted"
    /\ latestConfigDigest = 0
    /\ trackedDigest = 0
    /\ fn = "ended"
    /\ missed = FALSE
    /\ crashes = 0

\* The process ends and starts again.
Crash ==
    /\ crashes < MaxCrashes
    /\ ~stop
    /\ crashes' = crashes + 1
    /\ RuntimeCrash
    /\ rwcc' = "restoring"
    /\ change' = 0
    /\ configDigest' = 0
    /\ chNewConfig' = <<>>
    /\ tracker' = "unstarted"
    /\ latestConfigDigest' = 0
    /\ trackedDigest' = 0
    /\ fn' = "ended"
    /\ missed' = FALSE
    /\ UNCHANGED <<contract, stored, stop>>

\* The context of the process is cancelled, from which fn's is derived.
Stop ==
    /\ ~stop
    /\ stop' = TRUE
    /\ ctx' = TRUE
    /\ UNCHANGED <<childCtx, oracle, children, notify, ahead, contract, stored,
                   rwccVars, chNewConfig, trackerVars, fn, missed, crashes>>

SetConfig ==
    /\ contract < MaxConfig
    /\ contract' = contract + 1
    /\ UNCHANGED <<runtimeVars, stored, stop, rwccVars, chNewConfig,
                   trackerVars, fn, missed, crashes>>
-----------------------------------------------------------------------------
\* Mutant of EventLoop: the tracker is not told of the restored configuration.
EventLoopFromZero ==
    /\ rwcc' = "select"
    /\ tracker' = IF tracker = "unstarted" THEN "idle" ELSE tracker
    /\ UNCHANGED <<latestConfigDigest, trackedDigest>>

\* The loop of runWithContractConfig, before which the tracker is started.
EventLoop ==
    /\ rwcc' = "select"
    /\ IF tracker = "unstarted"
       THEN tracker' = "idle" /\ trackedDigest' = configDigest
       ELSE UNCHANGED <<tracker, trackedDigest>>
    /\ UNCHANGED latestConfigDigest

\* configChanged up to the wait for the oracle of the configuration before.
ConfigChanged(c) ==
    /\ rwcc' = "waiting"
    /\ change' = c
    /\ ctx' = TRUE

\* restoreFromDatabase: there may be no configuration, or the read fails.
RestoreFromDatabase ==
    /\ rwcc = "restoring"
    /\ \/ /\ stored # 0
          /\ ConfigChanged(stored)
          /\ UNCHANGED trackerVars
       \/ /\ EventLoop
          /\ UNCHANGED <<ctx, change>>
    /\ UNCHANGED <<childCtx, oracle, children, notify, ahead, contract, stored,
                   stop, configDigest, chNewConfig, fn, missed, crashes>>

ReceiveChange ==
    /\ rwcc = "select"
    /\ chNewConfig # <<>>
    /\ ConfigChanged(Head(chNewConfig))
    /\ chNewConfig' = Tail(chNewConfig)
    /\ UNCHANGED <<childCtx, oracle, children, notify, ahead, contract, stored,
                   stop, configDigest, trackerVars, fn, missed, crashes>>

\* Mutant of SwitchConfig: fnSubs.Wait is left out.
SwitchConfigAtOnce ==
    /\ rwcc = "waiting"
    /\ rwcc' = "writing"
    /\ configDigest' = change
    /\ fn' = "starting"
    /\ missed' = FALSE
    /\ ctx' = stop
    /\ UNCHANGED <<childCtx, oracle, children, notify, ahead, contract, stored,
                   stop, change, chNewConfig, trackerVars, crashes>>

\* The rest of configChanged up to the write.
SwitchConfig ==
    /\ rwcc = "waiting"
    /\ fn = "ended"
    /\ rwcc' = "writing"
    /\ configDigest' = change
    /\ fn' = "starting"
    /\ missed' = FALSE
    /\ ctx' = stop
    /\ UNCHANGED <<childCtx, oracle, children, notify, ahead, contract, stored,
                   stop, change, chNewConfig, trackerVars, crashes>>

\* A configuration whose digest is wrong is not run.  That is so of one in the
\* database only, for the tracker has checked all others.
RejectConfig ==
    /\ rwcc = "waiting"
    /\ tracker = "unstarted"
    /\ EventLoop
    /\ UNCHANGED <<runtimeVars, contract, stored, stop, change, configDigest,
                   chNewConfig, fn, missed, crashes>>

\* The write may fail.
WriteConfig ==
    /\ rwcc = "writing"
    /\ stored' \in {stored, change}
    /\ EventLoop
    /\ UNCHANGED <<runtimeVars, contract, stop, change, configDigest,
                   chNewConfig, fn, missed, crashes>>

ManagedWindDown ==
    /\ rwcc = "select"
    /\ stop
    /\ rwcc' = "windingDown"
    /\ UNCHANGED <<runtimeVars, contract, stored, stop, change, configDigest,
                   chNewConfig, trackerVars, fn, missed, crashes>>

\* fnSubs.Wait() and otherSubs.Wait()
ManagedExit ==
    /\ rwcc = "windingDown"
    /\ fn = "ended"
    /\ tracker = "ended"
    /\ rwcc' = "exited"
    /\ UNCHANGED <<runtimeVars, contract, stored, stop, change, configDigest,
                   chNewConfig, trackerVars, fn, missed, crashes>>
-----------------------------------------------------------------------------
\* Mutant of LatestConfigDetails: the digest counts as returned at once.
LatestConfigDetailsTracked ==
    /\ tracker = "idle"
    /\ contract # trackedDigest
    /\ tracker' = "checking"
    /\ latestConfigDigest' = contract
    /\ trackedDigest' = contract
    /\ UNCHANGED <<runtimeVars, contract, stored, stop, rwccVars, chNewConfig,
                   fn, missed, crashes>>

\* The first calls of checkLatestConfigDetails find another digest, confirmed
\* by enough blocks.  (When they fail, or find nothing new, nothing changes.)
LatestConfigDetails ==
    /\ tracker = "idle"
    /\ contract # trackedDigest
    /\ tracker' = "checking"
    /\ latestConfigDigest' = contract
    /\ UNCHANGED <<runtimeVars, contract, stored, stop, rwccVars, chNewConfig,
                   trackedDigest, fn, missed, crashes>>

\* The last call and the checks of its result.
LatestConfig ==
    /\ tracker = "checking"
    /\ tracker' = "sending"
    /\ trackedDigest' = latestConfigDigest
    /\ UNCHANGED <<runtimeVars, contract, stored, stop, rwccVars, chNewConfig,
                   latestConfigDigest, fn, missed, crashes>>

\* The call fails, or the configuration does not have the digest read before:
\* it is corrupted, or the contract has got another in the same block meanwhile.
LatestConfigDiscarded ==
    /\ tracker = "checking"
    /\ tracker' = "idle"
    /\ UNCHANGED <<runtimeVars, contract, stored, stop, rwccVars, chNewConfig,
                   latestConfigDigest, trackedDigest, fn, missed, crashes>>

SendChange ==
    /\ tracker = "sending"
    /\ Len(chNewConfig) < BufferSize
    /\ chNewConfig' = Append(chNewConfig, latestConfigDigest)
    /\ tracker' = "idle"
    /\ UNCHANGED <<runtimeVars, contract, stored, stop, rwccVars,
                   latestConfigDigest, trackedDigest, fn, missed, crashes>>

\* In its select, in the one of its send, or because a call was cancelled.
StopTracker ==
    /\ stop
    /\ tracker \in {"idle", "checking", "sending"}
    /\ tracker' = "ended"
    /\ UNCHANGED <<runtimeVars, contract, stored, stop, rwccVars, chNewConfig,
                   latestConfigDigest, trackedDigest, fn, missed, crashes>>
-----------------------------------------------------------------------------
\* The plugin and the endpoint are made and RunOracle is called.
StartOracle ==
    /\ fn = "starting"
    /\ fn' = "running"
    /\ oracle' = "restoring"
    /\ UNCHANGED <<ctx, childCtx, children, notify, ahead, contract, stored,
                   stop, rwccVars, chNewConfig, trackerVars, missed, crashes>>

\* This oracle is not in the configuration, or the plugin or the endpoint cannot
\* be made: the error is logged, and nothing tries again.
StartFails ==
    /\ fn = "starting"
    /\ fn' = "ended"
    /\ missed' = TRUE
    /\ UNCHANGED <<runtimeVars, contract, stored, stop, rwccVars, chNewConfig,
                   trackerVars, crashes>>

\* RunOracle has returned; the endpoint and the plugin are closed.
CloseOracle ==
    /\ fn = "running"
    /\ oracle = "ended"
    /\ fn' = "ended"
    /\ UNCHANGED <<runtimeVars, contract, stored, stop, rwccVars, chNewConfig,
                   trackerVars, missed, crashes>>

Next ==
    \/ RuntimeNext /\ UNCHANGED managedVars
    \/ Crash
    \/ Stop
    \/ SetConfig
    \/ RestoreFromDatabase
    \/ ReceiveChange
    \/ SwitchConfig
    \/ RejectConfig
    \/ WriteConfig
    \/ ManagedWindDown
    \/ ManagedExit
    \/ LatestConfigDetails
    \/ LatestConfig
    \/ LatestConfigDiscarded
    \/ SendChange
    \/ StopTracker
    \/ StartOracle
    \/ StartFails
    \/ CloseOracle

Spec == Init /\ [][Next]_vars

\* What a goroutine can do alone, it does in the end.  A channel whose two ends
\* meet again and again transports in the end: select chooses at random among
\* the channels that are ready, and blocked senders queue.  A round has finitely
\* many reports.
RuntimeFairness ==
    /\ WF_vars(Restore /\ UNCHANGED managedVars)
    /\ WF_vars(WindDown /\ UNCHANGED managedVars)
    /\ WF_vars(Exit /\ UNCHANGED managedVars)
    /\ WF_vars(CallReturns /\ UNCHANGED managedVars)
    /\ WF_vars(StopPacemaker /\ UNCHANGED managedVars)
    /\ WF_vars(StopOutcomeGeneration /\ UNCHANGED managedVars)
    /\ WF_vars(StopReportAttestation /\ UNCHANGED managedVars)
    /\ WF_vars(StopTransmission /\ UNCHANGED managedVars)
    /\ WF_vars(DispatchToPacemaker /\ UNCHANGED managedVars)
    /\ WF_vars(SendEventToPacemaker /\ UNCHANGED managedVars)
    /\ SF_vars(DispatchToOutcomeGeneration /\ UNCHANGED managedVars)
    /\ SF_vars(DispatchToReportAttestation /\ UNCHANGED managedVars)
    /\ SF_vars(NotifyNewEpochStart /\ UNCHANGED managedVars)
    /\ SF_vars(EventCommittedOutcome /\ UNCHANGED managedVars)
    /\ SF_vars(EventLastAttestedReport /\ UNCHANGED managedVars)

\* The calls to the contract's chain succeed in the end.
ManagedFairness ==
    /\ WF_vars(RestoreFromDatabase)
    /\ WF_vars(ReceiveChange)
    /\ WF_vars(SwitchConfig)
    /\ WF_vars(WriteConfig)
    /\ WF_vars(ManagedWindDown)
    /\ WF_vars(ManagedExit)
    /\ WF_vars(LatestConfigDetails)
    /\ SF_vars(LatestConfig)
    /\ WF_vars(SendChange)
    /\ WF_vars(StopTracker)
    /\ WF_vars(StartOracle)
    /\ WF_vars(CloseOracle)

FairSpec == Spec /\ RuntimeFairness /\ ManagedFairness
-----------------------------------------------------------------------------
\* A new oracle starts (configChanged) after every goroutine of the one before
\* has ended: two of them with one key would sign different things.
OneOracleAtATime ==
    [][fn' = "starting" /\ fn # "starting" =>
           fn = "ended" /\ oracle = "ended" /\ ChildrenEnded]_vars

\* A process runs each configuration once at most, in the order of the contract,
\* the restored one included (rwcc.configDigest is handed to TrackConfig).
ConfigsInOrder ==
    [][fn' = "starting" /\ fn # "starting" => configDigest' > configDigest]_vars

\* No goroutine waits for ever on a channel (oracle.go, message.go): a message
\* reaches its subprotocol, and events and epochs the goroutines they are for.
NoCyclicWait ==
    /\ []<>(oracle \notin Child)
    /\ []<>(outgen \in {"select", "ended"})
    /\ []<>(notify => oracle = "ended")

\* When the contract stays as it is, its configuration is found and run, whatever
\* calls and writes failed before, unless its oracle could not be started.
NewestConfigRuns ==
    \A c \in Config \ {0} :
        <>[](contract = c /\ ~stop) =>
            <>[](configDigest = c /\ (missed \/ oracle # "ended"))

\* "RunOracle runs forever until ctx is cancelled. It will only shut down after
\* all its sub-goroutines have exited" (oracle.go:20): and so does everything.
ShutsDown == []<>(stop => rwcc = "exited" /\ fn = "ended" /\ ChildrenEnded)
=============================================================================

# libocr in TLA+

libocr runs the Offchain Reporting (OCR) protocols: a group of N oracles, of which up to F
may be faulty and 3F < N, agrees on a sequence of outcomes, turns each outcome into
reports, signs the reports, and transmits them to a contract. This directory holds TLA+
specifications of its core, OCR3 (`src/offchainreporting2plus/internal/ocr3`), the TLC
instances that check them, and TLAPS proofs about them.

Paths below are relative to `src/offchainreporting2plus/internal/ocr3/protocol/` where no
other directory is named. `PROJECT.json` maps every definition of the models to the lines
of code it stands for and lists components, runs, mutants, hazards, findings and theorems.

- [Inventory](#inventory)
- [Modules and how they correspond to the
  code](#modules-and-how-they-correspond-to-the-code)
- [Runs](#runs)
- [Findings](#findings)
- [Proofs](#proofs)
- [What is only model-checked, what is not
  modelled](#what-is-only-model-checked-what-is-not-modelled)
- [Plan](#plan)

## Inventory

One oracle process runs four subprotocols as goroutines, each an event loop over its own
state, and a fifth loop that hands network messages to the first three. They share no
memory and talk over unbuffered channels:

    network -> oracle loop -> pacemaker          (NewEpochWish)
                           -> outcome generation (the seven messages of an epoch)
                           -> report attestation (signatures, certificate requests)
    pacemaker          -> outcome generation     EventNewEpochStart
    outcome generation -> pacemaker              EventProgress, EventNewEpochRequest
    outcome generation -> report attestation     EventCommittedOutcome
    report attestation -> transmission           EventAttestedReport

| Component | State | Operations | What is hard | What makes it correct |
|---|---|---|---|---|
| Pacemaker (`pacemaker.go`) | epoch `e`, highest wish `ne`, wishes heard, timers; `e` and `ne` in the database | wish on timeout or request, wish after F+1 others, move after 2F+1, resend | lost wishes, crashes between write and broadcast, failed writes, events of an epoch that is over | moves are backed and due, no way back, everybody follows, stalled leaders are replaced |
| Outcome generation (`outcome_generation*.go`, `signed_data.go`) | epoch, sequence number, phases of leader and follower, pools, the highest certificate (in the database) | EpochStart handshake, RoundStart, Observation, Proposal, Prepare, Commit; three timers | asynchrony, faulty leaders, re-proposals, restarts that forget votes, failed writes, stale timers | one outcome per sequence number; each is computed from the one before |
| Report attestation (`report_attestation.go`) | a map of rounds with signatures and certificates, scheduled fetches | commit, signatures, fetch of a missing certificate, reap | late and missing messages, rounds dropped while something about them is scheduled, floods of far rounds | reports are attested once, as soon as possible, and by everybody |
| Transmission (`transmission.go`) | scheduled reports | accept, schedule by stage, transmit with a timeout | blocking calls, crash before the delay is over | every oracle in one stage at most, what is accepted is tried, and it reaches the contract although some fail |
| Pools and buffers (`pool/`, `ringbuffer/`, `messagebuffer.go`) | bounded maps and rings | put, verify, reap; push, pop | limits: what is dropped | what is needed next is never dropped for what is needed later; a late oracle finds the start of the epoch |
| Scheduler (`../scheduler`, `../minheap`) | heap, timer, pending item | schedule, deliver, close | timer races | every item once, none before its deadline |
| Oracle runtime (`oracle.go`, `message.go`) | channels, contexts | restore, start, dispatch, shut down | cyclic waits, shutdown | no deadlock, all goroutines end |
| Managed oracles (`internal/managed`) | running configuration, the one in the database | track, switch, persist configurations | contract changes between two reads, failed writes, shutdown of the old oracle | one oracle at a time, configurations in order, the newest is run in the end |
| Serialization, shims, configuration | none or static | conversions, checks | sizes, missing fields | what is sent is what is received |
| OCR2 and OCR1 (`internal/ocr2`, `src/offchainreporting`) | as above, earlier protocols | epoch change, report generation, transmission | as above | as above |
| ragep2p, ragedisco, networking | connections, streams, announcements | dial, multiplex, rate limit, discover | reconnection, full buffers | FIFO, at most once |
| Median plugin, Mercury shim, contracts | none, or a chain's storage | plugin callbacks, `transmit` | arithmetic | median of the observations |

The external parts are the database (a write fails or happens at once), the reporting
plugin (its functions return any value the protocol accepts), the clock (a timer that is
set may fire at any time), and the network.

## Modules and how they correspond to the code

    ByzQuorum <- OutcomeGeneration <- MCOutcomeGeneration
                   |  implements OutcomeLog
              <- Pacemaker         <- MCPacemaker
              <- ReportAttestation <- MCReportAttestation
    ByzQuorum, MessagePool <- Round <- MCRound
    Scheduler <- Transmission  <- MCTransmission
                   |  implements DeadlineBag, once for each oracle
    OracleRuntime <- ManagedOracle <- MCManagedOracle
    proofs: ByzQuorumProofs <- OutcomeGenerationSafety <- OutcomeGenerationAgreement,
            RoundSafety, PacemakerSafety, ReportAttestationSafety, TransmissionSafety,
            ManagedOracleSafety

An arrow points from a module to one that extends it. `OutcomeGeneration` and `Round` are
two views of one component: the first has epochs, votes and certificates and counts
observations, the second has the observations, queries, pools and buffers of one epoch and
counts votes. `OracleRuntime` has the goroutines of all four subprotocols, without what they
compute, and `ManagedOracle` composes it with what starts and stops it.

**ByzQuorum** (`src/internal/byzquorum`): the oracles, F, the faulty ones, and
`ByzQuorumSize`, (N+F)/2+1 with integer division. Its assumption is what
`checkPublicConfig` enforces (3F < N) and that at most F oracles are faulty.

A definition whose comment says "Mutant of" is the slip of the pen that a property must
notice; no specification uses it.

### OutcomeGeneration

One action per event: `EnterEpoch` (EventNewEpochStart with the EpochStartRequest it
sends), `SendEpochStart` (the leader finds a quorum of requests), `ReceiveEpochStart`
(with both branches: a committed certificate to start after, a prepared one to propose
again), `TRoundTimeout`, `SendObservation`, `StartGrace`, `TGraceTimeout`, `SendPrepare`
(the proposal is taken from the pool), `SendCommit` (a prepare quorum), `ReceiveCommits`
(a commit quorum, followed by the next round or the end of the epoch), `Restart`, and
`FaultyEpochStart` for a faulty leader. `Commit`, `StartFollowerRound` and
`StartLeaderRound` are the helpers of the same name that these call.

- *Messages.* A message, once sent, stays in a set; to be lost is never to be received, to
  be late or reordered is to be received when the receiver does something else. The pools
  are the received part: a handler that finds a quorum in its pool is an action enabled
  when the quorum has been sent. The proposal pool is kept, since it holds the first
  proposal only. Requests are consumed by the `SendEpochStart` that uses them.
- *Faulty oracles.* Every signature that the protocol may ask of a faulty oracle is there
  at any time. A faulty leader proposes anything it has the signed observations for.
- *Data.* An outcome is a member of `Value` together with the previous outcome as its
  input; observations are counted. A failing Observation of the plugin is a RoundStart
  that is not received. A proposal with observations signed for another sequence number
  is never accepted, which `observed` keeps.
- *Database.* `storedCert`; a write may fail (`MaxFailures`), whether what it wrote is
  stored or not, with what the code does then. After `Restart` the oracle has its stored
  certificate and no phase, and is in the epoch it was in, which is what the pacemaker
  restores when its writes succeed. FIFO links to
  itself and to others mean that requests from before are lost (`handled` marks the
  EpochStarts that cannot be received again).
- *Bounds.* `MaxEpoch`, `MaxSeqNr`, `MaxFailures`, `MaxRestarts`. `RMax` is the
  configuration's. The test of `RMax` is done on unsigned integers as in the code.

**OutcomeLog** is what the plugin interface promises
(`src/offchainreporting2plus/ocr3types/plugin.go`): a log in which sequence numbers are
decided one after the other, each once, and oracles that learn of decisions, skip some, and
forget. `OutcomeGeneration!Outcomes` maps the commit certificates that can be put together
to the log, `committedSeqNr` and `committedOutcome` to what was learned.

### Round

The rounds of one epoch, from `startSubsequentLeaderRound` to the commit. The actions are
`EventTRoundTimeout`, `MessageObservation`, `EventTGraceTimeout` of the leader,
`EventNewEpochStart` and `UnbufferMessage` (the loop of `unbufferMessages`, one message at a
time; nothing else happens to that oracle meanwhile), `Receive` and `Lose` of the next message
of the leader, `ReceiveFaulty` of any message of a faulty one, and `TryProcessCommitPool`.
`Process`, `TryProcessRoundStartPool`, `TryProcessProposalPool` and
`StartSubsequentFollowerRound` are the functions of those names, which call each other in the
code's order.

- *Data.* An observation is a record of its observer, the round and the query it was signed for,
  and whether the plugin finds it valid; honest oracles make valid ones. A signature verifies
  when round and query are those of the verifier. Outcomes are the inputs they are computed from.
- *Votes.* The prepare and commit phases are one step: an oracle commits what a quorum has
  prepared, and its certificate is written. `OutcomeGeneration` has their interleavings and
  failed writes.
- *Links.* An honest leader's messages reach each oracle in order or are lost
  (`MaxFaults`); so do streams of ragep2p and the loopback channel.
- *Failures.* A call of Query, Observation, or of ObservationQuorum or Outcome by a follower
  may fail (`MaxFaults`; `Calls` are those of a follower). After a failed Query the leader has
  given up its turn and starts no further round in the epoch; after a failed Observation a
  follower takes part in none; after a failed Outcome the proposal stays in the pool and is
  tried again only when another is pooled.
- **MessagePool** has the pools (`Put`, `ReapCompleted` with its count per sender) and the ring
  buffer for messages of later epochs (`Push` drops the oldest when full). The code's pools
  take three rounds and its buffers ten messages; here they are constants. The leader's votes
  take places in the code's buffer too; `BufferSize` is what they leave.

### Pacemaker

The variables are the fields of `pacemakerState`, the stored `PacemakerState`, the wishes
that are on the wire, the epoch that the same oracle's outcome generation is in and the
event it is blocked on. The actions are the handlers, plus `Lose` for a wish that can no
longer arrive and `OutcomeGenerationSends` for the other end of the channel. A crash
between `persist` and the broadcast after it needs no action of its own: the new process
broadcasts what is stored, which is `Restart` after the handler. `MaxEpoch` is both the
bound and the largest uint64, after which `e + 1` overflows and the code returns.

### ReportAttestation

For the oracles in `Watched` the whole state is kept: the map of rounds, the heights seen
from each sender, scheduled fetches, the loopback, the commits received. The others,
if honest, sign and answer requests; faulty ones send valid, invalid or no signatures,
certificates that verify (of outcomes that exist) or do not. Messages are never withdrawn.
The windows `ExpiryRounds` and `LookaheadRounds` are constants (the code computes 10 to 50
and 4 to 10 from the configuration): all the code does with them is subtract. A restart
forgets everything, as the code does, and commits arrive again from what the next epoch
starts from. Left out: a plugin whose `Reports` fails or returns an empty list that is
not nil.

### Scheduler and Transmission

**Scheduler** is the select loop of `../scheduler`: the heap, the timer (stopped, running for a
deadline, or fired and not received), and the pending item that is offered. `Rearms` is the
condition on which an item that comes in sets the timer anew. That `container/heap` keeps the
minimum on top is the library's; items with equal deadlines come out in any order.
**DeadlineBag** is what it promises: items wait, each is handed out once and none before its
deadline. **Transmission** is the event loop on top: `EventAttestedReport` and `Scheduled` take
from the two channels and call the plugin, `ShouldAccept`, `ShouldNotAccept`, `Transmit` and
`CallFails` are the ways the calls end, during which the loop takes nothing and the clock
runs. Transmit can fail with or without having reached the contract. `Restart` loses the
heap. `Orders` are the permutations that keys give, in the order of which `S` cuts the stages.
`MaxTime` ends the clock, `MaxFaults` bounds failed calls and ended processes together.

### OracleRuntime and ManagedOracle

**OracleRuntime** is `RunOracle`. A goroutine is in its select, blocked on a send, in a call, or
has ended; a step is the meeting of two ends of a channel, with as much of the handler as runs
until the next send. The oracle's loop is at its select, has a message for one of three
children, or winds down. `ahead` is how many rounds one handler of outcome generation may still
go through because their messages are in its pools, or in the buffers that it empties at the
start of an epoch (at most `MaxAhead`): each with a send to report attestation and one to the
pacemaker, the former alone for what an EpochStart commits. Report attestation sends one event
for each report of a round. `ChildDone` is the children's context, which is not derived from the
oracle's but cancelled by its loop: the comment in `oracle.go:114-117` says that all sends are
in selects with the context, the sends to the children (`message.go:118` and others) are not,
and this is what makes it harmless (`ManagedOracleSafety!SendsAreReceived`). The mutant
`ChildDoneWithParent` derives it, and the loop can be left blocked on a child that has ended.

**ManagedOracle** adds `runWithContractConfig` (`rwcc`), `TrackConfig` (`tracker`) with the
buffered channel between them, the database, the contract and the function that makes an
oracle (`fn`). Reading the digest and reading the configuration are two steps between which
the contract may change; a read never returns an older configuration than one before it.
`missed` notes that `fn` returned without running an oracle. A
crash ends all goroutines and keeps the database. Bounds: `MaxConfig`, `MaxCrashes`;
`BufferSize` is 5 in the code.

## Runs

Bounds are in the `.cfg` files; action constraints, in the MC modules, bound what the
environment does or leave out orders that make no difference.

| Run | Question | Instance | States |
|---|---|---|---|
| `outgen_rounds` | outcomes are computed from decided ones; `OutcomeLog` is implemented; an EpochStart is above all that was committed before; no leader's timer in another's epoch | 3 oracles of which 2 run each epoch, 2 epochs of 2 rounds, 2 sequence numbers, a restart; re-proposals across epochs | 324k |
| `outgen_faulty` | agreement, one prepared outcome per epoch, with F = 1 and a faulty leader of epoch 1 | 4 oracles, 2 epochs, a failed write, stored or not | 395k |
| `outgen_three` | finding: agreement over three epochs | 3 oracles, 3 epochs run by different pairs | violation |
| `round` | outcomes rest on what honest oracles observed; inputs agree; honest proposals are accepted; late oracles start; rounds complete | 4 oracles, one faulty that leads or not, 2 rounds, pools of 1, buffers of 3, a lost message or a handler with failing calls | 133k |
| `round_invalid` | finding: Outcome is called with invalid observations | as above, honest leader, no failure | violation |
| `pace_restarts` | moves are backed, wishes due and remembered, no way back, no untimed epoch | 4 oracles, one faulty, 3 epochs, a restart, the channels to one outcome generation | 288k |
| `pace_live` | one oracle's move brings everybody; stalled epochs end | 4 oracles, one faulty, 2 epochs, lost wishes, a failed write | 20k |
| `repatt_rounds` | attested once, completed when possible, no far rounds | 4 oracles, one faulty, one watched; 2 sequence numbers, the first expires with the second; a restart | 691k |
| `repatt_fetch` | an oracle that missed the outcome gets it | 4 oracles, one faulty, one watched; one of 2 sequence numbers makes reports; faulty oracles need not answer | 173k |
| `repatt_panic` | finding: a round that is gone | 2 sequence numbers | violation |
| `transmission` | stages; the scheduler is a bag with deadlines; accepted reports are tried and reach the contract | 2 oracles in 2 stages, 2 reports, both orders, time 0..1, a failed call or ended process | 37k |
| `managed` | one oracle at a time, configurations in order, nobody waits for ever, the newest configuration is run, everything shuts down | 2 configurations, a crash, 2 rounds ahead, a channel of 1, stop at any moment | 72k |

Why the instances are large enough. Two epochs are where a certificate is carried over, and
three are where two certificates of different epochs compete (`outgen_three` shows what
they bring up). Quorums of two of three oracles with F = 0 intersect in one oracle, as
those of three of four with F = 1 do in one honest oracle; the small ones leave more
interleavings within reach, and `outgen_faulty` is there for the faulty leader. Three
pacemaker epochs are what a wish that skips one, and an oracle that lags by one while another
leads by one, take. Two rounds and an expiry of 0 are what the reopening of a dropped round takes.
Two rounds with a pool of one make a follower drop a message, and a buffer of three holds the
start of an epoch and one round. Two reports of one oracle are what its timer races take, and two
stages are what one oracle stepping in for another takes. Two configurations make one
replace another that is restored, starting, running or in the channel.

The action constraint of `managed` leaves out crashes of a process that has stored nothing, which
return to the start; none of the constraints disables an action for which fairness is assumed
so that the rest of a behaviour depends on it.

Deadlock is not checked: the instances end when their bounds are used up.

*Properties over histories.* `Agreement` and `OnePreparedPerEpoch` speak of certificates
that could be put together from the votes sent, whether or not anybody has, since a faulty oracle
may do so at any time. `EpochStartsAboveCommits` is the reason for agreement that
holds also where agreement does not; `NoAssumptionViolation` is the "assumption violation"
that `commit` logs.

*Fairness.* `Pacemaker!NetworkFairness`: the resend timer fires, and a wish that is sent again
and again arrives (strong fairness of its receipt); wishes for the first epoch need not.
`StalledEpochsEnd` has the absence of progress and the fairness of the progress timer as its
hypothesis: with progress, the timer is set again and need never fire.
`ReportAttestation!Fairness`: each message of an honest oracle arrives, honest oracles answer
requests about rounds that are never dropped (`Kept`; of the others they need not,
`report_attestation.go:174`), scheduled fetches fire. The code does not send signatures or
answers again, so that is what its liveness takes; a process that restarts or loses them relies
on the others, and `repatt_fetch` has no restart. `Round!Fairness`: timers fire, links deliver
what they do not lose, handlers run and their calls succeed; that some message is lost or a call
fails is an alternative in `RoundsComplete`. `Transmission!Fairness`: the clock runs, plugin
calls and Transmit return (the latter has a timeout), and an item that the scheduler offers
again and again is taken, for the select of the event loop chooses at random (strong fairness,
since the loop is often in a call). `ManagedOracle!FairSpec`: what a goroutine can do alone it
does; the meeting of two goroutines that is possible again and again happens (strong fairness),
since Go's select chooses among the ready channels at random and blocked senders queue; a round
has finitely many reports (`EventLastAttestedReport`); calls to the chain succeed in the end.
Nothing is asked of the network, of timers, or of the scheduler's items there: `NoCyclicWait`
needs none of them. All actions are handlers of event loops that return to their select.

Every property of a passing run is violated once some mapped definition is replaced by its
mutant (`PROJECT.json`, "mutants").

## Findings

1. `outgen_three` (`signed_data.go:264`). The timestamp of a certificate leaves out its
   epoch. Of two prepare certificates for one sequence number, prepared in different epochs,
   the leader of a third may propose the older again although the newer was committed. It
   needs three epochs and oracles that are cut off in turn, and no faulty oracle. The
   promise of `ocr3types/plugin.go` of a unique outcome per sequence number does not
   survive it.
2. `round_invalid` (`outcome_generation_follower.go:380`, `outcome_generation_leader.go:303`).
   Both places log that they drop an invalid observation, or the proposal with it, and go on:
   the return is missing. Outcome is called with observations that ValidateObservation has
   rejected, which `ocr3types/plugin.go:205` rules out. `HonestProposalsAreAccepted` shows
   that the follower's return alone would be worse: an honest leader's proposals would be
   refused, and a faulty observer could end its epoch.
3. `repatt_panic` (`report_attestation.go:163`). A fetch that fires after its round was
   dropped from the map dereferences nil.

Behaviours of the models that are known and have no run of their own:

- With F = 1, a faulty leader and one other oracle that is restarted, `Agreement` fails in two
  epochs already: votes to prepare are not written, so that an oracle restarted in its epoch
  votes again. With two failed writes of certificates it fails too, and with one if the
  leader of the second epoch is faulty:
  `persistCert` (`outcome_generation_follower.go:732`) logs that the round cannot safely
  continue and `commit` returns, but `tryProcessCommitPool` starts a round all the same,
  which is for the same sequence number again; after a re-proposal, which does not go
  through the proposal pool, the oracle may vote for another outcome there. In
  `outgen_faulty` the faulty oracle leads the first epoch only. `EpochStartsAboveCommits` holds
  with one restart and fails with restarts of two oracles, or with one and a faulty leader.
  The theorems draw the line: F is shared by the faulty oracles, the restarts and the failed
  writes (`Tolerated`).
- `NoAssumptionViolation` fails when a faulty oracle that led an earlier epoch hands an
  oracle that is late a certificate of a later epoch: the next EpochStart may lie below it.
  The oracle logs the violation and goes on from where it is, and nothing else follows.
- A write of the pacemaker that fails is logged and the wish broadcast all the same; after a
  restart the wish is lower than what was broadcast, and with F = 1, a faulty oracle and one
  such oracle `EpochsAreBacked` fails. The theorems say how much must come together.
- The comment of `oracle.go:114-117` on channel sends, see OracleRuntime above.
- An oracle whose plugin or endpoint cannot be made is not started again until the next
  configuration or process (`missed` in `NewestConfigRuns`).
- A leader whose Query fails starts no further round in its epoch.

## Proofs

Checked by TLAPS for every set of oracles, F, faulty oracles, number of epochs and of
sequence numbers, sizes of pools, buffers and channels, schedules, and number of failures, from
the named assumptions of the modules and what the last column names. Every safety invariant,
action property and refinement that a run checks is the subject of a theorem.

| Theorem | Says | Besides the modules' assumptions |
|---|---|---|
| `ByzQuorumProofs!QuorumsShareHonestOracle` | two quorums share an honest oracle | |
| `OutcomeGenerationSafety!TypeCorrect` | `TypeOK` | |
| `OutcomeGenerationSafety!CommitsRemembered` | `EpochStartsAboveCommits` | `Tolerated`: faulty oracles, restarts and failed writes are together at most F |
| `OutcomeGenerationAgreement!RoundsAreTheLeaders` | `OnlyLeaderStartsRounds` | |
| `OutcomeGenerationAgreement!PreviousOutcomesDecided` | `PreviousOutcomeIsDecided` | |
| `OutcomeGenerationAgreement!PreparedOncePerEpoch` | `OnePreparedPerEpoch` | `Tolerated` |
| `OutcomeGenerationAgreement!DisagreementNeedsOlderPrepare` | if two outcomes of one sequence number are decided, the one decided later had been prepared before the epoch that decided the other | `Tolerated` |
| `OutcomeGenerationAgreement!AgreementOfTwoEpochs` | `Agreement` | `Tolerated`, and two epochs (finding 1 is about three) |
| `OutcomeGenerationAgreement!AgreedLog` | a behaviour in which `Agreement` holds implements `OutcomeLog` | |
| `OutcomeGenerationAgreement!ImplementsOutcomeLog` | `OutcomeLogSpec` | those of `AgreementOfTwoEpochs` |
| `OutcomeGenerationAgreement!AssumptionHolds` | `NoAssumptionViolation` | no faulty oracle; at most F restarts and failed writes |
| `RoundSafety!TypeCorrect`, `OutcomesRestOnHonest`, `CommittedInputs`, `HonestProposalsPass`, `LateFollowersDoStart` | `TypeOK`, `OutcomesRestOnHonestObservations`, `CommittedInputsAgree`, `HonestProposalsAreAccepted`, `LateFollowersStart` | |
| `RoundSafety!NearMessages` | `NearMessagesAreKept` | |
| `PacemakerSafety!TypeCorrect` | `TypeOK` | |
| `PacemakerSafety!TimedEpochs` | `EpochsAreTimed`, for any number of restarts and failed writes | |
| `PacemakerSafety!DueWishes` | `WishesAreDue`, for any number of restarts and failed writes | |
| `PacemakerSafety!BackedEpochs` | `EpochsAreBacked` | `EnoughRemember`: faulty oracles and failed writes are together at most F, or nobody was restarted |
| `PacemakerSafety!RememberedWishes`, `NoWayBack` | `WishesAreRemembered`, `EpochsNeverGoBack` | `NothingForgotten`: no write failed, or nobody was restarted |
| `ReportAttestationSafety!TypeCorrect` | `TypeOK` | |
| `ReportAttestationSafety!NoSecondAttestation`, `CompletionIsDue`, `NoFarRounds` | `AttestedOnce`, `CompletesWhenPossible`, `RoundsAreNear`, for any number of restarts | |
| `TransmissionSafety!TypeCorrect`, `TimersAreRight` | `TypeOK`, `TimerIsForEarliest` | |
| `TransmissionSafety!StagesFollowSchedule` | `StagesAreSchedule`, for any schedule | |
| `TransmissionSafety!ImplementsBag` | `SchedulerSpec`: every scheduler implements `DeadlineBag`, for any number of items and restarts | |
| `ManagedOracleSafety!TypeCorrect`, `OneOracle`, `ConfigsRunInOrder` | `TypeOK`, `OneOracleAtATime`, `ConfigsInOrder`, for any number of configurations and crashes | |
| `ManagedOracleSafety!SendsAreReceived` | the oracle's loop never waits to send to a subprotocol that has ended | |

*Outcome generation.* The invariant `Handshake` is about oracles that have "no vote left":
those past epoch e that did not vote to commit s in it. When enough honest ones have none, s
is `Blocked` in e: with the faulty ones' help it can still not be committed. An EpochStart
says of all sequence numbers above its certificate that they are blocked in all earlier
epochs (`EpochStartsBlock`): its quorum of requests came from oracles that had left those
epochs, and each request covers what its sender voted for (`RequestsCoverVotes`). The hard
part is that a certificate can go down, when its owner takes part in a re-proposal; then
what it no longer covers is blocked by the EpochStart of that re-proposal
(`CertCoversVotes`). The other three conjuncts keep votes and EpochStarts to the epoch an
oracle is in. None of the parts is inductive alone. Quorum intersection turns
`EpochStartsBlock` into the property.

A restarted oracle has committed nothing that it knows of, and may take a lower certificate
or vote twice in an epoch; a write that fails leaves an oracle that goes on without having
noted its certificate. The invariant is therefore about a set H of honest oracles to which
neither has happened (`SteadyNext`), and says nothing of the others, which are treated like
faulty ones: they may have voted for anything. A restart or a failed write takes one oracle
out of H (`SteadyRemain`), `Handshake` of H is `Handshake` of a subset
(`HandshakeOfFewer`), and what an oracle outside H does changes what H is about as little
as a message of a faulty one (`OutsideStep`, `FaultyStep`). `HandshakeOfMost` says that
there is an H that leaves out no more oracles than there were such events. As long as the
faulty oracles and those left out are at most F (`Tolerated`), two quorums still meet in H.
The theorems say `Tolerated => ...` of each state and do not bound the events of a behaviour.

*Agreement* is in `OutcomeGenerationAgreement`, on top of `Handshake`. `PrepareVotes`: a
vote is for the epoch and the sequence number its oracle is at, which then leaves the phases
before the vote behind (`PreparesInOrder`), so it votes once (`PreparesOnce`), and two
prepare quorums of one epoch share the vote of an honest oracle. `Decisions` adds that
EpochStarts carry verified certificates (`CertificatesVerify`), that new outcomes are
computed above them only (`StartedAbove`), and the statement the rest is for,
`PreparesRestOnEarlier`: if s can still be committed in e, then all that is voted for at s
in later epochs had been prepared in e or before. Its step is `EpochStartsBlock`: the
certificate of a later EpochStart is at s or above. All are about H, as above. "Or before"
is finding 1, and with e the first epoch there is no before: `DisagreementNeedsOlderPrepare`
is thus as much as holds for any number of epochs, and `AgreementOfTwoEpochs` follows from
it.

`WorksFromDecided` needs none of this and holds with faults, failed writes and restarts: an
oracle's `committedSeqNr` and `committedOutcome` are those of one commit certificate
(`CommittedIsDecided`), they do not move within a round (`RoundFollowsCommit`), and what is
voted for follows a decision (`Gapless`). That a leader's own commit cannot overtake its
follower's round takes `LeaderAwaitsItself` and `EpochStartsReached`. With it each step is a
step of `OutcomeLog` or a stutter, if `Agreement` holds before and after it (`LogStep`),
which makes the log a function. `CommitsForward`, for `AssumptionHolds`: certificates are
reported and sent to epochs after their own (`CertificatesTravelForward`), and an oracle
that waits for an EpochStart has committed in earlier epochs only (`CommittedEarlier`);
`EpochStartsAboveCommits` does the rest. The first must also hold of what is stored, for the
oracle that is restarted; and a leader that was restarted in its own epoch may commit, from
the EpochStart it sends, what that epoch had decided before, and wait for that message with
nothing newer committed than it says (`AwaitsOwn`).

*Rounds.* `RoundSafety!IInv` has the leader, the followers, and the links between them. What an
honest leader broadcasts has a rank, its place in the epoch (`BroadcastInOrder`); it is at most
a round ahead of its own follower (`LeaderPace`), collects observations for the query it sent
(`LeaderObservations`) and proposes what every follower accepts (`ProposalsInv`). `FollowersInv`
is about one follower and what the leader may have sent: its pools count what they hold
(`FollowerShape`), its query was asked (`QueryAsked`), it prepared one set of inputs for each
round, that passed the checks and was proposed (`PreparedInv`). That an honest leader's proposal
for its round is acceptable follows from these at every moment, whether a call of the plugin
fails or not. `CommitsPrepared` is the quorum behind a commit. `LinksInOrder` orders pools and
buffers by rank, and `EpochStartsKept` has the EpochStart at the front of the buffer; both are
what the properties of pools and buffers need. Every step is one of four for each follower
(`FollowerStep`), so that each conjunct is proved for the four and not for each handler.

*Pacemaker.* Three invariants. `EpochsAreTimed` is its own: the timer is armed wherever an
epoch starts, and each action that disarms it raises the wish above the epoch. `AllDue` says
of every number that a pacemaker holds, has written, has sent or has heard of an honest
oracle that it is due (`Due`: some honest oracle gave up the epoch before or a later one);
what is due stays so, so that nothing depends on the order of events, on restarts or on the
database. The rest is about memory. `MemoryInv` has two sets of honest oracles: R, whose
memory agrees with the database, so that a restart changes nothing, and K, which have not
forgotten anything so far. A failed write takes the oracle out of R, and a restart out of K
if it was not in R. What was sent or heard of an oracle in K is at most what it wishes for,
and the epoch of every oracle, and the one in its database, is `Supported`: more than 2F
oracles are faulty, outside K, or wish for it, which a move establishes and no later step
undoes. When no more than F are faulty or outside K, more than F honest ones wish for it.

*Report attestation.* `AttestationInv` says that what is noted of honest oracles' signatures
was signed (`SignedInv`) and makes five statements about each round of each watched oracle.
`ClosedOnce`: what was attested is either complete in the map or beyond expiry, and stays
so, since the highest attested sequence number never goes down within a process.
`PendingRound`: own signatures under way belong to a round that is present, certified and
does not have them, or has expired. `StoredSignatures`: signatures that are stored were
noted in the heights of their senders, and the own ones come after the certificate.
`Completes` is the property for one round. It is not inductive alone: when the own
signatures arrive and are dropped for lookahead, the heights tell that too few others are
stored. `Near` comes from the (F+1)-th largest height being one that an honest oracle has
reached.

*Transmission.* `IInv` is the same five statements about every oracle. `TimerFor` is
`TimerIsForEarliest` for one; it needs `HasEarliest`, since an empty set of earliest items
would make it say nothing. `OfferedIsDue` is what lets a `Scheduled` step be a `HandOut` of
the bag: the pending item was popped after a timer that fired for an item at least as late,
and is no longer in the heap. `TakenOnce` lets an accepted report be a `Schedule`: it is not
held yet, because report attestation sends each report once. A step of one oracle leaves the
others' parts alone (`StepOfOne`). `StagesAreSchedule` is about a recursive sum and an
arbitrary schedule, and needs induction over the stages; in its place stand least
counterexamples (`Least`). The sums never decrease, so that stages do not overlap, and an
injective order of N oracles takes all N places, so that a stage has as many as places.

*Managed oracle.* `ManagedOracleSafety!IInv` is `ChildrenInv`, the subprotocols run while
the oracle's loop does and their context is not cancelled before it winds down, and four
statements about configurations: what is in the channel is in order and newer than what is
run or restored (`ChannelInv`), what the tracker reads and sends is newer still
(`TrackedInv`), it starts after the restoring (`TrackerInv`), and a switch is to what was
received (`SwitchInv`). A crash starts all over. That one function alone starts an oracle,
and waits for the one before, is the rest of `OneOracle`.

## What is only model-checked, what is not modelled

Only checked by TLC: all liveness (fairness and `ENABLED` are out of the prover's reach), which
is `EpochsSpread`, `StalledEpochsEnd`, `AttestationsSpread`, `AcceptedReportsAreTried`,
`ReportsReachContract`, `RoundsComplete`, `NoCyclicWait`, `NewestConfigRuns` and `ShutsDown`;
and what the hypotheses of the theorems leave out: agreement and one prepared outcome per epoch
with a faulty oracle and a failed write (`outgen_faulty`, one instance with F = 1: they are
false in others), `EpochStartsAboveCommits`, `NoAssumptionViolation` and the log with a restart
of an honest oracle and F = 0 (`outgen_rounds`; the first is false with more). Where a
pacemaker's wish is forgotten by more than its theorems allow, the properties are false.
Agreement of three epochs is false (finding 1). Induction with the library's theorems is out of
the prover's reach; the one proof that needs it goes by least counterexamples. No model has a
RECURSIVE operator.

Not modelled: the components that `PROJECT.json` lists as such, with the reason for each.
`Leader` and `permutation.Permutation` are arbitrary functions. Cryptography is ideal:
signatures cannot be forged, digests do not collide. The observer index N, which the bound check
of `outcome_generation_follower.go:337` lets through, is no oracle in the models. A buffer with
messages of more than one later epoch is not modelled, nor are the plugin's `Reports` failing,
telemetry, metrics, and the collection of garbage from the database. Further:

- `OutcomeGeneration` and `Round` have sequence numbers from 1. An observation for sequence
  number 0, which a faulty oracle may send to a leader that has yet to receive its own
  EpochStart (`outcome_generation_leader.go:258`), is left out; honest oracles make none.
- A restart in `OutcomeGeneration` is in the epoch the oracle was in. An oracle whose
  pacemaker's state was not written comes back in an earlier one. `Pacemaker` has that, and
  what it means for votes has to wait for the composition of the two.
- A failed write of a certificate is in `OutcomeGeneration` only. In `Round` it would let the
  same round start again at one oracle.
- The pacemaker's failed writes leave what was stored: one that reports an error but is
  stored is, for the pacemaker, one that succeeded, since the error is logged and no more.
- The reads of the contract do not go back (`ManagedOracle!LatestConfigDetails`), as they may
  with nodes of which some lag or when a chain is reorganised; `track_config.go` has no
  check of its own against it.

Of the repository's 200 000 lines of Go, four fifths are wrappers of contracts generated by a
tool (`src/gethwrappers*`), most of the rest belongs to OCR1, OCR2, ragep2p, protobuf
code and tests' helpers; OCR3's protocol directory has about 4 500. The models cover that
directory and what runs it; no share of the whole repository is meaningful.

## Plan

Done: the quorums; outcome generation with its abstract log; its rounds with observations, pools
and buffers; the pacemaker; report attestation; the scheduler with its abstract bag, and
transmission on top of it; the oracle's runtime and the managed oracle; a theorem for every
safety invariant, action property and refinement of the runs.

Theorems to come: that two restarts or failed writes of one oracle count once, which the
invariants give but `Tolerated`, with its counters, does not say.

Models to come: the composition of Pacemaker and OutcomeGeneration, in which the moves of the
former replace the free choice of epochs in the latter, from stalled epochs to committed
outcomes; ragep2p's streams (reconnection, rate limits, bounded buffers), which would give
the links of Round and the lost messages elsewhere; OCR2's pacemaker and report
generation.

---------------------------- MODULE OracleRuntime ----------------------------
(***************************************************************************)
(* RunOracle: the goroutines of one OCR3 oracle, the unbuffered channels   *)
(* between them, and their shutdown.  A goroutine is in its select, blocked *)
(* on a send, in a call to the plugin or the contract, or has ended.       *)
(*                                                                         *)
(* The loop of the oracle hands each message from the network to one of    *)
(* three subprotocols, with a send that is in no select.  The other sends  *)
(* are in selects with the context of the four children.                   *)
(***************************************************************************)
EXTENDS Naturals

CONSTANT
    MaxAhead    \* bound: how many rounds the messages in the pools and the
                \* buffers of outcome generation let one handler go through

ASSUME OracleRuntimeAssumption == MaxAhead \in Nat \ {0}

VARIABLES
    ctx, childCtx,  \* whether the contexts are cancelled
    oracle, pacemaker, outgen, repatt, transmission,
    \* notifyOutcomeGenerationOfNewEpoch
    notify,
    \* the rounds that the handler of outcome generation has yet to go through,
    \* their messages being in the pools and the buffers
    ahead

children == <<pacemaker, outgen, repatt, transmission>>
runtimeVars == <<ctx, childCtx, oracle, children, notify, ahead>>

Child == {"pacemaker", "outgen", "repatt"}

RuntimeTypeOK ==
    /\ ctx \in BOOLEAN
    /\ childCtx \in BOOLEAN
    /\ oracle \in {"ended", "restoring", "receiving", "windingDown"} \cup Child
    /\ pacemaker \in {"ended", "select"}
    /\ outgen \in {"ended", "select", "committing", "asking"}
    /\ repatt \in {"ended", "select", "attesting"}
    /\ transmission \in {"ended", "select", "calling"}
    /\ notify \in BOOLEAN
    /\ ahead \in 0..MaxAhead
    /\ ahead > 0 => outgen \in {"committing", "asking"}

ChildrenEnded ==
    /\ pacemaker = "ended"
    /\ outgen = "ended"
    /\ repatt = "ended"
    /\ transmission = "ended"

AllChildren(state) ==
    /\ pacemaker' = state
    /\ outgen' = state
    /\ repatt' = state
    /\ transmission' = state
-----------------------------------------------------------------------------
\* No oracle runs.
RuntimeInit ==
    /\ ctx = TRUE
    /\ childCtx = TRUE
    /\ oracle = "ended"
    /\ ChildrenEnded
    /\ notify = FALSE
    /\ ahead = 0

\* The process ends, and all of its goroutines.
RuntimeCrash ==
    /\ ctx' = TRUE
    /\ childCtx' = TRUE
    /\ oracle' = "ended"
    /\ AllChildren("ended")
    /\ notify' = FALSE
    /\ ahead' = 0

\* restoreFromDatabase, retried until it succeeds; then the children start.
Restore ==
    /\ oracle = "restoring"
    /\ oracle' = "receiving"
    /\ AllChildren("select")
    /\ childCtx' = FALSE
    /\ notify' = TRUE
    /\ UNCHANGED <<ctx, ahead>>

\* ... or until the context is cancelled.
RestoreCancelled ==
    /\ oracle = "restoring"
    /\ ctx
    /\ oracle' = "ended"
    /\ UNCHANGED <<ctx, childCtx, children, notify, ahead>>

\* A message arrives that is for child c.  The select may prefer it to the
\* cancelled context.
Receive(c) ==
    /\ oracle = "receiving"
    /\ oracle' = c
    /\ UNCHANGED <<ctx, childCtx, children, notify, ahead>>

\* The oracle's loop goes on, unless its context is cancelled.
NextIteration ==
    /\ oracle' = IF ctx THEN "windingDown" ELSE "receiving"
    /\ childCtx' = ctx

WindDown ==
    /\ oracle = "receiving"
    /\ ctx
    /\ NextIteration
    /\ UNCHANGED <<ctx, children, notify, ahead>>

\* Mutant of Exit: the children are not waited for.
ExitAtOnce ==
    /\ oracle = "windingDown"
    /\ oracle' = "ended"
    /\ UNCHANGED <<ctx, childCtx, children, notify, ahead>>

\* o.subprocesses.Wait()
Exit ==
    /\ oracle = "windingDown"
    /\ ChildrenEnded
    /\ oracle' = "ended"
    /\ UNCHANGED <<ctx, childCtx, children, notify, ahead>>
-----------------------------------------------------------------------------
\* Mutant of ChildDone: the children's context is derived from the oracle's.
ChildDoneWithParent == ctx

\* The Done channel of the children's context, in the select of a child or in that
\* of the send it is blocked on.
ChildDone == childCtx

\* Where a handler leaves its goroutine ("ensure prompt exit").
Idle == IF ChildDone THEN "ended" ELSE "select"

\* A handler of outcome generation runs: it commits one or more rounds, as far as
\* the messages in the pools reach and those that it unbuffers, or has an event for
\* the pacemaker only (the round was committed before), or does neither.
OutcomeGenerationHandles ==
    \/ /\ outgen' = Idle
       /\ ahead' = 0
    \/ /\ outgen' \in {"committing", "asking"}
       /\ ahead' \in 1..MaxAhead

\* A wish may bring the pacemaker to another epoch, with notify set again.
DispatchToPacemaker ==
    /\ oracle = "pacemaker"
    /\ pacemaker = "select"
    /\ NextIteration
    /\ notify' \in {notify, TRUE}
    /\ UNCHANGED <<ctx, children, ahead>>

DispatchToOutcomeGeneration ==
    /\ oracle = "outgen"
    /\ outgen = "select"
    /\ NextIteration
    /\ OutcomeGenerationHandles
    /\ UNCHANGED <<ctx, pacemaker, repatt, transmission, notify>>

DispatchToReportAttestation ==
    /\ oracle = "repatt"
    /\ repatt = "select"
    /\ NextIteration
    /\ repatt' \in {Idle, "attesting"}
    /\ UNCHANGED <<ctx, pacemaker, outgen, transmission, notify, ahead>>

\* EventNewEpochStart, offered in the pacemaker's select.
NotifyNewEpochStart ==
    /\ notify
    /\ pacemaker = "select"
    /\ outgen = "select"
    /\ notify' = FALSE
    /\ pacemaker' = Idle
    /\ OutcomeGenerationHandles
    /\ UNCHANGED <<ctx, childCtx, oracle, repatt, transmission>>

EventTInitialTimeout ==
    /\ outgen = "select"
    /\ outgen' = "asking"
    /\ UNCHANGED <<ctx, childCtx, oracle, pacemaker, repatt, transmission,
                   notify, ahead>>

\* The handler is done, or goes on with a round whose messages are there already.
StartSubsequentRound ==
    \/ /\ outgen' = Idle
       /\ ahead' = 0
    \/ /\ ahead > 1
       /\ outgen' \in {"committing", "asking"}
       /\ ahead' = ahead - 1

\* EventCommittedOutcome.  The commit of a round is followed by an event for the
\* pacemaker; that of a certificate from the start of an epoch is not.
EventCommittedOutcome ==
    /\ outgen = "committing"
    /\ repatt = "select"
    /\ repatt' \in {Idle, "attesting"}
    /\ \/ /\ outgen' = "asking"
          /\ UNCHANGED ahead
       \/ StartSubsequentRound
    /\ UNCHANGED <<ctx, childCtx, oracle, pacemaker, transmission, notify>>

\* Mutant of SendEventToPacemaker: the pacemaker hands over an epoch with a send
\* outside its select, and takes no event meanwhile.
SendEventToQuietPacemaker ==
    /\ outgen = "asking"
    /\ pacemaker = "select"
    /\ ~notify
    /\ pacemaker' = Idle
    /\ StartSubsequentRound
    /\ UNCHANGED <<ctx, childCtx, oracle, repatt, transmission, notify>>

\* EventProgress or EventNewEpochRequest.
SendEventToPacemaker ==
    /\ outgen = "asking"
    /\ pacemaker = "select"
    /\ pacemaker' = Idle
    /\ StartSubsequentRound
    /\ UNCHANGED <<ctx, childCtx, oracle, repatt, transmission, notify>>

\* EventAttestedReport, whose handler calls the plugin: one for each report of the
\* round.
EventAttestedReport ==
    /\ repatt = "attesting"
    /\ transmission = "select"
    /\ repatt' \in {Idle, "attesting"}
    /\ transmission' = "calling"
    /\ UNCHANGED <<ctx, childCtx, oracle, pacemaker, outgen, notify, ahead>>

EventLastAttestedReport == EventAttestedReport /\ repatt' # "attesting"

\* The scheduler hands out a report; the plugin and the contract are called.
Scheduled ==
    /\ transmission = "select"
    /\ transmission' = "calling"
    /\ UNCHANGED <<ctx, childCtx, oracle, pacemaker, outgen, repatt, notify,
                   ahead>>

\* A call returns: all of them have deadlines.
CallReturns ==
    /\ transmission = "calling"
    /\ transmission' = Idle
    /\ UNCHANGED <<ctx, childCtx, oracle, pacemaker, outgen, repatt, notify,
                   ahead>>

StopPacemaker ==
    /\ ChildDone
    /\ pacemaker = "select"
    /\ pacemaker' = "ended"
    /\ UNCHANGED <<ctx, childCtx, oracle, outgen, repatt, transmission, notify,
                   ahead>>

StopOutcomeGeneration ==
    /\ ChildDone
    /\ outgen # "ended"
    /\ outgen' = "ended"
    /\ ahead' = 0
    /\ UNCHANGED <<ctx, childCtx, oracle, pacemaker, repatt, transmission,
                   notify>>

StopReportAttestation ==
    /\ ChildDone
    /\ repatt # "ended"
    /\ repatt' = "ended"
    /\ UNCHANGED <<ctx, childCtx, oracle, pacemaker, outgen, transmission,
                   notify, ahead>>

StopTransmission ==
    /\ ChildDone
    /\ transmission = "select"
    /\ transmission' = "ended"
    /\ UNCHANGED <<ctx, childCtx, oracle, pacemaker, outgen, repatt, notify,
                   ahead>>

RuntimeNext ==
    \/ Restore
    \/ RestoreCancelled
    \/ \E c \in Child : Receive(c)
    \/ WindDown
    \/ Exit
    \/ DispatchToPacemaker
    \/ DispatchToOutcomeGeneration
    \/ DispatchToReportAttestation
    \/ NotifyNewEpochStart
    \/ EventTInitialTimeout
    \/ EventCommittedOutcome
    \/ SendEventToPacemaker
    \/ EventAttestedReport
    \/ Scheduled
    \/ CallReturns
    \/ StopPacemaker
    \/ StopOutcomeGeneration
    \/ StopReportAttestation
    \/ StopTransmission

=============================================================================

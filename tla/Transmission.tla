---------------------------- MODULE Transmission ----------------------------
(***************************************************************************)
(* OCR3 transmission: each oracle takes attested reports, waits for its    *)
(* stage of the transmission schedule, and transmits those that are not    *)
(* yet on the contract.  Everything an oracle has accepted is in memory,   *)
(* in the heap of its Scheduler.                                           *)
(*                                                                         *)
(* The reporting plugin accepts what is not on the contract, and transmits *)
(* what is not on the contract by then, or fails; Transmit ends in an error*)
(* with or without having reached the contract.                            *)
(***************************************************************************)
EXTENDS Scheduler, FiniteSets, Sequences

CONSTANTS
    S,              \* the numbers of oracles that transmit in each stage
    DeltaStage,     \* the duration of a stage
    Orders,         \* the orders of the oracles that keys of reports give
    MaxFaults       \* bound: how many processes end, and calls fail

Report == Item
N == Cardinality(Oracle)

ASSUME TransmissionAssumption ==
    /\ IsFiniteSet(Oracle)
    /\ S \in Seq(Nat)
    /\ DeltaStage \in Nat
    /\ MaxTime \in Nat
    /\ MaxFaults \in Nat
    /\ Orders \subseteq [Oracle -> 0..(N - 1)]
    /\ \A pi \in Orders, o, p \in Oracle : pi[o] = pi[p] => o = p

VARIABLES
    order,      \* permutation.Permutation for each report
    loop,       \* where the event loop of an oracle is
    current,    \* the report it handles
    taken,      \* now, when it took the attested report
    offered,    \* the reports that report attestation still has to send
    contract,   \* the reports on the contract
    processes,  \* history: how many processes of an oracle have ended
    faults

loopVars == <<loop, current, taken>>
vars == <<now, schedulerVars, order, loopVars, offered, contract, processes,
          faults>>

Loop == {"select", "accepting", "transmitting"}
NoReport == "none"

TypeOK ==
    /\ SchedulerTypeOK
    /\ order \in [Report -> Orders]
    /\ loop \in [Oracle -> Loop]
    /\ current \in [Oracle -> Report \cup {NoReport}]
    /\ taken \in [Oracle -> Time]
    /\ offered \in [Oracle -> SUBSET Report]
    /\ contract \in SUBSET Report
    /\ processes \in [Oracle -> 0..MaxFaults]
    /\ faults \in 0..MaxFaults
-----------------------------------------------------------------------------
\* How many oracles transmit in the first i stages.
Sum[i \in 0..Len(S)] == IF i = 0 THEN 0 ELSE Sum[i - 1] + S[i]

\* Mutant of Stages: the comparison includes the sum.
StagesInclusive(o, r) ==
    {i \in 1..Len(S) : Sum[i - 1] <= order[r][o] /\ order[r][o] <= Sum[i]}

\* Mutant of Stages: the last stage is not reached.
StagesButLast(o, r) ==
    {i \in 1..(Len(S) - 1) : Sum[i - 1] <= order[r][o] /\ order[r][o] < Sum[i]}

\* transmitDelay: the stage of an oracle for a report; none when the schedule is
\* too short to include it.
Stages(o, r) ==
    {i \in 1..Len(S) : Sum[i - 1] <= order[r][o] /\ order[r][o] < Sum[i]}

\* Mutant of Delay: the first stage waits.
DelayAll(i) == i * DeltaStage

Delay(i) == (i - 1) * DeltaStage

Select(o) ==
    /\ loop' = [loop EXCEPT ![o] = "select"]
    /\ current' = [current EXCEPT ![o] = NoReport]
    /\ UNCHANGED taken

Fail == faults < MaxFaults /\ faults' = faults + 1

Init ==
    /\ SchedulerInit
    /\ order \in [Report -> Orders]
    /\ loop = [o \in Oracle |-> "select"]
    /\ current = [o \in Oracle |-> NoReport]
    /\ taken = [o \in Oracle |-> 0]
    /\ offered = [o \in Oracle |-> Report]
    /\ contract = {}
    /\ processes = [o \in Oracle |-> 0]
    /\ faults = 0

\* case ev := <-chReportAttestationToTransmission: the time is read, then the
\* plugin is called.  (The bound on the clock leaves time for the delay.)
EventAttestedReport(o, r) ==
    /\ loop[o] = "select"
    /\ r \in offered[o]
    /\ now + (Len(S) - 1) * DeltaStage <= MaxTime
    /\ loop' = [loop EXCEPT ![o] = "accepting"]
    /\ current' = [current EXCEPT ![o] = r]
    /\ taken' = [taken EXCEPT ![o] = now]
    /\ offered' = [offered EXCEPT ![o] = @ \ {r}]
    /\ UNCHANGED <<now, schedulerVars, order, contract, processes, faults>>

\* The rest of eventAttestedReport, when ShouldAcceptAttestedReport returns.
ShouldAccept(o) ==
    /\ loop[o] = "accepting"
    /\ \E i \in Stages(o, current[o]) :
           ScheduleDeadline(o, current[o], taken[o] + Delay(i))
    /\ Select(o)
    /\ UNCHANGED <<now, order, offered, contract, processes, faults>>

\* It returns false, or the oracle is not in the schedule of the report.
ShouldNotAccept(o) ==
    /\ loop[o] = "accepting"
    /\ current[o] \in contract \/ Stages(o, current[o]) = {}
    /\ Select(o)
    /\ UNCHANGED <<now, schedulerVars, order, offered, contract, processes,
                   faults>>

\* case ev := <-t.scheduler.Scheduled()
Scheduled(o) ==
    /\ loop[o] = "select"
    /\ HandOut(o)
    /\ loop' = [loop EXCEPT ![o] = "transmitting"]
    /\ current' = [current EXCEPT ![o] = pendingItem[o].item]
    /\ UNCHANGED <<now, order, taken, offered, contract, processes, faults>>

\* The rest of scheduled, when the calls have returned: ShouldTransmit was false
\* or Transmit put the report on the contract.
Transmit(o) ==
    /\ loop[o] = "transmitting"
    /\ contract' = contract \cup {current[o]}
    /\ Select(o)
    /\ UNCHANGED <<now, schedulerVars, order, offered, processes, faults>>

\* A call of the plugin fails, or Transmit ends in an error or in its timeout,
\* whether or not the transaction is included in the end.  The report is dropped.
CallFails(o) ==
    /\ loop[o] # "select"
    /\ Fail
    /\ \/ contract' = contract
       \/ loop[o] = "transmitting" /\ contract' = contract \cup {current[o]}
    /\ Select(o)
    /\ UNCHANGED <<now, schedulerVars, order, offered, processes>>

\* The process ends and a new one starts: the scheduler's items are lost, and
\* report attestation does not attest again what it has sent.
Restart(o) ==
    /\ Fail
    /\ processes' = [processes EXCEPT ![o] = @ + 1]
    /\ Close(o)
    /\ Select(o)
    /\ UNCHANGED <<now, order, offered, contract>>

SchedulerStep(o) ==
    /\ TimerFires(o) \/ ReceiveTimer(o)
    /\ UNCHANGED <<now, order, loopVars, offered, contract, processes, faults>>

TimePasses ==
    /\ Tick
    /\ UNCHANGED <<order, loopVars, offered, contract, processes, faults>>

Next ==
    \/ TimePasses
    \/ \E o \in Oracle :
        \/ \E r \in Report : EventAttestedReport(o, r)
        \/ ShouldAccept(o)
        \/ ShouldNotAccept(o)
        \/ Scheduled(o)
        \/ Transmit(o)
        \/ CallFails(o)
        \/ Restart(o)
        \/ SchedulerStep(o)

Spec == Init /\ [][Next]_vars

\* The clock runs.  The scheduler's loop takes what its select offers; so does the
\* event loop, which chooses at random among what is ready, and its calls return:
\* those of the plugin by contract, Transmit after its timeout.
Fairness ==
    /\ WF_vars(TimePasses)
    /\ \A o \in Oracle :
        /\ WF_vars(SchedulerStep(o))
        /\ WF_vars(ShouldAccept(o) \/ ShouldNotAccept(o))
        /\ WF_vars(Transmit(o))
        /\ SF_vars(Scheduled(o))

FairSpec == Spec /\ Fairness
-----------------------------------------------------------------------------
\* The scheduler hands out each item once and none before its deadline, whatever
\* order the deadlines come in and however the timer races them.
Bag(o) == INSTANCE DeadlineBag
              WITH waiting <- Held(o), process <- processes[o]

SchedulerSpec ==
    /\ \A o \in Oracle : Bag(o)!Init
    /\ [][\A o \in Oracle : [Bag(o)!Next]_<<Held(o), now, processes[o]>>]_vars

\* A report that an oracle has accepted is handed out to be transmitted, though
\* Transmit may block the loop while deadlines pass, unless the process ends.
AcceptedReportsAreTried ==
    \A o \in Oracle, r \in Report :
        (\E x \in Held(o) : x.item = r) ~> (\A x \in Held(o) : x.item # r)

\* "in the first stage of transmission one oracle will attempt to transmit, in the
\* second stage two more" (public_config.go:60): the stages have S[i] oracles, each
\* in one stage.
StagesAreSchedule ==
    \A r \in Report :
        /\ \A i \in 1..Len(S) :
               Sum[i] <= N =>
                   Cardinality({o \in Oracle : i \in Stages(o, r)}) = S[i]
        /\ \A o \in Oracle : Cardinality(Stages(o, r)) <= 1

\* What is in memory only is lost in a restart, but every stage is tried: as long
\* as fewer processes and calls fail than oracles are scheduled, all of which take
\* the report, it reaches the contract.
ReportsReachContract ==
    \A r \in Report :
        (\A o \in Oracle : Stages(o, r) # {} => <>(r \notin offered[o]))
            => <>(r \in contract)
=============================================================================

-------------------------- MODULE TransmissionSafety --------------------------
(***************************************************************************)
(* Proofs about Transmission and Scheduler: the timer of each scheduler is *)
(* the one of its earliest item, the stages of transmission are those of   *)
(* the schedule, and the scheduler of each oracle implements DeadlineBag,  *)
(* for any number of oracles, items, stages and readings of the clock.     *)
(***************************************************************************)
EXTENDS Transmission, FiniteSetTheorems, TLAPS

\* The heap has a minimum when it is not empty and no item is offered.
HasEarliest(o) ==
    pendingItem[o] = NoItem /\ heap[o] # {} => Earliest(heap[o]) # {}

\* An item that is offered is due, and is no longer in the heap.
OfferedIsDue(o) ==
    pendingItem[o] # NoItem =>
        pendingItem[o].deadline <= now /\ pendingItem[o] \notin heap[o]

\* A report is offered by report attestation, or handled, or held, once.
TakenOnce(o) ==
    /\ \A x \in Held(o) : x.item \notin offered[o]
    /\ loop[o] # "select" => current[o] \in Report
    /\ loop[o] = "accepting" =>
           /\ current[o] \notin offered[o]
           /\ \A x \in Held(o) : x.item # current[o]
           /\ taken[o] + (Len(S) - 1) * DeltaStage <= MaxTime

FaultsCounted(o) == processes[o] <= faults

TimerFor(o) ==
    IF pendingItem[o] # NoItem \/ heap[o] = {}
    THEN timer[o] = Stopped
    ELSE \A x \in Earliest(heap[o]) :
             \/ timer[o] = x.deadline
             \/ timer[o] = Fired /\ x.deadline <= now

InvAt(o) ==
    /\ TimerFor(o)
    /\ HasEarliest(o)
    /\ OfferedIsDue(o)
    /\ TakenOnce(o)
    /\ FaultsCounted(o)

IInv == TypeOK /\ \A o \in Oracle : InvAt(o)

\* What an oracle's step leaves alone at another oracle.
Untouched(o) ==
    /\ <<heap[o], pendingItem[o], timer[o]>>' = <<heap[o], pendingItem[o], timer[o]>>
    /\ <<loop[o], current[o], taken[o]>>' = <<loop[o], current[o], taken[o]>>
    /\ <<offered[o], processes[o]>>' = <<offered[o], processes[o]>>

\* ... and of the state of an oracle's scheduler, if only its loop does something.
SchedulerUntouched(o) ==
    <<heap[o], pendingItem[o], timer[o]>>' = <<heap[o], pendingItem[o], timer[o]>>

\* The clock and the count of faults only go up.
Later == now' \in {now, now + 1} /\ faults' \in {faults, faults + 1}
-----------------------------------------------------------------------------
LEMMA SentinelsDiffer ==
    /\ NoItem \notin ItemWithDeadline
    /\ Stopped \notin Time /\ Fired \notin Time /\ Stopped # Fired
    /\ Time \subseteq Int
    /\ \A x \in ItemWithDeadline : x.item \in Item /\ x.deadline \in Time
  BY TransmissionAssumption DEF NoItem, ItemWithDeadline, Stopped, Fired, Time

LEMMA Init_Inv == Init => IInv
<1> SUFFICES ASSUME Init PROVE IInv
  OBVIOUS
<1>1. TypeOK
  BY TransmissionAssumption
     DEF Init, SchedulerInit, TypeOK, SchedulerTypeOK, Time, Loop, NoItem, NoReport,
         Stopped
<1>2. ASSUME NEW o \in Oracle PROVE InvAt(o)
  BY <1>2 DEF Init, SchedulerInit, InvAt, TimerFor, HasEarliest, OfferedIsDue,
             TakenOnce, FaultsCounted, Held
<1>3. QED
  BY <1>1, <1>2 DEF IInv

\* What holds of an oracle that takes no part in a step goes on to hold.
LEMMA UntouchedKeeps ==
    ASSUME TypeOK, NEW o \in Oracle, InvAt(o), Untouched(o), Later
    PROVE  InvAt(o)'
<1>0. now \in Int /\ now <= now' /\ now' \in Int
  BY TransmissionAssumption DEF TypeOK, SchedulerTypeOK, Time, Later
<1>1. /\ heap[o] \subseteq ItemWithDeadline
      /\ pendingItem[o] \in ItemWithDeadline \cup {NoItem}
  BY DEF TypeOK, SchedulerTypeOK
<1>2. \A x \in ItemWithDeadline : x.deadline \in Int
  BY SentinelsDiffer
<1>3. TimerFor(o)'
  BY <1>0, <1>1, <1>2 DEF InvAt, TimerFor, Untouched, Earliest
<1>4. OfferedIsDue(o)'
  BY <1>0, <1>1, <1>2, SentinelsDiffer DEF InvAt, OfferedIsDue, Untouched
<1>5. HasEarliest(o)' /\ TakenOnce(o)'
  BY DEF InvAt, HasEarliest, TakenOnce, Untouched, Held
<1>6. FaultsCounted(o)'
  BY TransmissionAssumption DEF InvAt, FaultsCounted, Untouched, TypeOK, Later
<1>7. QED
  BY <1>3, <1>4, <1>5, <1>6 DEF InvAt

\* ... and so does what holds of the scheduler of one whose loop does something.
LEMMA SchedulerKeeps ==
    ASSUME TypeOK, NEW o \in Oracle, InvAt(o), SchedulerUntouched(o), now' = now
    PROVE  TimerFor(o)' /\ HasEarliest(o)' /\ OfferedIsDue(o)'
  BY DEF InvAt, TimerFor, HasEarliest, OfferedIsDue, SchedulerUntouched, Earliest

\* An invariant of every oracle is kept by a step of one oracle if it is kept there.
LEMMA StepOfOne ==
    ASSUME IInv, NEW o \in Oracle, Later,
           \A p \in Oracle \ {o} : Untouched(p),
           TypeOK', InvAt(o)'
    PROVE  IInv'
<1>1. ASSUME NEW p \in Oracle, p # o PROVE InvAt(p)'
  BY <1>1, UntouchedKeeps DEF IInv
<1>2. QED
  BY <1>1 DEF IInv

\* The delay of a stage is at most that of the last.
LEMMA DelayBounded ==
    ASSUME NEW i \in 1..Len(S)
    PROVE  Delay(i) \in Nat /\ Delay(i) <= (Len(S) - 1) * DeltaStage
<1>1. Len(S) \in Nat /\ DeltaStage \in Nat
  BY TransmissionAssumption
<1>2. ASSUME NEW a \in Nat, NEW b \in Nat, NEW c \in Nat, a <= b
      PROVE  a * c \in Nat /\ a * c <= b * c
  BY <1>2
<1>3. i - 1 \in Nat /\ Len(S) - 1 \in Nat /\ i - 1 <= Len(S) - 1
  BY <1>1
<1>4. QED
  BY <1>1, <1>2, <1>3 DEF Delay
-----------------------------------------------------------------------------
LEMMA EventAttestedReport_Inv ==
    ASSUME IInv, NEW o \in Oracle, NEW r \in Report, EventAttestedReport(o, r)
    PROVE  IInv'
<1> USE DEF EventAttestedReport
<1>1. TypeOK'
  BY DEF IInv, TypeOK, SchedulerTypeOK, schedulerVars, Loop
<1>2. Later /\ \A p \in Oracle \ {o} : Untouched(p)
  BY DEF IInv, TypeOK, Later, Untouched, schedulerVars
<1>3. TimerFor(o)' /\ HasEarliest(o)' /\ OfferedIsDue(o)'
  BY SchedulerKeeps DEF IInv, SchedulerUntouched, schedulerVars
<1>4. TakenOnce(o)'
  BY DEF IInv, InvAt, TypeOK, TakenOnce, Held, schedulerVars
<1>5. FaultsCounted(o)'
  BY DEF IInv, InvAt, FaultsCounted
<1>6. QED
  BY <1>1, <1>2, <1>3, <1>4, <1>5, StepOfOne DEF InvAt

\* Steps that only end what the loop does.
LEMMA EndOfCall_Inv ==
    ASSUME IInv, NEW o \in Oracle, Select(o),
           UNCHANGED <<now, schedulerVars, order, offered, processes>>,
           contract' \in SUBSET Report, faults' \in {faults, faults + 1} \cap 0..MaxFaults
    PROVE  IInv'
<1> USE DEF Select
<1>1. TypeOK'
  BY DEF IInv, TypeOK, SchedulerTypeOK, schedulerVars, Loop
<1>2. Later /\ \A p \in Oracle \ {o} : Untouched(p)
  BY DEF IInv, TypeOK, Later, Untouched, schedulerVars
<1>3. TimerFor(o)' /\ HasEarliest(o)' /\ OfferedIsDue(o)'
  BY SchedulerKeeps DEF IInv, SchedulerUntouched, schedulerVars
<1>4. TakenOnce(o)'
  BY DEF IInv, InvAt, TypeOK, TakenOnce, Held, schedulerVars
<1>5. FaultsCounted(o)'
  BY TransmissionAssumption DEF IInv, InvAt, FaultsCounted, TypeOK
<1>6. QED
  BY <1>1, <1>2, <1>3, <1>4, <1>5, StepOfOne DEF InvAt

LEMMA ShouldNotAccept_Inv ==
    ASSUME IInv, NEW o \in Oracle, ShouldNotAccept(o)
    PROVE  IInv'
<1>1. contract' \in SUBSET Report /\ faults' \in {faults, faults + 1} \cap 0..MaxFaults
  BY DEF ShouldNotAccept, IInv, TypeOK
<1>2. QED
  BY <1>1, EndOfCall_Inv DEF ShouldNotAccept

LEMMA Transmit_Inv ==
    ASSUME IInv, NEW o \in Oracle, Transmit(o)
    PROVE  IInv'
<1>1. contract' \in SUBSET Report /\ faults' \in {faults, faults + 1} \cap 0..MaxFaults
  BY DEF Transmit, IInv, InvAt, TakenOnce, TypeOK
<1>2. QED
  BY <1>1, EndOfCall_Inv DEF Transmit

LEMMA CallFails_Inv ==
    ASSUME IInv, NEW o \in Oracle, CallFails(o)
    PROVE  IInv'
<1>1. contract' \in SUBSET Report
  BY DEF CallFails, IInv, InvAt, TakenOnce, TypeOK
<1>2. faults' \in {faults, faults + 1} \cap 0..MaxFaults
  BY TransmissionAssumption DEF CallFails, Fail, IInv, TypeOK
<1>3. QED
  BY <1>1, <1>2, EndOfCall_Inv DEF CallFails

\* An item that comes in leaves the timer with the earliest one.
LEMMA ScheduleKeepsTimer ==
    ASSUME TypeOK, NEW o \in Oracle, NEW item \in Item, NEW d \in Time,
           TimerFor(o), HasEarliest(o), ScheduleDeadline(o, item, d), now' = now
    PROVE  TimerFor(o)' /\ HasEarliest(o)'
<1> DEFINE new == [item |-> item, deadline |-> d]
<1>0. /\ heap'[o] = heap[o] \cup {new} /\ pendingItem' = pendingItem
      /\ timer'[o] = IF Rearms(o, d) THEN d ELSE timer[o]
      /\ new.deadline = d /\ new \in heap'[o] /\ d \in Int
  BY SentinelsDiffer DEF ScheduleDeadline, TypeOK, SchedulerTypeOK
<1>1. /\ heap[o] \subseteq ItemWithDeadline
      /\ \A x \in heap[o] : x.deadline \in Time /\ x.deadline \in Int
      /\ timer[o] \in Time \cup {Stopped, Fired}
  BY SentinelsDiffer DEF TypeOK, SchedulerTypeOK
<1>2. CASE pendingItem[o] # NoItem
  BY <1>0, <1>2 DEF TimerFor, HasEarliest, Rearms
<1>3. CASE pendingItem[o] = NoItem /\ heap[o] = {}
  <2>1. Earliest(heap'[o]) = {new}
    BY <1>0, <1>3 DEF Earliest
  <2>2. QED
    BY <1>0, <1>3, <2>1 DEF TimerFor, HasEarliest, Rearms
<1>4. CASE /\ pendingItem[o] = NoItem /\ heap[o] # {}
           /\ \A x \in heap[o] : d < x.deadline
  <2>1. Earliest(heap'[o]) = {new}
    <3>1. \A y \in heap'[o] : new.deadline <= y.deadline
      BY <1>0, <1>1, <1>4
    <3>2. ASSUME NEW x \in heap[o] PROVE ~ x.deadline <= new.deadline
      BY <1>0, <1>1, <1>4, <3>2
    <3>3. QED
      BY <1>0, <3>1, <3>2 DEF Earliest
  <2>2. PICK e \in Earliest(heap[o]) :
            timer[o] = e.deadline \/ (timer[o] = Fired /\ e.deadline <= now)
    BY <1>4 DEF TimerFor, HasEarliest
  <2>3. e \in heap[o]
    BY DEF Earliest
  <2>4. CASE timer[o] \in Time
    BY <1>0, <1>4, <2>1, <2>4 DEF TimerFor, HasEarliest, Rearms
  <2>5. CASE timer[o] = Fired /\ e.deadline <= now
    <3>1. d <= now /\ now \in Int
      BY <1>0, <1>1, <1>4, <2>3, <2>5, SentinelsDiffer DEF TypeOK, SchedulerTypeOK
    <3>2. timer'[o] = Fired
      BY <1>0, <1>4, <2>5, SentinelsDiffer DEF Rearms
    <3>3. QED
      BY <1>0, <1>4, <2>1, <3>1, <3>2 DEF TimerFor, HasEarliest
  <2>6. QED
    BY <1>1, <2>2, <2>3, <2>4, <2>5
<1>5. CASE /\ pendingItem[o] = NoItem /\ heap[o] # {}
           /\ ~ \A x \in heap[o] : d < x.deadline
  <2>1. PICK e : e \in Earliest(heap[o])
    BY <1>5 DEF HasEarliest
  <2>2. e \in heap[o] /\ e.deadline <= d
    BY <1>0, <1>1, <1>5, <2>1 DEF Earliest
  <2>3. e \in Earliest(heap'[o])
    BY <1>0, <1>1, <2>1, <2>2 DEF Earliest
  <2>4. timer'[o] = timer[o]
    BY <1>0, <1>5 DEF Rearms
  <2>5. ASSUME NEW x \in Earliest(heap'[o])
        PROVE  timer[o] = x.deadline \/ (timer[o] = Fired /\ x.deadline <= now)
    <3>1. x.deadline = e.deadline
      BY <1>0, <1>1, <2>2, <2>3, <2>5 DEF Earliest
    <3>2. QED
      BY <1>5, <2>1, <3>1 DEF TimerFor
  <2>6. QED
    BY <1>0, <1>5, <2>3, <2>4, <2>5 DEF TimerFor, HasEarliest
<1>6. QED
  BY <1>2, <1>3, <1>4, <1>5

\* What is scheduled is new, due within the bound of the clock, and the only change.
LEMMA ScheduledItem ==
    ASSUME IInv, NEW o \in Oracle, loop[o] = "accepting",
           NEW i \in Stages(o, current[o])
    PROVE  /\ current[o] \in Item
           /\ taken[o] + Delay(i) \in Time
           /\ \A x \in Held(o) : x.item # current[o]
<1>1. i \in 1..Len(S)
  BY DEF Stages
<1>2. Delay(i) \in Nat /\ Delay(i) <= (Len(S) - 1) * DeltaStage
  BY <1>1, DelayBounded
<1>3. taken[o] \in Nat /\ MaxTime \in Nat /\ Len(S) \in Nat /\ DeltaStage \in Nat
  BY TransmissionAssumption DEF IInv, TypeOK, Time
<1>4. (Len(S) - 1) * DeltaStage \in Int
  BY <1>3
<1>5. taken[o] + (Len(S) - 1) * DeltaStage <= MaxTime
  BY DEF IInv, InvAt, TakenOnce
<1>6. taken[o] + Delay(i) \in Time
  BY <1>2, <1>3, <1>4, <1>5 DEF Time
<1>7. QED
  BY <1>6 DEF IInv, InvAt, TakenOnce, Report

LEMMA ShouldAccept_Inv ==
    ASSUME IInv, NEW o \in Oracle, ShouldAccept(o)
    PROVE  IInv'
<1> DEFINE item == current[o]
<1>1. PICK i \in Stages(o, item) : ScheduleDeadline(o, item, taken[o] + Delay(i))
  BY DEF ShouldAccept
<1> DEFINE d == taken[o] + Delay(i)
<1> DEFINE new == [item |-> item, deadline |-> d]
<1>2. /\ item \in Item /\ d \in Time /\ \A x \in Held(o) : x.item # item
      /\ new \in ItemWithDeadline
  BY ScheduledItem DEF ShouldAccept, ItemWithDeadline
<1> HIDE DEF d
<1>3. /\ heap' = [heap EXCEPT ![o] = @ \cup {new}]
      /\ pendingItem' = pendingItem
      /\ timer' \in {timer, [timer EXCEPT ![o] = d]}
  BY <1>1 DEF ScheduleDeadline, d
<1>4. TypeOK'
  <2>1. SchedulerTypeOK'
    BY <1>2, <1>3 DEF ShouldAccept, IInv, TypeOK, SchedulerTypeOK
  <2>2. QED
    BY <2>1 DEF ShouldAccept, Select, IInv, TypeOK, Loop
<1>5. Later /\ \A p \in Oracle \ {o} : Untouched(p)
  BY <1>3 DEF ShouldAccept, Select, IInv, TypeOK, SchedulerTypeOK, Later, Untouched
<1>6. TimerFor(o)' /\ HasEarliest(o)'
  BY <1>1, <1>2, ScheduleKeepsTimer DEF ShouldAccept, IInv, InvAt, d
<1>7. Held(o)' = Held(o) \cup {new}
  BY <1>3 DEF Held, IInv, TypeOK, SchedulerTypeOK
<1>8. OfferedIsDue(o)'
  <2>1. pendingItem[o] # NoItem => pendingItem[o] # new
    BY <1>2 DEF Held
  <2>2. QED
    BY <1>3, <2>1 DEF OfferedIsDue, IInv, InvAt, ShouldAccept, TypeOK, SchedulerTypeOK
<1>9. TakenOnce(o)'
  BY <1>2, <1>7 DEF TakenOnce, IInv, InvAt, TypeOK, ShouldAccept, Select
<1>10. FaultsCounted(o)'
  BY DEF FaultsCounted, IInv, InvAt, ShouldAccept
<1>11. QED
  BY <1>4, <1>5, <1>6, <1>8, <1>9, <1>10, StepOfOne DEF InvAt

LEMMA Scheduled_Inv ==
    ASSUME IInv, NEW o \in Oracle, Scheduled(o)
    PROVE  IInv'
<1>1. /\ pendingItem[o] \in ItemWithDeadline /\ pendingItem[o].item \in Report
      /\ heap' = heap /\ pendingItem' = [pendingItem EXCEPT ![o] = NoItem]
      /\ heap[o] \subseteq ItemWithDeadline
  BY SentinelsDiffer DEF Scheduled, HandOut, IInv, TypeOK, SchedulerTypeOK, Report
<1>2. \/ heap[o] = {} /\ timer' = timer /\ timer[o] = Stopped
      \/ \E x \in Earliest(heap[o]) : timer' = [timer EXCEPT ![o] = x.deadline]
  BY DEF Scheduled, HandOut, IInv, InvAt, TimerFor
<1>3. TypeOK'
  <2>1. timer' \in [Oracle -> Time \cup {Stopped, Fired}]
    BY <1>1, <1>2, SentinelsDiffer DEF Earliest, IInv, TypeOK, SchedulerTypeOK
  <2>2. QED
    BY <1>1, <2>1 DEF Scheduled, IInv, TypeOK, SchedulerTypeOK, Loop
<1>4. Later /\ \A p \in Oracle \ {o} : Untouched(p)
  BY <1>1, <1>2 DEF Scheduled, IInv, TypeOK, SchedulerTypeOK, Later, Untouched
<1>5. TimerFor(o)' /\ HasEarliest(o)'
  <2>1. pendingItem'[o] = NoItem
    BY <1>1 DEF IInv, TypeOK, SchedulerTypeOK
  <2>2. CASE heap[o] = {} /\ timer' = timer /\ timer[o] = Stopped
    BY <1>1, <2>1, <2>2 DEF TimerFor, HasEarliest
  <2>3. CASE \E x \in Earliest(heap[o]) : timer' = [timer EXCEPT ![o] = x.deadline]
    <3>1. PICK x \in Earliest(heap[o]) : timer' = [timer EXCEPT ![o] = x.deadline]
      BY <2>3
    <3>2. timer'[o] = x.deadline
      BY <3>1 DEF IInv, TypeOK, SchedulerTypeOK
    <3>3. \A y \in Earliest(heap[o]) : y.deadline = x.deadline
      <4>1. \A y \in Earliest(heap[o]) :
                /\ y.deadline <= x.deadline /\ x.deadline <= y.deadline
                /\ y \in ItemWithDeadline
        BY <1>1, <3>1 DEF Earliest
      <4>2. \A y \in ItemWithDeadline : y.deadline \in Int
        BY SentinelsDiffer
      <4>3. QED
        BY <3>1, <4>1, <4>2
    <3>4. QED
      BY <1>1, <2>1, <3>1, <3>2, <3>3 DEF TimerFor, HasEarliest, Earliest
  <2>4. QED
    BY <1>2, <2>2, <2>3
<1>6. OfferedIsDue(o)'
  BY <1>1 DEF OfferedIsDue, IInv, TypeOK, SchedulerTypeOK
<1>7. TakenOnce(o)'
  <2>1. Held(o)' \subseteq Held(o)
    BY <1>1 DEF Held, IInv, TypeOK, SchedulerTypeOK
  <2>2. QED
    BY <1>1, <2>1 DEF Scheduled, TakenOnce, IInv, InvAt, TypeOK
<1>8. FaultsCounted(o)'
  BY DEF Scheduled, FaultsCounted, IInv, InvAt
<1>9. QED
  BY <1>3, <1>4, <1>5, <1>6, <1>7, <1>8, StepOfOne DEF InvAt

LEMMA Restart_Inv ==
    ASSUME IInv, NEW o \in Oracle, Restart(o)
    PROVE  IInv'
<1> USE DEF Restart, Close, Fail, Select
<1>1. /\ faults' \in 0..MaxFaults /\ faults' = faults + 1
      /\ processes'[o] \in 0..MaxFaults /\ processes'[o] <= faults'
  BY TransmissionAssumption DEF IInv, InvAt, FaultsCounted, TypeOK
<1>2. TypeOK'
  BY <1>1, TransmissionAssumption DEF IInv, TypeOK, SchedulerTypeOK, Loop
<1>3. Later /\ \A p \in Oracle \ {o} : Untouched(p)
  BY DEF IInv, TypeOK, SchedulerTypeOK, Later, Untouched
<1>4. heap'[o] = {} /\ pendingItem'[o] = NoItem /\ timer'[o] = Stopped
  BY DEF IInv, TypeOK, SchedulerTypeOK
<1>5. TimerFor(o)' /\ HasEarliest(o)' /\ OfferedIsDue(o)'
  BY <1>4 DEF TimerFor, HasEarliest, OfferedIsDue
<1>6. TakenOnce(o)'
  BY <1>4 DEF TakenOnce, Held, IInv, TypeOK
<1>7. FaultsCounted(o)'
  BY <1>1 DEF FaultsCounted
<1>8. QED
  BY <1>2, <1>3, <1>5, <1>6, <1>7, StepOfOne DEF InvAt

LEMMA TimerFires_Inv ==
    ASSUME IInv, NEW o \in Oracle, SchedulerStep(o), TimerFires(o)
    PROVE  IInv'
<1> USE DEF SchedulerStep, TimerFires
<1>1. TypeOK'
  BY DEF IInv, TypeOK, SchedulerTypeOK, loopVars
<1>2. Later /\ \A p \in Oracle \ {o} : Untouched(p)
  BY DEF IInv, TypeOK, SchedulerTypeOK, Later, Untouched, loopVars
<1>3. TimerFor(o)'
  <2>1. timer[o] # Stopped /\ timer[o] # Fired
    BY SentinelsDiffer
  <2>2. pendingItem[o] = NoItem /\ heap[o] # {}
    BY <2>1 DEF IInv, InvAt, TimerFor
  <2>3. \A x \in Earliest(heap[o]) : x.deadline <= now
    BY <2>1, <2>2 DEF IInv, InvAt, TimerFor
  <2>4. timer'[o] = Fired
    BY DEF IInv, TypeOK, SchedulerTypeOK
  <2>5. QED
    BY <2>2, <2>3, <2>4 DEF TimerFor, Earliest
<1>4. HasEarliest(o)' /\ OfferedIsDue(o)' /\ TakenOnce(o)' /\ FaultsCounted(o)'
  BY DEF HasEarliest, OfferedIsDue, TakenOnce, FaultsCounted, IInv, InvAt, Held, Earliest,
         loopVars
<1>5. QED
  BY <1>1, <1>2, <1>3, <1>4, StepOfOne DEF InvAt

\* A timer that fired is that of an item that is due, which is offered next.
LEMMA ItemIsDue ==
    ASSUME IInv, NEW o \in Oracle, ReceiveTimer(o)
    PROVE  /\ pendingItem[o] = NoItem
           /\ \E x \in heap[o] :
                  /\ x.deadline <= now /\ x # NoItem /\ x \in ItemWithDeadline
                  /\ heap' = [heap EXCEPT ![o] = @ \ {x}]
                  /\ pendingItem' = [pendingItem EXCEPT ![o] = x]
<1>1. timer[o] = Fired /\ timer[o] # Stopped
  BY SentinelsDiffer DEF ReceiveTimer
<1>2. pendingItem[o] = NoItem
  BY <1>1 DEF IInv, InvAt, TimerFor
<1>3. PICK x \in Earliest(heap[o]) :
          /\ heap' = [heap EXCEPT ![o] = @ \ {x}]
          /\ pendingItem' = [pendingItem EXCEPT ![o] = x]
  BY DEF ReceiveTimer
<1>4. x \in heap[o] /\ x \in ItemWithDeadline /\ x # NoItem
  BY <1>3, SentinelsDiffer DEF Earliest, IInv, TypeOK, SchedulerTypeOK
<1>5. x.deadline <= now
  <2>1. x.deadline \in Time
    BY <1>4, SentinelsDiffer
  <2>2. x.deadline # Fired
    BY <2>1, SentinelsDiffer
  <2>3. QED
    BY <1>1, <1>2, <1>4, <2>2 DEF IInv, InvAt, TimerFor
<1>6. QED
  BY <1>2, <1>3, <1>4, <1>5

LEMMA ReceiveTimer_Inv ==
    ASSUME IInv, NEW o \in Oracle, SchedulerStep(o), ReceiveTimer(o)
    PROVE  IInv'
<1> USE DEF SchedulerStep
<1>1. PICK x \in heap[o] :
          /\ x.deadline <= now /\ x # NoItem /\ x \in ItemWithDeadline
          /\ heap' = [heap EXCEPT ![o] = @ \ {x}]
          /\ pendingItem' = [pendingItem EXCEPT ![o] = x]
  BY ItemIsDue
<1>2. timer' = [timer EXCEPT ![o] = Stopped]
  BY DEF ReceiveTimer
<1>3. TypeOK'
  BY <1>1, <1>2 DEF IInv, TypeOK, SchedulerTypeOK, loopVars
<1>4. Later /\ \A p \in Oracle \ {o} : Untouched(p)
  BY <1>1, <1>2 DEF IInv, TypeOK, SchedulerTypeOK, Later, Untouched, loopVars
<1>5. heap'[o] = heap[o] \ {x} /\ pendingItem'[o] = x /\ timer'[o] = Stopped
  BY <1>1, <1>2 DEF IInv, TypeOK, SchedulerTypeOK
<1>6. TimerFor(o)' /\ HasEarliest(o)' /\ OfferedIsDue(o)'
  BY <1>1, <1>5 DEF TimerFor, HasEarliest, OfferedIsDue
<1>7. Held(o)' \subseteq Held(o)
  BY <1>1, <1>5 DEF Held
<1>8. TakenOnce(o)' /\ FaultsCounted(o)'
  BY <1>7 DEF TakenOnce, FaultsCounted, IInv, InvAt, loopVars
<1>9. QED
  BY <1>3, <1>4, <1>6, <1>8, StepOfOne DEF InvAt

LEMMA TimePasses_Inv ==
    ASSUME IInv, TimePasses
    PROVE  IInv'
<1> USE DEF TimePasses, Tick
<1>1. TypeOK'
  BY TransmissionAssumption
     DEF IInv, TypeOK, SchedulerTypeOK, Time, schedulerVars, loopVars
<1>2. ASSUME NEW o \in Oracle PROVE InvAt(o)'
  BY <1>2, UntouchedKeeps DEF IInv, Untouched, Later, schedulerVars, loopVars
<1>3. QED
  BY <1>1, <1>2 DEF IInv

LEMMA Stutter_Inv ==
    ASSUME IInv, UNCHANGED vars
    PROVE  IInv'
<1>1. TypeOK'
  BY DEF vars, IInv, TypeOK, SchedulerTypeOK, schedulerVars, loopVars
<1>2. ASSUME NEW o \in Oracle PROVE InvAt(o)'
  BY <1>2, UntouchedKeeps
     DEF vars, IInv, Untouched, Later, schedulerVars, loopVars, TypeOK
<1>3. QED
  BY <1>1, <1>2 DEF IInv

LEMMA Next_Inv ==
    ASSUME IInv, [Next]_vars
    PROVE  IInv'
<1>1. CASE TimePasses
  BY <1>1, TimePasses_Inv
<1>2. ASSUME NEW o \in Oracle, SchedulerStep(o) PROVE IInv'
  BY <1>2, TimerFires_Inv, ReceiveTimer_Inv DEF SchedulerStep
<1>3. CASE UNCHANGED vars
  BY <1>3, Stutter_Inv
<1>4. QED
  BY <1>1, <1>2, <1>3, EventAttestedReport_Inv, ShouldAccept_Inv, ShouldNotAccept_Inv,
     Scheduled_Inv, Transmit_Inv, CallFails_Inv, Restart_Inv DEF Next

LEMMA Spec_Inv == Spec => []IInv
  BY Init_Inv, Next_Inv, PTL DEF Spec
-----------------------------------------------------------------------------
\* The types of the variables of Transmission.
THEOREM TypeCorrect == Spec => []TypeOK
<1>1. IInv => TypeOK
  BY DEF IInv
<1>2. QED
  BY <1>1, Spec_Inv, PTL

\* Whenever scheduler.go's select waits without an item to offer, its timer runs, or
\* has fired, for the earliest item of the heap; otherwise it is stopped, so that
\* Reset (scheduler.go:59) never acts on a timer that runs.
THEOREM TimersAreRight == Spec => []TimerIsForEarliest
<1>1. IInv => TimerIsForEarliest
  BY DEF IInv, InvAt, TimerFor, TimerIsForEarliest
<1>2. QED
  BY <1>1, Spec_Inv, PTL
-----------------------------------------------------------------------------
\* A set of natural numbers that is not empty has a least element: where a proof
\* needs induction over the stages, it takes the least counterexample.
LEMMA Least ==
    ASSUME NEW T \in SUBSET Nat, T # {}
    PROVE  \E n \in T : \A k \in T : n <= k
<1>1. IsWellFoundedOn(OpToRel(<, Nat), Nat)
  BY NatLessThanWellFounded
<1>2. PICK n \in T : \A k \in T : ~(<<k, n>> \in OpToRel(<, Nat))
  BY <1>1, WFMin, Zenon
<1>3. ASSUME NEW k \in T PROVE n <= k
  <2>1. ~(k < n)
    BY <1>2 DEF OpToRel
  <2>2. QED
    BY <2>1
<1>4. QED
  BY <1>3

\* The recursion that defines Sum, over the first n stages.
Sums(n) == {f \in [0..n -> Nat] : f[0] = 0 /\ \A i \in 1..n : f[i] = f[i - 1] + S[i]}

LEMMA SumsExtend ==
    ASSUME NEW n \in 0..(Len(S) - 1), NEW f \in Sums(n)
    PROVE  \E g : g \in Sums(n + 1)
<1> DEFINE g == [i \in 0..(n + 1) |-> IF i = n + 1 THEN f[n] + S[n + 1] ELSE f[i]]
<1>1. Len(S) \in Nat /\ S[n + 1] \in Nat /\ n \in Nat
  BY TransmissionAssumption
<1>2. f \in [0..n -> Nat] /\ f[0] = 0 /\ \A i \in 1..n : f[i] = f[i - 1] + S[i]
  BY DEF Sums
<1>3. f[n] \in Nat
  BY <1>1, <1>2
<1>4. g \in [0..(n + 1) -> Nat]
  <2>1. ASSUME NEW i \in 0..(n + 1) PROVE (IF i = n + 1 THEN f[n] + S[n + 1] ELSE f[i]) \in Nat
    <3>1. CASE i = n + 1
      BY <1>1, <1>3, <3>1
    <3>2. CASE i # n + 1
      <4>1. i \in 0..n
        BY <1>1, <3>2
      <4>2. QED
        BY <4>1, <3>2, <1>2
    <3>3. QED
      BY <3>1, <3>2
  <2>2. QED
    BY <2>1
<1>5. g[0] = 0
  BY <1>1, <1>2
<1>6. ASSUME NEW i \in 1..(n + 1) PROVE g[i] = g[i - 1] + S[i]
  <2>1. CASE i = n + 1
    BY <2>1, <1>1
  <2>2. CASE i # n + 1
    <3>1. i \in 1..n /\ i - 1 \in 0..n /\ i \in 0..(n + 1) /\ i - 1 # n + 1 /\ i - 1 \in 0..(n + 1)
      BY <2>2, <1>1
    <3>2. QED
      BY <3>1, <2>2, <1>2
  <2>3. QED
    BY <2>1, <2>2
<1>7. QED
  <2> HIDE DEF g
  <2>1. g \in Sums(n + 1)
    BY <1>4, <1>5, <1>6 DEF Sums
  <2>2. QED
    BY <2>1

LEMMA SumsExist == \E f : f \in Sums(Len(S))
<1> DEFINE T == {n \in 0..Len(S) : Sums(n) = {}}
<1>0. Len(S) \in Nat
  BY TransmissionAssumption
<1>1. SUFFICES T = {}
  BY <1>0
<1>2. SUFFICES ASSUME T # {} PROVE FALSE
  OBVIOUS
<1>3. PICK n \in T : \A k \in T : n <= k
  <2>1. T \in SUBSET Nat
    BY <1>0
  <2> HIDE DEF T
  <2>2. QED
    BY <2>1, <1>2, Least
<1>4. CASE n = 0
  <2>1. [i \in 0..0 |-> 0] \in Sums(0)
    BY DEF Sums
  <2>2. QED
    BY <2>1, <1>4
<1>5. CASE n # 0
  <2>1. n - 1 \in 0..(Len(S) - 1) /\ (n - 1) + 1 = n /\ n - 1 \in 0..Len(S) /\ ~(n <= n - 1)
    BY <1>5, <1>0
  <2>2. PICK f : f \in Sums(n - 1)
    BY <2>1, <1>3
  <2> DEFINE m == n - 1
  <2>3. m \in 0..(Len(S) - 1) /\ f \in Sums(m) /\ m + 1 = n
    BY <2>1, <2>2
  <2> HIDE DEF m
  <2>4. \E g : g \in Sums(m + 1)
    BY <2>3, SumsExtend
  <2>5. QED
    BY <2>4, <2>3
<1>6. QED
  BY <1>4, <1>5

\* The recursion of Sum has a solution, and so Sum, which is chosen, is one.
LEMMA SumIsRecursive ==
    /\ Sum \in [0..Len(S) -> Nat]
    /\ Sum[0] = 0
    /\ \A i \in 1..Len(S) : Sum[i] = Sum[i - 1] + S[i]
<1> DEFINE IsSum(f) == f = [i \in 0..Len(S) |-> IF i = 0 THEN 0 ELSE f[i - 1] + S[i]]
<1>0. Len(S) \in Nat
  BY TransmissionAssumption
<1>1. PICK f : f \in Sums(Len(S))
  BY SumsExist
<1>2. IsSum(f)
  <2>1. f \in [0..Len(S) -> Nat] /\ f[0] = 0 /\ \A i \in 1..Len(S) : f[i] = f[i - 1] + S[i]
    BY <1>1 DEF Sums
  <2>2. \A i \in 0..Len(S) : f[i] = IF i = 0 THEN 0 ELSE f[i - 1] + S[i]
    BY <2>1, <1>0
  <2>3. QED
    BY <2>1, <2>2
<1>3. IsSum(Sum)
  <2>1. Sum = CHOOSE g : IsSum(g)
    BY DEF Sum
  <2> HIDE DEF IsSum
  <2>2. QED
    BY <2>1, <1>2
<1> DEFINE T == {n \in 0..Len(S) : Sum[n] # f[n]}
<1>4. T = {}
  <2>1. SUFFICES ASSUME T # {} PROVE FALSE
    OBVIOUS
  <2>2. PICK n \in T : \A k \in T : n <= k
    <3>1. T \in SUBSET Nat
      BY <1>0
    <3> HIDE DEF T
    <3>2. QED
      BY <3>1, <2>1, Least
  <2>3. CASE n = 0
    BY <2>3, <1>0, <1>2, <1>3
  <2>4. CASE n # 0
    <3>1. n - 1 \in 0..Len(S) /\ ~(n <= n - 1)
      BY <2>4, <1>0
    <3>2. Sum[n - 1] = f[n - 1]
      BY <3>1, <2>2
    <3>3. Sum[n] = Sum[n - 1] + S[n] /\ f[n] = f[n - 1] + S[n]
      BY <2>4, <1>0, <1>2, <1>3
    <3>4. QED
      BY <3>2, <3>3
  <2>5. QED
    BY <2>3, <2>4
<1>5. Sum = f
  <2>1. \A n \in 0..Len(S) : Sum[n] = f[n]
    BY <1>4
  <2>2. /\ DOMAIN Sum = 0..Len(S) /\ Sum = [n \in DOMAIN Sum |-> Sum[n]]
        /\ DOMAIN f = 0..Len(S) /\ f = [n \in DOMAIN f |-> f[n]]
    BY <1>2, <1>3
  <2>3. QED
    BY <2>1, <2>2
<1>6. QED
  BY <1>1, <1>5 DEF Sums

LEMMA SumMonotone ==
    ASSUME NEW i \in 0..Len(S), NEW j \in 0..Len(S), i <= j
    PROVE  Sum[i] <= Sum[j]
<1> DEFINE T == {n \in 0..Len(S) : i <= n /\ ~(Sum[i] <= Sum[n])}
<1>0. Len(S) \in Nat /\ \A n \in 1..Len(S) : S[n] \in Nat
  BY TransmissionAssumption
<1>1. T = {}
  <2>1. SUFFICES ASSUME T # {} PROVE FALSE
    OBVIOUS
  <2>2. PICK n \in T : \A k \in T : n <= k
    <3>1. T \in SUBSET Nat
      BY <1>0
    <3> HIDE DEF T
    <3>2. QED
      BY <3>1, <2>1, Least
  <2>3. n # i
    BY <1>0, SumIsRecursive
  <2>4. n - 1 \in 0..Len(S) /\ i <= n - 1 /\ ~(n <= n - 1) /\ n \in 1..Len(S)
    BY <2>3, <1>0
  <2>5. Sum[i] <= Sum[n - 1]
    BY <2>2, <2>4
  <2>6. Sum[n] = Sum[n - 1] + S[n] /\ S[n] \in Nat
    BY <2>4, <1>0, SumIsRecursive
  <2>7. Sum[i] \in Nat /\ Sum[n - 1] \in Nat
    BY <2>4, SumIsRecursive
  <2>8. QED
    BY <2>2, <2>5, <2>6, <2>7
<1>2. QED
  BY <1>1

\* The stages of a schedule do not overlap, ...
LEMMA OneStage ==
    ASSUME NEW pi \in Orders, NEW o \in Oracle, NEW i \in 1..Len(S), NEW j \in 1..Len(S),
           Sum[i - 1] <= pi[o], pi[o] < Sum[i], Sum[j - 1] <= pi[o], pi[o] < Sum[j]
    PROVE  i = j
<1>0. /\ Len(S) \in Nat
      /\ i \in 0..Len(S) /\ i - 1 \in 0..Len(S)
      /\ j \in 0..Len(S) /\ j - 1 \in 0..Len(S)
  BY TransmissionAssumption
<1>1. pi[o] \in Nat
  BY TransmissionAssumption
<1>2. Sum[i] \in Nat /\ Sum[j] \in Nat /\ Sum[i - 1] \in Nat /\ Sum[j - 1] \in Nat
  <2>1. \A k \in 0..Len(S) : Sum[k] \in Nat
    BY SumIsRecursive
  <2>2. QED
    BY <1>0, <2>1
<1>3. i <= j - 1 => Sum[i] <= Sum[j - 1]
  BY <1>0, SumMonotone
<1>4. j <= i - 1 => Sum[j] <= Sum[i - 1]
  BY <1>0, SumMonotone
<1>5. QED
  BY <1>0, <1>1, <1>2, <1>3, <1>4

\* ... every place in an order is some oracle's, ...
LEMMA OrdersAreOnto ==
    ASSUME NEW pi \in Orders
    PROVE  /\ N \in Nat
           /\ pi \in Injection(Oracle, 0..(N - 1))
           /\ \A k \in 0..(N - 1) : \E o \in Oracle : pi[o] = k
<1>1. N \in Nat
  BY TransmissionAssumption, FS_CardinalityType DEF N
<1>2. pi \in Injection(Oracle, 0..(N - 1))
  BY TransmissionAssumption DEF Injection, IsInjective
<1>3. IsFiniteSet(0..(N - 1)) /\ Cardinality(0..(N - 1)) = N
  BY <1>1, FS_Interval
<1>4. pi \in Surjection(Oracle, 0..(N - 1))
  <2>1. Cardinality(Oracle) = Cardinality(0..(N - 1)) <=> pi \in Surjection(Oracle, 0..(N - 1))
    BY <1>2, <1>3, FS_Injection
  <2>2. QED
    BY <2>1, <1>3 DEF N
<1>5. QED
  BY <1>1, <1>2, <1>4 DEF Surjection

\* ... and so a stage that ends within the oracles has all of its places taken.
LEMMA StageIsFull ==
    ASSUME NEW pi \in Orders, NEW i \in 1..Len(S), Sum[i] <= N
    PROVE  Cardinality({o \in Oracle : Sum[i - 1] <= pi[o] /\ pi[o] < Sum[i]}) = S[i]
<1> DEFINE A == {o \in Oracle : Sum[i - 1] <= pi[o] /\ pi[o] < Sum[i]}
           B == Sum[i - 1]..(Sum[i] - 1)
           f == [o \in A |-> pi[o]]
<1>0. Len(S) \in Nat /\ i - 1 \in 0..Len(S) /\ i \in 0..Len(S) /\ S[i] \in Nat
  BY TransmissionAssumption
<1>1. Sum[i] \in Nat /\ Sum[i - 1] \in Nat /\ Sum[i] = Sum[i - 1] + S[i]
  BY <1>0, SumIsRecursive
<1>2. IsFiniteSet(B) /\ Cardinality(B) = S[i]
  <2>1. /\ IsFiniteSet(B)
        /\ Cardinality(B) = IF Sum[i - 1] > Sum[i] - 1 THEN 0 ELSE (Sum[i] - 1) - Sum[i - 1] + 1
    <3>1. Sum[i - 1] \in Int /\ Sum[i] - 1 \in Int
      BY <1>1
    <3>2. QED
      BY <3>1, FS_Interval, Zenon
  <2> HIDE DEF B
  <2>2. QED
    BY <2>1, <1>0, <1>1
<1>3. pi \in [Oracle -> 0..(N - 1)] /\ N \in Nat
  BY OrdersAreOnto, TransmissionAssumption
<1>4. f \in [A -> B]
  <2>1. ASSUME NEW o \in A PROVE pi[o] \in B
    BY <1>1, <1>3
  <2>2. QED
    BY <2>1
<1>5. IsInjective(f)
  BY TransmissionAssumption DEF IsInjective
<1>6. ASSUME NEW k \in B PROVE \E o \in A : f[o] = k
  <2>1. k \in 0..(N - 1)
    BY <1>1, <1>3
  <2>2. PICK o \in Oracle : pi[o] = k
    BY <2>1, OrdersAreOnto
  <2>3. o \in A
    BY <2>2, <1>1
  <2>4. QED
    BY <2>2, <2>3
<1>7. f \in Injection(A, B) /\ f \in Surjection(A, B)
  <2> HIDE DEF A, B, f
  <2>1. QED
    BY <1>4, <1>5, <1>6 DEF Injection, Surjection
<1>8. Cardinality(A) = Cardinality(B)
  <2> HIDE DEF A, B, f
  <2>1. QED
    BY <1>7, <1>2, FS_Injection
<1>9. QED
  BY <1>8, <1>2

LEMMA TypesGiveSchedule == TypeOK => StagesAreSchedule
<1> SUFFICES ASSUME TypeOK, NEW r \in Report PROVE
        /\ \A i \in 1..Len(S) :
               Sum[i] <= N =>
                   Cardinality({o \in Oracle : i \in Stages(o, r)}) = S[i]
        /\ \A o \in Oracle : Cardinality(Stages(o, r)) <= 1
  BY DEF StagesAreSchedule
<1>1. order[r] \in Orders
  BY DEF TypeOK
<1>2. ASSUME NEW i \in 1..Len(S), Sum[i] <= N
      PROVE  Cardinality({o \in Oracle : i \in Stages(o, r)}) = S[i]
  <2>1. {o \in Oracle : i \in Stages(o, r)}
            = {o \in Oracle : Sum[i - 1] <= order[r][o] /\ order[r][o] < Sum[i]}
    BY DEF Stages
  <2>2. QED
    BY <2>1, <1>1, <1>2, StageIsFull
<1>3. ASSUME NEW o \in Oracle PROVE Cardinality(Stages(o, r)) <= 1
  <2>1. CASE Stages(o, r) = {}
    BY <2>1, FS_EmptySet
  <2>2. CASE Stages(o, r) # {}
    <3>1. PICK i : i \in Stages(o, r)
      BY <2>2
    <3>2. Stages(o, r) = {i}
      BY <3>1, <1>1, OneStage DEF Stages
    <3>3. Cardinality({i}) = 1
      BY FS_Singleton
    <3>4. QED
      BY <3>2, <3>3
  <2>3. QED
    BY <2>1, <2>2
<1>4. QED
  BY <1>2, <1>3

\* The stages of transmitDelay (transmission.go:220) are those of the schedule, for
\* any schedule and any order of the oracles: each oracle is in one stage at most, and
\* as many transmit in each stage as the configuration says, until oracles run out.
THEOREM StagesFollowSchedule == Spec => []StagesAreSchedule
  BY TypeCorrect, TypesGiveSchedule, PTL
-----------------------------------------------------------------------------
\* A step at one oracle's scheduler, as a step of the bag of every oracle.
BagStep(o) == [Bag(o)!Next]_<<Held(o), now, processes[o]>>

LEMMA ShouldAccept_Bag ==
    ASSUME IInv, NEW o \in Oracle, ShouldAccept(o)
    PROVE  BagStep(o)
<1> DEFINE item == current[o]
<1>1. PICK i \in Stages(o, item) : ScheduleDeadline(o, item, taken[o] + Delay(i))
  BY DEF ShouldAccept
<1> DEFINE d == taken[o] + Delay(i)
<1>2. item \in Item /\ d \in Time /\ \A x \in Held(o) : x.item # item
  BY ScheduledItem DEF ShouldAccept
<1> HIDE DEF d
<1>3. Held(o)' = Held(o) \cup {[item |-> item, deadline |-> d]}
  BY <1>1 DEF ScheduleDeadline, Held, IInv, TypeOK, SchedulerTypeOK, d
<1>4. Bag(o)!Schedule(item, d)
  BY <1>2, <1>3 DEF Bag!Schedule, ShouldAccept
<1>5. QED
  BY <1>2, <1>4 DEF BagStep, Bag!Next

LEMMA Scheduled_Bag ==
    ASSUME IInv, NEW o \in Oracle, Scheduled(o)
    PROVE  BagStep(o)
<1> DEFINE x == pendingItem[o]
<1>1. /\ x # NoItem /\ x \notin heap[o] /\ x.deadline <= now
      /\ heap'[o] = heap[o] /\ pendingItem'[o] = NoItem
  BY DEF Scheduled, HandOut, IInv, InvAt, OfferedIsDue, TypeOK, SchedulerTypeOK
<1>2. x \in Held(o) /\ Held(o)' = Held(o) \ {x}
  BY <1>1 DEF Held
<1>3. Bag(o)!HandOut(x)
  BY <1>1, <1>2 DEF Bag!HandOut, Scheduled
<1>4. QED
  BY <1>2, <1>3 DEF BagStep, Bag!Next

LEMMA Restart_Bag ==
    ASSUME IInv, NEW o \in Oracle, Restart(o)
    PROVE  BagStep(o)
<1>1. Held(o)' = {} /\ processes'[o] = processes[o] + 1 /\ now' = now
  BY DEF Restart, Close, Held, IInv, TypeOK, SchedulerTypeOK
<1>2. Bag(o)!End
  BY <1>1 DEF Bag!End
<1>3. QED
  BY <1>2 DEF BagStep, Bag!Next

LEMMA SchedulerStep_Bag ==
    ASSUME IInv, NEW o \in Oracle, SchedulerStep(o)
    PROVE  BagStep(o)
<1>1. CASE TimerFires(o)
  BY <1>1 DEF SchedulerStep, TimerFires, BagStep, Held
<1>2. CASE ReceiveTimer(o)
  <2>1. PICK x \in heap[o] :
            /\ x # NoItem /\ pendingItem[o] = NoItem
            /\ heap' = [heap EXCEPT ![o] = @ \ {x}]
            /\ pendingItem' = [pendingItem EXCEPT ![o] = x]
    BY <1>2, ItemIsDue
  <2>2. Held(o)' = Held(o)
    BY <2>1 DEF Held, IInv, TypeOK, SchedulerTypeOK
  <2>3. QED
    BY <2>2 DEF SchedulerStep, BagStep
<1>3. QED
  BY <1>1, <1>2 DEF SchedulerStep

\* Steps of the loop that leave every scheduler alone.
LEMMA LoopStep_Bag ==
    ASSUME UNCHANGED <<now, schedulerVars, processes>>, NEW o \in Oracle
    PROVE  BagStep(o)
  BY DEF schedulerVars, BagStep, Held

\* What else the loop of an oracle or its scheduler does is done at that oracle.
LEMMA OthersUntouched ==
    ASSUME IInv, NEW o \in Oracle, NEW p \in Oracle, p # o,
           ShouldAccept(o) \/ Scheduled(o) \/ Restart(o) \/ SchedulerStep(o)
    PROVE  BagStep(p)
<1>1. /\ heap'[p] = heap[p] /\ pendingItem'[p] = pendingItem[p]
      /\ processes'[p] = processes[p] /\ now' = now
  <2>1. CASE ShouldAccept(o)
    BY <2>1 DEF ShouldAccept, ScheduleDeadline, IInv, TypeOK, SchedulerTypeOK
  <2>2. CASE Scheduled(o)
    BY <2>2 DEF Scheduled, HandOut, IInv, TypeOK, SchedulerTypeOK
  <2>3. CASE Restart(o)
    BY <2>3 DEF Restart, Close, IInv, TypeOK, SchedulerTypeOK
  <2>4. CASE SchedulerStep(o)
    BY <2>4 DEF SchedulerStep, TimerFires, ReceiveTimer, IInv, TypeOK, SchedulerTypeOK
  <2>5. QED
    BY <2>1, <2>2, <2>3, <2>4
<1>2. QED
  BY <1>1 DEF BagStep, Held

LEMMA TimePasses_Bag ==
    ASSUME TimePasses, NEW o \in Oracle
    PROVE  BagStep(o)
<1>1. Held(o)' = Held(o) /\ processes'[o] = processes[o] /\ now' = now + 1
  BY DEF TimePasses, Tick, schedulerVars, Held
<1>2. Bag(o)!Tick
  BY <1>1 DEF Bag!Tick
<1>3. QED
  BY <1>2 DEF BagStep, Bag!Next

LEMMA Next_Bag ==
    ASSUME IInv, [Next]_vars, NEW p \in Oracle
    PROVE  BagStep(p)
<1>1. CASE TimePasses
  BY <1>1, TimePasses_Bag
<1>2. ASSUME NEW o \in Oracle,
             ShouldAccept(o) \/ Scheduled(o) \/ Restart(o) \/ SchedulerStep(o)
      PROVE  BagStep(p)
  <2>1. CASE p = o
    BY <1>2, <2>1, ShouldAccept_Bag, Scheduled_Bag, Restart_Bag, SchedulerStep_Bag
  <2>2. CASE p # o
    BY <1>2, <2>2, OthersUntouched
  <2>3. QED
    BY <2>1, <2>2
<1>3. ASSUME NEW o \in Oracle,
             \/ \E r \in Report : EventAttestedReport(o, r)
             \/ ShouldNotAccept(o) \/ Transmit(o) \/ CallFails(o)
      PROVE  BagStep(p)
  <2>1. UNCHANGED <<now, schedulerVars, processes>>
    BY <1>3 DEF EventAttestedReport, ShouldNotAccept, Transmit, CallFails
  <2>2. QED
    BY <2>1, LoopStep_Bag
<1>4. CASE UNCHANGED vars
  BY <1>4, LoopStep_Bag DEF vars
<1>5. QED
  BY <1>1, <1>2, <1>3, <1>4 DEF Next

\* The scheduler of every oracle implements DeadlineBag: each item that is scheduled
\* is handed out once, alone, and not before its deadline, and only the end of the
\* process drops any (scheduler.go:40-82).
THEOREM ImplementsBag == Spec => SchedulerSpec
<1>1. ASSUME Init, NEW o \in Oracle PROVE Bag(o)!Init
  BY <1>1 DEF Init, SchedulerInit, Bag!Init, Held
<1>2. Init => \A o \in Oracle : Bag(o)!Init
  BY <1>1
<1>3. IInv /\ [Next]_vars
          => \A o \in Oracle : [Bag(o)!Next]_<<Held(o), now, processes[o]>>
  BY Next_Bag DEF BagStep
<1>4. QED
  BY <1>2, <1>3, Spec_Inv, PTL DEF Spec, SchedulerSpec
=============================================================================

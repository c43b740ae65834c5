------------------------------ MODULE Scheduler ------------------------------
(***************************************************************************)
(* The goroutine of a Scheduler: a heap of items with deadlines, one timer *)
(* for the earliest of them, and the item that it offers to the receiver.  *)
(* There is one scheduler per oracle; its steps are actions of the module  *)
(* that owns it.                                                           *)
(***************************************************************************)
EXTENDS Integers

CONSTANTS
    Oracle, Item,
    MaxTime         \* bound: the last reading of the clock

Time == 0..MaxTime

VARIABLES
    now,            \* the clock of all processes
    heap,           \* heap[o]: the items with their deadlines
    pendingItem,    \* the item offered, if maybeOut is not nil; with its deadline
    timer           \* when the timer fires; or Stopped; or Fired, not received

schedulerVars == <<heap, pendingItem, timer>>

ItemWithDeadline == [item : Item, deadline : Time]
NoItem == [item |-> "none", deadline |-> -1]
Stopped == -1
Fired == -2

SchedulerTypeOK ==
    /\ now \in Time
    /\ heap \in [Oracle -> SUBSET ItemWithDeadline]
    /\ pendingItem \in [Oracle -> ItemWithDeadline \cup {NoItem}]
    /\ timer \in [Oracle -> Time \cup {Stopped, Fired}]

Earliest(items) == {x \in items : \A y \in items : x.deadline <= y.deadline}

\* The timer was created expired, and was drained.
SchedulerInit ==
    /\ now = 0
    /\ heap = [o \in Oracle |-> {}]
    /\ pendingItem = [o \in Oracle |-> NoItem]
    /\ timer = [o \in Oracle |-> Stopped]

\* Mutant of Rearms: the new minimum does not reset the timer.
RearmsEmpty(o, deadline) == pendingItem[o] = NoItem /\ heap[o] = {}

\* Whether an item that comes in resets the timer: it is the first, or a new
\* minimum while the timer of the former one can still be stopped.
Rearms(o, deadline) ==
    /\ pendingItem[o] = NoItem
    /\ \/ heap[o] = {}
       \/ /\ \A x \in heap[o] : deadline < x.deadline
          /\ timer[o] \in Time

\* case item := <-in
ScheduleDeadline(o, item, deadline) ==
    /\ heap' = [heap EXCEPT ![o] = @ \cup
                  {[item |-> item, deadline |-> deadline]}]
    /\ timer' = IF Rearms(o, deadline)
                THEN [timer EXCEPT ![o] = deadline]
                ELSE timer
    /\ UNCHANGED pendingItem

\* The runtime sends on timer.C, some time after the timer has expired.
TimerFires(o) ==
    /\ timer[o] \in Time
    /\ timer[o] <= now
    /\ timer' = [timer EXCEPT ![o] = Fired]
    /\ UNCHANGED <<heap, pendingItem>>

\* Mutant of ReceiveTimer: the item popped may be any, as from an unsorted slice.
ReceiveTimerUnsorted(o) ==
    /\ timer[o] = Fired
    /\ timer' = [timer EXCEPT ![o] = Stopped]
    /\ \E x \in heap[o] :
           /\ heap' = [heap EXCEPT ![o] = @ \ {x}]
           /\ pendingItem' = [pendingItem EXCEPT ![o] = x]

\* case <-timer.C
ReceiveTimer(o) ==
    /\ timer[o] = Fired
    /\ timer' = [timer EXCEPT ![o] = Stopped]
    /\ \E x \in Earliest(heap[o]) :
           /\ heap' = [heap EXCEPT ![o] = @ \ {x}]
           /\ pendingItem' = [pendingItem EXCEPT ![o] = x]

\* Mutant of HandOut: the timer is not set for the next item.
HandOutUnarmed(o) ==
    /\ pendingItem[o] # NoItem
    /\ pendingItem' = [pendingItem EXCEPT ![o] = NoItem]
    /\ UNCHANGED <<heap, timer>>

\* case maybeOut <- pendingItem
HandOut(o) ==
    /\ pendingItem[o] # NoItem
    /\ pendingItem' = [pendingItem EXCEPT ![o] = NoItem]
    /\ \/ /\ heap[o] = {}
          /\ UNCHANGED timer
       \/ \E x \in Earliest(heap[o]) : timer' = [timer EXCEPT ![o] = x.deadline]
    /\ UNCHANGED heap

\* Close, or the end of the process.
Close(o) ==
    /\ heap' = [heap EXCEPT ![o] = {}]
    /\ pendingItem' = [pendingItem EXCEPT ![o] = NoItem]
    /\ timer' = [timer EXCEPT ![o] = Stopped]

Tick ==
    /\ now < MaxTime
    /\ now' = now + 1
    /\ UNCHANGED schedulerVars
-----------------------------------------------------------------------------
\* All items that an oracle's scheduler holds.
Held(o) == heap[o] \cup ({pendingItem[o]} \ {NoItem})

\* "the timer must be stopped already" (scheduler.go:58) when the first item
\* comes in, and it runs, or has fired, for exactly the earliest item otherwise;
\* or an item would be handed out early, late, or never.  A timer that has fired
\* for a former minimum is over the deadline of the new one as well.
TimerIsForEarliest ==
    \A o \in Oracle :
        IF pendingItem[o] # NoItem \/ heap[o] = {}
        THEN timer[o] = Stopped
        ELSE \A x \in Earliest(heap[o]) :
                 \/ timer[o] = x.deadline
                 \/ timer[o] = Fired /\ x.deadline <= now
=============================================================================

----------------------------- MODULE DeadlineBag -----------------------------
(***************************************************************************)
(* What the scheduler of a process promises: an item that was scheduled    *)
(* waits until it is handed out, which happens once, alone, and not before *)
(* its deadline.  Only the end of the process drops items that wait.       *)
(***************************************************************************)
EXTENDS Integers

CONSTANTS Item, Time

VARIABLES
    waiting,    \* the items that wait, each with its deadline
    now,        \* the clock
    process     \* how many processes have ended

Init == waiting = {} /\ now = 0 /\ process = 0

\* The deadline may be over already.
Schedule(item, deadline) ==
    /\ \A x \in waiting : x.item # item
    /\ waiting' = waiting \cup {[item |-> item, deadline |-> deadline]}
    /\ UNCHANGED <<now, process>>

HandOut(x) ==
    /\ x.deadline <= now
    /\ waiting' = waiting \ {x}
    /\ UNCHANGED <<now, process>>

Tick ==
    /\ now' = now + 1
    /\ UNCHANGED <<waiting, process>>

End ==
    /\ waiting' = {}
    /\ process' = process + 1
    /\ UNCHANGED now

Next ==
    \/ \E item \in Item, deadline \in Time : Schedule(item, deadline)
    \/ \E x \in waiting : HandOut(x)
    \/ Tick
    \/ End

Spec == Init /\ [][Next]_<<waiting, now, process>>
=============================================================================

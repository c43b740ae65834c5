----------------------------- MODULE OutcomeLog -----------------------------
(***************************************************************************)
(* What outcome generation promises a reporting plugin: sequence numbers   *)
(* are decided in increments of one, each for exactly one outcome, and the *)
(* previous outcome an oracle works from is the decided one.  An oracle may*)
(* learn of a decision late, skip decisions, and forget everything when its*)
(* process is restarted.                                                   *)
(***************************************************************************)
EXTENDS Naturals

CONSTANTS Honest, Value, NoOutcome, MaxSeqNr

VARIABLES
    log,        \* log[s]: the outcome of s, or NoOutcome while undecided
    learned,    \* learned[o]: the sequence number o works from
    previous    \* previous[o]: the outcome o works from

SeqNr == 1..MaxSeqNr

Init ==
    /\ log = [s \in SeqNr |-> NoOutcome]
    /\ learned = [o \in Honest |-> 0]
    /\ previous = [o \in Honest |-> NoOutcome]

Decide(s, v) ==
    /\ log[s] = NoOutcome
    /\ s > 1 => log[s - 1] # NoOutcome
    /\ log' = [log EXCEPT ![s] = v]
    /\ UNCHANGED <<learned, previous>>

Learn(o, s) ==
    /\ s > learned[o]
    /\ log[s] # NoOutcome
    /\ learned' = [learned EXCEPT ![o] = s]
    /\ previous' = [previous EXCEPT ![o] = log[s]]
    /\ UNCHANGED log

Forget(o) ==
    /\ learned' = [learned EXCEPT ![o] = 0]
    /\ previous' = [previous EXCEPT ![o] = NoOutcome]
    /\ UNCHANGED log

Next ==
    \/ \E s \in SeqNr, v \in Value : Decide(s, v)
    \/ \E o \in Honest :
        \/ \E s \in SeqNr : Learn(o, s)
        \/ Forget(o)

Spec == Init /\ [][Next]_<<log, learned, previous>>
=============================================================================

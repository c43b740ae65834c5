----------------------------- MODULE MessagePool -----------------------------
(***************************************************************************)
(* Where outcome generation keeps the messages of one sender that it can   *)
(* not handle yet: those for later rounds of the epoch in a pool, those    *)
(* for later epochs in a ring buffer.                                      *)
(***************************************************************************)
EXTENDS Integers, FiniteSets, Sequences

CONSTANTS
    PoolSize,       \* maxItemsPerSender of a pool
    BufferSize      \* the capacity of the ring buffer

ASSUME MessagePoolAssumption ==
    PoolSize \in Nat \ {0} /\ BufferSize \in Nat \ {0}

NewPool == [completedSeqNr |-> 0, entries |-> {}, count |-> 0]

\* A message with a low sequence number is dropped, and so are a second one with
\* the same number and one too many.
Accepts(pool, msg) ==
    /\ pool.completedSeqNr < msg.seqNr
    /\ pool.count < PoolSize
    /\ \A m \in pool.entries : m.seqNr # msg.seqNr

Put(pool, msg) ==
    [pool EXCEPT !.entries = @ \cup {msg}, !.count = @ + 1]

\* Mutant of ReapCompleted: what is reaped is still counted.
ReapCompletedUncounted(pool, s) ==
    [pool EXCEPT !.completedSeqNr = s,
                 !.entries = {m \in @ : s < m.seqNr}]

\* Every entry that is reaped is counted down.
ReapCompleted(pool, s) ==
    LET later == {m \in pool.entries : s < m.seqNr}
        reaped == {m \in pool.entries : m.seqNr <= s}
    IN  [pool EXCEPT !.completedSeqNr = s,
                     !.entries = later,
                     !.count = @ - Cardinality(reaped)]

\* Mutant of Push: the buffer holds one message less.
PushOneLess(buffer, msg) ==
    IF Len(buffer) = BufferSize - 1
    THEN Append(Tail(buffer), msg)
    ELSE Append(buffer, msg)

\* A full buffer drops the message at its front.
Push(buffer, msg) ==
    IF Len(buffer) = BufferSize
    THEN Append(Tail(buffer), msg)
    ELSE Append(buffer, msg)
=============================================================================

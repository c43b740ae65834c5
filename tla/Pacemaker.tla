------------------------------ MODULE Pacemaker ------------------------------
(***************************************************************************)
(* The OCR3 pacemaker: the NewEpochWish messages by which the oracles      *)
(* agree to give up the leader of an epoch, the state each of them keeps   *)
(* in its database, and the two unbuffered channels to the outcome         *)
(* generation of the same oracle.                                          *)
(*                                                                         *)
(* wire[o] holds the wishes of oracle o that may still reach somebody.  A  *)
(* wish in it is received by any oracle, in any order and any number of    *)
(* times, until it is lost.  A faulty oracle sends anything to anybody.    *)
(***************************************************************************)
EXTENDS ByzQuorum

CONSTANTS
    MaxEpoch,       \* the largest uint64, and the bound on the epochs
    MaxRestarts,    \* bound: how many times an oracle process is restarted
    MaxFailures     \* bound: how many writes of the state fail

ASSUME PacemakerAssumption ==
    /\ MaxEpoch \in Nat \ {0}
    /\ MaxRestarts \in Nat
    /\ MaxFailures \in Nat

Epoch == 1..MaxEpoch

VARIABLES
    \* pacemakerState
    ne, e, newEpochWishes, tProgress, notifyOutcomeGenerationOfNewEpoch,
    firstWish,  \* the first wish that the running process has broadcast
    \* the PacemakerState in the database
    stored,
    wire,
    \* the oracle's outcome generation: the epoch it is in (0: none yet), and
    \* the event it is blocked on until the pacemaker takes it
    outgen, ask,
    \* history: the epochs that an honest oracle has asked to end
    givenUp,
    \* the bounded environment
    restarts, failures

paceVars == <<ne, e, newEpochWishes, tProgress,
              notifyOutcomeGenerationOfNewEpoch, firstWish>>
envVars == <<restarts, failures>>
vars == <<paceVars, stored, wire, outgen, ask, givenUp, envVars>>

PacemakerState == [epoch : 0..MaxEpoch, highestSentNewEpochWish : 0..MaxEpoch]

\* What a database without a PacemakerState is read as: PacemakerState{}.
NoState == [epoch |-> 0, highestSentNewEpochWish |-> 0]

Event == {"none", "progress", "newEpochRequest"}

TypeOK ==
    /\ ne \in [Honest -> Epoch]
    /\ e \in [Honest -> Epoch]
    /\ newEpochWishes \in [Honest -> [Oracle -> 0..MaxEpoch]]
    /\ tProgress \in [Honest -> BOOLEAN]
    /\ notifyOutcomeGenerationOfNewEpoch \in [Honest -> BOOLEAN]
    /\ firstWish \in [Honest -> Epoch]
    /\ stored \in [Honest -> PacemakerState]
    /\ wire \in [Honest -> SUBSET Epoch]
    /\ outgen \in [Honest -> 0..MaxEpoch]
    /\ ask \in [Honest -> Event]
    /\ givenUp \in SUBSET Epoch
    /\ restarts \in 0..MaxRestarts
    /\ failures \in 0..MaxFailures
-----------------------------------------------------------------------------
\* Mutant of Backed: one wish less is enough.
BackedByFewer(wishes, y, k) ==
    {w \in Epoch : w > y /\ Cardinality({s \in Oracle : wishes[s] >= w}) >= k}

\* The epochs above y that more than k oracles wish for or wish to skip.
Backed(wishes, y, k) ==
    {w \in Epoch : w > y /\ Cardinality({s \in Oracle : wishes[s] >= w}) > k}

\* candidateEpochs[len(candidateEpochs)-(k+1)] of the sorted wishes above y, as
\* a singleton; 0 when there are no more than k of them.
Candidate(wishes, y, k) ==
    LET backed == Backed(wishes, y, k) IN
    IF backed = {} THEN {0} ELSE {w \in backed : \A v \in backed : v <= w}

Larger(x, y) == IF x < y THEN y ELSE x

\* sendNewEpochWish, which re-arms tResend.
SendNewEpochWish(o, w) == wire' = [wire EXCEPT ![o] = @ \cup {w}]

\* Mutant of Persist: the epoch that is left is written.
PersistOldEpoch(o, state) ==
    /\ stored' = [stored EXCEPT ![o] = [state EXCEPT !.epoch = e[o]]]
    /\ UNCHANGED failures

\* persist: a write that fails is logged and nothing else.
Persist(o, state) ==
    \/ /\ stored' = [stored EXCEPT ![o] = state]
       /\ UNCHANGED failures
    \/ /\ failures < MaxFailures
       /\ failures' = failures + 1
       /\ UNCHANGED stored
-----------------------------------------------------------------------------
Init ==
    /\ ne = [o \in Honest |-> 1]
    /\ e = [o \in Honest |-> 1]
    /\ newEpochWishes = [o \in Honest |-> [s \in Oracle |-> 0]]
    /\ tProgress = [o \in Honest |-> TRUE]
    /\ notifyOutcomeGenerationOfNewEpoch = [o \in Honest |-> TRUE]
    /\ firstWish = [o \in Honest |-> 1]
    /\ stored = [o \in Honest |-> NoState]
    /\ wire = [o \in Honest |-> {1}]
    /\ outgen = [o \in Honest |-> 0]
    /\ ask = [o \in Honest |-> "none"]
    /\ givenUp = {}
    /\ restarts = 0
    /\ failures = 0

\* Mutant of Restart: the wish is restored from the epoch.
RestartFromEpoch(o) ==
    /\ restarts < MaxRestarts
    /\ restarts' = restarts + 1
    /\ ne' = [ne EXCEPT ![o] = e[o]]
    /\ newEpochWishes' = [newEpochWishes EXCEPT ![o] = [s \in Oracle |-> 0]]
    /\ tProgress' = [tProgress EXCEPT ![o] = TRUE]
    /\ notifyOutcomeGenerationOfNewEpoch' =
           [notifyOutcomeGenerationOfNewEpoch EXCEPT ![o] = TRUE]
    /\ firstWish' = [firstWish EXCEPT ![o] = e[o]]
    /\ SendNewEpochWish(o, e[o])
    /\ outgen' = [outgen EXCEPT ![o] = 0]
    /\ ask' = [ask EXCEPT ![o] = "none"]
    /\ UNCHANGED <<e, stored, givenUp, failures>>

\* The process ends and a new one reads the database and broadcasts its wish.
\* To end between a write and the broadcast that follows it is the same: the
\* new process broadcasts what was written.
Restart(o) ==
    LET fresh == stored[o] = NoState
        restored == IF fresh THEN 1 ELSE stored[o].highestSentNewEpochWish
    IN
    /\ restarts < MaxRestarts
    /\ restarts' = restarts + 1
    /\ ne' = [ne EXCEPT ![o] = restored]
    /\ e' = [e EXCEPT ![o] = IF fresh THEN 1 ELSE stored[o].epoch]
    /\ newEpochWishes' = [newEpochWishes EXCEPT ![o] = [s \in Oracle |-> 0]]
    /\ tProgress' = [tProgress EXCEPT ![o] = TRUE]
    /\ notifyOutcomeGenerationOfNewEpoch' =
           [notifyOutcomeGenerationOfNewEpoch EXCEPT ![o] = TRUE]
    /\ firstWish' = [firstWish EXCEPT ![o] = restored]
    /\ SendNewEpochWish(o, restored)
    /\ outgen' = [outgen EXCEPT ![o] = 0]
    /\ ask' = [ask EXCEPT ![o] = "none"]
    /\ UNCHANGED <<stored, givenUp, failures>>

\* The event loop hands the current epoch to outcome generation when that one
\* is waiting for events and not blocked on one of its own.
NotifyNewEpochStart(o) ==
    /\ notifyOutcomeGenerationOfNewEpoch[o]
    /\ ask[o] = "none"
    /\ outgen' = [outgen EXCEPT ![o] = e[o]]
    /\ notifyOutcomeGenerationOfNewEpoch' =
           [notifyOutcomeGenerationOfNewEpoch EXCEPT ![o] = FALSE]
    /\ UNCHANGED <<ne, e, newEpochWishes, tProgress, firstWish, stored, wire,
                   ask, givenUp, envVars>>

\* Outcome generation commits in its epoch, or exhausts it, and blocks until the
\* pacemaker takes the event; meanwhile the pacemaker may change the epoch.
OutcomeGenerationSends(o, event) ==
    /\ outgen[o] # 0
    /\ ask[o] = "none"
    /\ ask' = [ask EXCEPT ![o] = event]
    /\ UNCHANGED <<paceVars, stored, wire, outgen, givenUp, envVars>>

EventProgress(o) ==
    /\ ask[o] = "progress"
    /\ ask' = [ask EXCEPT ![o] = "none"]
    /\ tProgress' = [tProgress EXCEPT ![o] = TRUE]
    /\ UNCHANGED <<ne, e, newEpochWishes, notifyOutcomeGenerationOfNewEpoch,
                   firstWish, stored, wire, outgen, givenUp, envVars>>

\* Mutant of NewEpochRequest: the wish is for the epoch after the last wish.
NewEpochRequestAgain(o) ==
    LET nePlusOne == (ne[o] + 1) % (MaxEpoch + 1) IN
    /\ tProgress' = [tProgress EXCEPT ![o] = FALSE]
    /\ e[o] < MaxEpoch
    /\ givenUp' = givenUp \cup {e[o]}
    /\ Persist(o, [epoch |-> e[o], highestSentNewEpochWish |-> nePlusOne])
    /\ ne' = [ne EXCEPT ![o] = nePlusOne]
    /\ SendNewEpochWish(o, nePlusOne)
    /\ UNCHANGED <<e, newEpochWishes, notifyOutcomeGenerationOfNewEpoch,
                   firstWish, outgen, restarts>>

\* eventNewEpochRequest: ne <- max{e + 1, ne}, unless e + 1 overflows.
NewEpochRequest(o) ==
    /\ tProgress' = [tProgress EXCEPT ![o] = FALSE]
    /\ \/ /\ e[o] = MaxEpoch
          /\ UNCHANGED <<ne, stored, wire, givenUp, failures>>
       \/ /\ e[o] < MaxEpoch
          /\ givenUp' = givenUp \cup {e[o]}
          /\ \/ /\ ne[o] < e[o] + 1
                /\ Persist(o, [epoch |-> e[o],
                               highestSentNewEpochWish |-> e[o] + 1])
                /\ ne' = [ne EXCEPT ![o] = e[o] + 1]
             \/ /\ ne[o] >= e[o] + 1
                /\ UNCHANGED <<ne, stored, failures>>
          /\ SendNewEpochWish(o, ne'[o])
    /\ UNCHANGED <<e, newEpochWishes, notifyOutcomeGenerationOfNewEpoch,
                   firstWish, outgen, restarts>>

EventNewEpochRequest(o) ==
    /\ ask[o] = "newEpochRequest"
    /\ ask' = [ask EXCEPT ![o] = "none"]
    /\ NewEpochRequest(o)

EventTProgressTimeout(o) ==
    /\ tProgress[o]
    /\ NewEpochRequest(o)
    /\ UNCHANGED ask

\* Mutant of EventTResendTimeout: the wish that is sent again is for the current
\* epoch.
ResendEpoch(o) ==
    /\ SendNewEpochWish(o, e[o])
    /\ UNCHANGED <<paceVars, stored, outgen, ask, givenUp, envVars>>

EventTResendTimeout(o) ==
    /\ SendNewEpochWish(o, ne[o])
    /\ UNCHANGED <<paceVars, stored, outgen, ask, givenUp, envVars>>

\* Mutant of StartEpoch: the timer is forgotten.
StartEpochWithoutTimer(o) ==
    /\ notifyOutcomeGenerationOfNewEpoch' =
           [notifyOutcomeGenerationOfNewEpoch EXCEPT ![o] = TRUE]
    /\ UNCHANGED tProgress

\* What starts with an epoch: the timer, and the event newEpochStart(e, l).
StartEpoch(o) ==
    /\ tProgress' = [tProgress EXCEPT ![o] = TRUE]
    /\ notifyOutcomeGenerationOfNewEpoch' =
           [notifyOutcomeGenerationOfNewEpoch EXCEPT ![o] = TRUE]

\* Somebody's wish arrives.  An oracle receives its own through a channel of the
\* process; that of another through the network.
Receivable(o, sender, w) ==
    \/ sender \in Faulty
    \/ sender \in Honest \ {o} /\ w \in wire[sender]
    \/ sender = o /\ w \in wire[o] /\ firstWish[o] <= w /\ w <= ne[o]

MessageNewEpochWish(o, sender, w) ==
    LET wishes == [newEpochWishes[o] EXCEPT ![sender] = Larger(@, w)] IN
    /\ Receivable(o, sender, w)
    /\ newEpochWishes' = [newEpochWishes EXCEPT ![o] = wishes]
    /\ \E wishForEpoch \in Candidate(wishes, ne[o], F),
          switchToEpoch \in Candidate(wishes, e[o], 2 * F) :
       LET nextE == IF switchToEpoch = 0 THEN e[o] ELSE switchToEpoch
           wished == IF wishForEpoch = 0 THEN ne[o] ELSE wishForEpoch
           nextNe == IF switchToEpoch = 0 THEN wished ELSE Larger(wished, nextE)
       IN
       /\ IF wishForEpoch # 0 \/ switchToEpoch # 0
          THEN Persist(o, [epoch |-> nextE,
                           highestSentNewEpochWish |-> Larger(wished, nextE)])
          ELSE UNCHANGED <<stored, failures>>
       /\ ne' = [ne EXCEPT ![o] = nextNe]
       /\ e' = [e EXCEPT ![o] = nextE]
       /\ IF wishForEpoch # 0
          THEN SendNewEpochWish(o, wishForEpoch)
          ELSE UNCHANGED wire
       /\ IF switchToEpoch # 0
          THEN StartEpoch(o)
          ELSE UNCHANGED <<tProgress, notifyOutcomeGenerationOfNewEpoch>>
    /\ UNCHANGED <<firstWish, outgen, ask, givenUp, restarts>>

\* The last copy of a wish is dropped: a full send queue, a closed connection.
Lose(o, w) ==
    /\ w \in wire[o]
    /\ wire' = [wire EXCEPT ![o] = @ \ {w}]
    /\ UNCHANGED <<paceVars, stored, outgen, ask, givenUp, envVars>>

Next ==
    \E o \in Honest :
        \/ Restart(o)
        \/ NotifyNewEpochStart(o)
        \/ OutcomeGenerationSends(o, "progress")
        \/ OutcomeGenerationSends(o, "newEpochRequest")
        \/ EventProgress(o)
        \/ EventNewEpochRequest(o)
        \/ EventTProgressTimeout(o)
        \/ EventTResendTimeout(o)
        \/ \E sender \in Oracle, w \in Epoch : MessageNewEpochWish(o, sender, w)
        \/ \E w \in Epoch : Lose(o, w)

Spec == Init /\ [][Next]_vars

\* tResend fires, and a wish that is sent again and again arrives at last; a wish
\* for the first epoch, in which everybody starts, need not.
NetworkFairness ==
    \A o \in Honest :
        /\ WF_vars(EventTResendTimeout(o))
        /\ \A sender \in Honest, w \in Epoch \ {1} :
               SF_vars(MessageNewEpochWish(o, sender, w))

NetworkSpec == Spec /\ NetworkFairness
-----------------------------------------------------------------------------
(***************************************************************************)
(* Safety.                                                                 *)
(***************************************************************************)
\* An oracle moves to an epoch (messageNewEpochWish) only when more than F
\* honest oracles wish for it or for a later one, and none of them forgets its
\* wish in a restart: all the others can be brought to follow.
EpochsAreBacked ==
    \A o \in Honest : Cardinality({h \in Honest : ne[h] >= e[o]}) > F

\* The faulty oracles cannot end an epoch: whatever epoch an honest oracle
\* wishes for, some honest oracle had asked to end the one before it or a later
\* one because its own timer fired or its own rounds were used up.
WishesAreDue ==
    \A o \in Honest : ne[o] = 1 \/ \E k \in givenUp : ne[o] <= k + 1

\* "ne is the highest epoch number this oracle has broadcast in a NewEpochWish
\* message" (pacemaker.go:101), in whatever process it did so: persist is called
\* before every broadcast of a new wish.
WishesAreRemembered ==
    \A o \in Honest : \A w \in wire[o] : w <= ne[o]

\* An epoch whose progress is not timed is one that the oracle has asked to leave
\* (eventTProgressTimeout disarms the timer, and messageNewEpochWish arms it for
\* the next epoch): no epoch is left to a leader for ever, but the last.
EpochsAreTimed ==
    \A o \in Honest : tProgress[o] \/ ne[o] > e[o] \/ e[o] = MaxEpoch

\* The pacemaker never returns to an epoch it has left, not even in a restart:
\* outcome generation relies on it not to vote in an epoch it has left.
EpochsNeverGoBack == [][\A o \in Honest : e'[o] >= e[o]]_vars
-----------------------------------------------------------------------------
(***************************************************************************)
(* Liveness.                                                               *)
(***************************************************************************)
\* Wishes are sent again until they are heard: when one honest oracle has moved
\* to an epoch, all of them do or move further.
EpochsSpread ==
    \A k \in Epoch \ {1} :
        (\E o \in Honest : e[o] >= k) ~> (\A o \in Honest : e[o] >= k)

\* tProgress fires in the end when no progress arms it again.
Stalled ==
    /\ <>[](\A o \in Honest : ask[o] # "progress")
    /\ \A o \in Honest : WF_vars(EventTProgressTimeout(o))

\* A leader with whom no progress is made is replaced (eventTProgressTimeout and
\* the wishes it causes), and so is each one after it.
StalledEpochsEnd == Stalled => <>(\A o \in Honest : e[o] = MaxEpoch)
=============================================================================

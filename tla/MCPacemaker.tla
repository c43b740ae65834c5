---------------------------- MODULE MCPacemaker ----------------------------
(***************************************************************************)
(* Instances of Pacemaker for TLC.                                         *)
(***************************************************************************)
EXTENDS Pacemaker, TLC

CONSTANTS A, B, C, D

\* The honest oracles are told apart by nothing.
HonestSymmetry == Permutations(Honest)

\* Action constraints.  A wish for the first epoch is neither received, for it
\* changes nothing, nor lost.
LaterWishesOnly ==
    \A o \in Honest :
        /\ 1 \in wire'[o]
        /\ \A s \in Oracle : newEpochWishes'[o][s] # 1

\* For the protocol between the oracles: outcome generation is left out.
NetworkOnly == LaterWishesOnly /\ outgen' = outgen

\* ... but that of one oracle may be in touch with its pacemaker while the others
\* are in the first epoch; nobody else then acts until that oracle restarts.
TouchOfOne ==
    /\ LaterWishesOnly
    /\ \A o \in Honest : outgen'[o] # 0 =>
           /\ restarts' = 0
           /\ \A h \in Honest \ {o} :
                  /\ e[h] = 1
                  /\ <<outgen[h], ne[h], newEpochWishes[h], tProgress[h]>>' =
                         <<0, ne[h], newEpochWishes[h], tProgress[h]>>

\* For liveness besides: a faulty oracle speaks to A alone, who may move first,
\* and the write of A may fail when it is the last to move.
FaultyToOne ==
    /\ NetworkOnly
    /\ failures' # failures =>
           \A o \in Honest : e'[o] = MaxEpoch /\ (e[o] = MaxEpoch \/ o = A)
    /\ \A o \in Honest \ {A}, s \in Faulty : newEpochWishes'[o][s] = 0

\* For invariants besides: a wish that is never received is not lost as well.
NoLoss == TouchOfOne /\ \A o \in Honest : wire[o] \subseteq wire'[o]

\* ... a faulty oracle wishes for the last epoch alone, and is heard when that
\* makes a difference, which it makes later as well; an oracle in the last epoch,
\* in which nothing makes a difference, may restart and does nothing else.
FaultyWishesLast ==
    /\ NoLoss
    /\ \A o \in Honest, s \in Faulty :
           newEpochWishes'[o][s] \in {0, newEpochWishes[o][s]}
           \/ (newEpochWishes'[o][s] = MaxEpoch /\ <<e, ne>>' # <<e, ne>>)
    /\ \A o \in Honest :
           e[o] = MaxEpoch /\ restarts' = restarts =>
               newEpochWishes'[o] = newEpochWishes[o] /\ tProgress'[o]
=============================================================================

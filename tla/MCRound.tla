------------------------------- MODULE MCRound -------------------------------
(***************************************************************************)
(* Instances of Round for TLC.                                             *)
(***************************************************************************)
EXTENDS Round, TLC

CONSTANTS A, B, C, D, q1, q2

\* Action constraint.  An honest leader's queries are all alike.  A faulty leader
\* sends a message when the receiver acts on it, which it may do with any message:
\* one that waits in a pool or is refused does no more than one not sent.  It runs
\* one round.
ToThePoint ==
    /\ leader \in Honest => query' \in {NoQuery, q1}
    /\ leader \in Faulty =>
           \A o \in Honest :
               follower'[o] # follower[o] =>
                   /\ follower'[o].phase # follower[o].phase
                   /\ follower[o].committedSeqNr = 0
=============================================================================

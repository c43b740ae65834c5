------------------------ MODULE MCReportAttestation ------------------------
(***************************************************************************)
(* Instances of ReportAttestation for TLC.                                 *)
(***************************************************************************)
EXTENDS ReportAttestation, TLC

CONSTANTS A, B, C, D

\* The honest oracles that are not watched are told apart by nothing.
OthersSymmetry == Permutations(Honest \ Watched)

\* Action constraint: the outcomes are committed, and requests are answered, before
\* anything else happens, which only enables more; nobody asks a watched oracle; a
\* process is restarted before it has asked anybody, and then a faulty oracle sends
\* it no signatures.
EarlyEvents ==
    /\ decided' = MaxSeqNr \/ (signed' = signed /\ rounds' = rounds)
    /\ \A req \in requests :
           \/ req.to \in Faulty \cup Watched
           \/ [from |-> req.to, to |-> req.from, seqNr |-> req.seqNr] \in answers'
    /\ \A ans \in answers' : ans.to \in Watched
    /\ restarts' # restarts => requests = {}
    /\ restarts' > 0 => \A o \in Watched, s \in SeqNr, q \in Faulty :
           (rounds')[o][s] # NoRound => (rounds')[o][s].signatures[q] = "none"
=============================================================================

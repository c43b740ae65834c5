------------------------- MODULE ReportAttestation -------------------------
(***************************************************************************)
(* The OCR3 report attestation protocol: the oracles exchange signatures   *)
(* on the reports of each committed outcome until one has more than F of   *)
(* them, and an oracle that has the signatures but missed the outcome      *)
(* fetches its certificate from one of the signers.                        *)
(*                                                                         *)
(* Of the oracles in Watched the whole state is kept.  Of the other honest *)
(* ones only what a watched oracle notices of them is: that they sign the  *)
(* reports of a committed outcome and answer requests for its certificate. *)
(* Messages are never withdrawn, so they may be lost, late, or seen twice. *)
(***************************************************************************)
EXTENDS ByzQuorum

CONSTANTS
    Watched,        \* the honest oracles whose state is kept
    Reporting,      \* the sequence numbers whose outcomes make reports
    ExpiryRounds,   \* rounds after which a round is dropped (expiryRounds)
    LookaheadRounds,\* rounds that an oracle may be behind (lookaheadRounds)
    MaxSeqNr,       \* bound: the last sequence number
    MaxRestarts     \* bound: how many times a process is restarted

SeqNr == 1..MaxSeqNr

ASSUME AttestationAssumption ==
    /\ Watched \subseteq Honest
    /\ ExpiryRounds \in Nat
    /\ LookaheadRounds \in Nat
    /\ MaxSeqNr \in Nat
    /\ MaxRestarts \in Nat
    /\ Reporting \subseteq SeqNr

VARIABLES
    decided,    \* the outcomes up to this one are committed by somebody
    \* reportAttestationState of the watched oracles
    rounds, highestAttestedSeqNr, highestReportSignaturesSeqNr,
    missing,    \* the scheduled EventMissingOutcomes
    loopback,   \* own MessageReportSignatures not yet received
    commitSeen, \* the last outcome that the outcome generation has handed over
    panicked,   \* the process has dereferenced a nil round
    attested,   \* how often this process attested the reports of a round, up to 2
    \* the messages sent
    signed, requests, answers,
    restarts

volatile == <<rounds, highestAttestedSeqNr, highestReportSignaturesSeqNr,
              missing, loopback, attested>>
vars == <<decided, volatile, commitSeen, panicked, signed, requests, answers,
          restarts>>

Signatures == {"none", "valid", "invalid"}

\* A round of the map, with the certificate and the reports made from it or
\* without either.
Round == [certified : BOOLEAN,
          signatures : [Oracle -> Signatures],
          weRequested : SUBSET Oracle,
          theyServiced : SUBSET Oracle,
          weServiced : SUBSET Oracle,
          startedFetch : BOOLEAN,
          complete : BOOLEAN]

\* The map has no entry.
NoRound == [absent |-> TRUE]

EmptyRound == [certified |-> FALSE,
               signatures |-> [q \in Oracle |-> "none"],
               weRequested |-> {},
               theyServiced |-> {},
               weServiced |-> {},
               startedFetch |-> FALSE,
               complete |-> FALSE]

\* MessageCertifiedCommitRequest and MessageCertifiedCommit.
CertMessage == [from : Honest, to : Oracle, seqNr : SeqNr]

TypeOK ==
    /\ decided \in 0..MaxSeqNr
    /\ rounds \in [Watched -> [SeqNr -> Round \cup {NoRound}]]
    /\ highestAttestedSeqNr \in [Watched -> 0..MaxSeqNr]
    /\ highestReportSignaturesSeqNr \in [Watched -> [Oracle -> 0..MaxSeqNr]]
    /\ missing \in [Watched -> SUBSET SeqNr]
    /\ loopback \in [Watched -> SUBSET SeqNr]
    /\ commitSeen \in [Watched -> 0..MaxSeqNr]
    /\ panicked \in [Watched -> BOOLEAN]
    /\ attested \in [Watched -> [SeqNr -> 0..2]]
    /\ signed \in [Honest -> SUBSET SeqNr]
    /\ requests \subseteq CertMessage
    /\ answers \subseteq CertMessage
    /\ restarts \in 0..MaxRestarts
-----------------------------------------------------------------------------
\* Whether a round is dropped for its age.
BeyondExpiry(highest, s) == highest > ExpiryRounds /\ s < highest - ExpiryRounds

\* The rounds that no oracle ever drops.
Kept == {s \in SeqNr : \A t \in Reporting : ~BeyondExpiry(t, s)}

\* Mutant of BeyondLookahead: by the largest sequence number of all.
BeyondLargest(heights, s) ==
    /\ s > LookaheadRounds
    /\ \A q \in Oracle : heights[q] < s - LookaheadRounds

\* Whether the (F+1)-th largest of the sequence numbers that signatures have come
\* for is too far below s: not more than F oracles have come near it.
BeyondLookahead(heights, s) ==
    /\ s > LookaheadRounds
    /\ Cardinality({q \in Oracle : heights[q] >= s - LookaheadRounds}) <= F

Signers(r) == {q \in Oracle : r.signatures[q] # "none"}
ValidSigners(r) == {q \in Oracle : r.signatures[q] = "valid"}

\* reap: the expired rounds go when they are more than about a third of the map.
Reap(map, highest) ==
    IF 3 * Cardinality({s \in SeqNr : map[s] # NoRound})
           <= 4 * (ExpiryRounds + LookaheadRounds)
    THEN map
    ELSE [s \in SeqNr |-> IF BeyondExpiry(highest, s) THEN NoRound ELSE map[s]]

\* Mutant of HighestAttested: one too high.
NextAttested(highest, s) == s + 1

HighestAttested(highest, s) == IF highest < s THEN s ELSE highest

\* tryComplete, of round s of oracle o once it has become r.
TryComplete(o, s, r) ==
    \/ /\ r.complete
       /\ rounds' = [rounds EXCEPT ![o][s] = r]
       /\ UNCHANGED <<missing, highestAttestedSeqNr, attested>>
    \/ /\ ~r.complete /\ ~r.certified
       /\ LET fetch == Cardinality(Signers(r)) > F /\ ~r.startedFetch IN
          /\ rounds' = [rounds EXCEPT ![o][s] =
                            [r EXCEPT !.startedFetch = @ \/ fetch]]
          /\ missing' = [missing EXCEPT ![o] = IF fetch THEN @ \cup {s} ELSE @]
       /\ UNCHANGED <<highestAttestedSeqNr, attested>>
    \/ /\ ~r.complete /\ r.certified
       /\ Cardinality(ValidSigners(r)) <= F
       /\ rounds' = [rounds EXCEPT ![o][s] = r]
       /\ UNCHANGED <<missing, highestAttestedSeqNr, attested>>
    \/ /\ ~r.complete /\ r.certified
       /\ Cardinality(ValidSigners(r)) > F
       /\ LET highest == HighestAttested(highestAttestedSeqNr[o], s)
              completed == [rounds[o] EXCEPT ![s] = [r EXCEPT !.complete = TRUE]]
          IN
          /\ highestAttestedSeqNr' = [highestAttestedSeqNr EXCEPT ![o] = highest]
          /\ rounds' = [rounds EXCEPT ![o] = Reap(completed, highest)]
       /\ attested' = [attested EXCEPT ![o][s] = IF @ = 0 THEN 1 ELSE 2]
       /\ UNCHANGED missing

\* Mutant of ReceivedCertifiedCommit: the oracle does not send its signatures to
\* itself.
ReceivedWithoutLoopback(o, s, r) ==
    /\ rounds' = [rounds EXCEPT ![o][s] =
                      [r EXCEPT !.certified = @ \/ s \in Reporting]]
    /\ signed' = [signed EXCEPT ![o] = IF s \in Reporting THEN @ \cup {s} ELSE @]
    /\ UNCHANGED loopback

\* receivedCertifiedCommit, of round s of oracle o that otherwise becomes r.  The
\* plugin returns no reports for some outcomes; then the certificate is dropped.
ReceivedCertifiedCommit(o, s, r) ==
    IF r.certified \/ s \notin Reporting
    THEN /\ rounds' = [rounds EXCEPT ![o][s] = r]
         /\ UNCHANGED <<signed, loopback>>
    ELSE /\ rounds' = [rounds EXCEPT ![o][s] = [r EXCEPT !.certified = TRUE]]
         /\ signed' = [signed EXCEPT ![o] = @ \cup {s}]
         /\ loopback' = [loopback EXCEPT ![o] = @ \cup {s}]
-----------------------------------------------------------------------------
Init ==
    /\ decided = 0
    /\ rounds = [o \in Watched |-> [s \in SeqNr |-> NoRound]]
    /\ highestAttestedSeqNr = [o \in Watched |-> 0]
    /\ highestReportSignaturesSeqNr = [o \in Watched |-> [q \in Oracle |-> 0]]
    /\ missing = [o \in Watched |-> {}]
    /\ loopback = [o \in Watched |-> {}]
    /\ commitSeen = [o \in Watched |-> 0]
    /\ panicked = [o \in Watched |-> FALSE]
    /\ attested = [o \in Watched |-> [s \in SeqNr |-> 0]]
    /\ signed = [h \in Honest |-> {}]
    /\ requests = {}
    /\ answers = {}
    /\ restarts = 0

\* The outcome generation of some oracle commits the next outcome.
Decide ==
    /\ decided < MaxSeqNr
    /\ decided' = decided + 1
    /\ UNCHANGED <<volatile, commitSeen, panicked, signed, requests, answers,
                   restarts>>

\* The report attestation of another honest oracle receives the certificate.
OtherSigns(h, s) ==
    /\ s <= decided
    /\ s \in Reporting \ signed[h]
    /\ signed' = [signed EXCEPT ![h] = @ \cup {s}]
    /\ UNCHANGED <<decided, volatile, commitSeen, panicked, requests, answers,
                   restarts>>

\* ... and answers a request for it, the first one of each oracle; unless it has
\* dropped the round or was restarted: it may never.
OtherAnswers(h, req) ==
    /\ req.to = h
    /\ req.seqNr \in signed[h]
    /\ answers' = answers \cup {[from |-> h, to |-> req.from, seqNr |-> req.seqNr]}
    /\ UNCHANGED <<decided, volatile, commitSeen, panicked, signed, requests,
                   restarts>>

EventCommittedOutcome(o, s) ==
    /\ commitSeen[o] < s /\ s <= decided
    /\ commitSeen' = [commitSeen EXCEPT ![o] = s]
    /\ \/ /\ rounds[o][s] = NoRound
          /\ s \in Reporting
          /\ ReceivedCertifiedCommit(o, s, EmptyRound)
       \/ /\ rounds[o][s] = NoRound
          /\ s \notin Reporting
          /\ UNCHANGED <<rounds, signed, loopback>>
       \/ /\ rounds[o][s] # NoRound
          /\ ReceivedCertifiedCommit(o, s, rounds[o][s])
    /\ UNCHANGED <<decided, highestAttestedSeqNr, highestReportSignaturesSeqNr,
                   missing, panicked, attested, requests, answers, restarts>>

\* What a sender may send: its own message comes through the loopback, and a
\* faulty oracle may send no signatures in it.
SignaturesFrom(o, sender, s) ==
    {x \in Signatures :
        \/ sender \in Faulty
        \/ x = "valid" /\ s \in (IF sender = o THEN loopback[o] ELSE signed[sender])}

\* Mutant of Expired: off by one from what reap drops.
ExpiredLate(o, s) == BeyondExpiry(highestAttestedSeqNr[o], s + 1)

Expired(o, s) == BeyondExpiry(highestAttestedSeqNr[o], s)

MessageReportSignatures(o, sender, s) ==
    LET r == IF rounds[o][s] = NoRound THEN EmptyRound ELSE rounds[o][s]
        heights == [highestReportSignaturesSeqNr[o] EXCEPT
                        ![sender] = IF @ < s THEN s ELSE @]
    IN
    \E signatures \in SignaturesFrom(o, sender, s) :
        /\ loopback' = IF sender = o THEN [loopback EXCEPT ![o] = @ \ {s}]
                       ELSE loopback
        /\ \/ /\ Expired(o, s)
              /\ UNCHANGED <<rounds, missing, highestAttestedSeqNr, attested,
                             highestReportSignaturesSeqNr>>
           \/ /\ ~Expired(o, s)
              /\ highestReportSignaturesSeqNr' =
                     [highestReportSignaturesSeqNr EXCEPT ![o] = heights]
              /\ \/ /\ BeyondLookahead(heights, s)
                    /\ UNCHANGED <<rounds, missing, highestAttestedSeqNr, attested>>
                 \/ /\ ~BeyondLookahead(heights, s)
                    /\ r.signatures[sender] # "none"
                    /\ UNCHANGED <<rounds, missing, highestAttestedSeqNr, attested>>
                 \/ /\ ~BeyondLookahead(heights, s)
                    /\ r.signatures[sender] = "none"
                    /\ TryComplete(o, s,
                           [r EXCEPT !.signatures[sender] = signatures])
        /\ UNCHANGED <<decided, commitSeen, panicked, signed, requests, answers,
                       restarts>>

\* tryRequestCertifiedCommit, with q the candidate picked.
RequestCertifiedCommit(o, s, q) ==
    /\ rounds' = [rounds EXCEPT ![o][s].weRequested = @ \cup {q}]
    /\ requests' = requests \cup {[from |-> o, to |-> q, seqNr |-> s]}

\* Mutant of EventMissingOutcome: the certificate is asked for once.
EventMissingOutcomeOnce(o, s) ==
    LET r == rounds[o][s] IN
    /\ s \in missing[o]
    /\ r # NoRound
    /\ missing' = [missing EXCEPT ![o] = @ \ {s}]
    /\ ~r.certified
    /\ \E q \in Signers(r) : RequestCertifiedCommit(o, s, q)
    /\ UNCHANGED <<decided, highestAttestedSeqNr, highestReportSignaturesSeqNr,
                   loopback, commitSeen, panicked, attested, signed, answers,
                   restarts>>

\* The delay after which the certificate is asked for, or asked for again, is
\* over.  An oracle that has the certificate does not ask; one that has asked all
\* signers stops.
EventMissingOutcome(o, s) ==
    LET r == rounds[o][s]
        candidates == Signers(r) \ r.weRequested
    IN
    /\ s \in missing[o]
    /\ \/ /\ r = NoRound
          /\ panicked' = [panicked EXCEPT ![o] = TRUE]
          /\ UNCHANGED <<rounds, missing, requests>>
       \/ /\ r # NoRound
          /\ r.certified \/ candidates = {}
          /\ missing' = [missing EXCEPT ![o] = @ \ {s}]
          /\ UNCHANGED <<rounds, panicked, requests>>
       \/ /\ r # NoRound
          /\ ~r.certified
          /\ \E q \in candidates : RequestCertifiedCommit(o, s, q)
          /\ UNCHANGED <<missing, panicked>>
    /\ UNCHANGED <<decided, highestAttestedSeqNr, highestReportSignaturesSeqNr,
                   loopback, commitSeen, attested, signed, answers, restarts>>

\* Another oracle, of which the requests are not kept, may ask at any time.
MessageCertifiedCommitRequest(o, sender, s) ==
    LET r == rounds[o][s] IN
    /\ sender \in Watched => [from |-> sender, to |-> o, seqNr |-> s] \in requests
    /\ r # NoRound
    /\ r.certified
    /\ sender \notin r.weServiced
    /\ rounds' = [rounds EXCEPT ![o][s].weServiced = @ \cup {sender}]
    /\ answers' = answers \cup {[from |-> o, to |-> sender, seqNr |-> s]}
    /\ UNCHANGED <<decided, highestAttestedSeqNr, highestReportSignaturesSeqNr,
                   missing, loopback, attested, commitSeen, panicked, signed,
                   requests, restarts>>

\* A certificate for round s comes from an honest oracle that was asked, or
\* anything from a faulty one; verifies tells whether it is one.
MessageCertifiedCommit(o, sender, s, verifies) ==
    LET r == rounds[o][s] IN
    /\ \/ verifies /\ [from |-> sender, to |-> o, seqNr |-> s] \in answers
       \/ sender \in Faulty /\ (verifies => s <= decided)
    /\ r # NoRound
    /\ sender \in r.weRequested \ r.theyServiced
    /\ LET serviced == [r EXCEPT !.theyServiced = @ \cup {sender}] IN
       IF verifies
       THEN ReceivedCertifiedCommit(o, s, serviced)
       ELSE /\ rounds' = [rounds EXCEPT ![o][s] = serviced]
            /\ UNCHANGED <<signed, loopback>>
    /\ UNCHANGED <<decided, highestAttestedSeqNr, highestReportSignaturesSeqNr,
                   missing, attested, commitSeen, panicked, requests, answers,
                   restarts>>

\* The process is restarted: report attestation keeps nothing in the database, and
\* outcome generation commits again what its next epoch starts from.
Restart(o) ==
    /\ restarts < MaxRestarts
    /\ restarts' = restarts + 1
    /\ rounds' = [rounds EXCEPT ![o] = [s \in SeqNr |-> NoRound]]
    /\ highestAttestedSeqNr' = [highestAttestedSeqNr EXCEPT ![o] = 0]
    /\ highestReportSignaturesSeqNr' =
           [highestReportSignaturesSeqNr EXCEPT ![o] = [q \in Oracle |-> 0]]
    /\ missing' = [missing EXCEPT ![o] = {}]
    /\ loopback' = [loopback EXCEPT ![o] = {}]
    /\ attested' = [attested EXCEPT ![o] = [s \in SeqNr |-> 0]]
    /\ commitSeen' = [commitSeen EXCEPT ![o] = 0]
    /\ UNCHANGED <<decided, panicked, signed, requests, answers>>

StepOf(o) ==
    /\ ~panicked[o]
    /\ \/ Restart(o)
       \/ \E s \in SeqNr :
              \/ EventCommittedOutcome(o, s)
              \/ EventMissingOutcome(o, s)
              \/ \E sender \in Oracle :
                     \/ MessageReportSignatures(o, sender, s)
                     \/ MessageCertifiedCommitRequest(o, sender, s)
                     \/ \E verifies \in BOOLEAN :
                            MessageCertifiedCommit(o, sender, s, verifies)

Next ==
    \/ Decide
    \/ \E h \in Honest \ Watched :
           \/ \E s \in SeqNr : OtherSigns(h, s)
           \/ \E req \in requests : OtherAnswers(h, req)
    \/ \E o \in Watched : StepOf(o)

Spec == Init /\ [][Next]_vars

\* The messages of honest oracles arrive, they answer requests about rounds that
\* they have not dropped, and the timers of the scheduler fire.  Where no message is
\* dropped for its sequence number, each has to arrive once only.
Fairness ==
    /\ \A h \in Honest \ Watched, o \in Watched, s \in Kept :
           WF_vars(OtherAnswers(h, [from |-> o, to |-> h, seqNr |-> s])
                   /\ [from |-> o, to |-> h, seqNr |-> s] \in requests)
    /\ \A o \in Watched, s \in SeqNr :
           /\ WF_vars(EventMissingOutcome(o, s))
           /\ \A h \in Honest :
                  /\ WF_vars(MessageReportSignatures(o, h, s))
                  /\ WF_vars(MessageCertifiedCommit(o, h, s, TRUE))

FairSpec == Spec /\ Fairness
-----------------------------------------------------------------------------
\* No process attests the reports of a sequence number twice, however late
\* signatures and certificates come: a round that reap has dropped is not opened
\* again by isBeyondExpiry.  Transmission would otherwise transmit it again.
AttestedOnce == \A o \in Watched, s \in SeqNr : attested[o][s] < 2

\* A round that has a certificate and enough valid signatures is complete, or the
\* oracle's own signatures are still to come, whose receipt calls tryComplete, as
\* the end of receivedCertifiedCommit claims.  It holds although those may be
\* dropped for lookahead: then others are missing too.
CompletesWhenPossible ==
    \A o \in Watched, s \in SeqNr :
        LET r == rounds[o][s] IN
        r # NoRound =>
            \/ ~r.certified \/ Cardinality(ValidSigners(r)) <= F
            \/ r.complete \/ s \in loopback[o]
            \/ BeyondExpiry(highestAttestedSeqNr[o], s)

\* Faulty oracles alone do not make the map of rounds grow: a round is open only
\* near a sequence number whose reports an honest oracle has signed, because
\* isBeyondLookahead goes by the (F+1)-th largest one.
RoundsAreNear ==
    \A o \in Watched, s \in SeqNr :
        \/ rounds[o][s] = NoRound
        \/ s <= LookaheadRounds
        \/ \E h \in Honest : \E t \in signed[h] : s <= t + LookaheadRounds

\* A scheduled EventMissingOutcome is about a round of the map, as the handlers of
\* the other messages about rounds make sure (report_attestation.go:174 and 200).
NoPanic == \A o \in Watched : ~panicked[o]

\* Reports that more than F honest oracles have signed are attested by every
\* oracle: one that missed the outcome fetches its certificate, though faulty
\* oracles that it asks do not answer (tryRequestCertifiedCommit).  Of a round that
\* the signers may have dropped nobody need answer (report_attestation.go:174).
AttestationsSpread ==
    \A s \in Kept, o \in Watched :
        Cardinality({h \in Honest : s \in signed[h]}) > F
            ~> attested[o][s] > 0
=============================================================================

----------------------- MODULE ReportAttestationSafety -----------------------
(***************************************************************************)
(* What report attestation guarantees for every instance: any number of    *)
(* oracles, rounds and restarts, and windows of any size.                  *)
(***************************************************************************)
EXTENDS ReportAttestation, ByzQuorumProofs

\* An entry of the map of rounds is told apart from no entry.
LEMMA NoRoundIsNoRound == NoRound \notin Round
<1>1. SUFFICES ASSUME NoRound \in Round
               PROVE  FALSE
  OBVIOUS
<1>2. DOMAIN NoRound = {"absent"}
  BY DEF NoRound
<1>3. \A r \in Round : "certified" \in DOMAIN r
  BY DEF Round
<1>4. QED
  BY <1>1, <1>2, <1>3

LEMMA EmptyRoundType == EmptyRound \in Round
  BY DEF EmptyRound, Round, Signatures

\* The conversions of the types of rounds and of what tells the sequence numbers.
LEMMA SeqNrType ==
    /\ SeqNr \subseteq Nat
    /\ SeqNr \subseteq 0..MaxSeqNr
    /\ 0 \in 0..MaxSeqNr
    /\ Watched \subseteq Honest
    /\ Watched \subseteq Oracle
    /\ Honest \subseteq Oracle
    /\ Honest \cap Faulty = {}
    /\ F \in Nat /\ ExpiryRounds \in Nat /\ LookaheadRounds \in Nat
    /\ MaxSeqNr \in Nat /\ MaxRestarts \in Nat
  BY AttestationAssumption, OracleAssumption DEF SeqNr, Honest
-----------------------------------------------------------------------------
(* Types *)

\* What the handlers make of a round is a round.
LEMMA RoundUpdates ==
    ASSUME NEW r \in Round, NEW q \in Oracle
    PROVE  /\ r.certified \in BOOLEAN /\ r.startedFetch \in BOOLEAN
           /\ r.complete \in BOOLEAN
           /\ r.signatures \in [Oracle -> Signatures]
           /\ [r EXCEPT !.certified = TRUE] \in Round
           /\ [r EXCEPT !.complete = TRUE] \in Round
           /\ \A b \in BOOLEAN : [r EXCEPT !.startedFetch = b] \in Round
           /\ \A x \in Signatures : [r EXCEPT !.signatures[q] = x] \in Round
           /\ [r EXCEPT !.weRequested = @ \cup {q}] \in Round
           /\ [r EXCEPT !.theyServiced = @ \cup {q}] \in Round
           /\ [r EXCEPT !.weServiced = @ \cup {q}] \in Round
  BY DEF Round

\* The map of the rounds of an oracle.
Map == [SeqNr -> Round \cup {NoRound}]

LEMMA ReapType ==
    ASSUME NEW map \in Map, NEW highest
    PROVE  Reap(map, highest) \in Map
  BY DEF Reap, Map

\* A step that writes one round of one oracle keeps the type of the rounds.
LEMMA WriteType ==
    ASSUME TypeOK, NEW o \in Watched, NEW s \in SeqNr, NEW r \in Round,
           rounds' = [rounds EXCEPT ![o][s] = r]
    PROVE  rounds' \in [Watched -> Map]
  BY DEF TypeOK, Map

LEMMA TryCompleteType ==
    ASSUME TypeOK, NEW o \in Watched, NEW s \in SeqNr, NEW r \in Round,
           TryComplete(o, s, r)
    PROVE  /\ rounds' \in [Watched -> Map]
           /\ highestAttestedSeqNr' \in [Watched -> 0..MaxSeqNr]
           /\ missing' \in [Watched -> SUBSET SeqNr]
           /\ attested' \in [Watched -> [SeqNr -> 0..2]]
<1> USE DEF TypeOK
<1>0. s \in 0..MaxSeqNr
  BY SeqNrType
<1>1. CASE r.complete \/ (r.certified /\ Cardinality(ValidSigners(r)) <= F)
  <2>1. rounds' = [rounds EXCEPT ![o][s] = r]
        /\ UNCHANGED <<missing, highestAttestedSeqNr, attested>>
    <3>1. CASE r.complete
      BY <3>1 DEF TryComplete
    <3>2. CASE ~r.complete
      <4>1. Cardinality(ValidSigners(r)) \in Nat
        <5>1. IsFiniteSet(ValidSigners(r))
          BY OracleAssumption, FS_Subset DEF ValidSigners
        <5>2. QED
          BY <5>1, FS_CardinalityType
      <4>2. r.certified /\ ~(Cardinality(ValidSigners(r)) > F)
        BY <1>1, <3>2, <4>1, SeqNrType
      <4>3. QED
        BY <3>2, <4>2 DEF TryComplete
    <3>3. QED
      BY <3>1, <3>2
  <2>2. QED
    BY <2>1, WriteType
<1>2. CASE ~r.complete /\ ~r.certified
  <2> DEFINE fetch == Cardinality(Signers(r)) > F /\ ~r.startedFetch
  <2>1. /\ rounds' = [rounds EXCEPT ![o][s] =
                          [r EXCEPT !.startedFetch = @ \/ fetch]]
        /\ missing' = [missing EXCEPT ![o] = IF fetch THEN @ \cup {s} ELSE @]
        /\ UNCHANGED <<highestAttestedSeqNr, attested>>
    BY <1>2 DEF TryComplete
  <2>2. (r.startedFetch \/ fetch) \in BOOLEAN
    OBVIOUS
  <2> HIDE DEF fetch
  <2>3. [r EXCEPT !.startedFetch = @ \/ fetch] \in Round
    BY <2>2, RoundUpdates DEF Round
  <2>4. rounds' \in [Watched -> Map]
    BY <2>1, <2>3, WriteType
  <2>5. missing' \in [Watched -> SUBSET SeqNr]
    BY <2>1
  <2>6. QED
    BY <2>1, <2>4, <2>5
<1>3. CASE ~r.complete /\ r.certified /\ ~(Cardinality(ValidSigners(r)) <= F)
  <2> DEFINE highest == HighestAttested(highestAttestedSeqNr[o], s)
             completed == [rounds[o] EXCEPT ![s] = [r EXCEPT !.complete = TRUE]]
  <2>1. /\ highestAttestedSeqNr' = [highestAttestedSeqNr EXCEPT ![o] = highest]
        /\ rounds' = [rounds EXCEPT ![o] = Reap(completed, highest)]
        /\ attested' = [attested EXCEPT ![o][s] = IF @ = 0 THEN 1 ELSE 2]
        /\ UNCHANGED missing
    BY <1>3 DEF TryComplete
  <2>2. highest \in 0..MaxSeqNr
    BY <1>0 DEF HighestAttested
  <2>3. [r EXCEPT !.complete = TRUE] \in Round
    BY RoundUpdates DEF Round
  <2>4. completed \in Map
    BY <2>3 DEF Map
  <2> HIDE DEF highest, completed
  <2>5. Reap(completed, highest) \in Map
    BY <2>4, ReapType
  <2>6. rounds' \in [Watched -> Map]
    BY <2>1, <2>5 DEF Map
  <2>7. highestAttestedSeqNr' \in [Watched -> 0..MaxSeqNr]
    BY <2>1, <2>2
  <2>8. attested' \in [Watched -> [SeqNr -> 0..2]]
    BY <2>1
  <2>9. QED
    BY <2>1, <2>6, <2>7, <2>8
<1>4. QED
  BY <1>1, <1>2, <1>3

LEMMA ReceivedType ==
    ASSUME TypeOK, NEW o \in Watched, NEW s \in SeqNr, NEW r \in Round,
           ReceivedCertifiedCommit(o, s, r)
    PROVE  /\ rounds' \in [Watched -> Map]
           /\ signed' \in [Honest -> SUBSET SeqNr]
           /\ loopback' \in [Watched -> SUBSET SeqNr]
<1>1. CASE r.certified \/ s \notin Reporting
  <2>1. rounds' = [rounds EXCEPT ![o][s] = r] /\ UNCHANGED <<signed, loopback>>
    BY <1>1 DEF ReceivedCertifiedCommit
  <2>2. QED
    BY <2>1, WriteType DEF TypeOK
<1>2. CASE ~(r.certified \/ s \notin Reporting)
  <2>1. /\ rounds' = [rounds EXCEPT ![o][s] = [r EXCEPT !.certified = TRUE]]
        /\ signed' = [signed EXCEPT ![o] = @ \cup {s}]
        /\ loopback' = [loopback EXCEPT ![o] = @ \cup {s}]
    BY <1>2 DEF ReceivedCertifiedCommit
  <2>2. [r EXCEPT !.certified = TRUE] \in Round
    BY DEF Round
  <2>3. rounds' \in [Watched -> Map]
    BY <2>1, <2>2, WriteType
  <2>4. QED
    BY <2>1, <2>3, SeqNrType DEF TypeOK
<1>3. QED
  BY <1>1, <1>2
LEMMA InitType == Init => TypeOK
  BY SeqNrType DEF Init, TypeOK

\* The round that signatures are stored in.
RoundOrEmpty(o, s) == IF rounds[o][s] = NoRound THEN EmptyRound ELSE rounds[o][s]

LEMMA RoundOrEmptyType ==
    ASSUME TypeOK, NEW o \in Watched, NEW s \in SeqNr
    PROVE  /\ RoundOrEmpty(o, s) \in Round
           /\ rounds[o][s] # NoRound => rounds[o][s] \in Round
  BY EmptyRoundType DEF RoundOrEmpty, TypeOK

\* The sequence numbers that signatures have come for, s from sender included.
Heights(o, sender, s) ==
    [highestReportSignaturesSeqNr[o] EXCEPT ![sender] = IF @ < s THEN s ELSE @]

\* The three ways in which signatures are received.
LEMMA ReceptionCases ==
    ASSUME NEW o, NEW sender, NEW s, MessageReportSignatures(o, sender, s)
    PROVE  \E signatures \in SignaturesFrom(o, sender, s) :
             /\ loopback' = IF sender = o THEN [loopback EXCEPT ![o] = @ \ {s}]
                            ELSE loopback
             /\ UNCHANGED <<decided, commitSeen, panicked, signed, requests,
                            answers, restarts>>
             /\ \/ /\ Expired(o, s)
                   /\ UNCHANGED <<rounds, missing, highestAttestedSeqNr, attested,
                                  highestReportSignaturesSeqNr>>
                \/ /\ ~Expired(o, s)
                   /\ highestReportSignaturesSeqNr' =
                          [highestReportSignaturesSeqNr EXCEPT
                               ![o] = Heights(o, sender, s)]
                   /\ \/ BeyondLookahead(Heights(o, sender, s), s)
                      \/ RoundOrEmpty(o, s).signatures[sender] # "none"
                   /\ UNCHANGED <<rounds, missing, highestAttestedSeqNr, attested>>
                \/ /\ ~Expired(o, s)
                   /\ highestReportSignaturesSeqNr' =
                          [highestReportSignaturesSeqNr EXCEPT
                               ![o] = Heights(o, sender, s)]
                   /\ ~BeyondLookahead(Heights(o, sender, s), s)
                   /\ RoundOrEmpty(o, s).signatures[sender] = "none"
                   /\ TryComplete(o, s,
                          [RoundOrEmpty(o, s) EXCEPT
                               !.signatures[sender] = signatures])
  BY Zenon DEF MessageReportSignatures, RoundOrEmpty, Heights

LEMMA HeightsType ==
    ASSUME TypeOK, NEW o \in Watched, NEW sender \in Oracle, NEW s \in SeqNr
    PROVE  Heights(o, sender, s) \in [Oracle -> 0..MaxSeqNr]
  BY SeqNrType DEF TypeOK, Heights

LEMMA ReceptionType ==
    ASSUME TypeOK, NEW o \in Watched, NEW sender \in Oracle, NEW s \in SeqNr,
           MessageReportSignatures(o, sender, s)
    PROVE  TypeOK'
<1>1. PICK signatures \in SignaturesFrom(o, sender, s) :
             /\ loopback' = IF sender = o THEN [loopback EXCEPT ![o] = @ \ {s}]
                            ELSE loopback
             /\ UNCHANGED <<decided, commitSeen, panicked, signed, requests,
                            answers, restarts>>
             /\ \/ UNCHANGED <<rounds, missing, highestAttestedSeqNr, attested,
                               highestReportSignaturesSeqNr>>
                \/ /\ highestReportSignaturesSeqNr' =
                          [highestReportSignaturesSeqNr EXCEPT
                               ![o] = Heights(o, sender, s)]
                   /\ \/ UNCHANGED <<rounds, missing, highestAttestedSeqNr, attested>>
                      \/ TryComplete(o, s,
                          [RoundOrEmpty(o, s) EXCEPT
                               !.signatures[sender] = signatures])
  BY ReceptionCases, Zenon
<1>2. loopback' \in [Watched -> SUBSET SeqNr]
  BY <1>1 DEF TypeOK
<1>3. highestReportSignaturesSeqNr' \in [Watched -> [Oracle -> 0..MaxSeqNr]]
  <2>1. CASE UNCHANGED highestReportSignaturesSeqNr
    BY <2>1 DEF TypeOK
  <2>2. CASE highestReportSignaturesSeqNr' =
                 [highestReportSignaturesSeqNr EXCEPT ![o] = Heights(o, sender, s)]
    <3>1. Heights(o, sender, s) \in [Oracle -> 0..MaxSeqNr]
      BY HeightsType
    <3>2. QED
      BY <2>2, <3>1 DEF TypeOK
  <2>3. QED
    BY <1>1, <2>1, <2>2
<1>4. [RoundOrEmpty(o, s) EXCEPT !.signatures[sender] = signatures] \in Round
  BY RoundOrEmptyType, RoundUpdates DEF SignaturesFrom
<1>5. /\ rounds' \in [Watched -> Map]
      /\ highestAttestedSeqNr' \in [Watched -> 0..MaxSeqNr]
      /\ missing' \in [Watched -> SUBSET SeqNr]
      /\ attested' \in [Watched -> [SeqNr -> 0..2]]
  <2>1. CASE UNCHANGED <<rounds, missing, highestAttestedSeqNr, attested>>
    BY <2>1 DEF TypeOK, Map
  <2>2. CASE TryComplete(o, s, [RoundOrEmpty(o, s) EXCEPT
                                    !.signatures[sender] = signatures])
    BY <2>2, <1>4, TryCompleteType
  <2>3. QED
    BY <1>1, <2>1, <2>2
<1>6. QED
  BY <1>1, <1>2, <1>3, <1>5 DEF TypeOK, Map

LEMMA CommittedType ==
    ASSUME TypeOK, NEW o \in Watched, NEW s \in SeqNr, EventCommittedOutcome(o, s)
    PROVE  TypeOK'
<1>1. /\ commitSeen' = [commitSeen EXCEPT ![o] = s]
      /\ UNCHANGED <<decided, highestAttestedSeqNr, highestReportSignaturesSeqNr,
                     missing, panicked, attested, requests, answers, restarts>>
  BY DEF EventCommittedOutcome
<1>2. /\ rounds' \in [Watched -> Map]
      /\ signed' \in [Honest -> SUBSET SeqNr]
      /\ loopback' \in [Watched -> SUBSET SeqNr]
  <2>1. CASE ReceivedCertifiedCommit(o, s, RoundOrEmpty(o, s))
    BY <2>1, RoundOrEmptyType, ReceivedType
  <2>2. CASE UNCHANGED <<rounds, signed, loopback>>
    BY <2>2 DEF TypeOK, Map
  <2>3. QED
    BY <2>1, <2>2 DEF EventCommittedOutcome, RoundOrEmpty
<1>3. QED
  BY <1>1, <1>2, SeqNrType DEF TypeOK, Map

LEMMA MissingType ==
    ASSUME TypeOK, NEW o \in Watched, NEW s \in SeqNr, EventMissingOutcome(o, s)
    PROVE  TypeOK'
<1>1. UNCHANGED <<decided, highestAttestedSeqNr, highestReportSignaturesSeqNr,
                  loopback, commitSeen, attested, signed, answers, restarts>>
  BY DEF EventMissingOutcome
<1>2. CASE /\ UNCHANGED <<rounds, requests>>
           /\ \/ panicked' = [panicked EXCEPT ![o] = TRUE] /\ missing' = missing
              \/ missing' = [missing EXCEPT ![o] = @ \ {s}] /\ panicked' = panicked
  <2>1. missing' \in [Watched -> SUBSET SeqNr]
    <3>1. missing \in [Watched -> SUBSET SeqNr]
      BY DEF TypeOK
    <3>2. missing' = missing \/ missing' = [missing EXCEPT ![o] = @ \ {s}]
      BY <1>2
    <3>3. QED
      BY <3>1, <3>2
  <2>2. panicked' \in [Watched -> BOOLEAN]
    BY <1>2 DEF TypeOK
  <2>3. QED
    BY <1>1, <1>2, <2>1, <2>2 DEF TypeOK
<1>3. CASE /\ rounds[o][s] # NoRound
           /\ \E q \in Oracle : RequestCertifiedCommit(o, s, q)
           /\ UNCHANGED <<missing, panicked>>
  <2>1. PICK q \in Oracle : RequestCertifiedCommit(o, s, q)
    BY <1>3
  <2>2. [rounds[o][s] EXCEPT !.weRequested = @ \cup {q}] \in Round
    BY <1>3, RoundOrEmptyType, RoundUpdates
  <2>3. rounds' = [rounds EXCEPT ![o][s] =
                      [rounds[o][s] EXCEPT !.weRequested = @ \cup {q}]]
    BY <2>1 DEF RequestCertifiedCommit, TypeOK
  <2>4. rounds' \in [Watched -> Map]
    BY <2>2, <2>3, WriteType
  <2>5. requests' \subseteq CertMessage
    BY <2>1, SeqNrType DEF RequestCertifiedCommit, TypeOK, CertMessage
  <2>6. QED
    BY <1>1, <1>3, <2>4, <2>5 DEF TypeOK, Map
<1>4. QED
  BY <1>2, <1>3 DEF EventMissingOutcome, Signers
LEMMA AskedType ==
    ASSUME TypeOK, NEW o \in Watched, NEW sender \in Oracle, NEW s \in SeqNr,
           MessageCertifiedCommitRequest(o, sender, s)
    PROVE  TypeOK'
<1>1. /\ rounds[o][s] # NoRound
      /\ rounds' = [rounds EXCEPT ![o][s].weServiced = @ \cup {sender}]
      /\ answers' = answers \cup {[from |-> o, to |-> sender, seqNr |-> s]}
      /\ UNCHANGED <<decided, highestAttestedSeqNr, highestReportSignaturesSeqNr,
                     missing, loopback, attested, commitSeen, panicked, signed,
                     requests, restarts>>
  BY DEF MessageCertifiedCommitRequest
<1>2. [rounds[o][s] EXCEPT !.weServiced = @ \cup {sender}] \in Round
  BY <1>1, RoundOrEmptyType, RoundUpdates
<1>3. rounds' = [rounds EXCEPT ![o][s] =
                    [rounds[o][s] EXCEPT !.weServiced = @ \cup {sender}]]
  BY <1>1 DEF TypeOK
<1>4. rounds' \in [Watched -> Map]
  BY <1>2, <1>3, WriteType
<1>5. answers' \subseteq CertMessage
  BY <1>1, SeqNrType DEF TypeOK, CertMessage
<1>6. QED
  BY <1>1, <1>4, <1>5 DEF TypeOK, Map

LEMMA CertificateType ==
    ASSUME TypeOK, NEW o \in Watched, NEW sender \in Oracle, NEW s \in SeqNr,
           NEW verifies \in BOOLEAN, MessageCertifiedCommit(o, sender, s, verifies)
    PROVE  TypeOK'
<1> DEFINE serviced == [rounds[o][s] EXCEPT !.theyServiced = @ \cup {sender}]
<1>1. /\ rounds[o][s] # NoRound
      /\ UNCHANGED <<decided, highestAttestedSeqNr, highestReportSignaturesSeqNr,
                     missing, attested, commitSeen, panicked, requests, answers,
                     restarts>>
      /\ \/ ReceivedCertifiedCommit(o, s, serviced)
         \/ /\ rounds' = [rounds EXCEPT ![o][s] = serviced]
            /\ UNCHANGED <<signed, loopback>>
  BY DEF MessageCertifiedCommit
<1>2. serviced \in Round
  BY <1>1, RoundOrEmptyType, RoundUpdates
<1> HIDE DEF serviced
<1>3. /\ rounds' \in [Watched -> Map]
      /\ signed' \in [Honest -> SUBSET SeqNr]
      /\ loopback' \in [Watched -> SUBSET SeqNr]
  <2>1. CASE ReceivedCertifiedCommit(o, s, serviced)
    BY <2>1, <1>2, ReceivedType
  <2>2. CASE rounds' = [rounds EXCEPT ![o][s] = serviced]
             /\ UNCHANGED <<signed, loopback>>
    BY <2>2, <1>2, WriteType DEF TypeOK
  <2>3. QED
    BY <1>1, <2>1, <2>2
<1>4. QED
  BY <1>1, <1>3 DEF TypeOK, Map

LEMMA RestartType ==
    ASSUME TypeOK, NEW o \in Watched, Restart(o)
    PROVE  TypeOK'
<1>1. restarts' \in 0..MaxRestarts
  BY SeqNrType DEF TypeOK, Restart
<1>2. QED
  BY <1>1, SeqNrType DEF TypeOK, Restart

LEMMA OthersType ==
    ASSUME TypeOK, NEW h \in Honest,
           \/ \E s \in SeqNr : OtherSigns(h, s)
           \/ \E req \in requests : OtherAnswers(h, req)
    PROVE  TypeOK'
<1>1. CASE \E s \in SeqNr : OtherSigns(h, s)
  BY <1>1 DEF TypeOK, OtherSigns, volatile
<1>2. CASE \E req \in requests : OtherAnswers(h, req)
  <2>1. PICK req \in CertMessage : OtherAnswers(h, req)
    BY <1>2 DEF TypeOK
  <2>2. [from |-> h, to |-> req.from, seqNr |-> req.seqNr] \in CertMessage
    BY SeqNrType DEF CertMessage
  <2>3. QED
    BY <2>1, <2>2 DEF TypeOK, OtherAnswers, volatile
<1>3. QED
  BY <1>1, <1>2

LEMMA DecideType == TypeOK /\ Decide => TypeOK'
  BY SeqNrType DEF TypeOK, Decide, volatile

LEMMA StutterType == TypeOK /\ UNCHANGED vars => TypeOK'
  BY DEF TypeOK, vars, volatile

LEMMA TypeStep == TypeOK /\ [Next]_vars => TypeOK'
<1> SUFFICES ASSUME TypeOK, [Next]_vars
             PROVE  TypeOK'
  OBVIOUS
<1>1. CASE Decide
  BY <1>1, DecideType
<1>2. ASSUME NEW h \in Honest \ Watched,
             \/ \E s \in SeqNr : OtherSigns(h, s)
             \/ \E req \in requests : OtherAnswers(h, req)
      PROVE  TypeOK'
  BY <1>2, OthersType
<1>3. ASSUME NEW o \in Watched, StepOf(o)
      PROVE  TypeOK'
  BY <1>3, RestartType, CommittedType, MissingType, ReceptionType, AskedType,
     CertificateType DEF StepOf
<1>4. CASE UNCHANGED vars
  BY <1>4, StutterType
<1>5. QED
  BY <1>1, <1>2, <1>3, <1>4 DEF Next

\* Every handler keeps the rounds, the messages and the sequence numbers within
\* their types, whatever faulty oracles send.
THEOREM TypeCorrect == Spec => []TypeOK
  BY InitType, TypeStep, PTL DEF Spec
-----------------------------------------------------------------------------
(* The inductive invariant: what is known of round s of oracle o *)

Present(o, s) == rounds[o][s] # NoRound

\* The reports were attested once, and nothing will have them attested again.
ClosedOnce(o, s) ==
    /\ attested[o][s] < 2
    /\ attested[o][s] # 0 =>
           Expired(o, s) \/ (Present(o, s) /\ rounds[o][s].complete)

\* Own signatures under way are for a certified round that does not have them.
PendingRound(o, s) ==
    s \in loopback[o] =>
        \/ Expired(o, s)
        \/ /\ Present(o, s)
           /\ rounds[o][s].certified
           /\ rounds[o][s].signatures[o] = "none"

\* Own signatures come after the certificate, and no signatures are stored whose
\* sequence number has not been noted.
StoredSignatures(o, s) ==
    Present(o, s) =>
        /\ rounds[o][s].signatures[o] # "none" => rounds[o][s].certified
        /\ \A q \in Oracle :
               rounds[o][s].signatures[q] # "none" =>
                   highestReportSignaturesSeqNr[o][q] >= s

\* CompletesWhenPossible, for one round.
Completes(o, s) ==
    /\ Present(o, s)
    /\ rounds[o][s].certified
    /\ Cardinality(ValidSigners(rounds[o][s])) > F
    => rounds[o][s].complete \/ s \in loopback[o] \/ Expired(o, s)

Near(s) ==
    \/ s <= LookaheadRounds
    \/ \E h \in Honest : \E t \in signed[h] : s <= t + LookaheadRounds

RoundInv(o, s) ==
    /\ ClosedOnce(o, s)
    /\ PendingRound(o, s)
    /\ StoredSignatures(o, s)
    /\ Completes(o, s)
    /\ Present(o, s) => Near(s)

\* What is said of honest oracles' signatures they have sent.
SignedInv ==
    \A o \in Watched :
        /\ loopback[o] \subseteq signed[o]
        /\ \A q \in Honest : highestReportSignaturesSeqNr[o][q] \in signed[q] \cup {0}

AttestationInv ==
    /\ TypeOK
    /\ SignedInv
    /\ \A o \in Watched, s \in SeqNr : RoundInv(o, s)

LEMMA InitInv == Init => AttestationInv
<1> SUFFICES ASSUME Init
             PROVE  AttestationInv
  OBVIOUS
<1>1. TypeOK
  BY InitType
<1>2. SignedInv
  BY SeqNrType DEF Init, SignedInv
<1>3. ASSUME NEW o \in Watched, NEW s \in SeqNr
      PROVE  RoundInv(o, s)
  <2>1. rounds[o][s] = NoRound /\ attested[o][s] = 0 /\ loopback[o] = {}
    BY DEF Init
  <2>2. QED
    BY <2>1 DEF RoundInv, ClosedOnce, PendingRound, StoredSignatures, Completes,
               Present
<1>4. QED
  BY <1>1, <1>2, <1>3 DEF AttestationInv
-----------------------------------------------------------------------------
(* Steps that leave a round as it is, or drop it for its age *)

\* What has expired stays expired.
LEMMA ExpiredStays ==
    ASSUME TypeOK, TypeOK', NEW o \in Watched, NEW s \in SeqNr,
           highestAttestedSeqNr[o] <= highestAttestedSeqNr'[o], Expired(o, s)
    PROVE  Expired(o, s)'
<1>1. /\ highestAttestedSeqNr[o] \in Nat
      /\ highestAttestedSeqNr'[o] \in Nat
      /\ s \in Nat /\ ExpiryRounds \in Nat
  BY SeqNrType DEF TypeOK
<1>2. QED
  BY <1>1 DEF Expired, BeyondExpiry

LEMMA NearStays ==
    ASSUME TypeOK, \A h \in Honest : signed[h] \subseteq signed'[h],
           NEW s, Near(s)
    PROVE  Near(s)'
  BY DEF Near

LEMMA RoundKept ==
    ASSUME TypeOK, TypeOK', NEW o \in Watched, NEW s \in SeqNr, RoundInv(o, s),
           \/ rounds'[o][s] = rounds[o][s]
           \/ rounds'[o][s] = NoRound /\ Expired(o, s)',
           s \in loopback'[o] <=> s \in loopback[o],
           attested'[o][s] = attested[o][s],
           highestAttestedSeqNr[o] <= highestAttestedSeqNr'[o],
           \A q \in Oracle : highestReportSignaturesSeqNr[o][q]
                                <= highestReportSignaturesSeqNr'[o][q],
           \A h \in Honest : signed[h] \subseteq signed'[h]
    PROVE  RoundInv(o, s)'
<1>1. CASE rounds'[o][s] = NoRound /\ Expired(o, s)'
  BY <1>1 DEF RoundInv, ClosedOnce, PendingRound, StoredSignatures, Completes,
              Present
<1>2. CASE rounds'[o][s] = rounds[o][s]
  <2>1. Expired(o, s) => Expired(o, s)'
    BY ExpiredStays
  <2>2. ClosedOnce(o, s)'
    BY <1>2, <2>1 DEF RoundInv, ClosedOnce, Present
  <2>3. PendingRound(o, s)'
    BY <1>2, <2>1 DEF RoundInv, PendingRound, Present
  <2>4. StoredSignatures(o, s)'
    <3>1. SUFFICES ASSUME Present(o, s)'
                   PROVE  /\ rounds[o][s].signatures[o] # "none"
                                => rounds[o][s].certified
                          /\ \A q \in Oracle :
                                 rounds[o][s].signatures[q] # "none" =>
                                     highestReportSignaturesSeqNr'[o][q] >= s
      BY <1>2 DEF StoredSignatures
    <3>2. StoredSignatures(o, s) /\ Present(o, s)
      BY <1>2, <3>1 DEF RoundInv, Present
    <3>3. ASSUME NEW q \in Oracle, rounds[o][s].signatures[q] # "none"
          PROVE  highestReportSignaturesSeqNr'[o][q] >= s
      <4>1. /\ highestReportSignaturesSeqNr[o][q] >= s
            /\ highestReportSignaturesSeqNr[o][q]
                    <= highestReportSignaturesSeqNr'[o][q]
        BY <3>2, <3>3 DEF StoredSignatures
      <4>2. /\ highestReportSignaturesSeqNr[o][q] \in Nat
            /\ highestReportSignaturesSeqNr'[o][q] \in Nat
            /\ s \in Nat
        BY SeqNrType DEF TypeOK
      <4>3. QED
        BY <4>1, <4>2
    <3>4. QED
      BY <3>2, <3>3 DEF StoredSignatures
  <2>5. Completes(o, s)'
    BY <1>2, <2>1 DEF RoundInv, Completes, Present
  <2>6. Present(o, s)' => Near(s)'
    BY <1>2, NearStays DEF RoundInv, Present
  <2>7. QED
    BY <2>2, <2>3, <2>4, <2>5, <2>6 DEF RoundInv
<1>3. QED
  BY <1>1, <1>2

\* Steps that concern neither rounds nor what is known of the oracles' heights.
LEMMA QuietStep ==
    ASSUME AttestationInv, TypeOK',
           UNCHANGED <<rounds, loopback, attested, highestAttestedSeqNr,
                       highestReportSignaturesSeqNr>>,
           \A h \in Honest : signed[h] \subseteq signed'[h]
    PROVE  AttestationInv'
<1>1. SignedInv'
  BY SeqNrType DEF AttestationInv, SignedInv
<1>2. ASSUME NEW o \in Watched, NEW s \in SeqNr
      PROVE  RoundInv(o, s)'
  <2>1. \A n \in 0..MaxSeqNr : n <= n
    BY SeqNrType
  <2>2. /\ highestAttestedSeqNr[o] \in 0..MaxSeqNr
        /\ \A q \in Oracle : highestReportSignaturesSeqNr[o][q] \in 0..MaxSeqNr
    BY DEF AttestationInv, TypeOK
  <2>3. TypeOK /\ RoundInv(o, s)
    BY DEF AttestationInv
  <2>4. /\ highestAttestedSeqNr[o] <= highestAttestedSeqNr'[o]
        /\ \A q \in Oracle : highestReportSignaturesSeqNr[o][q]
                               <= highestReportSignaturesSeqNr'[o][q]
    BY <2>1, <2>2
  <2>5. QED
    BY <2>3, <2>4, RoundKept
<1>3. QED
  BY <1>1, <1>2 DEF AttestationInv
\* The rounds that a step of oracle o about round s does not concern.
LEMMA OtherRounds ==
    ASSUME AttestationInv, TypeOK', NEW o \in Watched, NEW s \in SeqNr,
           \A p \in Watched \ {o} :
               /\ rounds'[p] = rounds[p] /\ loopback'[p] = loopback[p]
               /\ attested'[p] = attested[p]
               /\ highestAttestedSeqNr'[p] = highestAttestedSeqNr[p]
               /\ highestReportSignaturesSeqNr'[p] = highestReportSignaturesSeqNr[p],
           \A t \in SeqNr \ {s} :
               /\ \/ rounds'[o][t] = rounds[o][t]
                  \/ rounds'[o][t] = NoRound /\ Expired(o, t)'
               /\ t \in loopback'[o] <=> t \in loopback[o]
               /\ attested'[o][t] = attested[o][t],
           highestAttestedSeqNr[o] <= highestAttestedSeqNr'[o],
           \A q \in Oracle : highestReportSignaturesSeqNr[o][q]
                                <= highestReportSignaturesSeqNr'[o][q],
           \A h \in Honest : signed[h] \subseteq signed'[h],
           NEW p \in Watched, NEW t \in SeqNr, p # o \/ t # s
    PROVE  RoundInv(p, t)'
<1>1. TypeOK /\ RoundInv(p, t)
  BY DEF AttestationInv
<1>2. CASE p = o
  BY <1>1, <1>2, RoundKept
<1>3. CASE p # o
  <2>1. \A n \in 0..MaxSeqNr : n <= n
    BY SeqNrType
  <2>2. /\ highestAttestedSeqNr[p] \in 0..MaxSeqNr
        /\ \A q \in Oracle : highestReportSignaturesSeqNr[p][q] \in 0..MaxSeqNr
    BY <1>1 DEF TypeOK
  <2>3. /\ highestAttestedSeqNr[p] <= highestAttestedSeqNr'[p]
        /\ \A q \in Oracle : highestReportSignaturesSeqNr[p][q]
                               <= highestReportSignaturesSeqNr'[p][q]
    BY <1>3, <2>1, <2>2
  <2>4. QED
    BY <1>1, <1>3, <2>3, RoundKept
<1>4. QED
  BY <1>2, <1>3

LEMMA Reflexive ==
    ASSUME TypeOK, NEW o \in Watched
    PROVE  /\ highestAttestedSeqNr[o] <= highestAttestedSeqNr[o]
           /\ \A q \in Oracle : highestReportSignaturesSeqNr[o][q]
                                <= highestReportSignaturesSeqNr[o][q]
<1>1. \A n \in 0..MaxSeqNr : n <= n
  BY SeqNrType
<1>2. QED
  BY <1>1 DEF TypeOK

\* A round that is written again with the same certificate and signatures.
SameRound(r, o, s) ==
    /\ Present(o, s)
    /\ r.certified = rounds[o][s].certified
    /\ r.complete = rounds[o][s].complete
    /\ r.signatures = rounds[o][s].signatures

LEMMA SameStep ==
    ASSUME AttestationInv, TypeOK', NEW o \in Watched, NEW s \in SeqNr,
           NEW r \in Round, SameRound(r, o, s),
           rounds' = [rounds EXCEPT ![o][s] = r],
           UNCHANGED <<loopback, signed, attested, highestAttestedSeqNr,
                       highestReportSignaturesSeqNr>>
    PROVE  AttestationInv'
<1>0. TypeOK /\ RoundInv(o, s)
  BY DEF AttestationInv
<1>1. /\ rounds'[o][s] = r
      /\ \A t \in SeqNr \ {s} : rounds'[o][t] = rounds[o][t]
      /\ \A p \in Watched \ {o} : rounds'[p] = rounds[p]
  BY <1>0 DEF TypeOK
<1>2. SignedInv'
  BY DEF AttestationInv, SignedInv
<1>3. Expired(o, s)' <=> Expired(o, s)
  BY DEF Expired
<1>4. Near(s)' <=> Near(s)
  BY DEF Near
<1>5. RoundInv(o, s)'
  <2>1. ClosedOnce(o, s)'
    BY <1>0, <1>1, <1>3, NoRoundIsNoRound
    DEF RoundInv, ClosedOnce, Present, SameRound
  <2>2. PendingRound(o, s)'
    BY <1>0, <1>1, <1>3, NoRoundIsNoRound
    DEF RoundInv, PendingRound, Present, SameRound
  <2>3. StoredSignatures(o, s)'
    BY <1>0, <1>1 DEF RoundInv, StoredSignatures, Present, SameRound
  <2>4. Completes(o, s)'
    <3>1. ValidSigners(r) = ValidSigners(rounds[o][s])
      BY DEF ValidSigners, SameRound
    <3>2. QED
      BY <1>0, <1>1, <1>3, <3>1 DEF RoundInv, Completes, Present, SameRound
  <2>5. Near(s)'
    BY <1>0, <1>4 DEF RoundInv, SameRound
  <2>6. QED
    BY <2>1, <2>2, <2>3, <2>4, <2>5 DEF RoundInv
<1>6. ASSUME NEW p \in Watched, NEW t \in SeqNr, p # o \/ t # s
      PROVE  RoundInv(p, t)'
  BY <1>0, <1>1, <1>6, Reflexive, OtherRounds
<1>7. QED
  BY <1>2, <1>5, <1>6 DEF AttestationInv

\* A certificate is received for round s, which otherwise stays as it was.
LEMMA ReceivedStep ==
    ASSUME AttestationInv, TypeOK', NEW o \in Watched, NEW s \in SeqNr,
           NEW r \in Round, ReceivedCertifiedCommit(o, s, r),
           \/ SameRound(r, o, s)
           \/ ~Present(o, s) /\ r = EmptyRound /\ s \in Reporting,
           UNCHANGED <<attested, highestAttestedSeqNr, highestReportSignaturesSeqNr>>
    PROVE  AttestationInv'
<1>0. TypeOK /\ RoundInv(o, s) /\ SignedInv
  BY DEF AttestationInv
<1>1. CASE r.certified \/ s \notin Reporting
  <2>1. rounds' = [rounds EXCEPT ![o][s] = r] /\ UNCHANGED <<signed, loopback>>
    BY <1>1 DEF ReceivedCertifiedCommit
  <2>2. SameRound(r, o, s)
    BY <1>1 DEF EmptyRound
  <2>3. QED
    BY <2>1, <2>2, SameStep
<1>2. CASE ~(r.certified \/ s \notin Reporting)
  <2> DEFINE c == [r EXCEPT !.certified = TRUE]
  <2>1. /\ rounds' = [rounds EXCEPT ![o][s] = c]
        /\ signed' = [signed EXCEPT ![o] = @ \cup {s}]
        /\ loopback' = [loopback EXCEPT ![o] = @ \cup {s}]
    BY <1>2 DEF ReceivedCertifiedCommit
  <2>2. /\ c \in Round /\ c.certified /\ c.complete = r.complete
        /\ c.signatures = r.signatures
    BY DEF Round
  <2> HIDE DEF c
  <2>3. o \in Honest /\ o \in Oracle
    BY SeqNrType
  <2>4. /\ rounds'[o][s] = c
        /\ \A t \in SeqNr \ {s} : rounds'[o][t] = rounds[o][t]
        /\ \A p \in Watched \ {o} : rounds'[p] = rounds[p]
    BY <1>0, <2>1 DEF TypeOK
  <2>5. /\ s \in loopback'[o]
        /\ \A t \in SeqNr \ {s} : t \in loopback'[o] <=> t \in loopback[o]
        /\ \A p \in Watched \ {o} : loopback'[p] = loopback[p]
    BY <1>0, <2>1 DEF TypeOK
  <2>6. /\ s \in signed'[o]
        /\ \A h \in Honest : signed[h] \subseteq signed'[h]
    BY <1>0, <2>1, <2>3 DEF TypeOK
  <2>7. SignedInv'
    <3>1. ASSUME NEW p \in Watched
          PROVE  loopback'[p] \subseteq signed'[p]
      BY <1>0, <2>1, SeqNrType DEF SignedInv, TypeOK
    <3>2. ASSUME NEW p \in Watched, NEW q \in Honest
          PROVE  highestReportSignaturesSeqNr'[p][q] \in signed'[q] \cup {0}
      BY <1>0, <2>6 DEF SignedInv
    <3>3. QED
      BY <3>1, <3>2 DEF SignedInv
  <2>8. Expired(o, s)' <=> Expired(o, s)
    BY DEF Expired
  <2>9. Present(o, s)'
    BY <2>2, <2>4, NoRoundIsNoRound DEF Present
  <2>10. c.signatures[o] = "none"
    <3>1. CASE SameRound(r, o, s)
      BY <1>0, <1>2, <2>2, <3>1 DEF RoundInv, StoredSignatures, SameRound
    <3>2. CASE r = EmptyRound
      BY <2>2, <2>3, <3>2 DEF EmptyRound
    <3>3. QED
      BY <3>1, <3>2
  <2>11. ClosedOnce(o, s)'
    BY <1>0, <2>2, <2>4, <2>8, <2>9 DEF RoundInv, ClosedOnce, SameRound
  <2>12. PendingRound(o, s)'
    BY <2>2, <2>4, <2>9, <2>10 DEF PendingRound
  <2>13. StoredSignatures(o, s)'
    <3>1. ASSUME NEW q \in Oracle, c.signatures[q] # "none"
          PROVE  highestReportSignaturesSeqNr[o][q] >= s
      <4>1. CASE SameRound(r, o, s)
        BY <1>0, <2>2, <3>1, <4>1 DEF RoundInv, StoredSignatures, SameRound
      <4>2. CASE r = EmptyRound
        BY <2>2, <3>1, <4>2 DEF EmptyRound
      <4>3. QED
        BY <4>1, <4>2
    <3>2. QED
      BY <2>2, <2>4, <3>1 DEF StoredSignatures
  <2>14. Completes(o, s)'
    BY <2>5 DEF Completes
  <2>15. Near(s)'
    <3>1. s \in Nat /\ LookaheadRounds \in Nat
      BY SeqNrType
    <3>2. s <= s + LookaheadRounds
      BY <3>1
    <3>3. QED
      BY <2>3, <2>6, <3>2 DEF Near
  <2>16. RoundInv(o, s)'
    BY <2>11, <2>12, <2>13, <2>14, <2>15 DEF RoundInv
  <2>17. ASSUME NEW p \in Watched, NEW t \in SeqNr, p # o \/ t # s
         PROVE  RoundInv(p, t)'
    BY <1>0, <2>4, <2>5, <2>6, <2>17, Reflexive, OtherRounds
  <2>18. QED
    BY <2>7, <2>16, <2>17 DEF AttestationInv
<1>3. QED
  BY <1>1, <1>2
\* A round in which an oracle was marked is otherwise the same.
LEMMA MarkedRound ==
    ASSUME NEW o \in Watched, NEW s \in SeqNr, Present(o, s),
           rounds[o][s] \in Round, NEW q \in Oracle
    PROVE  LET r == rounds[o][s]
               asked == [r EXCEPT !.weRequested = @ \cup {q}]
               theirs == [r EXCEPT !.theyServiced = @ \cup {q}]
               ours == [r EXCEPT !.weServiced = @ \cup {q}]
           IN  /\ asked \in Round /\ SameRound(asked, o, s)
               /\ theirs \in Round /\ SameRound(theirs, o, s)
               /\ ours \in Round /\ SameRound(ours, o, s)
<1> DEFINE r == rounds[o][s]
           asked == [r EXCEPT !.weRequested = @ \cup {q}]
           theirs == [r EXCEPT !.theyServiced = @ \cup {q}]
           ours == [r EXCEPT !.weServiced = @ \cup {q}]
<1>1. asked \in Round /\ theirs \in Round /\ ours \in Round
  BY RoundUpdates
<1>2. \A x \in {asked, theirs, ours} : /\ x.certified = r.certified
                                       /\ x.complete = r.complete
                                       /\ x.signatures = r.signatures
  <2>1. r \in Round
    OBVIOUS
  <2> HIDE DEF r
  <2>2. QED
    BY <2>1 DEF Round
<1>3. QED
  BY <1>1, <1>2 DEF SameRound

LEMMA CommittedStep ==
    ASSUME AttestationInv, NEW o \in Watched, NEW s \in SeqNr,
           EventCommittedOutcome(o, s)
    PROVE  AttestationInv'
<1>0. TypeOK /\ TypeOK'
  BY CommittedType DEF AttestationInv
<1>1. UNCHANGED <<attested, highestAttestedSeqNr, highestReportSignaturesSeqNr>>
  BY DEF EventCommittedOutcome
<1>2. CASE ~Present(o, s) /\ s \in Reporting
           /\ ReceivedCertifiedCommit(o, s, EmptyRound)
  BY <1>0, <1>1, <1>2, EmptyRoundType, ReceivedStep
<1>3. CASE Present(o, s) /\ ReceivedCertifiedCommit(o, s, rounds[o][s])
  <2>1. rounds[o][s] \in Round
    BY <1>0, <1>3, RoundOrEmptyType DEF Present
  <2>2. SameRound(rounds[o][s], o, s)
    BY <1>3 DEF SameRound
  <2>3. QED
    BY <1>0, <1>1, <1>3, <2>1, <2>2, ReceivedStep
<1>4. CASE UNCHANGED <<rounds, signed, loopback>>
  BY <1>0, <1>1, <1>4, QuietStep
<1>5. QED
  BY <1>2, <1>3, <1>4 DEF EventCommittedOutcome, Present

LEMMA CertificateStep ==
    ASSUME AttestationInv, NEW o \in Watched, NEW sender \in Oracle,
           NEW s \in SeqNr, NEW verifies \in BOOLEAN,
           MessageCertifiedCommit(o, sender, s, verifies)
    PROVE  AttestationInv'
<1> DEFINE serviced == [rounds[o][s] EXCEPT !.theyServiced = @ \cup {sender}]
<1>0. TypeOK /\ TypeOK'
  BY CertificateType DEF AttestationInv
<1>1. /\ rounds[o][s] # NoRound
      /\ UNCHANGED <<attested, highestAttestedSeqNr, highestReportSignaturesSeqNr>>
      /\ \/ ReceivedCertifiedCommit(o, s, serviced)
         \/ /\ rounds' = [rounds EXCEPT ![o][s] = serviced]
            /\ UNCHANGED <<signed, loopback>>
  BY DEF MessageCertifiedCommit
<1>2. rounds[o][s] \in Round
  BY <1>0, <1>1, RoundOrEmptyType
<1>3. serviced \in Round /\ SameRound(serviced, o, s)
  BY <1>1, <1>2, MarkedRound DEF Present
<1> HIDE DEF serviced
<1>4. QED
  BY <1>0, <1>1, <1>3, SameStep, ReceivedStep

LEMMA AskedStep ==
    ASSUME AttestationInv, NEW o \in Watched, NEW sender \in Oracle,
           NEW s \in SeqNr, MessageCertifiedCommitRequest(o, sender, s)
    PROVE  AttestationInv'
<1> DEFINE serviced == [rounds[o][s] EXCEPT !.weServiced = @ \cup {sender}]
<1>0. TypeOK /\ TypeOK'
  BY AskedType DEF AttestationInv
<1>1. /\ rounds[o][s] # NoRound
      /\ rounds' = [rounds EXCEPT ![o][s] = serviced]
      /\ UNCHANGED <<loopback, signed, attested, highestAttestedSeqNr,
                     highestReportSignaturesSeqNr>>
  BY <1>0 DEF MessageCertifiedCommitRequest, TypeOK
<1>2. rounds[o][s] \in Round
  BY <1>0, <1>1, RoundOrEmptyType
<1>3. serviced \in Round /\ SameRound(serviced, o, s)
  BY <1>1, <1>2, MarkedRound DEF Present
<1> HIDE DEF serviced
<1>4. QED
  BY <1>0, <1>1, <1>3, SameStep

LEMMA MissingStep ==
    ASSUME AttestationInv, NEW o \in Watched, NEW s \in SeqNr,
           EventMissingOutcome(o, s)
    PROVE  AttestationInv'
<1>0. TypeOK /\ TypeOK'
  BY MissingType DEF AttestationInv
<1>1. UNCHANGED <<loopback, signed, attested, highestAttestedSeqNr,
                  highestReportSignaturesSeqNr>>
  BY DEF EventMissingOutcome
<1>2. CASE UNCHANGED rounds
  BY <1>0, <1>1, <1>2, QuietStep
<1>3. ASSUME rounds[o][s] # NoRound, NEW q \in Oracle, RequestCertifiedCommit(o, s, q)
      PROVE  AttestationInv'
  <2> DEFINE asked == [rounds[o][s] EXCEPT !.weRequested = @ \cup {q}]
  <2>1. rounds' = [rounds EXCEPT ![o][s] = asked]
    BY <1>0, <1>3 DEF RequestCertifiedCommit, TypeOK
  <2>2. rounds[o][s] \in Round
    BY <1>0, <1>3, RoundOrEmptyType
  <2>3. asked \in Round /\ SameRound(asked, o, s)
    BY <1>3, <2>2, MarkedRound DEF Present
  <2> HIDE DEF asked
  <2>4. QED
    BY <1>0, <1>1, <2>1, <2>3, SameStep
<1>4. QED
  BY <1>2, <1>3 DEF EventMissingOutcome, Signers

LEMMA RestartStep ==
    ASSUME AttestationInv, NEW o \in Watched, Restart(o)
    PROVE  AttestationInv'
<1>0. TypeOK /\ TypeOK'
  BY RestartType DEF AttestationInv
<1>1. SignedInv'
  BY <1>0, SeqNrType DEF AttestationInv, SignedInv, Restart, TypeOK
<1>2. ASSUME NEW p \in Watched, NEW t \in SeqNr
      PROVE  RoundInv(p, t)'
  <2>1. CASE p = o
    <3>1. rounds'[o][t] = NoRound /\ attested'[o][t] = 0 /\ loopback'[o] = {}
      BY <1>0 DEF Restart, TypeOK
    <3>2. QED
      BY <2>1, <3>1 DEF RoundInv, ClosedOnce, PendingRound, StoredSignatures,
                        Completes, Present
  <2>2. CASE p # o
    <3>1. /\ rounds'[p] = rounds[p] /\ loopback'[p] = loopback[p]
          /\ attested'[p] = attested[p]
          /\ highestAttestedSeqNr'[p] = highestAttestedSeqNr[p]
          /\ highestReportSignaturesSeqNr'[p] = highestReportSignaturesSeqNr[p]
          /\ signed' = signed
      BY <1>0, <2>2 DEF Restart, TypeOK
    <3>2. RoundInv(p, t)
      BY DEF AttestationInv
    <3>3. QED
      BY <1>0, <3>1, <3>2, Reflexive, RoundKept
  <2>3. QED
    BY <2>1, <2>2
<1>3. QED
  BY <1>0, <1>1, <1>2 DEF AttestationInv
-----------------------------------------------------------------------------
(* Receiving signatures *)

\* The heights of an oracle's peers only grow, and stay those of sent signatures.
LEMMA HeightsGrow ==
    ASSUME AttestationInv, NEW o \in Watched, NEW sender \in Oracle, NEW s \in SeqNr,
           NEW x \in SignaturesFrom(o, sender, s)
    PROVE  /\ \A q \in Oracle : highestReportSignaturesSeqNr[o][q]
                                  <= Heights(o, sender, s)[q]
           /\ Heights(o, sender, s)[sender] >= s
           /\ \A q \in Honest : Heights(o, sender, s)[q] \in signed[q] \cup {0}
<1>0. TypeOK /\ SignedInv
  BY DEF AttestationInv
<1>1. /\ s \in Nat
      /\ \A q \in Oracle : highestReportSignaturesSeqNr[o][q] \in Nat
  BY <1>0, SeqNrType DEF TypeOK
<1>2. \A q \in Oracle : Heights(o, sender, s)[q] =
          IF q = sender /\ highestReportSignaturesSeqNr[o][q] < s
          THEN s ELSE highestReportSignaturesSeqNr[o][q]
  BY <1>0 DEF Heights, TypeOK
<1>3. ASSUME NEW q \in Honest
      PROVE  Heights(o, sender, s)[q] \in signed[q] \cup {0}
  <2>1. q \in Oracle /\ q \notin Faulty
    BY SeqNrType
  <2>2. q = sender => s \in signed[q]
    BY <1>0, <2>1 DEF SignaturesFrom, SignedInv
  <2>3. highestReportSignaturesSeqNr[o][q] \in signed[q] \cup {0}
    BY <1>0 DEF SignedInv
  <2>4. QED
    BY <1>2, <2>1, <2>2, <2>3
<1>4. QED
  BY <1>1, <1>2, <1>3

\* Signatures that are not beyond lookahead are near honest ones: more than F
\* oracles have come close, and not all of them are faulty.
LEMMA LookaheadIsNear ==
    ASSUME TypeOK, NEW s \in SeqNr, NEW heights \in [Oracle -> 0..MaxSeqNr],
           \A q \in Honest : heights[q] \in signed[q] \cup {0},
           ~BeyondLookahead(heights, s)
    PROVE  Near(s)
<1>1. CASE s <= LookaheadRounds
  BY <1>1 DEF Near
<1>2. CASE ~(s <= LookaheadRounds)
  <2> DEFINE close == {q \in Oracle : heights[q] >= s - LookaheadRounds}
  <2>1. s \in Nat /\ LookaheadRounds \in Nat /\ s > LookaheadRounds
    BY <1>2, SeqNrType
  <2>2. ~(Cardinality(close) <= F)
    BY <2>1 DEF BeyondLookahead
  <2>3. PICK q \in close : q \notin Faulty
    <3>1. SUFFICES ASSUME close \subseteq Faulty
                   PROVE  FALSE
      OBVIOUS
    <3>2. /\ IsFiniteSet(close)
          /\ Cardinality(close) <= Cardinality(Faulty)
      BY <3>1, HonestFinite, FS_Subset
    <3>3. Cardinality(close) \in Nat
      BY <3>2, FS_CardinalityType
    <3>4. QED
      BY <2>2, <3>2, <3>3, HonestFinite
  <2>4. q \in Honest /\ heights[q] \in Nat /\ heights[q] >= s - LookaheadRounds
    BY <2>3, SeqNrType DEF Honest
  <2>5. heights[q] # 0 /\ s <= heights[q] + LookaheadRounds
    BY <2>1, <2>4
  <2>6. heights[q] \in signed[q]
    BY <2>4, <2>5
  <2>7. QED
    BY <2>4, <2>5, <2>6 DEF Near
<1>3. QED
  BY <1>1, <1>2

\* The oracles whose signatures are valid have all come as far as the round.
LEMMA SignersAreNoLookahead ==
    ASSUME AttestationInv, NEW o \in Watched, NEW s \in SeqNr, Present(o, s),
           Cardinality(ValidSigners(rounds[o][s])) > F,
           NEW heights \in [Oracle -> 0..MaxSeqNr],
           \A q \in Oracle : highestReportSignaturesSeqNr[o][q] <= heights[q]
    PROVE  ~BeyondLookahead(heights, s)
<1> DEFINE close == {q \in Oracle : heights[q] >= s - LookaheadRounds}
           valid == ValidSigners(rounds[o][s])
<1>1. valid \subseteq close
  <2>1. SUFFICES ASSUME NEW q \in valid
                 PROVE  q \in close
    OBVIOUS
  <2>2. q \in Oracle /\ rounds[o][s].signatures[q] # "none"
    BY DEF ValidSigners
  <2>3. highestReportSignaturesSeqNr[o][q] >= s
    BY <2>2 DEF AttestationInv, RoundInv, StoredSignatures
  <2>4. /\ highestReportSignaturesSeqNr[o][q] \in Nat /\ heights[q] \in Nat
        /\ s \in Nat /\ LookaheadRounds \in Nat
    BY <2>2, SeqNrType DEF AttestationInv, TypeOK
  <2>5. highestReportSignaturesSeqNr[o][q] <= heights[q]
    BY <2>2
  <2>6. heights[q] >= s - LookaheadRounds
    BY <2>3, <2>4, <2>5
  <2>7. QED
    BY <2>2, <2>6
<1>2. IsFiniteSet(close)
  BY OracleAssumption, FS_Subset
<1>3. Cardinality(valid) <= Cardinality(close) /\ IsFiniteSet(valid)
  BY <1>1, <1>2, FS_Subset
<1>4. Cardinality(valid) \in Nat /\ Cardinality(close) \in Nat /\ F \in Nat
  BY <1>2, <1>3, FS_CardinalityType, SeqNrType
<1>5. Cardinality(valid) > F
  OBVIOUS
<1> HIDE DEF valid
<1>6. ~(Cardinality(close) <= F)
  BY <1>3, <1>4, <1>5
<1>7. QED
  BY <1>6 DEF BeyondLookahead
\* What receiving signatures does to the loopback and the heights.
LEMMA ReceptionFrame ==
    ASSUME AttestationInv, NEW o \in Watched, NEW sender \in Oracle, NEW s \in SeqNr,
           MessageReportSignatures(o, sender, s)
    PROVE  /\ TypeOK /\ TypeOK' /\ SignedInv' /\ signed' = signed
           /\ \A p \in Watched \ {o} :
                 /\ loopback'[p] = loopback[p]
                 /\ highestReportSignaturesSeqNr'[p] = highestReportSignaturesSeqNr[p]
           /\ \A t \in SeqNr \ {s} : t \in loopback'[o] <=> t \in loopback[o]
           /\ s \in loopback'[o] <=> s \in loopback[o] /\ sender # o
           /\ sender = o => s \in loopback[o]
           /\ \A q \in Oracle : highestReportSignaturesSeqNr[o][q]
                                 <= highestReportSignaturesSeqNr'[o][q]
<1>1. TypeOK /\ TypeOK' /\ SignedInv
  BY ReceptionType DEF AttestationInv
<1>2. PICK x \in SignaturesFrom(o, sender, s) :
             /\ loopback' = IF sender = o THEN [loopback EXCEPT ![o] = @ \ {s}]
                            ELSE loopback
             /\ signed' = signed
             /\ \/ UNCHANGED highestReportSignaturesSeqNr
                \/ highestReportSignaturesSeqNr' =
                       [highestReportSignaturesSeqNr EXCEPT
                            ![o] = Heights(o, sender, s)]
  BY ReceptionCases, Zenon
<1>3. sender = o => s \in loopback[o]
  BY <1>2, SeqNrType DEF SignaturesFrom
<1>4. /\ \A p \in Watched \ {o} : loopback'[p] = loopback[p]
      /\ \A t \in SeqNr \ {s} : t \in loopback'[o] <=> t \in loopback[o]
      /\ s \in loopback'[o] <=> s \in loopback[o] /\ sender # o
      /\ \A p \in Watched : loopback'[p] \subseteq loopback[p]
  BY <1>1, <1>2 DEF TypeOK
<1>5. /\ \A p \in Watched \ {o} :
             highestReportSignaturesSeqNr'[p] = highestReportSignaturesSeqNr[p]
      /\ \/ highestReportSignaturesSeqNr'[o] = highestReportSignaturesSeqNr[o]
         \/ highestReportSignaturesSeqNr'[o] = Heights(o, sender, s)
  BY <1>1, <1>2 DEF TypeOK
<1>6. \A q \in Oracle : highestReportSignaturesSeqNr[o][q]
                           <= highestReportSignaturesSeqNr'[o][q]
  BY <1>1, <1>5, HeightsGrow, Reflexive
<1>7. SignedInv'
  <2>1. ASSUME NEW p \in Watched
        PROVE  loopback'[p] \subseteq signed'[p]
    BY <1>1, <1>2, <1>4 DEF SignedInv
  <2>2. ASSUME NEW p \in Watched, NEW q \in Honest
        PROVE  highestReportSignaturesSeqNr'[p][q] \in signed'[q] \cup {0}
    <3>1. highestReportSignaturesSeqNr[p][q] \in signed[q] \cup {0}
      BY <1>1 DEF SignedInv
    <3>2. Heights(o, sender, s)[q] \in signed[q] \cup {0}
      BY HeightsGrow
    <3>3. QED
      BY <1>2, <1>5, <3>1, <3>2
  <2>3. QED
    BY <2>1, <2>2 DEF SignedInv
<1>8. QED
  BY <1>1, <1>2, <1>3, <1>4, <1>5, <1>6, <1>7

\* Signatures that are not stored: the round has expired, is too far ahead, or has
\* signatures of the sender.
LEMMA ReceptionDropped ==
    ASSUME AttestationInv, NEW o \in Watched, NEW sender \in Oracle, NEW s \in SeqNr,
           MessageReportSignatures(o, sender, s),
           UNCHANGED <<rounds, attested, highestAttestedSeqNr>>,
           \/ Expired(o, s)
           \/ /\ highestReportSignaturesSeqNr'[o] = Heights(o, sender, s)
              /\ \/ BeyondLookahead(Heights(o, sender, s), s)
                 \/ RoundOrEmpty(o, s).signatures[sender] # "none"
    PROVE  AttestationInv'
<1>1. /\ TypeOK /\ TypeOK' /\ SignedInv' /\ signed' = signed
      /\ \A p \in Watched \ {o} :
            /\ loopback'[p] = loopback[p]
            /\ highestReportSignaturesSeqNr'[p] = highestReportSignaturesSeqNr[p]
      /\ \A t \in SeqNr \ {s} : t \in loopback'[o] <=> t \in loopback[o]
      /\ s \in loopback'[o] <=> s \in loopback[o] /\ sender # o
      /\ \A q \in Oracle : highestReportSignaturesSeqNr[o][q]
                            <= highestReportSignaturesSeqNr'[o][q]
  BY ReceptionFrame
<1>2. RoundInv(o, s)
  BY DEF AttestationInv
<1>3. /\ highestAttestedSeqNr[o] <= highestAttestedSeqNr'[o]
      /\ Expired(o, s)' <=> Expired(o, s)
  BY <1>1, Reflexive DEF Expired
<1>4. CASE sender # o
  <2>1. RoundInv(o, s)'
    BY <1>1, <1>2, <1>3, <1>4, RoundKept
  <2>2. ASSUME NEW p \in Watched, NEW t \in SeqNr, p # o \/ t # s
        PROVE  RoundInv(p, t)'
    BY <1>1, <1>3, <2>2, OtherRounds
  <2>3. QED
    BY <1>1, <2>1, <2>2 DEF AttestationInv
<1>5. CASE sender = o
  <2>1. s \in loopback[o]
    BY <1>5, ReceptionFrame
  <2>2. ~Expired(o, s) => /\ Present(o, s)
                          /\ rounds[o][s].certified
                          /\ rounds[o][s].signatures[o] = "none"
    BY <1>2, <2>1 DEF RoundInv, PendingRound
  <2>3. ASSUME ~Expired(o, s), Cardinality(ValidSigners(rounds[o][s])) > F
        PROVE  FALSE
    <3>1. RoundOrEmpty(o, s) = rounds[o][s]
      BY <2>2, <2>3 DEF RoundOrEmpty, Present
    <3>2. /\ BeyondLookahead(Heights(o, sender, s), s)
          /\ highestReportSignaturesSeqNr'[o] = Heights(o, sender, s)
      BY <1>5, <2>2, <2>3, <3>1
    <3>3. Heights(o, sender, s) \in [Oracle -> 0..MaxSeqNr]
      BY <1>1, HeightsType
    <3>4. QED
      BY <1>1, <2>2, <2>3, <3>2, <3>3, SignersAreNoLookahead
  <2>4. ClosedOnce(o, s)'
    BY <1>2, <1>3 DEF RoundInv, ClosedOnce, Present
  <2>5. PendingRound(o, s)'
    BY <1>1, <1>5 DEF PendingRound
  <2>6. StoredSignatures(o, s)'
    <3>1. ASSUME NEW q \in Oracle, Present(o, s), rounds[o][s].signatures[q] # "none"
          PROVE  highestReportSignaturesSeqNr'[o][q] >= s
      <4>1. highestReportSignaturesSeqNr[o][q] >= s
        BY <1>2, <3>1 DEF RoundInv, StoredSignatures
      <4>2. /\ highestReportSignaturesSeqNr[o][q] \in Nat
            /\ highestReportSignaturesSeqNr'[o][q] \in Nat
            /\ s \in Nat
        BY <1>1, SeqNrType DEF TypeOK
      <4>3. highestReportSignaturesSeqNr[o][q] <= highestReportSignaturesSeqNr'[o][q]
        BY <1>1
      <4>4. QED
        BY <4>1, <4>2, <4>3
    <3>2. QED
      BY <1>2, <3>1 DEF RoundInv, StoredSignatures, Present
  <2>7. Completes(o, s)'
    BY <1>3, <2>3 DEF Completes, Present
  <2>8. Present(o, s)' => Near(s)'
    BY <1>1, <1>2 DEF RoundInv, Present, Near
  <2>9. RoundInv(o, s)'
    BY <2>4, <2>5, <2>6, <2>7, <2>8 DEF RoundInv
  <2>10. ASSUME NEW p \in Watched, NEW t \in SeqNr, p # o \/ t # s
         PROVE  RoundInv(p, t)'
    BY <1>1, <1>3, <2>10, OtherRounds
  <2>11. QED
    BY <1>1, <2>9, <2>10 DEF AttestationInv
<1>6. QED
  BY <1>4, <1>5
\* tryComplete leaves the round as incomplete as it was, ...
StaysIncomplete(o, s, r) ==
    /\ r.certified /\ Cardinality(ValidSigners(r)) > F => r.complete
    /\ rounds'[o][s] \in Round
    /\ rounds'[o][s].certified = r.certified
    /\ rounds'[o][s].complete = r.complete
    /\ rounds'[o][s].signatures = r.signatures
    /\ \A t \in SeqNr \ {s} : rounds'[o][t] = rounds[o][t]
    /\ \A p \in Watched \ {o} : rounds'[p] = rounds[p]
    /\ UNCHANGED <<highestAttestedSeqNr, attested>>

\* ... or completes it and may reap others.
GetsComplete(o, s, r) ==
    /\ ~r.complete /\ r.certified
    /\ highestAttestedSeqNr[o] <= highestAttestedSeqNr'[o]
    /\ \/ rounds'[o][s] = [r EXCEPT !.complete = TRUE]
       \/ rounds'[o][s] = NoRound /\ Expired(o, s)'
    /\ \A t \in SeqNr \ {s} :
           /\ \/ rounds'[o][t] = rounds[o][t]
              \/ rounds'[o][t] = NoRound /\ Expired(o, t)'
           /\ attested'[o][t] = attested[o][t]
    /\ attested'[o][s] = IF attested[o][s] = 0 THEN 1 ELSE 2
    /\ \A p \in Watched \ {o} :
           /\ rounds'[p] = rounds[p] /\ attested'[p] = attested[p]
           /\ highestAttestedSeqNr'[p] = highestAttestedSeqNr[p]

LEMMA TryCompleteCases ==
    ASSUME TypeOK, NEW o \in Watched, NEW s \in SeqNr, NEW r \in Round,
           TryComplete(o, s, r)
    PROVE  StaysIncomplete(o, s, r) \/ GetsComplete(o, s, r)
<1>1. ASSUME NEW c \in Round, rounds' = [rounds EXCEPT ![o][s] = c]
      PROVE  /\ rounds'[o][s] = c
             /\ \A t \in SeqNr \ {s} : rounds'[o][t] = rounds[o][t]
             /\ \A p \in Watched \ {o} : rounds'[p] = rounds[p]
  BY <1>1 DEF TypeOK
<1>2. CASE /\ r.complete \/ (r.certified /\ Cardinality(ValidSigners(r)) <= F)
           /\ rounds' = [rounds EXCEPT ![o][s] = r]
           /\ UNCHANGED <<missing, highestAttestedSeqNr, attested>>
  <2>1. Cardinality(ValidSigners(r)) \in Nat
    <3>1. IsFiniteSet(ValidSigners(r))
      BY OracleAssumption, FS_Subset DEF ValidSigners
    <3>2. QED
      BY <3>1, FS_CardinalityType
  <2>2. r.certified /\ Cardinality(ValidSigners(r)) > F => r.complete
    BY <1>2, <2>1, SeqNrType
  <2>3. QED
    BY <1>1, <1>2, <2>2 DEF StaysIncomplete
<1>3. CASE ~r.complete /\ ~r.certified
  <2> DEFINE fetch == Cardinality(Signers(r)) > F /\ ~r.startedFetch
             c == [r EXCEPT !.startedFetch = @ \/ fetch]
  <2>1. rounds' = [rounds EXCEPT ![o][s] = c]
        /\ UNCHANGED <<highestAttestedSeqNr, attested>>
    BY <1>3 DEF TryComplete
  <2>2. (r.startedFetch \/ fetch) \in BOOLEAN
    OBVIOUS
  <2> HIDE DEF fetch
  <2>3. /\ c \in Round /\ c.certified = r.certified /\ c.complete = r.complete
        /\ c.signatures = r.signatures
    BY <2>2 DEF Round
  <2> HIDE DEF c
  <2>4. QED
    BY <1>1, <1>3, <2>1, <2>3 DEF StaysIncomplete
<1>4. CASE ~r.complete /\ r.certified /\ Cardinality(ValidSigners(r)) > F
  <2> DEFINE highest == HighestAttested(highestAttestedSeqNr[o], s)
             completed == [rounds[o] EXCEPT ![s] = [r EXCEPT !.complete = TRUE]]
  <2>0. s \in Nat /\ highestAttestedSeqNr[o] \in Nat
    BY SeqNrType DEF TypeOK
  <2>1. /\ highestAttestedSeqNr' = [highestAttestedSeqNr EXCEPT ![o] = highest]
        /\ rounds' = [rounds EXCEPT ![o] = Reap(completed, highest)]
        /\ attested' = [attested EXCEPT ![o][s] = IF @ = 0 THEN 1 ELSE 2]
    <3>1. Cardinality(ValidSigners(r)) \in Nat
      <4>1. IsFiniteSet(ValidSigners(r))
        BY OracleAssumption, FS_Subset DEF ValidSigners
      <4>2. QED
        BY <4>1, FS_CardinalityType
    <3>2. ~(Cardinality(ValidSigners(r)) <= F)
      BY <1>4, <3>1, SeqNrType
    <3>3. QED
      BY <1>4, <3>2 DEF TryComplete
  <2>2. highestAttestedSeqNr[o] <= highest
    BY <2>0 DEF HighestAttested
  <2>3. /\ completed[s] = [r EXCEPT !.complete = TRUE]
        /\ \A t \in SeqNr \ {s} : completed[t] = rounds[o][t]
    BY DEF TypeOK
  <2> HIDE DEF highest, completed
  <2>4. /\ highestAttestedSeqNr'[o] = highest
        /\ \A p \in Watched \ {o} :
               /\ rounds'[p] = rounds[p] /\ attested'[p] = attested[p]
               /\ highestAttestedSeqNr'[p] = highestAttestedSeqNr[p]
        /\ attested'[o][s] = IF attested[o][s] = 0 THEN 1 ELSE 2
        /\ \A t \in SeqNr \ {s} : attested'[o][t] = attested[o][t]
        /\ rounds'[o] = Reap(completed, highest)
    BY <2>1 DEF TypeOK
  <2>5. ASSUME NEW t \in SeqNr
        PROVE  \/ rounds'[o][t] = completed[t]
               \/ rounds'[o][t] = NoRound /\ Expired(o, t)'
    <3>1. BeyondExpiry(highest, t) => Expired(o, t)'
      BY <2>4 DEF Expired
    <3>2. QED
      BY <2>4, <3>1 DEF Reap
  <2>6. QED
    BY <1>4, <2>2, <2>3, <2>4, <2>5 DEF GetsComplete
<1>5. QED
  BY <1>2, <1>3, <1>4 DEF TryComplete
\* Signatures that are stored: the round, perhaps a new one, is near, and gets
\* complete now if it can.
LEMMA ReceptionStored ==
    ASSUME AttestationInv, NEW o \in Watched, NEW sender \in Oracle, NEW s \in SeqNr,
           MessageReportSignatures(o, sender, s), ~Expired(o, s),
           NEW x \in SignaturesFrom(o, sender, s),
           highestReportSignaturesSeqNr'[o] = Heights(o, sender, s),
           ~BeyondLookahead(Heights(o, sender, s), s),
           RoundOrEmpty(o, s).signatures[sender] = "none",
           TryComplete(o, s, [RoundOrEmpty(o, s) EXCEPT !.signatures[sender] = x])
    PROVE  AttestationInv'
<1> DEFINE old == RoundOrEmpty(o, s)
           r == [old EXCEPT !.signatures[sender] = x]
           new == rounds'[o][s]
<1>0. StaysIncomplete(o, s, r) \/ GetsComplete(o, s, r)
  <2>1. TypeOK
    BY DEF AttestationInv
  <2>2. r \in Round
    BY <2>1, RoundOrEmptyType, RoundUpdates DEF SignaturesFrom
  <2>3. QED
    BY <2>1, <2>2, TryCompleteCases
<1>1. /\ TypeOK /\ TypeOK' /\ SignedInv' /\ signed' = signed
      /\ \A p \in Watched \ {o} :
            /\ loopback'[p] = loopback[p]
            /\ highestReportSignaturesSeqNr'[p] = highestReportSignaturesSeqNr[p]
      /\ \A t \in SeqNr \ {s} : t \in loopback'[o] <=> t \in loopback[o]
      /\ s \in loopback'[o] <=> s \in loopback[o] /\ sender # o
      /\ sender = o => s \in loopback[o]
      /\ \A q \in Oracle : highestReportSignaturesSeqNr[o][q]
                            <= highestReportSignaturesSeqNr'[o][q]
  BY ReceptionFrame
<1>2. RoundInv(o, s)
  BY DEF AttestationInv
<1>3. x \in Signatures /\ old \in Round
  BY <1>1, RoundOrEmptyType DEF SignaturesFrom
<1>4. /\ Present(o, s) => old = rounds[o][s]
      /\ ~Present(o, s) => old = EmptyRound
  BY DEF RoundOrEmpty, Present
<1>5. o \in Oracle
  BY SeqNrType
<1> HIDE DEF old
<1>6. /\ r \in Round /\ r.certified = old.certified /\ r.complete = old.complete
      /\ r.signatures = [old.signatures EXCEPT ![sender] = x]
  BY <1>3, RoundUpdates DEF Round
<1>7. TryComplete(o, s, r)
  BY DEF old
<1> HIDE DEF r
<1>8. /\ \A q \in Oracle \ {sender} : r.signatures[q] = old.signatures[q]
      /\ old.signatures[sender] = "none"
  BY <1>3, <1>6 DEF Round, old
<1>9. Near(s)'
  <2>1. Heights(o, sender, s) \in [Oracle -> 0..MaxSeqNr]
    BY <1>1, HeightsType
  <2>2. \A q \in Honest : Heights(o, sender, s)[q] \in signed[q] \cup {0}
    BY HeightsGrow
  <2>3. Near(s)
    BY <1>1, <2>1, <2>2, LookaheadIsNear
  <2>4. QED
    BY <1>1, <2>3, NearStays
\* Own signatures are stored in a certified round, and only once.
<1>10. sender = o => Present(o, s) /\ old.certified
  BY <1>1, <1>2, <1>4 DEF RoundInv, PendingRound
<1>11. r.signatures[o] # "none" => r.certified
  <2>1. CASE sender = o
    BY <1>6, <1>10, <2>1
  <2>2. CASE sender # o /\ Present(o, s)
    BY <1>2, <1>4, <1>5, <1>6, <1>8, <2>2 DEF RoundInv, StoredSignatures
  <2>3. CASE sender # o /\ ~Present(o, s)
    BY <1>4, <1>5, <1>8, <2>3 DEF EmptyRound
  <2>4. QED
    BY <2>1, <2>2, <2>3
<1>12. ASSUME NEW q \in Oracle, r.signatures[q] # "none"
       PROVE  highestReportSignaturesSeqNr'[o][q] >= s
  <2>1. CASE q = sender
    BY <2>1, HeightsGrow
  <2>2. CASE q # sender
    <3>1. Present(o, s) /\ rounds[o][s].signatures[q] # "none"
      BY <1>4, <1>8, <1>12, <2>2 DEF EmptyRound
    <3>2. highestReportSignaturesSeqNr[o][q] >= s
      BY <1>2, <3>1 DEF RoundInv, StoredSignatures
    <3>3. /\ highestReportSignaturesSeqNr[o][q] \in Nat
          /\ highestReportSignaturesSeqNr'[o][q] \in Nat
          /\ s \in Nat
      BY <1>1, SeqNrType DEF TypeOK
    <3>4. highestReportSignaturesSeqNr[o][q] <= highestReportSignaturesSeqNr'[o][q]
      BY <1>1
    <3>5. QED
      BY <3>2, <3>3, <3>4
  <2>3. QED
    BY <2>1, <2>2
<1>13. s \in loopback'[o] => r.certified /\ r.signatures[o] = "none"
  <2>1. SUFFICES ASSUME s \in loopback'[o]
                 PROVE  r.certified /\ r.signatures[o] = "none"
    OBVIOUS
  <2>2. s \in loopback[o] /\ sender # o
    BY <1>1, <2>1
  <2>3. Present(o, s) /\ old.certified /\ old.signatures[o] = "none"
    BY <1>2, <1>4, <2>2 DEF RoundInv, PendingRound
  <2>4. QED
    BY <1>5, <1>6, <1>8, <2>2, <2>3
<1>14. attested[o][s] # 0 => r.complete
  BY <1>2, <1>4, <1>6 DEF RoundInv, ClosedOnce
<1>15. CASE StaysIncomplete(o, s, r)
  <2>1. Present(o, s)'
    BY <1>15, NoRoundIsNoRound DEF Present, StaysIncomplete
  <2>2. ClosedOnce(o, s)'
    BY <1>2, <1>14, <1>15, <2>1 DEF RoundInv, ClosedOnce, StaysIncomplete
  <2>3. PendingRound(o, s)'
    BY <1>13, <1>15, <2>1 DEF PendingRound, StaysIncomplete
  <2>4. StoredSignatures(o, s)'
    BY <1>11, <1>12, <1>15 DEF StoredSignatures, StaysIncomplete
  <2>5. Completes(o, s)'
    BY <1>15 DEF Completes, ValidSigners, StaysIncomplete
  <2>6. RoundInv(o, s)'
    BY <1>9, <2>2, <2>3, <2>4, <2>5 DEF RoundInv
  <2>7. ASSUME NEW p \in Watched, NEW t \in SeqNr, p # o \/ t # s
        PROVE  RoundInv(p, t)'
    BY <1>1, <1>15, <2>7, Reflexive, OtherRounds DEF StaysIncomplete
  <2>8. QED
    BY <1>1, <2>6, <2>7 DEF AttestationInv
<1>16. CASE GetsComplete(o, s, r)
  <2>1. attested'[o][s] = 1
    BY <1>14, <1>16 DEF GetsComplete
  <2>2. RoundInv(o, s)'
    <3>1. CASE new = NoRound /\ Expired(o, s)'
      BY <2>1, <3>1 DEF RoundInv, ClosedOnce, PendingRound, StoredSignatures,
                        Completes, Present
    <3>2. CASE new = [r EXCEPT !.complete = TRUE]
      <4>1. /\ new \in Round /\ new.complete /\ new.certified = r.certified
            /\ new.signatures = r.signatures
        BY <1>6, <3>2 DEF Round
      <4>2. Present(o, s)'
        BY <4>1, NoRoundIsNoRound DEF Present
      <4>3. ClosedOnce(o, s)'
        BY <2>1, <4>1, <4>2 DEF ClosedOnce
      <4>4. PendingRound(o, s)'
        BY <1>13, <4>1, <4>2 DEF PendingRound
      <4>5. StoredSignatures(o, s)'
        BY <1>11, <1>12, <4>1 DEF StoredSignatures
      <4>6. Completes(o, s)'
        BY <4>1 DEF Completes
      <4>7. QED
        BY <1>9, <4>3, <4>4, <4>5, <4>6 DEF RoundInv
    <3>3. QED
      BY <1>16, <3>1, <3>2 DEF GetsComplete
  <2>3. ASSUME NEW p \in Watched, NEW t \in SeqNr, p # o \/ t # s
        PROVE  RoundInv(p, t)'
    BY <1>1, <1>16, <2>3, OtherRounds DEF GetsComplete
  <2>4. QED
    BY <1>1, <2>2, <2>3 DEF AttestationInv
<1>17. QED
  BY <1>0, <1>15, <1>16

LEMMA ReceptionStep ==
    ASSUME AttestationInv, NEW o \in Watched, NEW sender \in Oracle, NEW s \in SeqNr,
           MessageReportSignatures(o, sender, s)
    PROVE  AttestationInv'
<1>0. TypeOK
  BY DEF AttestationInv
<1>1. ASSUME highestReportSignaturesSeqNr' =
                 [highestReportSignaturesSeqNr EXCEPT ![o] = Heights(o, sender, s)]
      PROVE  highestReportSignaturesSeqNr'[o] = Heights(o, sender, s)
  BY <1>0, <1>1 DEF TypeOK
<1>2. PICK x \in SignaturesFrom(o, sender, s) :
          \/ /\ Expired(o, s)
             /\ UNCHANGED <<rounds, attested, highestAttestedSeqNr>>
          \/ /\ highestReportSignaturesSeqNr' =
                    [highestReportSignaturesSeqNr EXCEPT ![o] = Heights(o, sender, s)]
             /\ \/ BeyondLookahead(Heights(o, sender, s), s)
                \/ RoundOrEmpty(o, s).signatures[sender] # "none"
             /\ UNCHANGED <<rounds, attested, highestAttestedSeqNr>>
          \/ /\ ~Expired(o, s)
             /\ highestReportSignaturesSeqNr' =
                    [highestReportSignaturesSeqNr EXCEPT ![o] = Heights(o, sender, s)]
             /\ ~BeyondLookahead(Heights(o, sender, s), s)
             /\ RoundOrEmpty(o, s).signatures[sender] = "none"
             /\ TryComplete(o, s, [RoundOrEmpty(o, s) EXCEPT
                                      !.signatures[sender] = x])
  BY ReceptionCases, Zenon
<1>3. CASE /\ Expired(o, s)
           /\ UNCHANGED <<rounds, attested, highestAttestedSeqNr>>
  BY <1>3, ReceptionDropped
<1>4. CASE /\ highestReportSignaturesSeqNr' =
                  [highestReportSignaturesSeqNr EXCEPT ![o] = Heights(o, sender, s)]
           /\ \/ BeyondLookahead(Heights(o, sender, s), s)
              \/ RoundOrEmpty(o, s).signatures[sender] # "none"
           /\ UNCHANGED <<rounds, attested, highestAttestedSeqNr>>
  BY <1>1, <1>4, ReceptionDropped
<1>5. CASE /\ ~Expired(o, s)
           /\ highestReportSignaturesSeqNr' =
                  [highestReportSignaturesSeqNr EXCEPT ![o] = Heights(o, sender, s)]
           /\ ~BeyondLookahead(Heights(o, sender, s), s)
           /\ RoundOrEmpty(o, s).signatures[sender] = "none"
           /\ TryComplete(o, s, [RoundOrEmpty(o, s) EXCEPT
                                    !.signatures[sender] = x])
  BY <1>1, <1>5, ReceptionStored
<1>6. QED
  BY <1>2, <1>3, <1>4, <1>5
-----------------------------------------------------------------------------
LEMMA InvStep == AttestationInv /\ [Next]_vars => AttestationInv'
<1> SUFFICES ASSUME AttestationInv, [Next]_vars
             PROVE  AttestationInv'
  OBVIOUS
<1>0. TypeOK /\ TypeOK'
  BY TypeStep DEF AttestationInv
<1>1. CASE Decide
  <2>1. UNCHANGED <<volatile, signed>>
    BY <1>1 DEF Decide
  <2>2. QED
    BY <1>0, <2>1, QuietStep DEF volatile
<1>2. ASSUME NEW h \in Honest \ Watched, NEW s \in SeqNr, OtherSigns(h, s)
      PROVE  AttestationInv'
  <2>1. UNCHANGED volatile /\ \A g \in Honest : signed[g] \subseteq signed'[g]
    BY <1>0, <1>2 DEF OtherSigns, TypeOK
  <2>2. QED
    BY <1>0, <2>1, QuietStep DEF volatile
<1>3. ASSUME NEW h \in Honest \ Watched, NEW req \in requests, OtherAnswers(h, req)
      PROVE  AttestationInv'
  <2>1. UNCHANGED <<volatile, signed>>
    BY <1>3 DEF OtherAnswers
  <2>2. QED
    BY <1>0, <2>1, QuietStep DEF volatile
<1>4. ASSUME NEW o \in Watched, StepOf(o)
      PROVE  AttestationInv'
  BY <1>4, RestartStep, CommittedStep, MissingStep, ReceptionStep, AskedStep,
     CertificateStep DEF StepOf
<1>5. CASE UNCHANGED vars
  BY <1>0, <1>5, QuietStep DEF vars, volatile
<1>6. QED
  BY <1>1, <1>2, <1>3, <1>4, <1>5 DEF Next

LEMMA Invariance == Spec => []AttestationInv
  BY InitInv, InvStep, PTL DEF Spec

\* However late signatures and certificates come, and however small the windows
\* are, no process attests the reports of a sequence number twice.
THEOREM NoSecondAttestation == Spec => []AttestedOnce
<1>1. AttestationInv => AttestedOnce
  BY DEF AttestationInv, RoundInv, ClosedOnce, AttestedOnce
<1>2. QED
  BY <1>1, Invariance, PTL

\* receivedCertifiedCommit need not call tryComplete: the oracle's own signatures
\* will, even if isBeyondLookahead drops them after a restart.
THEOREM CompletionIsDue == Spec => []CompletesWhenPossible
<1>1. AttestationInv => CompletesWhenPossible
  <2> SUFFICES ASSUME AttestationInv, NEW o \in Watched, NEW s \in SeqNr,
                      rounds[o][s] # NoRound, rounds[o][s].certified,
                      ~(Cardinality(ValidSigners(rounds[o][s])) <= F)
               PROVE  \/ rounds[o][s].complete \/ s \in loopback[o]
                      \/ BeyondExpiry(highestAttestedSeqNr[o], s)
    BY DEF CompletesWhenPossible
  <2>1. Cardinality(ValidSigners(rounds[o][s])) \in Nat
    <3>1. IsFiniteSet(ValidSigners(rounds[o][s]))
      BY OracleAssumption, FS_Subset DEF ValidSigners
    <3>2. QED
      BY <3>1, FS_CardinalityType
  <2>2. Cardinality(ValidSigners(rounds[o][s])) > F
    BY <2>1, SeqNrType
  <2>3. QED
    BY <2>2 DEF AttestationInv, RoundInv, Completes, Present, Expired
<1>2. QED
  BY <1>1, Invariance, PTL

\* Whatever faulty oracles send, rounds are opened near signed ones only.
THEOREM NoFarRounds == Spec => []RoundsAreNear
<1>1. AttestationInv => RoundsAreNear
  BY DEF AttestationInv, RoundInv, Present, Near, RoundsAreNear
<1>2. QED
  BY <1>1, Invariance, PTL
=============================================================================

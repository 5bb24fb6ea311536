--------------------------- MODULE ServiceProofs ---------------------------
(***************************************************************************)
(* What stands around the ledger, for every input.  First the parties'     *)
(* statements: what the signatures of an endorsement and of a revocation   *)
(* guarantee, for any keys, lengths, times, targets and malformed inputs   *)
(* and any number of signatures.  Then the canonical record around them,   *)
(* for strings of every length and identity and any number of alterations. *)
(* Last the orderly life of the process that serves them, for every set of *)
(* environments, every number of handlers and every bound on the clock.    *)
(***************************************************************************)
EXTENDS Endorsement, RecordCodec, Lifecycle, TLAPS

(* A proposal whose digest somebody signed was within NewProposal's bounds. *)
BoundedStatement(digest) ==
    digest[1] = "endorsement-proposal" =>
        InBounds(digest[2][4], 1, 128) /\ InBounds(digest[2][5], 1, 4096)

(* Lengths of signatures are what the algorithm produces, and what is       *)
(* signed passed its constructor.                                           *)
SignedLengths ==
    \A s \in signed : ValidSignatureLength(s) /\ BoundedStatement(s.digest)

ConsentInv == SignedLengths /\ BothPartiesAgreed /\ RevokerAgreed /\ StoredPayloadsDecode

(* The payload the HTTP handler hands to admission. *)
AcceptedPayload(p, ps, ss, at) ==
    [proposer |-> p.proposer, subject |-> p.subject, topic |-> p.topic,
     claim |-> p.claim, proposedAt |-> p.proposedAt, proposerSig |-> ps,
     acceptedAt |-> at, subjectSig |-> ss]

RevokedPayload(p, s) ==
    [target |-> p.target, revoker |-> p.revoker, role |-> p.role,
     revokedAt |-> p.revokedAt, reason |-> p.reason, sig |-> s]

(* DecodeAcceptedPayload gives back the payload that Encode was given. *)
LEMMA AcceptedRoundTrip ==
    ASSUME NEW p, NEW ps, NEW ss, NEW at
    PROVE  /\ DecodeAccepted(EncodeAccepted(AcceptedPayload(p, ps, ss, at)))
                = AcceptedPayload(p, ps, ss, at)
           /\ EncodeAccepted(AcceptedPayload(p, ps, ss, at))[1] = PayloadVersionV1
BY Zenon DEF DecodeAccepted, EncodeAccepted, AcceptedPayload, DecodePublicKey,
   EncodePublicKey

(* DecodeRevokedPayload gives back the payload that Encode was given. *)
LEMMA RevokedRoundTrip ==
    ASSUME NEW p, NEW s
    PROVE  /\ DecodeRevoked(EncodeRevoked(RevokedPayload(p, s))) = RevokedPayload(p, s)
           /\ EncodeRevoked(RevokedPayload(p, s))[1] = PayloadVersionV1
BY Zenon DEF DecodeRevoked, EncodeRevoked, RevokedPayload, DecodePublicKey,
   EncodePublicKey

(* A signature that verifies for a statement was made by the key's holder:  *)
(* no malformed input carries the digest of a statement.                    *)
LEMMA VerifiedIsSigned ==
    ASSUME NEW key, NEW domain, NEW fields, NEW s \in Signatures, domain # "none",
           VerifySignature(key, DomainSeparatedDigest(domain, fields), s)
    PROVE  s \in signed /\ Says(key, domain, fields)
<1>1. s.key = key /\ s.digest = <<domain, fields>>
  BY Zenon DEF VerifySignature, DomainSeparatedDigest
<1>2. s.digest # NoDigest
  BY <1>1 DEF NoDigest
<1>3. s \in signed
  BY Zenon, <1>2, MalformedAssumption DEF Signatures
<1>4. s.digest[1] = domain /\ s.digest[2] = fields
  BY <1>1
<1> QED
  BY Zenon, <1>1, <1>3, <1>4 DEF Says

(* The initial state satisfies the invariant. *)
LEMMA ConsentInitInv == Init => ConsentInv
BY Zenon DEF Init, ConsentInv, SignedLengths, BothPartiesAgreed, RevokerAgreed,
       StoredPayloadsDecode

(* A new signature leaves what was said before as it was. *)
LEMMA SignatureKeepsConsent ==
    ASSUME NEW key, NEW digest, MakeSignature(key, digest), BoundedStatement(digest), ConsentInv
    PROVE  ConsentInv'
<1>1. PICK n \in SignatureLengths : signed' = signed \cup {Sign(key, digest, n)}
  BY Zenon DEF MakeSignature
<1>2. accepted' = accepted /\ revoked' = revoked
  BY Zenon DEF MakeSignature
<1>3. SignedLengths'
  <2>1. ValidSignatureLength(Sign(key, digest, n))
    BY LengthAssumption DEF ValidSignatureLength, Sign, InBounds
  <2>2. BoundedStatement(Sign(key, digest, n).digest)
    BY Zenon DEF Sign
  <2> QED BY Zenon, <1>1, <2>1, <2>2 DEF ConsentInv, SignedLengths
<1>4. ASSUME NEW k, NEW d, NEW f, Says(k, d, f) PROVE Says(k, d, f)'
  BY Zenon, <1>1, <1>4 DEF Says
<1>5. BothPartiesAgreed'
  BY Zenon, <1>2, <1>4 DEF ConsentInv, BothPartiesAgreed
<1>6. RevokerAgreed'
  BY Zenon, <1>2, <1>4 DEF ConsentInv, RevokerAgreed
<1>7. StoredPayloadsDecode'
  BY Zenon, <1>2 DEF ConsentInv, StoredPayloadsDecode
<1> QED
  BY Zenon, <1>3, <1>5, <1>6, <1>7 DEF ConsentInv

(* An endorsement that admission verifies satisfies the invariant. *)
LEMMA AdmitEndorsementKeepsInv == ConsentInv /\ AdmitEndorsement => ConsentInv'
<1> SUFFICES ASSUME ConsentInv, AdmitEndorsement PROVE ConsentInv'
  BY Zenon
<1>1. PICK p \in Proposals, ps \in Signatures, ss \in Signatures, at \in Times :
        /\ NewAcceptedPayload(AcceptedPayload(p, ps, ss, at))
        /\ VerifyAccepted(AcceptedPayload(p, ps, ss, at))
        /\ accepted' = accepted \cup {EncodeAccepted(AcceptedPayload(p, ps, ss, at))}
        /\ UNCHANGED <<signed, revoked>>
  BY DEF AdmitEndorsement, AcceptedPayload
<1> DEFINE payload == AcceptedPayload(p, ps, ss, at)
           w == EncodeAccepted(payload)
<1>2. DecodeAccepted(w) = payload /\ w[1] = PayloadVersionV1
  BY Zenon, AcceptedRoundTrip
<1>3. ASSUME NEW k, NEW d, NEW f PROVE Says(k, d, f)' <=> Says(k, d, f)
  BY Zenon, <1>1 DEF Says
<1>4. /\ VerifySignature(payload.proposer, ProposalDigest(payload), ps)
      /\ VerifySignature(payload.subject,
                         AcceptanceDigest(ProposalDigest(payload), payload.acceptedAt), ss)
  BY Zenon, <1>1 DEF VerifyAccepted, AcceptedPayload
<1> DEFINE proposal == <<1, <<"uncompressed", payload.proposer>>,
                         <<"uncompressed", payload.subject>>, payload.topic,
                         payload.claim, payload.proposedAt>>
<1>5. Says(payload.proposer, "endorsement-proposal", proposal)
  <2>1. ProposalDigest(payload) = DomainSeparatedDigest("endorsement-proposal", proposal)
    BY Zenon DEF ProposalDigest, PayloadVersionV1, EncodePublicKey
  <2> QED BY Zenon, <1>4, <2>1, VerifiedIsSigned
<1>6. Says(payload.subject, "endorsement-acceptance",
           <<1, <<"endorsement-proposal", proposal>>, payload.acceptedAt>>)
  <2>1. AcceptanceDigest(ProposalDigest(payload), payload.acceptedAt)
          = DomainSeparatedDigest("endorsement-acceptance",
              <<1, <<"endorsement-proposal", proposal>>, payload.acceptedAt>>)
    BY Zenon DEF AcceptanceDigest, ProposalDigest, PayloadVersionV1, EncodePublicKey,
           DomainSeparatedDigest
  <2> QED BY Zenon, <1>4, <2>1, VerifiedIsSigned
<1>7. accepted' = accepted \cup {w} /\ revoked' = revoked /\ signed' = signed
  BY Zenon, <1>1
<1>a. NewAcceptedPayload(payload) /\ VerifyAccepted(payload)
  BY Zenon, <1>1
<1> HIDE DEF payload, w
<1>8. BothPartiesAgreed'
  BY Zenon, <1>2, <1>3, <1>5, <1>6, <1>7 DEF ConsentInv, BothPartiesAgreed
<1>9. StoredPayloadsDecode'
  <2>1. w = EncodeAccepted(payload)
    BY Zenon DEF w
  <2> QED BY Zenon, <1>2, <1>7, <1>a, <2>1 DEF ConsentInv, StoredPayloadsDecode,
             DecodesAccepted
<1> QED
  BY Zenon, <1>3, <1>7, <1>8, <1>9 DEF ConsentInv, SignedLengths, RevokerAgreed

(* A revocation that admission verifies satisfies the invariant. *)
LEMMA AdmitRevocationKeepsInv == ConsentInv /\ AdmitRevocation => ConsentInv'
<1> SUFFICES ASSUME ConsentInv, AdmitRevocation PROVE ConsentInv'
  OBVIOUS
<1>1. PICK p \in Revocations, s \in Signatures :
        /\ NewRevokedPayload(RevokedPayload(p, s)) /\ VerifyRevoked(RevokedPayload(p, s))
        /\ revoked' = revoked \cup {EncodeRevoked(RevokedPayload(p, s))}
        /\ UNCHANGED <<signed, accepted>>
  BY Zenon DEF AdmitRevocation, RevokedPayload
<1> DEFINE payload == RevokedPayload(p, s)
           w == EncodeRevoked(payload)
<1>2. DecodeRevoked(w) = payload /\ w[1] = PayloadVersionV1
  BY Zenon, RevokedRoundTrip
<1>3. ASSUME NEW k, NEW d, NEW f PROVE Says(k, d, f)' <=> Says(k, d, f)
  BY Zenon, <1>1 DEF Says
<1>4. VerifySignature(payload.revoker, RevocationDigest(payload), s)
  BY Zenon, <1>1 DEF VerifyRevoked, RevokedPayload
<1>5. Says(payload.revoker, "endorsement-revocation",
           <<1, payload.target, <<"uncompressed", payload.revoker>>, payload.role,
             payload.revokedAt, payload.reason>>)
  <2>1. RevocationDigest(payload) = DomainSeparatedDigest("endorsement-revocation",
           <<1, payload.target, <<"uncompressed", payload.revoker>>, payload.role,
             payload.revokedAt, payload.reason>>)
    BY Zenon DEF RevocationDigest, PayloadVersionV1, EncodePublicKey
  <2> QED BY Zenon, <1>4, <2>1, VerifiedIsSigned
<1>6. revoked' = revoked \cup {w} /\ accepted' = accepted /\ signed' = signed
  BY Zenon, <1>1
<1>7. NewRevokedPayload(payload) /\ VerifyRevoked(payload) /\ w = EncodeRevoked(payload)
  BY Zenon, <1>1
<1> HIDE DEF payload, w
<1>8. RevokerAgreed'
  BY Zenon, <1>2, <1>3, <1>5, <1>6 DEF ConsentInv, RevokerAgreed
<1>9. StoredPayloadsDecode'
  BY Zenon, <1>2, <1>6, <1>7 DEF ConsentInv, StoredPayloadsDecode, DecodesRevoked
<1>10. BothPartiesAgreed'
  BY Zenon, <1>3, <1>6 DEF ConsentInv, BothPartiesAgreed
<1> QED
  BY Zenon, <1>6, <1>8, <1>9, <1>10 DEF ConsentInv, SignedLengths

(* Every step keeps the invariant. *)
LEMMA ConsentNextInv == ConsentInv /\ [Next]_vars => ConsentInv'
<1> SUFFICES ASSUME ConsentInv, [Next]_vars PROVE ConsentInv'
  BY Zenon
<1>1. CASE SignProposal
  <2>1. PICK key \in Keys, p \in Proposals :
          ValidProposal(p) /\ MakeSignature(key, ProposalDigest(p))
    BY Zenon, <1>1 DEF SignProposal
  <2>2. BoundedStatement(ProposalDigest(p))
    BY <2>1 DEF BoundedStatement, ProposalDigest, DomainSeparatedDigest, ValidProposal
  <2> QED BY Zenon, <2>1, <2>2, SignatureKeepsConsent
<1>2. CASE SignAcceptance
  <2>1. PICK key \in Keys, p \in Proposals, at \in Times :
          MakeSignature(key, AcceptanceDigest(ProposalDigest(p), at))
    BY Zenon, <1>2 DEF SignAcceptance
  <2>2. BoundedStatement(AcceptanceDigest(ProposalDigest(p), at))
    BY DEF BoundedStatement, AcceptanceDigest, DomainSeparatedDigest
  <2> QED BY Zenon, <2>1, <2>2, SignatureKeepsConsent
<1>3. CASE SignRevocation
  <2>1. PICK key \in Keys, p \in Revocations :
          MakeSignature(key, RevocationDigest(p))
    BY Zenon, <1>3 DEF SignRevocation
  <2>2. BoundedStatement(RevocationDigest(p))
    BY DEF BoundedStatement, RevocationDigest, DomainSeparatedDigest
  <2> QED BY Zenon, <2>1, <2>2, SignatureKeepsConsent
<1>4. CASE AdmitEndorsement
  BY Zenon, <1>4, AdmitEndorsementKeepsInv
<1>5. CASE AdmitRevocation
  BY <1>5, AdmitRevocationKeepsInv
<1>6. CASE UNCHANGED vars
  <2>1. signed' = signed /\ accepted' = accepted /\ revoked' = revoked
    BY Zenon, <1>6 DEF vars
  <2>2. ASSUME NEW k, NEW d, NEW f PROVE Says(k, d, f)' <=> Says(k, d, f)
    BY Zenon, <2>1 DEF Says
  <2> QED
    BY Zenon, <2>1, <2>2 DEF ConsentInv, SignedLengths, BothPartiesAgreed,
       RevokerAgreed,
                      StoredPayloadsDecode
<1> QED
  BY Zenon, <1>1, <1>2, <1>3, <1>4, <1>5, <1>6 DEF Next

(* The invariant holds in every reachable state. *)
LEMMA ConsentInvariance == Spec => []ConsentInv
BY ConsentInitInv, ConsentNextInv, PTL DEF Spec

(* Every endorsement admission stores was agreed by both its parties. *)
THEOREM Consent == Spec => []BothPartiesAgreed
<1>1. ConsentInv => BothPartiesAgreed
  BY Zenon DEF ConsentInv
<1> QED BY <1>1, ConsentInvariance, PTL

(* Every revocation admission stores was signed by its revoker. *)
THEOREM RevokerConsent == Spec => []RevokerAgreed
<1>1. ConsentInv => RevokerAgreed
  BY Zenon DEF ConsentInv
<1> QED BY <1>1, ConsentInvariance, PTL

(* Whatever admission stores decodes to the payload that it verified. *)
THEOREM StoredReadable == Spec => []StoredPayloadsDecode
<1>1. ConsentInv => StoredPayloadsDecode
  BY Zenon DEF ConsentInv
<1> QED BY <1>1, ConsentInvariance, PTL

(* What the parties agreed on is never refused: matching signatures of the  *)
(* proposer and the subject always make a payload that verifies.            *)
THEOREM AgreementAdmitted == Spec => []AgreementIsAdmissible
<1>1. ConsentInv => AgreementIsAdmissible
  <2> SUFFICES ASSUME ConsentInv, NEW s \in signed, NEW t \in signed, NEW p \in Proposals,
                      NEW at \in Times, s.key = p.proposer, s.digest = ProposalDigest(p),
                      t.key = p.subject, t.digest = AcceptanceDigest(s.digest, at)
               PROVE  /\ NewAcceptedPayload(AcceptedPayload(p, s, t, at))
                      /\ VerifyAccepted(AcceptedPayload(p, s, t, at))
    BY DEF AgreementIsAdmissible, AcceptedPayload
  <2> DEFINE payload == AcceptedPayload(p, s, t, at)
  <2>1. ValidSignatureLength(s) /\ ValidSignatureLength(t) /\ BoundedStatement(s.digest)
    BY Zenon DEF ConsentInv, SignedLengths
  <2>2. InBounds(p.topic, 1, 128) /\ InBounds(p.claim, 1, 4096)
    <3>1. /\ s.digest[1] = "endorsement-proposal"
          /\ s.digest[2][4] = p.topic /\ s.digest[2][5] = p.claim
      BY DEF ProposalDigest, DomainSeparatedDigest
    <3> QED BY <2>1, <3>1 DEF BoundedStatement
  <2>3. /\ payload.topic = p.topic /\ payload.claim = p.claim
        /\ payload.proposer = p.proposer /\ payload.subject = p.subject
        /\ payload.proposerSig = s /\ payload.subjectSig = t /\ payload.acceptedAt = at
    BY Zenon DEF AcceptedPayload
  <2>4. ProposalDigest(payload) = ProposalDigest(p)
    BY Zenon DEF ProposalDigest, AcceptedPayload
  <2> HIDE DEF payload
  <2>5. NewAcceptedPayload(payload)
    BY <2>1, <2>2, <2>3 DEF NewAcceptedPayload
  <2>6. VerifyAccepted(payload)
    BY <2>1, <2>2, <2>3, <2>4 DEF VerifyAccepted, ValidProposal, VerifySignature
  <2> QED BY Zenon, <2>5, <2>6 DEF payload
<1> QED BY <1>1, ConsentInvariance, PTL

-----------------------------------------------------------------------------
(* The canonical record *)

(* The three maps have their fields, whatever the values. *)
IsEvent(x) ==
    /\ x.form \in Forms
    /\ x = Encode(x.form, x.fields, EventSize(x.fields))

IsBody(x) ==
    /\ x.form \in Forms
    /\ x = Encode(x.form, x.fields, RecordBodySize(x.fields))
    /\ x.fields = [version |-> x.fields.version, event |-> x.fields.event,
                   eventDigestAlgorithm |-> x.fields.eventDigestAlgorithm,
                   eventDigest |-> x.fields.eventDigest,
                   reference |-> x.fields.reference,
                   signatureAlgorithm |-> x.fields.signatureAlgorithm,
                   signatureEncoding |-> x.fields.signatureEncoding,
                   signature |-> x.fields.signature]
    /\ IsEvent(x.fields.event)

IsRecord(x) ==
    /\ x.form \in Forms
    /\ x = Encode(x.form, x.fields, LedgerRecordSize(x.fields))
    /\ x.fields = [version |-> x.fields.version, body |-> x.fields.body,
                   digestAlgorithm |-> x.fields.digestAlgorithm,
                   digest |-> x.fields.digest]
    /\ IsBody(x.fields.body)

(* What is kept is an encoded record, altered or not, and the constructors  *)
(* returned what their inputs deserve.                                      *)
CodecInv == (record = Nothing \/ IsRecord(record)) /\ LegalInputsBuild

(* The parts of an encoding. *)
LEMMA EncodeParts ==
    ASSUME NEW form, NEW fields, NEW n
    PROVE  /\ Encode(form, fields, n).form = form
           /\ Encode(form, fields, n).fields = fields
           /\ form = "canonical" => Encode(form, fields, n).size = n
           /\ Encode(form, fields, n) # Nothing
BY Zenon DEF Encode, Nothing

(* A map that decodes is in canonical form. *)
LEMMA CanonicalForm ==
    ASSUME NEW x, NEW m, x.form \in Forms, DecodeCanonicalMap(x, m)
    PROVE  x.form = "canonical"
BY Zenon DEF DecodeCanonicalMap, Forms

(* ValidateRecordStructure accepts only what the constructors produce. *)
LEMMA AcceptedCanonical ==
    ASSUME NEW x, IsRecord(x), ValidateRecordStructure(x)
    PROVE  /\ x = RecordBytes(x.fields.body)
           /\ x.fields.body = RecordBodyBytes(x.fields.body.fields.event,
                x.fields.body.fields.reference, x.fields.body.fields.signature)
           /\ x.fields.body.fields.event = EventBytes(x.fields.body.fields.event.fields)
<1> DEFINE o == x.fields
           b == o.body.fields
           e == b.event
<1>1. /\ DecodeCanonicalMap(x, MaxLedgerRecordBytes) /\ ValidLedgerRecordWire(o)
      /\ DecodeCanonicalMap(o.body, MaxRecordBodyBytes) /\ ValidRecordBodyWire(b)
      /\ o.digest = DigestRecordBody(o.body)
      /\ DecodeCanonicalMap(e, MaxEventBodyBytes)
      /\ b.eventDigest = DigestEventBody(e)
  BY Zenon DEF ValidateRecordStructure, ValidateEventStructure
<1>2. x.form = "canonical" /\ o.body.form = "canonical" /\ e.form = "canonical"
  BY Zenon, <1>1, CanonicalForm DEF IsRecord, IsBody, IsEvent
<1>3. e = EventBytes(e.fields)
  BY Zenon, <1>2 DEF IsRecord, IsBody, IsEvent, EventBytes
<1>4. b = [version |-> 1, event |-> e, eventDigestAlgorithm |-> "sha-256",
           eventDigest |-> DigestEventBody(e), reference |-> b.reference,
           signatureAlgorithm |-> "ecdsa-p256-sha256",
           signatureEncoding |-> "asn1-der", signature |-> b.signature]
  BY Zenon, <1>1 DEF IsRecord, IsBody, ValidRecordBodyWire
<1>5. o.body = RecordBodyBytes(e, b.reference, b.signature)
  <2>1. o.body = Encode("canonical", b, RecordBodySize(b))
    BY Zenon, <1>2 DEF IsRecord, IsBody
  <2> QED BY Zenon, <1>4, <2>1 DEF RecordBodyBytes
<1>6. o = [version |-> 1, body |-> o.body, digestAlgorithm |-> "sha-256",
           digest |-> DigestRecordBody(o.body)]
  BY Zenon, <1>1 DEF IsRecord, ValidLedgerRecordWire
<1>7. x = RecordBytes(o.body)
  <2>1. x = Encode("canonical", o, LedgerRecordSize(o))
    BY Zenon, <1>2 DEF IsRecord
  <2> QED BY Zenon, <1>6, <2>1 DEF RecordBytes
<1> QED BY Zenon, <1>3, <1>5, <1>7

----------------------------------------------------------------------------
(* The limits nest *)

(* A string of legal length is a few bytes longer when encoded. *)
LEMMA StringBound ==
    ASSUME NEW s, s.length \in Nat
    PROVE  StringSize(s) \in Nat /\ 0 < StringSize(s) /\ StringSize(s) <= s.length + 5
BY DEF StringSize, HeadSize

(* An event whose fields are legal fits its limit with room to spare. *)
LEMMA EventFits ==
    ASSUME NEW e \in Events, ValidEventBodyWire(e)
    PROVE  EventSize(e) \in Nat /\ 0 < EventSize(e) /\ EventSize(e) <= 66000
<1>1. /\ IntegerSize(e.sequence) \in 1..9 /\ IntegerSize(e.admittedAt) \in 1..9
      /\ IntegerSize(e.kind) \in 1..9 /\ IntegerSize(e.payloadVersion) \in 1..9
  <2>1. /\ e.sequence \in Integers64 /\ e.admittedAt \in Integers64
        /\ e.kind \in Integers64 /\ e.payloadVersion \in Integers64
    BY Zenon DEF Events
  <2>2. \A n \in Integers64 : IntegerSize(n) \in 1..9
    BY IntegerAssumption DEF IntegerSize
  <2> QED BY Zenon, <2>1, <2>2
<1>2. StringSize(e.ledger) \in 1..37
  BY StringBound DEF ValidEventBodyWire
<1>3. StringSize(e.previous) \in 1..37
  <2>1. e.previous.length = 0 \/ e.previous.length = 32
    BY DEF ValidEventBodyWire, Null, DigestBytes
  <2> QED
    <3>1. e.previous.length \in Nat /\ e.previous.length <= 32
      BY <2>1
    <3> QED BY <3>1, StringBound
<1>4. StringSize(e.payload) \in Nat /\ 0 < StringSize(e.payload) /\ StringSize(e.payload) <= 65541
  <2>1. e.payload \in Payloads
    BY Zenon DEF Events
  <2>2. e.payload.length \in Nat
    BY <2>1, StringAssumption
  <2>3. e.payload.length <= 65536
    BY DEF ValidEventBodyWire, MaxPayloadBytes
  <2>4. /\ StringSize(e.payload) \in Nat /\ 0 < StringSize(e.payload)
        /\ StringSize(e.payload) <= e.payload.length + 5
    BY <2>2, StringBound
  <2> QED BY <2>2, <2>3, <2>4
<1> DEFINE a == StringSize(e.ledger)
           b == IntegerSize(e.sequence)
           c == StringSize(e.previous)
           d == IntegerSize(e.admittedAt)
           f == IntegerSize(e.kind)
           g == IntegerSize(e.payloadVersion)
           h == StringSize(e.payload)
<1>5. /\ a \in 1..37 /\ b \in 1..9 /\ c \in 1..37 /\ d \in 1..9 /\ f \in 1..9
      /\ g \in 1..9 /\ h \in Nat /\ 0 < h /\ h <= 65541
      /\ EventSize(e) = 1 + 8 + 1 + a + b + c + d + f + g + h
  BY <1>1, <1>2, <1>3, <1>4 DEF EventSize
<1> HIDE DEF a, b, c, d, f, g, h
<1> QED BY <1>5

(* So does the record body around it, and the record around that. *)
LEMMA RecordFits ==
    ASSUME NEW event, NEW reference \in References, NEW signature \in SignatureStrings,
           event.size \in Nat, event.size <= 66000,
           ValidSignerKeyReference(reference), IsValidSignatureLength(signature)
    PROVE  LET body == RecordBodyBytes(event, reference, signature)
           IN  /\ body.size \in Nat /\ 0 < body.size /\ body.size <= 67000
               /\ RecordBytes(body).size \in Nat /\ RecordBytes(body).size <= 68000
<1> DEFINE body == RecordBodyBytes(event, reference, signature)
<1>1. StringSize(reference) \in 1..517
  <2>1. reference.length \in Nat
    BY StringAssumption
  <2> QED BY <2>1, StringBound DEF ValidSignerKeyReference, MaxSignerReferenceBytes
<1>2. StringSize(signature) \in 1..77
  <2>1. signature.length \in Nat
    BY StringAssumption
  <2> QED BY <2>1, StringBound DEF IsValidSignatureLength
<1>3. HeadSize(event.size) \in 1..5 /\ DigestSize = 34
  BY DEF HeadSize, DigestSize, DigestBytes
<1>4. body.size = 1 + 8 + 1 + HeadSize(event.size) + event.size + 8 + 34
                    + StringSize(reference) + 18 + 9 + StringSize(signature)
  BY <1>3 DEF RecordBodyBytes, Encode, RecordBodySize, AlgorithmSizes
<1> HIDE DEF body
<1>5. body.size \in Nat /\ 0 < body.size /\ body.size <= 67000
  <2> DEFINE h == HeadSize(event.size)
             n == event.size
             r == StringSize(reference)
             s == StringSize(signature)
  <2>1. /\ h \in 1..5 /\ n \in Nat /\ n <= 66000 /\ r \in 1..517 /\ s \in 1..77
        /\ body.size = 1 + 8 + 1 + h + n + 8 + 34 + r + 18 + 9 + s
    BY <1>1, <1>2, <1>3, <1>4
  <2> HIDE DEF h, n, r, s
  <2> QED BY <2>1
<1>6. HeadSize(body.size) \in 1..5
  BY <1>5 DEF HeadSize
<1>7. RecordBytes(body).size = 1 + 4 + 1 + HeadSize(body.size) + body.size + 8 + DigestSize
  BY DEF RecordBytes, Encode, LedgerRecordSize, AlgorithmSizes
<1> QED
  <2>1. RecordBytes(body).size \in Nat /\ RecordBytes(body).size <= 68000
    BY <1>3, <1>5, <1>6, <1>7
  <2> QED BY <1>5, <2>1 DEF body

(* The constructors return no error exactly for legal inputs. *)
LEMMA BuildsExactlyLegal ==
    ASSUME NEW i \in Inputs
    PROVE  (NewEvent(i.event) /\ NewRecord(EventBytes(i.event), i.reference, i.signature))
           <=> /\ ValidEventBodyWire(i.event) /\ ValidSignerKeyReference(i.reference)
               /\ IsValidSignatureLength(i.signature)
<1> DEFINE event == EventBytes(i.event)
           body == RecordBodyBytes(event, i.reference, i.signature)
           whole == RecordBytes(body)
<1>1. event.form = "canonical" /\ event.fields = i.event /\ event.size = EventSize(i.event)
  BY Zenon DEF EventBytes, Encode
<1>2. i.event \in Events /\ i.reference \in References /\ i.signature \in SignatureStrings
  BY Zenon DEF Inputs
<1>3. ASSUME NewEvent(i.event), NewRecord(event, i.reference, i.signature)
      PROVE  /\ ValidEventBodyWire(i.event) /\ ValidSignerKeyReference(i.reference)
             /\ IsValidSignatureLength(i.signature)
  BY Zenon, <1>1, <1>3 DEF NewEvent, NewRecord, ValidateEventStructure
<1>4. ASSUME ValidEventBodyWire(i.event), ValidSignerKeyReference(i.reference),
             IsValidSignatureLength(i.signature)
      PROVE  NewEvent(i.event) /\ NewRecord(event, i.reference, i.signature)
  <2>1. event.size \in Nat /\ 0 < event.size /\ event.size <= 66000
    BY <1>1, <1>2, <1>4, EventFits
  <2>2. ValidateEventStructure(event)
    BY <1>1, <1>4, <2>1 DEF ValidateEventStructure, DecodeCanonicalMap,
       MaxEventBodyBytes
  <2>3. /\ body.size \in Nat /\ 0 < body.size /\ body.size <= 67000
        /\ whole.size \in Nat /\ whole.size <= 68000
    BY <1>2, <1>4, <2>1, RecordFits
  <2>4. body.form = "canonical" /\ whole.form = "canonical"
    BY Zenon DEF RecordBodyBytes, RecordBytes, Encode
  <2>5. /\ body.fields.version = 1 /\ body.fields.event = event
        /\ body.fields.eventDigestAlgorithm = "sha-256"
        /\ body.fields.eventDigest = DigestEventBody(event)
        /\ body.fields.reference = i.reference /\ body.fields.signature = i.signature
        /\ body.fields.signatureAlgorithm = "ecdsa-p256-sha256"
        /\ body.fields.signatureEncoding = "asn1-der"
    BY Zenon DEF RecordBodyBytes, Encode
  <2>6. /\ whole.fields.version = 1 /\ whole.fields.body = body
        /\ whole.fields.digestAlgorithm = "sha-256"
        /\ whole.fields.digest = DigestRecordBody(body)
    BY Zenon DEF RecordBytes, Encode
  <2>7. DigestEventBody(event).length = DigestBytes /\ DigestRecordBody(body).length = DigestBytes
    BY DEF DigestEventBody, DigestRecordBody, SeparatedDigest
  <2> HIDE DEF event, body, whole
  <2>8. ValidRecordBodyWire(body.fields)
    BY <1>4, <2>1, <2>5, <2>7 DEF ValidRecordBodyWire, MaxEventBodyBytes
  <2>9. ValidLedgerRecordWire(whole.fields)
    BY <2>3, <2>6, <2>7 DEF ValidLedgerRecordWire, MaxRecordBodyBytes
  <2>10. /\ DecodeCanonicalMap(body, MaxRecordBodyBytes)
         /\ DecodeCanonicalMap(whole, MaxLedgerRecordBytes)
    BY <2>3, <2>4 DEF DecodeCanonicalMap, MaxRecordBodyBytes, MaxLedgerRecordBytes
  <2>11. ValidateRecordStructure(whole)
    BY <2>2, <2>5, <2>6, <2>8, <2>9, <2>10 DEF ValidateRecordStructure
  <2>12. /\ FitsLimit(event, MaxEventBodyBytes) /\ FitsLimit(body, MaxRecordBodyBytes)
         /\ FitsLimit(whole, MaxLedgerRecordBytes)
    BY <2>1, <2>3 DEF FitsLimit, MaxEventBodyBytes, MaxRecordBodyBytes,
       MaxLedgerRecordBytes
  <2> USE DEF event, body, whole
  <2>13. NewEvent(i.event)
    BY <2>2, <2>12 DEF NewEvent
  <2>14. NewRecord(event, i.reference, i.signature)
    BY <1>4, <2>2, <2>11, <2>12 DEF NewRecord
  <2> QED BY <2>13, <2>14
<1> QED BY Zenon, <1>3, <1>4

----------------------------------------------------------------------------
(* Alterations keep the shape *)

IsOuterMap(o) ==
    o = [version |-> o.version, body |-> o.body,
         digestAlgorithm |-> o.digestAlgorithm, digest |-> o.digest]

IsBodyMap(b) ==
    b = [version |-> b.version, event |-> b.event,
         eventDigestAlgorithm |-> b.eventDigestAlgorithm, eventDigest |-> b.eventDigest,
         reference |-> b.reference, signatureAlgorithm |-> b.signatureAlgorithm,
         signatureEncoding |-> b.signatureEncoding, signature |-> b.signature]

(* Replacing a field of the outer map leaves its fields as they are. *)
LEMMA OuterExcept ==
    ASSUME NEW o, IsOuterMap(o), NEW v
    PROVE  /\ IsOuterMap([o EXCEPT !.version = v]) /\ [o EXCEPT !.version = v].body = o.body
           /\ IsOuterMap([o EXCEPT !.digest = v]) /\ [o EXCEPT !.digest = v].body = o.body
           /\ IsOuterMap([o EXCEPT !.body = v]) /\ [o EXCEPT !.body = v].body = v
BY DEF IsOuterMap

(* Replacing a field of the record body leaves its fields as they are. *)
LEMMA BodyExcept ==
    ASSUME NEW b, IsBodyMap(b), NEW v
    PROVE  /\ IsBodyMap([b EXCEPT !.version = v]) /\ [b EXCEPT !.version = v].event = b.event
           /\ IsBodyMap([b EXCEPT !.eventDigest = v])
           /\ [b EXCEPT !.eventDigest = v].event = b.event
           /\ IsBodyMap([b EXCEPT !.signature = v])
           /\ [b EXCEPT !.signature = v].event = b.event
           /\ IsBodyMap([b EXCEPT !.event = v]) /\ [b EXCEPT !.event = v].event = v
BY DEF IsBodyMap

(* The encodings of maps have the shape of their level. *)
LEMMA EncodedShapes ==
    ASSUME NEW form \in Forms
    PROVE  /\ \A e : IsEvent(Encode(form, e, EventSize(e)))
           /\ \A b : IsBodyMap(b) /\ IsEvent(b.event)
                => IsBody(Encode(form, b, RecordBodySize(b)))
           /\ \A o : IsOuterMap(o) /\ IsBody(o.body)
                => IsRecord(Encode(form, o, LedgerRecordSize(o)))
<1>1. ASSUME NEW e PROVE IsEvent(Encode(form, e, EventSize(e)))
  BY EncodeParts DEF IsEvent
<1>2. ASSUME NEW b, IsBodyMap(b), IsEvent(b.event)
      PROVE  IsBody(Encode(form, b, RecordBodySize(b)))
  BY <1>2, EncodeParts DEF IsBody, IsBodyMap
<1>3. ASSUME NEW o, IsOuterMap(o), IsBody(o.body)
      PROVE  IsRecord(Encode(form, o, LedgerRecordSize(o)))
  BY <1>3, EncodeParts DEF IsRecord, IsOuterMap
<1> QED BY Zenon, <1>1, <1>2, <1>3

(* What the constructors produce has the shape of a record. *)
LEMMA BuiltShape ==
    ASSUME NEW e, NEW r, NEW s
    PROVE  IsRecord(RecordBytes(RecordBodyBytes(EventBytes(e), r, s)))
<1> DEFINE body == RecordBodyBytes(EventBytes(e), r, s)
<1>1. IsEvent(EventBytes(e))
  BY Zenon, EncodedShapes DEF EventBytes, Forms
<1>2. IsBody(body)
  <2> DEFINE b == [version |-> 1, event |-> EventBytes(e),
                   eventDigestAlgorithm |-> "sha-256",
                   eventDigest |-> DigestEventBody(EventBytes(e)), reference |-> r,
                   signatureAlgorithm |-> "ecdsa-p256-sha256",
                   signatureEncoding |-> "asn1-der", signature |-> s]
  <2>1. IsBodyMap(b) /\ b.event = EventBytes(e)
    BY DEF IsBodyMap
  <2>2. body = Encode("canonical", b, RecordBodySize(b))
    BY DEF RecordBodyBytes
  <2> HIDE DEF b, body
  <2> QED BY Zenon, <1>1, <2>1, <2>2, EncodedShapes DEF Forms
<1> HIDE DEF body
<1>3. IsRecord(RecordBytes(body))
  <2> DEFINE o == [version |-> 1, body |-> body, digestAlgorithm |-> "sha-256",
                   digest |-> DigestRecordBody(body)]
  <2>1. IsOuterMap(o) /\ o.body = body
    BY DEF IsOuterMap
  <2>2. RecordBytes(body) = Encode("canonical", o, LedgerRecordSize(o))
    BY DEF RecordBytes
  <2> HIDE DEF o
  <2> QED BY Zenon, <1>2, <2>1, <2>2, EncodedShapes DEF Forms
<1> QED BY <1>3 DEF body

(* Writing a well-shaped map at one of the levels keeps the record's shape. *)
LEMMA PutShapes ==
    ASSUME IsRecord(record), NEW form \in Forms
    PROVE  /\ \A o : IsOuterMap(o) /\ IsBody(o.body) /\ PutRecord(form, o) => IsRecord(record')
           /\ \A b : IsBodyMap(b) /\ IsEvent(b.event) /\ PutBody(form, b) => IsRecord(record')
           /\ \A e : PutEvent(form, e) => IsRecord(record')
<1>1. IsOuterMap(Outer) /\ IsBodyMap(Body) /\ record.form \in Forms /\ Outer.body.form \in Forms
  BY Zenon DEF IsRecord, IsBody, IsOuterMap, IsBodyMap, Outer, Body
<1>2. ASSUME NEW f \in Forms, NEW o, IsOuterMap(o), IsBody(o.body), PutRecord(f, o)
      PROVE  IsRecord(record')
  BY <1>2, EncodedShapes DEF PutRecord
<1>3. ASSUME NEW f \in Forms, NEW b, IsBodyMap(b), IsEvent(b.event), PutBody(f, b)
      PROVE  IsRecord(record')
  <2> DEFINE x == Encode(f, b, RecordBodySize(b))
             o == [Outer EXCEPT !.body = x]
  <2>1. IsBody(x)
    BY <1>3, EncodedShapes
  <2>2. IsOuterMap(o) /\ o.body = x
    BY Zenon, <1>1, OuterExcept
  <2>3. PutRecord(record.form, o)
    BY <1>3 DEF PutBody
  <2> HIDE DEF x, o
  <2> QED BY <1>1, <1>2, <2>1, <2>2, <2>3
<1>4. ASSUME NEW e, PutEvent(form, e) PROVE IsRecord(record')
  <2> DEFINE x == Encode(form, e, EventSize(e))
             b == [Body EXCEPT !.event = x]
  <2>1. IsEvent(x)
    BY EncodedShapes
  <2>2. IsBodyMap(b) /\ b.event = x
    BY Zenon, <1>1, BodyExcept
  <2>3. PutBody(Outer.body.form, b)
    BY <1>4 DEF PutEvent
  <2> HIDE DEF x, b
  <2> QED BY <1>1, <1>3, <2>1, <2>2, <2>3
<1> QED BY <1>2, <1>3, <1>4

(* An alteration, at any level, leaves an encoded record. *)
LEMMA AlterShape ==
    ASSUME IsRecord(record), AlterEvent \/ AlterBody \/ AlterOuter
    PROVE  IsRecord(record')
<1>1. /\ IsOuterMap(Outer) /\ IsBodyMap(Body) /\ IsBody(Outer.body) /\ IsEvent(Body.event)
      /\ record.form \in Forms /\ Outer.body.form \in Forms /\ Body.event.form \in Forms
  BY Zenon DEF IsRecord, IsBody, IsEvent, IsOuterMap, IsBodyMap, Outer, Body
<1>2. CASE AlterEvent
  BY Zenon, <1>1, <1>2, PutShapes DEF AlterEvent
<1>3. CASE AlterBody
  <2>1. PICK f, b : f \in Forms /\ IsBodyMap(b) /\ IsEvent(b.event) /\ PutBody(f, b)
    <3>1. CASE \E f \in Forms : PutBody(f, Body)
      BY <1>1, <3>1
    <3>2. CASE \E v \in {1, 2} : PutBody(Outer.body.form, [Body EXCEPT !.version = v])
      BY Zenon, <1>1, <3>2, BodyExcept
    <3>3. CASE \E d \in Forged \cup {DigestEventBody(Body.event)} :
                 PutBody(Outer.body.form, [Body EXCEPT !.eventDigest = d])
      <4>1. PICK d \in Forged \cup {DigestEventBody(Body.event)} :
              PutBody(Outer.body.form, [Body EXCEPT !.eventDigest = d])
        BY <3>3
      <4>2. /\ IsBodyMap([Body EXCEPT !.eventDigest = d])
            /\ [Body EXCEPT !.eventDigest = d].event = Body.event
        BY Zenon, <1>1, BodyExcept
      <4>3. IsEvent([Body EXCEPT !.eventDigest = d].event)
        BY <1>1, <4>2
      <4> QED BY <1>1, <4>1, <4>2, <4>3, Zenon
    <3>4. CASE \E s \in SignatureStrings :
                 PutBody(Outer.body.form, [Body EXCEPT !.signature = s])
      <4>1. PICK s \in SignatureStrings :
              PutBody(Outer.body.form, [Body EXCEPT !.signature = s])
        BY <3>4
      <4>2. /\ IsBodyMap([Body EXCEPT !.signature = s])
            /\ [Body EXCEPT !.signature = s].event = Body.event
        BY Zenon, <1>1, BodyExcept
      <4>3. IsEvent([Body EXCEPT !.signature = s].event)
        BY <1>1, <4>2
      <4> QED BY <1>1, <4>1, <4>2, <4>3, Zenon
    <3> QED BY <1>3, <3>1, <3>2, <3>3, <3>4 DEF AlterBody
  <2> QED BY <2>1, PutShapes
<1>4. CASE AlterOuter
  <2>1. PICK f, o : f \in Forms /\ IsOuterMap(o) /\ IsBody(o.body) /\ PutRecord(f, o)
    <3>1. CASE \E f \in Forms : PutRecord(f, Outer)
      BY <1>1, <3>1
    <3>2. CASE \E v \in {1, 2} : PutRecord(record.form, [Outer EXCEPT !.version = v])
      BY Zenon, <1>1, <3>2, OuterExcept
    <3>3. CASE \E d \in Forged \cup {DigestRecordBody(Outer.body)} :
                 PutRecord(record.form, [Outer EXCEPT !.digest = d])
      BY Zenon, <1>1, <3>3, OuterExcept
    <3> QED BY <1>4, <3>1, <3>2, <3>3 DEF AlterOuter
  <2> QED BY <2>1, PutShapes
<1> QED BY <1>2, <1>3, <1>4

----------------------------------------------------------------------------
(* The theorems *)

(* The constructors and the alterations keep the invariant. *)
LEMMA CodecNextInv == CodecInv /\ [CodecNext]_codecVars => CodecInv'
<1> SUFFICES ASSUME CodecInv, [CodecNext]_codecVars PROVE CodecInv'
  OBVIOUS
<1>1. ASSUME NEW i \in Inputs, Build(i) PROVE CodecInv'
  <2>1. record' = Nothing \/ IsRecord(record')
    BY <1>1, BuiltShape DEF Build
  <2>a. built' = [form |-> "built", input |-> i,
                  ok |-> /\ NewEvent(i.event)
                         /\ NewRecord(EventBytes(i.event), i.reference, i.signature)]
    BY <1>1, Zenon DEF Build
  <2>2. /\ built'.input = i
        /\ built'.ok = (/\ NewEvent(i.event)
                        /\ NewRecord(EventBytes(i.event), i.reference, i.signature))
    BY <2>a, Zenon
  <2>3. LegalInputsBuild'
    <3>1. built'.ok <=> /\ ValidEventBodyWire(i.event)
                        /\ ValidSignerKeyReference(i.reference)
                        /\ IsValidSignatureLength(i.signature)
      BY <2>2, BuildsExactlyLegal, Zenon
    <3> QED BY <2>2, <3>1, Zenon DEF LegalInputsBuild
  <2> QED BY <2>1, <2>3 DEF CodecInv
<1>2. CASE Alter
  <2>1. record # Nothing /\ built' = built /\ (AlterEvent \/ AlterBody \/ AlterOuter)
    BY <1>2 DEF Alter
  <2>2. IsRecord(record')
    BY <2>1, AlterShape DEF CodecInv
  <2> QED BY <2>1, <2>2 DEF CodecInv, LegalInputsBuild
<1>3. CASE UNCHANGED codecVars
  BY <1>3 DEF CodecInv, LegalInputsBuild, codecVars
<1> QED BY <1>1, <1>2, <1>3 DEF CodecNext

(* The invariant holds in every reachable state. *)
LEMMA CodecInvariance == CodecSpec => []CodecInv
<1>1. CodecInit => CodecInv
  BY DEF CodecInit, CodecInv, LegalInputsBuild
<1> QED BY <1>1, CodecNextInv, PTL DEF CodecSpec

(* NewEvent and NewRecord refuse no legal input, whatever its lengths: the  *)
(* limits of the event, the record body and the ledger record nest.         *)
THEOREM LimitsNest == CodecSpec => []LegalInputsBuild
<1>1. CodecInv => LegalInputsBuild
  BY DEF CodecInv
<1> QED BY <1>1, CodecInvariance, PTL

(* ValidateRecordStructure accepts one encoding of a record only. *)
THEOREM CanonicalRecord == CodecSpec => []AcceptedIsCanonical
<1>1. CodecInv => AcceptedIsCanonical
  BY AcceptedCanonical DEF CodecInv, AcceptedIsCanonical, AcceptedRecord, Outer, Body,
     Event
<1> QED BY <1>1, CodecInvariance, PTL

(* An accepted record with the digest of the record that was built is it. *)
THEOREM DigestIdentifies == CodecSpec => []DigestPinsRecord
<1>1. CodecInv => DigestPinsRecord
  <2> DEFINE original == RecordBodyBytes(EventBytes(built.input.event),
                                         built.input.reference, built.input.signature)
  <2> SUFFICES ASSUME CodecInv, AcceptedRecord, Outer.digest = DigestRecordBody(original)
               PROVE  record = RecordBytes(original)
    BY DEF DigestPinsRecord
  <2> HIDE DEF original
  <2>1. Outer.digest = DigestRecordBody(Outer.body)
    BY DEF AcceptedRecord, ValidateRecordStructure, Outer
  <2>2. Outer.body = original
    BY <2>1 DEF DigestRecordBody, SeparatedDigest
  <2>3. record = RecordBytes(Outer.body)
    BY AcceptedCanonical DEF CodecInv, AcceptedRecord, Outer
  <2> QED BY <2>2, <2>3
<1> QED BY <1>1, CodecInvariance, PTL

-----------------------------------------------------------------------------
(* The life of the process *)

(* A process that ends by itself, as opposed to by a signal. *)
Ending == {"telemetry", "sync", "close"}
AtEnd == pc \in Ending \/ (pc = "exited" /\ exit # "killed")

(* An accepted configuration leaves time for more than the reserve. *)
ConfigInv == pc \in (Startup \ {"load"}) \cup {"select", "drain"} => cfg.timeout > 1

(* Before Run nothing serves; without telemetry there is no exporter. *)
StartupInv ==
    /\ pc \in Startup => serve = "none" /\ exit = "none"
    /\ pc \in Startup \ {"notify"} => listener = "none"
    /\ pc \in {"load", "observability"} => \A p \in Providers : exporters[p] = "none"
    /\ ~cfg.telemetry => \A p \in Providers : exporters[p] = "none"
    /\ pc \in {"select", "drain", "await"} => exit = "none"
    /\ exit = "success" => pc \in {"close", "exited"}
    /\ exit = "killed" => pc = "exited"

(* Serve closes the listener when it returns. *)
ServeInv ==
    /\ ServeReturned => listener = "closed"
    /\ AtEnd /\ exit # "failure" /\ "wait" \notin errs => ServeReturned
    /\ AtEnd /\ exit # "failure" /\ "wait" \notin errs /\ "serve" \notin errs
         => serve = "ErrServerClosed"
    /\ AtEnd /\ listener = "open" => "wait" \in errs

(* Draining: Shutdown lets no request in, and says so when one is left. *)
DrainInv ==
    /\ pc \in Stopping /\ exit # "failure" => inShutdown
    /\ exit = "success" => inShutdown
    /\ (pc \in {"await", "telemetry", "sync"} /\ exit # "failure") \/ exit = "success"
         => "drain" \in errs \/ \A h \in Handlers : handlers[h] = "idle"

(* The providers: begun, and collected with their errors. *)
ProviderInv ==
    /\ AtEnd => \A p \in Providers : exporters[p] # "open"
    /\ \A p \in collected : \/ exporters[p] = "closed"
                            \/ exporters[p] = "failed" /\ p \in errs
    /\ (pc = "sync" \/ exit = "success") /\ cfg.telemetry /\ errs = {}
         => collected = Providers

(* The store and the exit status of a process that ended by itself. *)
ExitInv ==
    /\ pc = "exited" /\ exit # "killed" => store \in {"none", "closed"}
    /\ exit = "success" => errs = {}
    /\ "inputs" \notin errs

(* Time: the HTTP deadline bounds draining, and Serve's return ends the wait. *)
ClockInv ==
    /\ pc = "drain" => clock <= cfg.timeout - 1
    /\ pc = "await" /\ ServeReturned /\ returnedAt <= cfg.timeout - 1
         => clock <= cfg.timeout - 1

Inv == /\ TypeOK /\ ConfigInv /\ StartupInv /\ ServeInv /\ DrainInv /\ ProviderInv
       /\ ExitInv /\ ClockInv

----------------------------------------------------------------------------
(* The initial state satisfies the invariant. *)
LEMMA InitInv == RunInit => Inv
<1> SUFFICES ASSUME RunInit PROVE Inv
  BY Zenon
<1>1. TypeOK
  <2>1. cfg.timeout \in Int
    BY DEF RunInit, NoConfig
  <2>2. cfg.telemetry \in BOOLEAN /\ cfg.database \in BOOLEAN
    BY Zenon DEF RunInit, NoConfig
  <2>3. signalled \in BOOLEAN /\ inShutdown \in BOOLEAN
    BY Zenon DEF RunInit
  <2>4. clock \in 0..MaxClock /\ returnedAt \in 0..MaxClock
    BY ClockAssumption DEF RunInit
  <2> QED BY Zenon, <2>1, <2>2, <2>3, <2>4 DEF RunInit, TypeOK, Startup
<1>2. ConfigInv /\ StartupInv /\ ServeInv /\ DrainInv /\ ProviderInv /\ ExitInv /\ ClockInv
  BY Zenon DEF RunInit, ConfigInv, StartupInv, ServeInv, DrainInv, ProviderInv,
     ExitInv, ClockInv,
         NoConfig, Startup, Stopping, Returned, ServeReturned, AtEnd, Ending
<1> QED BY Zenon, <1>1, <1>2 DEF Inv

(* A configuration that Load accepts is typed, and leaves time for more     *)
(* than the telemetry reserve.                                              *)
LEMMA LoadedConfig ==
    ASSUME NEW env \in Environments, Accepted(env)
    PROVE  /\ Load(env).timeout \in Int /\ Load(env).timeout > 1
           /\ Load(env).telemetry \in BOOLEAN /\ Load(env).database \in BOOLEAN
<1>1. /\ env.timeout \in Int \cup {Unset, Unparsable}
      /\ env.enabled \in BOOLEAN \cup {Unset, Unparsable} /\ env.database \in BOOLEAN
  BY Zenon, ConfigAssumption
<1>2. Load(env).database \in BOOLEAN
  BY <1>1, Zenon DEF Load
<1>3. Load(env).telemetry \in BOOLEAN
  <2>1. Enabled(env) # Unparsable
    BY Zenon DEF Accepted, LoadTelemetry
  <2>2. Enabled(env) \in BOOLEAN
    BY <1>1, <2>1, Zenon DEF Enabled, LookupOrDefault
  <2> QED BY <2>2, Zenon DEF Load
<1>4. Load(env).timeout \in Int /\ Load(env).timeout > 1
  <2>1. Load(env).timeout = LookupOrDefault(env.timeout, 8)
    BY Zenon DEF Load
  <2>2. /\ LookupOrDefault(env.timeout, 8) # Unparsable
        /\ LookupOrDefault(env.timeout, 8) > 1
    BY Zenon DEF Accepted, LoadShutdownTimeout, MinimumShutdownTimeout
  <2>3. LookupOrDefault(env.timeout, 8) \in Int
    BY <1>1, <2>2 DEF LookupOrDefault
  <2> QED BY Zenon, <2>1, <2>2, <2>3
<1> QED BY Zenon, <1>2, <1>3, <1>4

(* A configuration is loaded, or the process fails. *)
LEMMA LoadConfigStep ==
    ASSUME Inv, NEW env \in Environments, LoadConfig(env)
    PROVE  Inv'
<1> USE DEF Inv, Startup, Stopping, Returned, ServeReturned, AtEnd, Ending, LoadConfig
<1>1. TypeOK'
  <2>1. /\ cfg'.timeout \in Int /\ cfg'.telemetry \in BOOLEAN
        /\ cfg'.database \in BOOLEAN
    BY LoadedConfig, Zenon DEF TypeOK
  <2> QED BY <2>1 DEF TypeOK
<1>2. ConfigInv'
  BY Zenon, LoadedConfig DEF ConfigInv
<1>3. StartupInv'
  BY Zenon DEF StartupInv, TypeOK
<1>4. ServeInv'
  BY Zenon DEF ServeInv, StartupInv, TypeOK
<1>5. DrainInv'
  BY Zenon DEF DrainInv, StartupInv, TypeOK
<1>6. ProviderInv'
  BY Zenon DEF ProviderInv, StartupInv, TypeOK
<1>7. ExitInv'
  BY Zenon DEF ExitInv, StartupInv, TypeOK
<1>8. ClockInv'
  BY Zenon DEF ClockInv, ConfigInv, TypeOK
<1> QED BY Zenon, <1>1, <1>2, <1>3, <1>4, <1>5, <1>6, <1>7, <1>8

(* Telemetry is set up, or everything that was set up is undone. *)
LEMMA NewTelemetryStep ==
    ASSUME Inv, NewTelemetry
    PROVE  Inv'
<1> USE DEF Inv, Startup, Stopping, Returned, ServeReturned, AtEnd, Ending, NewTelemetry
<1>1. TypeOK'
  BY DEF TypeOK
<1>2. ConfigInv'
  BY Zenon DEF ConfigInv, TypeOK
<1>3. StartupInv'
  BY Zenon DEF StartupInv, TypeOK
<1>4. ServeInv'
  BY Zenon DEF ServeInv, StartupInv, TypeOK
<1>5. DrainInv'
  BY Zenon DEF DrainInv, StartupInv, TypeOK
<1>6. ProviderInv'
  BY DEF ProviderInv, StartupInv, TypeOK
<1>7. ExitInv'
  BY Zenon DEF ExitInv, StartupInv, TypeOK
<1>8. ClockInv'
  BY Zenon DEF ClockInv, ConfigInv, TypeOK
<1> QED BY Zenon, <1>1, <1>2, <1>3, <1>4, <1>5, <1>6, <1>7, <1>8

(* The pool is opened, or telemetry is shut down. *)
LEMMA OpenStoreStep ==
    ASSUME Inv, OpenStore
    PROVE  Inv'
<1> USE DEF Inv, Startup, Stopping, Returned, ServeReturned, AtEnd, Ending,
            OpenStore, StartupFails, StartupContinues, ShutdownProviders
<1>1. TypeOK'
  BY ClockAssumption DEF TypeOK
<1>2. ConfigInv'
  BY Zenon DEF ConfigInv, TypeOK
<1>3. StartupInv'
  BY DEF StartupInv, TypeOK
<1>4. ServeInv'
  BY Zenon DEF ServeInv, StartupInv, TypeOK
<1>5. DrainInv'
  BY Zenon DEF DrainInv, StartupInv, TypeOK
<1>6. ProviderInv'
  BY DEF ProviderInv, StartupInv, TypeOK
<1>7. ExitInv'
  BY Zenon DEF ExitInv, StartupInv, TypeOK
<1>8. ClockInv'
  BY Zenon DEF ClockInv, ConfigInv, TypeOK
<1> QED BY Zenon, <1>1, <1>2, <1>3, <1>4, <1>5, <1>6, <1>7, <1>8

(* The signer is made, or telemetry is shut down. *)
LEMMA GenerateSignerStep ==
    ASSUME Inv, GenerateSigner
    PROVE  Inv'
<1> USE DEF Inv, Startup, Stopping, Returned, ServeReturned, AtEnd, Ending,
            GenerateSigner, StartupFails, StartupContinues, ShutdownProviders
<1>1. TypeOK'
  BY ClockAssumption DEF TypeOK
<1>2. ConfigInv'
  BY Zenon DEF ConfigInv, TypeOK
<1>3. StartupInv'
  BY DEF StartupInv, TypeOK
<1>4. ServeInv'
  BY Zenon DEF ServeInv, StartupInv, TypeOK
<1>5. DrainInv'
  BY Zenon DEF DrainInv, StartupInv, TypeOK
<1>6. ProviderInv'
  BY DEF ProviderInv, StartupInv, TypeOK
<1>7. ExitInv'
  BY Zenon DEF ExitInv, StartupInv, TypeOK
<1>8. ClockInv'
  BY Zenon DEF ClockInv, ConfigInv, TypeOK
<1> QED BY Zenon, <1>1, <1>2, <1>3, <1>4, <1>5, <1>6, <1>7, <1>8

(* The listener is opened, or telemetry is shut down. *)
LEMMA ListenStep ==
    ASSUME Inv, Listen
    PROVE  Inv'
<1> USE DEF Inv, Startup, Stopping, Returned, ServeReturned, AtEnd, Ending,
            Listen, StartupFails, StartupContinues, ShutdownProviders
<1>1. TypeOK'
  BY ClockAssumption DEF TypeOK
<1>2. ConfigInv'
  BY Zenon DEF ConfigInv, TypeOK
<1>3. StartupInv'
  BY DEF StartupInv, TypeOK
<1>4. ServeInv'
  BY Zenon DEF ServeInv, StartupInv, TypeOK
<1>5. DrainInv'
  BY Zenon DEF DrainInv, StartupInv, TypeOK
<1>6. ProviderInv'
  BY DEF ProviderInv, StartupInv, TypeOK
<1>7. ExitInv'
  BY Zenon DEF ExitInv, StartupInv, TypeOK
<1>8. ClockInv'
  BY Zenon DEF ClockInv, ConfigInv, TypeOK
<1> QED BY Zenon, <1>1, <1>2, <1>3, <1>4, <1>5, <1>6, <1>7, <1>8

(* Run accepts its inputs: Load made sure of them. *)
LEMMA StartRunStep ==
    ASSUME Inv, StartRun
    PROVE  Inv'
<1> USE DEF Inv, Startup, Stopping, Returned, ServeReturned, AtEnd, Ending,
            StartRun, ValidRunInputs, TelemetryShutdownReserve
<1>1. TypeOK'
  BY DEF TypeOK
<1>2. ConfigInv'
  BY Zenon DEF ConfigInv, TypeOK
<1>3. StartupInv'
  BY Zenon DEF StartupInv, TypeOK
<1>4. ServeInv'
  BY Zenon DEF ServeInv, StartupInv, TypeOK, ConfigInv
<1>5. DrainInv'
  BY Zenon DEF DrainInv, StartupInv, TypeOK
<1>6. ProviderInv'
  BY Zenon DEF ProviderInv, StartupInv, TypeOK, ConfigInv
<1>7. ExitInv'
  BY Zenon DEF ExitInv, StartupInv, TypeOK, ConfigInv
<1>8. ClockInv'
  BY Zenon DEF ClockInv, ConfigInv, TypeOK
<1> QED BY Zenon, <1>1, <1>2, <1>3, <1>4, <1>5, <1>6, <1>7, <1>8

(* Serve starts, or returns and closes the listener. *)
LEMMA ServeStep ==
    ASSUME Inv, Serve
    PROVE  Inv'
<1> USE DEF Inv, Startup, Stopping, Returned, ServeReturned, AtEnd, Ending, Serve, Return
<1>1. TypeOK'
  BY DEF TypeOK
<1>2. ConfigInv'
  BY Zenon DEF ConfigInv, TypeOK
<1>3. StartupInv'
  BY Zenon DEF StartupInv, TypeOK
<1>4. ServeInv'
  BY Zenon DEF ServeInv, StartupInv, TypeOK
<1>5. DrainInv'
  BY Zenon DEF DrainInv, StartupInv, TypeOK
<1>6. ProviderInv'
  BY Zenon DEF ProviderInv, StartupInv, TypeOK
<1>7. ExitInv'
  BY Zenon DEF ExitInv, StartupInv, TypeOK
<1>8. ClockInv'
  BY Zenon DEF ClockInv, ConfigInv, TypeOK
<1> QED BY Zenon, <1>1, <1>2, <1>3, <1>4, <1>5, <1>6, <1>7, <1>8

(* A request begins only while Serve accepts connections. *)
LEMMA HandlerStep ==
    ASSUME Inv, NEW h \in Handlers, Handler(h)
    PROVE  Inv'
<1> USE DEF Inv, Startup, Stopping, Returned, ServeReturned, AtEnd, Ending, Handler
<1>1. TypeOK'
  BY DEF TypeOK
<1>2. ConfigInv'
  BY Zenon DEF ConfigInv, TypeOK
<1>3. StartupInv'
  BY Zenon DEF StartupInv, TypeOK
<1>4. ServeInv'
  BY Zenon DEF ServeInv, StartupInv, TypeOK
<1>5. DrainInv'
  BY Zenon DEF DrainInv, StartupInv, TypeOK
<1>6. ProviderInv'
  BY Zenon DEF ProviderInv, StartupInv, TypeOK
<1>7. ExitInv'
  BY Zenon DEF ExitInv, StartupInv, TypeOK
<1>8. ClockInv'
  BY Zenon DEF ClockInv, ConfigInv, TypeOK
<1> QED BY Zenon, <1>1, <1>2, <1>3, <1>4, <1>5, <1>6, <1>7, <1>8

(* A provider finishes its shutdown. *)
LEMMA ProviderStep ==
    ASSUME Inv, NEW p \in Providers, Provider(p)
    PROVE  Inv'
<1> USE DEF Inv, Startup, Stopping, Returned, ServeReturned, AtEnd, Ending, Provider
<1>1. TypeOK'
  BY DEF TypeOK
<1>2. ConfigInv'
  BY Zenon DEF ConfigInv, TypeOK
<1>3. StartupInv'
  BY Zenon DEF StartupInv, TypeOK
<1>4. ServeInv'
  BY Zenon DEF ServeInv, StartupInv, TypeOK
<1>5. DrainInv'
  BY Zenon DEF DrainInv, StartupInv, TypeOK
<1>6. ProviderInv'
  BY DEF ProviderInv, StartupInv, TypeOK
<1>7. ExitInv'
  BY Zenon DEF ExitInv, StartupInv, TypeOK
<1>8. ClockInv'
  BY Zenon DEF ClockInv, ConfigInv, TypeOK
<1> QED BY Zenon, <1>1, <1>2, <1>3, <1>4, <1>5, <1>6, <1>7, <1>8

(* A signal ends the process or asks Run to stop. *)
LEMMA SignalStep ==
    ASSUME Inv, Signal
    PROVE  Inv'
<1> USE DEF Inv, Startup, Stopping, Returned, ServeReturned, AtEnd, Ending, Signal
<1>1. TypeOK'
  <2>1. signalled' \in BOOLEAN
    BY Zenon DEF TypeOK
  <2>2. /\ pc' \in {pc, "exited"} /\ exit' \in {exit, "killed"}
        /\ UNCHANGED <<cfg, exporters, store, listener, serve, inShutdown,
                       handlers, clock, collected, errs, returnedAt>>
    BY Zenon
  <2> HIDE DEF Signal
  <2> QED BY <2>1, <2>2 DEF TypeOK
<1>2. ConfigInv'
  BY Zenon DEF ConfigInv, TypeOK
<1>3. StartupInv'
  BY Zenon DEF StartupInv, TypeOK
<1>4. ServeInv'
  BY Zenon DEF ServeInv, StartupInv, TypeOK
<1>5. DrainInv'
  BY Zenon DEF DrainInv, StartupInv, TypeOK
<1>6. ProviderInv'
  BY Zenon DEF ProviderInv, StartupInv, TypeOK
<1>7. ExitInv'
  BY Zenon DEF ExitInv, StartupInv, TypeOK
<1>8. ClockInv'
  BY Zenon DEF ClockInv, ConfigInv, TypeOK
<1> QED BY Zenon, <1>1, <1>2, <1>3, <1>4, <1>5, <1>6, <1>7, <1>8

(* A second passes only when nothing is due. *)
LEMMA TickStep ==
    ASSUME Inv, Tick
    PROVE  Inv'
<1> USE DEF Inv, Startup, Stopping, Returned, ServeReturned, AtEnd, Ending, Tick,
            Due, HttpDeadline, TelemetryShutdownReserve
<1>1. TypeOK'
  BY ClockAssumption DEF TypeOK
<1>2. ConfigInv'
  BY Zenon DEF ConfigInv, TypeOK
<1>3. StartupInv'
  BY Zenon DEF StartupInv, TypeOK
<1>4. ServeInv'
  BY Zenon DEF ServeInv, StartupInv, TypeOK
<1>5. DrainInv'
  BY Zenon DEF DrainInv, StartupInv, TypeOK
<1>6. ProviderInv'
  BY Zenon DEF ProviderInv, StartupInv, TypeOK
<1>7. ExitInv'
  BY Zenon DEF ExitInv, StartupInv, TypeOK
<1>8. ClockInv'
  BY DEF ClockInv, ConfigInv, TypeOK
<1> QED BY Zenon, <1>1, <1>2, <1>3, <1>4, <1>5, <1>6, <1>7, <1>8

(* Shutdown lets no request in. *)
LEMMA BeginShutdownStep ==
    ASSUME Inv, BeginShutdown
    PROVE  Inv'
<1> USE DEF Inv, Startup, Stopping, Returned, ServeReturned, AtEnd, Ending, BeginShutdown
<1>1. TypeOK'
  BY ClockAssumption DEF TypeOK
<1>2. ConfigInv'
  BY Zenon DEF ConfigInv, TypeOK
<1>3. StartupInv'
  BY Zenon DEF StartupInv, TypeOK
<1>4. ServeInv'
  BY Zenon DEF ServeInv, StartupInv, TypeOK
<1>5. DrainInv'
  BY Zenon DEF DrainInv, StartupInv, TypeOK
<1>6. ProviderInv'
  BY Zenon DEF ProviderInv, StartupInv, TypeOK
<1>7. ExitInv'
  BY Zenon DEF ExitInv, StartupInv, TypeOK
<1>8. ClockInv'
  BY DEF ClockInv, ConfigInv, TypeOK
<1> QED BY Zenon, <1>1, <1>2, <1>3, <1>4, <1>5, <1>6, <1>7, <1>8

(* Shutdown returns with its error. *)
LEMMA DrainEndsStep ==
    ASSUME Inv, DrainEnds
    PROVE  Inv'
<1> USE DEF Inv, Startup, Stopping, Returned, ServeReturned, AtEnd, Ending,
            DrainEnds, HttpDeadline, TelemetryShutdownReserve
<1>1. TypeOK'
  BY DEF TypeOK
<1>2. ConfigInv'
  BY Zenon DEF ConfigInv, TypeOK
<1>3. StartupInv'
  BY Zenon DEF StartupInv, TypeOK
<1>4. ServeInv'
  BY Zenon DEF ServeInv, StartupInv, TypeOK
<1>5. DrainInv'
  BY Zenon DEF DrainInv, StartupInv, TypeOK
<1>6. ProviderInv'
  BY Zenon DEF ProviderInv, StartupInv, TypeOK
<1>7. ExitInv'
  BY Zenon DEF ExitInv, StartupInv, TypeOK
<1>8. ClockInv'
  BY Zenon DEF ClockInv, ConfigInv, TypeOK
<1> QED BY Zenon, <1>1, <1>2, <1>3, <1>4, <1>5, <1>6, <1>7, <1>8

(* Serve returned, or the join says it did not. *)
LEMMA AwaitServeStep ==
    ASSUME Inv, AwaitServe
    PROVE  Inv'
<1> USE DEF Inv, Startup, Stopping, Returned, ServeReturned, AtEnd, Ending,
            AwaitServe, ShutdownTelemetry, ShutdownProviders,
            NormalizeServeError
<1>1. TypeOK'
  BY DEF TypeOK
<1>2. ConfigInv'
  BY Zenon DEF ConfigInv, TypeOK
<1>3. StartupInv'
  BY Zenon DEF StartupInv, TypeOK
<1>4. ServeInv'
  BY Zenon DEF ServeInv, StartupInv, TypeOK
<1>5. DrainInv'
  BY Zenon DEF DrainInv, StartupInv, TypeOK
<1>6. ProviderInv'
  BY Zenon DEF ProviderInv, StartupInv, TypeOK
<1>7. ExitInv'
  BY Zenon DEF ExitInv, StartupInv, TypeOK
<1>8. ClockInv'
  BY Zenon DEF ClockInv, ConfigInv, TypeOK
<1> QED BY Zenon, <1>1, <1>2, <1>3, <1>4, <1>5, <1>6, <1>7, <1>8

(* A result is received with its error, or the deadline passes. *)
LEMMA CollectStep ==
    ASSUME Inv, Collect
    PROVE  Inv'
<1> USE DEF Inv, Startup, Stopping, Returned, ServeReturned, AtEnd, Ending, Collect
<1>1. TypeOK'
  BY DEF TypeOK
<1>2. ConfigInv'
  BY Zenon DEF ConfigInv, TypeOK
<1>3. StartupInv'
  BY Zenon DEF StartupInv, TypeOK
<1>4. ServeInv'
  BY Zenon DEF ServeInv, StartupInv, TypeOK
<1>5. DrainInv'
  BY Zenon DEF DrainInv, StartupInv, TypeOK
<1>6. ProviderInv'
  BY Zenon DEF ProviderInv, StartupInv, TypeOK
<1>7. ExitInv'
  BY Zenon DEF ExitInv, StartupInv, TypeOK, Providers
<1>8. ClockInv'
  BY Zenon DEF ClockInv, ConfigInv, TypeOK
<1> QED BY Zenon, <1>1, <1>2, <1>3, <1>4, <1>5, <1>6, <1>7, <1>8

(* The exit status sums up the errors. *)
LEMMA SyncLoggerStep ==
    ASSUME Inv, SyncLogger
    PROVE  Inv'
<1> USE DEF Inv, Startup, Stopping, Returned, ServeReturned, AtEnd, Ending,
            SyncLogger, FilterStandardStreamSyncErrors
<1>1. TypeOK'
  BY DEF TypeOK
<1>2. ConfigInv'
  BY Zenon DEF ConfigInv, TypeOK
<1>3. StartupInv'
  BY Zenon DEF StartupInv, TypeOK
<1>4. ServeInv'
  BY Zenon DEF ServeInv, StartupInv, TypeOK
<1>5. DrainInv'
  BY Zenon DEF DrainInv, StartupInv, TypeOK, ExitInv
<1>6. ProviderInv'
  BY DEF ProviderInv, StartupInv, TypeOK
<1>7. ExitInv'
  BY Zenon DEF ExitInv, StartupInv, TypeOK
<1>8. ClockInv'
  BY Zenon DEF ClockInv, ConfigInv, TypeOK
<1> QED BY Zenon, <1>1, <1>2, <1>3, <1>4, <1>5, <1>6, <1>7, <1>8

(* The deferred close of the pool. *)
LEMMA CloseStoreStep ==
    ASSUME Inv, CloseStore
    PROVE  Inv'
<1> USE DEF Inv, Startup, Stopping, Returned, ServeReturned, AtEnd, Ending, CloseStore
<1>1. TypeOK'
  BY DEF TypeOK
<1>2. ConfigInv'
  BY Zenon DEF ConfigInv, TypeOK
<1>3. StartupInv'
  BY Zenon DEF StartupInv, TypeOK
<1>4. ServeInv'
  BY Zenon DEF ServeInv, StartupInv, TypeOK
<1>5. DrainInv'
  BY Zenon DEF DrainInv, StartupInv, TypeOK
<1>6. ProviderInv'
  BY Zenon DEF ProviderInv, StartupInv, TypeOK
<1>7. ExitInv'
  BY Zenon DEF ExitInv, StartupInv, TypeOK
<1>8. ClockInv'
  BY Zenon DEF ClockInv, ConfigInv, TypeOK
<1> QED BY Zenon, <1>1, <1>2, <1>3, <1>4, <1>5, <1>6, <1>7, <1>8

----------------------------------------------------------------------------
(* The theorems *)

(* Every step of the process keeps the invariant. *)
LEMMA NextInv == Inv /\ [RunNext]_runVars => Inv'
<1> SUFFICES ASSUME Inv, [RunNext]_runVars PROVE Inv'
  BY Zenon
<1>1. CASE \E env \in Environments : LoadConfig(env)
  BY Zenon, <1>1, LoadConfigStep
<1>2. CASE NewTelemetry \/ OpenStore \/ GenerateSigner \/ Listen \/ StartRun
  BY Zenon, <1>2, NewTelemetryStep, OpenStoreStep, GenerateSignerStep, ListenStep,
     StartRunStep
<1>3. CASE Serve \/ Signal \/ Tick
  BY Zenon, <1>3, ServeStep, SignalStep, TickStep
<1>4. CASE \E h \in Handlers : Handler(h)
  BY <1>4, HandlerStep
<1>5. CASE \E p \in Providers : Provider(p)
  BY Zenon, <1>5, ProviderStep
<1>6. CASE Main \/ CloseStore
  BY Zenon, <1>6, BeginShutdownStep, DrainEndsStep, AwaitServeStep, CollectStep,
     SyncLoggerStep, CloseStoreStep DEF Main
<1>7. CASE UNCHANGED runVars
  BY <1>7 DEF runVars, Inv, TypeOK, ConfigInv, StartupInv, ServeInv, DrainInv,
     ProviderInv,
              ExitInv, ClockInv, ServeReturned, AtEnd
<1> QED
  BY Zenon, <1>1, <1>2, <1>3, <1>4, <1>5, <1>6, <1>7 DEF RunNext, Exited

(* The invariant holds in every reachable state. *)
LEMMA Invariance == RunSpec => []Inv
BY InitInv, NextInv, PTL DEF RunSpec

(* The state of a process has its type. *)
THEOREM Typed == RunSpec => []TypeOK
<1>1. Inv => TypeOK
  BY Zenon DEF Inv
<1> QED BY <1>1, Invariance, PTL

(* Whatever environment Load accepts, Run never refuses its inputs. *)
THEOREM ConfigurationRuns == RunSpec => []AcceptedConfigurationRuns
<1>1. Inv => AcceptedConfigurationRuns
  BY Zenon DEF Inv, ExitInv, AcceptedConfigurationRuns
<1> QED BY <1>1, Invariance, PTL

(* No request arrives once telemetry is being shut down, unless the join    *)
(* says that Serve did not return.                                          *)
THEOREM TelemetryLast == RunSpec => []NoRequestAfterTelemetry
<1>1. Inv => NoRequestAfterTelemetry
  BY Zenon DEF Inv, ServeInv, NoRequestAfterTelemetry, AtEnd, Ending
<1> QED BY <1>1, Invariance, PTL

(* Exit status 0 is reached only after an orderly shutdown. *)
THEOREM CleanSuccess == RunSpec => []SuccessIsClean
<1>1. Inv => SuccessIsClean
  <2> SUFFICES ASSUME Inv, exit = "success"
               PROVE  /\ serve = "ErrServerClosed"
                      /\ \A h \in Handlers : handlers[h] = "idle"
                      /\ \A p \in Providers :
                           exporters[p] = (IF cfg.telemetry THEN "closed" ELSE "none")
                      /\ errs = {}
    BY Zenon DEF SuccessIsClean
  <2>1. errs = {} /\ AtEnd
    BY Zenon DEF Inv, ExitInv, StartupInv, AtEnd, Ending
  <2>2. serve = "ErrServerClosed"
    BY Zenon, <2>1 DEF Inv, ServeInv
  <2>3. \A h \in Handlers : handlers[h] = "idle"
    BY Zenon, <2>1 DEF Inv, DrainInv
  <2>4. ASSUME NEW p \in Providers
        PROVE  exporters[p] = (IF cfg.telemetry THEN "closed" ELSE "none")
    <3>1. CASE cfg.telemetry
      BY Zenon, <2>1, <3>1 DEF Inv, ProviderInv
    <3>2. CASE ~cfg.telemetry
      BY Zenon, <3>2 DEF Inv, StartupInv
    <3> QED BY Zenon, <3>1, <3>2
  <2> QED BY Zenon, <2>1, <2>2, <2>3, <2>4
<1> QED BY <1>1, Invariance, PTL

(* A process that exits by itself leaves no exporter, pool or listener      *)
(* open without saying so.                                                  *)
THEOREM EverythingClosed == RunSpec => []NothingLeftOpen
<1>1. Inv => NothingLeftOpen
  BY Zenon DEF Inv, ServeInv, ProviderInv, ExitInv, NothingLeftOpen, AtEnd
<1> QED BY <1>1, Invariance, PTL

(* Telemetry gets its reserve of the shared deadline. *)
THEOREM ReserveKept == RunSpec => TelemetryReserve
<1>1. Inv => ((/\ pc = "await" /\ pc' = "telemetry"
               /\ ServeReturned /\ returnedAt <= cfg.timeout - TelemetryShutdownReserve)
              => cfg.timeout - clock >= TelemetryShutdownReserve)
  BY DEF Inv, TypeOK, ClockInv, TelemetryShutdownReserve
<1> QED BY <1>1, Invariance, PTL DEF TelemetryReserve
=============================================================================

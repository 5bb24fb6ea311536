----------------------------- MODULE Endorsement -----------------------------
(***************************************************************************)
(* internal/endorsement/v1: the statements the parties of an endorsement   *)
(* sign off the ledger, the payloads put together from them, and what      *)
(* admission verifies before it stores one.                                *)
(*                                                                         *)
(* A private key is known by its public key.  A topic, a claim and a       *)
(* reason are known by their length.  A signature is its key, the digest   *)
(* it covers and its length; verification succeeds for that key and digest *)
(* only.  SHA-256 is free of collisions: a digest is its domain and the    *)
(* fields of the statement.  Topics are valid UTF-8, as encoding/json      *)
(* delivers them.                                                          *)
(***************************************************************************)
EXTENDS Integers, Sequences, FiniteSets

CONSTANTS Keys, Topics, Claims, Times, Reasons,
          Targets,           \* record digests
          RoleCodes,         \* values of the role field
          SignatureLengths,  \* lengths of real signatures
          Malformed,         \* byte strings that are no signature
          MaxSigned          \* bound on signatures made

ASSUME LengthAssumption ==
    /\ Topics \subseteq Nat /\ Claims \subseteq Nat /\ Reasons \subseteq Nat
    /\ RoleCodes \subseteq Nat
    /\ SignatureLengths \subseteq 8..72

NoDigest == <<"none", 0>>

ASSUME MalformedAssumption == \A m \in Malformed : m.digest = NoDigest

VARIABLES signed,      \* signatures the holders of keys have made
          accepted,    \* encoded endorsements admission has verified
          revoked      \* encoded revocations admission has verified

vars == <<signed, accepted, revoked>>

PayloadVersionV1 == 1
EncodePublicKey(key) == <<"uncompressed", key>>
DecodePublicKey(bytes) == bytes[2]
DomainSeparatedDigest(domain, body) == <<domain, body>>

InBounds(n, low, high) == low <= n /\ n <= high
ValidSignatureLength(sig) == InBounds(sig.length, 8, 72)

Sign(key, digest, n) == [key |-> key, digest |-> digest, length |-> n]
VerifySignature(key, digest, sig) ==
    ValidSignatureLength(sig) /\ sig.key = key /\ sig.digest = digest

----------------------------------------------------------------------------
(* Endorsements *)

ValidProposal(p) == InBounds(p.topic, 1, 128) /\ InBounds(p.claim, 1, 4096)

(* EndorsementProposal.Digest *)
ProposalDigest(p) ==
    DomainSeparatedDigest("endorsement-proposal",
        <<PayloadVersionV1, EncodePublicKey(p.proposer),
          EncodePublicKey(p.subject), p.topic, p.claim, p.proposedAt>>)

(* Faulty variant: the acceptance names the time only. *)
AcceptanceDigestUnbound(proposalDigest, acceptedAt) ==
    DomainSeparatedDigest("endorsement-acceptance",
        <<PayloadVersionV1, acceptedAt>>)

(* EndorsementAcceptance.Digest *)
AcceptanceDigest(proposalDigest, acceptedAt) ==
    DomainSeparatedDigest("endorsement-acceptance",
        <<PayloadVersionV1, proposalDigest, acceptedAt>>)

(* Faulty variant: the longest topic a proposal may have is refused here. *)
NewAcceptedPayloadShorter(p) ==
    /\ InBounds(p.topic, 1, 127) /\ InBounds(p.claim, 1, 4096)
    /\ ValidSignatureLength(p.proposerSig) /\ ValidSignatureLength(p.subjectSig)

(* NewAcceptedPayload returns no error. *)
NewAcceptedPayload(p) ==
    /\ InBounds(p.topic, 1, 128) /\ InBounds(p.claim, 1, 4096)
    /\ ValidSignatureLength(p.proposerSig) /\ ValidSignatureLength(p.subjectSig)

VerifyAccepted(p) ==
    /\ ValidProposal(p)
    /\ VerifySignature(p.proposer, ProposalDigest(p), p.proposerSig)
    /\ VerifySignature(p.subject, AcceptanceDigest(ProposalDigest(p), p.acceptedAt),
                       p.subjectSig)

(* The values of the canonical map, key by key. *)
EncodeAccepted(p) ==
    <<PayloadVersionV1, EncodePublicKey(p.proposer), EncodePublicKey(p.subject),
      p.topic, p.claim, p.proposedAt, p.proposerSig, p.acceptedAt, p.subjectSig>>

(* Faulty variant: the two times change places. *)
DecodeAcceptedSwapped(w) ==
    [proposer |-> DecodePublicKey(w[2]), subject |-> DecodePublicKey(w[3]),
     topic |-> w[4], claim |-> w[5], proposedAt |-> w[8],
     proposerSig |-> w[7], acceptedAt |-> w[6], subjectSig |-> w[9]]

(* DecodeAcceptedPayload: its result, and when it returns no error. *)
DecodeAccepted(w) ==
    [proposer |-> DecodePublicKey(w[2]), subject |-> DecodePublicKey(w[3]),
     topic |-> w[4], claim |-> w[5], proposedAt |-> w[6],
     proposerSig |-> w[7], acceptedAt |-> w[8], subjectSig |-> w[9]]

DecodesAccepted(w) ==
    w[1] = PayloadVersionV1 /\ NewAcceptedPayload(DecodeAccepted(w))

----------------------------------------------------------------------------
(* Revocations *)

RevokerRoleProposer == 1
RevokerRoleSubject == 2
ValidRole(role) == role \in {RevokerRoleProposer, RevokerRoleSubject}

ValidRevocation(p) == ValidRole(p.role) /\ p.reason <= 256

(* Faulty variant: the statement leaves the role out. *)
RevocationDigestWithoutRole(p) ==
    DomainSeparatedDigest("endorsement-revocation",
        <<PayloadVersionV1, p.target, EncodePublicKey(p.revoker),
          p.revokedAt, p.reason>>)

(* EndorsementRevocation.Digest *)
RevocationDigest(p) ==
    DomainSeparatedDigest("endorsement-revocation",
        <<PayloadVersionV1, p.target, EncodePublicKey(p.revoker), p.role,
          p.revokedAt, p.reason>>)

NewRevokedPayload(p) == ValidRevocation(p) /\ ValidSignatureLength(p.sig)

VerifyRevoked(p) ==
    /\ ValidRevocation(p)
    /\ VerifySignature(p.revoker, RevocationDigest(p), p.sig)

EncodeRevoked(p) ==
    <<PayloadVersionV1, p.target, EncodePublicKey(p.revoker), p.role,
      p.revokedAt, p.reason, p.sig>>

DecodeRevoked(w) ==
    [target |-> w[2], revoker |-> DecodePublicKey(w[3]), role |-> w[4],
     revokedAt |-> w[5], reason |-> w[6], sig |-> w[7]]

DecodesRevoked(w) ==
    w[1] = PayloadVersionV1 /\ NewRevokedPayload(DecodeRevoked(w))

----------------------------------------------------------------------------
(* The parties and admission *)

Proposals == [proposer : Keys, subject : Keys, topic : Topics, claim : Claims,
              proposedAt : Times]
Revocations == [target : Targets, revoker : Keys, role : RoleCodes,
                revokedAt : Times, reason : Reasons]

Init == signed = {} /\ accepted = {} /\ revoked = {}

(* Somebody signs a statement with their own key, whoever it is about; the  *)
(* constructors refuse statements out of bounds.                            *)
MakeSignature(key, digest) ==
    /\ Cardinality(signed) < MaxSigned
    /\ \E n \in SignatureLengths : signed' = signed \cup {Sign(key, digest, n)}
    /\ UNCHANGED <<accepted, revoked>>

SignProposal ==
    \E key \in Keys, p \in Proposals :
        ValidProposal(p) /\ MakeSignature(key, ProposalDigest(p))

(* NewAcceptance takes the digest of a proposal, signed or not. *)
SignAcceptance ==
    \E key \in Keys, p \in Proposals, at \in Times :
        ValidProposal(p) /\ MakeSignature(key, AcceptanceDigest(ProposalDigest(p), at))

SignRevocation ==
    \E key \in Keys, p \in Revocations :
        ValidRevocation(p) /\ MakeSignature(key, RevocationDigest(p))

Signatures == signed \cup Malformed

(* AdmitEndorsement: any fields with any signatures at hand. *)
AdmitEndorsement ==
    \E p \in Proposals, ps \in Signatures, ss \in Signatures, at \in Times :
        LET payload == [proposer |-> p.proposer, subject |-> p.subject,
                        topic |-> p.topic, claim |-> p.claim,
                        proposedAt |-> p.proposedAt, proposerSig |-> ps,
                        acceptedAt |-> at, subjectSig |-> ss]
        IN  /\ NewAcceptedPayload(payload) /\ VerifyAccepted(payload)
            /\ accepted' = accepted \cup {EncodeAccepted(payload)}
            /\ UNCHANGED <<signed, revoked>>

AdmitRevocation ==
    \E p \in Revocations, s \in Signatures :
        LET payload == [target |-> p.target, revoker |-> p.revoker,
                        role |-> p.role, revokedAt |-> p.revokedAt,
                        reason |-> p.reason, sig |-> s]
        IN  /\ NewRevokedPayload(payload) /\ VerifyRevoked(payload)
            /\ revoked' = revoked \cup {EncodeRevoked(payload)}
            /\ UNCHANGED <<signed, accepted>>

Next ==
    \/ SignProposal \/ SignAcceptance \/ SignRevocation
    \/ AdmitEndorsement \/ AdmitRevocation

Spec == Init /\ [][Next]_vars

----------------------------------------------------------------------------
(* Properties *)

(* Reference: the holder of the key signed these fields.  A statement is    *)
(* compared by its fields, not by what Digest makes of them.                *)
Says(key, domain, fields) ==
    \E s \in signed : s.key = key /\ s.digest[1] = domain /\ s.digest[2] = fields

(* Consent: an endorsement that admission stored, as a projector decodes    *)
(* it, was proposed with these very parties, topic, claim and time by its   *)
(* proposer, and its subject accepted that very proposal; no signature is   *)
(* borrowed from another endorsement, role or time.                         *)
BothPartiesAgreed ==
    \A w \in accepted :
        LET p == DecodeAccepted(w)
            proposal == <<1, <<"uncompressed", p.proposer>>, <<"uncompressed", p.subject>>,
                          p.topic, p.claim, p.proposedAt>>
        IN  /\ Says(p.proposer, "endorsement-proposal", proposal)
            /\ Says(p.subject, "endorsement-acceptance",
                    <<1, <<"endorsement-proposal", proposal>>, p.acceptedAt>>)

(* A revocation that admission stored was signed by its revoker for this    *)
(* target, in this role, at this time and for this reason.                  *)
RevokerAgreed ==
    \A w \in revoked :
        LET p == DecodeRevoked(w)
        IN  Says(p.revoker, "endorsement-revocation",
                 <<1, p.target, <<"uncompressed", p.revoker>>, p.role, p.revokedAt, p.reason>>)

(* What admission stored, the projector can read: the decoders apply the    *)
(* same bounds as the constructors and Verify, and give back a payload that *)
(* verifies again.                                                          *)
StoredPayloadsDecode ==
    /\ \A w \in accepted :
         /\ DecodesAccepted(w) /\ VerifyAccepted(DecodeAccepted(w))
         /\ EncodeAccepted(DecodeAccepted(w)) = w
    /\ \A w \in revoked :
         /\ DecodesRevoked(w) /\ VerifyRevoked(DecodeRevoked(w))
         /\ EncodeRevoked(DecodeRevoked(w)) = w

(* Nothing the parties agreed on is refused: two matching signatures make a *)
(* payload that is constructed and verifies, at every length the statements *)
(* allow.                                                                   *)
AgreementIsAdmissible ==
    \A s, t \in signed, p \in Proposals, at \in Times :
        LET payload == [proposer |-> p.proposer, subject |-> p.subject,
                        topic |-> p.topic, claim |-> p.claim,
                        proposedAt |-> p.proposedAt, proposerSig |-> s,
                        acceptedAt |-> at, subjectSig |-> t]
        IN  /\ s.key = p.proposer /\ s.digest = ProposalDigest(p)
            /\ t.key = p.subject /\ t.digest = AcceptanceDigest(s.digest, at)
            => NewAcceptedPayload(payload) /\ VerifyAccepted(payload)
=============================================================================

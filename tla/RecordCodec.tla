----------------------------- MODULE RecordCodec -----------------------------
(***************************************************************************)
(* The canonical ledger record of internal/ledger/v1: an event body inside *)
(* a record body inside a ledger record, each a CBOR map with its own      *)
(* version, limits and digest.  A record is built by NewEvent and          *)
(* NewRecord, may be altered where it is kept, and is validated when read. *)
(*                                                                         *)
(* A byte or text string is its length and an identity.  An encoded map is *)
(* its form, its fields and its size; every form but "canonical" is a      *)
(* departure from the one encoding CoreDetEncOptions produces.  An integer *)
(* other than a version is the number of bytes of its encoding, 0 for the  *)
(* value zero.  SHA-256 is free of collisions: a digest is its domain and  *)
(* its preimage.  The error a check returns is left out; whether one is    *)
(* returned is kept.                                                       *)
(***************************************************************************)
EXTENDS Integers

CONSTANTS Integers64,   \* encoded sizes of unsigned integers, 0 for zero
          Previous,     \* previous record digests, Null included
          Payloads, References, SignatureStrings,
          Unprintable,  \* identities of strings that are not printable ASCII
          Forged,       \* byte strings that are not the digest of anything
          SizeChange,   \* bytes by which a form differs from the canonical one
          MaxEdits      \* bound on alterations

Null == [length |-> 0, id |-> "null"]
Bytes(n, x) == [length |-> n, id |-> x]

ASSUME IntegerAssumption == Integers64 \subseteq {0, 1, 2, 3, 5, 9}

ASSUME StringAssumption ==
    /\ \A s \in Payloads \cup References \cup SignatureStrings : s.length \in Nat
    /\ \A p \in Previous : p = Null \/ p.length = 32

VARIABLES built,   \* the inputs of the constructors, and what they returned
          record,  \* the encoded ledger record as it is kept
          edits    \* alterations made to it

codecVars == <<built, record, edits>>

----------------------------------------------------------------------------
(* Limits *)

MaxPayloadBytes == 65536
MaxEventBodyBytes == 98304
(* Faulty variant: a record body may be no longer than a payload. *)
MaxRecordBodyBytesAsPayload == 65536
MaxRecordBodyBytes == 131072
MaxLedgerRecordBytes == 131200
MaxSignerReferenceBytes == 512
DigestBytes == 32

----------------------------------------------------------------------------
(* Canonical CBOR *)

HeadSize(n) == IF n < 24 THEN 1 ELSE IF n < 256 THEN 2 ELSE IF n < 65536 THEN 3 ELSE 5
StringSize(s) == IF s = Null THEN 1 ELSE HeadSize(s.length) + s.length
IntegerSize(n) == IF n = 0 THEN 1 ELSE n

(* One byte for the map, one for each key, and the values. *)
EventSize(e) ==
    1 + 8 + 1 + StringSize(e.ledger) + IntegerSize(e.sequence)
      + StringSize(e.previous) + IntegerSize(e.admittedAt) + IntegerSize(e.kind)
      + IntegerSize(e.payloadVersion) + StringSize(e.payload)

DigestSize == HeadSize(DigestBytes) + DigestBytes
AlgorithmSizes == [sha256 |-> 8, p256 |-> 18, der |-> 9]

RecordBodySize(b) ==
    1 + 8 + 1 + HeadSize(b.event.size) + b.event.size + AlgorithmSizes.sha256
      + DigestSize + StringSize(b.reference) + AlgorithmSizes.p256
      + AlgorithmSizes.der + StringSize(b.signature)

LedgerRecordSize(o) ==
    1 + 4 + 1 + HeadSize(o.body.size) + o.body.size + AlgorithmSizes.sha256 + DigestSize

Forms == {"canonical", "malformed", "reordered", "wrong keys", "null field"}

ASSUME FormAssumption == SizeChange \in [Forms \ {"canonical"} -> Int]

(* n is the size of the canonical encoding. *)
Encode(form, fields, n) ==
    [form |-> form, fields |-> fields,
     size |-> IF form = "canonical" THEN n ELSE n + SizeChange[form]]

FitsLimit(encoded, maxBytes) == encoded.size <= maxBytes

(* Faulty variant: no typed re-encoding. *)
DecodeCanonicalMapOnce(encoded, maxBytes) ==
    /\ encoded.size <= maxBytes
    /\ encoded.form # "malformed"
    /\ encoded.form # "reordered"
    /\ encoded.form # "wrong keys"

(* Too long; not CBOR the decoder takes; not what the generic map encodes   *)
(* to; other keys; not what the typed struct encodes to.                    *)
DecodeCanonicalMap(encoded, maxBytes) ==
    /\ encoded.size <= maxBytes
    /\ encoded.form # "malformed"
    /\ encoded.form # "reordered"
    /\ encoded.form # "wrong keys"
    /\ encoded.form # "null field"

SeparatedDigest(domain, body) == [length |-> DigestBytes, id |-> <<domain, body>>]
DigestEventBody(e) == SeparatedDigest("event", e)
(* Faulty variant: the digest covers the event alone. *)
DigestRecordEventOnly(b) == SeparatedDigest("record", b.fields.event)
DigestRecordBody(b) == SeparatedDigest("record", b)

----------------------------------------------------------------------------
(* Validation *)

ValidEventBodyWire(e) ==
    /\ e.version = 1
    /\ e.ledger.length = 32
    /\ e.sequence # 0
    /\ e.previous = Null \/ e.previous.length = DigestBytes
    /\ e.kind # 0 /\ e.payloadVersion # 0
    /\ 0 < e.payload.length /\ e.payload.length <= MaxPayloadBytes

ValidateEventStructure(encoded) ==
    DecodeCanonicalMap(encoded, MaxEventBodyBytes) /\ ValidEventBodyWire(encoded.fields)

ValidSignerKeyReference(s) ==
    0 < s.length /\ s.length <= MaxSignerReferenceBytes /\ s.id \notin Unprintable

IsValidSignatureLength(s) == 8 <= s.length /\ s.length <= 72

ValidRecordBodyWire(b) ==
    /\ b.version = 1
    /\ 0 < b.event.size /\ b.event.size <= MaxEventBodyBytes
    /\ b.eventDigestAlgorithm = "sha-256" /\ b.eventDigest.length = DigestBytes
    /\ ValidSignerKeyReference(b.reference)
    /\ b.signatureAlgorithm = "ecdsa-p256-sha256" /\ b.signatureEncoding = "asn1-der"
    /\ IsValidSignatureLength(b.signature)

ValidLedgerRecordWire(o) ==
    /\ o.version = 1
    /\ 0 < o.body.size /\ o.body.size <= MaxRecordBodyBytes
    /\ o.digestAlgorithm = "sha-256" /\ o.digest.length = DigestBytes

ValidateRecordStructure(encoded) ==
    LET outer == encoded.fields
        body == outer.body.fields
    IN  /\ DecodeCanonicalMap(encoded, MaxLedgerRecordBytes) /\ ValidLedgerRecordWire(outer)
        /\ DecodeCanonicalMap(outer.body, MaxRecordBodyBytes) /\ ValidRecordBodyWire(body)
        /\ outer.version = body.version
        /\ outer.digest = DigestRecordBody(outer.body)
        /\ ValidateEventStructure(body.event)
        /\ body.eventDigest = DigestEventBody(body.event)

----------------------------------------------------------------------------
(* Construction *)

EventBytes(e) == Encode("canonical", e, EventSize(e))

RecordBodyBytes(event, reference, signature) ==
    LET b == [version |-> 1, event |-> event, eventDigestAlgorithm |-> "sha-256",
              eventDigest |-> DigestEventBody(event), reference |-> reference,
              signatureAlgorithm |-> "ecdsa-p256-sha256",
              signatureEncoding |-> "asn1-der", signature |-> signature]
    IN  Encode("canonical", b, RecordBodySize(b))

RecordBytes(body) ==
    LET o == [version |-> 1, body |-> body, digestAlgorithm |-> "sha-256",
              digest |-> DigestRecordBody(body)]
    IN  Encode("canonical", o, LedgerRecordSize(o))

(* NewEvent returns no error. *)
NewEvent(e) ==
    FitsLimit(EventBytes(e), MaxEventBodyBytes) /\ ValidateEventStructure(EventBytes(e))

(* NewRecord returns no error. *)
NewRecord(event, reference, signature) ==
    LET body == RecordBodyBytes(event, reference, signature)
    IN  /\ ValidateEventStructure(event)
        /\ ValidSignerKeyReference(reference) /\ IsValidSignatureLength(signature)
        /\ FitsLimit(body, MaxRecordBodyBytes)
        /\ FitsLimit(RecordBytes(body), MaxLedgerRecordBytes)
        /\ ValidateRecordStructure(RecordBytes(body))

----------------------------------------------------------------------------
(* A record is built, altered where it is kept, and read. *)

Nothing == [form |-> "none"]
Events == [version : {1}, ledger : {Bytes(32, "ledger")}, sequence : Integers64,
           previous : Previous, admittedAt : Integers64, kind : Integers64,
           payloadVersion : Integers64, payload : Payloads]
Inputs == [event : Events, reference : References, signature : SignatureStrings]

CodecInit == built = Nothing /\ record = Nothing /\ edits = 0

Build(i) ==
    LET ok == NewEvent(i.event)
              /\ NewRecord(EventBytes(i.event), i.reference, i.signature)
    IN  /\ built' = [form |-> "built", input |-> i, ok |-> ok]
        /\ record' = IF ok THEN RecordBytes(RecordBodyBytes(EventBytes(i.event),
                                                            i.reference, i.signature))
                     ELSE Nothing
        /\ UNCHANGED edits

Outer == record.fields
Body == Outer.body.fields
Event == Body.event.fields

PutRecord(form, o) == record' = Encode(form, o, LedgerRecordSize(o))
PutBody(form, b) ==
    PutRecord(record.form, [Outer EXCEPT !.body = Encode(form, b, RecordBodySize(b))])
PutEvent(form, e) ==
    PutBody(Outer.body.form, [Body EXCEPT !.event = Encode(form, e, EventSize(e))])

AlterEvent ==
    \/ \E f \in Forms : PutEvent(f, Event)
    \/ \E n \in Integers64 : PutEvent(Body.event.form, [Event EXCEPT !.sequence = n])
    \/ \E p \in Payloads : PutEvent(Body.event.form, [Event EXCEPT !.payload = p])

AlterBody ==
    \/ \E f \in Forms : PutBody(f, Body)
    \/ \E v \in {1, 2} : PutBody(Outer.body.form, [Body EXCEPT !.version = v])
    \/ \E d \in Forged \cup {DigestEventBody(Body.event)} :
         PutBody(Outer.body.form, [Body EXCEPT !.eventDigest = d])
    \/ \E s \in SignatureStrings :
         PutBody(Outer.body.form, [Body EXCEPT !.signature = s])

AlterOuter ==
    \/ \E f \in Forms : PutRecord(f, Outer)
    \/ \E v \in {1, 2} : PutRecord(record.form, [Outer EXCEPT !.version = v])
    \/ \E d \in Forged \cup {DigestRecordBody(Outer.body)} :
         PutRecord(record.form, [Outer EXCEPT !.digest = d])

(* Whatever keeps the record changes part of it, digests included. *)
Alter ==
    /\ record # Nothing /\ edits < MaxEdits
    /\ AlterEvent \/ AlterBody \/ AlterOuter
    /\ edits' = edits + 1 /\ UNCHANGED built

CodecNext ==
    \/ built = Nothing /\ \E i \in Inputs : Build(i)
    \/ Alter

CodecSpec == CodecInit /\ [][CodecNext]_codecVars

----------------------------------------------------------------------------
(* Properties *)

AcceptedRecord == record # Nothing /\ ValidateRecordStructure(record)

(* Only one byte string is a record: what ValidateRecordStructure accepts   *)
(* is, bit for bit, what NewEvent and NewRecord produce from its fields, at *)
(* every one of the three levels.                                           *)
AcceptedIsCanonical ==
    AcceptedRecord =>
        record = RecordBytes(RecordBodyBytes(EventBytes(Event), Body.reference, Body.signature))

(* The record digest pins the record: an altered record that is accepted    *)
(* carries another digest, so the next record's previous-record digest or   *)
(* the ledger head no longer matches.                                       *)
DigestPinsRecord ==
    AcceptedRecord /\ Outer.digest = DigestRecordBody(
                    RecordBodyBytes(EventBytes(built.input.event), built.input.reference,
                                    built.input.signature))
        => record = RecordBytes(RecordBodyBytes(EventBytes(built.input.event),
                                                built.input.reference, built.input.signature))

(* The limits nest: a legal event, key reference and signature are never    *)
(* refused for the size of a map around them, nor by the validation that    *)
(* NewRecord ends with.                                                     *)
LegalInputsBuild ==
    built # Nothing =>
        (built.ok <=> /\ ValidEventBodyWire(built.input.event)
                      /\ ValidSignerKeyReference(built.input.reference)
                      /\ IsValidSignatureLength(built.input.signature))
=============================================================================

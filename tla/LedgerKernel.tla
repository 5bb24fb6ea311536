---------------------------- MODULE LedgerKernel ----------------------------
(***************************************************************************)
(* The protocol kernel of internal/ledger/v1: what an admitted record is,  *)
(* and the rules a record must satisfy to extend a chain.                  *)
(*                                                                         *)
(* A record stands for its canonical bytes.  A record digest is a          *)
(* domain-separated SHA-256 of those bytes; SHA-256 is taken to be free of *)
(* collisions, so a digest names exactly one record and the model lets the *)
(* record be its own digest.  An optional digest is a sequence: <<>> when  *)
(* absent, <<x>> when it is the digest of x; prev is the optional          *)
(* previous_record_digest.  Two fields are abstracted to what makes two    *)
(* bodies differ: sig is the signature (the key that made it and a stamp   *)
(* for the millisecond and the ECDSA nonce it was made with), payload is   *)
(* an opaque value.  The protocol, record and payload versions are always  *)
(* 1 and are left out.                                                     *)
(***************************************************************************)
EXTENDS Integers

CONSTANTS MaxSequence,      \* math.MaxUint64
          GenesisPayload    \* the empty canonical CBOR map, 0xa0

ASSUME MaxSequenceAssumption == MaxSequence \in Nat \ {0}

NoDigest == <<>>

EventKindLedgerInitialized == 1
EventKindEndorsementAccepted == 2
EventKindEndorsementRevoked == 3

-----------------------------------------------------------------------------
(* Events and records *)

(* uint64 addition wraps at 2^64. *)
NextSequence(n) == (n + 1) % (MaxSequence + 1)

(* validateEventBodyWire: the checks that depend on values admission        *)
(* computes; lengths and versions are right by construction.                *)
ValidSequence(n) == n # 0

NewEvent(l, n, p, kind, body) ==
    [ledger |-> l, seq |-> n, prev |-> p, kind |-> kind, payload |-> body]

(* Faulty variant: the chain is numbered from zero. *)
ZeroBasedGenesisEvent(l) ==
    NewEvent(l, 0, NoDigest, EventKindLedgerInitialized, GenesisPayload)

NewGenesisEvent(l) ==
    NewEvent(l, 1, NoDigest, EventKindLedgerInitialized, GenesisPayload)

(* An event with the signature of its digest. *)
NewRecord(e, signature) ==
    [ledger |-> e.ledger, seq |-> e.seq, prev |-> e.prev, kind |-> e.kind,
     payload |-> e.payload, sig |-> signature]

(* ValidateEventSemantics: the only event the kernel gives a meaning to is  *)
(* the genesis.                                                             *)
ValidEventSemantics(x) ==
    /\ x.kind = EventKindLedgerInitialized
    /\ x.seq = 1
    /\ x.prev = NoDigest
    /\ x.payload = GenesisPayload

-----------------------------------------------------------------------------
(* Chain state *)

Uninitialized ==
    [initialized |-> FALSE, ledger |-> NoDigest, last |-> 0,
     digest |-> NoDigest]

ChainStateFromRecord(x) ==
    [initialized |-> TRUE, ledger |-> x.ledger, last |-> x.seq,
     digest |-> <<x>>]

(* ValidateChainConsistency returns no error. *)
ChainConsistent(state, x) ==
    IF state.initialized
    THEN /\ state.last # MaxSequence
         /\ x.ledger = state.ledger
         /\ x.seq = state.last + 1
         /\ x.prev = state.digest
         /\ x.kind # EventKindLedgerInitialized
    ELSE ValidEventSemantics(x)

(* Apply advances the replay state, or leaves it alone and fails. *)
ApplyAccepts(state, x) == ValidEventSemantics(x) /\ ChainConsistent(state, x)

Apply(state, x) ==
    IF ApplyAccepts(state, x) THEN ChainStateFromRecord(x) ELSE state
=============================================================================

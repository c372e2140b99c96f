---------------------------- MODULE WireVerifier ----------------------------
(***************************************************************************)
(* The stand-alone verifier library (verifier/src/lib.rs): verify_proof on *)
(* the v1 wire format, and build_test_proof, which writes it.  Pure        *)
(* operators, used by PolicyProof.                                         *)
(*                                                                         *)
(* The fields before the blob are one unit of length each, and so is the   *)
(* integrity hash; the blob and what follows it are a sequence, because    *)
(* where the integrity hash is looked for depends on proof_blob_len.       *)
(* SHA-256 of a prefix is that prefix: it tells one buffer from another,   *)
(* and anyone can compute it.  verify_proof does not look into the blob.   *)
(***************************************************************************)
EXTENDS Naturals, Sequences

CONSTANTS BlobBytes  \* what a byte of the blob, or after the hash, may be

Magic == "prvn"
Version == 1
HeaderSize == 4      \* magic, version, the six hashes, proof_blob_len
IntegritySize == 1
MinProofLen == HeaderSize + IntegritySize

\* Elements of what follows the header.
BlobByte(byte) == [byte |-> byte]
Digest(magic, version, embedded, blob_len, blob) ==
  [of |-> [magic |-> magic, version |-> version, embedded |-> embedded,
           blob_len |-> blob_len, blob |-> blob]]

\* present: how much of the header there is.
WireLen(proof) == proof.present + Len(proof.body)

IntegrityOf(proof) ==
  Digest(proof.magic, proof.version, proof.embedded, proof.blob_len,
         SubSeq(proof.body, 1, proof.blob_len))

\* The buffer with this blob, a sequence of elements, and its hash.
Wire(inputs, blob) ==
  [present |-> HeaderSize, magic |-> Magic, version |-> Version, embedded |-> inputs,
   blob_len |-> Len(blob),
   body |-> Append(blob, Digest(Magic, Version, inputs, Len(blob), blob))]

\* build_test_proof, for any public inputs and any blob.
BuildProof(inputs, blob) == Wire(inputs, [i \in DOMAIN blob |-> BlobByte(blob[i])])

\* Fault: the policy is looked at before the integrity hash.
VerifyProofPolicyFirst(proof, inputs, expectedHash) ==
  IF \/ WireLen(proof) < MinProofLen
     \/ proof.magic # Magic
     \/ proof.version # Version
     \/ WireLen(proof) < HeaderSize + proof.blob_len + IntegritySize
    THEN "MalformedInput"
  ELSE IF proof.embedded.policy_hash # expectedHash THEN "PolicyHashMismatch"
  ELSE IF proof.body[proof.blob_len + 1] # IntegrityOf(proof) THEN "ProofInvalid"
  ELSE IF proof.embedded # inputs THEN "ProofInvalid"
  ELSE "verified"

\* Fault: the policy that is looked at is none of the proof's.
VerifyProofNoPolicy(proof, inputs, expectedHash) ==
  IF \/ WireLen(proof) < MinProofLen
     \/ proof.magic # Magic
     \/ proof.version # Version
     \/ WireLen(proof) < HeaderSize + proof.blob_len + IntegritySize
    THEN "MalformedInput"
  ELSE IF proof.body[proof.blob_len + 1] # IntegrityOf(proof) THEN "ProofInvalid"
  ELSE IF proof.embedded # inputs THEN "ProofInvalid"
  ELSE "verified"

\* verify_proof, in the order it looks.  What follows the integrity hash is not
\* looked at.
VerifyProof(proof, inputs, expectedHash) ==
  IF \/ WireLen(proof) < MinProofLen
     \/ proof.magic # Magic
     \/ proof.version # Version
     \/ WireLen(proof) < HeaderSize + proof.blob_len + IntegritySize
    THEN "MalformedInput"
  ELSE IF proof.body[proof.blob_len + 1] # IntegrityOf(proof) THEN "ProofInvalid"
  ELSE IF proof.embedded # inputs THEN "ProofInvalid"
  ELSE IF proof.embedded.policy_hash # expectedHash THEN "PolicyHashMismatch"
  ELSE "verified"

-----------------------------------------------------------------------------
(* Reference reading of the wire format, used by properties only. *)

\* The proof without what follows the integrity hash.
Framed(proof) == [proof EXCEPT !.body = SubSeq(@, 1, proof.blob_len + 1)]

\* The buffer begins with what build_test_proof makes of inputs and a blob.
Carries(proof, inputs) ==
  /\ proof.blob_len < Len(proof.body)
  /\ Framed(proof) = Wire(inputs, SubSeq(proof.body, 1, proof.blob_len))
=============================================================================

-------------------------- MODULE PolicyProof_proofs --------------------------
(***************************************************************************)
(* Proofs about PolicyProof, for any number of edits of the policy bytes   *)
(* and of the proof, any runs and any documents.                           *)
(*                                                                         *)
(* A buffer the verifier accepts, or refuses for its policy alone, is      *)
(* well-framed whoever built it.  That what the guest revealed is in it    *)
(* holds as long as nobody hashed it again: damage changes bytes, and no   *)
(* bytes that damage puts there are the hash of anything, so the only hash *)
(* in the buffer is the one the prover put there (ProofInv).  Of a buffer  *)
(* that was hashed again, or built anew, nothing of the kind can be shown: *)
(* the hash needs no key.                                                  *)
(*                                                                         *)
(* What a guest revealed it replayed from bytes that hash to the           *)
(* verifier's document, and a document that is parsed has the rules it was *)
(* written with (BytesInv and PolicyCodec_proofs).                         *)
(***************************************************************************)
EXTENDS PolicyProof, PolicyCodec_proofs, FiniteSetTheorems

\* The bytes of a blob, as elements of the body.
BlobElements == {BlobByte(byte) : byte \in BlobBytes}

\* The integrity hashes of proofs of these inputs.
DigestsOf(inputs) ==
  {Digest(Magic, Version, inputs, Len(blob), blob) : blob \in Seq(BlobElements)}

\* A buffer, cut or not, with elements of S after the header: when the header is
\* cut nothing follows it.
Shaped(p, S) ==
  /\ p = [present |-> p.present, magic |-> p.magic, version |-> p.version,
          embedded |-> p.embedded, blob_len |-> p.blob_len, body |-> p.body]
  /\ p.present \in 0..HeaderSize
  /\ p.present = HeaderSize \/ p.body = << >>
  /\ p.blob_len \in Nat
  /\ p.body \in Seq(S)

\* What damage can make of a proof of these inputs: bytes, and the one hash.
Damaged(p, inputs) == Shaped(p, BlobElements \cup DigestsOf(inputs))

\* The inductive invariant: on its way a proof is a buffer, and one that nobody
\* hashed again is at most damaged; what was judged stays.
ProofInv ==
  /\ pc \in {"start", "shipped", "revealed", "sent", "judged", "refused"}
  /\ pc = "sent" => \E S : BlobElements \subseteq S /\ Shaped(proof, S)
  /\ pc = "sent" /\ ~ rehashed => Damaged(proof, revealed)
  /\ pc # "judged" => verdict.outcome = "none"
  /\ JudgedProofIsWhole

-----------------------------------------------------------------------------
\* A proof as it is sent.
LEMMA BuiltIsUndamaged ==
  ASSUME NEW inputs, NEW blob \in Seq(BlobBytes)
  PROVE  Damaged(BuildProof(inputs, blob), inputs)
<1> DEFINE body == [i \in DOMAIN blob |-> BlobByte(blob[i])]
           digest == Digest(Magic, Version, inputs, Len(body), body)
           p == BuildProof(inputs, blob)
<1>1. /\ p = [present |-> HeaderSize, magic |-> Magic, version |-> Version,
              embedded |-> inputs, blob_len |-> Len(body), body |-> Append(body, digest)]
  BY DEF BuildProof, Wire
<1>2. /\ DOMAIN blob = 1..Len(blob) /\ Len(blob) \in Nat
      /\ \A i \in DOMAIN blob : BlobByte(blob[i]) \in BlobElements
  BY DEF BlobElements
<1>3. body \in Seq(BlobElements) /\ Len(body) = Len(blob) BY <1>2
<1>4. digest \in DigestsOf(inputs) BY <1>3 DEF DigestsOf
<1> HIDE DEF body, digest
<1>5. Append(body, digest) \in Seq(BlobElements \cup DigestsOf(inputs)) BY <1>3, <1>4
<1> HIDE DEF p
<1>6. p.present = HeaderSize /\ p.body = Append(body, digest) /\ p.blob_len = Len(body)
      /\ p.magic = Magic /\ p.version = Version /\ p.embedded = inputs
  BY <1>1
<1>7. HeaderSize \in 0..HeaderSize BY DEF HeaderSize
<1>8. Damaged(p, inputs) BY <1>1, <1>2, <1>3, <1>5, <1>6, <1>7 DEF Damaged, Shaped
<1> QED BY <1>8 DEF p

\* An edit of a buffer makes a buffer, of bytes and what was there.
LEMMA EditsShaped ==
  ASSUME NEW p, NEW S, BlobElements \subseteq S, Shaped(p, S), NEW q \in EditedProofs(p)
  PROVE  Shaped(q, S)
<1>1. /\ p = [present |-> p.present, magic |-> p.magic, version |-> p.version,
              embedded |-> p.embedded, blob_len |-> p.blob_len, body |-> p.body]
      /\ p.present \in 0..HeaderSize
      /\ p.present = HeaderSize \/ p.body = << >>
      /\ p.blob_len \in Nat
      /\ p.body \in Seq(S)
  BY DEF Shaped
<1>2. \A byte \in BlobBytes : BlobByte(byte) \in S BY DEF BlobElements
<1>3. << >> \in Seq(S) /\ Len(p.body) \in Nat /\ HeaderSize \in Nat BY <1>1 DEF HeaderSize
<1>4. ASSUME NEW body \in Seq(S), p.present = HeaderSize \/ body = << >>,
             q = [p EXCEPT !.body = body]
      PROVE  Shaped(q, S)
  BY <1>1, <1>4 DEF Shaped
<1>5. ASSUME NEW n \in 0..Len(p.body) - 1, q = [p EXCEPT !.body = SubSeq(@, 1, n)]
      PROVE  Shaped(q, S)
  <2>1. SubSeq(p.body, 1, n) \in Seq(S) BY <1>1, <1>3
  <2>2. q = [p EXCEPT !.body = SubSeq(p.body, 1, n)] BY <1>1, <1>5
  <2>3. p.body # << >> BY <1>1
  <2> QED BY <1>1, <1>4, <2>1, <2>2, <2>3
<1>6. ASSUME NEW n \in 0..HeaderSize - 1, q = [p EXCEPT !.body = << >>, !.present = n]
      PROVE  Shaped(q, S)
  <2>1. n \in 0..HeaderSize BY <1>3
  <2> QED BY <1>1, <1>3, <1>6, <2>1 DEF Shaped
<1>7. ASSUME NEW byte \in BlobBytes, p.present = HeaderSize,
             q = [p EXCEPT !.body = Append(@, BlobByte(byte))]
      PROVE  Shaped(q, S)
  <2>1. Append(p.body, BlobByte(byte)) \in Seq(S) BY <1>1, <1>2
  <2>2. q = [p EXCEPT !.body = Append(p.body, BlobByte(byte))] BY <1>1, <1>7
  <2> QED BY <1>4, <1>7, <2>1, <2>2
<1>8. ASSUME NEW i \in DOMAIN p.body, NEW byte \in BlobBytes,
             q = [p EXCEPT !.body = [@ EXCEPT ![i] = BlobByte(byte)]]
      PROVE  Shaped(q, S)
  <2>1. [p.body EXCEPT ![i] = BlobByte(byte)] \in Seq(S) BY <1>1, <1>2
  <2>2. q = [p EXCEPT !.body = [p.body EXCEPT ![i] = BlobByte(byte)]] BY <1>1, <1>8
  <2>3. p.body # << >> BY <1>1
  <2> QED BY <1>1, <1>4, <2>1, <2>2, <2>3
<1>9. ASSUME \/ q \in {[p EXCEPT !.magic = "other"], [p EXCEPT !.version = 2]}
             \/ \E n \in 0..Len(p.body) + 1 : q = [p EXCEPT !.blob_len = n]
             \/ \E embedded : q = [p EXCEPT !.embedded = embedded]
      PROVE  Shaped(q, S)
  BY <1>1, <1>9 DEF Shaped
<1>10. CASE q \in CutProofs(p) BY <1>5, <1>6, <1>10 DEF CutProofs
<1>11. CASE q \in ContinuedProofs(p) BY <1>7, <1>11 DEF ContinuedProofs
<1>12. CASE q \in ChangedBytes(p) BY <1>8, <1>12 DEF ChangedBytes
<1>13. CASE q \in ChangedFields(p) BY <1>9, <1>13 DEF ChangedFields
<1> QED BY <1>10, <1>11, <1>12, <1>13 DEF EditedProofs

\* Hashed again it is still a buffer, with one more hash in it.
LEMMA RehashedShaped ==
  ASSUME NEW p, NEW S, Shaped(p, S), p.present = HeaderSize, p.blob_len <= Len(p.body)
  PROVE  Shaped(Rehashed(p), S \cup {IntegrityOf(p)})
<1> DEFINE T == S \cup {IntegrityOf(p)}
           body == Append(SubSeq(p.body, 1, p.blob_len), IntegrityOf(p))
<1>1. p.body \in Seq(S) /\ p.blob_len \in 0..Len(p.body)
  BY DEF Shaped
<1>2. SubSeq(p.body, 1, p.blob_len) \in Seq(T)
  <2>1. \A i \in 1..p.blob_len : p.body[i] \in T BY <1>1
  <2> QED BY <1>1, <2>1
<1>3. body \in Seq(T) BY <1>2
<1>4. Rehashed(p) = [p EXCEPT !.body = body] BY DEF Rehashed
<1> HIDE DEF T, body
<1> QED BY <1>3, <1>4 DEF Shaped, T

\* Where the verifier finds the integrity hash of what is in front of it, the
\* buffer begins with a whole proof of what it compares with.
LEMMA WholeWhereHashed ==
  ASSUME NEW p, NEW S, NEW given, NEW hash, Shaped(p, S),
         VerifyProof(p, given, hash) \in {"verified", "PolicyHashMismatch"}
  PROVE  Carries(p, given)
<1> DEFINE n == p.blob_len
           blob == SubSeq(p.body, 1, n)
<1>1. /\ p = [present |-> p.present, magic |-> p.magic, version |-> p.version,
              embedded |-> p.embedded, blob_len |-> n, body |-> p.body]
      /\ p.present \in 0..HeaderSize
      /\ p.present = HeaderSize \/ p.body = << >>
      /\ n \in Nat
      /\ p.body \in Seq(S)
  BY DEF Shaped
<1>2. /\ ~ (WireLen(p) < HeaderSize + n + IntegritySize)
      /\ p.magic = Magic /\ p.version = Version
      /\ p.body[n + 1] = IntegrityOf(p)
      /\ p.embedded = given
  BY DEF VerifyProof
<1>3. p.present = HeaderSize /\ n + 1 \in 1..Len(p.body) /\ n < Len(p.body)
  BY <1>1, <1>2 DEF WireLen, HeaderSize, IntegritySize
<1>4. Len(blob) = n BY <1>1, <1>3
<1>5. SubSeq(p.body, 1, n + 1) = Append(blob, p.body[n + 1]) BY <1>1, <1>3
<1>6. p.body[n + 1] = Digest(Magic, Version, given, n, blob) BY <1>2 DEF IntegrityOf
<1> HIDE DEF blob
<1>7. Wire(given, blob) =
        [present |-> HeaderSize, magic |-> Magic, version |-> Version,
         embedded |-> given, blob_len |-> n, body |-> Append(blob, p.body[n + 1])]
  BY <1>4, <1>6 DEF Wire
<1>8. Framed(p) =
        [present |-> HeaderSize, magic |-> Magic, version |-> Version,
         embedded |-> given, blob_len |-> n, body |-> Append(blob, p.body[n + 1])]
  <2>1. Framed(p) = [p EXCEPT !.body = SubSeq(p.body, 1, n + 1)] BY DEF Framed
  <2> QED BY <1>1, <1>2, <1>3, <1>5, <2>1
<1> QED BY <1>3, <1>7, <1>8 DEF Carries, blob

\* In a buffer that was only damaged that hash is the prover's, and so what the
\* verifier compares with is what the prover put in.
LEMMA DamageIsNoProof ==
  ASSUME NEW p, NEW inputs, NEW given, NEW hash, Damaged(p, inputs),
         VerifyProof(p, given, hash) \in {"verified", "PolicyHashMismatch"}
  PROVE  given = inputs
<1> DEFINE S == BlobElements \cup DigestsOf(inputs)
           n == p.blob_len
<1>1. /\ p.present \in 0..HeaderSize
      /\ p.present = HeaderSize \/ p.body = << >>
      /\ n \in Nat
      /\ p.body \in Seq(S)
  BY DEF Damaged, Shaped
<1>2. /\ ~ (WireLen(p) < HeaderSize + n + IntegritySize)
      /\ p.body[n + 1] = IntegrityOf(p)
      /\ p.embedded = given
  BY DEF VerifyProof
<1> HIDE DEF S
<1>3. n + 1 \in 1..Len(p.body)
  BY <1>1, <1>2 DEF WireLen, HeaderSize, IntegritySize
<1>4. p.body[n + 1] \in S BY <1>1, <1>3
<1>5. p.body[n + 1] \notin BlobElements
  <2>1. "of" \in DOMAIN p.body[n + 1] BY <1>2 DEF IntegrityOf, Digest
  <2>2. \A byte : "of" \notin DOMAIN BlobByte(byte) BY DEF BlobByte
  <2> QED BY <2>1, <2>2 DEF BlobElements
<1>6. PICK blob \in Seq(BlobElements) :
        p.body[n + 1] = Digest(Magic, Version, inputs, Len(blob), blob)
  BY <1>4, <1>5 DEF S, DigestsOf
<1>7. p.embedded = inputs BY <1>2, <1>6 DEF IntegrityOf, Digest
<1> QED BY <1>2, <1>7

-----------------------------------------------------------------------------
\* Nothing is judged at first.
LEMMA ProofInvInit == PolicyInit => ProofInv
BY DEF PolicyInit, ProofInv, Verdict, JudgedProofIsWhole

\* Each step keeps the invariant.
LEMMA ProofInvNext == ProofInv /\ [PolicyNext]_policyVars => ProofInv'
<1> SUFFICES ASSUME ProofInv, [PolicyNext]_policyVars PROVE ProofInv' OBVIOUS
<1>1. CASE UNCHANGED policyVars
  BY <1>1 DEF policyVars, ProofInv, JudgedProofIsWhole
<1>2. ASSUME NEW r, NEW bytes, ShipInput(r, bytes) PROVE ProofInv'
  BY <1>2 DEF ShipInput, ProofInv, JudgedProofIsWhole
<1>3. CASE EditBytes
  BY <1>3 DEF EditBytes, ProofInv, JudgedProofIsWhole
<1>4. CASE GuestReplays
  BY <1>4 DEF GuestReplays, ProofInv, JudgedProofIsWhole
<1>5. ASSUME NEW blob \in Blobs, SendProof(blob) PROVE ProofInv'
  <2>1. blob \in Seq(BlobBytes) BY PolicyProofAssumption
  <2>2. Damaged(proof', revealed') BY <1>5, <2>1, BuiltIsUndamaged DEF SendProof
  <2>3. \E S : BlobElements \subseteq S /\ Shaped(proof', S) BY <2>2 DEF Damaged
  <2> QED BY <1>5, <2>2, <2>3 DEF SendProof, ProofInv, JudgedProofIsWhole
<1>6. ASSUME NEW facts, NEW hash, NEW blob \in Blobs, BuildAnyProof(facts, hash, blob)
      PROVE  ProofInv'
  <2>1. blob \in Seq(BlobBytes) BY PolicyProofAssumption
  <2>2. Damaged(proof', Inputs(facts, hash)) BY <1>6, <2>1, BuiltIsUndamaged DEF BuildAnyProof
  <2>3. \E S : BlobElements \subseteq S /\ Shaped(proof', S) BY <2>2 DEF Damaged
  <2> QED BY <1>6, <2>3 DEF BuildAnyProof, ProofInv, JudgedProofIsWhole
<1>7. CASE EditProof
  <2>1. /\ pc = "sent" /\ pc' = "sent" /\ UNCHANGED <<revealed, verdict>>
        /\ \/ proof' \in EditedProofs(proof) /\ rehashed' = rehashed
           \/ \E q \in EditedProofs(proof) :
                /\ q.present = HeaderSize /\ q.blob_len <= Len(q.body)
                /\ proof' = Rehashed(q)
                /\ rehashed' = TRUE
    BY <1>7 DEF EditProof
  <2>2. PICK S : BlobElements \subseteq S /\ Shaped(proof, S) BY <2>1 DEF ProofInv
  <2>3. CASE proof' \in EditedProofs(proof) /\ rehashed' = rehashed
    <3>1. Shaped(proof', S) BY <2>2, <2>3, EditsShaped
    <3>2. ~ rehashed' => Damaged(proof', revealed')
      BY <2>1, <2>3, EditsShaped DEF ProofInv, Damaged
    <3> QED BY <2>1, <2>2, <3>1, <3>2 DEF ProofInv, JudgedProofIsWhole
  <2>4. ASSUME NEW q \in EditedProofs(proof), q.present = HeaderSize,
               q.blob_len <= Len(q.body), proof' = Rehashed(q), rehashed' = TRUE
        PROVE  ProofInv'
    <3>1. Shaped(q, S) BY <2>2, EditsShaped
    <3>2. Shaped(proof', S \cup {IntegrityOf(q)}) BY <2>4, <3>1, RehashedShaped
    <3>3. BlobElements \subseteq S \cup {IntegrityOf(q)} BY <2>2
    <3> QED BY <2>1, <2>4, <3>2, <3>3 DEF ProofInv, JudgedProofIsWhole
  <2> QED BY <2>1, <2>3, <2>4
<1>8. ASSUME NEW facts, NEW hash, NEW document, VerifierJudges(facts, hash, document)
      PROVE  ProofInv'
  <2> DEFINE given == Inputs(facts, hash)
  <2>1. /\ pc = "sent" /\ pc' = "judged" /\ UNCHANGED <<revealed, proof, rehashed>>
        /\ verdict'.outcome = VerifyProof(proof, given, PolicyHash(document))
        /\ verdict'.inputs = given
    BY <1>8 DEF VerifierJudges, Verdict
  <2> HIDE DEF given
  <2>2. PICK S : Shaped(proof, S) BY <2>1 DEF ProofInv
  <2>3. ASSUME verdict'.outcome \in {"verified", "PolicyHashMismatch"}
        PROVE  Carries(proof, given) /\ (~ rehashed => given = revealed)
    BY <2>1, <2>2, <2>3, WholeWhereHashed, DamageIsNoProof DEF ProofInv
  <2>4. JudgedProofIsWhole' BY <2>1, <2>3 DEF JudgedProofIsWhole
  <2> QED BY <2>1, <2>4 DEF ProofInv
<1> QED BY <1>1, <1>2, <1>3, <1>4, <1>5, <1>6, <1>7, <1>8 DEF PolicyNext

\* For any number of edits, any blobs and any documents, and whoever built or hashed
\* the buffer: one the verifier accepts, or refuses for its policy alone, begins with
\* a whole proof of the inputs it was given; and if nobody hashed it again after the
\* prover, those are what the guest revealed (verifier/src/lib.rs:88-91, 138-161).
THEOREM JudgedProofsAreWhole == PolicySpec => []JudgedProofIsWhole
<1>1. ProofInv => JudgedProofIsWhole BY DEF ProofInv
<1> QED BY <1>1, ProofInvInit, ProofInvNext, PTL DEF PolicySpec

-----------------------------------------------------------------------------
\* What the bytes have been through: they are those of the document unless they
\* were edited; a guest that is done has enforced them and hashed them, and behind
\* a buffer that only the prover hashed there is one; a proof that was not edited
\* is as it was sent.
BytesInv ==
  /\ pc \in {"start", "shipped", "revealed", "sent", "judged", "refused"}
  /\ run \in Runs \cup {NoRun} /\ (pc \notin {"start", "sent", "judged"} => run \in Runs)
  /\ doc \in Documents
  /\ shipped \in Strings
  /\ served \in Nat
  /\ rehashed \in BOOLEAN
  /\ edits \in [bytes : Nat, proof : Nat] /\ edits.bytes + edits.proof <= MaxEdits
  /\ edits.proof = 0 => ~ rehashed
  /\ edits.bytes = 0 => shipped \in {NoPolicyHash, CanonicalBytes(doc)}
  /\ pc = "revealed" => Replayed
  /\ pc \in {"start", "shipped", "refused"} => ~ Replayed
  /\ pc \in {"sent", "judged"} /\ ~ rehashed => Replayed
  /\ Replayed =>
       /\ run \in Runs
       /\ Replays(shipped, run, UsizeWidth)
       /\ enforced = RulesOf(Parse(shipped))
       /\ served = Served(Parse(shipped), run)
       /\ revealed \in [facts : Facts, policy_hash : {shipped}]
  /\ pc = "refused" =>
       ~ (Replays(shipped, run, CapWidth) /\ Replays(shipped, run, UsizeWidth))
  /\ pc \in {"sent", "judged"} /\ edits.proof = 0 =>
       \E blob \in Seq(BlobBytes) : proof = BuildProof(revealed, blob)
  /\ verdict.document \in Documents
  /\ pc # "judged" => verdict.outcome = "none"
  /\ pc = "judged" =>
       /\ verdict.inputs.facts \in Facts
       /\ verdict.outcome = VerifyProof(proof, verdict.inputs, PolicyHash(verdict.document))

\* The documents are well-formed and fit their widths.
LEMMA DocumentsEncodable == \A d \in Documents : Encodable(d)
BY PolicyProofAssumption DEF Encodable

\* Nothing is shipped at first.
LEMMA BytesInvInit == PolicyInit => BytesInv
<1> SUFFICES ASSUME PolicyInit PROVE BytesInv OBVIOUS
<1>1. << >> \in Strings BY DEF Strings
<1>2. ~ Replayed BY DEF PolicyInit, Replayed
<1>3. /\ edits \in [bytes : Nat, proof : Nat] /\ edits.bytes + edits.proof <= MaxEdits
      /\ edits.bytes = 0 /\ edits.proof = 0
  BY PolicyProofAssumption DEF PolicyInit
<1>4. verdict.document \in Documents /\ verdict.outcome = "none"
  BY DEF PolicyInit, Verdict
<1>5. /\ pc = "start" /\ run = NoRun /\ doc \in Documents /\ shipped = << >>
      /\ served = 0 /\ rehashed = FALSE
  BY DEF PolicyInit
<1> QED BY <1>1, <1>2, <1>3, <1>4, <1>5 DEF BytesInv, NoPolicyHash

\* An edited buffer is a string.
LEMMA EditedIsString ==
  ASSUME NEW s \in Strings, NEW t \in EditedBuffers(s)
  PROVE  t \in Strings
<1>1. s \in Seq(Bytes) /\ Len(s) \in Nat BY DEF Strings
<1>2. ASSUME NEW n \in 0..Len(s) - 1, t = SubSeq(s, 1, n) PROVE t \in Strings
  BY <1>1, <1>2 DEF Strings
<1>3. ASSUME NEW byte \in Bytes, t = Append(s, byte) PROVE t \in Strings
  BY <1>1, <1>3 DEF Strings
<1>4. ASSUME NEW i \in DOMAIN s, NEW byte \in Bytes, t = [s EXCEPT ![i] = byte]
      PROVE  t \in Strings
  BY <1>1, <1>4 DEF Strings
<1> QED BY <1>2, <1>3, <1>4 DEF EditedBuffers

\* Of the calls of a run no more are let through than there are, nor than the cap,
\* and none that the lists do not name.
LEMMA LetThroughIs ==
  ASSUME NEW r \in Runs, NEW rules
  PROVE  /\ LetThrough(rules, r) \in Nat
         /\ rules.calls \in Nat => LetThrough(rules, r) <= rules.calls
         /\ LetThrough(rules, r) > 0 => Listed(rules, r)
<1> DEFINE through == {i \in 1..r.calls : Listed(rules, r) /\ i <= rules.calls}
<1>1. r.calls \in Nat BY PolicyProofAssumption
<1>2. IsFiniteSet(1..r.calls) BY <1>1, FS_Interval
<1>3. IsFiniteSet(through) /\ Cardinality(through) \in Nat
  BY <1>2, FS_Subset, FS_CardinalityType
<1>4. ASSUME rules.calls \in Nat PROVE Cardinality(through) <= rules.calls
  <2>1. through \subseteq 1..rules.calls BY <1>1, <1>4
  <2>2. IsFiniteSet(1..rules.calls) /\ Cardinality(1..rules.calls) = rules.calls
    <3>1. Cardinality(1..rules.calls) = IF 1 > rules.calls THEN 0 ELSE rules.calls - 1 + 1
      BY <1>4, FS_Interval
    <3>2. Cardinality(1..rules.calls) = rules.calls BY <1>4, <3>1
    <3>3. IsFiniteSet(1..rules.calls) BY <1>4, FS_Interval
    <3> QED BY <3>2, <3>3
  <2>3. Cardinality(through) <= Cardinality(1..rules.calls) BY <2>1, <2>2, FS_Subset
  <2> QED BY <2>2, <2>3
<1>5. ASSUME ~ Listed(rules, r) PROVE Cardinality(through) = 0
  <2>1. through = {} BY <1>5
  <2> QED BY <2>1, FS_EmptySet
<1> QED BY <1>3, <1>4, <1>5 DEF LetThrough

\* How many calls are answered is a number.
LEMMA ServedIsNat ==
  ASSUME NEW s, NEW r \in Runs
  PROVE  Served(Parse(s), r) \in Nat
<1>1. r.calls \in Nat BY PolicyProofAssumption
<1> QED BY <1>1, LetThroughIs DEF Served

\* Each step keeps it.
LEMMA BytesInvNext == BytesInv /\ [PolicyNext]_policyVars => BytesInv'
<1> SUFFICES ASSUME BytesInv, [PolicyNext]_policyVars PROVE BytesInv' OBVIOUS
<1>1. CASE UNCHANGED policyVars
  BY <1>1 DEF policyVars, BytesInv, Replayed
<1>2. ASSUME NEW r \in Runs, NEW bytes \in {NoPolicyHash, CanonicalBytes(doc)},
             ShipInput(r, bytes)
      PROVE  BytesInv'
  <2>1. bytes \in Strings
    <3>1. NoPolicyHash \in Strings BY DEF NoPolicyHash, Strings
    <3>2. CanonicalBytes(doc) \in Strings BY DocumentsEncodable, EncodedPolicyParses DEF BytesInv
    <3> QED BY <3>1, <3>2
  <2>2. /\ pc = "start" /\ run' = r /\ shipped' = bytes
        /\ pc' = IF Replays(bytes, r, CapWidth) THEN "shipped" ELSE "refused"
        /\ UNCHANGED <<doc, enforced, served, revealed, proof, verdict, edits, rehashed>>
    BY <1>2 DEF ShipInput
  <2>3. pc' \in {"shipped", "refused"}
        /\ (pc' = "refused" => ~ Replays(shipped', run', CapWidth))
    BY <2>2
  <2> QED BY <2>1, <2>2, <2>3 DEF BytesInv, Replayed
<1>3. CASE EditBytes
  <2>1. shipped' \in Strings BY <1>3, EditedIsString DEF EditBytes, BytesInv
  <2>2. /\ pc = "shipped" /\ edits' = [edits EXCEPT !.bytes = @ + 1]
        /\ edits.bytes + edits.proof < MaxEdits
        /\ UNCHANGED <<pc, run, doc, enforced, served, revealed, proof, verdict, rehashed>>
    BY <1>3 DEF EditBytes
  <2>3. edits' \in [bytes : Nat, proof : Nat] /\ edits'.bytes # 0
        /\ edits'.proof = edits.proof /\ edits'.bytes + edits'.proof <= MaxEdits
    BY <2>2, PolicyProofAssumption DEF BytesInv
  <2> QED BY <2>1, <2>2, <2>3 DEF BytesInv, Replayed
<1>4. CASE GuestReplays
  <2>1. pc = "shipped" /\ UNCHANGED <<run, doc, shipped, proof, verdict, edits, rehashed>>
    BY <1>4 DEF GuestReplays
  <2>2. CASE Replays(shipped, run, UsizeWidth)
    <3>1. /\ pc' = "revealed" /\ enforced' = RulesOf(Parse(shipped))
          /\ served' = Served(Parse(shipped), run)
          /\ \E facts \in Facts : revealed' = Inputs(facts, shipped)
      BY <1>4, <2>2 DEF GuestReplays
    <3>2. revealed' \in [facts : Facts, policy_hash : {shipped}] BY <3>1 DEF Inputs
    <3>3. revealed' # Nothing
      BY <3>2, PolicyProofAssumption DEF Nothing, Inputs
    <3>4. served' \in Nat BY <2>1, <3>1, ServedIsNat DEF BytesInv
    <3> QED BY <2>1, <2>2, <3>1, <3>2, <3>3, <3>4 DEF BytesInv, Replayed
  <2>3. CASE ~ Replays(shipped, run, UsizeWidth)
    <3>1. pc' = "refused" /\ UNCHANGED <<enforced, served, revealed>>
      BY <1>4, <2>3 DEF GuestReplays
    <3> QED BY <2>1, <2>3, <3>1 DEF BytesInv, Replayed
  <2> QED BY <2>2, <2>3
<1>5. ASSUME NEW blob \in Blobs, SendProof(blob) PROVE BytesInv'
  <2>1. blob \in Seq(BlobBytes) BY PolicyProofAssumption
  <2> QED BY <1>5, <2>1 DEF SendProof, BytesInv, Replayed
<1>6. ASSUME NEW facts, NEW hash, NEW blob \in Blobs, BuildAnyProof(facts, hash, blob)
      PROVE  BytesInv'
  <2>1. /\ pc \notin {"sent", "judged"} /\ pc' = "sent" /\ rehashed' = TRUE
        /\ edits' = [edits EXCEPT !.proof = @ + 1]
        /\ edits.bytes + edits.proof < MaxEdits
        /\ UNCHANGED <<run, doc, shipped, enforced, served, revealed, verdict>>
    BY <1>6 DEF BuildAnyProof
  <2>2. edits' \in [bytes : Nat, proof : Nat] /\ edits'.proof # 0
        /\ edits'.bytes = edits.bytes /\ edits'.bytes + edits'.proof <= MaxEdits
    BY <2>1, PolicyProofAssumption DEF BytesInv
  <2>3. Replayed' = Replayed BY <2>1 DEF Replayed
  <2>4. /\ run' \in Runs \cup {NoRun} /\ doc' \in Documents /\ shipped' \in Strings
        /\ served' \in Nat /\ verdict'.document \in Documents /\ verdict'.outcome = "none"
        /\ edits'.bytes = 0 => shipped' \in {NoPolicyHash, CanonicalBytes(doc')}
    BY <2>1, <2>2 DEF BytesInv
  <2>5. Replayed' =>
          /\ run' \in Runs
          /\ Replays(shipped', run', UsizeWidth)
          /\ enforced' = RulesOf(Parse(shipped'))
          /\ served' = Served(Parse(shipped'), run')
          /\ revealed' \in [facts : Facts, policy_hash : {shipped'}]
    BY <2>1, <2>3 DEF BytesInv
  <2> QED BY <2>1, <2>2, <2>4, <2>5 DEF BytesInv
<1>7. CASE EditProof
  <2>1. /\ pc = "sent" /\ edits' = [edits EXCEPT !.proof = @ + 1]
        /\ edits.bytes + edits.proof < MaxEdits
        /\ rehashed' = rehashed \/ rehashed' = TRUE
        /\ UNCHANGED <<pc, run, doc, shipped, enforced, served, revealed, verdict>>
    BY <1>7 DEF EditProof
  <2>2. edits' \in [bytes : Nat, proof : Nat] /\ edits'.proof # 0
        /\ edits'.bytes = edits.bytes /\ edits'.bytes + edits'.proof <= MaxEdits
    BY <2>1, PolicyProofAssumption DEF BytesInv
  <2>3. Replayed' = Replayed /\ (~ rehashed' => ~ rehashed) /\ rehashed' \in BOOLEAN
    <3>1. Replayed' = Replayed BY <2>1 DEF Replayed
    <3>2. rehashed \in BOOLEAN BY DEF BytesInv
    <3>3. CASE rehashed' = rehashed BY <3>1, <3>2, <3>3
    <3>4. CASE rehashed' = TRUE BY <3>1, <3>4
    <3> QED BY <2>1, <3>3, <3>4
  <2>4. /\ run' \in Runs \cup {NoRun} /\ doc' \in Documents /\ shipped' \in Strings
        /\ served' \in Nat /\ verdict'.document \in Documents /\ verdict'.outcome = "none"
        /\ edits'.bytes = 0 => shipped' \in {NoPolicyHash, CanonicalBytes(doc')}
        /\ ~ rehashed' => Replayed'
    BY <2>1, <2>2, <2>3 DEF BytesInv
  <2>5. Replayed' =>
          /\ run' \in Runs
          /\ Replays(shipped', run', UsizeWidth)
          /\ enforced' = RulesOf(Parse(shipped'))
          /\ served' = Served(Parse(shipped'), run')
          /\ revealed' \in [facts : Facts, policy_hash : {shipped'}]
    BY <2>1, <2>3 DEF BytesInv
  <2> QED BY <2>1, <2>2, <2>3, <2>4, <2>5 DEF BytesInv
<1>8. ASSUME NEW facts \in Facts, NEW hash, NEW document \in Documents,
             VerifierJudges(facts, hash, document)
      PROVE  BytesInv'
  <2>1. /\ pc = "sent" /\ pc' = "judged"
        /\ UNCHANGED <<run, doc, shipped, enforced, served, revealed, proof, edits, rehashed>>
        /\ verdict'.outcome = VerifyProof(proof, verdict'.inputs, PolicyHash(document))
        /\ verdict'.document = document /\ verdict'.inputs.facts = facts
    BY <1>8 DEF VerifierJudges, Verdict, Inputs
  <2> QED BY <2>1 DEF BytesInv, Replayed
<1> QED BY <1>1, <1>2, <1>3, <1>4, <1>5, <1>6, <1>7, <1>8 DEF PolicyNext

-----------------------------------------------------------------------------
\* Nothing is a strict prefix of every other string.
LEMMA NothingIsPrefix ==
  ASSUME NEW s \in Strings, s # << >>
  PROVE  IsStrictPrefix(<< >>, s)
<1>1. Len(s) \in Nat /\ s \in Seq(Bytes) BY DEF Strings
<1>2. Len(<< >>) = 0 OBVIOUS
<1>3. SubSeq(<< >>, 1, 0) = << >> /\ SubSeq(s, 1, 0) = << >> BY <1>1
<1>4. SubSeq(<< >>, 1, Len(<< >>)) = SubSeq(s, 1, Len(<< >>)) BY <1>2, <1>3
<1> QED BY <1>1, <1>2, <1>4 DEF IsStrictPrefix, IsPrefix

\* A proof that was not damaged is verified by whoever has its public inputs and
\* expects its policy.
LEMMA UndamagedIsVerified ==
  ASSUME NEW facts, NEW hash, NEW blob \in Seq(BlobBytes)
  PROVE  VerifyProof(BuildProof(Inputs(facts, hash), blob), Inputs(facts, hash), hash)
           = "verified"
<1> DEFINE inputs == Inputs(facts, hash)
           body == [i \in DOMAIN blob |-> BlobByte(blob[i])]
           digest == Digest(Magic, Version, inputs, Len(blob), body)
           p == BuildProof(inputs, blob)
           n == Len(blob)
<1>1. inputs.policy_hash = hash BY DEF Inputs
<1>2. Len(body) = n BY DEF Strings
<1> HIDE DEF inputs
<1>3. p.present = HeaderSize /\ p.body = Append(body, digest) /\ p.blob_len = n
      /\ p.magic = Magic /\ p.version = Version /\ p.embedded = inputs
  BY <1>2 DEF BuildProof, Wire
<1>4. body \in Seq(BlobElements) /\ Len(body) = n /\ n \in Nat
  <2>1. DOMAIN blob = 1..n /\ n \in Nat OBVIOUS
  <2>2. \A i \in DOMAIN blob : BlobByte(blob[i]) \in BlobElements BY DEF BlobElements
  <2> QED BY <2>1, <2>2
<1>5. digest = Digest(Magic, Version, inputs, n, body) OBVIOUS
<1> HIDE DEF p, body, digest, n
<1>6. /\ Len(Append(body, digest)) = n + 1
      /\ Append(body, digest)[n + 1] = digest
      /\ SubSeq(Append(body, digest), 1, n) = body
  BY <1>4
<1>7. WireLen(p) = HeaderSize + n + 1 BY <1>3, <1>6, <1>4 DEF WireLen, HeaderSize
<1>8. p.body[p.blob_len + 1] = IntegrityOf(p) BY <1>3, <1>5, <1>6 DEF IntegrityOf
<1>9. /\ ~ (WireLen(p) < MinProofLen)
      /\ ~ (WireLen(p) < HeaderSize + p.blob_len + IntegritySize)
  BY <1>3, <1>4, <1>7 DEF MinProofLen, IntegritySize, HeaderSize
<1>10. VerifyProof(p, inputs, hash) = "verified"
  BY <1>1, <1>3, <1>8, <1>9 DEF VerifyProof
<1> QED BY <1>10 DEF p, inputs

\* The outcomes of verify_proof.
LEMMA Outcomes ==
  ASSUME NEW p, NEW inputs, NEW hash
  PROVE  /\ VerifyProof(p, inputs, hash) \in
              {"MalformedInput", "ProofInvalid", "PolicyHashMismatch", "verified"}
         /\ VerifyProof(p, inputs, hash) = "verified" => inputs.policy_hash = hash
BY DEF VerifyProof

\* A cap that fits the narrower usize is the same cap on both sides.
LEMMA CapFits ==
  ASSUME NEW cap \in Nat, NEW width \in Nat, cap < Values(width)
  PROVE  cap % Values(width) = cap
<1>1. Values(width) \in Nat /\ Values(width) > 0 BY ValuesStep
<1> QED BY <1>1

\* A cap in a narrower usize is never a looser cap.
LEMMA CapIsNotLoosened ==
  ASSUME NEW cap \in Nat, NEW width \in Nat
  PROVE  cap % Values(width) \in Nat /\ cap % Values(width) <= cap
<1> DEFINE v == Values(width)
<1>1. v \in Nat /\ v > 0 BY ValuesStep
<1> HIDE DEF v
<1>2. cap % v \in 0..v - 1 BY <1>1
<1>3. CASE cap < v
  <2>1. cap % v = cap BY <1>1, <1>3
  <2> QED BY <2>1 DEF v
<1>4. CASE cap >= v
  <2>1. cap % v \in Nat /\ cap % v <= cap BY <1>1, <1>2, <1>4
  <2> QED BY <2>1 DEF v
<1> QED BY <1>1, <1>3, <1>4

\* What a well-formed document is, in the words of the theorems.
LEMMA DocumentBytes ==
  ASSUME NEW d \in Documents
  PROVE  /\ CanonicalBytes(d) \in Strings /\ CanonicalBytes(d) # << >>
         /\ Parse(CanonicalBytes(d)).error = "none"
         /\ Rules(Parse(CanonicalBytes(d)).view) = Rules(d)
         /\ d.max_payload_bytes_per_call \in Nat
         /\ d.max_payload_bytes_per_call < Values(CapWidth)
         /\ Rules(d).bytes = d.max_payload_bytes_per_call
         /\ Rules(d).calls \in Nat
<1>1. Encodable(d) BY DocumentsEncodable
<1>2. d.max_payload_bytes_per_call \in Nat BY <1>1 DEF Encodable, IsOraclePolicy
<1>3. d.max_payload_bytes_per_call < Values(CapWidth) BY <1>1 DEF Encodable, FitsWidths
<1>4. Rules(d).bytes = d.max_payload_bytes_per_call BY DEF Rules
<1>5. Rules(d).calls \in Nat BY <1>1 DEF Encodable, IsOraclePolicy, Rules
<1> QED BY <1>1, <1>2, <1>3, <1>4, <1>5, EncodedPolicyParses

\* The invariants together.
Inv == ProofInv /\ BytesInv

\* They hold in every state.
LEMMA InvHolds == PolicySpec => []Inv
<1>1. PolicyInit => Inv BY ProofInvInit, BytesInvInit DEF Inv
<1>2. Inv /\ [PolicyNext]_policyVars => Inv' BY ProofInvNext, BytesInvNext DEF Inv
<1> QED BY <1>1, <1>2, PTL DEF PolicySpec

-----------------------------------------------------------------------------
\* Types.
LEMMA InvTypes == Inv => PolicyTypeOK
<1> SUFFICES ASSUME ProofInv, BytesInv PROVE PolicyTypeOK BY DEF Inv
<1>1. /\ pc \in {"start", "shipped", "revealed", "sent", "judged", "refused"}
      /\ run \in Runs \cup {NoRun} /\ doc \in Documents /\ shipped \in Strings
      /\ served \in Nat /\ rehashed \in BOOLEAN
      /\ verdict.document \in Documents /\ edits.bytes + edits.proof <= MaxEdits
      /\ (pc \in {"start", "shipped", "refused"} => ~ Replayed)
      /\ (pc = "revealed" \/ (pc \in {"sent", "judged"} /\ ~ rehashed) => Replayed)
  BY DEF BytesInv
<1>2. /\ revealed \in [facts : Facts \cup {NoRun}, policy_hash : Strings]
      /\ (Replayed => revealed.facts \in Facts)
  <2>1. CASE Replayed
    <3>1. revealed \in [facts : Facts, policy_hash : {shipped}] BY <2>1 DEF BytesInv
    <3> QED BY <1>1, <3>1
  <2>2. CASE ~ Replayed
    <3>1. revealed = [facts |-> NoRun, policy_hash |-> << >>]
      BY <2>2 DEF Replayed, Nothing, Inputs, NoPolicyHash
    <3>2. << >> \in Strings BY DEF Strings
    <3> QED BY <2>2, <3>1, <3>2
  <2> QED BY <2>1, <2>2
<1>3. verdict.outcome \in
        {"none", "MalformedInput", "ProofInvalid", "PolicyHashMismatch", "verified"}
  BY Outcomes DEF BytesInv
<1> QED BY <1>1, <1>2, <1>3 DEF PolicyTypeOK

\* What is committed is what is enforced.
LEMMA InvCommitted == Inv => EnforcedIsCommitted
<1> SUFFICES ASSUME BytesInv, Replayed PROVE EnforcedIsCommitted
  BY DEF Inv, EnforcedIsCommitted, Replayed
<1>1. enforced = RulesOf(Parse(shipped)) /\ revealed.policy_hash = shipped
  BY DEF BytesInv
<1>2. ASSUME NEW d \in Documents, shipped = CanonicalBytes(d) PROVE enforced = Rules(d)
  BY <1>1, <1>2, DocumentBytes DEF RulesOf
<1>3. ASSUME shipped = << >> PROVE enforced = NoRules
  <2>1. PICK d \in Documents : TRUE BY PolicyProofAssumption
  <2>2. IsStrictPrefix(<< >>, CanonicalBytes(d)) BY DocumentBytes, NothingIsPrefix
  <2>3. << >> \in Strings BY DEF Strings
  <2>4. Parse(<< >>).error # "none" BY <2>2, <2>3, CutIsRefused, DocumentsEncodable
  <2> QED BY <1>1, <1>3, <2>4 DEF RulesOf
<1> QED BY <1>1, <1>2, <1>3 DEF EnforcedIsCommitted, PolicyHash, NoPolicyHash

\* What was replayed parses.
LEMMA InvCut == Inv => CutOrContinuedIsRefused
<1> SUFFICES ASSUME BytesInv, Replayed, NEW d \in Documents
             PROVE  /\ ~ IsStrictPrefix(CanonicalBytes(d), shipped)
                    /\ IsStrictPrefix(shipped, CanonicalBytes(d)) => shipped = << >>
  BY DEF Inv, CutOrContinuedIsRefused, Replayed, PolicyHash, NoPolicyHash
<1>1. shipped \in Strings /\ Encodable(d) BY DocumentsEncodable DEF BytesInv
<1>2. shipped # << >> => Parse(shipped).error = "none"
  BY DEF BytesInv, Replays, Enforces, NoPolicyHash
<1>3. ASSUME IsStrictPrefix(CanonicalBytes(d), shipped) PROVE FALSE
  <2>1. Parse(shipped).error # "none" BY <1>1, <1>3, ContinuedIsRefused
  <2>2. shipped # << >>
    <3> SUFFICES ASSUME shipped = << >> PROVE FALSE OBVIOUS
    <3>1. Len(CanonicalBytes(d)) <= 0
      BY <1>3 DEF IsStrictPrefix, IsPrefix
    <3>2. Len(CanonicalBytes(d)) > 0 /\ Len(CanonicalBytes(d)) \in Nat
      BY <1>1, EncodedPolicyParses DEF Strings
    <3> QED BY <3>1, <3>2
  <2> QED BY <1>2, <2>1, <2>2
<1>4. ASSUME IsStrictPrefix(shipped, CanonicalBytes(d)) PROVE shipped = << >>
  BY <1>1, <1>2, <1>4, CutIsRefused
<1> QED BY <1>3, <1>4

\* Where the verdict speaks of a run, that run was replayed under the rules of the
\* verifier's document.
LEMMA InvVerified == Inv => VerifiedRunKeptPolicy
<1> SUFFICES ASSUME Inv, verdict.outcome = "verified", verdict.inputs = revealed \/ ~ rehashed
             PROVE  /\ run \in Runs
                    /\ enforced = Rules(verdict.document)
                    /\ served <= Rules(verdict.document).calls
                    /\ served > 0 => Listed(Rules(verdict.document), run)
                    /\ WithinCap(Rules(verdict.document), run, CapWidth)
  BY DEF VerifiedRunKeptPolicy
<1> DEFINE d == verdict.document
           rules == Rules(d)
<1>1. /\ pc = "judged" /\ d \in Documents
      /\ VerifyProof(proof, verdict.inputs, CanonicalBytes(d)) = "verified"
      /\ verdict.inputs = revealed
      /\ verdict.inputs.facts \in Facts
  BY DEF Inv, ProofInv, BytesInv, JudgedProofIsWhole, PolicyHash
<1>2. Replayed
  <2>1. Nothing.facts \notin Facts BY PolicyProofAssumption DEF Nothing, Inputs
  <2> QED BY <1>1, <2>1 DEF Replayed
<1>3. /\ run \in Runs
      /\ Replays(shipped, run, UsizeWidth)
      /\ enforced = RulesOf(Parse(shipped))
      /\ served = Served(Parse(shipped), run)
      /\ revealed.policy_hash = shipped
  BY <1>2 DEF Inv, BytesInv
<1>4. shipped = CanonicalBytes(d) BY <1>1, <1>3, Outcomes
<1>5. /\ shipped # << >> /\ Parse(shipped).error = "none" /\ Rules(Parse(shipped).view) = rules
      /\ rules.bytes \in Nat /\ rules.bytes < Values(CapWidth) /\ rules.calls \in Nat
  BY <1>1, <1>4, DocumentBytes
<1> HIDE DEF d, rules
<1>6. enforced = rules BY <1>3, <1>5 DEF RulesOf
<1>7. served = LetThrough(rules, run) BY <1>3, <1>5 DEF Served
<1>8. served <= rules.calls /\ (served > 0 => Listed(rules, run))
  BY <1>3, <1>5, <1>7, LetThroughIs
<1>9. WithinCap(rules, run, CapWidth)
  <2>1. UsizeWidth \in Nat /\ CapWidth \in Nat BY PolicyCodecAssumption
  <2>2. run.payload \in Nat BY <1>3, PolicyProofAssumption
  <2>3. run.payload <= rules.bytes % Values(UsizeWidth)
    BY <1>3, <1>5 DEF Replays, Enforces, NoPolicyHash, WithinCap
  <2>4. rules.bytes % Values(UsizeWidth) \in Nat
        /\ rules.bytes % Values(UsizeWidth) <= rules.bytes
    BY <1>5, <2>1, CapIsNotLoosened
  <2>5. rules.bytes % Values(CapWidth) = rules.bytes BY <1>5, <2>1, CapFits
  <2> DEFINE m == rules.bytes % Values(UsizeWidth)
  <2> HIDE DEF m
  <2>6. run.payload <= m /\ m \in Nat /\ m <= rules.bytes BY <2>3, <2>4 DEF m
  <2>7. run.payload <= rules.bytes BY <1>5, <2>2, <2>6
  <2> QED BY <2>5, <2>7 DEF WithinCap
<1> QED BY <1>3, <1>6, <1>8, <1>9 DEF rules, d

\* A cap that both sides see alike is applied alike.
LEMMA InvPredicts == Inv => HostPredictsGuest
<1> SUFFICES ASSUME BytesInv, edits.bytes = 0, pc = "refused", Replays(shipped, run, CapWidth),
                    ~ (doc.max_payload_bytes_per_call >= Values(UsizeWidth))
             PROVE  FALSE
  BY DEF Inv, HostPredictsGuest
<1> DEFINE cap == doc.max_payload_bytes_per_call
<1>1. ~ Replays(shipped, run, UsizeWidth) BY DEF BytesInv
<1>2. shipped = CanonicalBytes(doc) /\ doc \in Documents
  BY <1>1 DEF BytesInv, Replays
<1>3. /\ shipped # << >> /\ Parse(shipped).error = "none"
      /\ Rules(Parse(shipped).view) = Rules(doc)
      /\ cap \in Nat /\ cap < Values(CapWidth) /\ Rules(doc).bytes = cap
  BY <1>2, DocumentBytes
<1>4. UsizeWidth \in Nat /\ CapWidth \in Nat BY PolicyCodecAssumption
<1>5. cap < Values(UsizeWidth)
  <2>1. Values(UsizeWidth) \in Nat BY <1>4, ValuesStep
  <2> QED BY <1>3, <2>1
<1> HIDE DEF cap
<1>6. cap % Values(UsizeWidth) = cap /\ cap % Values(CapWidth) = cap
  BY <1>3, <1>4, <1>5, CapFits
<1>7. /\ WithinCap(Rules(doc), run, CapWidth)
      /\ run.catches \/ LetThrough(Rules(doc), run) = run.calls
  BY <1>3 DEF Replays, Enforces, NoPolicyHash
<1>8. WithinCap(Rules(doc), run, UsizeWidth) BY <1>3, <1>6, <1>7 DEF WithinCap
<1> QED BY <1>1, <1>3, <1>7, <1>8 DEF Replays, Enforces

\* Two writings of a policy are one policy to the verifier.
LEMMA InvStable == Inv => SamePolicyVerifies
<1> SUFFICES ASSUME BytesInv, pc = "judged", edits = [bytes |-> 0, proof |-> 0],
                    shipped # << >>, SamePolicy(doc, verdict.document),
                    verdict.inputs = revealed
             PROVE  verdict.outcome = "verified"
  BY DEF Inv, SamePolicyVerifies, NoPolicyHash
<1>1. /\ doc \in Documents /\ verdict.document \in Documents
      /\ shipped = CanonicalBytes(doc)
      /\ revealed \in [facts : Facts, policy_hash : {shipped}]
      /\ verdict.outcome = VerifyProof(proof, revealed, CanonicalBytes(verdict.document))
  BY DEF BytesInv, Replayed, NoPolicyHash, PolicyHash
<1>2. CanonicalBytes(verdict.document) = shipped BY <1>1, DocumentsEncodable, SameBytes
<1>3. PICK blob \in Seq(BlobBytes) : proof = BuildProof(revealed, blob) BY DEF BytesInv
<1>4. revealed = Inputs(revealed.facts, shipped) BY <1>1 DEF Inputs
<1> QED BY <1>1, <1>2, <1>3, <1>4, UndamagedIsVerified

\* Types: the verdict and the public inputs are what the library and the guest
\* return, for any number of edits.
THEOREM PolicyTypeCorrect == PolicySpec => []PolicyTypeOK
BY InvHolds, InvTypes, PTL

\* For any number of edits, any runs and any documents: where what a verifier accepts
\* are the public inputs a guest revealed, or the buffer has the prover's own hash, the
\* run they are of was served within the rules of the verifier's own document
\* (canonical.rs:9-11, verifier/src/lib.rs:81-91): the lists, the call cap, and the
\* payload cap too, whatever the width of usize.  Of accepted inputs that no guest
\* revealed, in a buffer hashed by somebody else, it says nothing.
THEOREM VerifiedRunsKeptPolicy == PolicySpec => []VerifiedRunKeptPolicy
BY InvHolds, InvVerified, PTL

\* Whatever the prover ships, the policy the guest enforced is the one its hash
\* stands for, and none when the hash is that of no policy (canonical.rs:9-11).
THEOREM EnforcedPolicyIsCommitted == PolicySpec => []EnforcedIsCommitted
BY InvHolds, InvCommitted, PTL

\* Whatever the prover ships, a guest that is done had no document cut short or
\* continued in front of it (canonical.rs:187-189).
THEOREM CutOrContinuedPolicyIsRefused == PolicySpec => []CutOrContinuedIsRefused
BY InvHolds, InvCut, PTL

\* Of a run the host let through, under bytes that were not edited, the guest refuses
\* only one whose payload cap overflows its usize (guest_input.rs:52-55, 145-146).
THEOREM HostReplayPredictsGuest == PolicySpec => []HostPredictsGuest
BY InvHolds, InvPredicts, PTL

\* A proof that nobody edited is verified against every other writing of the
\* prover's document (src/src/policy/mod.rs:133, 291).
THEOREM SamePolicyIsVerified == PolicySpec => []SamePolicyVerifies
BY InvHolds, InvStable, PTL
=============================================================================

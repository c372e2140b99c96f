---------------------------- MODULE PolicyProof ----------------------------
(***************************************************************************)
(* A policy from the prover's document to the verifier's verdict: the      *)
(* OpenVM driver encodes the document into GuestInput.policy_canonical and *)
(* replays (proveno-openvm-host), the guest parses, enforces and hashes    *)
(* those bytes (GuestInput::replay_public_inputs), and a verifier with a   *)
(* document of its own checks what the proof carries (verify_proof).       *)
(*                                                                         *)
(* The bytes are the prover's to choose, and buffers can be changed on     *)
(* their way: the actions Edit... here.  The integrity hash needs no key   *)
(* and nothing verifies the blob, so a proof buffer may be changed and     *)
(* hashed again, or built from any public inputs with no replay behind it: *)
(* rehashed remembers that it was.                                         *)
(*                                                                         *)
(* A run is what a policy can tell of it: the method and the domain it     *)
(* calls, how often, its longest response, and whether the program catches *)
(* the calls a policy refuses it and returns the same; GuestReplay has the *)
(* replay call by call.                                                    *)
(***************************************************************************)
EXTENDS PolicyCodec, WireVerifier

CONSTANTS
  Documents,  \* the policies a prover or a verifier may load
  Runs,       \* [method, domain, calls, payload, catches]
  Facts,      \* the five other commitments of a run
  NoRun,      \* nothing loaded yet
  NoRules,    \* no policy host
  Blobs,      \* proof blobs
  MaxEdits    \* bound: edits of the policy bytes and of the proof, one built anew included

ASSUME PolicyProofAssumption ==
  /\ Documents # {}
  /\ \A d \in Documents : IsOraclePolicy(d) /\ FitsWidths(d)
  /\ \A r \in Runs : r.payload \in Nat /\ r.calls \in Nat
  /\ NoRun \notin Facts
  /\ Blobs \subseteq Seq(BlobBytes)
  /\ MaxEdits \in Nat

VARIABLES
  pc,        \* "start", "shipped", "revealed", "sent", "judged", "refused"
  run,       \* the run that is proved
  doc,       \* the prover's document; any document when there is no --policy
  shipped,   \* GuestInput.policy_canonical
  enforced,  \* what the guest's PolicyEnforcingHost enforced
  served,    \* history: how many calls of the run the guest had answered
  revealed,  \* the public inputs the guest computed
  proof,     \* the buffer the verifier is handed
  verdict,   \* [outcome, inputs, document]: verify_proof's, and on what
  edits,     \* history: edits of shipped, edits of proof
  rehashed   \* history: the hash in proof is not the one SendProof computed

policyVars == <<pc, run, doc, shipped, enforced, served, revealed, proof, verdict,
                edits, rehashed>>

Inputs(facts, hash) == [facts |-> facts, policy_hash |-> hash]
Nothing == Inputs(NoRun, NoPolicyHash)
Verdict(outcome, inputs, document) ==
  [outcome |-> outcome, inputs |-> inputs, document |-> document]

\* Fault: the cap is cast to an integer one byte narrower.
WithinCapNarrow(rules, r, width) == r.payload <= rules.bytes % Values(width - 1)

\* check_tape_payload_sizes: the cap cast to a usize of that width.
WithinCap(rules, r, width) == r.payload <= rules.bytes % Values(width)

\* Both lists name what the run calls.
Listed(rules, r) ==
  /\ rules.domains = {} \/ r.domain \in rules.domains
  /\ rules.methods = {} \/ r.method \in rules.methods

\* How many of the run's calls the policy host lets through: all or none by the
\* lists, and the first ones up to the cap.
LetThrough(rules, r) ==
  Cardinality({i \in 1..r.calls : Listed(rules, r) /\ i <= rules.calls})

\* What the policy host is given: nothing without a policy, the bytes of which,
\* none, do not parse.
RulesOf(parsed) == IF parsed.error # "none" THEN NoRules ELSE Rules(parsed.view)

\* How many calls of the run are answered under these bytes.
Served(parsed, r) ==
  IF parsed.error # "none" THEN r.calls ELSE LetThrough(Rules(parsed.view), r)

\* The policy parses, no response is over its payload cap, and no call is refused
\* that the program does not catch.
Enforces(parsed, r, width) ==
  /\ parsed.error = "none"
  /\ WithinCap(Rules(parsed.view), r, width)
  /\ r.catches \/ LetThrough(Rules(parsed.view), r) = r.calls

\* replay_public_inputs gets to its end: without a policy, or under one that
\* parses and does not stop the run.
Replays(bytes, r, width) == bytes # NoPolicyHash => Enforces(Parse(bytes), r, width)

-----------------------------------------------------------------------------
PolicyInit ==
  /\ pc = "start"
  /\ run = NoRun
  /\ doc \in Documents
  /\ shipped = << >>
  /\ enforced = NoRules
  /\ revealed = Nothing
  /\ proof = BuildProof(Nothing, << >>)
  /\ verdict = Verdict("none", Nothing, doc)
  /\ edits = [bytes |-> 0, proof |-> 0]
  /\ served = 0
  /\ rehashed = FALSE

\* The driver: the policy is encoded, or left out, and the replay is tried on
\* the 64-bit host, which cannot tell the guest that its usize is narrower.
ShipInput(r, bytes) ==
  /\ pc = "start"
  /\ run' = r
  /\ shipped' = bytes
  /\ pc' = IF Replays(bytes, r, CapWidth) THEN "shipped" ELSE "refused"
  /\ UNCHANGED <<doc, enforced, served, revealed, proof, verdict, edits, rehashed>>

\* The buffer cut at n, one byte longer, or with one byte changed.
EditedBuffers(buf) ==
  {SubSeq(buf, 1, n) : n \in 0..Len(buf) - 1}
    \cup {Append(buf, byte) : byte \in Bytes}
    \cup {[buf EXCEPT ![i] = byte] : i \in DOMAIN buf, byte \in Bytes}

EditBytes ==
  /\ pc = "shipped"
  /\ edits.bytes + edits.proof < MaxEdits
  /\ edits' = [edits EXCEPT !.bytes = @ + 1]
  /\ shipped' \in EditedBuffers(shipped) \ {shipped}
  /\ UNCHANGED <<pc, run, doc, enforced, served, revealed, proof, verdict, rehashed>>

\* Fault: the hash is that of the driver's document, not of the bytes.
GuestReplaysGivenHash ==
  /\ pc = "shipped"
  /\ IF Replays(shipped, run, UsizeWidth)
       THEN /\ pc' = "revealed"
            /\ enforced' = RulesOf(Parse(shipped))
            /\ served' = Served(Parse(shipped), run)
            /\ \E facts \in Facts : revealed' = Inputs(facts, PolicyHash(doc))
       ELSE pc' = "refused" /\ UNCHANGED <<enforced, served, revealed>>
  /\ UNCHANGED <<run, doc, shipped, proof, verdict, edits, rehashed>>

\* Fault: the public inputs are out before the replay is over.
GuestRevealsFirst ==
  /\ pc = "shipped"
  /\ pc' = IF Replays(shipped, run, UsizeWidth) THEN "revealed" ELSE "refused"
  /\ enforced' = RulesOf(Parse(shipped))
  /\ served' = Served(Parse(shipped), run)
  /\ \E facts \in Facts : revealed' = Inputs(facts, shipped)
  /\ UNCHANGED <<run, doc, shipped, proof, verdict, edits, rehashed>>

\* The guest: parsed, enforced and hashed from the one buffer.
GuestReplays ==
  /\ pc = "shipped"
  /\ IF Replays(shipped, run, UsizeWidth)
       THEN /\ pc' = "revealed"
            /\ enforced' = RulesOf(Parse(shipped))
            /\ served' = Served(Parse(shipped), run)
            /\ \E facts \in Facts : revealed' = Inputs(facts, shipped)
       ELSE pc' = "refused" /\ UNCHANGED <<enforced, served, revealed>>
  /\ UNCHANGED <<run, doc, shipped, proof, verdict, edits, rehashed>>

\* The prover puts what the guest revealed in a buffer.
SendProof(blob) ==
  /\ pc = "revealed"
  /\ pc' = "sent"
  /\ proof' = BuildProof(revealed, blob)
  /\ UNCHANGED <<run, doc, shipped, enforced, served, revealed, verdict, edits, rehashed>>

\* build_test_proof asks for no replay: there is a buffer, with its hash, for any
\* public inputs, at any time and whatever became of the run.  It counts as an edit.
BuildAnyProof(facts, hash, blob) ==
  /\ pc \notin {"sent", "judged"}
  /\ edits.bytes + edits.proof < MaxEdits
  /\ edits' = [edits EXCEPT !.proof = @ + 1]
  /\ pc' = "sent"
  /\ proof' = BuildProof(Inputs(facts, hash), blob)
  /\ rehashed' = TRUE
  /\ UNCHANGED <<run, doc, shipped, enforced, served, revealed, verdict>>

\* The buffer cut, in what follows the header or in the header, or continued.
CutProofs(p) ==
  {[p EXCEPT !.body = SubSeq(@, 1, n)] : n \in 0..Len(p.body) - 1}
    \cup {[p EXCEPT !.body = << >>, !.present = n] : n \in 0..HeaderSize - 1}
ContinuedProofs(p) ==
  IF p.present = HeaderSize
    THEN {[p EXCEPT !.body = Append(@, BlobByte(byte))] : byte \in BlobBytes} ELSE {}

\* One byte of the body or one field changed.
ChangedBytes(p) ==
  {[p EXCEPT !.body = [@ EXCEPT ![i] = BlobByte(byte)]] : i \in DOMAIN p.body, byte \in BlobBytes}
ChangedFields(p) ==
  {[p EXCEPT !.magic = "other"], [p EXCEPT !.version = 2]}
    \cup {[p EXCEPT !.blob_len = n] : n \in 0..Len(p.body) + 1}
    \cup {[p EXCEPT !.embedded = [@ EXCEPT !.facts = facts]] : facts \in Facts}
    \cup {[p EXCEPT !.embedded = [@ EXCEPT !.policy_hash = PolicyHash(d)]] : d \in Documents}

EditedProofs(p) == CutProofs(p) \cup ContinuedProofs(p) \cup ChangedBytes(p) \cup ChangedFields(p)

\* The buffer hashed again: what follows the blob is replaced by the hash of what
\* is now before it.
Rehashed(p) == [p EXCEPT !.body = Append(SubSeq(@, 1, p.blob_len), IntegrityOf(p))]

EditProof ==
  /\ pc = "sent"
  /\ edits.bytes + edits.proof < MaxEdits
  /\ edits' = [edits EXCEPT !.proof = @ + 1]
  /\ \/ proof' \in EditedProofs(proof) \ {proof} /\ UNCHANGED rehashed
     \/ \E q \in EditedProofs(proof) :
          /\ q.present = HeaderSize /\ q.blob_len <= Len(q.body)
          /\ proof' = Rehashed(q)
          /\ rehashed' = TRUE
  /\ UNCHANGED <<pc, run, doc, shipped, enforced, served, revealed, verdict>>

\* The verifier has the public inputs from elsewhere, and a policy of its own.
VerifierJudges(facts, hash, document) ==
  /\ pc = "sent"
  /\ pc' = "judged"
  /\ verdict' = Verdict(VerifyProof(proof, Inputs(facts, hash), PolicyHash(document)),
                        Inputs(facts, hash), document)
  /\ UNCHANGED <<run, doc, shipped, enforced, served, revealed, proof, edits, rehashed>>

PolicyNext ==
  \/ \E r \in Runs : ShipInput(r, NoPolicyHash) \/ ShipInput(r, CanonicalBytes(doc))
  \/ EditBytes
  \/ GuestReplays
  \/ \E blob \in Blobs : SendProof(blob)
  \/ \E facts \in Facts, blob \in Blobs,
        hash \in {revealed.policy_hash} \cup {PolicyHash(d) : d \in Documents} :
       BuildAnyProof(facts, hash, blob)
  \/ EditProof
  \/ \E facts \in Facts, document \in Documents :
       \/ VerifierJudges(facts, revealed.policy_hash, document)
       \/ VerifierJudges(facts, PolicyHash(document), document)

PolicySpec == PolicyInit /\ [][PolicyNext]_policyVars

-----------------------------------------------------------------------------
(* Properties. *)

\* A guest got to its end.
Replayed == revealed # Nothing

\* Type invariant; public inputs are there when the guest is done and not before,
\* and a buffer with none behind it is not one the prover hashed.
PolicyTypeOK ==
  /\ pc \in {"start", "shipped", "revealed", "sent", "judged", "refused"}
  /\ run \in Runs \cup {NoRun}
  /\ doc \in Documents
  /\ shipped \in Strings
  /\ served \in Nat
  /\ rehashed \in BOOLEAN
  /\ revealed \in [facts : Facts \cup {NoRun}, policy_hash : Strings]
  /\ Replayed => revealed.facts \in Facts
  /\ pc \in {"start", "shipped", "refused"} => ~ Replayed
  /\ pc = "revealed" \/ (pc \in {"sent", "judged"} /\ ~ rehashed) => Replayed
  /\ verdict.outcome \in
       {"none", "MalformedInput", "ProofInvalid", "PolicyHashMismatch", "verified"}
  /\ verdict.document \in Documents
  /\ edits.bytes + edits.proof <= MaxEdits

\* What a verified proof is worth (canonical.rs:9-11, lib.rs:81-91).  The digest
\* and the blob vouch for nothing by themselves (lib.rs:19-22), so the verdict
\* speaks of a run in two cases: the public inputs the verifier compares with are
\* those a guest revealed, whoever built the buffer and whatever is in it, or the
\* hash in the buffer is the prover's.  Then, whatever policy the prover loaded
\* and whatever happened to the bytes, what the run was served is within the
\* verifier's own document: the lists, the call cap and the payload cap.
VerifiedRunKeptPolicy ==
  verdict.outcome = "verified" /\ (verdict.inputs = revealed \/ ~ rehashed) =>
    LET rules == Rules(verdict.document) IN
    /\ run \in Runs
    /\ enforced = rules
    /\ served <= rules.calls
    /\ served > 0 => Listed(rules, run)
    /\ WithinCap(rules, run, CapWidth)

\* The enforced policy and the committed one cannot disagree (canonical.rs:9-11):
\* a committed hash that is the hash of some document stands for the rules of
\* that document, and the hash of no policy for none.
EnforcedIsCommitted ==
  Replayed =>
    /\ \A d \in Documents : revealed.policy_hash = PolicyHash(d) => enforced = Rules(d)
    /\ revealed.policy_hash = NoPolicyHash => enforced = NoRules

\* Strict parsing (canonical.rs:187-189): a policy cut short or continued is
\* refused, not applied in part; cut to nothing, it names no policy.
CutOrContinuedIsRefused ==
  Replayed =>
    \A d \in Documents :
      /\ ~ IsStrictPrefix(PolicyHash(d), shipped)
      /\ IsStrictPrefix(shipped, PolicyHash(d)) => shipped = NoPolicyHash

\* The host replay predicts the guest's (guest_input.rs:52-55): of a run the host
\* let through, the guest refuses only one whose payload cap does not fit its
\* narrower usize (guest_input.rs:145-146).
HostPredictsGuest ==
  edits.bytes = 0 /\ pc = "refused" /\ Replays(shipped, run, CapWidth) =>
    doc.max_payload_bytes_per_call >= Values(UsizeWidth)

\* A buffer that is verified, or refused for its policy alone, begins with a whole
\* proof of the caller's public inputs (lib.rs:88-91), where its own length field
\* says the hash is, whoever computed that hash; and if nobody hashed it again,
\* those inputs are what the guest revealed, so damage alone never passes.
JudgedProofIsWhole ==
  verdict.outcome \in {"verified", "PolicyHashMismatch"} =>
    /\ Carries(proof, verdict.inputs)
    /\ ~ rehashed => verdict.inputs = revealed

\* The encoding is stable (mod.rs:133, 291): with nothing damaged, a proof under
\* a document is verified against any other writing of the same document.
SamePolicyVerifies ==
  /\ pc = "judged" /\ edits = [bytes |-> 0, proof |-> 0]
  /\ shipped # NoPolicyHash
  /\ SamePolicy(doc, verdict.document)
  /\ verdict.inputs = revealed
  => verdict.outcome = "verified"
=============================================================================

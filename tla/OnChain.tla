------------------------------ MODULE OnChain ------------------------------
(***************************************************************************)
(* The contracts as contracts/script/Deploy.s.sol deploys them: the bounty *)
(* board and ProvenoConsumer behind one ProvenoVerifier.  The consumer     *)
(* checks a proof, then that the payload it is handed hashes to outputHash,*)
(* and stores the integer the payload encodes.  Anybody may call it, the   *)
(* recipient of a bounty in the middle of claim() too, and then a payment  *)
(* that is reverted takes what was consumed in it along.                   *)
(*                                                                         *)
(* A payload is the integer its 32 bytes make, big-endian; keccak256 of a  *)
(* payload is that payload.                                                *)
(***************************************************************************)
EXTENDS Bounty, Integers

CONSTANTS
  Results,     \* return values that are proved; all fit an int64
  HalfInt64,   \* 2^63
  HalfWord,    \* 2^255
  Payloads     \* payloads consumeResult is handed

ASSUME OnChainAssumption ==
  /\ HalfInt64 \in Nat \ {0}
  /\ HalfWord \in Nat /\ HalfWord >= HalfInt64
  /\ Results \subseteq -HalfInt64..HalfInt64 - 1
  /\ Payloads \subseteq 0..2 * HalfWord - 1

VARIABLES
  lastResult,
  results,    \* lastResult at the start of each payment in progress
  proven      \* history: what the valid proofs submitted to the consumer return

consumerVars == <<lastResult, results, proven>>
chainVars == <<vars, consumerVars>>

-----------------------------------------------------------------------------
\* Fault: the high bytes are zero whatever the sign.
ZeroExtended(n) == IF n < 0 THEN n + 2 * HalfInt64 ELSE n

\* abi.encode(int256(n)): the high bytes are 0xff for negatives, else 0
\* (abi_encode_int256 and the circuit's output_payload_keccak).
abi_encode_int256(n) == IF n < 0 THEN n + 2 * HalfWord ELSE n

\* abi.decode(payload, (int256)).
Decoded(payload) == IF payload >= HalfWord THEN payload - 2 * HalfWord ELSE payload

\* pack: the int64 goes in as a uint64.
Pack(inputs) ==
  [inputs EXCEPT !.returnValue = IF @ < 0 THEN @ + 2 * HalfInt64 ELSE @]

\* The public inputs the consumer is called with; the program is any.
ResultInputs ==
  [policyHash : PolicyHashes, returnValue : Results, outputHash : Payloads]

\* The circuit proves packed inputs whose outputHash it recomputed.
ResultProofs ==
  {Pack([policyHash |-> policy, returnValue |-> n, outputHash |-> abi_encode_int256(n)]) :
     policy \in PolicyHashes, n \in Results}

\* What consumeResult reverts with: the proof is looked at before the payload.
ConsumeError(answer, inputs, payload) ==
  IF VerifyError(answer, inputs) # "none" THEN VerifyError(answer, inputs)
  ELSE IF payload # inputs.outputHash THEN "OutputPayloadMismatch"
  ELSE "none"

\* A call that reverts leaves no trace.
consumeResult(proof, inputs, payload) ==
  /\ \E answer \in HonkAnswers(proof, Pack(inputs)) :
       ConsumeError(answer, inputs, payload) = "none"
  /\ lastResult' = Decoded(payload)
  /\ proven' = IF proof = Pack(inputs) /\ inputs.policyHash = ExpectedPolicyHash
                 THEN proven \cup {inputs.returnValue} ELSE proven
  /\ UNCHANGED <<vars, results>>

-----------------------------------------------------------------------------
\* The constructors: one ProvenoVerifier for both.
Deployed ==
  /\ Init
  /\ lastResult = 0
  /\ results = << >>
  /\ proven = {}

BoardCall ==
  \/ PostRefused
  \/ \E sender \in Accounts, value \in Values, programHash \in Hashes :
       PostBounty(sender, value, programHash)
  \/ \E id \in Ids, proof \in Inputs, inputs \in Inputs : ClaimRefused(id, proof, inputs)

PaymentBegins ==
  /\ \E id \in Ids, proof \in Inputs, inputs \in Inputs, sender \in Accounts :
       ClaimPays(sender, id, proof, inputs)
  /\ results' = Append(results, lastResult)
  /\ UNCHANGED <<lastResult, proven>>

PaymentAccepted ==
  /\ RecipientAccepts
  /\ results' = SubSeq(results, 1, Len(results) - 1)
  /\ UNCHANGED <<lastResult, proven>>

PaymentReverted ==
  /\ RecipientReverts
  /\ lastResult' = results[Len(results)]
  /\ results' = SubSeq(results, 1, Len(results) - 1)
  /\ UNCHANGED <<proven>>

ChainNext ==
  \/ BoardCall /\ UNCHANGED consumerVars
  \/ PaymentBegins
  \/ PaymentAccepted
  \/ PaymentReverted
  \/ \E proof \in ResultProofs, inputs \in ResultInputs, payload \in Payloads :
       consumeResult(proof, inputs, payload)

ChainSpec == Deployed /\ [][ChainNext]_chainVars

-----------------------------------------------------------------------------
(* Properties. *)

\* What a consumer may rely on (ProvenoConsumer.sol:24-33): the stored number is
\* the return value, sign included, of a valid proof under the expected policy,
\* whatever payments it was consumed in and whichever of them were undone.  It
\* need not be the newest: nothing keeps a proof from being consumed again.
ConsumedIsProven ==
  /\ lastResult = 0 \/ lastResult \in proven
  /\ \A i \in DOMAIN results : results[i] = 0 \/ results[i] \in proven
=============================================================================

------------------------------- MODULE Bounty -------------------------------
(***************************************************************************)
(* The on-chain bounty board (contracts/src/Bounty.sol) behind             *)
(* ProvenoVerifier: a poster escrows ETH against a program hash, and       *)
(* whoever submits a valid proof of that program is paid.                  *)
(*                                                                         *)
(* The EVM is modelled as far as the contract depends on it: a call that   *)
(* reverts leaves no trace, and the payment in claim() hands control to    *)
(* the recipient, who may call the contract again before it returns or     *)
(* reverts.  stack holds one frame per payment still in progress.          *)
(*                                                                         *)
(* A proof is the public inputs it proves, so it verifies against those    *)
(* inputs and no others; the generated HonkVerifier rejects every other    *)
(* proof either by returning false or by reverting.                        *)
(***************************************************************************)
EXTENDS Naturals, Sequences

CONSTANTS
  Accounts,           \* addresses that call the contract
  NoAccount,          \* address(0)
  Hashes,             \* program hashes a bounty or a proof may name
  NoHash,             \* bytes32(0), the hash in a slot never written
  PolicyHashes,
  ExpectedPolicyHash, \* fixed in the ProvenoVerifier constructor
  Values,             \* msg.value
  MaxBounties,        \* bound: bounties posted
  MaxDepth            \* bound: payments in progress at once

ASSUME BountyAssumption ==
  /\ NoHash \notin Hashes
  /\ Values \subseteq Nat
  /\ MaxBounties \in Nat
  /\ MaxDepth \in Nat

VARIABLES
  bounties,  \* the mapping; a slot never written reads as Empty
  nextId,
  balance,   \* address(this).balance
  paid,      \* history: what was sent out for each id
  stack,     \* payments in progress, outermost first
  proved,    \* history: program hashes of the valid proofs submitted to claim()
  lastCall   \* history: how the last call of the contract ended

vars == <<bounties, nextId, balance, paid, stack, proved, lastCall>>

Ids == 0..MaxBounties

Empty == [poster |-> NoAccount, reward |-> 0, programHash |-> NoHash,
          claimed |-> FALSE, solver |-> NoAccount]

\* The two public inputs the contracts look at.
Inputs == [programHash : Hashes, policyHash : PolicyHashes]

\* What a revert restores.
Saved == [bounties |-> bounties, nextId |-> nextId, balance |-> balance, paid |-> paid]

Ended(error, valid) == [error |-> error, valid |-> valid]

-----------------------------------------------------------------------------
\* HonkVerifier.verify, as IHonkVerifier describes it.
HonkAnswers(proof, inputs) ==
  IF proof = inputs THEN {"true"} ELSE {"false", "revert"}

\* ProvenoVerifier.verify: the policy first, then the proof; false and a revert
\* of the HonkVerifier are the same error.
VerifyError(answer, inputs) ==
  IF inputs.policyHash # ExpectedPolicyHash THEN "PolicyHashMismatch"
  ELSE IF answer = "true" THEN "none"
  ELSE "ProofInvalid"

\* Faults: no check of the claimed flag; none of the committed program.
ClaimErrorAgain(id, answer, inputs) ==
  IF VerifyError(answer, inputs) # "none" THEN VerifyError(answer, inputs)
  ELSE IF inputs.programHash # bounties[id].programHash THEN "WrongTask"
  ELSE IF balance < bounties[id].reward THEN "TransferFailed"
  ELSE "none"

ClaimErrorAnyTask(id, answer, inputs) ==
  IF bounties[id].claimed THEN "AlreadyClaimed"
  ELSE IF VerifyError(answer, inputs) # "none" THEN VerifyError(answer, inputs)
  ELSE IF balance < bounties[id].reward THEN "TransferFailed"
  ELSE "none"

\* What claim() reverts with, in the order it looks, up to the moment control
\* passes to the recipient.
ClaimError(id, answer, inputs) ==
  IF bounties[id].claimed THEN "AlreadyClaimed"
  ELSE IF VerifyError(answer, inputs) # "none" THEN VerifyError(answer, inputs)
  ELSE IF inputs.programHash # bounties[id].programHash THEN "WrongTask"
  ELSE IF balance < bounties[id].reward THEN "TransferFailed"
  ELSE "none"

\* Fault: the flag is not set before the payment.
SettledLate(b, solver) == [b EXCEPT !.solver = solver]

\* Fault: the solver is written into the poster's field.
SettledForPoster(b, solver) == [b EXCEPT !.claimed = TRUE, !.poster = solver]

\* The effects of claim() on the bounty, before the interaction.
Settled(b, solver) == [b EXCEPT !.claimed = TRUE, !.solver = solver]

-----------------------------------------------------------------------------
Init ==
  /\ bounties = [id \in Ids |-> Empty]
  /\ nextId = 0
  /\ balance = 0
  /\ paid = [id \in Ids |-> 0]
  /\ stack = << >>
  /\ proved = {}
  /\ lastCall = Ended("none", FALSE)

\* postBounty without value.
PostRefused ==
  /\ 0 \in Values
  /\ lastCall' = Ended("NoReward", FALSE)
  /\ UNCHANGED <<bounties, nextId, balance, paid, stack, proved>>

\* Faults: a bounty may be posted without value; the next id is not taken.
PostBountyAnyValue(sender, value, programHash) ==
  /\ nextId < MaxBounties
  /\ bounties' = [bounties EXCEPT ![nextId] =
       [poster |-> sender, reward |-> value, programHash |-> programHash,
        claimed |-> FALSE, solver |-> NoAccount]]
  /\ nextId' = nextId + 1
  /\ balance' = balance + value
  /\ lastCall' = Ended("none", FALSE)
  /\ UNCHANGED <<paid, stack, proved>>

PostBountySameId(sender, value, programHash) ==
  /\ value > 0
  /\ nextId < MaxBounties
  /\ bounties' = [bounties EXCEPT ![nextId] =
       [poster |-> sender, reward |-> value, programHash |-> programHash,
        claimed |-> FALSE, solver |-> NoAccount]]
  /\ balance' = balance + value
  /\ lastCall' = Ended("none", FALSE)
  /\ UNCHANGED <<nextId, paid, stack, proved>>

\* postBounty, from the top or from a recipient being paid.
PostBounty(sender, value, programHash) ==
  /\ value > 0
  /\ nextId < MaxBounties
  /\ bounties' = [bounties EXCEPT ![nextId] =
       [poster |-> sender, reward |-> value, programHash |-> programHash,
        claimed |-> FALSE, solver |-> NoAccount]]
  /\ nextId' = nextId + 1
  /\ balance' = balance + value
  /\ lastCall' = Ended("none", FALSE)
  /\ UNCHANGED <<paid, stack, proved>>

\* What was proved by the proofs submitted so far.
Submitted(proof, inputs) ==
  IF proof = inputs /\ inputs.policyHash = ExpectedPolicyHash
    THEN proved \cup {inputs.programHash} ELSE proved

\* claim() reverts before it pays.
ClaimRefused(id, proof, inputs) ==
  \E answer \in HonkAnswers(proof, inputs) :
    /\ ClaimError(id, answer, inputs) # "none"
    /\ lastCall' = Ended(ClaimError(id, answer, inputs), proof = inputs)
    /\ proved' = Submitted(proof, inputs)
    /\ UNCHANGED <<bounties, nextId, balance, paid, stack>>

\* claim() settles the bounty and pays; the recipient has control.
ClaimPays(sender, id, proof, inputs) ==
  /\ Len(stack) < MaxDepth
  /\ \E answer \in HonkAnswers(proof, inputs) : ClaimError(id, answer, inputs) = "none"
  /\ stack' = Append(stack, Saved)
  /\ bounties' = [bounties EXCEPT ![id] = Settled(@, sender)]
  /\ balance' = balance - bounties[id].reward
  /\ paid' = [paid EXCEPT ![id] = @ + bounties[id].reward]
  /\ proved' = Submitted(proof, inputs)
  /\ UNCHANGED <<nextId, lastCall>>

\* The recipient accepts: the innermost claim() is done.
RecipientAccepts ==
  /\ stack # << >>
  /\ stack' = SubSeq(stack, 1, Len(stack) - 1)
  /\ lastCall' = Ended("none", TRUE)
  /\ UNCHANGED <<bounties, nextId, balance, paid, proved>>

\* The recipient reverts: "reward transfer failed" undoes the innermost claim()
\* and everything done inside it.
RecipientReverts ==
  /\ stack # << >>
  /\ LET saved == stack[Len(stack)] IN
       /\ bounties' = saved.bounties
       /\ nextId' = saved.nextId
       /\ balance' = saved.balance
       /\ paid' = saved.paid
  /\ stack' = SubSeq(stack, 1, Len(stack) - 1)
  /\ lastCall' = Ended("TransferFailed", TRUE)
  /\ UNCHANGED proved

\* Whoever has control, a caller or a recipient, may make any call.
Next ==
  \/ PostRefused
  \/ \E sender \in Accounts, value \in Values, programHash \in Hashes :
       PostBounty(sender, value, programHash)
  \/ \E id \in Ids, proof \in Inputs, inputs \in Inputs :
       \/ ClaimRefused(id, proof, inputs)
       \/ \E sender \in Accounts : ClaimPays(sender, id, proof, inputs)
  \/ RecipientAccepts
  \/ RecipientReverts

Spec == Init /\ [][Next]_vars

-----------------------------------------------------------------------------
(* Properties. *)

BountySlots ==
  [poster : Accounts \cup {NoAccount}, reward : Nat,
   programHash : Hashes \cup {NoHash}, claimed : BOOLEAN,
   solver : Accounts \cup {NoAccount}]

\* The bounties as they were before the transaction in progress.
Committed == IF stack = << >> THEN bounties ELSE stack[1].bounties

\* Type invariant; a bounty that was posted has a reward (Bounty.sol:46).
TypeOK ==
  /\ bounties \in [Ids -> BountySlots]
  /\ nextId \in Ids
  /\ \A id \in Ids : id < nextId <=> bounties[id].reward > 0
  /\ balance \in Nat
  /\ paid \in [Ids -> Nat]
  /\ stack \in Seq([bounties : [Ids -> BountySlots], nextId : Ids, balance : Nat,
                    paid : [Ids -> Nat]])
  /\ proved \subseteq Hashes
  /\ lastCall \in
       [error : {"none", "NoReward", "AlreadyClaimed", "PolicyHashMismatch",
                 "ProofInvalid", "WrongTask", "TransferFailed"},
        valid : BOOLEAN]

\* What is owed for a bounty, and for all of them.
Owed(bounty) == IF bounty.claimed THEN 0 ELSE bounty.reward

Unclaimed(slots) ==
  LET upTo[n \in 0..MaxBounties + 1] ==
        IF n = 0 THEN 0 ELSE upTo[n - 1] + Owed(slots[n - 1])
  IN upTo[MaxBounties + 1]

\* The escrow is solvent at every moment, while a recipient has control as
\* well: the contract holds exactly the rewards nobody has claimed
\* (Bounty.sol:65-83).
EscrowIsUnclaimed == balance = Unclaimed(bounties)

\* Each bounty pays its reward once, when it is claimed, however the recipient
\* re-enters claim() while it is being paid and whatever is then undone
\* (Bounty.sol:69-82).
PaidOnce ==
  \A id \in Ids : paid[id] = IF bounties[id].claimed THEN bounties[id].reward ELSE 0

\* Nobody is paid without a valid proof of the program the poster committed to,
\* and no bounty is claimed before it is posted (Bounty.sol:71-76).
ClaimNeedsProof ==
  \A id \in Ids : bounties[id].claimed =>
    id < nextId /\ bounties[id].programHash \in proved

\* What a completed transaction claimed stays claimed: no later call, nested
\* call or revert changes the bounty or its solver (Bounty.sol:45-83).
ClaimIsFinal ==
  [][\A id \in Ids :
       Committed[id].claimed => bounties'[id] = Committed[id]]_vars

\* Transactions are atomic (Bounty.sol:42-83): with the callbacks and reverts
\* hidden, seen from one completed transaction to the next, the board only adds
\* offers and lets each be taken once, on its terms and against a proof.
CommittedPaid == IF stack = << >> THEN paid ELSE stack[1].paid
Promise == INSTANCE Escrow WITH slots <- Committed, paid <- CommittedPaid
ImplementsEscrow == Promise!Spec

\* What Bounty.sol:14-15 says: "a bogus proof always reverts `ProofInvalid`
\* regardless of the other args".
BogusProofIsProofInvalid ==
  lastCall.error \in {"AlreadyClaimed", "PolicyHashMismatch", "ProofInvalid", "WrongTask"}
    /\ ~ lastCall.valid => lastCall.error = "ProofInvalid"
=============================================================================

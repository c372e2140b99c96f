--------------------------- MODULE OnChain_proofs ---------------------------
(***************************************************************************)
(* Proofs about Bounty and OnChain, for any number of bounties, any width  *)
(* of the integers and any depth of re-entrancy.                           *)
(*                                                                         *)
(* The bounty board: type correctness, one payment per bounty, no payment  *)
(* without a proof, that a completed claim is final, and that the contract *)
(* holds what it still owes.  Then the board beside a consumer on the same *)
(* verifier: it keeps its promises, and the consumer stores proven numbers *)
(* only.                                                                   *)
(***************************************************************************)
EXTENDS OnChain, InductionLemmas, TLAPS

-----------------------------------------------------------------------------
(* The bounty board. *)

\* The ids given out have a reward and the others were never written.
Posted(b, n) == \A id \in Ids : IF id < n THEN b[id].reward > 0 ELSE b[id] = Empty

\* What was sent out is the rewards of the claimed bounties.
Settles(b, p) == \A id \in Ids : p[id] = IF b[id].claimed THEN b[id].reward ELSE 0

\* Every claimed bounty was posted, and its program is among the proved, v.
Backed(b, n, v) == \A id \in Ids : b[id].claimed => id < n /\ b[id].programHash \in v

\* b keeps every claim of c.
Keeps(b, c) == \A id \in Ids : c[id].claimed => b[id] = c[id]

\* A state of the contract, present or saved, is a good one.
Good(b, n, p, v, c) ==
  Posted(b, n) /\ Settles(b, p) /\ Backed(b, n, v) /\ Keeps(b, c)

\* The inductive invariant: a revert may make any saved state the present one,
\* and all of them keep what completed transactions claimed.
IInv ==
  /\ TypeOK
  /\ Good(bounties, nextId, paid, proved, Committed)
  /\ \A k \in 1..Len(stack) :
       Good(stack[k].bounties, stack[k].nextId, stack[k].paid, proved, Committed)

Frames == [bounties : [Ids -> BountySlots], nextId : Ids, balance : Nat, paid : [Ids -> Nat]]

-----------------------------------------------------------------------------
\* A bounty is posted exactly when it has a reward.
LEMMA PostedRewards ==
  ASSUME NEW b, NEW n, Posted(b, n)
  PROVE  \A id \in Ids : id < n <=> b[id].reward > 0
BY DEF Posted, Empty

\* A good state stays good as more is proved.
LEMMA GoodGrows ==
  ASSUME NEW b, NEW n, NEW p, NEW v, NEW w, NEW c, Good(b, n, p, v, c), v \subseteq w
  PROVE  Good(b, n, p, w, c)
BY DEF Good, Backed

\* The invariant holds initially.
LEMMA IInvInit == Init => IInv
<1> SUFFICES ASSUME Init PROVE IInv OBVIOUS
<1>1. Empty \in BountySlots BY DEF Empty, BountySlots
<1>2. 0 \in Ids BY BountyAssumption DEF Ids
<1>3. TypeOK BY <1>1, <1>2, BountyAssumption DEF Init, TypeOK, Ended, Empty, Ids
<1>4. Good(bounties, nextId, paid, proved, Committed)
  BY BountyAssumption DEF Init, Good, Posted, Settles, Backed, Keeps, Committed, Empty, Ids
<1> QED BY <1>3, <1>4 DEF IInv, Init

\* Posting: the new bounty takes a slot nobody can have claimed.
LEMMA IInvPost ==
  ASSUME IInv, NEW sender \in Accounts, NEW value \in Values, NEW programHash \in Hashes,
         PostBounty(sender, value, programHash)
  PROVE  IInv' /\ Keeps(bounties', Committed)
<1> DEFINE new == [poster |-> sender, reward |-> value, programHash |-> programHash,
                   claimed |-> FALSE, solver |-> NoAccount]
<1>1. /\ value > 0 /\ value \in Nat /\ nextId \in Nat /\ nextId < MaxBounties
      /\ MaxBounties \in Nat /\ nextId \in Ids /\ Ids = 0..MaxBounties
  BY BountyAssumption DEF PostBounty, IInv, TypeOK, Ids
<1>2. /\ bounties' = [bounties EXCEPT ![nextId] = new] /\ nextId' = nextId + 1
      /\ balance' = balance + value /\ lastCall' = Ended("none", FALSE)
      /\ UNCHANGED <<paid, stack, proved>>
  BY DEF PostBounty
<1>3. new \in BountySlots BY <1>1 DEF BountySlots
<1>4. bounties \in [Ids -> BountySlots] BY DEF IInv, TypeOK
<1>5. ~ bounties[nextId].claimed /\ ~ Committed[nextId].claimed
  <2>1. ~ bounties[nextId].claimed BY <1>1 DEF IInv, Good, Backed
  <2> QED BY <1>1, <2>1 DEF IInv, Good, Keeps
<1>6. \A id \in Ids : bounties'[id] = IF id = nextId THEN new ELSE bounties[id]
  BY <1>2, <1>4
<1>7. Posted(bounties', nextId')
  <2> SUFFICES ASSUME NEW id \in Ids
               PROVE  IF id < nextId' THEN bounties'[id].reward > 0
                                      ELSE bounties'[id] = Empty
    BY DEF Posted
  <2>1. id \in Nat BY <1>1
  <2>2. CASE id = nextId BY <1>1, <1>2, <1>6, <2>2
  <2>3. CASE id # nextId
    <3>1. id < nextId + 1 <=> id < nextId BY <1>1, <2>1, <2>3
    <3> QED BY <1>2, <1>6, <2>3, <3>1 DEF IInv, Good, Posted
  <2> QED BY <2>2, <2>3
<1>8. TypeOK'
  <2>1. nextId' \in Ids BY <1>1, <1>2
  <2>2. balance' \in Nat BY <1>1, <1>2 DEF IInv, TypeOK
  <2>3. bounties' \in [Ids -> BountySlots] BY <1>2, <1>3, <1>4
  <2> QED BY <1>2, <1>7, <2>1, <2>2, <2>3, PostedRewards DEF IInv, TypeOK, Ended
<1>9. Keeps(bounties', Committed) BY <1>5, <1>6 DEF IInv, Good, Keeps
<1>10. Committed' = IF stack = << >> THEN bounties' ELSE Committed
  BY <1>2 DEF Committed
<1>11. Settles(bounties', paid') BY <1>2, <1>5, <1>6 DEF IInv, Good, Settles
<1>12. Backed(bounties', nextId', proved')
  <2> SUFFICES ASSUME NEW id \in Ids, bounties'[id].claimed
               PROVE  id < nextId' /\ bounties'[id].programHash \in proved'
    BY DEF Backed
  <2>1. id # nextId /\ bounties'[id] = bounties[id] BY <1>6
  <2>2. id < nextId /\ bounties[id].programHash \in proved
    BY <2>1 DEF IInv, Good, Backed
  <2>3. id \in Nat BY <1>1
  <2> QED BY <1>1, <1>2, <2>1, <2>2, <2>3
<1>13. Keeps(bounties', Committed') BY <1>9, <1>10 DEF Keeps
<1>14. \A k \in 1..Len(stack') :
         Good(stack'[k].bounties, stack'[k].nextId, stack'[k].paid, proved', Committed')
  <2>1. CASE stack = << >> BY <1>2, <2>1
  <2>2. CASE stack # << >> BY <1>2, <1>10, <2>2 DEF IInv
  <2> QED BY <2>1, <2>2
<1> QED BY <1>7, <1>8, <1>9, <1>11, <1>12, <1>13, <1>14 DEF IInv, Good

\* A refused claim changes nothing in the contract.
LEMMA IInvRefused ==
  ASSUME IInv, NEW id \in Ids, NEW proof \in Inputs, NEW inputs \in Inputs,
         ClaimRefused(id, proof, inputs)
  PROVE  IInv' /\ Keeps(bounties', Committed)
<1>1. PICK answer \in HonkAnswers(proof, inputs) :
        /\ ClaimError(id, answer, inputs) # "none"
        /\ lastCall' = Ended(ClaimError(id, answer, inputs), proof = inputs)
  BY DEF ClaimRefused
<1>2. proved' = Submitted(proof, inputs)
      /\ UNCHANGED <<bounties, nextId, balance, paid, stack>>
  BY DEF ClaimRefused
<1>3. proved \subseteq proved' /\ proved' \subseteq Hashes
  BY <1>2 DEF Submitted, IInv, TypeOK, Inputs
<1>4. lastCall' \in [error : {"none", "NoReward", "AlreadyClaimed", "PolicyHashMismatch",
                             "ProofInvalid", "WrongTask", "TransferFailed"},
                    valid : BOOLEAN]
  BY <1>1 DEF ClaimError, VerifyError, Ended
<1>5. TypeOK' BY <1>2, <1>3, <1>4 DEF IInv, TypeOK
<1>6. Committed' = Committed BY <1>2 DEF Committed
<1>7. Good(bounties', nextId', paid', proved', Committed')
  BY <1>2, <1>3, <1>6, GoodGrows DEF IInv
<1>8. \A k \in 1..Len(stack') :
        Good(stack'[k].bounties, stack'[k].nextId, stack'[k].paid, proved', Committed')
  BY <1>2, <1>3, <1>6, GoodGrows DEF IInv
<1> QED BY <1>2, <1>5, <1>7, <1>8 DEF IInv, Good

\* A claim that pays: the bounty was posted, unclaimed, and proved just now.
LEMMA IInvPays ==
  ASSUME IInv, NEW sender \in Accounts, NEW id \in Ids, NEW proof \in Inputs,
         NEW inputs \in Inputs, ClaimPays(sender, id, proof, inputs)
  PROVE  IInv' /\ Keeps(bounties', Committed)
<1> DEFINE b == bounties[id]
<1>1. PICK answer \in HonkAnswers(proof, inputs) : ClaimError(id, answer, inputs) = "none"
  BY DEF ClaimPays
<1>2. /\ ~ b.claimed /\ VerifyError(answer, inputs) = "none"
      /\ inputs.programHash = b.programHash /\ ~ (balance < b.reward)
  BY <1>1 DEF ClaimError
<1>3. inputs.policyHash = ExpectedPolicyHash /\ proof = inputs
  BY <1>1, <1>2 DEF VerifyError, HonkAnswers
<1>4. /\ stack' = Append(stack, Saved)
      /\ bounties' = [bounties EXCEPT ![id] = Settled(@, sender)]
      /\ balance' = balance - b.reward
      /\ paid' = [paid EXCEPT ![id] = @ + b.reward]
      /\ proved' = Submitted(proof, inputs)
      /\ UNCHANGED <<nextId, lastCall>>
  BY DEF ClaimPays
<1>5. /\ bounties \in [Ids -> BountySlots] /\ b \in BountySlots /\ balance \in Nat
      /\ paid \in [Ids -> Nat] /\ stack \in Seq(Frames) /\ proved \subseteq Hashes
  BY DEF IInv, TypeOK, Frames
<1>6. proved' = proved \cup {b.programHash} /\ b.programHash \in Hashes
  BY <1>2, <1>3, <1>4 DEF Submitted, Inputs
<1>7. id < nextId
  BY <1>6, BountyAssumption DEF IInv, Good, Posted, Empty
<1>8. \A i \in Ids : bounties'[i] = IF i = id THEN Settled(b, sender) ELSE bounties[i]
  BY <1>4, <1>5
<1>9. Settled(b, sender) \in BountySlots /\ Settled(b, sender).claimed
      /\ Settled(b, sender).reward = b.reward
      /\ Settled(b, sender).programHash = b.programHash
  BY <1>5 DEF Settled, BountySlots
<1>10. Saved \in Frames BY DEF Saved, Frames, IInv, TypeOK
<1>11. balance' \in Nat
  <2>1. b.reward \in Nat BY <1>5 DEF BountySlots
  <2> QED BY <1>2, <1>4, <1>5, <2>1
<1>12. Posted(bounties', nextId')
  BY <1>4, <1>7, <1>8, <1>9 DEF IInv, Good, Posted
<1>13. TypeOK'
  <2>1. bounties' \in [Ids -> BountySlots] BY <1>4, <1>5, <1>9
  <2>2. paid' \in [Ids -> Nat]
    <3>1. b.reward \in Nat BY <1>5 DEF BountySlots
    <3> QED BY <1>4, <1>5, <3>1
  <2>3. stack' \in Seq(Frames) BY <1>4, <1>5, <1>10
  <2> QED BY <1>4, <1>5, <1>6, <1>11, <1>12, <2>1, <2>2, <2>3, PostedRewards
          DEF IInv, TypeOK, Frames
<1>14. Settles(bounties', paid')
  <2>1. paid[id] = 0 /\ b.reward \in Nat
    BY <1>2, <1>5 DEF IInv, Good, Settles, BountySlots
  <2>2. \A i \in Ids : paid'[i] = IF i = id THEN b.reward ELSE paid[i]
    BY <1>4, <1>5, <2>1
  <2> QED BY <1>8, <1>9, <2>2 DEF IInv, Good, Settles
<1>15. Backed(bounties', nextId', proved')
  BY <1>4, <1>6, <1>7, <1>8, <1>9 DEF IInv, Good, Backed
<1>16. Keeps(bounties', Committed)
  <2>1. ~ Committed[id].claimed BY <1>2 DEF IInv, Good, Keeps
  <2> QED BY <1>8, <2>1 DEF IInv, Good, Keeps
<1>17. Committed' = Committed
  <2>1. CASE stack = << >> BY <1>4, <2>1 DEF Committed, Saved
  <2>2. CASE stack # << >>
    <3>1. stack' # << >> /\ stack'[1] = stack[1] BY <1>4, <1>5, <1>10, <2>2
    <3> QED BY <2>2, <3>1 DEF Committed
  <2> QED BY <2>1, <2>2
<1>18. ASSUME NEW k \in 1..Len(stack')
       PROVE  Good(stack'[k].bounties, stack'[k].nextId, stack'[k].paid, proved', Committed')
  <2>1. Len(stack') = Len(stack) + 1 /\ Len(stack) \in Nat BY <1>4, <1>5, <1>10
  <2>2. proved \subseteq proved' BY <1>6
  <2>3. CASE k = Len(stack) + 1
    <3>1. stack'[k] = Saved BY <1>4, <1>5, <1>10, <2>3
    <3>2. Good(bounties, nextId, paid, proved', Committed) BY <2>2, GoodGrows DEF IInv
    <3> QED BY <1>17, <3>1, <3>2 DEF Saved
  <2>4. CASE k # Len(stack) + 1
    <3>1. k \in 1..Len(stack) /\ stack'[k] = stack[k] BY <1>4, <1>5, <1>10, <2>1, <2>4
    <3>2. Good(stack[k].bounties, stack[k].nextId, stack[k].paid, proved, Committed)
      BY <3>1 DEF IInv
    <3> QED BY <1>17, <2>2, <3>1, <3>2, GoodGrows
  <2> QED BY <2>3, <2>4
<1> QED BY <1>12, <1>13, <1>14, <1>15, <1>16, <1>17, <1>18 DEF IInv, Good

\* A stack without its last frame.
LEMMA Popped ==
  ASSUME NEW S, NEW s \in Seq(S), s # << >>
  PROVE  /\ Len(s) \in Nat /\ Len(s) >= 1 /\ Len(s) \in 1..Len(s) /\ s[Len(s)] \in S
         /\ SubSeq(s, 1, Len(s) - 1) \in Seq(S)
         /\ Len(SubSeq(s, 1, Len(s) - 1)) = Len(s) - 1
         /\ \A k \in 1..(Len(s) - 1) : SubSeq(s, 1, Len(s) - 1)[k] = s[k]
<1>1. Len(s) \in Nat /\ Len(s) # 0 OBVIOUS
<1>2. Len(s) >= 1 /\ Len(s) \in 1..Len(s) /\ Len(s) - 1 \in 0..Len(s) BY <1>1
<1>3. s[Len(s)] \in S BY <1>2
<1>4. SubSeq(s, 1, Len(s) - 1) \in Seq(S) BY <1>2
<1>5. Len(SubSeq(s, 1, Len(s) - 1)) = Len(s) - 1
  <2>1. PICK n \in Nat : n = Len(s) - 1 BY <1>1, <1>2
  <2>2. Len(SubSeq(s, 1, n)) = n BY <1>1, <2>1
  <2> QED BY <2>1, <2>2
<1>6. \A k \in 1..(Len(s) - 1) : SubSeq(s, 1, Len(s) - 1)[k] = s[k] BY <1>2
<1> QED BY <1>1, <1>2, <1>3, <1>4, <1>5, <1>6

\* The recipient is done, one way or the other: what is left of the stack keeps
\* what completed transactions claimed, and the present state becomes
\* completed when nothing is left.
LEMMA CommittedAfterPop ==
  ASSUME IInv, stack # << >>, stack' = SubSeq(stack, 1, Len(stack) - 1)
  PROVE  /\ stack' \in Seq(Frames) /\ Len(stack) \in Nat /\ Len(stack) >= 1
         /\ Len(stack') = Len(stack) - 1
         /\ \A k \in 1..Len(stack') : stack'[k] = stack[k]
         /\ Committed' = IF Len(stack) = 1 THEN bounties' ELSE Committed
<1>1. stack \in Seq(Frames) BY DEF IInv, TypeOK, Frames
<1>2. /\ stack' \in Seq(Frames) /\ Len(stack) \in Nat /\ Len(stack) >= 1
      /\ Len(stack') = Len(stack) - 1
      /\ \A k \in 1..Len(stack') : stack'[k] = stack[k]
  BY <1>1, Popped
<1>3. CASE Len(stack) = 1
  <2>1. stack' = << >> BY <1>2, <1>3
  <2> QED BY <1>2, <1>3, <2>1 DEF Committed
<1>4. CASE Len(stack) # 1
  <2>1. 1 \in 1..Len(stack') BY <1>2, <1>4
  <2>2. stack' # << >>
    <3>1. Len(stack') # 0 BY <1>2, <1>4
    <3> QED BY <3>1
  <2>3. stack'[1] = stack[1] BY <1>2, <2>1
  <2> QED BY <1>2, <1>4, <2>2, <2>3 DEF Committed
<1> QED BY <1>2, <1>3, <1>4

\* The innermost payment is accepted.
LEMMA IInvAccepts == IInv /\ RecipientAccepts => IInv' /\ Keeps(bounties', Committed)
<1> SUFFICES ASSUME IInv, RecipientAccepts PROVE IInv' /\ Keeps(bounties', Committed)
  OBVIOUS
<1>1. /\ stack # << >> /\ stack' = SubSeq(stack, 1, Len(stack) - 1)
      /\ lastCall' = Ended("none", TRUE)
      /\ UNCHANGED <<bounties, nextId, balance, paid, proved>>
  BY DEF RecipientAccepts
<1>2. /\ stack' \in Seq(Frames) /\ Len(stack) \in Nat /\ Len(stack') = Len(stack) - 1
      /\ \A k \in 1..Len(stack') : stack'[k] = stack[k]
      /\ Committed' = IF Len(stack) = 1 THEN bounties' ELSE Committed
  BY <1>1, CommittedAfterPop
<1>3. TypeOK' BY <1>1, <1>2 DEF IInv, TypeOK, Ended, Frames
<1>4. Good(bounties', nextId', paid', proved', Committed')
  BY <1>1, <1>2 DEF IInv, Good, Keeps
<1>5. ASSUME NEW k \in 1..Len(stack')
      PROVE  Good(stack'[k].bounties, stack'[k].nextId, stack'[k].paid, proved', Committed')
  <2>1. k \in 1..Len(stack) /\ Len(stack) # 1 BY <1>2
  <2> QED BY <1>1, <1>2, <2>1 DEF IInv
<1> QED BY <1>1, <1>3, <1>4, <1>5 DEF IInv, Good

\* The innermost payment is undone.
LEMMA IInvReverts == IInv /\ RecipientReverts => IInv' /\ Keeps(bounties', Committed)
<1> SUFFICES ASSUME IInv, RecipientReverts PROVE IInv' /\ Keeps(bounties', Committed)
  OBVIOUS
<1> DEFINE saved == stack[Len(stack)]
<1>1. /\ stack # << >> /\ stack' = SubSeq(stack, 1, Len(stack) - 1)
      /\ bounties' = saved.bounties /\ nextId' = saved.nextId
      /\ balance' = saved.balance /\ paid' = saved.paid
      /\ lastCall' = Ended("TransferFailed", TRUE) /\ proved' = proved
  BY DEF RecipientReverts
<1>2. /\ stack' \in Seq(Frames) /\ Len(stack) \in Nat /\ Len(stack) >= 1
      /\ Len(stack') = Len(stack) - 1
      /\ \A k \in 1..Len(stack') : stack'[k] = stack[k]
      /\ Committed' = IF Len(stack) = 1 THEN bounties' ELSE Committed
  BY <1>1, CommittedAfterPop
<1>3. Len(stack) \in 1..Len(stack) /\ saved \in Frames
  <2>1. stack \in Seq(Frames) BY DEF IInv, TypeOK, Frames
  <2> QED BY <1>1, <2>1, Popped
<1>4. Good(bounties', nextId', paid', proved, Committed)
  BY <1>1, <1>3 DEF IInv
<1>5. TypeOK'
  <2>1. \A id \in Ids : id < nextId' <=> bounties'[id].reward > 0
    BY <1>4, PostedRewards DEF Good
  <2> QED BY <1>1, <1>2, <1>3, <2>1 DEF IInv, TypeOK, Ended, Frames
<1>6. Good(bounties', nextId', paid', proved', Committed')
  BY <1>1, <1>2, <1>4 DEF Good, Keeps
<1>7. ASSUME NEW k \in 1..Len(stack')
      PROVE  Good(stack'[k].bounties, stack'[k].nextId, stack'[k].paid, proved', Committed')
  <2>1. k \in 1..Len(stack) /\ Len(stack) # 1 BY <1>2
  <2> QED BY <1>1, <1>2, <2>1 DEF IInv
<1> QED BY <1>4, <1>5, <1>6, <1>7 DEF IInv, Good

\* The invariant is inductive, and no step touches what is final.
LEMMA IInvNext == IInv /\ [Next]_vars => IInv' /\ Keeps(bounties', Committed)
<1> SUFFICES ASSUME IInv, [Next]_vars PROVE IInv' /\ Keeps(bounties', Committed)
  OBVIOUS
<1>1. CASE PostRefused
  <2>1. /\ UNCHANGED <<bounties, nextId, balance, paid, stack, proved>>
        /\ lastCall' = Ended("NoReward", FALSE)
    BY <1>1 DEF PostRefused
  <2>2. TypeOK' BY <2>1 DEF IInv, TypeOK, Ended
  <2>3. Committed' = Committed BY <2>1 DEF Committed
  <2> QED BY <2>1, <2>2, <2>3 DEF IInv, Good
<1>2. ASSUME NEW sender \in Accounts, NEW value \in Values, NEW programHash \in Hashes,
             PostBounty(sender, value, programHash)
      PROVE  IInv' /\ Keeps(bounties', Committed)
  BY <1>2, IInvPost
<1>3. ASSUME NEW id \in Ids, NEW proof \in Inputs, NEW inputs \in Inputs,
             ClaimRefused(id, proof, inputs)
      PROVE  IInv' /\ Keeps(bounties', Committed)
  BY <1>3, IInvRefused
<1>4. ASSUME NEW id \in Ids, NEW proof \in Inputs, NEW inputs \in Inputs,
             NEW sender \in Accounts, ClaimPays(sender, id, proof, inputs)
      PROVE  IInv' /\ Keeps(bounties', Committed)
  BY <1>4, IInvPays
<1>5. CASE RecipientAccepts BY <1>5, IInvAccepts
<1>6. CASE RecipientReverts BY <1>6, IInvReverts
<1>7. CASE UNCHANGED vars
  <2>1. TypeOK' BY <1>7 DEF IInv, TypeOK, vars
  <2>2. Committed' = Committed BY <1>7 DEF Committed, vars
  <2> QED BY <1>7, <2>1, <2>2 DEF IInv, Good, vars
<1> QED BY <1>1, <1>2, <1>3, <1>4, <1>5, <1>6, <1>7 DEF Next

\* ... and so it always holds.
THEOREM Invariance == Spec => []IInv
<1>1. Init => IInv BY IInvInit
<1>2. IInv /\ [Next]_vars => IInv' BY IInvNext
<1> QED BY <1>1, <1>2, PTL DEF Spec

-----------------------------------------------------------------------------
(* The escrow: a sum over the slots, now and in every saved frame. *)

\* What the contract held, now and in every state a revert may restore, is what
\* was owed then.
Escrowed ==
  /\ EscrowIsUnclaimed
  /\ \A k \in 1..Len(stack) : stack[k].balance = Unclaimed(stack[k].bounties)

\* s adds up what is owed, slot by slot.
AddsUp(slots, s) ==
  /\ s \in [Nat -> Nat]
  /\ s[0] = 0
  /\ \A id \in Ids : s[id + 1] = s[id] + Owed(slots[id])

\* What is owed for a slot is a natural number.
LEMMA OwedNat == \A bounty \in BountySlots : Owed(bounty) \in Nat
BY DEF Owed, BountySlots

\* The sum exists, and is what Unclaimed chooses.
LEMMA UnclaimedIsSum ==
  ASSUME NEW slots \in [Ids -> BountySlots]
  PROVE  \E s : AddsUp(slots, s) /\ Unclaimed(slots) = s[MaxBounties + 1]
<1> DEFINE owed == [id \in Nat |-> IF id \in Ids THEN Owed(slots[id]) ELSE 0]
           step == [id \in Nat |-> [sum \in Nat |-> sum + owed[id]]]
           Next1(upTo) == [n \in 0..MaxBounties + 1 |->
                             IF n = 0 THEN 0 ELSE upTo[n - 1] + Owed(slots[n - 1])]
<1>1. owed \in [Nat -> Nat] BY OwedNat
<1> HIDE DEF owed
<1>2. step \in [Nat -> [Nat -> Nat]] BY <1>1
<1>3. PICK s \in [Nat -> Nat] : s[0] = 0 /\ \A n \in Nat : s[n + 1] = step[n][s[n]]
  <2>1. 0 \in Nat OBVIOUS
  <2> HIDE DEF step
  <2>2. \E s : Iterates(s, Nat, 0, step) BY <1>2, <2>1, Recursion
  <2> QED BY <2>2 DEF Iterates
<1>4. \A n \in Nat : s[n + 1] = s[n] + owed[n] BY <1>3
<1>5. AddsUp(slots, s)
  <2>1. \A id \in Ids : id \in Nat /\ owed[id] = Owed(slots[id])
    BY BountyAssumption DEF owed, Ids
  <2> QED BY <1>3, <1>4, <2>1 DEF AddsUp
<1> DEFINE part == [n \in 0..MaxBounties + 1 |-> s[n]]
<1>6. part = Next1(part)
  <2>1. ASSUME NEW n \in 0..MaxBounties + 1
        PROVE  part[n] = IF n = 0 THEN 0 ELSE part[n - 1] + Owed(slots[n - 1])
    <3>1. CASE n = 0 BY <1>3, <3>1
    <3>2. CASE n # 0
      <4>1. n - 1 \in Ids /\ n - 1 \in 0..MaxBounties + 1 /\ (n - 1) + 1 = n
        BY <3>2, BountyAssumption DEF Ids
      <4>2. s[n] = s[n - 1] + Owed(slots[n - 1]) BY <1>5, <4>1 DEF AddsUp
      <4> QED BY <3>2, <4>1, <4>2
    <3> QED BY <3>1, <3>2
  <2> QED BY <2>1
<1> DEFINE chosen == CHOOSE upTo : upTo = Next1(upTo)
<1>7. chosen = Next1(chosen)
  <2> HIDE DEF part, Next1
  <2> QED BY <1>6
<1>8. Unclaimed(slots) = chosen[MaxBounties + 1] BY DEF Unclaimed
<1> HIDE DEF chosen
<1>9. chosen[0] = 0 BY <1>7, BountyAssumption
<1>10. \A n \in Nat : n <= MaxBounties => chosen[n + 1] = chosen[n] + Owed(slots[n])
  <2> SUFFICES ASSUME NEW n \in Nat, n <= MaxBounties
               PROVE  chosen[n + 1] = chosen[n] + Owed(slots[n])
    OBVIOUS
  <2>1. n + 1 \in 0..MaxBounties + 1 /\ n + 1 # 0 /\ (n + 1) - 1 = n
    BY BountyAssumption
  <2> QED BY <1>7, <2>1
<1> DEFINE S == {n \in Nat : n <= MaxBounties + 1 => chosen[n] = s[n]}
<1>11. Nat \subseteq S
  <2>1. 0 \in S BY <1>3, <1>9
  <2>2. ASSUME NEW n \in Nat, n \in S PROVE n + 1 \in S
    <3> SUFFICES ASSUME n + 1 <= MaxBounties + 1 PROVE chosen[n + 1] = s[n + 1] OBVIOUS
    <3>1. n <= MaxBounties /\ n \in Ids BY BountyAssumption DEF Ids
    <3>2. chosen[n] = s[n] BY <2>2, <3>1, BountyAssumption
    <3> QED BY <1>5, <1>10, <3>1, <3>2 DEF AddsUp
  <2> HIDE DEF S
  <2> QED BY <2>1, <2>2, SetInduction
<1>12. chosen[MaxBounties + 1] = s[MaxBounties + 1] BY <1>11, BountyAssumption
<1> QED BY <1>5, <1>8, <1>12

\* Nothing is owed for slots never written.
LEMMA NothingOwed == Unclaimed([id \in Ids |-> Empty]) = 0
<1> DEFINE slots == [id \in Ids |-> Empty]
<1>1. slots \in [Ids -> BountySlots] BY DEF Empty, BountySlots
<1>2. \A id \in Ids : Owed(slots[id]) = 0 BY DEF Owed, Empty
<1> HIDE DEF slots
<1>3. PICK s : AddsUp(slots, s) /\ Unclaimed(slots) = s[MaxBounties + 1]
  BY <1>1, UnclaimedIsSum
<1> DEFINE S == {n \in Nat : n <= MaxBounties + 1 => s[n] = 0}
<1>4. 0 \in S BY <1>3 DEF AddsUp
<1>5. ASSUME NEW n \in Nat, n \in S PROVE n + 1 \in S
  <2> SUFFICES ASSUME n + 1 <= MaxBounties + 1 PROVE s[n + 1] = 0 OBVIOUS
  <2>1. n \in Ids /\ s[n] = 0 BY <1>5, BountyAssumption DEF Ids
  <2> QED BY <1>2, <1>3, <2>1 DEF AddsUp
<1> HIDE DEF S
<1>6. Nat \subseteq S BY <1>4, <1>5, SetInduction
<1>7. s[MaxBounties + 1] = 0 BY <1>6, BountyAssumption DEF S
<1> QED BY <1>3, <1>7 DEF slots

\* Where one slot changes, the sum changes by what is owed for that slot.
LEMMA UnclaimedChanges ==
  ASSUME NEW slots \in [Ids -> BountySlots], NEW id \in Ids, NEW new \in BountySlots
  PROVE  /\ Unclaimed(slots) \in Nat
         /\ Unclaimed([slots EXCEPT ![id] = new])
              = Unclaimed(slots) - Owed(slots[id]) + Owed(new)
<1> DEFINE after == [slots EXCEPT ![id] = new]
<1>1. after \in [Ids -> BountySlots] OBVIOUS
<1>2. \A i \in Ids : after[i] = IF i = id THEN new ELSE slots[i] OBVIOUS
<1> HIDE DEF after
<1>3. PICK s : AddsUp(slots, s) /\ Unclaimed(slots) = s[MaxBounties + 1]
  BY UnclaimedIsSum
<1>4. PICK t : AddsUp(after, t) /\ Unclaimed(after) = t[MaxBounties + 1]
  BY <1>1, UnclaimedIsSum
<1>5. Owed(slots[id]) \in Nat /\ Owed(new) \in Nat BY OwedNat
<1>6. s \in [Nat -> Nat] /\ t \in [Nat -> Nat] BY <1>3, <1>4 DEF AddsUp
<1>7. id \in Nat /\ id <= MaxBounties /\ MaxBounties \in Nat BY BountyAssumption DEF Ids
<1> DEFINE S == {n \in Nat : n <= MaxBounties + 1 =>
                   t[n] = IF id < n THEN s[n] - Owed(slots[id]) + Owed(new) ELSE s[n]}
<1>8. 0 \in S BY <1>3, <1>4, <1>7 DEF AddsUp
<1>9. ASSUME NEW n \in Nat, n \in S PROVE n + 1 \in S
  <2> SUFFICES ASSUME n + 1 <= MaxBounties + 1
               PROVE  t[n + 1] = IF id < n + 1 THEN s[n + 1] - Owed(slots[id]) + Owed(new)
                                               ELSE s[n + 1]
    OBVIOUS
  <2>1. n \in Ids /\ n <= MaxBounties + 1 BY <1>7 DEF Ids
  <2>2. t[n] = IF id < n THEN s[n] - Owed(slots[id]) + Owed(new) ELSE s[n] BY <1>9, <2>1
  <2>3. s[n + 1] = s[n] + Owed(slots[n]) /\ t[n + 1] = t[n] + Owed(after[n])
    BY <1>3, <1>4, <2>1 DEF AddsUp
  <2>4. Owed(slots[n]) \in Nat BY <2>1, OwedNat
  <2>5. s[n] \in Nat /\ t[n] \in Nat BY <1>6
  <2>6. CASE n = id BY <1>2, <1>5, <1>7, <2>1, <2>2, <2>3, <2>5, <2>6
  <2>7. CASE n # id
    <3>1. Owed(after[n]) = Owed(slots[n]) BY <1>2, <2>1, <2>7
    <3>2. id < n + 1 <=> id < n BY <1>7, <2>7
    <3> QED BY <1>5, <2>2, <2>3, <2>4, <2>5, <3>1, <3>2
  <2> QED BY <2>6, <2>7
<1> HIDE DEF S
<1>10. Nat \subseteq S BY <1>8, <1>9, SetInduction
<1>11. t[MaxBounties + 1] = s[MaxBounties + 1] - Owed(slots[id]) + Owed(new)
  BY <1>7, <1>10 DEF S
<1> QED BY <1>3, <1>4, <1>6, <1>7, <1>11 DEF after

\* At first nothing is held and nothing is owed.
LEMMA EscrowedInit == Init => Escrowed
BY NothingOwed DEF Init, Escrowed, EscrowIsUnclaimed

\* Posting adds to both: the slot was empty.
LEMMA EscrowedPost ==
  ASSUME IInv, Escrowed, NEW sender \in Accounts, NEW value \in Values,
         NEW programHash \in Hashes, PostBounty(sender, value, programHash)
  PROVE  Escrowed'
<1> DEFINE new == [poster |-> sender, reward |-> value, programHash |-> programHash,
                   claimed |-> FALSE, solver |-> NoAccount]
<1>1. /\ bounties' = [bounties EXCEPT ![nextId] = new]
      /\ balance' = balance + value /\ stack' = stack
  BY DEF PostBounty
<1>2. /\ bounties \in [Ids -> BountySlots] /\ nextId \in Ids /\ value \in Nat
      /\ nextId \in Nat
  BY BountyAssumption DEF IInv, TypeOK, Ids
<1>3. new \in BountySlots /\ Owed(new) = value BY <1>2 DEF BountySlots, Owed
<1>4. bounties[nextId] = Empty BY <1>2 DEF IInv, Good, Posted
<1>5. Owed(bounties[nextId]) = 0 BY <1>4 DEF Owed, Empty
<1> HIDE DEF new
<1>6. Unclaimed(bounties') = Unclaimed(bounties) + value /\ Unclaimed(bounties) \in Nat
  <2>1. /\ Unclaimed(bounties) \in Nat
        /\ Unclaimed([bounties EXCEPT ![nextId] = new])
             = Unclaimed(bounties) - Owed(bounties[nextId]) + Owed(new)
    BY <1>2, <1>3, UnclaimedChanges, Zenon
  <2> QED BY <1>1, <1>2, <1>3, <1>5, <2>1
<1> QED BY <1>1, <1>6 DEF Escrowed, EscrowIsUnclaimed

\* A claim that pays takes the reward from both; the saved state held what it owed.
LEMMA EscrowedPays ==
  ASSUME IInv, Escrowed, NEW sender \in Accounts, NEW id \in Ids, NEW proof \in Inputs,
         NEW inputs \in Inputs, ClaimPays(sender, id, proof, inputs)
  PROVE  Escrowed'
<1> DEFINE new == Settled(bounties[id], sender)
<1>1. /\ ~ bounties[id].claimed
      /\ stack' = Append(stack, Saved)
      /\ bounties' = [bounties EXCEPT ![id] = new]
      /\ balance' = balance - bounties[id].reward
  BY DEF ClaimPays, ClaimError
<1>2. /\ bounties \in [Ids -> BountySlots] /\ bounties[id] \in BountySlots
      /\ stack \in Seq(Frames)
  BY DEF IInv, TypeOK, Frames
<1>3. new \in BountySlots /\ Owed(new) = 0 BY <1>2 DEF BountySlots, Settled, Owed
<1>4. Owed(bounties[id]) = bounties[id].reward /\ bounties[id].reward \in Nat
  BY <1>1, <1>2 DEF Owed, BountySlots
<1> HIDE DEF new
<1>5. /\ Unclaimed(bounties') = Unclaimed(bounties) - bounties[id].reward
      /\ Unclaimed(bounties) \in Nat
  <2>1. /\ Unclaimed(bounties) \in Nat
        /\ Unclaimed([bounties EXCEPT ![id] = new])
             = Unclaimed(bounties) - Owed(bounties[id]) + Owed(new)
    BY <1>2, <1>3, UnclaimedChanges, Zenon
  <2> QED BY <1>1, <1>3, <1>4, <2>1
<1>6. EscrowIsUnclaimed' BY <1>1, <1>5 DEF Escrowed, EscrowIsUnclaimed
<1>7. ASSUME NEW k \in 1..Len(stack')
      PROVE  stack'[k].balance = Unclaimed(stack'[k].bounties)
  <2>1. Saved \in Frames BY DEF Saved, Frames, IInv, TypeOK
  <2>2. CASE k \in 1..Len(stack)
    <3>1. stack'[k] = stack[k] BY <1>1, <1>2, <2>1, <2>2
    <3> QED BY <2>2, <3>1 DEF Escrowed
  <2>3. CASE k \notin 1..Len(stack)
    <3>1. stack'[k] = Saved BY <1>1, <1>2, <2>1, <2>3
    <3> QED BY <3>1 DEF Escrowed, EscrowIsUnclaimed, Saved
  <2> QED BY <2>2, <2>3
<1> QED BY <1>6, <1>7 DEF Escrowed

\* Every step keeps the escrow; a revert finds it in the frame it restores.
LEMMA EscrowedNext == IInv /\ Escrowed /\ [Next]_vars => Escrowed'
<1> SUFFICES ASSUME IInv, Escrowed, [Next]_vars PROVE Escrowed' OBVIOUS
<1>1. ASSUME UNCHANGED <<bounties, balance, stack>> PROVE Escrowed'
  BY <1>1 DEF Escrowed, EscrowIsUnclaimed
<1>2. CASE PostRefused BY <1>1, <1>2 DEF PostRefused
<1>3. ASSUME NEW sender \in Accounts, NEW value \in Values, NEW programHash \in Hashes,
             PostBounty(sender, value, programHash)
      PROVE  Escrowed'
  BY <1>3, EscrowedPost
<1>4. ASSUME NEW id \in Ids, NEW proof \in Inputs, NEW inputs \in Inputs,
             ClaimRefused(id, proof, inputs)
      PROVE  Escrowed'
  BY <1>1, <1>4 DEF ClaimRefused
<1>5. ASSUME NEW id \in Ids, NEW proof \in Inputs, NEW inputs \in Inputs,
             NEW sender \in Accounts, ClaimPays(sender, id, proof, inputs)
      PROVE  Escrowed'
  BY <1>5, EscrowedPays
<1>6. CASE RecipientAccepts
  <2>1. stack # << >> /\ stack' = SubSeq(stack, 1, Len(stack) - 1)
        /\ UNCHANGED <<bounties, balance>>
    BY <1>6 DEF RecipientAccepts
  <2>2. \A k \in 1..Len(stack') : k \in 1..Len(stack) /\ stack'[k] = stack[k]
    BY <2>1, CommittedAfterPop
  <2> QED BY <2>1, <2>2 DEF Escrowed, EscrowIsUnclaimed
<1>7. CASE RecipientReverts
  <2>1. /\ stack # << >> /\ stack' = SubSeq(stack, 1, Len(stack) - 1)
        /\ bounties' = stack[Len(stack)].bounties /\ balance' = stack[Len(stack)].balance
    BY <1>7 DEF RecipientReverts
  <2>2. /\ Len(stack) \in 1..Len(stack)
        /\ \A k \in 1..Len(stack') : k \in 1..Len(stack) /\ stack'[k] = stack[k]
    BY <2>1, CommittedAfterPop
  <2> QED BY <2>1, <2>2 DEF Escrowed, EscrowIsUnclaimed
<1>8. CASE UNCHANGED vars BY <1>1, <1>8 DEF vars
<1> QED BY <1>2, <1>3, <1>4, <1>5, <1>6, <1>7, <1>8 DEF Next

-----------------------------------------------------------------------------
(* The properties the run checks. *)

\* The contract holds exactly the rewards nobody has claimed, for any number of
\* bounties, while recipients have control and after they revert (Bounty.claim).
THEOREM EscrowSolvent == Spec => []EscrowIsUnclaimed
<1>1. IInv /\ Escrowed /\ [Next]_vars => Escrowed' BY EscrowedNext
<1>2. Escrowed => EscrowIsUnclaimed BY DEF Escrowed
<1> QED BY <1>1, <1>2, EscrowedInit, Invariance, PTL DEF Spec

\* Every variable keeps its type, and a bounty posted has a reward (Bounty.sol).
THEOREM TypeCorrect == Spec => []TypeOK
<1>1. IInv => TypeOK BY DEF IInv
<1> QED BY <1>1, Invariance, PTL

\* A bounty pays its reward once, at any depth of re-entrancy (Bounty.claim).
THEOREM PaysOnce == Spec => []PaidOnce
<1>1. IInv => PaidOnce BY DEF IInv, Good, Settles, PaidOnce
<1> QED BY <1>1, Invariance, PTL

\* No payment without a valid proof of the committed program (Bounty.claim,
\* ProvenoVerifier.verify).
THEOREM PaysForProof == Spec => []ClaimNeedsProof
<1>1. IInv => ClaimNeedsProof BY DEF IInv, Good, Backed, ClaimNeedsProof
<1> QED BY <1>1, Invariance, PTL

\* A completed claim is final (Bounty.postBounty, Bounty.claim).
THEOREM FinalClaims == Spec => ClaimIsFinal
<1>1. IInv /\ [Next]_vars =>
        [\A id \in Ids : Committed[id].claimed => bounties'[id] = Committed[id]]_vars
  BY IInvNext DEF Keeps
<1> QED BY <1>1, Invariance, PTL DEF Spec, ClaimIsFinal

-----------------------------------------------------------------------------
(* The board implements Escrow: what is in progress is one transaction. *)

\* What one transaction that knows these proofs can make of all the bounties.
OneTransaction(c, w, b, p, known) ==
  \A id \in Ids : Promise!Becomes(c[id], w[id], b[id], p[id], known)

\* The present state, and every state a revert may restore, is what the
\* transaction in progress has made of the committed one so far.
InProgress ==
  /\ OneTransaction(Committed, CommittedPaid, bounties, paid, proved)
  /\ \A k \in 1..Len(stack) :
       OneTransaction(Committed, CommittedPaid, stack[k].bounties, stack[k].paid, proved)

\* A transaction may do nothing, and more proofs do not undo it.
LEMMA TransactionsGrow ==
  ASSUME NEW c, NEW w, NEW b, NEW p, NEW known, NEW more, known \subseteq more
  PROVE  /\ OneTransaction(c, w, c, w, known)
         /\ OneTransaction(c, w, b, p, known) => OneTransaction(c, w, b, p, more)
BY DEF OneTransaction, Promise!Becomes, Promise!Untouched, Promise!Claimed

\* What was claimed in a transaction is claimed after it.
LEMMA ClaimedIsClaimed ==
  ASSUME NEW old \in BountySlots, NEW new, NEW is, NEW known,
         Promise!Claimed(old, new, is, known)
  PROVE  new.claimed
<1>1. PICK offer \in IF old = Promise!Nobody THEN Promise!Offers ELSE {old},
           solver \in Accounts : new = Promise!Taken(offer, solver)
  BY DEF Promise!Claimed
<1>2. "claimed" \in DOMAIN offer
  <2>1. CASE offer = old BY <2>1 DEF BountySlots
  <2>2. CASE offer \in Promise!Offers BY <2>2 DEF Promise!Offers, Promise!Slot
  <2> QED BY <2>1, <2>2
<1> QED BY <1>1, <1>2 DEF Promise!Taken

\* What a poster puts on the board is an offer.
LEMMA PostedIsOffer ==
  ASSUME NEW poster \in Accounts, NEW reward \in Values \ {0}, NEW programHash \in Hashes
  PROVE  Promise!Slot(poster, reward, programHash, FALSE, NoAccount) \in Promise!Offers
BY DEF Promise!Offers, Promise!Slot

\* A transaction that goes on to post a bounty.
LEMMA PostGoesOn ==
  ASSUME IInv, NEW c \in [Ids -> BountySlots], NEW w,
         OneTransaction(c, w, bounties, paid, proved),
         NEW sender \in Accounts, NEW value \in Values, NEW programHash \in Hashes,
         PostBounty(sender, value, programHash)
  PROVE  OneTransaction(c, w, bounties', paid', proved')
<1> DEFINE new == Promise!Slot(sender, value, programHash, FALSE, NoAccount)
<1>1. /\ value > 0 /\ value \in Nat /\ nextId \in Ids
      /\ bounties' = [bounties EXCEPT ![nextId] = new] /\ UNCHANGED <<paid, proved>>
      /\ bounties \in [Ids -> BountySlots] /\ ~ (nextId < nextId)
  BY BountyAssumption DEF PostBounty, Promise!Slot, IInv, TypeOK, Ids
<1>2. \A id \in Ids : bounties'[id] = IF id = nextId THEN new ELSE bounties[id] BY <1>1
<1>3. new \in Promise!Offers
  <2>1. value \in Values \ {0} BY <1>1
  <2> QED BY <2>1, PostedIsOffer
<1>4. bounties[nextId] = Promise!Nobody
  BY <1>1 DEF IInv, Good, Posted, Empty, Promise!Nobody, Promise!Slot
<1>5. /\ ~ Promise!Nobody.claimed
      /\ \A offer \in Promise!Offers : offer.reward # Promise!Nobody.reward
  BY DEF Promise!Offers, Promise!Nobody, Promise!Slot
<1> HIDE DEF new
<1>6. c[nextId] = Promise!Nobody /\ paid[nextId] = w[nextId]
  <2>1. Promise!Becomes(c[nextId], w[nextId], bounties[nextId], paid[nextId], proved)
    BY <1>1 DEF OneTransaction
  <2>2. ~ Promise!Claimed(c[nextId], bounties[nextId], paid[nextId], proved)
    BY <1>1, <1>4, <1>5, ClaimedIsClaimed
  <2>3. ~ Promise!Offered(c[nextId], w[nextId], bounties[nextId], paid[nextId])
    BY <1>4, <1>5 DEF Promise!Offered
  <2> QED BY <1>4, <2>1, <2>2, <2>3 DEF Promise!Becomes, Promise!Untouched
<1>7. Promise!Becomes(c[nextId], w[nextId], new, paid[nextId], proved)
  BY <1>3, <1>6 DEF Promise!Becomes, Promise!Offered
<1> QED BY <1>1, <1>2, <1>7 DEF OneTransaction

\* A transaction that goes on to pay a claim.
LEMMA PaysGoesOn ==
  ASSUME IInv, NEW c \in [Ids -> BountySlots], NEW w,
         OneTransaction(c, w, bounties, paid, proved),
         NEW sender \in Accounts, NEW id \in Ids, NEW proof \in Inputs, NEW inputs \in Inputs,
         ClaimPays(sender, id, proof, inputs)
  PROVE  OneTransaction(c, w, bounties', paid', proved')
<1> DEFINE b == bounties[id]
           new == Settled(b, sender)
<1>1. PICK answer \in HonkAnswers(proof, inputs) : ClaimError(id, answer, inputs) = "none"
  BY DEF ClaimPays
<1>2. /\ ~ b.claimed /\ inputs.programHash = b.programHash
      /\ inputs.policyHash = ExpectedPolicyHash /\ proof = inputs
  BY <1>1 DEF ClaimError, VerifyError, HonkAnswers
<1>3. /\ bounties' = [bounties EXCEPT ![id] = new]
      /\ paid' = [paid EXCEPT ![id] = @ + b.reward]
      /\ proved' = proved \cup {b.programHash}
  BY <1>2 DEF ClaimPays, Submitted
<1>4. /\ bounties \in [Ids -> BountySlots] /\ b \in BountySlots /\ paid \in [Ids -> Nat]
      /\ b.programHash \in Hashes /\ paid[id] = 0
  BY <1>2 DEF IInv, TypeOK, Good, Settles, Inputs
<1>5. b.reward \in Nat BY <1>4 DEF BountySlots
<1>6. \A i \in Ids : /\ bounties'[i] = IF i = id THEN new ELSE bounties[i]
                     /\ paid'[i] = IF i = id THEN b.reward ELSE paid[i]
  BY <1>3, <1>4, <1>5
<1>7. new = Promise!Taken(b, sender) BY DEF Settled, Promise!Taken
<1>8. b # Promise!Nobody
  BY <1>4, BountyAssumption DEF Promise!Nobody, Promise!Slot
<1> HIDE DEF b, new
<1>9. Promise!Becomes(c[id], w[id], b, 0, proved) BY <1>4 DEF OneTransaction, b
<1>10. Promise!Becomes(c[id], w[id], new, b.reward, proved')
  <2>1. ASSUME b \in IF c[id] = Promise!Nobody THEN Promise!Offers ELSE {c[id]}
        PROVE  Promise!Claimed(c[id], new, b.reward, proved')
    BY <1>2, <1>3, <1>7, <2>1 DEF Promise!Claimed, b
  <2>2. b \in IF c[id] = Promise!Nobody THEN Promise!Offers ELSE {c[id]}
    <3>1. CASE b = c[id] BY <1>8, <3>1
    <3>2. CASE c[id] = Promise!Nobody /\ b \in Promise!Offers BY <3>2
    <3>3. ~ Promise!Claimed(c[id], b, 0, proved) BY <1>2, ClaimedIsClaimed DEF b
    <3> QED BY <1>9, <3>1, <3>2, <3>3 DEF Promise!Becomes, Promise!Untouched, Promise!Offered
  <2> QED BY <2>1, <2>2 DEF Promise!Becomes
<1>11. OneTransaction(c, w, bounties, paid, proved') BY <1>3, TransactionsGrow
<1> QED BY <1>6, <1>10, <1>11 DEF OneTransaction, new, b

\* What the committed state and the saved ones are after a step.
LEMMA StepOfStack ==
  ASSUME IInv, [Next]_vars
  PROVE  /\ \/ stack' = << >> /\ Committed' = bounties' /\ CommittedPaid' = paid'
            \/ Committed' = Committed /\ CommittedPaid' = CommittedPaid
         /\ \A k \in 1..Len(stack') :
              \/ k \in 1..Len(stack) /\ stack'[k] = stack[k]
              \/ stack'[k].bounties = bounties /\ stack'[k].paid = paid
         /\ proved \subseteq proved'
<1>1. stack \in Seq(Frames) BY DEF IInv, TypeOK, Frames
<1>2. CASE UNCHANGED stack /\ proved \subseteq proved'
  BY <1>2 DEF Committed, CommittedPaid
<1>3. ASSUME NEW sender \in Accounts, NEW id \in Ids, NEW proof \in Inputs,
             NEW inputs \in Inputs, ClaimPays(sender, id, proof, inputs)
      PROVE  /\ Committed' = Committed /\ CommittedPaid' = CommittedPaid
             /\ \A k \in 1..Len(stack') :
                  \/ k \in 1..Len(stack) /\ stack'[k] = stack[k]
                  \/ stack'[k].bounties = bounties /\ stack'[k].paid = paid
             /\ proved \subseteq proved'
  <2>1. stack' = Append(stack, Saved) /\ proved \subseteq proved'
    BY <1>3 DEF ClaimPays, Submitted
  <2>2. Saved.bounties = bounties /\ Saved.paid = paid BY DEF Saved
  <2>3. Saved \in Frames BY DEF Saved, Frames, IInv, TypeOK
  <2> HIDE DEF Saved
  <2>4. /\ Len(stack') = Len(stack) + 1 /\ Len(stack) \in Nat /\ stack' # << >>
        /\ \A k \in 1..Len(stack) : stack'[k] = stack[k]
        /\ stack'[Len(stack) + 1] = Saved
    BY <1>1, <2>1, <2>3
  <2>5. stack # << >> => stack'[1] = stack[1] BY <1>1, <2>4
  <2>6. stack = << >> => stack'[1] = Saved BY <1>1, <2>4
  <2>7. Committed' = Committed /\ CommittedPaid' = CommittedPaid
    BY <2>2, <2>4, <2>5, <2>6 DEF Committed, CommittedPaid
  <2>8. ASSUME NEW k \in 1..Len(stack')
        PROVE  \/ k \in 1..Len(stack) /\ stack'[k] = stack[k]
               \/ stack'[k].bounties = bounties /\ stack'[k].paid = paid
    <3>1. CASE k = Len(stack) + 1 BY <2>2, <2>4, <3>1
    <3>2. CASE k # Len(stack) + 1
      <4>1. k \in 1..Len(stack) BY <2>4, <3>2
      <4> QED BY <2>4, <4>1
    <3> QED BY <3>1, <3>2
  <2> QED BY <2>1, <2>7, <2>8
<1>4. CASE RecipientAccepts \/ RecipientReverts
  <2>1. stack # << >> /\ stack' = SubSeq(stack, 1, Len(stack) - 1) /\ proved' = proved
    BY <1>4 DEF RecipientAccepts, RecipientReverts
  <2>2. /\ Len(stack) \in Nat /\ Len(stack) >= 1 /\ Len(stack') = Len(stack) - 1
        /\ stack' \in Seq(Frames)
        /\ \A k \in 1..Len(stack') : stack'[k] = stack[k]
    BY <2>1, CommittedAfterPop
  <2>3. CASE Len(stack) = 1
    <3>1. stack' = << >> BY <2>2, <2>3
    <3> QED BY <2>1, <2>2, <3>1 DEF Committed, CommittedPaid
  <2>4. CASE Len(stack) # 1
    <3>1. 1 \in 1..Len(stack') /\ stack' # << >>
      <4>1. Len(stack') # 0 /\ 1 <= Len(stack') BY <2>2, <2>4
      <4> QED BY <2>2, <4>1
    <3>2. stack'[1] = stack[1] BY <2>2, <3>1
    <3>3. Committed' = Committed /\ CommittedPaid' = CommittedPaid
      BY <2>1, <3>1, <3>2 DEF Committed, CommittedPaid
    <3>4. \A k \in 1..Len(stack') : k \in 1..Len(stack) BY <2>2
    <3> QED BY <2>1, <2>2, <3>3, <3>4
  <2> QED BY <2>3, <2>4
<1>5. CASE PostRefused BY <1>2, <1>5 DEF PostRefused
<1>6. ASSUME NEW sender, NEW value, NEW programHash, PostBounty(sender, value, programHash)
      PROVE  UNCHANGED stack /\ proved \subseteq proved'
  BY <1>6 DEF PostBounty
<1>7. ASSUME NEW id, NEW proof, NEW inputs, ClaimRefused(id, proof, inputs)
      PROVE  UNCHANGED stack /\ proved \subseteq proved'
  BY <1>7 DEF ClaimRefused, Submitted
<1>8. CASE UNCHANGED vars BY <1>2, <1>8 DEF vars
<1> QED BY <1>2, <1>3, <1>4, <1>5, <1>6, <1>7, <1>8 DEF Next

\* Seen from the committed state, each step goes on with the transaction.
LEMMA StepGoesOn ==
  ASSUME IInv, InProgress, [Next]_vars
  PROVE  OneTransaction(Committed, CommittedPaid, bounties', paid', proved')
<1> DEFINE c == Committed
           w == CommittedPaid
<1>1. OneTransaction(c, w, bounties, paid, proved) /\ c \in [Ids -> BountySlots]
  <2>1. Committed \in [Ids -> BountySlots]
    <3>1. CASE stack = << >> BY <3>1 DEF Committed, IInv, TypeOK
    <3>2. CASE stack # << >>
      <4>1. stack \in Seq(Frames) BY DEF IInv, TypeOK, Frames
      <4>2. stack[1] \in Frames BY <3>2, <4>1
      <4> QED BY <3>2, <4>2 DEF Committed, Frames
    <3> QED BY <3>1, <3>2
  <2> QED BY <2>1 DEF InProgress
<1> HIDE DEF c, w
<1>2. proved \subseteq proved' BY StepOfStack
<1>3. ASSUME UNCHANGED <<bounties, paid>>
      PROVE  OneTransaction(c, w, bounties', paid', proved')
  <2>1. OneTransaction(c, w, bounties, paid, proved') BY <1>1, <1>2, TransactionsGrow
  <2> QED BY <1>3, <2>1
<1>4. ASSUME NEW sender \in Accounts, NEW value \in Values, NEW programHash \in Hashes,
             PostBounty(sender, value, programHash)
      PROVE  OneTransaction(c, w, bounties', paid', proved')
  BY <1>1, <1>4, PostGoesOn
<1>5. ASSUME NEW sender \in Accounts, NEW id \in Ids, NEW proof \in Inputs,
             NEW inputs \in Inputs, ClaimPays(sender, id, proof, inputs)
      PROVE  OneTransaction(c, w, bounties', paid', proved')
  BY <1>1, <1>5, PaysGoesOn
<1>6. ASSUME RecipientReverts PROVE OneTransaction(c, w, bounties', paid', proved')
  <2> DEFINE n == Len(stack)
  <2>1. n \in 1..n
    <3>1. stack \in Seq(Frames) /\ stack # << >>
      BY <1>6 DEF RecipientReverts, IInv, TypeOK, Frames
    <3> QED BY <3>1, Popped
  <2>2. bounties' = stack[n].bounties /\ paid' = stack[n].paid /\ proved' = proved
    BY <1>6 DEF RecipientReverts
  <2> QED BY <2>1, <2>2 DEF InProgress, c, w
<1>7. ASSUME RecipientAccepts PROVE OneTransaction(c, w, bounties', paid', proved')
  BY <1>3, <1>7 DEF RecipientAccepts
<1>8. ASSUME PostRefused PROVE OneTransaction(c, w, bounties', paid', proved')
  BY <1>3, <1>8 DEF PostRefused
<1>9. ASSUME NEW id, NEW proof, NEW inputs, ClaimRefused(id, proof, inputs)
      PROVE  OneTransaction(c, w, bounties', paid', proved')
  BY <1>3, <1>9 DEF ClaimRefused
<1>10. ASSUME UNCHANGED vars PROVE OneTransaction(c, w, bounties', paid', proved')
  BY <1>3, <1>10 DEF vars
<1>11. OneTransaction(c, w, bounties', paid', proved')
  BY <1>3, <1>4, <1>5, <1>6, <1>7, <1>8, <1>9, <1>10 DEF Next
<1> QED BY <1>11 DEF c, w

\* Each step keeps what is in progress one transaction.
LEMMA InProgressNext == IInv /\ InProgress /\ [Next]_vars => InProgress'
<1> SUFFICES ASSUME IInv, InProgress, [Next]_vars PROVE InProgress' OBVIOUS
<1>1. CASE stack' = << >> /\ Committed' = bounties' /\ CommittedPaid' = paid'
  <2>1. OneTransaction(bounties', paid', bounties', paid', proved') BY TransactionsGrow
  <2> QED BY <1>1, <2>1 DEF InProgress, OneTransaction
<1>2. CASE Committed' = Committed /\ CommittedPaid' = CommittedPaid
  <2> DEFINE c == Committed
             w == CommittedPaid
  <2>1. OneTransaction(c, w, bounties', paid', proved') BY StepGoesOn
  <2>2. ASSUME NEW k \in 1..Len(stack')
        PROVE  OneTransaction(c, w, stack'[k].bounties, stack'[k].paid, proved')
    <3>1. proved \subseteq proved' BY StepOfStack
    <3>2. CASE k \in 1..Len(stack) /\ stack'[k] = stack[k]
      <4>1. OneTransaction(c, w, stack[k].bounties, stack[k].paid, proved)
        BY <3>2 DEF InProgress
      <4> HIDE DEF c, w
      <4> QED BY <3>1, <3>2, <4>1, TransactionsGrow
    <3>3. CASE stack'[k].bounties = bounties /\ stack'[k].paid = paid
      <4>1. OneTransaction(c, w, bounties, paid, proved) BY DEF InProgress
      <4> HIDE DEF c, w
      <4> QED BY <3>1, <3>3, <4>1, TransactionsGrow
    <3> QED BY <3>2, <3>3, StepOfStack
  <2> QED BY <1>2, <2>1, <2>2 DEF InProgress, OneTransaction
<1> QED BY <1>1, <1>2, StepOfStack

\* The initial state is that of an empty board.
LEMMA InProgressInit == Init => InProgress /\ Promise!Init
<1> SUFFICES ASSUME Init PROVE InProgress /\ Promise!Init OBVIOUS
<1>1. stack = << >> /\ Committed = bounties /\ CommittedPaid = paid /\ proved = {}
      /\ bounties = [id \in Ids |-> Empty] /\ paid = [id \in Ids |-> 0]
  BY DEF Init, Committed, CommittedPaid
<1>2. InProgress BY <1>1, TransactionsGrow DEF InProgress
<1>3. Promise!Init
  BY <1>1 DEF Promise!Init, Promise!Ids, Ids, Promise!Nobody, Promise!Slot, Empty
<1> QED BY <1>2, <1>3

\* Each step is a transaction, or part of one that is not yet to be seen.
LEMMA StepRefines ==
  ASSUME IInv, IInv', InProgress, [Next]_vars
  PROVE  [Promise!Transaction]_(Promise!vars)
<1>1. proved \subseteq proved' BY StepOfStack
<1>2. OneTransaction(Committed, CommittedPaid, Committed', CommittedPaid', proved')
  <2>1. CASE Committed' = Committed /\ CommittedPaid' = CommittedPaid
    <3>1. OneTransaction(Committed, CommittedPaid, Committed, CommittedPaid, proved')
      BY TransactionsGrow
    <3> QED BY <2>1, <3>1
  <2>2. CASE Committed' = bounties' /\ CommittedPaid' = paid' BY <2>2, StepGoesOn
  <2> QED BY <2>1, <2>2, StepOfStack
<1>3. PICK n \in Ids : Posted(Committed', n) /\ Committed' \in [Ids -> BountySlots]
                      /\ CommittedPaid' \in [Ids -> Nat]
  <2>1. CASE stack' = << >>
    BY <2>1 DEF IInv, Good, TypeOK, Committed, CommittedPaid
  <2>2. CASE stack' # << >>
    <3>1. stack' \in Seq(Frames) BY DEF IInv, TypeOK, Frames
    <3>2. 1 \in 1..Len(stack') /\ stack'[1] \in Frames BY <2>2, <3>1
    <3>3. Posted(stack'[1].bounties, stack'[1].nextId) BY <3>2 DEF IInv, Good
    <3> QED BY <2>2, <3>2, <3>3 DEF Committed, CommittedPaid, Frames
  <2> QED BY <2>1, <2>2
<1>4. \A id \in Ids \ {0} :
        Committed'[id] # Promise!Nobody => Committed'[id - 1] # Promise!Nobody
  <2> SUFFICES ASSUME NEW id \in Ids \ {0}, Committed'[id] # Promise!Nobody
               PROVE  Committed'[id - 1] # Promise!Nobody
    OBVIOUS
  <2>1. id \in Nat /\ id - 1 \in Ids /\ n \in Nat BY BountyAssumption DEF Ids
  <2>2. Promise!Nobody = Empty BY DEF Promise!Nobody, Promise!Slot, Empty
  <2>3. id < n BY <1>3, <2>2 DEF Posted
  <2>4. Committed'[id - 1].reward > 0
    <3>1. id - 1 < n BY <2>1, <2>3
    <3> QED BY <1>3, <2>1, <3>1 DEF Posted
  <2> QED BY <2>2, <2>4 DEF Empty
<1>5. DOMAIN Committed' = Ids /\ DOMAIN CommittedPaid' = Ids BY <1>3
<1>6. Ids = Promise!Ids BY DEF Ids, Promise!Ids
<1> QED BY <1>1, <1>2, <1>4, <1>5, <1>6 DEF OneTransaction, Promise!Transaction

\* Transactions are atomic: whatever recipients call back and whatever is undone,
\* from one completed transaction to the next the board does what Escrow says
\* (Bounty.sol:42-83).
THEOREM BoardImplementsEscrow == Spec => ImplementsEscrow
<1>1. IInv /\ InProgress /\ [Next]_vars => InProgress' BY InProgressNext
<1>2. IInv /\ IInv' /\ InProgress /\ [Next]_vars => [Promise!Transaction]_(Promise!vars)
  BY StepRefines
<1>3. Spec => [](IInv /\ InProgress) BY <1>1, InProgressInit, Invariance, PTL DEF Spec
<1> QED BY <1>2, <1>3, InProgressInit, PTL DEF Spec, ImplementsEscrow, Promise!Spec

-----------------------------------------------------------------------------
(* The board and the consumer. *)

\* The inductive invariant: one saved number for each payment in progress.
ChainInv ==
  /\ lastResult \in Int
  /\ results \in Seq(Int)
  /\ stack \in Seq([bounties : [Ids -> BountySlots], nextId : Ids, balance : Nat,
                    paid : [Ids -> Nat]])
  /\ Len(results) = Len(stack)
  /\ ConsumedIsProven

-----------------------------------------------------------------------------
\* Every step is a step of the bounty board, or none of it.
LEMMA ChainStepsBoard == [ChainNext]_chainVars => [Next]_vars
<1> SUFFICES ASSUME [ChainNext]_chainVars PROVE [Next]_vars OBVIOUS
<1>1. CASE BoardCall /\ UNCHANGED consumerVars BY <1>1 DEF BoardCall, Next
<1>2. CASE PaymentBegins BY <1>2 DEF PaymentBegins, Next
<1>3. CASE PaymentAccepted BY <1>3 DEF PaymentAccepted, Next
<1>4. CASE PaymentReverted BY <1>4 DEF PaymentReverted, Next
<1>5. ASSUME NEW proof \in ResultProofs, NEW inputs \in ResultInputs,
             NEW payload \in Payloads, consumeResult(proof, inputs, payload)
      PROVE  UNCHANGED vars
  BY <1>5 DEF consumeResult
<1>6. CASE UNCHANGED chainVars BY <1>6 DEF chainVars
<1> QED BY <1>1, <1>2, <1>3, <1>4, <1>5, <1>6 DEF ChainNext

\* Deployed next to the consumer, the bounty board is the one of Bounty: all
\* that is proved of it there holds here (Deploy.s.sol:17-20).
THEOREM BoardIsBounty == ChainSpec => Spec
<1>1. Deployed => Init BY DEF Deployed
<1> QED BY <1>1, ChainStepsBoard, PTL DEF ChainSpec, Spec

-----------------------------------------------------------------------------
\* An int64 that is encoded is decoded as itself, sign included.
LEMMA DecodesWhatIsEncoded ==
  ASSUME NEW n \in Results
  PROVE  Decoded(abi_encode_int256(n)) = n
<1>1. n \in Int /\ -HalfInt64 <= n /\ n < HalfInt64 BY OnChainAssumption
<1>2. HalfInt64 \in Nat /\ HalfWord \in Nat /\ HalfInt64 <= HalfWord BY OnChainAssumption
<1> QED BY <1>1, <1>2 DEF Decoded, abi_encode_int256

\* Two int64s are the same uint64 only if they are the same.
LEMMA PackKeepsApart ==
  ASSUME NEW inputs \in ResultInputs, NEW other \in [policyHash : PolicyHashes,
           returnValue : Results, outputHash : Int], Pack(inputs) = Pack(other)
  PROVE  inputs.returnValue = other.returnValue /\ inputs.outputHash = other.outputHash
<1> DEFINE Cast(n) == IF n < 0 THEN n + 2 * HalfInt64 ELSE n
<1>1. Pack(inputs).returnValue = Cast(inputs.returnValue) BY DEF Pack, ResultInputs
<1>2. Pack(other).returnValue = Cast(other.returnValue) BY DEF Pack
<1>3. Pack(inputs).outputHash = inputs.outputHash BY DEF Pack, ResultInputs
<1>4. Pack(other).outputHash = other.outputHash BY DEF Pack
<1>5. \A n \in Results : n \in Int /\ -HalfInt64 <= n /\ n < HalfInt64 BY OnChainAssumption
<1>6. inputs.returnValue \in Results /\ other.returnValue \in Results BY DEF ResultInputs
<1>7. Cast(inputs.returnValue) = Cast(other.returnValue) BY <1>1, <1>2
<1>8. ASSUME NEW n \in Results, NEW m \in Results, Cast(n) = Cast(m)
      PROVE  n = m
  BY <1>5, <1>8, OnChainAssumption
<1> HIDE DEF Cast
<1> QED BY <1>3, <1>4, <1>6, <1>7, <1>8

\* What is consumed was proved: the payload is the encoding of the return value
\* the proof binds.
LEMMA ConsumesProven ==
  ASSUME NEW proof \in ResultProofs, NEW inputs \in ResultInputs, NEW payload \in Payloads,
         consumeResult(proof, inputs, payload)
  PROVE  /\ inputs.returnValue \in Int
         /\ Decoded(payload) = inputs.returnValue
         /\ inputs.returnValue \in proven'
         /\ proven \subseteq proven'
<1>1. PICK answer \in HonkAnswers(proof, Pack(inputs)) :
        ConsumeError(answer, inputs, payload) = "none"
  BY DEF consumeResult
<1>2. VerifyError(answer, inputs) = "none" /\ payload = inputs.outputHash
  BY <1>1 DEF ConsumeError
<1>3. inputs.policyHash = ExpectedPolicyHash /\ answer = "true"
  BY <1>2 DEF VerifyError
<1>4. proof = Pack(inputs) BY <1>1, <1>3 DEF HonkAnswers
<1>5. PICK policy \in PolicyHashes, n \in Results :
        proof = Pack([policyHash |-> policy, returnValue |-> n,
                      outputHash |-> abi_encode_int256(n)])
  BY DEF ResultProofs
<1>6. abi_encode_int256(n) \in Int BY OnChainAssumption DEF abi_encode_int256
<1>7. inputs.returnValue = n /\ inputs.outputHash = abi_encode_int256(n)
  BY <1>4, <1>5, <1>6, PackKeepsApart
<1>8. Decoded(payload) = inputs.returnValue BY <1>2, <1>7, DecodesWhatIsEncoded
<1> QED BY <1>3, <1>4, <1>7, <1>8, OnChainAssumption DEF consumeResult

\* The invariant holds initially.
LEMMA ChainInvInit == Deployed => ChainInv
BY DEF Deployed, Init, ChainInv, ConsumedIsProven

\* A payment begins: the number is saved.
LEMMA ChainInvBegins == ChainInv /\ IInv' /\ PaymentBegins => ChainInv'
<1> SUFFICES ASSUME ChainInv, IInv', PaymentBegins PROVE ChainInv' OBVIOUS
<1>1. PICK id \in Ids, proof \in Inputs, inputs \in Inputs, sender \in Accounts :
        ClaimPays(sender, id, proof, inputs)
  BY DEF PaymentBegins
<1>2. stack' = Append(stack, Saved) BY <1>1 DEF ClaimPays
<1>3. results' = Append(results, lastResult) /\ UNCHANGED <<lastResult, proven>>
  BY DEF PaymentBegins
<1>4. stack' \in Seq([bounties : [Ids -> BountySlots], nextId : Ids, balance : Nat,
                      paid : [Ids -> Nat]])
  BY DEF IInv, TypeOK
<1>5. results' \in Seq(Int) /\ Len(results') = Len(stack') BY <1>2, <1>3 DEF ChainInv
<1>6. \A i \in DOMAIN results' :
        results'[i] = IF i <= Len(results) THEN results[i] ELSE lastResult
  BY <1>3 DEF ChainInv
<1>7. \A i \in DOMAIN results' : i <= Len(results) => i \in DOMAIN results
  BY <1>5 DEF ChainInv
<1> QED BY <1>3, <1>4, <1>5, <1>6, <1>7 DEF ChainInv, ConsumedIsProven

\* A payment ends: the last saved number is dropped, or comes back.
LEMMA ChainInvEnds ==
  ChainInv /\ IInv' /\ (PaymentAccepted \/ PaymentReverted) => ChainInv'
<1> SUFFICES ASSUME ChainInv, IInv', PaymentAccepted \/ PaymentReverted PROVE ChainInv'
  OBVIOUS
<1>1. stack # << >> /\ stack' = SubSeq(stack, 1, Len(stack) - 1)
  BY DEF PaymentAccepted, PaymentReverted, RecipientAccepts, RecipientReverts
<1>2. results' = SubSeq(results, 1, Len(results) - 1) /\ UNCHANGED proven
  BY DEF PaymentAccepted, PaymentReverted
<1>3. stack' \in Seq([bounties : [Ids -> BountySlots], nextId : Ids, balance : Nat,
                      paid : [Ids -> Nat]])
  BY DEF IInv, TypeOK
<1>4. Len(results) \in Nat /\ Len(results) >= 1 BY <1>1 DEF ChainInv
<1>5. results' \in Seq(Int) /\ Len(results') = Len(stack') BY <1>1, <1>2, <1>4 DEF ChainInv
<1>6. \A i \in DOMAIN results' : i \in DOMAIN results /\ results'[i] = results[i]
  <2>1. results \in Seq(Int) BY DEF ChainInv
  <2>2. DOMAIN results = 1..Len(results) BY <2>1
  <2>3. DOMAIN results' = 1..Len(results) - 1 BY <1>2, <1>4, <2>1
  <2>4. \A i \in 1..Len(results) - 1 : results'[i] = results[i] BY <1>2, <1>4, <2>1
  <2> QED BY <1>4, <2>2, <2>3, <2>4
<1>7. lastResult' \in {lastResult, results[Len(results)]}
  BY DEF PaymentAccepted, PaymentReverted
<1>8. Len(results) \in DOMAIN results BY <1>4 DEF ChainInv
<1>9. lastResult' \in Int /\ (lastResult' = 0 \/ lastResult' \in proven)
  BY <1>7, <1>8 DEF ChainInv, ConsumedIsProven
<1> QED BY <1>2, <1>3, <1>5, <1>6, <1>9 DEF ChainInv, ConsumedIsProven

\* Each step keeps the invariant.
LEMMA ChainInvNext == ChainInv /\ IInv' /\ [ChainNext]_chainVars => ChainInv'
<1> SUFFICES ASSUME ChainInv, IInv', [ChainNext]_chainVars PROVE ChainInv' OBVIOUS
<1>1. CASE BoardCall /\ UNCHANGED consumerVars
  <2>1. UNCHANGED stack
    BY <1>1 DEF BoardCall, PostRefused, PostBounty, ClaimRefused
  <2> QED BY <1>1, <2>1 DEF ChainInv, ConsumedIsProven, consumerVars
<1>2. CASE PaymentBegins BY <1>2, ChainInvBegins
<1>3. CASE PaymentAccepted \/ PaymentReverted BY <1>3, ChainInvEnds
<1>4. ASSUME NEW proof \in ResultProofs, NEW inputs \in ResultInputs,
             NEW payload \in Payloads, consumeResult(proof, inputs, payload)
      PROVE  ChainInv'
  <2>1. UNCHANGED <<stack, results>> /\ lastResult' = Decoded(payload)
    BY <1>4 DEF consumeResult, vars
  <2> QED BY <1>4, <2>1, ConsumesProven DEF ChainInv, ConsumedIsProven
<1>5. CASE UNCHANGED chainVars
  BY <1>5 DEF ChainInv, ConsumedIsProven, chainVars, vars, consumerVars
<1> QED BY <1>1, <1>2, <1>3, <1>4, <1>5 DEF ChainNext

\* The consumer never stores a number nobody proved under the expected policy,
\* sign included, through re-entrancy and reverts (ProvenoConsumer.sol:24-48).
THEOREM ConsumesOnlyProven == ChainSpec => []ConsumedIsProven
<1>1. Deployed => ChainInv BY ChainInvInit
<1>2. ChainInv /\ IInv' /\ [ChainNext]_chainVars => ChainInv' BY ChainInvNext
<1>3. ChainInv => ConsumedIsProven BY DEF ChainInv
<1>4. ChainSpec => []IInv BY BoardIsBounty, Invariance, PTL
<1> QED BY <1>1, <1>2, <1>3, <1>4, PTL DEF ChainSpec
=============================================================================

------------------------------- MODULE Escrow -------------------------------
(***************************************************************************)
(* What posters and solvers are promised by the bounty board, transaction  *)
(* by transaction, with no recipients that call back and no reverts in     *)
(* sight: what is offered stays on offer, on the poster's terms, until one *)
(* solver with a proof of that program takes it, and the solver is paid    *)
(* the whole reward in the same transaction.  A transaction may make many  *)
(* calls, and happens entirely or not at all.  Bounty implements it.       *)
(***************************************************************************)
EXTENDS Naturals

CONSTANTS Accounts, NoAccount, Hashes, NoHash, Values, MaxBounties

VARIABLES
  slots,  \* the bounties
  paid,   \* what was sent out for each
  proved  \* the programs somebody submitted a valid proof of

vars == <<slots, paid, proved>>

Ids == 0..MaxBounties

Slot(poster, reward, programHash, claimed, solver) ==
  [poster |-> poster, reward |-> reward, programHash |-> programHash,
   claimed |-> claimed, solver |-> solver]

Nobody == Slot(NoAccount, 0, NoHash, FALSE, NoAccount)

\* Somebody has put a reward on a program.
Offers ==
  [poster : Accounts, reward : Values \ {0}, programHash : Hashes,
   claimed : {FALSE}, solver : {NoAccount}]

Taken(offer, solver) == [offer EXCEPT !.claimed = TRUE, !.solver = solver]

\* One bounty and what was sent out for it, before and after a transaction that
\* knows these proofs.  What is claimed was on offer, or was put on offer in the
\* same transaction.
Untouched(old, was, new, is) == new = old /\ is = was
Offered(old, was, new, is) == old = Nobody /\ new \in Offers /\ is = was
Claimed(old, new, is, known) ==
  \E offer \in IF old = Nobody THEN Offers ELSE {old}, solver \in Accounts :
    /\ ~ offer.claimed /\ offer.programHash \in known
    /\ new = Taken(offer, solver)
    /\ is = offer.reward

Becomes(old, was, new, is, known) ==
  Untouched(old, was, new, is) \/ Offered(old, was, new, is) \/ Claimed(old, new, is, known)

Init ==
  /\ slots = [id \in Ids |-> Nobody]
  /\ paid = [id \in Ids |-> 0]
  /\ proved = {}

Transaction ==
  /\ \A id \in Ids : Becomes(slots[id], paid[id], slots'[id], paid'[id], proved')
  /\ proved \subseteq proved'
  /\ DOMAIN slots' = Ids /\ DOMAIN paid' = Ids
  /\ \A id \in Ids \ {0} : slots'[id] # Nobody => slots'[id - 1] # Nobody

Spec == Init /\ [][Transaction]_vars
=============================================================================

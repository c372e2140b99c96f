----------------------------- MODULE MCOnChain -----------------------------
(* Instances of OnChain for TLC. *)
EXTENDS OnChain, TLC

CONSTANTS alice, bob, prog1, prog2

MCAccounts == {alice, bob}
MCHashes == {prog1, prog2}

\* Accounts and programs are compared for equality only.
MCSymmetry == Permutations(MCAccounts) \cup Permutations(MCHashes)

MCResults == {-1, 1}
\* 1, -1, and -1 without its sign.
MCPayloads == {1, 7, 3}
=============================================================================

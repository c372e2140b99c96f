------------------------------ MODULE MCBounty ------------------------------
(* Instances of Bounty for TLC. *)
EXTENDS Bounty

CONSTANTS alice, bob

MCAccounts == {alice, bob}
=============================================================================

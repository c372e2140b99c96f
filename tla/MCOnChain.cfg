CONSTANTS
  alice = alice
  bob = bob
  Accounts <- MCAccounts
  NoAccount = NoAccount
  prog1 = prog1
  prog2 = prog2
  Hashes <- MCHashes
  NoHash = NoHash
  PolicyHashes = {expected, lax}
  ExpectedPolicyHash = expected
  Values = {0, 1, 2}
  MaxBounties = 2
  MaxDepth = 2
  Results <- MCResults
  HalfInt64 = 2
  HalfWord = 4
  Payloads <- MCPayloads
SYMMETRY MCSymmetry
SPECIFICATION ChainSpec
INVARIANTS
  TypeOK
  EscrowIsUnclaimed
  PaidOnce
  ClaimNeedsProof
  ConsumedIsProven
PROPERTIES
  ClaimIsFinal
  ImplementsEscrow
CHECK_DEADLOCK FALSE

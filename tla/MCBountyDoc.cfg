CONSTANTS
  alice = alice
  bob = bob
  Accounts <- MCAccounts
  NoAccount = NoAccount
  Hashes = {prog1, prog2}
  NoHash = NoHash
  PolicyHashes = {expected}
  ExpectedPolicyHash = expected
  Values = {0, 1, 2}
  MaxBounties = 2
  MaxDepth = 2
SPECIFICATION Spec
INVARIANT BogusProofIsProofInvalid
CHECK_DEADLOCK FALSE

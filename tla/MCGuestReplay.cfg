CONSTANTS
  good = good
  other = other
  goodUrl = goodUrl
  otherUrl = otherUrl
  oddUrl = oddUrl
  small = small
  big = big
  Urls <- MCNamedUrls
  NoUrl = NoUrl
  Domains <- MCDomains
  NoDomain = NoDomain
  ExtractDomain <- MCExtractDomain
  Payloads <- MCPayloads
  Tools = {"http_get", "time_now"}
  NoPolicy = NoPolicy
  Values = {0, 7, NonInteger}
  NonInteger = NonInteger
  BodySize <- MCBodySize
  Attestations = {}
  NoAttestation = NoAttestation
  VmMaxToolCalls = 3
  DryPolicies <- MCPolicies
  GuestPolicies <- MCGuestPolicies
  NoClaim = NoClaim
SPECIFICATION Spec
INVARIANTS
  DryRunGate
  ServedWithinPolicy
  RefusedCallsSpendBudget
  ClaimIsExecution
  GuestTracksDryRun
  AdmissibleRunIsProvable
CHECK_DEADLOCK FALSE

CONSTANTS
  good = good
  other = other
  goodUrl = goodUrl
  otherUrl = otherUrl
  oddUrl = oddUrl
  small = small
  big = big
  Urls <- MCOtherUrls
  NoUrl = NoUrl
  Domains <- MCOtherDomain
  NoDomain = NoDomain
  ExtractDomain <- MCExtractDomain
  Payloads <- MCPayloads
  Tools = {"http_get", "http_post"}
  NoPolicy = NoPolicy
  Values = {0, 7, NonInteger}
  NonInteger = NonInteger
  BodySize <- MCBodySize
  Attestations = {}
  NoAttestation = NoAttestation
  VmMaxToolCalls = 2
  DryPolicies <- MCMethodPolicies
  GuestPolicies <- MCMethodPolicies
  NoClaim = NoClaim
SPECIFICATION FairSpec
INVARIANTS
  TypeOK
  ServedWithinPolicy
  ClaimIsExecution
PROPERTIES
  AdmissibleRunIsProved
CHECK_DEADLOCK FALSE

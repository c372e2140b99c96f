CONSTANTS
  good = good
  other = other
  goodUrl = goodUrl
  otherUrl = otherUrl
  oddUrl = oddUrl
  small = small
  big = big
  Urls <- MCUrls
  NoUrl = NoUrl
  Domains <- MCDomains
  NoDomain = NoDomain
  ExtractDomain <- MCExtractDomain
  Payloads <- MCPayloads
  Tools = {"http_get", "time_now"}
  NoPolicy = NoPolicy
  Values = {7, NonInteger}
  NonInteger = NonInteger
  BodySize <- MCBodySize
  Attestations = {}
  NoAttestation = NoAttestation
  VmMaxToolCalls = 2
  DryPolicies <- MCAllowlist
  GuestPolicies <- MCAllowlist
  NoClaim = NoClaim
SPECIFICATION Spec
INVARIANT ReplayIsBitIdentical
CHECK_DEADLOCK FALSE

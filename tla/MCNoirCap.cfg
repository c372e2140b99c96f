CONSTANTS
  good = good
  goodUrl = goodUrl
  small = small
  big = big
  Urls <- MCUrls
  NoUrl = NoUrl
  Domains <- MCDomains
  NoDomain = NoDomain
  ExtractDomain <- MCExtractDomain
  Payloads <- MCPayloads
  Tools = {"http_get", "time_now"}
  NoPolicy = NoPolicy
  Values = {7, NonInteger}
  NonInteger = NonInteger
  BodySize <- MCBodySize
  Attestations = {signed}
  NoAttestation = NoAttestation
  VmMaxToolCalls = 2
  DryPolicies <- MCOneCall
  MaxBytecode = 512
  MaxSteps = 2048
  MaxToolCalls = 2
  MaxTapeEntryBytes = 2
  InstrCounts = {512, 513}
  TraceLengths = {2048, 2049}
  NoWitness = NoWitness
SPECIFICATION Spec
INVARIANT NoirProofWithinCap
CHECK_DEADLOCK FALSE

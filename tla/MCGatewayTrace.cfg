CONSTANTS
  Urls = {}
  NoUrl = NoUrl
  Domains = {}
  NoDomain = NoDomain
  ExtractDomain <- MCExtractDomain
  Payloads = {small}
  Tools = {"time_now", "log"}
  NoPolicy = NoPolicy
  Values = {7, NonInteger}
  NonInteger = NonInteger
  BodySize <- MCBodySize
  Attestations = {}
  NoAttestation = NoAttestation
  VmMaxToolCalls = 2
  DryPolicies <- MCNoPolicies
  GuestPolicies <- MCNoPolicies
  NoClaim = NoClaim
  Unserializable <- MCNonIntegers
  NoOutput = NoOutput
  ByteLimits = {1, 2}
  DefaultMaxToolCalls = 1
  ForeignInputs = ForeignInputs
  MaxEdits = 1
SPECIFICATION FairTraceSpec
INVARIANTS
  TraceTypeOK
  ReconstructionIsRun
  GuestRepeatsStrictReplay
  GenuineTraceReconstructs
  PredictionIsRevealed
PROPERTIES
  ReconstructionEnds
CHECK_DEADLOCK FALSE

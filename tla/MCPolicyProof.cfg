CONSTANTS
  Base = 4
  LenWidth = 1
  CapWidth = 2
  UsizeWidth = 1
  NotUtf8 = 3
  HttpGet <- Get
  ProfileCalls = 3
  TemplateCalls = 1
  ProfileBytes = 3
  BlobBytes = {0, 1}
  Documents <- MCDocuments
  Runs <- MCRuns
  Facts = {run1, run2}
  NoRun = NoRun
  NoRules = NoRules
  Blobs <- MCBlobs
  MaxEdits = 1
SPECIFICATION PolicySpec
INVARIANTS
  PolicyTypeOK
  VerifiedRunKeptPolicy
  EnforcedIsCommitted
  CutOrContinuedIsRefused
  HostPredictsGuest
  JudgedProofIsWhole
  SamePolicyVerifies
CHECK_DEADLOCK FALSE

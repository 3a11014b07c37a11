SPECIFICATION Spec
CONSTANTS
  d1 = d1
  d2 = d2
  u1 = u1
  u2 = u2
  f1 = f1
  k1 = k1
  k2 = k2
  Dids = {d1, d2}
  Expected = d1
  Urls = {u1, u2}
  Fragments = {f1}
  Keys = {k1, k2}
  Unresolved = Unresolved
  Array <- MCArray
  FirstTokens <- MCFirstTokens
  Values = {"valid", "revoked"}
  Valid = "valid"
  Requests <- MCRequests
  Malformed = Malformed
  Languages = {"de", "fr"}
  Texts = {"A", "B"}
  Missing = Missing
  MaxIdx = 1
  MaxChanges = 2
  Spaces = {"space1", "space2"}
  OwnUrls = {"url"}
  Jobs <- MCJobs
  Nothing = Nothing
  Torn = Torn
  Allocated = Allocated
  MaxRuns = 2
  MaxTime = 1
  MaxVersion = 3
  Skew = 1
  PopJobs <- MCPopJobs
  Plans <- MCPlans
  VerifyJobs <- MCVerifyJobs
  OtherTokens <- MCOtherTokens
  Nonces = {"n1", "n2"}
  NoNonce = NoNonce
  MaxPops = 1
  MaxSerial = 3
  MaxPopClock = 1
  MaxCopies = 2
CHECK_DEADLOCK FALSE
INVARIANTS
  OneFetchEach
  ShownClaimsAreSigned
  TrustedIsJustified
  QuietVerdictIsExact
  QuietErrorHasCause
  AcceptedPopIsVouched
  FreshPopIsAccepted
  VersionsExplainTheLog
  PublishedIsHeld
  ReportedIsHeld
  ListedIsUsable
  OrphansHaveCause
  LoneLogHasCause
PROPERTIES
  TrustEnds
  CreateEnds

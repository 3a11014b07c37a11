SPECIFICATION FairSpec
CONSTANTS
  Procs = {p1}
  Names <- MCNames
  NoName = NoName
  InputFile = "did.jsonl"
  TmpFile = "did.jsonl.tmp"
  PendingFiles <- MCPending
  Inodes <- MCInodes
  Jobs <- MixedJobs
  Faults = {"crash", "refuse", "lose"}
  MaxRuns = 3
  MaxVersion = 9
INVARIANT TypeOK
INVARIANT RegistryKeysHeld
INVARIANT EndedEntryHeld
PROPERTY InputGrowsByOne
PROPERTY SnapshotsKept
PROPERTY Termination

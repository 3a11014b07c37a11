SPECIFICATION Spec
CONSTANTS
  Procs = {p1, p2}
  Names <- MCNames
  NoName = NoName
  InputFile = "did.jsonl"
  TmpFile = "did.jsonl.tmp"
  PendingFiles <- MCPending
  Inodes <- MCInodes
  Jobs <- ConcurrentJobs
  Faults = {"crash", "refuse"}
  MaxRuns = 3
  MaxVersion = 9
SYMMETRY Invocations
INVARIANT LogsSound
INVARIANT NoneWaits
PROPERTY HistorySpec

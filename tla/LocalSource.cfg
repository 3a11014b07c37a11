SPECIFICATION Spec
CONSTANTS
  Procs = {p1}
  Names <- MCNames
  NoName = NoName
  InputFile = "did.jsonl"
  TmpFile = "did.jsonl.tmp"
  PendingFiles <- MCPending
  Inodes <- MCInodes
  Jobs <- LocalJobs
  Faults = {"refuse", "lose", "delay"}
  MaxRuns = 4
  MaxVersion = 9
INVARIANT LatestSnapshotIsCurrent
INVARIANT OnlyDeactivationBreaks

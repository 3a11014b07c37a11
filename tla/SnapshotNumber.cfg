SPECIFICATION Spec
CONSTANTS
  Procs = {p1}
  Names <- MCNames
  NoName = NoName
  InputFile = "did.jsonl"
  TmpFile = "did.jsonl.tmp"
  PendingFiles <- MCPending
  Inodes <- MCInodes
  Jobs <- OneDidRotation
  Faults = {"refuse"}
  MaxRuns = 2
  MaxVersion = 9
INVARIANT SnapshotNumberIsSeq

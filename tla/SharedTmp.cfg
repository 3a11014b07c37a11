SPECIFICATION Spec
CONSTANTS
  Procs = {p1, p2}
  Names <- MCNames
  NoName = NoName
  InputFile = "did.jsonl"
  TmpFile = "did.jsonl.tmp"
  PendingFiles <- MCPending
  Inodes <- MCInodes
  Jobs <- OneUnpublished
  Faults = {}
  MaxRuns = 2
  MaxVersion = 9
INVARIANT InputAlwaysReadable

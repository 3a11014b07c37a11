SPECIFICATION Spec
CONSTANTS
  Procs = {p1}
  Names <- MCNames
  NoName = NoName
  InputFile = "did.jsonl"
  TmpFile = "did.jsonl.tmp"
  PendingFiles <- MCPending
  Inodes <- MCInodes
  Jobs <- OneRotation
  Faults = {"crash"}
  MaxRuns = 1
  MaxVersion = 9
INVARIANT LocalKeyHeld

CONSTANTS
  Producers = {"p1", "p2"}
  Main = "main"
  Script <- MCScript
  Cap = 2
  BufCap = 2
  Period = 2
  FileStates = {"ok", "failed"}
  MainMayFail = FALSE
  MaxDiskErrors = 0
SPECIFICATION Spec
INVARIANTS
  FileOrderFollowsSendOrder

SPECIFICATION Spec
CONSTANTS
  Readers = {r1}
  Requested = {2}
  Modes = {TRUE}
  MaxPublish = 4
INVARIANTS NoTornReadAcrossProcesses LapsReportedAcrossProcesses PosixShmInShm
CHECK_DEADLOCK FALSE

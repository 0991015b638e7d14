SPECIFICATION FairSpec
CONSTANTS
  n1 = n1
  n2 = n2
  Name <- TwoNames
  Window = 3
  MinRounds = 2
  fail_consecutive = 1
  fail_in_window = 2
  recover_consecutive = 1
  Overlap = FALSE
  Edits = {"create", "delete", "rename", "ids", "ack"}
  MaxFaults = 1
INVARIANTS
  ShownIsWhatWasSent
PROPERTIES
  ImplementsPanel
  DownIsAlerted
  UpIsRecovered

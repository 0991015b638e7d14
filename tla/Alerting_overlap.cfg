SPECIFICATION Spec
CONSTANTS
  n1 = n1
  n2 = n2
  Name <- TwoNames
  Window = 4
  MinRounds = 2
  fail_consecutive = 2
  fail_in_window = 3
  recover_consecutive = 2
  Overlap = TRUE
  Edits = {"delete"}
  MaxFaults = 0
INVARIANT DeletedSitesForgotten

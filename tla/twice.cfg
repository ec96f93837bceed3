SPECIFICATION SuiteSpec
CONSTANTS
  Data = "data"
  Template <- Twice
  BlockLength = 1
  CheckFiles = TRUE
  LateErrors = FALSE
  MaxFaults = 2
  Subjects = {"image"}
INVARIANTS ImageGood

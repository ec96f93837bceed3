SPECIFICATION SuiteSpec
CONSTANTS
  Data = "data"
  Template <- TwoParts
  BlockLength = 1
  CheckFiles = TRUE
  LateErrors = FALSE
  MaxFaults = 3
  Subjects = {"late", "commands", "failing", "edited", "lengths", "filenames", "terminal", "tofile"}
INVARIANTS LateIsHonest TerminalRight
PROPERTIES CommandsTruthful
CHECK_DEADLOCK FALSE

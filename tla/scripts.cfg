SPECIFICATION ScriptsSpec
CONSTANTS
  Data = "data"
  Template <- TwoParts
  BlockLength = 1
  CheckFiles = TRUE
  LateErrors = FALSE
  MaxFaults = 3
  Subjects = {"lite", "litebatch", "liteends", "mirror", "heals"}
INVARIANTS ScriptsRight
PROPERTIES NothingLost ScriptsEnd
CHECK_DEADLOCK FALSE

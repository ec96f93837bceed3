SPECIFICATION ImageSpec
CONSTANTS
  Data = "data"
  Template <- TwoParts
  BlockLength = 1
  CheckFiles = TRUE
  LateErrors = FALSE
  MaxFaults = 3
  Subjects = {"image"}
INVARIANTS ImageGood HonestTmp ExitZero ExitOne ExitThree
PROPERTIES KeepsWork ImageMade

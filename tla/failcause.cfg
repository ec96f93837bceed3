SPECIFICATION SuiteSpec
CONSTANTS
  Byte = {0, 1}
  Pad = 0
  Images <- AllImages
  FileSeq <- TinyShortLong
  Content <- TinyShortLongData
  WholeScanned = {}
  RsyncSum <- WeakSum
  BlockLength = 2
  CsumBlockLength = 3
  ReadAmount = 2
  Slack = 1
  Word = 1024
  GreedyMatching = TRUE
  MatchExecFails = {FALSE}
  MaxLost = 0
  TemplateMayFail = FALSE
  MaxMatches = 3
  InitialSectorLength = 2
  MaxSectorLength = 4
  Null = Null
  Head1 = Head1
  FreeHead = FreeHead
  X = X
  Y = Y
  Z = Z
  Subjects = {"greedy"}
INVARIANTS FailsOnlyForCause

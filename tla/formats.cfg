SPECIFICATION SuiteSpec
CONSTANTS
  Width = 8
  MemLen = 11
  Mem <- Data
  Sum1 <- Prefix
  Sum2 <- PrefixOfPrefix
  xText = xText
  yText = yText
  colon = colon
  Subjects = {"window", "area", "digest", "digests", "base64", "desc", "zlib", "bzip", "bzipwrite", "unzip", "unzipback", "gunzip", "lines", "words", "servers", "rescans", "merge", "typical", "urls", "urlloops", "messages", "info"}
INVARIANTS SumOfWindow StreamsRight FormatsRight FilesRight TextsRight
PROPERTIES CallsReturn RecursionEnds
CHECK_DEADLOCK FALSE

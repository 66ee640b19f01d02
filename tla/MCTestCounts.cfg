CONSTANTS
  DirFiles <- TestFiles
  Contents <- TestTexts
  FilePatterns <- ConfPatterns
  Tokens <- ConfTokens
  CMakeListsFiles <- ConfCMakeLists
SPECIFICATION ConfSpec
INVARIANT CountsMatchDirectory

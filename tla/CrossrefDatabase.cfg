SPECIFICATION DatabaseSpec
CONSTANTS
  CrossrefFiles <- mcFiles
  Symbols <- mcSymbols
  MaxRecords = 3
  IdLengths = {2, 3, 12}
  PayloadLengths = {4, 30}
  Tables <- mcTables
  MinTotal = 1
  MaxTotal = 4
  JsonLengths = {4, 6}
  Databases = {"crossref"}
  Threshold = 6
  Threads = 3
  OneThread = 2
  RefLength = 5
  Buffer = 3
  Faults = {"panic", "short"}
  MaxIds = 3
  IdTables <- mcIdTables
  Needles <- mcNeedles
INVARIANTS AnswersExact FilesSound PrefixSearch
PROPERTIES Halves Answers

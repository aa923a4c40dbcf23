SPECIFICATION StorageSpec
CONSTANTS
  w1 = w1
  w2 = w2
  Workers = {w1, w2}
  Cases <- SafetyCases
  Files <- TestFiles
  DefaultFiles <- MCDefaultFiles
CHECK_DEADLOCK FALSE
INVARIANTS
    PacedBound
    ClientWired
PROPERTIES
    Served

SPECIFICATION Spec
CONSTANTS
  NumFiles = 2
  Stable = {r1}
  PathScoped = {t1}
  Processes = {p1, p2}
  MaxTokens = 2
  MaxWrites = 4
SYMMETRY Symmetry
CONSTRAINT OneComplication
INVARIANTS TypeOK WarmEntriesAreTrue ScanForgetsNothing LiveAttributionWins
PROPERTY HistoryOutlivesRewrites

CONSTANTS
  Requests = {r1, r2}
  Schedules = {TRUE, FALSE}
  MaxLot = 3
  MaxMovement = 4
  MaxQuantity = 20
  Modes = {"exact", "level"}
  InitialMode = "exact"
  Locations = {shelf}
  Serials = {sn}
  Dates = {1}
  Levels = {low}
  Amounts = {0, 1, 3}
  InitialAmounts <- Openings
  Null = Null
SYMMETRY Alike
CONSTRAINT Bounded
SPECIFICATION Spec
INVARIANT TypeOK CacheMatchesLedger NeverNegative ReversalsUndo
PROPERTY CacheMovesToSum DrawnInFefoOrder KeepsPromise

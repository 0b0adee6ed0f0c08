CONSTANTS
  Requests = {r1, r2}
  Schedules = {TRUE}
  MaxLot = 1
  MaxMovement = 3
  MaxQuantity = 2
  Modes = {"exact"}
  InitialMode = "exact"
  Locations = {}
  Serials = {}
  Dates = {}
  Levels = {}
  Amounts = {1}
  InitialAmounts = {Null}
  Null = Null
SPECIFICATION Spec
INVARIANT LedgerIsTruth

CONSTANTS
  Requests = {r1}
  Schedules = {FALSE}
  MaxLot = 2
  MaxMovement = 3
  MaxQuantity = 20
  Modes = {"exact"}
  InitialMode = "exact"
  Locations = {}
  Serials = {sn}
  Dates = {}
  Levels = {}
  Amounts = {1}
  InitialAmounts = {Null}
  Null = Null
SPECIFICATION Spec
INVARIANT AcceptedWorkCommits

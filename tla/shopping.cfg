SPECIFICATION FairSpec
CONSTANTS
  Definitions = {1, 2}
  Requests = {r1, r2}
  Schedules = {FALSE, TRUE}
  MinStock = 1
  MaxStock = 1
  MaxChanges = 4
  Null = Null
CHECK_DEADLOCK FALSE
INVARIANTS TypeOK
PROPERTIES ListFollowsSignal PrunesOnlyOpenAutoRows ListCatchesUp

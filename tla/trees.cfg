SPECIFICATION TreesSpec
CONSTANTS
  MaxLocation = 4
  Lots = {x1}
  Requests = {r1, r2}
  Schedules = {TRUE, FALSE}
  MaxChanges = 7
  Definitions = {d1}
  Alone = r1
  FewLocations = 3
  FewChanges = 5
  Null = Null
  Keep = Keep
CHECK_DEADLOCK FALSE
INVARIANTS TypeOK NoCycles EveryItemIsFiled
PROPERTIES MovesJudged WalkEnds

SPECIFICATION FairSpec
CONSTANTS
  Threads = {t1, t2}
  Configs <- Offered
  Counts = {0, 1}
  Schedules = {FALSE}
  MaxChanges = 4
  None = None
INVARIANTS TypeOK BridgeFollowsSettings ConnectedIsCurrent
PROPERTIES CommandsObeySettings StateCatchesUp

SPECIFICATION FairSpec
CONSTANTS
  Users = {1, 2}
  Definitions = {d1}
  Scans = {job, manual}
  Manual = manual
  Offsets = {1, 2}
  Schedules = {TRUE, FALSE}
  MaxDay <- Days
  MaxChanges <- Changes
  Null = Null
CONSTRAINT Bounded
INVARIANTS
  TypeOK
  NothingTwice
PROPERTIES
  EpisodesFollowStock
  SerialShortageAnnounced

SPECIFICATION FairSpec
CONSTANTS
  Users = {1}
  Definitions = {d1, d2}
  Scans = {job}
  Offsets = {1}
  Schedules = {TRUE}
  MaxDay <- OneDay
  MaxChanges <- Three
  Manual = job
  Null = Null
PROPERTIES
  ShortageAnnounced

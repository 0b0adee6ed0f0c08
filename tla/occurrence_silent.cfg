SPECIFICATION Spec
CONSTANTS
  Users = {u1, u2}
  Jobs = {j1, j2}
  FirstDay <- Day1
  LastDay <- Day2
  Dates <- NextWeek
  Intervals <- Weekly
  Leads = {1}
  GlobalLead <- Defaults
  MaxId = 1
  Settings <- OnlyInbox
  Null = Null
CHECK_DEADLOCK FALSE
SYMMETRY Alike
CONSTRAINT Bounded
PROPERTY FreshOccurrence

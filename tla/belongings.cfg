SPECIFICATION Spec
CONSTANTS
  Contents = {a, b}
  Words = {tea}
  Cases = {lower, upper}
  Codes = {ean}
  Requests = {r1, r2}
  Schedules = {FALSE, TRUE}
  MaxId = 2
  MaxChanges = 6
  Null = Null
CHECK_DEADLOCK FALSE
SYMMETRY Alike
INVARIANTS TypeOK FilesMatchRows BelongingsHaveOwners NamesDiffer

SPECIFICATION PartsSpec
CONSTANTS
  Emails = {ann, bob}
  Passwords = {p1, p2}
  SessionIds = {s1, s2}
  Requests = {r1, r2}
  Schedules = {FALSE, TRUE}
  SessionTtl = 3
  InviteTtl = 2
  ResetTtl = 1
  MaxUser = 2
  MaxToken = 2
  MaxTime = 2
  MaxChanges = 6
  Keys = {k1}
  Threshold = 2
  Window = 3
  BaseLockout = 1
  Cap = 3
  MaxDoublings = 2
  MaxClock = 9
  MaxFailures = 9
  Tokens = {t1, t2}
  MaxNamed = 2
  MaxSaves = 3
  Null = Null
CHECK_DEADLOCK FALSE
INVARIANTS TypeOK KeepsAdmin SupersededIsUseless LockoutsHold 
PROPERTIES JoinsByInvitation
SYMMETRY Alike

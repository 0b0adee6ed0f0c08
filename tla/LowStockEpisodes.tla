-------------------------- MODULE LowStockEpisodes --------------------------
(***************************************************************************)
(* The low-stock part of the reminder engine.  For each user and definition *)
(* an episode is one opener notification, open while the definition is low, *)
(* and repeats at configured day offsets.  Two paths write them: scans (the *)
(* daily scheduler job and POST /reminders/run) and the event hook of a     *)
(* stock movement, which runs inside the movement's own transaction.        *)
(*                                                                          *)
(* A scan holds no lock when it starts: each create_if_absent is a          *)
(* savepoint outside a transaction, and SQLite commits it when it is        *)
(* released.  Closing an episode is a plain UPDATE: it begins a transaction *)
(* that keeps the writer lock to the end of the scan.  The hook runs with   *)
(* the lock the movement's INSERT took, so it is one step.                  *)
(*                                                                          *)
(* Abstracted: what makes a definition low (LowStockService.compute) is the *)
(* set `low`; notifications are their dedup keys; the date and maintenance  *)
(* sources of the same scan are modelled apart.                             *)
(***************************************************************************)
EXTENDS Integers, FiniteSets, FiniteSetsExt

CONSTANTS
  Users,        \* user ids, integers: scans take users in this order
  Definitions,
  Scans,        \* the scans that may run at once
  Offsets,      \* settings.low_stock_repeat_days
  Schedules,    \* {FALSE}: nothing else happens while a scan runs; {TRUE}: it may
  MaxDay,       \* bound on the calendar, by overlap
  MaxChanges,   \* bound on stock, user and routing changes and on faults, by overlap
  Null

ASSUME EpisodeConstants ==
  /\ Users \subseteq Nat /\ IsFiniteSet(Users) /\ Offsets \subseteq Nat \ {0}
  /\ Schedules \subseteq BOOLEAN /\ MaxDay \in [BOOLEAN -> Nat] /\ MaxChanges \in [BOOLEAN -> Nat]
  /\ Null \notin Users \cup Scans

VARIABLES
  today,        \* the household's calendar day
  low,          \* definitions below their threshold
  users,        \* "off" (is_active false), "silent" (no channel wanted) or "on"
  responsible,  \* item_definitions.responsible_user_id
  rows,         \* the committed low-stock notifications: dedup key -> state
  writer,       \* the scan that holds the writer lock, or Null
  draft,        \* the table as the lock holder sees it
  scan,         \* per scan, where it is
  sent,         \* dedup keys handed to the channels
  changes,      \* how much of the bound is used
  overlap       \* whether anything may happen while a scan runs, in this behaviour

vars == <<today, low, users, responsible, rows, writer, draft, scan, sent, changes, overlap>>
world == <<today, low, users, responsible>>
database == <<rows, writer, draft>>

Keys == [user : Users, definition : Definitions, start : 0 .. MaxDay[overlap],
         offset : Offsets \cup {0}, seq : Nat]

\* The local state of a scan: where it is, the day and the users it listed, the
\* low set it computed, the (user, definition) pairs Phase 1 still has to see,
\* the pair it is at, the keys it is about to write and the rows it created.
Idle == [stage |-> "idle", day |-> 0, todo |-> {}, wants |-> {}, low |-> {}, told |-> {},
         user |-> Null, definition |-> Null, keys |-> {}, new |-> {}]

-----------------------------------------------------------------------------
(* Queries of NotificationRepository on a table t *)

\* Mutant: an opener of an earlier day is taken for a closed one.
OpenOpeners_TodayOnly(t, u, d) ==
  {k \in DOMAIN t : k.user = u /\ k.definition = d /\ k.offset = 0
                    /\ t[k] = "open" /\ k.start = today}

OpenOpeners(t, u, d) ==
  {k \in DOMAIN t : k.user = u /\ k.definition = d /\ k.offset = 0 /\ t[k] = "open"}

\* Openers of every state anchored on one day.
OpenersOn(t, u, d, day) ==
  Cardinality({k \in DOMAIN t : k.user = u /\ k.definition = d
                                /\ k.offset = 0 /\ k.start = day})

\* create_if_absent, for a set of keys.
Insert(t, keys) ==
  [k \in DOMAIN t \cup keys |-> IF k \in DOMAIN t THEN t[k] ELSE "open"]

\* mark_resolved: the opener and whatever else is open of its episode.
Resolve(t, openers) ==
  [k \in DOMAIN t |->
     IF \E o \in openers : k.user = o.user /\ k.definition = o.definition /\ k.start = o.start
     THEN "resolved" ELSE t[k]]

(* Rules of the engine *)

\* Mutant: the anchor is the next day (the date in UTC).
Opener_NextDay(u, d, day, seq) ==
  [user |-> u, definition |-> d, start |-> day + 1, offset |-> 0, seq |-> seq]

Opener(u, d, day, seq) ==
  [user |-> u, definition |-> d, start |-> day, offset |-> 0, seq |-> seq]

\* Mutant: only the exact day counts.
DueRepeats_ExactDay(opener, day) ==
  {[opener EXCEPT !.offset = o, !.seq = 0] : o \in {n \in Offsets : n = day - opener.start}}

\* Repeats that are due, missed days included.  Their keys have no "#seq".
DueRepeats(opener, day) ==
  {[opener EXCEPT !.offset = o, !.seq = 0] : o \in {n \in Offsets : n <= day - opener.start}}

Active == {u \in Users : users[u] # "off"}

\* The responsible user if active, otherwise everybody active.
Recipients(d) == IF responsible[d] \in Active THEN {responsible[d]} ELSE Active

-----------------------------------------------------------------------------
(* The world around the engine *)

\* A step of the world, which takes one unit of the bound.
Change ==
  /\ changes < MaxChanges[overlap]
  /\ changes' = changes + 1
  /\ ~overlap => \A s \in Scans : scan[s] = Idle

Unlocked == writer = Null /\ UNCHANGED <<writer, draft>>

\* Intake, undo, edits and deletions move the stock without the hook; so does
\* a movement whose hook fails (its savepoint is rolled back).
SilentChange(d) ==
  /\ Change /\ Unlocked
  /\ low' = IF d \in low THEN low \ {d} ELSE low \cup {d}
  /\ UNCHANGED <<today, users, responsible, rows, scan, sent>>

\* A discard, adjust or consume of definition d, with its hook
\* (evaluate_low_stock) in the same transaction.  The route hands the new rows
\* to the channels after the commit, unless it dies in between.
Movement(d) ==
  \E now \in {low \cup {d}, low \ {d}} :
    LET told  == IF d \in now THEN {u \in Recipients(d) : users[u] = "on"} ELSE {}
        added == UNION {LET open == OpenOpeners(rows, u, d)
                        IN  IF open = {} THEN {Opener(u, d, today, OpenersOn(rows, u, d, today))}
                            ELSE UNION {DueRepeats(o, today) : o \in open} : u \in told}
        over  == IF d \in now THEN {} ELSE UNION {OpenOpeners(rows, u, d) : u \in Active}
    IN  /\ Change /\ Unlocked
        /\ low' = now
        /\ \A u \in told : Cardinality(OpenOpeners(rows, u, d)) <= 1
        /\ rows' = Resolve(Insert(rows, added), over)
        /\ \/ sent' = sent \cup (added \ DOMAIN rows)
           \/ sent' = sent
        /\ UNCHANGED <<today, users, responsible, scan>>

\* PATCH /users/{id}: activation and channel preferences.
ChangeUser(u) ==
  /\ Change /\ Unlocked
  /\ \E status \in {"off", "silent", "on"} \ {users[u]} :
       users' = [users EXCEPT ![u] = status]
  /\ UNCHANGED <<today, low, responsible, rows, scan, sent>>

\* PATCH /definitions/{id}: the responsible user.
Assign(d) ==
  /\ Change /\ Unlocked
  /\ \E u \in (Users \cup {Null}) \ {responsible[d]} :
       responsible' = [responsible EXCEPT ![d] = u]
  /\ UNCHANGED <<today, low, users, rows, scan, sent>>

\* DELETE /definitions/{id} takes its notifications along; SQLite may give the
\* id to the next definition, which starts without any: an equal key is then
\* another row.
DeleteDefinition(d) ==
  LET kept == {k \in DOMAIN rows : k.definition # d}
  IN  /\ Change /\ Unlocked
      /\ low' = low \ {d}
      /\ responsible' = [responsible EXCEPT ![d] = Null]
      /\ rows' = [k \in kept |-> rows[k]]
      /\ sent' = {k \in sent : k.definition # d}
      /\ scan' = [s \in Scans |->
                    [scan[s] EXCEPT !.new = {k \in @ : k.definition # d}]]
      /\ UNCHANGED <<today, users>>

NextDay ==
  /\ today < MaxDay[overlap]
  /\ today' = today + 1
  /\ ~overlap => \A s \in Scans : scan[s] = Idle
  /\ UNCHANGED <<low, users, responsible, rows, writer, draft, scan, sent, changes>>

-----------------------------------------------------------------------------
(* A scan: run_scan and its caller *)

\* What scan s reads: its own uncommitted writes, or what is committed.
Table(s) == IF writer = s THEN draft ELSE rows

Become(s, state) == scan' = [scan EXCEPT ![s] = state]

\* The session is closed and what it had not committed is gone.
RollBack(s) ==
  /\ Become(s, Idle)
  /\ IF writer = s THEN writer' = Null /\ draft' = <<>> ELSE UNCHANGED <<writer, draft>>
  /\ rows' = rows

\* Today and the active users are read first; without any the scan is over.
ListUsers(s) ==
  /\ scan[s] = Idle
  /\ ~overlap => \A q \in Scans : scan[q] = Idle
  /\ Become(s, IF Active = {} THEN [Idle EXCEPT !.stage = "dispatch"]
               ELSE [Idle EXCEPT !.stage = "listed", !.day = today, !.todo = Active,
                                 !.wants = {u \in Active : users[u] = "on"}])
  /\ UNCHANGED <<world, database, sent, changes>>

\* Mutant: the deactivated responsible user keeps the definition to himself.
Routed_ToInactive(listed, d) ==
  IF responsible[d] # Null THEN {responsible[d]} \cap listed ELSE listed

\* Whom definition d is routed to, among the users listed.
Routed(listed, d) ==
  IF responsible[d] \in listed THEN {responsible[d]} ELSE listed

\* The low definitions, and which of them each user is told about.
ComputeLow(s) ==
  LET now == scan[s]
  IN  /\ now.stage = "listed"
      /\ Become(s, [now EXCEPT !.stage = "user", !.wants = {}, !.low = low,
                      !.told = {p \in now.wants \X low : p[1] \in Routed(now.todo, p[2])}])
      /\ UNCHANGED <<world, database, sent, changes>>

NextUser(s) ==
  LET now == scan[s]
  IN  /\ now.stage = "user" /\ now.todo # {}
      /\ Become(s, [now EXCEPT !.stage = "open", !.user = Min(now.todo),
                               !.todo = @ \ {Min(now.todo)}])
      /\ UNCHANGED <<world, database, sent, changes>>

\* Phase 1, per definition: is there an open episode?  Two open openers make
\* the query raise (scalar_one_or_none), which ends the scan.
ReadOpener(s) ==
  LET now == scan[s]
  IN  /\ now.stage = "open"
      /\ \E d \in {p[2] : p \in {q \in now.told : q[1] = now.user}} :
           LET open == OpenOpeners(Table(s), now.user, d)
               next == [now EXCEPT !.definition = d, !.told = @ \ {<<now.user, d>>}]
           IN  \/ /\ open = {}
                  /\ Become(s, [next EXCEPT !.stage = "count"])
                  /\ UNCHANGED database
               \/ /\ Cardinality(open) = 1
                  /\ Become(s, [next EXCEPT !.stage = "create",
                                  !.keys = UNION {DueRepeats(o, now.day) : o \in open}])
                  /\ UNCHANGED database
               \/ /\ Cardinality(open) > 1
                  /\ RollBack(s)
      /\ UNCHANGED <<world, sent, changes>>

\* No open episode: number the new opener after those of the same day.
CountOpeners(s) ==
  LET now == scan[s]
      seq == OpenersOn(Table(s), now.user, now.definition, now.day)
  IN  /\ now.stage = "count"
      /\ Become(s, [now EXCEPT !.stage = "create",
                               !.keys = {Opener(now.user, now.definition, now.day, seq)}])
      /\ UNCHANGED <<world, database, sent, changes>>

\* create_if_absent says whether the row is new.
Created(t, k) == k \notin DOMAIN t

\* The next key in order of offset.  Outside a transaction the released
\* savepoint commits the row.  create_if_absent's SELECT and INSERT are one step:
\* were the row inserted in between, the INSERT would fail and the scan would
\* find it all the same, only with the writer lock from there on.
CreateRow(s) ==
  LET now == scan[s]
  IN  /\ now.stage = "create" /\ now.keys # {}
      /\ writer \in {Null, s}
      /\ \E k \in now.keys :
           /\ \A j \in now.keys : k.offset <= j.offset
           /\ Become(s, [now EXCEPT !.keys = @ \ {k},
                                    !.new = IF Created(Table(s), k) THEN @ \cup {k} ELSE @])
           /\ IF writer = s
              THEN draft' = Insert(draft, {k}) /\ rows' = rows
              ELSE rows' = Insert(rows, {k}) /\ draft' = draft
      /\ UNCHANGED <<world, writer, sent, changes>>

DefinitionDone(s) ==
  /\ scan[s].stage = "create" /\ scan[s].keys = {}
  /\ Become(s, [scan[s] EXCEPT !.stage = "open", !.definition = Null])
  /\ UNCHANGED <<world, database, sent, changes>>

\* Phase 2 goes by the global low set, whomever a definition is routed to.
Recovered(s, k) == k.definition \notin scan[s].low

\* Phase 2: the user's openers whose definition was not low.
ReadOpenOpeners(s) ==
  LET now == scan[s]
  IN  /\ now.stage = "open"
      /\ \A p \in now.told : p[1] # now.user
      /\ Become(s, [now EXCEPT !.stage = "close",
                      !.keys = {k \in DOMAIN Table(s) :
                                  /\ k.user = now.user /\ k.offset = 0
                                  /\ Table(s)[k] = "open" /\ Recovered(s, k)}])
      /\ UNCHANGED <<world, database, sent, changes>>

\* Closing them is an UPDATE: from here on the scan holds the writer lock.
CloseEpisodes(s) ==
  LET now == scan[s]
  IN  /\ now.stage = "close"
      /\ Become(s, [now EXCEPT !.stage = "user", !.user = Null, !.keys = {}])
      /\ IF now.keys = {} THEN UNCHANGED database
         ELSE /\ writer \in {Null, s}
              /\ writer' = s
              /\ draft' = Resolve(Table(s), now.keys)
              /\ rows' = rows
      /\ UNCHANGED <<world, sent, changes>>

CommitScan(s) ==
  /\ scan[s].stage = "user" /\ scan[s].todo = {}
  /\ Become(s, [Idle EXCEPT !.stage = "dispatch", !.new = scan[s].new])
  /\ rows' = Table(s)
  /\ IF writer = s THEN writer' = Null /\ draft' = <<>> ELSE UNCHANGED <<writer, draft>>
  /\ UNCHANGED <<world, sent, changes>>

\* After the commit the created rows go to the channels, which may fail and
\* are not tried again.
Dispatch(s) ==
  /\ scan[s].stage = "dispatch"
  /\ Become(s, Idle)
  /\ sent' \in {sent, sent \cup scan[s].new}
  /\ UNCHANGED <<world, database, changes>>

\* A lock timeout, an exception or a crash, at any point.
Fail(s) ==
  /\ scan[s] # Idle
  /\ changes < MaxChanges[overlap]
  /\ changes' = changes + 1
  /\ RollBack(s)
  /\ UNCHANGED <<world, sent>>

-----------------------------------------------------------------------------
Init ==
  /\ today = 0
  /\ low = {}
  /\ users \in [Users -> {"off", "on"}]
  /\ responsible = [d \in Definitions |-> Null]
  /\ rows = <<>> /\ writer = Null /\ draft = <<>>
  /\ scan = [s \in Scans |-> Idle]
  /\ sent = {}
  /\ changes = 0
  /\ overlap \in Schedules

World ==
  \/ \E d \in Definitions :
       SilentChange(d) \/ Movement(d) \/ Assign(d) \/ DeleteDefinition(d)
  \/ \E u \in Users : ChangeUser(u)
  \/ NextDay

ScanStep(s) ==
  \/ ListUsers(s) \/ ComputeLow(s) \/ NextUser(s) \/ ReadOpener(s) \/ CountOpeners(s)
  \/ CreateRow(s) \/ DefinitionDone(s) \/ ReadOpenOpeners(s) \/ CloseEpisodes(s)
  \/ CommitScan(s) \/ Dispatch(s)

Next ==
  /\ World \/ \E s \in Scans : ScanStep(s) \/ Fail(s)
  /\ UNCHANGED overlap

Spec == Init /\ [][Next]_vars

\* The scheduler starts a scan every day and a started scan runs on; users and
\* the calendar promise nothing.
FairSpec == Spec /\ \A s \in Scans : WF_vars(ScanStep(s) /\ UNCHANGED overlap)

-----------------------------------------------------------------------------
(* Properties *)

TypeOK ==
  /\ today \in 0 .. MaxDay[overlap] /\ overlap \in BOOLEAN /\ low \subseteq Definitions
  /\ users \in [Users -> {"off", "silent", "on"}]
  /\ responsible \in [Definitions -> Users \cup {Null}]
  /\ \A t \in {rows, draft} : DOMAIN t \subseteq Keys /\ \A k \in DOMAIN t : t[k] \in {"open", "resolved"}
  /\ writer \in Scans \cup {Null} /\ sent \subseteq Keys
  /\ \A s \in Scans : scan[s].keys \cup scan[s].new \subseteq Keys

\* An episode is opened only when none is open: unless a scan is overtaken, a
\* user never has two open openers for one definition.
OneOpenEpisode ==
  ~overlap =>
    \A j, k \in {r \in DOMAIN rows : r.offset = 0 /\ rows[r] = "open"} :
      j.user = k.user /\ j.definition = k.definition => j = k

\* Whatever interleaves, what a scan is about to announce has not been announced
\* before, and no two scans announce the same row.
NewIsUnsent ==
  \A s \in Scans :
    /\ scan[s].new \cap sent = {}
    /\ \A q \in Scans \ {s} : scan[s].new \cap scan[q].new = {}

\* One shortage is one episode, and each of its rows is announced once.
NothingTwice == OneOpenEpisode /\ NewIsUnsent

\* An episode ends only because its definition has recovered, whatever was done
\* to its routing or its users; a scan that is overtaken goes by the stock it saw.
EndsOnRecovery ==
  [][~overlap =>
       \A k \in DOMAIN rows \cap DOMAIN rows' :
         rows[k] = "open" /\ rows'[k] = "resolved" => k.definition \notin low']_vars

\* A committed scan leaves the inbox in step with the stock: every active user
\* has open episodes only for low definitions, every recipient has one for each
\* low definition, and no repeat that is due is missing.
ScanSettles ==
  [][\A s \in Scans : ~overlap /\ CommitScan(s) =>
       \A u \in Active, d \in Definitions :
         LET open == OpenOpeners(rows', u, d)
         IN  /\ open # {} => d \in low
             /\ d \in low /\ u \in Recipients(d) /\ users[u] = "on" =>
                  /\ open # {}
                  /\ \A o \in open, n \in Offsets :
                       n <= today - o.start =>
                         [o EXCEPT !.offset = n, !.seq = 0] \in DOMAIN rows']_vars

\* Episodes begin, go on and end with the shortage they are about.
EpisodesFollowStock == EndsOnRecovery /\ ScanSettles

\* Whoever is to be told of a lasting shortage ends up with an open episode: the
\* scan of the day is the fallback for every movement that was not evaluated.
ShortageReaches(u, d) ==
  <>[](d \in low /\ u \in Recipients(d) /\ users[u] = "on")
    => <>[](OpenOpeners(rows, u, d) # {})

ShortageAnnounced == \A u \in Users, d \in Definitions : ShortageReaches(u, d)

\* It does, unless scans are overtaken.
SerialShortageAnnounced ==
  \A u \in Users, d \in Definitions : [](~overlap) => ShortageReaches(u, d)
=============================================================================

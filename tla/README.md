# Omniventory in TLA+

Omniventory is a household inventory: a FastAPI backend over SQLite, a daily
scheduler job, a notification dispatcher, an optional MQTT bridge and a React
front end. This directory holds TLA+ models of the backend's stateful parts,
the TLC configurations that check them, and theorems about them that TLAPS
checks. Paths below are relative to `src/backend/app/` unless they start with
`docs/`.

    tlc -config <run>.cfg <Module>.tla      # the runs are listed below
    tlapm <Module>_proofs.tla

## How the backend runs, and what a step is

All the models rest on the same reading of `db/base.py`, `db/session.py` and
the synchronous routes:

* Routes are plain `def`s: FastAPI runs them in a thread pool, each with a
  session of its own (`get_db`). Two requests really do interleave, and the
  scheduler's thread joins them.
* pysqlite begins a transaction at the first INSERT, UPDATE or DELETE. Every
  SELECT before that is a transaction of its own; what it returns may be stale
  by the time the request writes.
* From the first write to the commit the session holds SQLite's only writer
  lock. So a request is a sequence of *read* steps followed by one *write*
  step, and `Abandon`/`Fail` (an exception, a lock timeout, a crash) may take
  the place of any of them.
* A SAVEPOINT outside a transaction *is* a transaction: its RELEASE commits.
  `create_if_absent` and the shopping list's `create` use one, so a scan or a
  refresh commits those rows one at a time. ROLLBACK TO keeps the lock.
* SQLAlchemy writes a column only if it differs from the value that was loaded
  (`Flushed` in StockLedger, `Set` in LocationTree), and SQLite gives a new row
  the highest id plus one, so the id of a deleted last row is used again.

A behaviour is one of requests *one by one* or of requests that *overlap*: the variable
`overlap` says which, and is chosen at the start among the CONSTANT `Schedules`. In a household the first is what nearly always
happens and it is where the functional promises are checked; the second is what
the code permits, and the properties checked there are those that the tables'
constraints really secure. What breaks in between is listed under *Findings*.

## Inventory

| Part | State | Operations | What is hard | Module |
|---|---|---|---|---|
| Stock ledger: `services/stock_movement.py`, `services/stock_instance.py` | `stock_instances`, append-only `stock_movements`, tracking mode of a definition | intake, discard, adjust, move, consume (FEFO), reverse, create, patch, delete, mode change | cached quantity against ledger sum; guards on stale rows; undo; several lots in one consume; row ids reused | StockLedger |
| Low-stock episodes: `services/reminder_engine.py`, `repositories/notification.py` | notifications, keyed by user, definition, start, offset | scan (job and route), event hook of a movement, routing, repeats, closing | scan and hook interleave; scans that die half-way; missed days; recover and relapse on one day | LowStockEpisodes |
| Date and maintenance reminders: `services/reminder_engine.py`, `core/dates.py` | notifications, keyed by source, user, subject, date | the three other passes of the scan | once per subject and date; subjects without a foreign key; ids reused; month ends | DateReminders, Calendar |
| Maintenance schedules: `services/maintenance_schedule.py` | interval, due date, completion | create, edit, complete, delete | the date counts from the completion, not from the date before | DateReminders, Calendar |
| Inbox: `services/notification.py` | read and dismissed marks | mark, dismiss, one or all | a dismissed row must stay, or its reminder comes back | DateReminders |
| Delivery: `notifications/dispatcher.py`, `notifications/channels/` | `notification_deliveries` | dispatch over mail, webhook and MQTT | answers lost or late; death between a send and its record; one failing record takes the others along | DailyJob |
| Shopping list: `services/shopping_list.py` | `shopping_list_items`, auto-add setting | reconcile (hook, scan, refresh), add, check off, uncheck, remove, clear | three reconcilers at once; rows listed, then pruned by id; a checked row of what is still low | ShoppingList |
| Location tree: `services/location.py`, `services/tree.py` | parent, container link, placement of lots | create, move, link, delete; lots placed and removed | search query by query before the write; ORM cascade; a cycle is never left again | LocationTree |
| Category tree: `services/category.py` | parent; the category of a definition | the same mixin; definitions filed and deleted | the same, and definitions found through the subtree | CategoryTree |
| Accounts: `services/invitation.py`, `services/user_admin.py`, `auth/sessions.py`, `api/routes/auth.py` | users, one-time links (`user_tokens`), sessions, onboarding sentinel | set up, log in and out, invite, accept, reset, change password, demote, deactivate, delete, refresh, purge | the last administrator; a link used once; two pending links; sessions that outlive a password; ids reused | Accounts |
| Rate limiter: `core/rate_limit.py` | failures, lockouts and their end per key, in memory | check, register failure, clear | checked before and told after a slow hash; windows; doubling at its limits | RateLimit |
| Settings: `services/settings.py` | `settings`: key and text | PATCH, GET with the token it makes | zero, false, empty and absent; a key of an older version; read by whoever uses it | SettingsStore |
| Attachments, tags, notes, barcodes: `services/media_storage.py`, `services/attachment.py`, `services/tag.py`, ... | media rows, files, attachments; tags, links, notes, barcodes | upload, delete, retag, bind, cascade of an owner | file system and database diverge; deduplication against the last reference; owners without a foreign key | Belongings |
| MQTT bridge: `notifications/mqtt.py` | client, connected flag; retained state at the broker | start, reload, publish, commands | callbacks of an old client; two reloads; publications lost or overtaken | MqttBridge |
| Scheduler: `scheduler.py` | the job | start, daily run | its body is in LowStockEpisodes, DailyJob, ShoppingList and MqttBridge | partly |
| Item definitions and kinds | rows | create, update, delete | cascades, mode, responsible user: with the parts they touch | partly |
| Audit log, search, export, look-ups, language model client, front end, packaging | append-only rows, or none of their own | queries, outgoing calls, rendering | nothing stateful that another part depends on | not modelled |

How they interact: a discard, adjust or consume runs two *hooks* in its own
transaction, each in a savepoint that may fail alone: `evaluate_low_stock`
(LowStockEpisodes.Movement) and `reconcile_auto_items` (ShoppingList.Movement).
Intakes, undos and edits run none (`SilentChange` in both). The daily job and
`POST /reminders/run` run the scan, then the reconcile, then commit, then hand
the new notifications to the channels, then publish the state to MQTT. Saving MQTT
settings commits and reloads the bridge within the request. Checking a shopping row off makes a lot
with an intake. Deleting a definition or a lot clears what names it
without a foreign key (attachments, tags, notes, notifications) in the same
transaction, then unlinks files. A location may *be* a lot; deleting the lot clears that link.

## Modules

### StockLedger (with Sums, StockPromise, StockLedger_proofs, MCLedger)

`mode`, `lots`, `movements` are the tables of one definition; `inflight[r]` is
the unit of work that request `r` has prepared: the rows it loaded (`seen`), the
same rows as the session has changed them (`own`), the entries to append, and
what was asked (`ask`). A `Load...` action is everything a service method reads
and decides before its first write, one action per method; a `Commit...` action
is the flush and the commit: it appends the entries, recomputes each cached
quantity from the ledger (`Recomputed`), writes only columns that differ from
what was loaded (`Flushed`), and happens only if the table constraints hold
afterwards (`Constraints`). `FefoQueues` and `StillWanted` are the walk of
`consume_fifo`. `StockPromise` is the abstract specification: plain counters that
serve whole requests; one may be opened below zero, as the code lets it, and then only
an intake changes it while it stays there. `KeepsPromise` is the refinement:
the counter of a lot is its cached quantity, a wish is the `ask` in flight.

### LowStockEpisodes (with LowStockEpisodes_proofs, MCLowStockEpisodes)

`rows` maps the dedup keys of the committed low-stock notifications to open or
resolved. A key's fields are those of the code's string: user, definition, start
date, offset, and the number after `#`. A scan is a local record with a stage per
query of `run_scan` and `_evaluate_low_stock_for_user`; `writer` and `draft` are
the lock and the uncommitted table of a scan that has closed an episode. The hook
runs under the movement's lock and is one step. `ComputeLow` takes the low set
once, as the code does; Phase 1 opens or repeats, Phase 2 closes by the global
low set. `Dispatch` may lose what it hands over.

### ShoppingList (with ShoppingList_proofs)

`stock` is the total of each definition and decides `Low`; `rows` are the list's
rows. `Reconciled` is `reconcile_auto_items` when it runs under a lock (hook,
scan); the `Refresh...` actions are the same function query by query, for
`POST /shopping-list/refresh`, up to the first statement that takes the lock.
Requests on one row are a load and a write.

### LocationTree, CategoryTree (with Trees_proofs, MCTrees)

`locations` has each row's parent and container link, `lots` where lots are. A
`PATCH` is `LoadUpdate`, one `Walk` per query of `get_descendants`, `CheckUpdate`
or `Refuse`, `CommitUpdate`; a `DELETE` is its guards, the ORM's load of the
children, and the delete. Foreign keys and the unique index are checked by the
writes. `CategoryTree` extends it: `locations` are its `categories`, whose `PATCH` names
no lot (`Keep`), and there are definitions, whose foreign key restricts a delete
(`Filed`); `Listed` is the page of a category, `Roots` is where the page of the tree
begins. `MCTrees` runs one tree or the other, as `part` says, and keeps overlapping
requests to a smaller tree (`Bounded`).

### Accounts (with Accounts_proofs, MCAccounts)

`users`, `tokens`, `sessions` and `onboarded` are the tables; `inflight[r]` is what
request `r` has read and decided (the session it came with, the user and the links
found, the values wanted). `Load...` is the dependency `get_current_user` with the
permission, and the handler up to its first write, password hash included;
`Commit...` is the rest of it, the audit row (`Audited`: its foreign key refuses an
administrator who is gone) and the commit. A session with less than half of its
lifetime left is refreshed by `verify` itself, so such a request holds the writer
lock from the start (`locked`, `Free`). Ids of users and links are reused, as SQLite
does. A session row also remembers the password it was opened with (`secret`), for
`SessionsAreCurrent`, a part of `SupersededIsUseless`, only. `Restart` ends what is in progress and runs the two
purges of `main.py`. The role `viewer` is treated as `member`: neither may manage
users.

### RateLimit, SettingsStore (run with MCAccounts, proofs in Accounts_proofs)

`slots` is `_state`, one `_State` per key; `attempts` are the requests between
`auth_rate_limit` and the call that tells the limiter how it ended. `log`, when a key
failed since it last succeeded, serves `LockoutsHold` alone, whose reference (`Ends`)
finds the batches of failures in it without windows that slide. `Recent` is the
comprehension that forgets old failures: they are in the order of their times, so it
keeps a tail of them.

`table` holds texts; `drafts[r]` is what a request was sent, what it is about to write,
and the rows that `Session.merge` saw, one query each. `Read` is `_get_value`, `Shown`
what the page makes of it, and `Used` what the channels and the scans do: an empty
`topic_prefix` is stored and shown as it is, and used as `omniventory`
(`notifications/mqtt.py:699`). `Decode` goes by the type of the default, as the
code does. One setting of each kind (number, flag, text with and without default, text
that null clears, secret, the encryption with its older row) stands for all of it.
`asked`, what a PATCH last asked of a setting, serves `SettingsRemembered` alone. It is
taken from what was sent, not from what was written; by `Asks` a null asks to clear the
sender's name and nothing of any other setting, as the schemas have it, where the
docstrings promise more of a secret (see *Findings*).

### DateReminders, DailyJob (with Calendar, DailyJob_proofs, MCDailyJob)

`lots`, `tasks` (maintenance schedules), `rows` (notifications under their dedup keys)
and `jobs[j]`, where a run of the scan is: one step per pass, since every row is
committed by its own savepoint, with what was read before. A request is one step.
`Calendar` is `add_interval` on day numbers. DailyJob extends it by the dispatch: a job
may `Enter` a channel, and then takes one user's digest (`Mail`) or one notification
(`Post`, `Publish`) at a time, either without an attempt (`Skip`, `PassOver`) or with one
(`Attempt`, `Try`), of which `heard` has what the receiver got and `deliveries` what is
recorded. It may `Die` anywhere. `told` remembers each
row ever made; lots and tasks carry a number `no` that, unlike their ids, is not used
again. Both serve the properties alone.

### Belongings (with Belongings_proofs, MCBelongings)

`media` and `files` are the rows and what is on disk; `attachments`, `links`, `notes`
and `barcodes` hang on `owners`. A request loads, writes a file if it uploads, commits,
and unlinks; it may fail between any two of these. A refused tag link rolls back what
the session has done so far and goes on, as `TagLinkRepository.link` does (`Linked`). A tag's
name is a word, the case of its ASCII letters and the case of the others: SQLite's
`lower()`, by which the code looks a name up, folds the former only (`Folded`).

### MqttBridge (with MqttBridge_proofs, MCMqttBridge)

`bridge` is the object with its client and its flag, `clients` are the paho clients
alive, `broker` has the session and the retained state, `threads[t]` is a save, a scan
or the start of the process, stage by stage: `Take` is the first locked phase of
`start()`, `Join` and `Disconnect` stop the old client outside the lock, `Create` is
the second. Callbacks of any client may come at any time (`OnConnect`,
`OnDisconnect`, `Command`).

## Runs

| Run | Module | Bounds | What it shows |
|---|---|---|---|
| `ledger` | MCLedger | 3 lots with dates, 4 movements, one request at a time, amounts 0, 1, 3; or 2 lots with a serial, a place, a level, two modes; or 2 lots of which the first opens at -2; or 2 overlapping requests on 2 lots | the cached quantity is the ledger sum; nothing goes below zero, and what opens there is not drawn on; an undo undoes one entry, once; a cache only moves to the current sum; consume draws in expiry order; refinement of StockPromise |
| `episodes` | MCLowStockEpisodes | 2 users, offsets 1 and 2, 3 days, 4 changes, one scan at a time; or 2 overlapping scans, movements and one user, 2 days | one open episode per shortage, announced once; it ends on recovery only; a committed scan settles everything, missed repeats included; a lasting shortage is announced |
| `shopping` | ShoppingList | 2 definitions, 2 requests, both schedules, 4 changes | one auto row per definition, always; an undisturbed reconcile makes the list equal to the low set and prunes nothing else; shortages come (back) on the list, recovered items drop off |
| `trees` | MCTrees | 4 locations and a lot, or 4 categories and a definition, 7 changes; or 2 overlapping requests on 3 of them, 5 changes | foreign keys and the unique link, always; no cycle; moves are judged rightly at any depth; the search ends; a definition is found once, under each category above its own |
| `accounts` | MCAccounts | 2 e-mails, passwords, sessions and requests, both schedules, 6 requests, 2 ticks, symmetry; or 9 failures in 9 ticks by 2 attempts; or 3 named settings by 2 requests | onboarding once; a new account spends a link; the last administrator; what is superseded is useless; lockouts when and as long as they should be; a setting is shown and used as it was asked for |
| `mqtt_bridge` | MCMqttBridge | 2 threads, 4 configurations, 2 counts, 4 changes, saves one at a time | the bridge follows what is stored, with one client; the flag is that of the client; commands stop when they are disabled; the retained state catches up |
| `belongings` | MCBelongings | 2 contents, 2 ids, a tag name in 4 spellings of 2 folded forms, 2 requests, 6 in all | keys hold in any order; no reference loses its bytes, no litter without a failure, nothing outlives its owner, no two names that fold alike |
| `daily_job` | MCDailyJob | 1 lot and 1 schedule at a time, 2 users, 2 jobs, 30 and 31 January 2024, at most 2 notifications (1 with overlap); channels and requests mixed as `Mixed` says | nobody is left out, or told twice; the due date follows the calendar; each attempt leaves one outcome, and a true one |
| `ledger_race_cache`, `ledger_serial_stuck`, `episodes_blocked`, `occurrence_silent` | | smallest that fails | the findings below |

Why these bounds are enough. Three lots let a consume take the whole of one,
part of a second and none of a third, dated and not; four movements are
intake, draw, undo and a further one. Two users with a responsible one among
them show routing to one and to all; three days with offsets 1 and 2 show a
repeat, a missed one and the catching up. Four locations are the least at which
a search that stops at the children misses a cycle; three are enough for what two requests
do to each other. Six requests are set-up, login,
invitation, joining, and two more about the second account. With a threshold of 2
within 3 ticks and lockouts of 1, 2, 3 (the cap) and 3, nine failures pass the cap and
the last power of two. Three named settings are one set twice and another between.
Two ids let an owner or a media row be deleted and its id given away while another
stays. The two days of January let a monthly schedule go from the 30th and the 31st to
the end of February of a leap year, and every scan be repeated the day after. Four
changes of the bridge's world are a save, a failure, a restart and one more. Passwords,
sessions, requests, e-mails, contents, words, cases and users are only compared, so they are
symmetric, and no property of these runs is about liveness. Races need two actors; the
ones that the models have are all between two requests, or a request and a scan. A
run with several parts or several instances (`part`, `Bounded`, `Mixed`) is several
small instances side by side: parts share no state, and a CONSTRAINT selects by
values that do not change or by what is in the tables. Bounds are the constants
`Max...`; they stand in guards, never in the code's own conditions. Deadlock checking
is off only where all the work may be used up (the bound on changes) and everybody may
be idle for good.

Each property has a mutant (an operator with `_` in its name, next to the
definition it would replace): a plausible bug, such as a forgotten recompute,
with which TLC finds that property violated.

**Fairness.** `LowStockEpisodes!FairSpec`: the scheduler starts a scan every day
and a started scan runs on (weak fairness of each scan's steps). `ShoppingList!FairSpec`:
the daily job reconciles again and again, and a request that has begun ends.
`MCTrees!TreesSpec` (`LocationTree!FairSpec`): a request in progress goes on, where the
foreign key of the definitions lets it.
`MqttBridge!FairSpec`: a thread that has begun goes on, the clients' network loops
run, and the daily scan comes again. Users, the calendar, the broker, failures and
movements promise nothing. The failures of scans are bounded by `MaxChanges`, which
stands for "a scan does not fail for ever".

## Findings

Checked by a run that TLC finds violated:

* `ledger_race_cache` A recomputed sum that happens to equal the stale loaded
  value is not written, so the cache keeps what another request made of it.
* `ledger_serial_stuck` For a lot with a serial number the guards of discard,
  consume, adjust and undo accept what the table's CHECK then refuses.
* `episodes_blocked` A movement between a scan's look-up and its count opens a
  second episode; from then on every scan raises and other shortages are missed.
* `occurrence_silent` A schedule completed on the day of its early reminder gets the
  due date it had; the key exists, so the next occurrence is never announced.

Requests that overlap. The properties below are stated for requests one by one; to
see what overlap does, drop their condition on `overlap` and run the model.

* `NoCycles` (`services/tree.py:98`): two moves that both check before either writes
  put two locations under each other. The page of the tree shows neither, and the
  next search below them does not end.
* `NeverNegative`: two discards of the last unit both find it.
* `ReversalsUndo` (its part `UndoIsExact`): the id of a deleted movement is used again
  before the undo that loaded it is written. A lot may likewise be created while the
  tracking mode changes, and keep fields the new mode has no use for.
* `PrunesOnlyOpenAutoRows`: a row is checked off after it was listed for pruning
  (`services/shopping_list.py:447`), and deleted all the same.
* `EpisodesFollowStock`: a scan takes the low set once (`services/reminder_engine.py:368`);
  what recovers or runs short while it works is left to the next scan.
* `AdminRemains`: two administrators are demoted at once, each count still sees the
  other. A link replaced while it is being accepted: the new one has its id and is
  spent in its place.
* A category or location created under one that is being deleted, or moved there, goes
  with it by the ORM's cascade if the delete loads its children late enough.
* `NoClientLeaked` in MqttBridge with `Schedules = {TRUE}`: `start()` joins the old
  client outside the lock (`notifications/mqtt.py:165`), so of two reloads at once
  both install a client and one is never stopped, and goes on taking commands.
* `FilesMatchRows`: a file is unlinked after the commit that dropped its last
  reference, while the same bytes are uploaded again (`services/attachment.py:57`); or an
  upload finds a media row whose id is given to other bytes before it refers to it
  (`services/media_storage.py:299`).
* `BelongingsHaveOwners`: an owner is looked up (`services/owners.py:88`) and deleted before
  the attachment, note, tag link or upload that names it is written. Nothing refuses that,
  and the next owner, which may get the same id, finds what was meant for the other.
* `NamesDiffer`: two tags whose names differ in case are created at once; the unique
  constraint compares them as they are spelled.
* `GET /settings` makes a token when it saw none (`services/settings.py:625`) and may
  write it over one that a PATCH has named in the meantime.

Also without a run:

* `create()` records the quantity of a new lot without a check, so a request may open a
  lot below zero, which docs/plan/milestones/M2.md:229 rules out. The model opens such
  lots too: `NeverNegative` says that nothing else takes a lot there, and that nothing is
  taken from one that is.
* A delivery over MQTT is recorded as sent (`notifications/channels/mqtt.py:168`) whatever
  became of it: `publish_notification` returns without a word when the client is gone,
  and paho only queues what it gets. Line 21 there says that a failed publication is
  recorded as failed. `OutcomesAreTrue` speaks of mail and webhooks only.
* Failed deliveries are never tried again, since a dispatch is given new rows only; and
  a scan that dies between the rows it committed and their dispatch leaves rows that
  nobody announces (`ScanSettles` is about rows, `ToldOnce` says at most once).
* A tag link that is refused rolls the whole session back (`repositories/tag.py:174`),
  and what the request had done before is lost while it answers with success.
* Tags whose names differ in the case of a letter outside ASCII, such as `Käse` and `KÄSE`,
  are two tags, although `services/tag.py:56` and `models/tag.py:3` promise names that are
  unique whatever their case: `repositories/tag.py:51` compares them by SQLite's `lower()`.
  `NamesDiffer` speaks of ASCII letters only.
* `models/notification.py:11` and docs/plan/milestones/M7.md:104 say that notifications
  outlive their subject as a record of the past; the code deletes them with it, and so do
  the models. It must: ids are used again, and the record would silence another subject.
* JSON null does not clear a secret, although the docstrings of PATCH /settings and of
  `apply_update` (`services/settings.py:390`) say that it does: null and absent are one.
* After 1025 lockouts of a key without a success the limiter raises OverflowError before
  it locks (`core/rate_limit.py:158`) and never locks that key again.

The hazards in `PROJECT.json` point to the lines.

## Proofs

Proved with TLAPS, for every value of the constants:

* `StockLedger_proofs!TypeCorrect`, `CacheMovesOnlyToSum`: for any number of requests,
  in any interleaving. `TInv` extends the type invariant with the shape of prepared
  work: entries only for loaded rows, at most one per row, quantities never assigned
  by hand. Without it a commit could be of any type.
* `CacheIsLedgerSum`, `StockNeverNegative`: for requests one by one, whatever lots are
  opened with. The invariant `SInv` adds to `TInv` that the cache (NULL as zero) is the
  sum for *every* lot, that a lot below zero was opened there and has had only intakes
  and moves since (`DebtIsOpening`), and that work in flight is current: its rows are still
  the table's, and each entry leaves its row at zero or above, unless it only adds
  (`Leaves`).
  The commit then needs two lemmas on sums, `SumOfOtherLot` and `SumOfTouchedLot`,
  which rest on the lemmas about prefix sums at the head of the module (by induction
  through the well-founded minimum rather than the library's second-order rule).
* `StockLedger_proofs!UndoesOnceExactly`: what an undo is of. `EInv` says of the work
  in flight, and of the table, that an undo names an entry of the same lot with the
  opposite amount (`ExactUndo`); it is kept because, one by one, nothing is deleted
  between the load and the commit.
* `StockLedger_proofs!ImplementsPromise`: StockLedger implements
  StockPromise; where requests overlap the mapping shows nothing, so this too is about
  one request at a time. `PInv` adds to `SInv` that what is prepared is what is asked
  for (`AsAsked`) and that the mode says which lots are counted (`ModeDecides`: an undo
  has no guard on the mode, and needs none, because lots that are not counted have no
  movements). For a consume `AsAsked` says that the amounts its entries take add up to
  the amount asked for: by induction over the queue (`DrawnSum`) the sum of the takes is
  what was wanted less what is still wanted, and the loop stops where that is nothing
  (`DrawnPart`).
* `StockLedger_proofs!DrawsNearestFirst`: every active lot is in the queue
  (`QueueComplete`, by the pigeonhole principle), one that expires first is ahead, and a
  lot the loop has gone beyond has given all it has (`DrawnInOrder`).
* `LowStockEpisodes_proofs!TypeCorrect`, `AnnouncedOnce`: for any interleaving, except
  that one episode is open at a time, which needs that nothing overtakes a scan. `NInv`
  says where the rows that a scan has created are (in the table it reads), that what was
  announced is committed, and that the table of the lock holder has all of the committed
  one; so a row that `create_if_absent` calls new is nobody else's.
* `LowStockEpisodes_proofs!FollowsStock`: while nothing overtakes a scan. `SInv` has the
  openers of a day numbered below their count (`Numbered`), without which the key of the
  next opener could exist already and a shortage stay without an episode, and follows a
  scan pair by pair (`Progress`): whoever is to be told of a definition still waits, is
  the one the scan is at, or has his open episode with every repeat that is due; a user
  the scan is done with has nothing open that has recovered.
* `Trees_proofs!TypeCorrect`: any interleaving, the unique link of a lot included; the
  constraints do the work.
* `Trees_proofs!MovesMakeNoCycle`: for requests one by one, in trees of any size. `SInv`
  says that at most one request is in progress, and of a move that what the search
  has met, with what it has still to expand, has the children of the moved node and
  of every node expanded (`Searched`). When the frontier is empty the set met is
  closed under children, and `MoveKeepsAcyclic` shows that to hang a node under a
  parent outside a closed set around it makes no cycle: a set with no way out, cut
  by the closed set, had no way out before.
* `Trees_proofs!SearchComesToAnEnd`: each query of a search leaves fewer locations that it
  has not met, so that a search can only end; this is `WalkEnds` but for its fairness.
  `WInv` says that what is met and what is still to be expanded are apart, and that each of
  these is the child of a node expanded (`Onward`); a node met twice would then make the
  nodes expanded a set with no way out, which the tree does not have (`ChildrenAreNew`).
* `Trees_proofs!SearchJudgesMoves`, from the same invariants: a search that has ended has met
  the whole subtree and nothing else, so that a move is let through, or refused for its
  parent, exactly when it should be.
* `Trees_proofs!EveryItemStaysFiled`: the same invariants (every step of the categories
  is one of the tree, or leaves it alone), with the foreign key of the definitions. From them: if the set of what is under no root were
  not empty, one of its members would have a parent outside it, which is under a root;
  and the subtrees of two roots are apart, since nothing enters one but through its root.
* `ShoppingList_proofs!TypeCorrect` with `AlwaysOneAutoRow`: any interleaving. `TInv`
  has the unique index and the foreign key as parts (`TableOK`, `Rooted`), and each
  operator on the table a lemma that it keeps them. The heart is `SlotsDiffer`: the rows
  a reconcile opens, whose ids are counted by the missing definitions before them, do
  not fall on each other or on an existing row.
* `ShoppingList_proofs!ReconcilesExactly`, `PrunesNothingElse`: for a scan whatever
  interleaves, for a refresh if nothing overlaps it. `SInv` says what a refresh knows
  between its queries: its low set is still the low set, what it has gone over is on
  the list, and what it is about to create, reopen or prune is as it read it.
* `MqttBridge_proofs!TypeCorrect`: any interleaving of saves. `TInv` adds that a client
  being stopped is not the bridge's and is stopped by one thread.
* `MqttBridge_proofs!FollowsSettings`, `FlagIsCurrent`, `CommandsFollow`: for saves one by
  one (`~overlap`, as in the run). `Orderly` says that there is one reload and one
  client at most, that what a reload has read is what is stored, and that a flag that is
  up belongs to a client that is up; with one client only, no callback can be of another.

* `Accounts_proofs!TypeCorrect`: any interleaving; the unique key on e-mails and the
  foreign keys are conditions of the writes, and `TInv` adds what a request of each kind
  brings along and that nothing but set-ups is in progress before the onboarding (`Early`).
* `Accounts_proofs!NeverWithoutAdmin`, `NothingOutlived`, `JoinsOnlyByLink`: for requests
  one by one, the last also for what it says of any interleaving. `Prepared` is
  what a request may count on between its reads and its write: the row it loaded is the
  table's, the links it is to replace are all that are pending, the last-administrator
  guard still speaks of the administrators there are. Time only makes links lapse
  (`FewerLinks`), which leaves `Prepared` true.
* `Accounts_proofs!SettingsAreRemembered`: what `SettingsStore` answers is what was
  asked for last, or the default. MCAccounts runs three parts that share nothing but the schedule
  (`overlap`): a step of one leaves the tables of the others alone (`StepsOfAccounts`).
  `StoreInv` says which texts a row may hold, and, one by one, that there is one draft,
  that what it saw is what is there (`Current`), and that each row stands for what was
  asked for last (`Held`): a token that the code made up only where none is named. That the
  text a value was written as is read back as that value, null and the older encryption
  flag included, is `DecodeMeans`, `TokenMeans` and `ReadMeans`.
* `Accounts_proofs!LockedByBatches`: the limiter, which keeps a sliding window and a count,
  locks a key when a reader of the whole `log` would, and for as long. `LimiterInv` has the
  log in the order of time (`Chronicle`) and tells its story (`Story`): which failures
  ended the batches so far, that no other could have ended one, and that what the limiter
  still holds is what came after the last batch and is inside the window. A step tells
  the story on (`StoryGoesOn`); `EndsMeans` says that the reference `Ends` finds these
  batches and no others. The story is told of the doublings that the code can represent
  (`Within`; see the last finding). `Ends` and `Doubled` are recursive functions: that
  there are such functions is proved from the set of natural numbers up
  (`RecursionExists`), by an induction that speaks of sets (`NatSetInduction`), because the
  library's rule takes an operator.
* `Belongings_proofs!TypeCorrect`: any interleaving. `TInv` adds the bounds of the ids
  (`RowsNumbered`) and what a request in progress brings along (`Working`).
* `Belongings_proofs!FilesAlwaysMatchRows`, `NothingOutlivesItsOwner`, `NamesStayApart`:
  for requests one by one (`Alone`). `Pictured`: a media row stands for the bytes of each
  attachment and for nothing else, its file is there, and, unless some request has failed,
  a file without a row is one that a request in progress has just written or is about to
  unlink (`Afloat`). `Owned` says that what a request found out
  about an owner or a media row before it writes still holds when it does, `NamesHeld` the
  same of the names it found free: while names are apart, the first tag that is found
  under a name is the only one (`NotTakenIsFree`).
* `DailyJob_proofs!TypeCorrect`: any interleaving, death included. `TInv` has the keys of
  the inbox in step with what was told, and the rows a job holds uncommitted the last that
  were made, so that a death takes back these and no others.
* `DailyJob_proofs!CompletionSetsTheDate`: by arithmetic on the calendar: a day number
  is the day it names and back, for all dates (`FromToOrdinal`, `ToFromOrdinal`), months
  added end in the month that many later, on the same day or its last (`AddMonthsMeans`),
  hence `IntervalLater`.
* `DailyJob_proofs!NothingTwice`: any interleaving. `Hearing`: of what a job has
  made, a channel that is yet to come has sent nothing, and the one at work nothing that
  is left for it; and a new row is in the hands of one job only. `Keeping`: what was told of a subject that still lives
  still has its row, dismissed or not; what has its id now is another subject.
* `DailyJob_proofs!EachAttemptRecordedTruly`, `NobodyLeftOut`: `SentWasHeard` for any
  interleaving, the rest for jobs one by one (`Alone`). `Accounting` follows each new row
  through the channels: one record for those the job has passed (`Passed`), none for those
  to come. `Settling` follows each date that is near through the passes: still to be read,
  among what the pass asks for, or with its row.

The named assumptions on constants (`LedgerConstants`, `EpisodeConstants`,
`TreeConstants`, `ShoppingConstants`, `BridgeConstants`, `AccountConstants`,
`BelongingConstants`, `ReminderConstants`, `ChannelConstants`, `SettingsConstants`,
`LimiterConstants`) only give types, make bounds, lifetimes, thresholds and windows
positive, and keep `Null`, `None` and `Keep` apart from data; `ReminderConstants` also has
the first day after day 1, so that the day before it has a number.

Every safety property that a passing run checks is stated by a theorem. Only
model-checked are the liveness properties (`ShortageAnnounced`, `SerialShortageAnnounced`,
`ListCatchesUp`, `WalkEnds`, `StateCatchesUp`), which need fairness, and
`AcceptedWorkCommits`, which uses ENABLED.

## Abstractions

Amounts are integers of the smallest unit of `Numeric(18,6)`. Names, units, e-mail
texts and times of day are left out. Notifications are their keys, and their
ids are not used again. What makes a definition low is `LowStockService.compute`:
computed from `stock` in ShoppingList, free in LowStockEpisodes. In ShoppingList the
reconcile of a scan, which sits in a savepoint, and the hooks are one step.
`create_if_absent`'s SELECT and INSERT are one step; its conflict path would change only
who holds the lock. Lock timeouts are failures that may happen at any time. In
DateReminders a lot stands for itself and its definition, the rows a session keeps from
one pass to the next are read anew, and a request on a schedule or in the inbox is one
step. In Accounts a PATCH of a user sets one column, and the audit rows of failed
logins, which nothing depends on, are left out. In SettingsStore one setting of each
kind stands for all of them, and validation of single values is left out.

## Not modelled

* The audit log is append-only and nothing reads it back but its page; that its foreign
  key may refuse an administrator who is gone is in Accounts (`Audited`).
* Search, export, low-stock and expiry queries read only; what `compute` decides is in
  ShoppingList.
* Product look-up and the language model client are single outgoing calls with no state
  of their own; image decoding and thumbnails, schemas, error mapping and the texts of
  notifications are functions of one value.
* The scheduler's own timer (APScheduler) and the definitions' and kinds' other columns:
  what other parts depend on is in the modules the inventory names.
* The front end and the packaging hold none of the state above.

## Plan

What is left to check: the ledger composed with both hooks in one model, so that `low`
of LowStockEpisodes is computed and not free. What is left to prove: what the other
liveness properties rest on without fairness, as was done for the search of the tree;
and an abstract inbox that the reminders implement.

----------------------------- MODULE DateReminders -----------------------------
(***************************************************************************)
(* Reminders of dates: the best-before and warranty dates of lots and the  *)
(* due dates of their maintenance schedules, the scan that turns them into *)
(* rows of the users' inboxes (services/reminder_engine.py), and what      *)
(* users do to all of these.  The scan's low-stock pass is the subject of  *)
(* LowStockEpisodes; here it only matters that it may open a transaction.  *)
(*                                                                         *)
(* A job is one run of the scan, by the scheduler or on request, followed  *)
(* by the dispatch of its new rows (DailyJob).  A request is one step.     *)
(*                                                                         *)
(* Abstracted: a lot stands with its definition, `who` is the responsible  *)
(* user either of them names and `lead` the definition's; texts and other  *)
(* columns are left out; a pass reads lots as they are stored, where the   *)
(* session may still hold a lot as an earlier pass loaded it.              *)
(***************************************************************************)
EXTENDS Calendar, Sequences, FiniteSetsExt, Functions

CONSTANTS
  Users,
  Jobs,         \* runs of the scan that may be in progress together
  FirstDay, LastDay,  \* bounds on the days that pass, as ordinals
  Dates,        \* the dates users enter
  Intervals,    \* of maintenance: pairs of a unit and a count
  Leads,        \* lead times users enter
  GlobalLead,   \* source -> the lead time of the settings
  MaxId,        \* bound on the ids of lots and of schedules
  Null

Sources == {"best_before", "warranty"}

ASSUME ReminderConstants ==
  /\ FirstDay \in Nat /\ FirstDay > 1 /\ LastDay \in Nat
  /\ Dates \subseteq Nat /\ Leads \subseteq Nat
  /\ Intervals \subseteq Units \X (Nat \ {0})
  /\ GlobalLead \in [Sources \cup {"maintenance"} -> Nat]
  /\ MaxId \in Nat \ {0}
  /\ Null \notin Nat \cup Users \cup Jobs

VARIABLES
  today,    \* in the household's time zone
  users,    \* user -> status and lead times
  lots,     \* stock_instances: id -> row
  tasks,    \* maintenance_schedules: id -> row
  rows,     \* notifications: key -> row
  told,     \* every <<key, subject>> that was ever made a row, in order
  subjects, \* how many lots and schedules have ever been
  jobs,
  writer,   \* the job that holds SQLite's writer lock, or Null
  budget,   \* bound on the requests to come
  overlap   \* FALSE for jobs and requests one by one, TRUE for any order

subjectVars == <<users, lots, tasks, subjects>>
inboxVars == <<rows, told>>

\* A user is inactive, wants nothing, wants the inbox only, or mail as well.
Statuses == {"inactive", "silent", "inbox", "mail"}
User == [status : Statuses, lead : [Sources -> Leads \cup {Null}]]

\* `no` tells apart subjects that had the same id.
Lot == [no : Nat, date : [Sources -> Dates \cup {Null}], live : BOOLEAN,
        who : Users \cup {Null}, lead : Leads \cup {Null}]

\* `since` is the completion and interval the due date still follows from.
Task == [no : Nat, lot : Nat, due : Nat, interval : Intervals, lead : Leads \cup {Null},
         active : BOOLEAN, since : {<<>>} \cup (Nat \X Intervals)]

\* The dedup key: source, recipient, id of the subject, date.
Key == (Sources \cup {"maintenance"}) \X Users \X Nat \X Nat

\* `nr` stands for the id.
Row == [nr : Nat, read : BOOLEAN, dismissed : BOOLEAN]

-----------------------------------------------------------------------------
(* Who is reminded of what, and when *)

Active(us) == {u \in Users : us[u].status # "inactive"}

RecipientsFor(us, who) == IF who \in Active(us) THEN {who} ELSE Active(us)

\* Those of them who want to be told at all.
Told(us, who) == {u \in RecipientsFor(us, who) : us[u].status # "silent"}

ResolveLead(source, lot, user) ==
  IF lot.lead # Null THEN lot.lead
  ELSE IF user.lead[source] # Null THEN user.lead[source]
  ELSE GlobalLead[source]

\* The rows a pass of the scan asks for on a day, with their subjects.
DueDates(us, source, day) ==
  UNION {LET lot == lots[i] IN
         {<<<<source, u, i, lot.date[source]>>, lot.no>> :
            u \in {u \in Told(us, lot.who) : day >= lot.date[source] - ResolveLead(source, lot, us[u])}} :
           i \in {i \in DOMAIN lots : lots[i].live /\ lots[i].date[source] # Null}}

DueTasks(us, day) ==
  UNION {LET task == tasks[s] IN
         {<<<<"maintenance", u, s, task.due>>, task.no>> : u \in Told(us, lots[task.lot].who)} :
           s \in {s \in DOMAIN tasks :
                    /\ tasks[s].active
                    /\ day >= tasks[s].due - (IF tasks[s].lead = Null THEN GlobalLead["maintenance"]
                                              ELSE tasks[s].lead)}}

-----------------------------------------------------------------------------
(* The scan *)

Idle == [at |-> "idle"]
Quiet == \A j \in Jobs : jobs[j] = Idle
Free(j) == writer \in {Null, j}

Become(j, job) == jobs' = [jobs EXCEPT ![j] = job]

\* A row is added under a key that is not in use.
Insert(table, key, row) ==
  [k \in DOMAIN table \cup {key} |-> IF k = key THEN row ELSE table[k]]

\* The users are read once; `due` is what the current pass has yet to make,
\* `made` the numbers of the new rows, `held` those not yet committed.
Begin(j) ==
  /\ jobs[j] = Idle
  /\ ~overlap => Quiet
  /\ Become(j, [at |-> "scan", day |-> today, users |-> users,
                passes |-> <<"best_before", "warranty", "low_stock", "maintenance">>,
                due |-> {}, made |-> {}, held |-> {}])
  /\ UNCHANGED <<today, subjectVars, inboxVars, writer, budget, overlap>>

\* What a pass asks for; nothing of this kind if it is the one for low stock.
Asked(job, pass) ==
  IF pass \in Sources THEN DueDates(job.users, pass, job.day)
  ELSE IF pass = "maintenance" THEN DueTasks(job.users, job.day)
  ELSE {}

\* The next pass reads its subjects, or sees to low stock: if that writes
\* outside a savepoint, the job holds the lock from then on.
Pass(j) ==
  LET job == jobs[j]
      pass == Head(job.passes)
  IN  /\ job.at = "scan" /\ job.due = {} /\ job.passes # <<>>
      /\ Become(j, [job EXCEPT !.passes = Tail(@), !.due = Asked(job, pass)])
      /\ \/ UNCHANGED writer
         \/ pass = "low_stock" /\ Free(j) /\ writer' = j
      /\ UNCHANGED <<today, subjectVars, inboxVars, budget, overlap>>

\* create_if_absent for one of them, committed with its savepoint unless the
\* job holds a transaction open.
Make(j) ==
  /\ jobs[j].at = "scan" /\ Free(j)
  /\ \E d \in jobs[j].due :
       LET k == d[1]
           nr == Len(told) + 1
           job == [jobs[j] EXCEPT !.due = @ \ {d}]
       IN  \/ k \in DOMAIN rows /\ Become(j, job) /\ UNCHANGED inboxVars
           \/ /\ k \notin DOMAIN rows
              /\ rows' = Insert(rows, k, [nr |-> nr, read |-> FALSE, dismissed |-> FALSE])
              /\ told' = Append(told, d)
              /\ Become(j, [job EXCEPT !.made = @ \cup {nr},
                                       !.held = IF writer = j THEN @ \cup {nr} ELSE @])
  /\ UNCHANGED <<today, subjectVars, writer, budget, overlap>>

Scanned(j) == jobs[j].at = "scan" /\ jobs[j].due = {} /\ jobs[j].passes = <<>>

\* Take back the rows numbered in nrs, the last that were made.
Forget(nrs) ==
  /\ rows' = Restrict(rows, {k \in DOMAIN rows : rows[k].nr \notin nrs})
  /\ told' = SubSeq(told, 1, Len(told) - Cardinality(nrs))

\* Mutant: the transaction stays open.
Release_Late(j) == UNCHANGED writer

Release(j) == writer' = IF writer = j THEN Null ELSE writer

-----------------------------------------------------------------------------
(* Requests *)

Request ==
  /\ budget > 0 /\ budget' = budget - 1
  /\ ~overlap => Quiet
  /\ writer = Null
  /\ UNCHANGED <<today, jobs, writer, overlap>>

NextId(table) == Max(DOMAIN table \cup {0}) + 1

\* A PATCH of several columns is taken for several of one.
SetUser(u) ==
  /\ Request
  /\ \/ \E status \in Statuses : users' = [users EXCEPT ![u].status = status]
     \/ \E source \in Sources, lead \in Leads \cup {Null} :
          users' = [users EXCEPT ![u].lead[source] = lead]
  /\ users' # users
  /\ UNCHANGED <<lots, tasks, subjects, inboxVars>>

CreateLot ==
  /\ Request
  /\ NextId(lots) <= MaxId
  /\ \E date \in [Sources -> Dates \cup {Null}], who \in Users \cup {Null}, lead \in Leads \cup {Null} :
       lots' = Insert(lots, NextId(lots),
                 [no |-> subjects + 1, date |-> date, live |-> TRUE, who |-> who, lead |-> lead])
  /\ subjects' = subjects + 1
  /\ UNCHANGED <<users, tasks, inboxVars>>

\* PATCH of the lot or its definition, or a movement.
EditLot(i) ==
  /\ Request
  /\ \/ \E source \in Sources, date \in Dates \cup {Null} :
          lots' = [lots EXCEPT ![i].date[source] = date]
     \/ \E who \in Users \cup {Null} : lots' = [lots EXCEPT ![i].who = who]
     \/ \E lead \in Leads \cup {Null} : lots' = [lots EXCEPT ![i].lead = lead]
     \/ lots' = [lots EXCEPT ![i].live = ~@]
  /\ lots' # lots
  /\ UNCHANGED <<users, tasks, subjects, inboxVars>>

TasksOf(i) == {s \in DOMAIN tasks : tasks[s].lot = i}

\* delete_for_subject for lots is and schedules ss.
Clear(is, ss) ==
  /\ rows' = Restrict(rows, {k \in DOMAIN rows : k[3] \notin IF k[1] = "maintenance" THEN ss ELSE is})
  /\ UNCHANGED told

\* Mutant: the schedules go with the lot, their rows stay.
DeleteLot_LeavesRows(i) ==
  /\ Request
  /\ lots' = Restrict(lots, DOMAIN lots \ {i})
  /\ tasks' = Restrict(tasks, DOMAIN tasks \ TasksOf(i))
  /\ Clear({i}, {})
  /\ UNCHANGED <<users, subjects>>

DeleteLot(i) ==
  /\ Request
  /\ lots' = Restrict(lots, DOMAIN lots \ {i})
  /\ tasks' = Restrict(tasks, DOMAIN tasks \ TasksOf(i))
  /\ Clear({i}, TasksOf(i))
  /\ UNCHANGED <<users, subjects>>

CreateTask ==
  /\ Request
  /\ NextId(tasks) <= MaxId
  /\ \E i \in DOMAIN lots, due \in Dates, interval \in Intervals, lead \in Leads \cup {Null} :
       tasks' = Insert(tasks, NextId(tasks),
                  [no |-> subjects + 1, lot |-> i, due |-> due, interval |-> interval,
                   lead |-> lead, active |-> TRUE, since |-> <<>>])
  /\ subjects' = subjects + 1
  /\ UNCHANGED <<users, lots, inboxVars>>

EditTask(s) ==
  /\ Request
  /\ \/ \E due \in Dates \ {tasks[s].due} :
          tasks' = [tasks EXCEPT ![s].due = due, ![s].since = <<>>]
     \/ \E interval \in Intervals : tasks' = [tasks EXCEPT ![s].interval = interval]
     \/ \E lead \in Leads \cup {Null} : tasks' = [tasks EXCEPT ![s].lead = lead]
     \/ tasks' = [tasks EXCEPT ![s].active = ~@]
  /\ tasks' # tasks
  /\ UNCHANGED <<users, lots, subjects, inboxVars>>

DeleteTask(s) ==
  /\ Request
  /\ tasks' = Restrict(tasks, DOMAIN tasks \ {s})
  /\ Clear({}, {s})
  /\ UNCHANGED <<users, lots, subjects>>

\* POST .../complete: on the day given or, by default, the server's, which
\* may be a day off the household's.
CompleteTask(s) ==
  /\ Request
  /\ \E on \in today - 1 .. today + 1 :
       LET interval == tasks[s].interval
       IN  tasks' = [tasks EXCEPT ![s].since = <<on, interval>>,
                       ![s].due = AddInterval(on, interval[1], interval[2])]
  /\ UNCHANGED <<users, lots, subjects, inboxVars>>

\* One row, or all of a user, marked read or dismissed.
Mark(ks, read, dismissed) ==
  /\ Request
  /\ rows' = [k \in DOMAIN rows |->
                IF k \notin ks THEN rows[k]
                ELSE [rows[k] EXCEPT !.read = @ \/ read, !.dismissed = @ \/ dismissed]]
  /\ rows' # rows
  /\ UNCHANGED <<subjectVars, told>>

InboxOf(u) == {k \in DOMAIN rows : k[2] = u}
MarkRead(k) == Mark({k}, TRUE, FALSE)
MarkAllRead(u) == Mark(InboxOf(u), TRUE, FALSE)

\* Mutant: a dismissed row is deleted.
Dismiss_Deletes(k) ==
  /\ Request
  /\ rows' = Restrict(rows, DOMAIN rows \ {k})
  /\ UNCHANGED <<subjectVars, told>>

Dismiss(k) == Mark({k}, FALSE, TRUE)
DismissAll(u) == Mark(InboxOf(u), FALSE, TRUE)

NextDay ==
  /\ today < LastDay
  /\ today' = today + 1
  /\ UNCHANGED <<subjectVars, inboxVars, jobs, writer, budget, overlap>>

Requested ==
  \/ \E u \in Users : SetUser(u) \/ MarkAllRead(u) \/ DismissAll(u)
  \/ CreateLot \/ CreateTask
  \/ \E i \in DOMAIN lots : EditLot(i) \/ DeleteLot(i)
  \/ \E s \in DOMAIN tasks : EditTask(s) \/ DeleteTask(s) \/ CompleteTask(s)
  \/ \E k \in DOMAIN rows : MarkRead(k) \/ Dismiss(k)
=============================================================================

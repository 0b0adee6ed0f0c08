------------------------------- MODULE DailyJob -------------------------------
(***************************************************************************)
(* The daily job (scheduler.py) and POST /reminders/run: a scan of         *)
(* DateReminders, then the dispatch of its new rows to the channels, one   *)
(* after the other (notifications/dispatcher.py and channels/).  Each      *)
(* attempt is recorded in notification_deliveries; the first record takes  *)
(* the writer lock, which the job keeps until its last commit.             *)
(*                                                                         *)
(* A job may die at any point: the process is killed, or an exception      *)
(* rolls its transaction back.                                             *)
(*                                                                         *)
(* Abstracted: what a message says; ids of notifications are not used      *)
(* again; whether a channel is enabled is read afresh at each dispatch.    *)
(***************************************************************************)
EXTENDS DateReminders, Bags

CONSTANT
  Settings  \* of a behaviour: configured channels, overlap, and a bound on requests

Channels == <<"email", "http", "mqtt">>

ASSUME ChannelConstants ==
  Settings \subseteq [channels : SUBSET Range(Channels), overlap : BOOLEAN, requests : Nat]

VARIABLES
  configured,  \* the channels that may be enabled; chosen at the start
  deliveries,  \* notification_deliveries: <<notification, channel, status>>
  heard        \* bag of the <<notification, channel>> that a receiver got

\* What no dispatch changes, unless it dies.
household == <<today, subjectVars, inboxVars, budget, overlap, configured>>

vars == <<household, jobs, writer, deliveries, heard>>

Numbers == {rows[k].nr : k \in DOMAIN rows}

\* Of the notifications in nrs those of user u.
Recipient(n) == told[n][1][2]
Of(u, nrs) == {n \in nrs : Recipient(n) = u}

\* Rows of notification_deliveries go with their notification.
Cascade == deliveries' = {d \in deliveries : d[1] \in {rows'[k].nr : k \in DOMAIN rows'}}

ExistsSent(n, channel) == <<n, channel, "sent">> \in deliveries

-----------------------------------------------------------------------------
(* Dispatch *)

\* The rows are committed.  `channels` are yet to come, `left` is what the
\* first of them has yet to take, once it is entered, `used` those that were
\* enabled, `known` the rows that were read since the commit and `written`
\* the deliveries that are not committed.
Commit(j) ==
  /\ Scanned(j)
  /\ Become(j, IF jobs[j].made = {} THEN Idle
               ELSE [at |-> "dispatch", made |-> jobs[j].made, channels |-> Channels,
                     left |-> {}, used |-> {}, known |-> {}, written |-> {}])
  /\ Release(j)
  /\ UNCHANGED <<household, deliveries, heard>>

\* Job j is with the channel.
With(j, channel) == jobs[j].at = "dispatch" /\ jobs[j].left # {} /\ Head(jobs[j].channels) = channel

\* What is left for the channel; with nothing left, the next one's turn.
Leave(job, left) ==
  [job EXCEPT !.left = left, !.channels = IF left = {} THEN Tail(@) ELSE @]

\* A row that was deleted before it was read raises out of the channel.
Readable(job, n) == n \in Numbers \cup job.known

\* is_enabled of the next channel, and the start of its deliver, which asks
\* webhook and broker once more: the mail channel reads every row before it
\* sends.
Enter(j) ==
  LET job == jobs[j]
      channel == Head(job.channels)
      entered == [job EXCEPT !.used = @ \cup {channel}]
  IN  /\ job.at = "dispatch" /\ job.left = {} /\ job.channels # <<>>
      /\ \/ Become(j, Leave(job, {}))
         \/ /\ channel = "email" /\ channel \in configured
            /\ Become(j, IF \A n \in job.made : Readable(job, n)
                         THEN [entered EXCEPT !.left = job.made, !.known = job.made]
                         ELSE Leave(entered, {}))
         \/ /\ channel # "email" /\ channel \in configured
            /\ Become(j, [entered EXCEPT !.left = job.made])
      /\ UNCHANGED <<household, writer, deliveries, heard>>

\* The channel is done with nrs without an attempt.
Skip(j, nrs) ==
  /\ Become(j, Leave(jobs[j], jobs[j].left \ nrs))
  /\ UNCHANGED <<writer, deliveries, heard>>

Hear(nrs, channel) == heard' = heard (+) SetToBag(nrs \X {channel})

Recorded(nrs, channel, status) == nrs \X {channel} \X {status}

\* One message for pending, of the notifications nrs: a receiver gets it or
\* not, and each is recorded, which needs their rows and the lock.
Attempt(j, nrs, pending, channel, status, got) ==
  LET written == Recorded(pending, channel, status)
  IN  /\ pending \subseteq Numbers /\ Free(j)
      /\ IF got THEN Hear(pending, channel) ELSE UNCHANGED heard
      /\ deliveries' = deliveries \cup written
      /\ writer' = j
      /\ Become(j, [Leave(jobs[j], jobs[j].left \ nrs) EXCEPT
                      !.written = @ \cup written, !.known = @ \cup nrs])

\* The next notification.
Turn(j) == Min(jobs[j].left)

\* The digest of the next user: nothing if all is sent, or if they want no mail
\* (an account that was deactivated since may be of either kind).
Mail(j) ==
  LET u == Recipient(Turn(j))
      mine == Of(u, jobs[j].left)
      pending == {n \in mine : ~ExistsSent(n, "email")}
  IN  /\ With(j, "email")
      /\ \/ (pending = {} \/ users[u].status # "mail") /\ Skip(j, mine)
         \/ /\ pending # {} /\ users[u].status \in {"mail", "inactive"}
            /\ \/ Attempt(j, mine, pending, "email", "sent", TRUE)
               \/ \E got \in BOOLEAN : Attempt(j, mine, pending, "email", "failed", got)
      /\ UNCHANGED household

\* The other channels take notifications one by one.  They pass over one that they
\* have sent, and give up at one that is gone.
PassOver(j, channel) ==
  LET n == Turn(j)
  IN  /\ With(j, channel)
      /\ \/ Readable(jobs[j], n) /\ ExistsSent(n, channel) /\ Skip(j, {n})
         \/ ~Readable(jobs[j], n) /\ Skip(j, jobs[j].left)

Try(j, channel, status, got) ==
  LET n == Turn(j)
  IN  /\ With(j, channel)
      /\ Readable(jobs[j], n) /\ ~ExistsSent(n, channel)
      /\ Attempt(j, {n}, {n}, channel, status, got)

\* Mutant: the outcome is recorded before the response is in.
Post_RecordsFirst(j) ==
  /\ PassOver(j, "http") \/ \E got \in BOOLEAN : Try(j, "http", "sent", got)
  /\ UNCHANGED household

\* The webhook: a 2xx answer is a success; a refused URL, an error or no
\* answer in time is a failure, whether the receiver got it or not.
Post(j) ==
  /\ \/ PassOver(j, "http")
     \/ Try(j, "http", "sent", TRUE)
     \/ \E got \in BOOLEAN : Try(j, "http", "failed", got)
  /\ UNCHANGED household

\* The broker: publish_notification returns in silence when the bridge is not
\* connected, and swallows what the client raises.
Publish(j) ==
  /\ PassOver(j, "mqtt") \/ \E got \in BOOLEAN : Try(j, "mqtt", "sent", got)
  /\ UNCHANGED household

Dispatched(j) == jobs[j].at = "dispatch" /\ jobs[j].channels = <<>>

\* The deliveries are committed.
Finish(j) ==
  /\ Dispatched(j)
  /\ Become(j, Idle)
  /\ Release(j)
  /\ UNCHANGED <<household, deliveries, heard>>

\* The job dies, with what it has not committed.  It may have been sending: a
\* delivery of a row deleted meanwhile fails on the foreign key, and that
\* brings down the rest of the dispatch.
Die(j) ==
  LET job == jobs[j]
      sending == IF job.at # "dispatch" \/ job.left = {} THEN {}
                 ELSE IF With(j, "email") THEN Of(Recipient(Turn(j)), job.left)
                 ELSE {n \in {Turn(j)} : Readable(job, n)}
  IN  /\ job # Idle
      /\ Become(j, Idle)
      /\ Release(j)
      /\ IF job.at = "scan" THEN Forget(job.held) ELSE UNCHANGED inboxVars
      /\ deliveries' = IF job.at = "scan" THEN deliveries ELSE deliveries \ job.written
      /\ \/ UNCHANGED heard
         \/ /\ sending # {}
            /\ Hear({n \in sending : ~ExistsSent(n, Head(job.channels))}, Head(job.channels))
      /\ UNCHANGED <<today, subjectVars, budget, overlap, configured>>

-----------------------------------------------------------------------------

\* A household with a lot, which may have a schedule.
Init ==
  /\ today = FirstDay
  /\ users = [u \in Users |-> [status |-> "mail", lead |-> [s \in Sources |-> Null]]]
  /\ \E date \in [Sources -> Dates \cup {Null}], who \in Users \cup {Null} :
       lots = [i \in {1} |-> [no |-> 1, date |-> date, live |-> TRUE, who |-> who, lead |-> Null]]
  /\ \/ tasks = <<>> /\ subjects = 1
     \/ /\ \E due \in Dates, interval \in Intervals :
             tasks = [i \in {1} |-> [no |-> 2, lot |-> 1, due |-> due, interval |-> interval,
                                     lead |-> Null, active |-> TRUE, since |-> <<>>]]
        /\ subjects = 2
  /\ rows = <<>> /\ told = <<>>
  /\ jobs = [j \in Jobs |-> Idle]
  /\ writer = Null
  /\ \E s \in Settings : configured = s.channels /\ overlap = s.overlap /\ budget = s.requests
  /\ deliveries = {}
  /\ heard = EmptyBag

\* A step of DateReminders.
Reminding ==
  /\ \/ Requested
     \/ NextDay
     \/ \E j \in Jobs : Begin(j) \/ Pass(j) \/ Make(j)
  /\ Cascade /\ UNCHANGED <<configured, heard>>

Dispatching(j) ==
  \/ Commit(j) \/ Enter(j) \/ Mail(j) \/ Post(j) \/ Publish(j) \/ Finish(j) \/ Die(j)

Next == Reminding \/ \E j \in Jobs : Dispatching(j)

Spec == Init /\ [][Next]_vars

-----------------------------------------------------------------------------
(* Properties *)

\* Tables, work in progress and ghosts are of their types; one job writes at a
\* time, and the rows in the inboxes are the ones that were told.
TypeOK ==
  /\ users \in [Users -> User]
  /\ \A i \in DOMAIN lots : i \in 1 .. MaxId /\ lots[i] \in Lot
  /\ \A s \in DOMAIN tasks : s \in 1 .. MaxId /\ tasks[s] \in Task /\ tasks[s].lot \in DOMAIN lots
  /\ \A k \in DOMAIN rows : k \in Key /\ rows[k] \in Row /\ told[rows[k].nr][1] = k
  /\ writer \in Jobs => jobs[writer] # Idle
  /\ \A d \in deliveries : d[1] \in Numbers /\ d[3] \in {"sent", "failed"}

\* Whether user u is one to be told of what the user who is responsible for.
Concerns(u, who) ==
  /\ users[u].status \in {"inbox", "mail"}
  /\ who \notin {Null, u} => users[who].status = "inactive"

Reminded(u, source, id, date, no) ==
  LET k == <<source, u, id, date>> IN k \in DOMAIN rows /\ told[rows[k].nr] = <<k, no>>

\* A scan that is through leaves nobody out: whoever a date that is near
\* concerns has a row for it, and not one of an earlier lot or schedule that
\* had the same id.
ScanSettles ==
  ~overlap => \A j \in Jobs : Scanned(j) =>
    /\ \A i \in DOMAIN lots, source \in Sources, u \in Users :
         LET lot == lots[i] IN
         (/\ lot.live /\ lot.date[source] # Null /\ Concerns(u, lot.who)
          /\ jobs[j].day + ResolveLead(source, lot, users[u]) >= lot.date[source])
           => Reminded(u, source, i, lot.date[source], lot.no)
    /\ \A s \in DOMAIN tasks, u \in Users :
         LET task == tasks[s]
             lead == IF task.lead = Null THEN GlobalLead["maintenance"] ELSE task.lead
         IN  (task.active /\ Concerns(u, lots[task.lot].who) /\ jobs[j].day + lead >= task.due)
               => Reminded(u, "maintenance", s, task.due, task.no)

Living == {lots[i].no : i \in DOMAIN lots} \cup {tasks[s].no : s \in DOMAIN tasks}

\* What a user was reminded of once, and may have dismissed, is not brought up
\* again as long as its subject exists.
RemindedOnce ==
  \A m, n \in DOMAIN told : m # n /\ told[m] = told[n] => told[m][2] \notin Living

\* Months and years after `on`: the last day of that month which is not beyond
\* the day of the month it is counted from.
Follows(due, on, interval) ==
  LET from == FromOrdinal(on)
      to == FromOrdinal(due)
      months == IF interval[1] = "month" THEN interval[2] ELSE 12 * interval[2]
  IN  CASE interval[1] = "day" -> due = on + interval[2]
        [] interval[1] = "week" -> due = on + 7 * interval[2]
        [] OTHER ->
             /\ 12 * to.year + to.month = 12 * from.year + from.month + months
             /\ to.day <= from.day
             /\ LET next == FromOrdinal(due + 1) IN next.month = to.month => next.day > from.day

\* Until it is moved by hand, the due date of a schedule is one interval after
\* its last completion, whatever the months and days in between.
DueFollowsCompletion ==
  \A s \in DOMAIN tasks :
    tasks[s].since # <<>> => Follows(tasks[s].due, tasks[s].since[1], tasks[s].since[2])

\* No receiver gets a notification twice over one channel, whoever scans,
\* dies, deletes or sends at the same time.
HeardOnce == heard = SetToBag(BagToSet(heard))

\* One notification for one reason, and one message of it.
ToldOnce == RemindedOnce /\ HeardOnce

\* A job that is through with its dispatch leaves, for each new row and each
\* channel that was enabled and concerned, exactly one outcome.
OutcomeRecorded ==
  ~overlap => \A j \in Jobs : Dispatched(j) =>
    \A n \in jobs[j].made, channel \in jobs[j].used :
      (channel = "email" => users[Recipient(n)].status = "mail")
        => Cardinality({d \in deliveries : d[1] = n /\ d[2] = channel}) = 1

\* What mail and webhook record as sent has arrived.
SentWasHeard ==
  \A d \in deliveries : d[3] = "sent" /\ d[2] # "mqtt" => BagIn(<<d[1], d[2]>>, heard)

\* Each attempt leaves one record, and the record does not claim too much.
OutcomesAreTrue == OutcomeRecorded /\ SentWasHeard

\* Completing a schedule gives its next occurrence a key that no row has.
\* (It may not: see the README.)
FreshOccurrence ==
  [][\A s \in DOMAIN tasks \cap DOMAIN tasks' :
       tasks'[s].since \notin {<<>>, tasks[s].since} =>
         \A u \in Users : <<"maintenance", u, s, tasks'[s].due>> \notin DOMAIN rows]_vars
=============================================================================

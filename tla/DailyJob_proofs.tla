-------------------------- MODULE DailyJob_proofs --------------------------
(***************************************************************************)
(* Theorems about the daily job, for every set of users, jobs, dates and   *)
(* intervals and every setting: first the calendar, then what the tables   *)
(* and the work in progress hold, what is told and heard once, and, for    *)
(* jobs and requests that do not overlap, that each attempt leaves one     *)
(* outcome and each scan leaves nobody out.                                *)
(***************************************************************************)
EXTENDS DailyJob, FiniteSetTheorems, TLAPS

-----------------------------------------------------------------------------
(* The inductive type invariant: what a job carries at each of its stages, *)
(* and which numbers are whose.                                            *)

ChannelNames == {"email", "http", "mqtt"}
Outcomes == {"sent", "failed"}

\* What is left of the passes of a scan, and of the channels of a dispatch.
Rounds ==
  {<<"best_before", "warranty", "low_stock", "maintenance">>,
   <<"warranty", "low_stock", "maintenance">>, <<"low_stock", "maintenance">>,
   <<"maintenance">>, <<>>}
Routes == {<<"email", "http", "mqtt">>, <<"http", "mqtt">>, <<"mqtt">>, <<>>}

ScanJob ==
  [at : {"scan"}, day : Nat, users : [Users -> User], passes : Rounds,
   due : SUBSET (Key \X Nat), made : SUBSET Nat, held : SUBSET Nat]

DispatchJob ==
  [at : {"dispatch"}, made : SUBSET Nat, channels : Routes, left : SUBSET Nat,
   used : SUBSET ChannelNames, known : SUBSET Nat,
   written : SUBSET (Nat \X ChannelNames \X Outcomes)]

Made(job) == IF job.at = "idle" THEN {} ELSE job.made

\* Numbers that are not committed are the last, and their job holds the lock;
\* what a scan has made is not sent yet.
JobOK(j) ==
  LET job == jobs[j] IN
  /\ job \in {Idle} \cup ScanJob \cup DispatchJob
  /\ Made(job) \subseteq 1 .. Len(told)
  /\ job.at = "dispatch" =>
       job.made # {} /\ job.left \subseteq job.made /\ (job.left # {} => job.channels # <<>>)
  /\ job.at = "scan" =>
       /\ job.held \subseteq job.made
       /\ job.held # {} => writer = j
       /\ \E h \in 0 .. Len(told) : job.held = h + 1 .. Len(told)
       /\ \A d \in deliveries : d[1] \notin job.made

Working ==
  /\ jobs = [j \in Jobs |-> jobs[j]]
  /\ \A j \in Jobs : JobOK(j)
  /\ \A i, j \in Jobs : i # j => Made(jobs[i]) \cap Made(jobs[j]) = {}
  /\ writer \in Jobs \cup {Null}

SubjectsOK ==
  /\ subjects \in Nat
  /\ users \in [Users -> User]
  /\ \A i \in DOMAIN lots : i \in 1 .. MaxId /\ lots[i] \in Lot
  /\ \A s \in DOMAIN tasks : s \in 1 .. MaxId /\ tasks[s] \in Task /\ tasks[s].lot \in DOMAIN lots

InboxOK ==
  /\ told \in Seq(Key \X Nat)
  /\ \A k \in DOMAIN rows :
       k \in Key /\ rows[k] \in Row /\ rows[k].nr \in 1 .. Len(told) /\ told[rows[k].nr][1] = k

Delivered ==
  /\ deliveries \subseteq Nat \X ChannelNames \X Outcomes
  /\ \A d \in deliveries : d[1] \in Numbers

TInv ==
  /\ today \in Nat /\ today > 1
  /\ SubjectsOK /\ InboxOK /\ Delivered /\ Working
  /\ writer \in Jobs => jobs[writer] # Idle

-----------------------------------------------------------------------------
(* Subjects: lots and schedules that exist, and what a request does to     *)
(* them and to the rows that name them.                                    *)

Alive == ({"lot"} \X DOMAIN lots) \cup ({"task"} \X DOMAIN tasks)
NoOf(s) == IF s[1] = "lot" THEN lots[s[2]].no ELSE tasks[s[2]].no
SubjectOf(k) == <<IF k[1] = "maintenance" THEN "task" ELSE "lot", k[3]>>

\* Some go, with their rows; or one comes, with a number of its own.
SubjectsMove ==
  \E gone \in SUBSET Alive :
    /\ DOMAIN rows' = {k \in DOMAIN rows : SubjectOf(k) \notin gone}
    /\ \/ Alive' = Alive \ gone /\ subjects' = subjects /\ \A s \in Alive' : NoOf(s)' = NoOf(s)
       \/ /\ gone = {} /\ subjects' = subjects + 1
          /\ \E s : /\ s \notin Alive /\ Alive' = Alive \cup {s} /\ NoOf(s)' = subjects + 1
                    /\ \A r \in Alive : NoOf(r)' = NoOf(r)

RequestEffect ==
  /\ UNCHANGED <<today, jobs, overlap, told, writer>>
  /\ writer = Null /\ (~overlap => Quiet)
  /\ SubjectsOK'
  /\ \A k \in DOMAIN rows' : k \in DOMAIN rows /\ rows'[k] \in Row /\ rows'[k].nr = rows[k].nr
  /\ SubjectsMove

-----------------------------------------------------------------------------
(* Dispatch: what every channel does with what is left for it.             *)

Works(j) ==
  \E c \in ChannelNames, nrs \in SUBSET jobs[j].left, pending \in SUBSET jobs[j].left,
     status \in Outcomes, got \in BOOLEAN :
    /\ With(j, c) /\ pending \subseteq nrs /\ UNCHANGED household
    /\ \/ Skip(j, nrs)
       \/ (status = "sent" /\ c # "mqtt" => got) /\ Attempt(j, nrs, pending, c, status, got)

-----------------------------------------------------------------------------
(* Nothing is told or heard twice.                                         *)

\* A channel that is yet to come has sent nothing of a dispatch, and the one at
\* work nothing of what is left.
HeardOK(j) ==
  LET job == jobs[j] IN
  /\ job.at = "scan" => \A p \in DOMAIN heard : p[1] \notin job.made
  /\ job.at = "dispatch" =>
       \A n \in job.made, c \in Range(job.channels) :
         <<n, c>> \in DOMAIN heard =>
           c = Head(job.channels) /\ job.left # {} /\ n \notin job.left

Hearing ==
  /\ heard = SetToBag(DOMAIN heard)
  /\ DOMAIN heard \subseteq (1 .. Len(told)) \X ChannelNames
  /\ \A j \in Jobs : HeardOK(j)

\* What is told or due of a subject that lives names it.
Lives(d) == SubjectOf(d[1]) \in Alive /\ NoOf(SubjectOf(d[1])) = d[2]
Fits(d) == d[2] <= subjects /\ ((\E s \in Alive : NoOf(s) = d[2]) => Lives(d))

\* Of a subject that lives every row there was is there, under its number.
Keeping ==
  /\ \A s \in Alive : NoOf(s) <= subjects
  /\ \A r, s \in Alive : NoOf(r) = NoOf(s) => r = s
  /\ \A j \in Jobs : jobs[j].at = "scan" => \A d \in jobs[j].due : Fits(d)
  /\ \A m \in 1 .. Len(told) :
       /\ Fits(told[m])
       /\ Lives(told[m]) => told[m][1] \in DOMAIN rows /\ rows[told[m][1]].nr = m

-----------------------------------------------------------------------------
(* Jobs and requests one by one: each attempt leaves one outcome, and no    *)
(* date that is near goes unmentioned.                                     *)

Alone == \A i, j \in Jobs : jobs[i] # Idle /\ jobs[j] # Idle => i = j

OutcomesOf(n, channel) == {d \in deliveries : d[1] = n /\ d[2] = channel}
Wanted(n, channel) == channel = "email" => users[Recipient(n)].status = "mail"

\* Whether the dispatch is done with n over a channel that was enabled.
Passed(job, n, c) ==
  \/ c \notin Range(job.channels)
  \/ c = Head(job.channels) /\ job.left # {} /\ n \notin job.left

AccountOK(job) ==
  job.at = "dispatch" =>
    /\ \A n \in job.made, c \in ChannelNames :
         /\ ~Passed(job, n, c) => OutcomesOf(n, c) = {}
         /\ Passed(job, n, c) /\ c \in job.used /\ Wanted(n, c) =>
              \E status \in Outcomes : OutcomesOf(n, c) = {<<n, c, status>>}
    /\ \A c \in job.used \cap Range(job.channels) : c = Head(job.channels) /\ job.left # {}

Accounting ==
  ~overlap =>
    /\ Alone
    /\ \A j \in Jobs : Made(jobs[j]) \subseteq Numbers /\ AccountOK(jobs[j])

\* What a scan is through with is due to be made, or was told.
Known(d) == d[1] \in DOMAIN rows /\ told[rows[d[1]].nr] = d

SettleOK(job) ==
  job.at = "scan" =>
    /\ job.users = users
    /\ \A d \in job.due : Lives(d)
    /\ \A pass \in (Sources \cup {"maintenance"}) \ Range(job.passes) : \A d \in Asked(job, pass) :
         d \in job.due \/ Known(d)

Settling ==
  ~overlap =>
    /\ Alone
    /\ \A k \in DOMAIN rows : Lives(told[rows[k].nr])
    /\ \A j \in Jobs : SettleOK(jobs[j])

-----------------------------------------------------------------------------
(* The calendar: an ordinal and a date determine each other.               *)

\* A non-empty set of naturals has a least element.
LEMMA LeastExists ==
  ASSUME NEW T, T \subseteq Nat, T # {}
  PROVE  \E i \in T : \A j \in T : i <= j
<1>1. PICK x \in T : \A y \in T : <<y, x>> \notin OpToRel(<, Nat)
  BY NatLessThanWellFounded, WFMin
<1>2. \A y \in T : ~(y < x)
  BY <1>1 DEF OpToRel
<1>3. QED
  BY <1>2



Years(y) == IF Leap(y) THEN 366 ELSE 365

LEMMA NextYear ==
  ASSUME NEW y \in Nat \ {0}
  PROVE  BeforeYear(y + 1) = BeforeYear(y) + Years(y)
<1>1. y \div 4 = (y - 1) \div 4 + (IF y % 4 = 0 THEN 1 ELSE 0)
  OBVIOUS
<1>2. y \div 100 = (y - 1) \div 100 + (IF y % 100 = 0 THEN 1 ELSE 0)
  OBVIOUS
<1>3. y \div 400 = (y - 1) \div 400 + (IF y % 400 = 0 THEN 1 ELSE 0)
  OBVIOUS
<1>4. (y % 100 = 0 => y % 4 = 0) /\ (y % 400 = 0 => y % 100 = 0)
  OBVIOUS
<1>5. QED BY <1>1, <1>2, <1>3, <1>4 DEF BeforeYear, Years, Leap

LEMMA YearBounds ==
  ASSUME NEW y \in Nat \ {0}
  PROVE  /\ BeforeYear(y) \in Nat
         /\ 365 * (y - 1) <= BeforeYear(y) /\ BeforeYear(y) <= 366 * (y - 1) 
BY DEF BeforeYear

LEMMA YearsMonotone ==
  ASSUME NEW y \in Nat \ {0}, NEW z \in Nat \ {0}, y < z
  PROVE  BeforeYear(y + 1) <= BeforeYear(z)
BY DEF BeforeYear

LEMMA MonthSize ==
  ASSUME NEW y \in Nat \ {0}, NEW m \in 1 .. 12
  PROVE  /\ Years(y) \in {365, 366}
         /\ DaysInMonth(y, m) \in 28 .. 31
         /\ BeforeMonth(y, m) \in Nat
         /\ BeforeMonth(y, m) + DaysInMonth(y, m) <= Years(y)
<1>1. m \in {1, 2, 3, 4, 5, 6, 7, 8, 9, 10, 11, 12}
  OBVIOUS
<1>2. Leap(y) \in BOOLEAN
  BY DEF Leap
<1>3. QED BY <1>1, <1>2 DEF DaysInMonth, BeforeMonth, Years

LEMMA MonthsMonotone ==
  ASSUME NEW y \in Nat \ {0}, NEW m \in 1 .. 12, NEW l \in 1 .. 12, m < l
  PROVE  BeforeMonth(y, m) + DaysInMonth(y, m) <= BeforeMonth(y, l)
<1>1. m \in {1, 2, 3, 4, 5, 6, 7, 8, 9, 10, 11} /\ l \in {2, 3, 4, 5, 6, 7, 8, 9, 10, 11, 12}
  OBVIOUS
<1>2. Leap(y) \in BOOLEAN
  BY DEF Leap
<1>3. QED BY <1>1, <1>2 DEF DaysInMonth, BeforeMonth

LEMMA MonthOf ==
  ASSUME NEW y \in Nat \ {0}, NEW k \in 1 .. Years(y)
  PROVE  \E m \in 1 .. 12 : BeforeMonth(y, m) < k /\ k <= BeforeMonth(y, m) + DaysInMonth(y, m)
<1> DEFINE In(m) == BeforeMonth(y, m) < k /\ k <= BeforeMonth(y, m) + DaysInMonth(y, m)
<1>1. Leap(y) \in BOOLEAN
  BY DEF Leap
<1>2. \/ In(1) \/ In(2) \/ In(3) \/ In(4) \/ In(5) \/ In(6)
      \/ In(7) \/ In(8) \/ In(9) \/ In(10) \/ In(11) \/ In(12)
  BY <1>1 DEF DaysInMonth, BeforeMonth, Years
<1> HIDE DEF In
<1>3. \E m \in 1 .. 12 : In(m)
  BY <1>2
<1>4. QED BY <1>3 DEF In

\* FromOrdinal chooses the only year and month there are.
LEMMA DateOf ==
  ASSUME NEW n \in Nat, NEW y \in Nat \ {0}, NEW m \in 1 .. 12, NEW k \in Nat \ {0},
         n = BeforeYear(y) + k,
         BeforeMonth(y, m) < k, k <= BeforeMonth(y, m) + DaysInMonth(y, m)
  PROVE  FromOrdinal(n) = [year |-> y, month |-> m, day |-> k - BeforeMonth(y, m)]
<1> DEFINE YearOK(z) == BeforeYear(z) < n /\ n <= BeforeYear(z + 1)
           MonthOK(l) == BeforeMonth(y, l) < k /\ k <= BeforeMonth(y, l) + DaysInMonth(y, l)
           range == (n \div 366) .. (n \div 365) + 1
<1>0. /\ Years(y) \in {365, 366} /\ DaysInMonth(y, m) \in 28 .. 31 /\ BeforeMonth(y, m) \in Nat
      /\ BeforeMonth(y, m) + DaysInMonth(y, m) <= Years(y)
  BY MonthSize
<1>1. k <= Years(y)
  BY <1>0
<1>2. YearOK(y)
  <2>1. BeforeYear(y + 1) = BeforeYear(y) + Years(y) /\ BeforeYear(y) \in Nat
    BY NextYear, YearBounds
  <2>2. QED BY <1>0, <1>1, <2>1
<1>3. y \in range
  BY <1>2, YearBounds
<1>4. ASSUME NEW z \in range, YearOK(z) PROVE z = y
  <2>1. z \in Nat \ {0}
    <3>1. z # 0
      BY <1>4 DEF BeforeYear
    <3>2. QED BY <3>1
  <2>2. ~(z < y)
    BY <1>2, <1>4, <2>1, YearsMonotone, YearBounds
  <2>3. ~(y < z)
    BY <1>2, <1>4, <2>1, YearsMonotone, YearBounds
  <2>4. QED BY <2>1, <2>2, <2>3
<1>5. (CHOOSE z \in range : YearOK(z)) = y
  BY <1>2, <1>3, <1>4
<1>6. ASSUME NEW l \in 1 .. 12, MonthOK(l) PROVE l = m
  <2>1. BeforeMonth(y, l) \in Nat /\ DaysInMonth(y, l) \in 28 .. 31
    BY MonthSize
  <2>2. ~(l < m)
    BY <1>0, <1>6, <2>1, MonthsMonotone
  <2>3. ~(m < l)
    BY <1>0, <1>6, <2>1, MonthsMonotone
  <2>4. QED BY <2>2, <2>3
<1>7. (CHOOSE l \in 1 .. 12 : MonthOK(l)) = m
  BY <1>6
<1>8. n - BeforeYear(y) = k
  BY YearBounds
<1>9. QED BY <1>5, <1>7, <1>8 DEF FromOrdinal

LEMMA FromToOrdinal ==
  ASSUME NEW d, IsDate(d)
  PROVE  Ordinal(d) \in Nat \ {0} /\ FromOrdinal(Ordinal(d)) = d
<1> DEFINE k == BeforeMonth(d.year, d.month) + d.day
<1>1. /\ d.year \in Nat \ {0} /\ d.month \in 1 .. 12 /\ d.day \in 1 .. DaysInMonth(d.year, d.month)
      /\ d = [year |-> d.year, month |-> d.month, day |-> d.day]
  <2>1. /\ d.year \in Nat \ {0} /\ d.month \in 1 .. 12 /\ d.day \in 1 .. 31
        /\ d.day <= DaysInMonth(d.year, d.month)
        /\ d = [year |-> d.year, month |-> d.month, day |-> d.day]
    BY DEF IsDate, Date
  <2>2. DaysInMonth(d.year, d.month) \in Nat
    BY <2>1, MonthSize
  <2>3. QED BY <2>1, <2>2
<1>2. k \in Nat \ {0} /\ Ordinal(d) = BeforeYear(d.year) + k /\ Ordinal(d) \in Nat \ {0}
  BY <1>1, MonthSize, YearBounds DEF Ordinal
<1>3. k - BeforeMonth(d.year, d.month) = d.day
  BY <1>1, MonthSize
<1>4. BeforeMonth(d.year, d.month) < k /\ k <= BeforeMonth(d.year, d.month) + DaysInMonth(d.year, d.month)
  BY <1>1, MonthSize
<1> HIDE DEF k
<1>5. QED BY <1>1, <1>2, <1>3, <1>4, DateOf

LEMMA ToFromOrdinal ==
  ASSUME NEW n \in Nat \ {0}
  PROVE  IsDate(FromOrdinal(n)) /\ Ordinal(FromOrdinal(n)) = n
<1> DEFINE S == {y \in 1 .. n : n <= BeforeYear(y + 1)}
<1>1. n \in S
  BY YearBounds
<1>2. S \subseteq Nat
  OBVIOUS
<1>3. PICK y \in S : \A z \in S : y <= z
  <2> HIDE DEF S
  <2>1. QED BY <1>1, <1>2, LeastExists
<1>4. y \in 1 .. n /\ n <= BeforeYear(y + 1)
  OBVIOUS
<1>5. BeforeYear(y) < n
  <2>1. CASE y = 1
    BY <2>1 DEF BeforeYear
  <2>2. CASE y # 1
    <3>1. y - 1 \in 1 .. n /\ (y - 1) + 1 = y /\ y - 1 \notin S
      BY <1>3, <1>4, <2>2
    <3>2. QED BY <1>4, <3>1, YearBounds
  <2>3. QED BY <2>1, <2>2
<1> DEFINE k == n - BeforeYear(y)
<1>6. k \in 1 .. Years(y)
  <2>1. y \in Nat \ {0}
    BY <1>4
  <2>2. BeforeYear(y + 1) = BeforeYear(y) + Years(y) /\ BeforeYear(y) \in Nat /\ Years(y) \in Nat
    <3>1. BeforeYear(y + 1) = BeforeYear(y) + Years(y) /\ BeforeYear(y) \in Nat
      BY <2>1, NextYear, YearBounds
    <3>2. Years(y) \in Nat
      BY DEF Years
    <3>3. QED BY <3>1, <3>2
  <2>3. QED BY <1>4, <1>5, <2>2
<1>7. PICK m \in 1 .. 12 : BeforeMonth(y, m) < k /\ k <= BeforeMonth(y, m) + DaysInMonth(y, m)
  BY <1>4, <1>6, MonthOf
<1>8. k \in Nat \ {0} /\ n = BeforeYear(y) + k
  BY <1>4, <1>6, YearBounds DEF Years
<1> DEFINE d == [year |-> y, month |-> m, day |-> k - BeforeMonth(y, m)]
<1>9. FromOrdinal(n) = d
  <2> HIDE DEF k
  <2>1. QED BY <1>4, <1>7, <1>8, DateOf
<1> HIDE DEF k
<1>10. DaysInMonth(y, m) \in 28 .. 31 /\ BeforeMonth(y, m) \in Nat /\ BeforeYear(y) \in Nat
  <2>1. y \in Nat \ {0}
    BY <1>4
  <2>2. QED BY <2>1, MonthSize, YearBounds
<1>11. IsDate(d)
  BY <1>4, <1>7, <1>8, <1>10 DEF IsDate, Date
<1>12. Ordinal(d) = n
  BY <1>4, <1>7, <1>8, <1>10 DEF Ordinal
<1>13. QED BY <1>9, <1>11, <1>12
LEMMA NextMonth ==
  ASSUME NEW y \in Nat \ {0}, NEW m \in 1 .. 12
  PROVE  /\ m < 12 => BeforeMonth(y, m + 1) = BeforeMonth(y, m) + DaysInMonth(y, m)
         /\ m = 12 => BeforeMonth(y, m) + DaysInMonth(y, m) = Years(y)
<1>1. m \in {1, 2, 3, 4, 5, 6, 7, 8, 9, 10, 11, 12}
  OBVIOUS
<1>2. Leap(y) \in BOOLEAN
  BY DEF Leap
<1>3. QED BY <1>1, <1>2 DEF DaysInMonth, BeforeMonth, Years

\* What follows the last day of a month is in another month.
LEMMA DayAfter ==
  ASSUME NEW d, IsDate(d), FromOrdinal(Ordinal(d) + 1).month = d.month
  PROVE  FromOrdinal(Ordinal(d) + 1).day = d.day + 1 /\ d.day < DaysInMonth(d.year, d.month)
<1>1. PICK y \in Nat \ {0}, m \in 1 .. 12, k \in Nat \ {0} :
        d = [year |-> y, month |-> m, day |-> k] /\ k <= DaysInMonth(y, m)
  BY DEF IsDate, Date
<1>2. /\ DaysInMonth(y, m) \in 28 .. 31 /\ BeforeMonth(y, m) \in Nat /\ BeforeYear(y) \in Nat
      /\ Ordinal(d) = BeforeYear(y) + BeforeMonth(y, m) + k
  BY <1>1, MonthSize, YearBounds DEF Ordinal
<1>3. CASE k < DaysInMonth(y, m)
  <2> DEFINE e == [year |-> y, month |-> m, day |-> k + 1]
  <2>1. IsDate(e)
    BY <1>2, <1>3 DEF IsDate, Date
  <2>2. Ordinal(e) = Ordinal(d) + 1
    BY <1>2 DEF Ordinal
  <2>3. FromOrdinal(Ordinal(d) + 1) = e
    BY <2>1, <2>2, FromToOrdinal
  <2>4. QED BY <1>1, <1>3, <2>3
<1>4. CASE k = DaysInMonth(y, m) /\ m < 12
  <2> DEFINE e == [year |-> y, month |-> m + 1, day |-> 1]
  <2>1. m + 1 \in 1 .. 12 /\ BeforeMonth(y, m + 1) = BeforeMonth(y, m) + DaysInMonth(y, m)
    BY <1>4, NextMonth
  <2>2. DaysInMonth(y, m + 1) \in 28 .. 31
    BY <2>1, MonthSize
  <2>3. IsDate(e)
    BY <2>1, <2>2 DEF IsDate, Date
  <2>4. Ordinal(e) = Ordinal(d) + 1
    BY <1>2, <1>4, <2>1 DEF Ordinal
  <2>5. FromOrdinal(Ordinal(d) + 1) = e
    BY <2>3, <2>4, FromToOrdinal
  <2>6. QED BY <1>1, <2>5
<1>5. CASE k = DaysInMonth(y, m) /\ m = 12
  <2> DEFINE e == [year |-> y + 1, month |-> 1, day |-> 1]
  <2>1. BeforeMonth(y, m) + DaysInMonth(y, m) = Years(y) /\ BeforeYear(y + 1) = BeforeYear(y) + Years(y)
    BY <1>5, NextMonth, NextYear
  <2>2. BeforeMonth(y + 1, 1) = 0 /\ DaysInMonth(y + 1, 1) = 31
    BY DEF BeforeMonth, DaysInMonth
  <2>3. IsDate(e)
    BY <2>2 DEF IsDate, Date
  <2>4. Ordinal(e) = Ordinal(d) + 1
    <3>1. Ordinal(e) = BeforeYear(y + 1) + BeforeMonth(y + 1, 1) + 1
      BY DEF Ordinal
    <3>2. QED BY <1>2, <1>5, <2>1, <2>2, <3>1
  <2>5. FromOrdinal(Ordinal(d) + 1) = e
    BY <2>3, <2>4, FromToOrdinal
  <2>6. QED BY <1>1, <1>5, <2>5
<1>6. QED BY <1>1, <1>2, <1>3, <1>4, <1>5

LEMMA AddMonthsMeans ==
  ASSUME NEW d, IsDate(d), NEW n \in Nat
  PROVE  /\ IsDate(AddMonths(d, n))
         /\ 12 * AddMonths(d, n).year + AddMonths(d, n).month = 12 * d.year + d.month + n
         /\ AddMonths(d, n).day <= d.day
         /\ \/ AddMonths(d, n).day = d.day
            \/ AddMonths(d, n).day = DaysInMonth(AddMonths(d, n).year, AddMonths(d, n).month)
<1>1. PICK y \in Nat \ {0}, m \in 1 .. 12, k \in 1 .. 31 : d = [year |-> y, month |-> m, day |-> k]
  BY DEF IsDate, Date
<1>2. PICK a : a = m - 1 + n
  OBVIOUS
<1>3. a \in Nat /\ a \div 12 \in Nat /\ a % 12 \in 0 .. 11 /\ a = 12 * (a \div 12) + (a % 12)
  BY <1>1, <1>2
<1>4. PICK z, l : z = y + (a \div 12) /\ l = (a % 12) + 1
  OBVIOUS
<1>5. z \in Nat \ {0} /\ l \in 1 .. 12 /\ 12 * z + l = 12 * y + m + n
  BY <1>2, <1>3, <1>4
<1>6. DaysInMonth(z, l) \in 28 .. 31
  BY <1>5, MonthSize
<1>7. PICK e : e = [year |-> z, month |-> l, day |-> Least(k, DaysInMonth(z, l))]
  OBVIOUS
<1>8. AddMonths(d, n) = e
  BY <1>1, <1>2, <1>4, <1>7 DEF AddMonths
<1>9. Least(k, DaysInMonth(z, l)) \in 1 .. 31 /\ Least(k, DaysInMonth(z, l)) <= k
      /\ Least(k, DaysInMonth(z, l)) \in {k, DaysInMonth(z, l)}
      /\ Least(k, DaysInMonth(z, l)) <= DaysInMonth(z, l)
  BY <1>6 DEF Least
<1>10. e.year = z /\ e.month = l /\ e.day = Least(k, DaysInMonth(z, l))
  BY <1>7
<1>11. IsDate(e)
  BY <1>5, <1>7, <1>9 DEF IsDate, Date
<1>12. QED BY <1>1, <1>5, <1>8, <1>9, <1>10, <1>11

\* What AddInterval gives is an interval later, by Follows' own measure.
LEMMA IntervalLater ==
  ASSUME NEW on \in Nat \ {0}, NEW unit \in Units, NEW count \in Nat \ {0}
  PROVE  /\ AddInterval(on, unit, count) \in Nat
         /\ Follows(AddInterval(on, unit, count), on, <<unit, count>>)
<1>1. CASE unit = "day"
  BY <1>1 DEF AddInterval, Follows
<1>2. CASE unit = "week"
  BY <1>2 DEF AddInterval, Follows
<1>3. CASE unit \in {"month", "year"}
  <2> DEFINE from == FromOrdinal(on)
             n == IF unit = "month" THEN count ELSE 12 * count
             to == AddMonths(from, n)
             due == Ordinal(to)
  <2>1. IsDate(from) /\ n \in Nat
    BY ToFromOrdinal
  <2>2. /\ IsDate(to) /\ 12 * to.year + to.month = 12 * from.year + from.month + n
        /\ to.day <= from.day
        /\ to.day = from.day \/ to.day = DaysInMonth(to.year, to.month)
    <3> HIDE DEF n
    <3>1. QED BY <2>1, AddMonthsMeans
  <2>3. AddInterval(on, unit, count) = due
    BY <1>3 DEF AddInterval
  <2>4. due \in Nat \ {0} /\ FromOrdinal(due) = to
    BY <2>2, FromToOrdinal
  <2>5. FromOrdinal(due + 1).month = to.month => FromOrdinal(due + 1).day > from.day
    <3>1. SUFFICES ASSUME FromOrdinal(due + 1).month = to.month
                   PROVE  FromOrdinal(due + 1).day > from.day
      OBVIOUS
    <3>2. FromOrdinal(due + 1).day = to.day + 1 /\ to.day < DaysInMonth(to.year, to.month)
      BY <2>2, <3>1, DayAfter
    <3>3. to.day = from.day /\ from.day \in Nat
      <4>1. to.day < DaysInMonth(to.year, to.month) /\ to.day \in Nat /\ from.day \in Nat
        BY <2>1, <2>2, <3>2 DEF IsDate, Date
      <4>2. PICK y \in Nat \ {0}, m \in 1 .. 12 : y = to.year /\ m = to.month
        BY <2>2 DEF IsDate, Date
      <4>3. DaysInMonth(to.year, to.month) \in Nat
        <5> HIDE DEF to
        <5>1. DaysInMonth(y, m) \in 28 .. 31
          BY MonthSize
        <5>2. QED BY <4>2, <5>1
      <4>4. QED BY <2>2, <4>1, <4>3
    <3>4. QED BY <3>2, <3>3
  <2> HIDE DEF due, to, from
  <2>6. Follows(due, on, <<unit, count>>)
    BY <1>3, <2>2, <2>4, <2>5 DEF Follows, from
  <2>7. QED BY <2>3, <2>4, <2>6
<1>4. QED BY <1>1, <1>2, <1>3 DEF Units

-----------------------------------------------------------------------------
(* The operators *)

\* A bounded one has a greatest element, the least of its bounds.
LEMMA GreatestExists ==
  ASSUME NEW n \in Nat, NEW T, T \subseteq 0 .. n, T # {}
  PROVE  \E i \in T : \A j \in T : j <= i
<1> DEFINE Bounds == {m \in Nat : \A j \in T : j <= m}
<1>1. PICK m \in Bounds : \A k \in Bounds : m <= k
  <2>1. n \in Bounds
    OBVIOUS
  <2> HIDE DEF Bounds
  <2>2. Bounds \subseteq Nat
    BY DEF Bounds
  <2>3. QED BY <2>1, <2>2, LeastExists
<1>2. m \in T
  <2>1. SUFFICES ASSUME m \notin T PROVE FALSE
    OBVIOUS
  <2>2. \A j \in T : j \in Nat /\ j < m
    BY <2>1
  <2>3. \E j \in T : j \in Nat /\ j < m
    BY <2>2
  <2>4. m - 1 \in Nat /\ \A j \in T : j <= m - 1
    BY <2>2, <2>3
  <2>5. QED BY <1>1, <2>4
<1>3. QED BY <1>1, <1>2

\* An id that is in use is never handed out.
LEMMA NextIdFresh ==
  ASSUME NEW table, DOMAIN table \subseteq 1 .. MaxId
  PROVE  NextId(table) \in Nat \ {0} /\ NextId(table) \notin DOMAIN table
<1> DEFINE T == DOMAIN table \cup {0}
<1>1. T \subseteq 0 .. MaxId /\ T # {} /\ MaxId \in Nat
  BY ReminderConstants
<1> HIDE DEF T
<1>2. \E i \in T : \A j \in T : i >= j
  BY <1>1, GreatestExists
<1>3. Max(T) \in T /\ \A j \in T : Max(T) >= j
  BY <1>2 DEF Max
<1>4. Max(T) \in Nat /\ (\A j \in DOMAIN table : j \in Nat /\ Max(T) >= j)
  BY <1>1, <1>3 DEF T
<1>5. NextId(table) = Max(T) + 1
  BY DEF NextId, T
<1>6. QED BY <1>4, <1>5

\* The next notification is one of those that are left.
LEMMA TurnMeans ==
  ASSUME NEW T, T \subseteq Nat, T # {}
  PROVE  Min(T) \in T
<1>1. \E i \in T : \A j \in T : i <= j
  BY LeastExists
<1>2. QED BY <1>1 DEF Min

LEMMA RouteSteps ==
  ASSUME NEW cs \in Routes
  PROVE  /\ Range(cs) \subseteq ChannelNames
         /\ cs = <<>> => Range(cs) = {}
         /\ cs # <<>> =>
              /\ Tail(cs) \in Routes /\ Head(cs) \in ChannelNames
              /\ Range(cs) = {Head(cs)} \cup Range(Tail(cs)) /\ Head(cs) \notin Range(Tail(cs))
<1>1. /\ Range(<<"email", "http", "mqtt">>) = {"email", "http", "mqtt"}
      /\ Range(<<"http", "mqtt">>) = {"http", "mqtt"}
      /\ Range(<<"mqtt">>) = {"mqtt"}
      /\ Range(<<>>) = {}
  BY DEF Range
<1>2. /\ Tail(<<"email", "http", "mqtt">>) = <<"http", "mqtt">>
      /\ Tail(<<"http", "mqtt">>) = <<"mqtt">> /\ Tail(<<"mqtt">>) = <<>>
  OBVIOUS
<1>3. CASE cs = <<"email", "http", "mqtt">>
  BY <1>1, <1>2, <1>3 DEF Routes, ChannelNames
<1>4. CASE cs = <<"http", "mqtt">>
  BY <1>1, <1>2, <1>4 DEF Routes, ChannelNames
<1>5. CASE cs = <<"mqtt">>
  BY <1>1, <1>2, <1>5 DEF Routes, ChannelNames
<1>6. CASE cs = <<>>
  BY <1>1, <1>6
<1>7. QED BY <1>3, <1>4, <1>5, <1>6 DEF Routes

LEMMA RoundSteps ==
  ASSUME NEW ps \in Rounds
  PROVE  /\ ps = <<>> => Range(ps) = {}
         /\ ps # <<>> => Tail(ps) \in Rounds /\ Range(ps) = {Head(ps)} \cup Range(Tail(ps))
<1>1. /\ Range(<<"best_before", "warranty", "low_stock", "maintenance">>)
           = {"best_before", "warranty", "low_stock", "maintenance"}
      /\ Range(<<"warranty", "low_stock", "maintenance">>) = {"warranty", "low_stock", "maintenance"}
      /\ Range(<<"low_stock", "maintenance">>) = {"low_stock", "maintenance"}
      /\ Range(<<"maintenance">>) = {"maintenance"}
      /\ Range(<<>>) = {}
  BY DEF Range
<1>2. /\ Tail(<<"best_before", "warranty", "low_stock", "maintenance">>)
           = <<"warranty", "low_stock", "maintenance">>
      /\ Tail(<<"warranty", "low_stock", "maintenance">>) = <<"low_stock", "maintenance">>
      /\ Tail(<<"low_stock", "maintenance">>) = <<"maintenance">> /\ Tail(<<"maintenance">>) = <<>>
  OBVIOUS
<1>3. CASE ps = <<"best_before", "warranty", "low_stock", "maintenance">>
  BY <1>1, <1>2, <1>3 DEF Rounds
<1>4. CASE ps = <<"warranty", "low_stock", "maintenance">>
  BY <1>1, <1>2, <1>4 DEF Rounds
<1>5. CASE ps = <<"low_stock", "maintenance">>
  BY <1>1, <1>2, <1>5 DEF Rounds
<1>6. CASE ps = <<"maintenance">>
  BY <1>1, <1>2, <1>6 DEF Rounds
<1>7. CASE ps = <<>>
  BY <1>1, <1>7
<1>8. QED BY <1>3, <1>4, <1>5, <1>6, <1>7 DEF Rounds

LEMMA BecomeMeans ==
  ASSUME Working, NEW j \in Jobs, NEW job, Become(j, job)
  PROVE  /\ jobs' = [i \in Jobs |-> jobs'[i]] /\ jobs'[j] = job
         /\ \A i \in Jobs : i # j => jobs'[i] = jobs[i]
BY DEF Become, Working

\* The stages of a job exclude each other.
LEMMA Stages ==
  ASSUME NEW j \in Jobs, JobOK(j)
  PROVE  /\ jobs[j].at \in {"idle", "scan", "dispatch"}
         /\ jobs[j].at = "idle" <=> jobs[j] = Idle
         /\ jobs[j].at = "scan" => jobs[j] \in ScanJob /\ Made(jobs[j]) = jobs[j].made
         /\ jobs[j].at = "dispatch" => jobs[j] \in DispatchJob /\ Made(jobs[j]) = jobs[j].made
<1>1. CASE jobs[j] = Idle
  BY <1>1 DEF Idle
<1>2. CASE jobs[j] \in ScanJob
  <2>1. jobs[j].at = "scan"
    BY <1>2 DEF ScanJob
  <2>2. jobs[j] # Idle /\ Made(jobs[j]) = jobs[j].made
    BY <2>1 DEF Idle, Made
  <2>3. QED BY <1>2, <2>1, <2>2
<1>3. CASE jobs[j] \in DispatchJob
  <2>1. jobs[j].at = "dispatch"
    BY <1>3 DEF DispatchJob
  <2>2. jobs[j] # Idle /\ Made(jobs[j]) = jobs[j].made
    BY <2>1 DEF Idle, Made
  <2>3. QED BY <1>3, <2>1, <2>2
<1>4. QED BY <1>1, <1>2, <1>3 DEF JobOK

LEMMA InsertMeans ==
  ASSUME NEW table, NEW key, NEW row
  PROVE  /\ DOMAIN Insert(table, key, row) = DOMAIN table \cup {key}
         /\ Insert(table, key, row)[key] = row
         /\ \A k \in DOMAIN table : k # key => Insert(table, key, row)[k] = table[k]
BY DEF Insert

LEMMA RestrictMeans ==
  ASSUME NEW f, NEW S
  PROVE  DOMAIN Restrict(f, S) = S /\ \A x \in S : Restrict(f, S)[x] = f[x]
BY DEF Restrict

-----------------------------------------------------------------------------
(* Requests *)

LEMMA Constants ==
  /\ Null \notin Nat /\ Null \notin Users /\ Null \notin Jobs
  /\ Dates \subseteq Nat /\ Leads \subseteq Nat
  /\ Intervals \subseteq Units \X (Nat \ {0})
BY ReminderConstants

LEMMA RequestMeans ==
  ASSUME Request
  PROVE  /\ UNCHANGED <<today, jobs, overlap, writer>>
         /\ writer = Null /\ (~overlap => Quiet)
BY DEF Request

\* Where no subject comes or goes and each keeps its number.
LEMMA NothingMoves ==
  ASSUME UNCHANGED subjects, DOMAIN lots' = DOMAIN lots, DOMAIN tasks' = DOMAIN tasks,
         \A i \in DOMAIN lots : lots'[i].no = lots[i].no,
         \A s \in DOMAIN tasks : tasks'[s].no = tasks[s].no,
         DOMAIN rows' = DOMAIN rows
  PROVE  SubjectsMove
<1>1. Alive' = Alive \ {}
  BY DEF Alive
<1>2. \A s \in Alive' : NoOf(s)' = NoOf(s)
  BY DEF Alive, NoOf
<1>3. {} \in SUBSET Alive /\ DOMAIN rows' = {k \in DOMAIN rows : SubjectOf(k) \notin {}}
  OBVIOUS
<1>4. QED BY <1>1, <1>2, <1>3 DEF SubjectsMove

LEMMA SetUserEffect ==
  ASSUME TInv, NEW u \in Users, SetUser(u)
  PROVE  RequestEffect
<1>1. Request /\ UNCHANGED <<lots, tasks, subjects, inboxVars>>
  BY DEF SetUser
<1>2. users' \in [Users -> User]
  <2>0. users \in [Users -> User] /\ users[u] \in User
    BY DEF TInv, SubjectsOK
  <2>1. CASE \E status \in Statuses : users' = [users EXCEPT ![u].status = status]
    BY <2>0, <2>1 DEF User
  <2>2. CASE \E source \in Sources, lead \in Leads \cup {Null} :
               users' = [users EXCEPT ![u].lead[source] = lead]
    <3>1. PICK source \in Sources, lead \in Leads \cup {Null} :
            users' = [users EXCEPT ![u].lead[source] = lead]
      BY <2>2
    <3>2. [users[u].lead EXCEPT ![source] = lead] \in [Sources -> Leads \cup {Null}]
      BY <2>0 DEF User
    <3>3. [users[u] EXCEPT !.lead = [users[u].lead EXCEPT ![source] = lead]] \in User
      BY <2>0, <3>2 DEF User
    <3>4. users' = [users EXCEPT ![u] = [users[u] EXCEPT !.lead = [users[u].lead EXCEPT ![source] = lead]]]
      BY <2>0, <3>1
    <3>5. QED BY <2>0, <3>3, <3>4
  <2>3. QED BY <2>1, <2>2 DEF SetUser
<1>3. SubjectsOK'
  BY <1>1, <1>2 DEF TInv, SubjectsOK
<1>4. SubjectsMove
  BY <1>1, NothingMoves DEF inboxVars
<1>5. QED BY <1>1, <1>3, <1>4, RequestMeans DEF RequestEffect, TInv, InboxOK, inboxVars

LEMMA CreateLotEffect ==
  ASSUME TInv, CreateLot
  PROVE  RequestEffect
<1>1. Request /\ UNCHANGED <<users, tasks, inboxVars>> /\ subjects' = subjects + 1 /\ NextId(lots) <= MaxId
  BY DEF CreateLot
<1>2. PICK i, lot : /\ i = NextId(lots) /\ lots' = Insert(lots, i, lot)
                    /\ lot.no = subjects + 1 /\ lot \in Lot
  <2>1. PICK date \in [Sources -> Dates \cup {Null}], who \in Users \cup {Null}, lead \in Leads \cup {Null} :
          lots' = Insert(lots, NextId(lots),
                    [no |-> subjects + 1, date |-> date, live |-> TRUE, who |-> who, lead |-> lead])
    BY DEF CreateLot
  <2>2. subjects + 1 \in Nat
    BY DEF TInv, SubjectsOK
  <2>3. PICK lot : lot = [no |-> subjects + 1, date |-> date, live |-> TRUE, who |-> who, lead |-> lead]
    OBVIOUS
  <2>4. lot \in Lot /\ lot.no = subjects + 1
    BY <2>2, <2>3 DEF Lot
  <2>5. QED BY <2>1, <2>3, <2>4
<1>3. i \in 1 .. MaxId /\ i \notin DOMAIN lots
  <2>1. DOMAIN lots \subseteq 1 .. MaxId
    BY DEF TInv, SubjectsOK
  <2>2. NextId(lots) \in Nat \ {0} /\ NextId(lots) \notin DOMAIN lots
    BY <2>1, NextIdFresh
  <2>3. MaxId \in Nat
    BY ReminderConstants
  <2>4. QED BY <1>1, <1>2, <2>2, <2>3
<1>4. /\ DOMAIN lots' = DOMAIN lots \cup {i} /\ lots'[i] = lot
      /\ \A h \in DOMAIN lots : lots'[h] = lots[h]
  BY <1>2, <1>3 DEF Insert
<1>5. SubjectsOK'
  <2>1. \A h \in DOMAIN lots' : h \in 1 .. MaxId /\ lots'[h] \in Lot
    BY <1>2, <1>3, <1>4 DEF TInv, SubjectsOK
  <2>2. \A s \in DOMAIN tasks : tasks[s].lot \in DOMAIN lots'
    BY <1>4 DEF TInv, SubjectsOK
  <2>3. QED BY <1>1, <2>1, <2>2 DEF TInv, SubjectsOK
<1>6. SubjectsMove
  <2>1. PICK s : s = <<"lot", i>>
    OBVIOUS
  <2>2. s \notin Alive /\ Alive' = Alive \cup {s} /\ NoOf(s)' = subjects + 1
    BY <1>1, <1>2, <1>3, <1>4, <2>1 DEF Alive, NoOf
  <2>3. \A r \in Alive : NoOf(r)' = NoOf(r)
    BY <1>1, <1>4 DEF Alive, NoOf
  <2>4. DOMAIN rows' = {k \in DOMAIN rows : SubjectOf(k) \notin {}}
    BY <1>1 DEF inboxVars
  <2>5. QED BY <1>1, <2>2, <2>3, <2>4 DEF SubjectsMove
<1>7. QED BY <1>1, <1>5, <1>6, RequestMeans DEF RequestEffect, TInv, InboxOK, inboxVars

LEMMA EditLotEffect ==
  ASSUME TInv, NEW i \in DOMAIN lots, EditLot(i)
  PROVE  RequestEffect
<1>1. Request /\ UNCHANGED <<users, tasks, subjects, inboxVars>>
  BY DEF EditLot
<1>2. lots[i] \in Lot
  BY DEF TInv, SubjectsOK
<1>3. /\ DOMAIN lots' = DOMAIN lots /\ lots'[i] \in Lot /\ lots'[i].no = lots[i].no
      /\ \A h \in DOMAIN lots : h # i => lots'[h] = lots[h]
  <2>1. CASE \E source \in Sources, date \in Dates \cup {Null} :
               lots' = [lots EXCEPT ![i].date[source] = date]
    <3>1. PICK source \in Sources, date \in Dates \cup {Null} :
            lots' = [lots EXCEPT ![i].date[source] = date]
      BY <2>1
    <3>2. [lots[i].date EXCEPT ![source] = date] \in [Sources -> Dates \cup {Null}]
      BY <1>2 DEF Lot
    <3>3. PICK lot : lot = [lots[i] EXCEPT !.date = [lots[i].date EXCEPT ![source] = date]]
      OBVIOUS
    <3>4. lot \in Lot /\ lot.no = lots[i].no
      BY <1>2, <3>2, <3>3 DEF Lot
    <3>5. DOMAIN lots' = DOMAIN lots /\ lots'[i] = lot /\ \A h \in DOMAIN lots : h # i => lots'[h] = lots[h]
      BY <3>1, <3>3
    <3>6. QED BY <3>4, <3>5
  <2>2. CASE \E who \in Users \cup {Null} : lots' = [lots EXCEPT ![i].who = who]
    BY <1>2, <2>2 DEF Lot
  <2>3. CASE \E lead \in Leads \cup {Null} : lots' = [lots EXCEPT ![i].lead = lead]
    BY <1>2, <2>3 DEF Lot
  <2>4. CASE lots' = [lots EXCEPT ![i].live = ~@]
    BY <1>2, <2>4 DEF Lot
  <2>5. QED BY <2>1, <2>2, <2>3, <2>4 DEF EditLot
<1>4. SubjectsOK'
  <2>1. \A h \in DOMAIN lots' : h \in 1 .. MaxId /\ lots'[h] \in Lot
    BY <1>3 DEF TInv, SubjectsOK
  <2>2. QED BY <1>1, <1>3, <2>1 DEF TInv, SubjectsOK
<1>5. SubjectsMove
  <2>1. \A h \in DOMAIN lots : lots'[h].no = lots[h].no
    BY <1>3
  <2>2. QED BY <1>1, <1>3, <2>1, NothingMoves DEF inboxVars
<1>6. QED BY <1>1, <1>4, <1>5, RequestMeans DEF RequestEffect, TInv, InboxOK, inboxVars

\* A deletion takes lots is and schedules ss with their rows.
LEMMA DeletionEffect ==
  ASSUME TInv, Request, NEW is, NEW ss,
         DOMAIN lots' = DOMAIN lots \ is, \A i \in DOMAIN lots' : lots'[i] = lots[i],
         DOMAIN tasks' = DOMAIN tasks \ ss, \A s \in DOMAIN tasks' : tasks'[s] = tasks[s],
         is \subseteq DOMAIN lots, ss \subseteq DOMAIN tasks,
         \A s \in DOMAIN tasks' : tasks[s].lot \notin is,
         Clear(is, ss), UNCHANGED <<users, subjects>>
  PROVE  RequestEffect
<1> DEFINE gone == ({"lot"} \X is) \cup ({"task"} \X ss)
<1>1. \A k \in DOMAIN rows :
        SubjectOf(k) \notin gone <=> k[3] \notin IF k[1] = "maintenance" THEN ss ELSE is
  BY DEF SubjectOf
<1>2. /\ DOMAIN rows' = {k \in DOMAIN rows : SubjectOf(k) \notin gone}
      /\ \A k \in DOMAIN rows' : rows'[k] = rows[k]
      /\ told' = told
  <2> HIDE DEF gone
  <2>1. rows' = Restrict(rows, {k \in DOMAIN rows : k[3] \notin IF k[1] = "maintenance" THEN ss ELSE is})
    BY DEF Clear
  <2>2. {k \in DOMAIN rows : k[3] \notin IF k[1] = "maintenance" THEN ss ELSE is}
          = {k \in DOMAIN rows : SubjectOf(k) \notin gone}
    BY <1>1
  <2>3. rows' = Restrict(rows, {k \in DOMAIN rows : SubjectOf(k) \notin gone})
    BY <2>1, <2>2
  <2>4. told' = told
    BY DEF Clear
  <2>5. QED BY <2>3, <2>4 DEF Restrict
<1>3. gone \in SUBSET Alive
  BY DEF Alive
<1>4. Alive' = Alive \ gone
  BY DEF Alive
<1>5. \A s \in Alive' : NoOf(s)' = NoOf(s)
  BY DEF Alive, NoOf
<1>6. SubjectsOK'
  BY DEF TInv, SubjectsOK
<1> HIDE DEF gone
<1>7. SubjectsMove
  BY <1>2, <1>3, <1>4, <1>5 DEF SubjectsMove
<1>8. \A k \in DOMAIN rows' : k \in DOMAIN rows /\ rows'[k] \in Row /\ rows'[k].nr = rows[k].nr
  BY <1>2 DEF TInv, InboxOK
<1>9. QED BY <1>2, <1>6, <1>7, <1>8, RequestMeans DEF RequestEffect

LEMMA DeleteLotEffect ==
  ASSUME TInv, NEW i \in DOMAIN lots, DeleteLot(i)
  PROVE  RequestEffect
<1>1. /\ Request /\ Clear({i}, TasksOf(i)) /\ UNCHANGED <<users, subjects>>
      /\ lots' = Restrict(lots, DOMAIN lots \ {i}) /\ tasks' = Restrict(tasks, DOMAIN tasks \ TasksOf(i))
  BY DEF DeleteLot
<1>2. DOMAIN lots' = DOMAIN lots \ {i} /\ \A h \in DOMAIN lots' : lots'[h] = lots[h]
  BY <1>1 DEF Restrict
<1>3. DOMAIN tasks' = DOMAIN tasks \ TasksOf(i) /\ \A s \in DOMAIN tasks' : tasks'[s] = tasks[s]
  BY <1>1 DEF Restrict
<1>4. TasksOf(i) \subseteq DOMAIN tasks /\ \A s \in DOMAIN tasks' : tasks[s].lot \notin {i}
  BY <1>3 DEF TasksOf
<1>5. QED BY <1>1, <1>2, <1>3, <1>4, DeletionEffect

LEMMA DeleteTaskEffect ==
  ASSUME TInv, NEW s \in DOMAIN tasks, DeleteTask(s)
  PROVE  RequestEffect
<1>1. /\ Request /\ Clear({}, {s}) /\ UNCHANGED <<users, lots, subjects>>
      /\ tasks' = Restrict(tasks, DOMAIN tasks \ {s})
  BY DEF DeleteTask
<1>2. DOMAIN tasks' = DOMAIN tasks \ {s} /\ \A r \in DOMAIN tasks' : tasks'[r] = tasks[r]
  BY <1>1 DEF Restrict
<1>3. DOMAIN lots' = DOMAIN lots \ {} /\ \A h \in DOMAIN lots' : lots'[h] = lots[h]
  BY <1>1
<1>4. QED BY <1>1, <1>2, <1>3, DeletionEffect

LEMMA CreateTaskEffect ==
  ASSUME TInv, CreateTask
  PROVE  RequestEffect
<1>1. Request /\ UNCHANGED <<users, lots, inboxVars>> /\ subjects' = subjects + 1 /\ NextId(tasks) <= MaxId
  BY DEF CreateTask
<1>2. PICK s, task : /\ s = NextId(tasks) /\ tasks' = Insert(tasks, s, task)
                     /\ task.no = subjects + 1 /\ task \in Task /\ task.lot \in DOMAIN lots
  <2>1. PICK i \in DOMAIN lots, due \in Dates, interval \in Intervals, lead \in Leads \cup {Null} :
          tasks' = Insert(tasks, NextId(tasks),
                     [no |-> subjects + 1, lot |-> i, due |-> due, interval |-> interval,
                      lead |-> lead, active |-> TRUE, since |-> <<>>])
    BY DEF CreateTask
  <2>2. subjects + 1 \in Nat /\ i \in Nat /\ due \in Nat
    BY Constants, ReminderConstants DEF TInv, SubjectsOK
  <2>3. PICK task : task = [no |-> subjects + 1, lot |-> i, due |-> due, interval |-> interval,
                            lead |-> lead, active |-> TRUE, since |-> <<>>]
    OBVIOUS
  <2>4. task \in Task /\ task.no = subjects + 1 /\ task.lot = i
    BY <2>2, <2>3 DEF Task
  <2>5. QED BY <2>1, <2>3, <2>4
<1>3. s \in 1 .. MaxId /\ s \notin DOMAIN tasks
  <2>1. DOMAIN tasks \subseteq 1 .. MaxId
    BY DEF TInv, SubjectsOK
  <2>2. NextId(tasks) \in Nat \ {0} /\ NextId(tasks) \notin DOMAIN tasks
    BY <2>1, NextIdFresh
  <2>3. MaxId \in Nat
    BY ReminderConstants
  <2>4. QED BY <1>1, <1>2, <2>2, <2>3
<1>4. /\ DOMAIN tasks' = DOMAIN tasks \cup {s} /\ tasks'[s] = task
      /\ \A r \in DOMAIN tasks : tasks'[r] = tasks[r]
  BY <1>2, <1>3 DEF Insert
<1>5. SubjectsOK'
  <2>1. \A r \in DOMAIN tasks' : r \in 1 .. MaxId /\ tasks'[r] \in Task /\ tasks'[r].lot \in DOMAIN lots
    BY <1>2, <1>3, <1>4 DEF TInv, SubjectsOK
  <2>2. QED BY <1>1, <2>1 DEF TInv, SubjectsOK
<1>6. SubjectsMove
  <2>1. PICK r : r = <<"task", s>>
    OBVIOUS
  <2>2. r \notin Alive /\ Alive' = Alive \cup {r} /\ NoOf(r)' = subjects + 1
    BY <1>1, <1>2, <1>3, <1>4, <2>1 DEF Alive, NoOf
  <2>3. \A q \in Alive : NoOf(q)' = NoOf(q)
    BY <1>1, <1>4 DEF Alive, NoOf
  <2>4. DOMAIN rows' = {k \in DOMAIN rows : SubjectOf(k) \notin {}}
    BY <1>1 DEF inboxVars
  <2>5. QED BY <1>1, <2>2, <2>3, <2>4 DEF SubjectsMove
<1>7. QED BY <1>1, <1>5, <1>6, RequestMeans DEF RequestEffect, TInv, InboxOK, inboxVars

\* A schedule changes, but not its number or its lot.
LEMMA TaskChangeEffect ==
  ASSUME TInv, Request, UNCHANGED <<users, lots, subjects, inboxVars>>,
         NEW s \in DOMAIN tasks, DOMAIN tasks' = DOMAIN tasks,
         \A r \in DOMAIN tasks : r # s => tasks'[r] = tasks[r],
         tasks'[s] \in Task, tasks'[s].no = tasks[s].no, tasks'[s].lot = tasks[s].lot
  PROVE  RequestEffect
<1>1. SubjectsOK'
  BY DEF TInv, SubjectsOK
<1>2. SubjectsMove
  <2>1. \A r \in DOMAIN tasks : tasks'[r].no = tasks[r].no
    OBVIOUS
  <2>2. QED BY <2>1, NothingMoves DEF inboxVars
<1>3. QED BY <1>1, <1>2, RequestMeans DEF RequestEffect, TInv, InboxOK, inboxVars

LEMMA EditTaskEffect ==
  ASSUME TInv, NEW s \in DOMAIN tasks, EditTask(s)
  PROVE  RequestEffect
<1>1. Request /\ UNCHANGED <<users, lots, subjects, inboxVars>>
  BY DEF EditTask
<1>2. tasks[s] \in Task
  BY DEF TInv, SubjectsOK
<1>3. /\ DOMAIN tasks' = DOMAIN tasks /\ \A r \in DOMAIN tasks : r # s => tasks'[r] = tasks[r]
      /\ tasks'[s] \in Task /\ tasks'[s].no = tasks[s].no /\ tasks'[s].lot = tasks[s].lot
  <2>1. CASE \E due \in Dates \ {tasks[s].due} : tasks' = [tasks EXCEPT ![s].due = due, ![s].since = <<>>]
    <3>1. PICK due \in Dates : tasks' = [tasks EXCEPT ![s].due = due, ![s].since = <<>>]
      BY <2>1
    <3>2. PICK task : task = [tasks[s] EXCEPT !.due = due, !.since = <<>>]
      OBVIOUS
    <3>3. task \in Task /\ task.no = tasks[s].no /\ task.lot = tasks[s].lot
      BY <1>2, <3>2, Constants DEF Task
    <3>4. DOMAIN tasks' = DOMAIN tasks /\ tasks'[s] = task
          /\ \A r \in DOMAIN tasks : r # s => tasks'[r] = tasks[r]
      BY <3>1, <3>2
    <3>5. QED BY <3>3, <3>4
  <2>2. CASE \E interval \in Intervals : tasks' = [tasks EXCEPT ![s].interval = interval]
    BY <1>2, <2>2 DEF Task
  <2>3. CASE \E lead \in Leads \cup {Null} : tasks' = [tasks EXCEPT ![s].lead = lead]
    BY <1>2, <2>3 DEF Task
  <2>4. CASE tasks' = [tasks EXCEPT ![s].active = ~@]
    BY <1>2, <2>4 DEF Task
  <2>5. QED BY <2>1, <2>2, <2>3, <2>4 DEF EditTask
<1>4. QED BY <1>1, <1>3, TaskChangeEffect

\* The completed schedule: its due date is an interval after the day given.
LEMMA CompleteTaskMeans ==
  ASSUME TInv, NEW s \in DOMAIN tasks, CompleteTask(s)
  PROVE  /\ Request /\ UNCHANGED <<users, lots, subjects, inboxVars>>
         /\ DOMAIN tasks' = DOMAIN tasks /\ \A r \in DOMAIN tasks : r # s => tasks'[r] = tasks[r]
         /\ tasks'[s] \in Task /\ tasks'[s].no = tasks[s].no /\ tasks'[s].lot = tasks[s].lot
         /\ Follows(tasks'[s].due, tasks'[s].since[1], tasks'[s].since[2])
<1>1. Request /\ UNCHANGED <<users, lots, subjects, inboxVars>>
  BY DEF CompleteTask
<1>2. tasks[s] \in Task /\ tasks[s].interval \in Intervals
  BY DEF TInv, SubjectsOK, Task
<1>3. PICK unit \in Units, count \in Nat \ {0} : tasks[s].interval = <<unit, count>>
  BY <1>2, Constants
<1>4. PICK on \in today - 1 .. today + 1 :
        tasks' = [tasks EXCEPT ![s].since = <<on, <<unit, count>>>>, ![s].due = AddInterval(on, unit, count)]
  <2>1. PICK on \in today - 1 .. today + 1 :
          tasks' = [tasks EXCEPT ![s].since = <<on, tasks[s].interval>>,
                      ![s].due = AddInterval(on, tasks[s].interval[1], tasks[s].interval[2])]
    BY DEF CompleteTask
  <2>2. tasks[s].interval[1] = unit /\ tasks[s].interval[2] = count
    BY <1>3
  <2>3. QED BY <1>3, <2>1, <2>2
<1>5. on \in Nat \ {0}
  BY DEF TInv
<1>6. PICK due \in Nat : due = AddInterval(on, unit, count) /\ Follows(due, on, <<unit, count>>)
  BY <1>5, IntervalLater
<1>7. PICK task : task = [tasks[s] EXCEPT !.since = <<on, <<unit, count>>>>, !.due = due]
  OBVIOUS
<1>8. DOMAIN tasks' = DOMAIN tasks /\ tasks'[s] = task /\ \A r \in DOMAIN tasks : r # s => tasks'[r] = tasks[r]
  BY <1>4, <1>6, <1>7
<1>9. task.since = <<on, <<unit, count>>>> /\ task.due = due /\ task.no = tasks[s].no /\ task.lot = tasks[s].lot
  BY <1>2, <1>7 DEF Task
<1>10. task \in Task
  <2>1. <<on, <<unit, count>>>> \in Nat \X Intervals
    BY <1>2, <1>3, <1>5
  <2>2. QED BY <1>2, <1>7, <2>1 DEF Task
<1>11. Follows(task.due, task.since[1], task.since[2])
  BY <1>6, <1>9
<1>12. QED BY <1>1, <1>8, <1>9, <1>10, <1>11

LEMMA MarkEffect ==
  ASSUME TInv, NEW ks, NEW read \in BOOLEAN, NEW dismissed \in BOOLEAN, Mark(ks, read, dismissed)
  PROVE  RequestEffect
<1>1. Request /\ UNCHANGED <<subjectVars, told>>
  BY DEF Mark
<1>2. \A k \in DOMAIN rows : rows[k] \in Row
  BY DEF TInv, InboxOK
<1>3. /\ DOMAIN rows' = DOMAIN rows
      /\ \A k \in DOMAIN rows : rows'[k] = IF k \notin ks THEN rows[k]
                    ELSE [rows[k] EXCEPT !.read = @ \/ read, !.dismissed = @ \/ dismissed]
  BY DEF Mark
<1>4. \A k \in DOMAIN rows : rows'[k] \in Row /\ rows'[k].nr = rows[k].nr
  BY <1>2, <1>3 DEF Row
<1>5. SubjectsOK'
  BY <1>1 DEF TInv, SubjectsOK, subjectVars
<1>6. SubjectsMove
  BY <1>1, <1>3, NothingMoves DEF subjectVars
<1>7. QED BY <1>1, <1>3, <1>4, <1>5, <1>6, RequestMeans DEF RequestEffect

LEMMA RequestedEffect ==
  ASSUME TInv, Requested
  PROVE  RequestEffect
<1>1. CASE \E u \in Users : SetUser(u) \/ MarkAllRead(u) \/ DismissAll(u)
  BY <1>1, SetUserEffect, MarkEffect DEF MarkAllRead, DismissAll
<1>2. CASE CreateLot \/ CreateTask
  BY <1>2, CreateLotEffect, CreateTaskEffect
<1>3. CASE \E i \in DOMAIN lots : EditLot(i) \/ DeleteLot(i)
  BY <1>3, EditLotEffect, DeleteLotEffect
<1>4. CASE \E s \in DOMAIN tasks : EditTask(s) \/ DeleteTask(s) \/ CompleteTask(s)
  <2>1. PICK s \in DOMAIN tasks : EditTask(s) \/ DeleteTask(s) \/ CompleteTask(s)
    BY <1>4
  <2>2. CASE CompleteTask(s)
    BY <2>2, CompleteTaskMeans, TaskChangeEffect
  <2>3. QED BY <2>1, <2>2, EditTaskEffect, DeleteTaskEffect
<1>5. CASE \E k \in DOMAIN rows : MarkRead(k) \/ Dismiss(k)
  BY <1>5, MarkEffect DEF MarkRead, Dismiss
<1>6. QED BY <1>1, <1>2, <1>3, <1>4, <1>5 DEF Requested

LEMMA CascadeMeans ==
  ASSUME Cascade
  PROVE  deliveries' \subseteq deliveries /\ \A d \in deliveries' : d[1] \in Numbers'
BY DEF Cascade, Numbers

LEMMA RequestKeepsTypes ==
  ASSUME TInv, RequestEffect, Cascade
  PROVE  TInv'
<1>1. UNCHANGED <<today, jobs, overlap, told, writer>> /\ SubjectsOK'
  BY DEF RequestEffect
<1>2. InboxOK'
  BY <1>1 DEF RequestEffect, TInv, InboxOK
<1>3. Delivered'
  BY CascadeMeans DEF TInv, Delivered
<1>4. Working'
  BY <1>1, CascadeMeans DEF TInv, Working, JobOK
<1>5. QED BY <1>1, <1>2, <1>3, <1>4 DEF TInv

-----------------------------------------------------------------------------
(* Scan and dispatch keep the types *)

\* One job takes a step; the others stay as they are.
LEMMA WorkingAfter ==
  ASSUME Working, NEW j \in Jobs, NEW job, Become(j, job), JobOK(j)',
         \A i \in Jobs : i # j => JobOK(i)' /\ Made(job) \cap Made(jobs[i]) = {},
         writer' \in Jobs \cup {Null}
  PROVE  Working'
<1>1. /\ jobs' = [i \in Jobs |-> jobs'[i]] /\ jobs'[j] = job
      /\ \A i \in Jobs : i # j => jobs'[i] = jobs[i]
  BY BecomeMeans
<1>2. ASSUME NEW h \in Jobs, NEW i \in Jobs, h # i PROVE Made(jobs[h])' \cap Made(jobs[i])' = {}
  <2>2. Made(jobs[h])' = Made(jobs'[h]) /\ Made(jobs[i])' = Made(jobs'[i])
    BY DEF Made
  <2>3. CASE h # j /\ i # j
    BY <1>1, <1>2, <2>2, <2>3 DEF Working
  <2>4. CASE h = j
    BY <1>1, <1>2, <2>2, <2>4
  <2>5. CASE i = j
    BY <1>1, <1>2, <2>2, <2>5
  <2>6. QED BY <2>3, <2>4, <2>5
<1>3. QED BY <1>1, <1>2 DEF Working

\* A job that does nothing, where nothing is told.
LEMMA BystanderOK ==
  ASSUME NEW i \in Jobs, JobOK(i), jobs'[i] = jobs[i], UNCHANGED told,
         jobs[i].at = "scan" => /\ jobs[i].held # {} => writer' = i
                                /\ \A d \in deliveries' : d[1] \notin jobs[i].made
  PROVE  JobOK(i)'
BY DEF JobOK, Made

LEMMA NextDayTypes ==
  ASSUME TInv, NextDay, Cascade
  PROVE  TInv'
<1>1. UNCHANGED <<subjectVars, inboxVars, jobs, writer>> /\ today' = today + 1
  BY DEF NextDay
<1>2. Working'
  BY <1>1, CascadeMeans DEF TInv, Working, JobOK, inboxVars
<1>3. SubjectsOK' /\ InboxOK' /\ Delivered'
  BY <1>1, CascadeMeans DEF TInv, SubjectsOK, InboxOK, Delivered, subjectVars, inboxVars
<1>4. QED BY <1>1, <1>2, <1>3 DEF TInv

\* What concerns the tables, where only jobs and the lock change.
LEMMA TablesStay ==
  ASSUME TInv, UNCHANGED <<today, subjectVars, inboxVars, deliveries>> 
  PROVE  (today \in Nat /\ today > 1 /\ SubjectsOK /\ InboxOK /\ Delivered)'
BY DEF TInv, SubjectsOK, InboxOK, Delivered, Numbers, subjectVars, inboxVars

LEMMA BeginMeans ==
  ASSUME TInv, NEW j \in Jobs, Begin(j)
  PROVE  \E job \in ScanJob :
           /\ Become(j, job) /\ jobs[j] = Idle /\ (~overlap => Quiet)
           /\ job.users = users /\ job.due = {} /\ job.made = {} /\ job.held = {}
           /\ Range(job.passes) = {"best_before", "warranty", "low_stock", "maintenance"}
<1>1. PICK job : job = [at |-> "scan", day |-> today, users |-> users,
                passes |-> <<"best_before", "warranty", "low_stock", "maintenance">>,
                due |-> {}, made |-> {}, held |-> {}]
  OBVIOUS
<1>2. job \in ScanJob
  BY <1>1 DEF ScanJob, Rounds, TInv, SubjectsOK
<1>3. Range(job.passes) = {"best_before", "warranty", "low_stock", "maintenance"}
  BY <1>1 DEF Range
<1>4. QED BY <1>1, <1>2, <1>3 DEF Begin

LEMMA BeginTypes ==
  ASSUME TInv, NEW j \in Jobs, Begin(j), Cascade
  PROVE  TInv'
<1>1. PICK job \in ScanJob :
        Become(j, job) /\ jobs[j] = Idle /\ job.due = {} /\ job.made = {} /\ job.held = {}
  BY BeginMeans
<1>2. UNCHANGED <<today, subjectVars, inboxVars, writer>>
  BY DEF Begin
<1>3. jobs'[j] = job /\ \A i \in Jobs : i # j => jobs'[i] = jobs[i]
  BY <1>1, BecomeMeans DEF TInv
<1>4. job.at = "scan" /\ Made(job) = {}
  BY <1>1 DEF ScanJob, Made
<1>5. JobOK(j)'
  <2>1. Len(told) \in Nat /\ (Len(told) + 1 .. Len(told)) = {}
    BY DEF TInv, InboxOK
  <2>2. \E h \in 0 .. Len(told) : job.held = h + 1 .. Len(told)
    BY <1>1, <2>1
  <2>3. Made(jobs'[j]) = {} /\ told' = told
    BY <1>2, <1>3, <1>4 DEF inboxVars
  <2>4. QED BY <1>1, <1>3, <1>4, <2>2, <2>3 DEF JobOK, Made
<1>6. ASSUME NEW i \in Jobs, i # j PROVE JobOK(i)'
  BY <1>2, <1>3, <1>6, BystanderOK, CascadeMeans DEF TInv, Working, JobOK, inboxVars
<1>7. Working'
  BY <1>1, <1>2, <1>4, <1>5, <1>6, WorkingAfter DEF TInv, Working
<1>8. deliveries' = deliveries
  BY <1>2 DEF Cascade, TInv, Delivered, Numbers, inboxVars
<1>9. writer' \in Jobs => jobs'[writer'] # Idle
  BY <1>1, <1>2, <1>3, <1>4 DEF TInv, Idle
<1>10. QED BY <1>2, <1>7, <1>8, <1>9, TablesStay DEF TInv

\* What a pass asks for, one by one.
LEMMA DueDatesMeans ==
  ASSUME NEW us, NEW source, NEW day, NEW d
  PROVE  d \in DueDates(us, source, day) <=>
           \E i \in DOMAIN lots : \E u \in Told(us, lots[i].who) :
             /\ lots[i].live /\ lots[i].date[source] # Null
             /\ day >= lots[i].date[source] - ResolveLead(source, lots[i], us[u])
             /\ d = <<<<source, u, i, lots[i].date[source]>>, lots[i].no>>
<1> DEFINE Near(i, u) == day >= lots[i].date[source] - ResolveLead(source, lots[i], us[u])
           Pair(i, u) == <<<<source, u, i, lots[i].date[source]>>, lots[i].no>>
           On(i) == {Pair(i, u) : u \in {u \in Told(us, lots[i].who) : Near(i, u)}}
           Dated == {i \in DOMAIN lots : lots[i].live /\ lots[i].date[source] # Null}
<1>1. DueDates(us, source, day) = UNION {On(i) : i \in Dated}
  BY DEF DueDates
<1>2. \A i : d \in On(i) <=> \E u \in Told(us, lots[i].who) : Near(i, u) /\ d = Pair(i, u)
  <2> HIDE DEF Near, Pair
  <2>1. QED OBVIOUS
<1>3. d \in UNION {On(i) : i \in Dated} <=> \E i \in Dated : d \in On(i)
  <2> HIDE DEF On, Dated
  <2>1. QED OBVIOUS
<1>4. d \in DueDates(us, source, day) <=>
        \E i \in Dated : \E u \in Told(us, lots[i].who) : Near(i, u) /\ d = Pair(i, u)
  <2> HIDE DEF On, Dated, Near, Pair
  <2>1. QED BY <1>1, <1>2, <1>3
<1>5. QED BY Zenon, <1>4

TaskLead(task) == IF task.lead = Null THEN GlobalLead["maintenance"] ELSE task.lead

LEMMA DueTasksMeans ==
  ASSUME NEW us, NEW day, NEW d
  PROVE  d \in DueTasks(us, day) <=>
           \E s \in DOMAIN tasks : \E u \in Told(us, lots[tasks[s].lot].who) :
             /\ tasks[s].active /\ day >= tasks[s].due - TaskLead(tasks[s])
             /\ d = <<<<"maintenance", u, s, tasks[s].due>>, tasks[s].no>>
<1> DEFINE Pair(s, u) == <<<<"maintenance", u, s, tasks[s].due>>, tasks[s].no>>
           On(s) == {Pair(s, u) : u \in Told(us, lots[tasks[s].lot].who)}
           Near == {s \in DOMAIN tasks : tasks[s].active /\ day >= tasks[s].due - TaskLead(tasks[s])}
<1>1. DueTasks(us, day) = UNION {On(s) : s \in Near}
  BY DEF DueTasks, TaskLead
<1>2. \A s : d \in On(s) <=> \E u \in Told(us, lots[tasks[s].lot].who) : d = Pair(s, u)
  <2> HIDE DEF Pair
  <2>1. QED OBVIOUS
<1>3. d \in UNION {On(s) : s \in Near} <=> \E s \in Near : d \in On(s)
  <2> HIDE DEF On, Near
  <2>1. QED OBVIOUS
<1>4. d \in DueTasks(us, day) <=> \E s \in Near : \E u \in Told(us, lots[tasks[s].lot].who) : d = Pair(s, u)
  <2> HIDE DEF On, Near, Pair
  <2>1. QED BY <1>1, <1>2, <1>3
<1>5. QED BY Zenon, <1>4

LEMMA AskedType ==
  ASSUME TInv, NEW job \in ScanJob, NEW pass
  PROVE  Asked(job, pass) \in SUBSET (Key \X Nat)
<1>1. \A us, who : Told(us, who) \subseteq Users
  BY DEF Told, RecipientsFor, Active
<1>2. ASSUME pass \in Sources, NEW d \in DueDates(job.users, pass, job.day) PROVE d \in Key \X Nat
  <2>1. PICK i \in DOMAIN lots : \E u \in Told(job.users, lots[i].who) :
          lots[i].date[pass] # Null /\ d = <<<<pass, u, i, lots[i].date[pass]>>, lots[i].no>>
    BY <1>2, DueDatesMeans
  <2>2. PICK u \in Users : lots[i].date[pass] # Null /\ d = <<<<pass, u, i, lots[i].date[pass]>>, lots[i].no>>
    BY <1>1, <2>1
  <2>3. i \in Nat /\ lots[i] \in Lot
    BY DEF TInv, SubjectsOK
  <2>4. lots[i].no \in Nat /\ lots[i].date[pass] \in Nat
    BY <1>2, <2>2, <2>3, Constants DEF Lot
  <2>5. QED BY <1>2, <2>2, <2>3, <2>4 DEF Key
<1>3. ASSUME NEW d \in DueTasks(job.users, job.day) PROVE d \in Key \X Nat
  <2>1. PICK s \in DOMAIN tasks : \E u \in Told(job.users, lots[tasks[s].lot].who) :
          d = <<<<"maintenance", u, s, tasks[s].due>>, tasks[s].no>>
    BY <1>3, DueTasksMeans
  <2>2. PICK u \in Users : d = <<<<"maintenance", u, s, tasks[s].due>>, tasks[s].no>>
    BY <1>1, <2>1
  <2>3. s \in Nat /\ tasks[s] \in Task
    BY DEF TInv, SubjectsOK
  <2>4. tasks[s].no \in Nat /\ tasks[s].due \in Nat
    BY <2>3 DEF Task
  <2>5. QED BY <2>2, <2>3, <2>4 DEF Key
<1>4. QED BY <1>2, <1>3 DEF Asked

LEMMA PassMeans ==
  ASSUME TInv, NEW j \in Jobs, Pass(j)
  PROVE  /\ jobs[j] \in ScanJob /\ jobs[j].due = {} /\ jobs[j].passes # <<>>
         /\ \E job \in ScanJob :
              /\ Become(j, job) /\ job.day = jobs[j].day /\ job.users = jobs[j].users
              /\ job.passes = Tail(jobs[j].passes) /\ job.due = Asked(jobs[j], Head(jobs[j].passes))
              /\ job.made = jobs[j].made /\ job.held = jobs[j].held
         /\ writer' = writer \/ (Free(j) /\ writer' = j)
         /\ UNCHANGED <<today, subjectVars, inboxVars, budget, overlap>>
<1>1. /\ jobs[j].at = "scan" /\ jobs[j].due = {} /\ jobs[j].passes # <<>>
      /\ Become(j, [jobs[j] EXCEPT !.passes = Tail(@), !.due = Asked(jobs[j], Head(jobs[j].passes))])
      /\ writer' = writer \/ (Free(j) /\ writer' = j)
      /\ UNCHANGED <<today, subjectVars, inboxVars, budget, overlap>>
  BY DEF Pass
<1>2. jobs[j] \in ScanJob
  BY <1>1, Stages DEF TInv, Working
<1>3. Tail(jobs[j].passes) \in Rounds
  BY <1>1, <1>2, RoundSteps DEF ScanJob
<1>4. Asked(jobs[j], Head(jobs[j].passes)) \in SUBSET (Key \X Nat)
  BY <1>2, AskedType
<1>5. PICK asked, job : /\ asked = Asked(jobs[j], Head(jobs[j].passes))
                        /\ job = [jobs[j] EXCEPT !.passes = Tail(@), !.due = asked]
  OBVIOUS
<1>6. /\ job \in ScanJob /\ job.day = jobs[j].day /\ job.users = jobs[j].users
      /\ job.passes = Tail(jobs[j].passes) /\ job.due = asked
      /\ job.made = jobs[j].made /\ job.held = jobs[j].held
  BY <1>2, <1>3, <1>4, <1>5 DEF ScanJob
<1>7. QED BY <1>1, <1>2, <1>5, <1>6

LEMMA PassTypes ==
  ASSUME TInv, NEW j \in Jobs, Pass(j), Cascade
  PROVE  TInv'
<1>1. PICK job \in ScanJob : Become(j, job) /\ job.made = jobs[j].made /\ job.held = jobs[j].held
  BY PassMeans
<1>2. /\ jobs[j] \in ScanJob /\ UNCHANGED <<today, subjectVars, inboxVars>>
      /\ writer' = writer \/ (writer \in {Null, j} /\ writer' = j)
  BY PassMeans DEF Free
<1>3. jobs'[j] = job /\ \A i \in Jobs : i # j => jobs'[i] = jobs[i]
  BY <1>1, BecomeMeans DEF TInv
<1>4. job.at = "scan" /\ jobs[j].at = "scan" /\ Made(job) = job.made /\ Made(jobs[j]) = jobs[j].made
  BY <1>1, <1>2 DEF ScanJob, Made
<1>5. deliveries' = deliveries
  BY <1>2 DEF Cascade, TInv, Delivered, Numbers, inboxVars
<1>6. JobOK(j)'
  <2>1. JobOK(j) /\ told' = told
    BY <1>2 DEF TInv, Working, inboxVars
  <2>2. job.held # {} => writer' = j
    BY <1>1, <1>2, <1>4, <2>1 DEF JobOK
  <2>3. Made(jobs'[j]) = Made(jobs[j])
    BY <1>1, <1>3, <1>4
  <2>4. QED BY <1>1, <1>3, <1>4, <1>5, <2>1, <2>2, <2>3 DEF JobOK, Made
<1>7. ASSUME NEW i \in Jobs, i # j PROVE JobOK(i)'
  <2>1. JobOK(i) /\ told' = told
    BY <1>2 DEF TInv, Working, inboxVars
  <2>2. (jobs[i].at = "scan" /\ jobs[i].held # {}) => writer = i
    BY <2>1 DEF JobOK
  <2>3. (jobs[i].at = "scan" /\ jobs[i].held # {}) => writer' = i
    BY <1>2, <1>7, <2>2, Constants
  <2>4. QED BY <1>3, <1>5, <1>7, <2>1, <2>3, BystanderOK DEF JobOK
<1>8. Working'
  <2>1. \A i \in Jobs : i # j => Made(job) \cap Made(jobs[i]) = {}
    BY <1>1, <1>4 DEF TInv, Working
  <2>2. writer' \in Jobs \cup {Null}
    BY <1>2 DEF TInv, Working
  <2>3. QED BY <1>1, <1>6, <1>7, <2>1, <2>2, WorkingAfter DEF TInv
<1>9. writer' \in Jobs => jobs'[writer'] # Idle
  BY <1>2, <1>3, <1>4 DEF TInv, Idle
<1>10. QED BY <1>2, <1>5, <1>8, <1>9, TablesStay DEF TInv

\* A row is there already, or is made and told.
Adds(d) ==
  /\ d[1] \notin DOMAIN rows
  /\ DOMAIN rows' = DOMAIN rows \cup {d[1]} /\ rows'[d[1]] \in Row /\ rows'[d[1]].nr = Len(told) + 1
  /\ \A k \in DOMAIN rows : rows'[k] = rows[k]
  /\ told' \in Seq(Key \X Nat) /\ Len(told') = Len(told) + 1 /\ told'[Len(told) + 1] = d
  /\ \A n \in 1 .. Len(told) : told'[n] = told[n]

LEMMA MakeMeans ==
  ASSUME TInv, NEW j \in Jobs, Make(j)
  PROVE  /\ jobs[j] \in ScanJob /\ Free(j)
         /\ UNCHANGED <<today, subjectVars, writer, budget, overlap>>
         /\ \E d \in jobs[j].due, job \in ScanJob :
              /\ Become(j, job) /\ job.day = jobs[j].day /\ job.users = jobs[j].users
              /\ job.passes = jobs[j].passes /\ job.due = jobs[j].due \ {d} /\ d \in Key \X Nat
              /\ \/ /\ d[1] \in DOMAIN rows /\ UNCHANGED inboxVars
                    /\ job.made = jobs[j].made /\ job.held = jobs[j].held
                 \/ /\ Adds(d)
                    /\ job.made = jobs[j].made \cup {Len(told) + 1}
                    /\ job.held = IF writer = j THEN jobs[j].held \cup {Len(told) + 1} ELSE jobs[j].held
<1>1. jobs[j].at = "scan" /\ Free(j) /\ UNCHANGED <<today, subjectVars, writer, budget, overlap>>
  BY DEF Make
<1>2. jobs[j] \in ScanJob
  BY <1>1, Stages DEF TInv, Working
<1>3. PICK d, nr, job0 :
        /\ d \in jobs[j].due
        /\ nr = Len(told) + 1 /\ job0 = [jobs[j] EXCEPT !.due = @ \ {d}]
        /\ \/ d[1] \in DOMAIN rows /\ Become(j, job0) /\ UNCHANGED inboxVars
           \/ /\ d[1] \notin DOMAIN rows
              /\ rows' = Insert(rows, d[1], [nr |-> nr, read |-> FALSE, dismissed |-> FALSE])
              /\ told' = Append(told, d)
              /\ Become(j, [job0 EXCEPT !.made = @ \cup {nr},
                                        !.held = IF writer = j THEN @ \cup {nr} ELSE @])
  BY Zenon DEF Make
<1>4. d \in Key \X Nat /\ told \in Seq(Key \X Nat) /\ nr \in Nat
  BY <1>2, <1>3 DEF ScanJob, TInv, InboxOK
<1>5. /\ job0 \in ScanJob /\ job0.day = jobs[j].day /\ job0.users = jobs[j].users
      /\ job0.passes = jobs[j].passes /\ job0.due = jobs[j].due \ {d}
      /\ job0.made = jobs[j].made /\ job0.held = jobs[j].held
  BY <1>2, <1>3 DEF ScanJob
<1>6. CASE d[1] \in DOMAIN rows /\ Become(j, job0) /\ UNCHANGED inboxVars
  <2>1. d \in jobs[j].due
    BY <1>3
  <2>2. QED BY Zenon, <1>1, <1>2, <1>4, <1>5, <1>6, <2>1
<1>7. CASE /\ d[1] \notin DOMAIN rows
           /\ rows' = Insert(rows, d[1], [nr |-> nr, read |-> FALSE, dismissed |-> FALSE])
           /\ told' = Append(told, d)
           /\ Become(j, [job0 EXCEPT !.made = @ \cup {nr},
                                     !.held = IF writer = j THEN @ \cup {nr} ELSE @])
  <2>1. PICK held : held = IF writer = j THEN jobs[j].held \cup {nr} ELSE jobs[j].held
    OBVIOUS
  <2>2. PICK job : job = [job0 EXCEPT !.made = @ \cup {nr}, !.held = held]
    OBVIOUS
  <2>3. Become(j, job)
    BY <1>5, <1>7, <2>1, <2>2
  <2>4. held \in SUBSET Nat
    BY <1>2, <1>4, <2>1 DEF ScanJob
  <2>5. /\ job \in ScanJob /\ job.day = job0.day /\ job.users = job0.users /\ job.passes = job0.passes
        /\ job.due = job0.due /\ job.made = job0.made \cup {nr} /\ job.held = held
    BY <1>4, <1>5, <2>2, <2>4 DEF ScanJob
  <2>6. Adds(d)
    <3>1. PICK row : row = [nr |-> nr, read |-> FALSE, dismissed |-> FALSE]
      OBVIOUS
    <3>2. row \in Row /\ row.nr = nr
      BY <1>4, <3>1 DEF Row
    <3>3. /\ DOMAIN rows' = DOMAIN rows \cup {d[1]} /\ rows'[d[1]] = row
          /\ \A k \in DOMAIN rows : rows'[k] = rows[k]
      BY <1>7, <3>1 DEF Insert
    <3>4. /\ told' \in Seq(Key \X Nat) /\ Len(told') = Len(told) + 1 /\ told'[Len(told) + 1] = d
          /\ \A n \in 1 .. Len(told) : told'[n] = told[n]
      BY <1>4, <1>7
    <3>5. QED BY <1>3, <1>7, <3>2, <3>3, <3>4 DEF Adds
  <2>7. QED BY <1>1, <1>2, <1>3, <1>4, <1>5, <2>1, <2>3, <2>5, <2>6
<1>8. QED BY <1>3, <1>6, <1>7

LEMMA AddsInbox ==
  ASSUME TInv, NEW d \in Key \X Nat, Adds(d)
  PROVE  InboxOK' /\ Numbers \subseteq Numbers'
<1>1. Len(told) \in Nat
  BY DEF TInv, InboxOK
<1>2. Numbers \subseteq Numbers'
  BY DEF Adds, Numbers
<1>3. told' \in Seq(Key \X Nat)
  BY DEF Adds
<1>4. ASSUME NEW k \in DOMAIN rows'
      PROVE  k \in Key /\ rows'[k] \in Row /\ rows'[k].nr \in 1 .. Len(told') /\ told'[rows'[k].nr][1] = k
  <2>1. CASE k = d[1]
    BY <1>1, <2>1 DEF Adds
  <2>2. CASE k # d[1]
    <3>1. k \in DOMAIN rows /\ rows'[k] = rows[k]
      BY <2>2 DEF Adds
    <3>2. k \in Key /\ rows[k] \in Row /\ rows[k].nr \in 1 .. Len(told) /\ told[rows[k].nr][1] = k
      BY <3>1 DEF TInv, InboxOK
    <3>3. told'[rows[k].nr] = told[rows[k].nr] /\ Len(told') = Len(told) + 1
      BY <3>2 DEF Adds
    <3>4. QED BY <1>1, <3>1, <3>2, <3>3
  <2>3. QED BY <2>1, <2>2
<1>5. QED BY <1>2, <1>3, <1>4 DEF InboxOK

LEMMA MakeTypes ==
  ASSUME TInv, NEW j \in Jobs, Make(j), Cascade
  PROVE  TInv'
<1>1. /\ jobs[j] \in ScanJob /\ writer \in {Null, j}
      /\ UNCHANGED <<today, subjectVars, writer>>
  BY MakeMeans DEF Free
<1>2. PICK d \in jobs[j].due, job \in ScanJob :
              /\ Become(j, job) /\ d \in Key \X Nat
              /\ \/ /\ UNCHANGED inboxVars
                    /\ job.made = jobs[j].made /\ job.held = jobs[j].held
                 \/ /\ Adds(d)
                    /\ job.made = jobs[j].made \cup {Len(told) + 1}
                    /\ job.held = IF writer = j THEN jobs[j].held \cup {Len(told) + 1} ELSE jobs[j].held
  BY MakeMeans
<1>3. jobs'[j] = job /\ \A i \in Jobs : i # j => jobs'[i] = jobs[i]
  BY <1>2, BecomeMeans DEF TInv
<1>4. job.at = "scan" /\ jobs[j].at = "scan" /\ Made(job) = job.made /\ Made(jobs[j]) = jobs[j].made
  BY <1>1, <1>2 DEF ScanJob, Made
<1>5. JobOK(j) /\ Len(told) \in Nat /\ deliveries' \subseteq deliveries
      /\ \A e \in deliveries : e[1] \in 1 .. Len(told)
  BY CascadeMeans DEF TInv, Working, InboxOK, Delivered, Numbers
<1>6. CASE UNCHANGED inboxVars /\ job.made = jobs[j].made /\ job.held = jobs[j].held
  <2>1. told' = told
    BY <1>6 DEF inboxVars
  <2>2. JobOK(j)'
    <3>1. Made(jobs'[j]) = Made(jobs[j])
      BY <1>3, <1>4, <1>6
    <3>2. QED BY <1>1, <1>3, <1>4, <1>5, <1>6, <2>1, <3>1 DEF JobOK, Made
  <2>3. ASSUME NEW i \in Jobs, i # j PROVE JobOK(i)'
    BY <1>1, <1>3, <1>5, <2>1, <2>3, BystanderOK DEF TInv, Working, JobOK
  <2>4. Working'
    <3>1. \A i \in Jobs : i # j => Made(job) \cap Made(jobs[i]) = {}
      BY <1>4, <1>6 DEF TInv, Working
    <3>2. Working /\ writer' \in Jobs \cup {Null}
      BY <1>1 DEF TInv, Working
    <3>3. QED BY <1>2, <2>2, <2>3, <3>1, <3>2, WorkingAfter
  <2>5. writer' \in Jobs => jobs'[writer'] # Idle
    BY <1>1, <1>3, <1>4 DEF TInv, Idle
  <2>6. deliveries' = deliveries
    BY <1>6 DEF Cascade, TInv, Delivered, Numbers, inboxVars
  <2>7. QED BY <1>1, <1>6, <2>4, <2>5, <2>6, TablesStay DEF TInv
<1>7. CASE /\ Adds(d) /\ job.made = jobs[j].made \cup {Len(told) + 1}
           /\ job.held = IF writer = j THEN jobs[j].held \cup {Len(told) + 1} ELSE jobs[j].held
  <2>1. InboxOK' /\ Numbers \subseteq Numbers' /\ Len(told') = Len(told) + 1
    BY <1>2, <1>7, AddsInbox DEF Adds
  <2>2. JobOK(j)'
    <3>1. jobs[j].made \subseteq 1 .. Len(told) /\ jobs[j].held \subseteq jobs[j].made
      BY <1>4, <1>5 DEF JobOK
    <3>2. Made(jobs'[j]) = job.made /\ job.made \subseteq 1 .. Len(told')
      BY <1>3, <1>4, <1>5, <1>7, <2>1, <3>1
    <3>3. job.held \subseteq job.made /\ (job.held # {} => writer' = j)
      BY <1>1, <1>4, <1>5, <1>7, <3>1 DEF JobOK
    <3>4. \E h \in 0 .. Len(told') : job.held = h + 1 .. Len(told')
      <4>1. PICK h \in 0 .. Len(told) : jobs[j].held = h + 1 .. Len(told)
        BY <1>4, <1>5 DEF JobOK
      <4>2. CASE writer = j
        <5>1. job.held = h + 1 .. Len(told')
          BY <1>5, <1>7, <2>1, <4>1, <4>2
        <5>2. QED BY <1>5, <2>1, <5>1
      <4>3. CASE writer # j
        <5>1. job.held = {}
          BY <1>4, <1>5, <1>7, <4>3 DEF JobOK
        <5>2. Len(told') + 1 .. Len(told') = {} /\ Len(told') \in 0 .. Len(told')
          BY <1>5, <2>1
        <5>3. QED BY <5>1, <5>2
      <4>4. QED BY <4>2, <4>3
    <3>5. \A e \in deliveries' : e[1] \notin job.made
      BY <1>4, <1>5, <1>7 DEF JobOK
    <3>6. QED BY <1>3, <1>4, <3>2, <3>3, <3>4, <3>5 DEF JobOK, Made
  <2>3. ASSUME NEW i \in Jobs, i # j PROVE JobOK(i)'
    <3>1. JobOK(i) /\ jobs'[i] = jobs[i]
      BY <1>3, <2>3 DEF TInv, Working
    <3>2. jobs[i].at = "scan" => jobs[i].held = {}
      BY <1>1, <2>3, <3>1, Constants DEF JobOK
    <3>3. Made(jobs'[i]) = Made(jobs[i]) /\ Made(jobs[i]) \subseteq 1 .. Len(told')
      BY <1>5, <2>1, <3>1 DEF JobOK
    <3>4. Len(told') + 1 .. Len(told') = {} /\ Len(told') \in 0 .. Len(told')
      BY <1>5, <2>1
    <3>5. jobs[i].at = "scan" => \E h \in 0 .. Len(told') : jobs[i].held = h + 1 .. Len(told')
      BY <3>2, <3>4
    <3>6. jobs[i].at = "scan" => \A e \in deliveries' : e[1] \notin jobs[i].made
      BY <1>5, <3>1 DEF JobOK
    <3>7. QED BY <3>1, <3>2, <3>3, <3>5, <3>6 DEF JobOK, Made
  <2>4. Working'
    <3>1. \A i \in Jobs : i # j => Made(job) \cap Made(jobs[i]) = {}
      <4>1. ASSUME NEW i \in Jobs, i # j PROVE Made(job) \cap Made(jobs[i]) = {}
        <5>1. Made(jobs[j]) \cap Made(jobs[i]) = {} /\ Made(jobs[i]) \subseteq 1 .. Len(told)
          BY <4>1 DEF TInv, Working, JobOK
        <5>2. QED BY <1>4, <1>5, <1>7, <5>1
      <4>2. QED BY <4>1
    <3>2. Working /\ writer' \in Jobs \cup {Null}
      BY <1>1 DEF TInv, Working
    <3>3. QED BY <1>2, <2>2, <2>3, <3>1, <3>2, WorkingAfter
  <2>5. writer' \in Jobs => jobs'[writer'] # Idle
    BY <1>1, <1>3, <1>4 DEF TInv, Idle
  <2>6. Delivered'
    BY CascadeMeans DEF TInv, Delivered
  <2>7. SubjectsOK' /\ today' = today
    BY <1>1 DEF TInv, SubjectsOK, subjectVars
  <2>8. QED BY <2>1, <2>4, <2>5, <2>6, <2>7 DEF TInv
<1>8. QED BY <1>2, <1>6, <1>7

LEMMA HouseholdStays ==
  ASSUME UNCHANGED household
  PROVE  UNCHANGED <<today, subjectVars, inboxVars, budget, overlap, configured>>
BY DEF household

LEMMA ReleaseMeans ==
  ASSUME TInv, NEW j \in Jobs, Release(j)
  PROVE  /\ writer' \in Jobs \cup {Null} /\ (writer' \in Jobs => writer' # j /\ writer' = writer)
         /\ \A i \in Jobs : i # j /\ writer = i => writer' = i
BY Constants DEF Release, TInv, Working

\* A step of a job that tells nothing keeps the types, if its own are kept.
LEMMA JobStepTypes ==
  ASSUME TInv, NEW j \in Jobs, NEW job, Become(j, job), UNCHANGED <<today, subjectVars, inboxVars>>,
         Delivered', JobOK(j)', Made(job) \subseteq Made(jobs[j]),
         \A i \in Jobs : i # j => \A d \in deliveries' : d \in deliveries \/ d[1] \notin Made(jobs[i]),
         \/ Release(j)
         \/ writer' \in {writer, j} /\ (writer' = j => writer \in {Null, j}) /\ job # Idle
  PROVE  TInv'
<1>1. jobs'[j] = job /\ \A i \in Jobs : i # j => jobs'[i] = jobs[i]
  BY BecomeMeans DEF TInv
<1>2. /\ writer' \in Jobs \cup {Null}
      /\ \A i \in Jobs : i # j /\ writer = i => writer' = i
      /\ writer' \in Jobs => jobs'[writer'] # Idle
  <2>1. CASE Release(j)
    BY <1>1, <2>1, ReleaseMeans DEF TInv
  <2>2. CASE writer' \in {writer, j} /\ (writer' = j => writer \in {Null, j}) /\ job # Idle
    <3>1. writer \in Jobs \cup {Null} /\ (writer \in Jobs => jobs[writer] # Idle)
      BY DEF TInv, Working
    <3>2. QED BY <1>1, <2>2, <3>1, Constants
  <2>3. QED BY <2>1, <2>2
<1>3. told' = told
  BY DEF inboxVars
<1>4. ASSUME NEW i \in Jobs, i # j PROVE JobOK(i)' /\ Made(job) \cap Made(jobs[i]) = {}
  <2>1. JobOK(i) /\ Made(jobs[j]) \cap Made(jobs[i]) = {}
    BY <1>4 DEF TInv, Working
  <2>2. jobs[i].at = "scan" =>
          Made(jobs[i]) = jobs[i].made /\ \A d \in deliveries' : d[1] \notin jobs[i].made
    BY <1>4, <2>1, Stages DEF JobOK
  <2>3. (jobs[i].at = "scan" /\ jobs[i].held # {}) => writer' = i
    BY <1>2, <1>4, <2>1 DEF JobOK
  <2>4. JobOK(i)'
    BY <1>1, <1>3, <1>4, <2>1, <2>2, <2>3, BystanderOK
  <2>5. QED BY <2>1, <2>4
<1>5. Working'
  BY <1>2, <1>4, WorkingAfter DEF TInv
<1>6. SubjectsOK' /\ InboxOK' /\ today' = today
  BY DEF TInv, SubjectsOK, InboxOK, subjectVars, inboxVars
<1>7. QED BY <1>2, <1>5, <1>6 DEF TInv

LEMMA DeliveredStays ==
  ASSUME TInv, UNCHANGED inboxVars, deliveries' \subseteq deliveries
  PROVE  Delivered'
BY DEF TInv, Delivered, Numbers, inboxVars

LEMMA IdleMeans ==
  ASSUME NEW j \in Jobs, jobs'[j] = Idle, Len(told') \in Nat
  PROVE  JobOK(j)' /\ Made(Idle) = {}
<1>1. Idle.at = "idle"
  BY DEF Idle
<1>2. jobs'[j].at = "idle" /\ Made(jobs'[j]) = {} /\ Made(Idle) = {}
  BY <1>1 DEF Made
<1>3. QED BY <1>2 DEF JobOK, Made

LEMMA CommitMeans ==
  ASSUME TInv, NEW j \in Jobs, Commit(j)
  PROVE  /\ jobs[j] \in ScanJob /\ jobs[j].due = {} /\ jobs[j].passes = <<>>
         /\ Release(j) /\ UNCHANGED <<household, deliveries, heard>>
         /\ \/ jobs[j].made = {} /\ Become(j, Idle)
            \/ /\ jobs[j].made # {}
               /\ \E job \in DispatchJob :
                    /\ Become(j, job) /\ job.made = jobs[j].made /\ job.channels = Channels
                    /\ job.left = {} /\ job.used = {}
<1>1. /\ jobs[j].at = "scan" /\ jobs[j].due = {} /\ jobs[j].passes = <<>>
      /\ Release(j) /\ UNCHANGED <<household, deliveries, heard>>
  BY DEF Commit, Scanned
<1>2. jobs[j] \in ScanJob
  BY <1>1, Stages DEF TInv, Working
<1>3. PICK job : job = [at |-> "dispatch", made |-> jobs[j].made, channels |-> Channels,
                        left |-> {}, used |-> {}, known |-> {}, written |-> {}]
  OBVIOUS
<1>4. job \in DispatchJob
  BY <1>2, <1>3 DEF ScanJob, DispatchJob, Routes, Channels
<1>5. job.made = jobs[j].made /\ job.channels = Channels /\ job.left = {} /\ job.used = {}
  BY <1>3
<1>6. Become(j, IF jobs[j].made = {} THEN Idle ELSE job)
  BY <1>3 DEF Commit
<1>7. QED BY <1>1, <1>2, <1>4, <1>5, <1>6

LEMMA CommitTypes ==
  ASSUME TInv, NEW j \in Jobs, Commit(j)
  PROVE  TInv'
<1>1. /\ jobs[j] \in ScanJob /\ Release(j) /\ UNCHANGED <<today, subjectVars, inboxVars, deliveries>>
  BY CommitMeans, HouseholdStays
<1>2. Delivered'
  BY <1>1, DeliveredStays
<1>3. told' = told /\ Len(told') \in Nat
  BY <1>1 DEF inboxVars, TInv, InboxOK
<1>4. CASE Become(j, Idle)
  <2>1. jobs'[j] = Idle
    BY <1>4, BecomeMeans DEF TInv
  <2>2. JobOK(j)' /\ Made(Idle) = {}
    BY <1>3, <2>1, IdleMeans
  <2>3. QED BY <1>1, <1>2, <1>4, <2>2, JobStepTypes
<1>5. CASE jobs[j].made # {} /\ ~Become(j, Idle)
  <2>1. PICK job \in DispatchJob :
          Become(j, job) /\ job.made = jobs[j].made /\ job.channels = Channels /\ job.left = {}
    BY <1>5, CommitMeans
  <2>2. job.at = "dispatch" /\ jobs'[j] = job
    BY <2>1, BecomeMeans DEF TInv, DispatchJob
  <2>3. Made(job) = job.made /\ Made(jobs[j]) = jobs[j].made
    BY <1>1, <2>2 DEF ScanJob, Made
  <2>4. JobOK(j)'
    <3>1. Made(jobs[j]) \subseteq 1 .. Len(told)
      BY DEF TInv, Working, JobOK
    <3>2. Made(jobs'[j]) \subseteq 1 .. Len(told')
      BY <1>3, <2>1, <2>2, <2>3, <3>1
    <3>3. QED BY <1>5, <2>1, <2>2, <3>2 DEF JobOK, Made
  <2>5. QED BY <1>1, <1>2, <2>1, <2>3, <2>4, JobStepTypes
<1>6. QED BY <1>4, <1>5, CommitMeans
LEMMA LeaveMeans ==
  ASSUME NEW job \in DispatchJob, job.channels # <<>>, NEW left \in SUBSET Nat
  PROVE  /\ Leave(job, left) \in DispatchJob
         /\ Leave(job, left).made = job.made /\ Leave(job, left).left = left
         /\ Leave(job, left).used = job.used
         /\ Leave(job, left).known = job.known /\ Leave(job, left).written = job.written
         /\ Leave(job, left).channels = IF left = {} THEN Tail(job.channels) ELSE job.channels
<1>1. PICK channels : channels = IF left = {} THEN Tail(job.channels) ELSE job.channels
  OBVIOUS
<1>2. channels \in Routes
  BY <1>1, RouteSteps DEF DispatchJob
<1>3. PICK w : w = [job EXCEPT !.left = left, !.channels = channels]
  OBVIOUS
<1>4. Leave(job, left) = w
  BY <1>1, <1>3 DEF Leave, DispatchJob
<1>5. w \in DispatchJob /\ w.made = job.made /\ w.left = left /\ w.used = job.used
      /\ w.known = job.known /\ w.written = job.written /\ w.channels = channels
  BY <1>2, <1>3 DEF DispatchJob
<1>6. QED BY <1>1, <1>4, <1>5

LEMMA EnterMeans ==
  ASSUME TInv, NEW j \in Jobs, Enter(j)
  PROVE  /\ jobs[j] \in DispatchJob /\ jobs[j].left = {} /\ jobs[j].channels # <<>>
         /\ UNCHANGED <<household, writer, deliveries, heard>>
         /\ \E job \in DispatchJob :
              /\ Become(j, job) /\ job.made = jobs[j].made
              /\ \/ /\ job.channels = Tail(jobs[j].channels) /\ job.left = {}
                    /\ \/ job.used = jobs[j].used
                       \/ \E n \in jobs[j].made : ~Readable(jobs[j], n)
                 \/ /\ job.channels = jobs[j].channels /\ job.left = jobs[j].made
                    /\ job.used = jobs[j].used \cup {Head(jobs[j].channels)}
<1>1. /\ jobs[j].at = "dispatch" /\ jobs[j].left = {} /\ jobs[j].channels # <<>>
      /\ UNCHANGED <<household, writer, deliveries, heard>>
  BY DEF Enter
<1>2. jobs[j] \in DispatchJob
  BY <1>1, Stages DEF TInv, Working
<1>3. PICK channel, entered :
        /\ channel = Head(jobs[j].channels) /\ entered = [jobs[j] EXCEPT !.used = @ \cup {channel}]
        /\ \/ Become(j, Leave(jobs[j], {}))
           \/ Become(j, IF \A n \in jobs[j].made : Readable(jobs[j], n)
                        THEN [entered EXCEPT !.left = jobs[j].made, !.known = jobs[j].made]
                        ELSE Leave(entered, {}))
           \/ Become(j, [entered EXCEPT !.left = jobs[j].made])
  BY DEF Enter
<1>4. channel \in ChannelNames
  BY <1>1, <1>2, <1>3, RouteSteps DEF DispatchJob
<1>5. /\ entered \in DispatchJob /\ entered.made = jobs[j].made /\ entered.channels = jobs[j].channels
      /\ entered.used = jobs[j].used \cup {channel}
  BY <1>2, <1>3, <1>4 DEF DispatchJob
<1>6. CASE Become(j, Leave(jobs[j], {}))
  <2>1. PICK w : w = Leave(jobs[j], {})
    OBVIOUS
  <2>2. w \in DispatchJob /\ w.made = jobs[j].made /\ w.left = {} /\ w.used = jobs[j].used
        /\ w.channels = Tail(jobs[j].channels)
    BY <1>1, <1>2, <2>1, LeaveMeans
  <2>3. Become(j, w)
    BY <1>6, <2>1
  <2>4. QED BY <1>1, <1>2, <2>2, <2>3
<1>7. CASE (\E n \in jobs[j].made : ~Readable(jobs[j], n)) /\ Become(j, Leave(entered, {}))
  <2>1. PICK w : w = Leave(entered, {})
    OBVIOUS
  <2>2. w \in DispatchJob /\ w.made = jobs[j].made /\ w.left = {} /\ w.channels = Tail(jobs[j].channels)
    BY <1>1, <1>5, <2>1, LeaveMeans
  <2>3. Become(j, w)
    BY <1>7, <2>1
  <2>4. QED BY <1>1, <1>2, <1>7, <2>2, <2>3
<1>8. CASE Become(j, [entered EXCEPT !.left = jobs[j].made, !.known = jobs[j].made])
  <2>1. PICK w : w = [entered EXCEPT !.left = jobs[j].made, !.known = jobs[j].made]
    OBVIOUS
  <2>2. w \in DispatchJob /\ w.made = jobs[j].made /\ w.left = jobs[j].made
        /\ w.channels = jobs[j].channels /\ w.used = jobs[j].used \cup {channel}
    BY <1>2, <1>5, <2>1 DEF DispatchJob
  <2>3. Become(j, w)
    BY <1>8, <2>1
  <2>4. QED BY <1>1, <1>2, <1>3, <2>2, <2>3
<1>9. CASE Become(j, [entered EXCEPT !.left = jobs[j].made])
  <2>1. PICK w : w = [entered EXCEPT !.left = jobs[j].made]
    OBVIOUS
  <2>2. w \in DispatchJob /\ w.made = jobs[j].made /\ w.left = jobs[j].made
        /\ w.channels = jobs[j].channels /\ w.used = jobs[j].used \cup {channel}
    BY <1>2, <1>5, <2>1 DEF DispatchJob
  <2>3. Become(j, w)
    BY <1>9, <2>1
  <2>4. QED BY <1>1, <1>2, <1>3, <2>2, <2>3
<1>10. QED BY <1>3, <1>6, <1>7, <1>8, <1>9

\* A dispatch that stays one, and takes no more upon itself.
LEMMA DispatchOK ==
  ASSUME TInv, UNCHANGED told, NEW j \in Jobs, jobs[j] \in DispatchJob,
         NEW job \in DispatchJob, jobs'[j] = job, job.made = jobs[j].made,
         job.left \subseteq job.made, job.left # {} => job.channels # <<>>
  PROVE  JobOK(j)' /\ Made(job) \subseteq Made(jobs[j]) /\ job # Idle
<1>1. job.at = "dispatch" /\ jobs[j].at = "dispatch"
  BY DEF DispatchJob
<1>2. Made(job) = job.made /\ Made(jobs[j]) = job.made /\ Made(jobs'[j]) = job.made /\ job # Idle
  BY <1>1 DEF Made, Idle
<1>3. JobOK(j)
  BY DEF TInv, Working
<1>4. job.made \subseteq 1 .. Len(told) /\ job.made # {}
  BY <1>1, <1>2, <1>3 DEF JobOK
<1>5. QED BY <1>1, <1>2, <1>4 DEF JobOK, Made

LEMMA EnterTypes ==
  ASSUME TInv, NEW j \in Jobs, Enter(j)
  PROVE  TInv'
<1>1. /\ jobs[j] \in DispatchJob /\ jobs[j].channels # <<>>
      /\ UNCHANGED <<today, subjectVars, inboxVars, writer, deliveries>>
  BY EnterMeans, HouseholdStays
<1>2. PICK job \in DispatchJob :
        /\ Become(j, job) /\ job.made = jobs[j].made
        /\ job.left = {} \/ (job.channels = jobs[j].channels /\ job.left = jobs[j].made)
  BY EnterMeans
<1>3. Delivered' /\ told' = told
  BY <1>1, DeliveredStays DEF inboxVars
<1>4. jobs'[j] = job
  BY <1>2, BecomeMeans DEF TInv
<1>5. JobOK(j)' /\ Made(job) \subseteq Made(jobs[j]) /\ job # Idle
  BY <1>1, <1>2, <1>3, <1>4, DispatchOK
<1>6. writer' \in {writer, j} /\ (writer' = j => writer \in {Null, j})
  BY <1>1
<1>7. QED BY <1>1, <1>2, <1>3, <1>5, <1>6, JobStepTypes

\* A channel is done with nrs.
Loses(j, nrs, job) ==
  /\ Become(j, job) /\ job \in DispatchJob
  /\ job.made = jobs[j].made /\ job.left = jobs[j].left \ nrs /\ job.used = jobs[j].used
  /\ job.channels = IF jobs[j].left \ nrs = {} THEN Tail(jobs[j].channels) ELSE jobs[j].channels

LEMMA WorksMeans ==
  ASSUME TInv, NEW j \in Jobs, NEW c \in ChannelNames, With(j, c),
         NEW nrs \in SUBSET jobs[j].left, NEW pending \in SUBSET nrs, NEW status \in Outcomes,
         NEW got \in BOOLEAN, Skip(j, nrs) \/ Attempt(j, nrs, pending, c, status, got)
  PROVE  /\ jobs[j] \in DispatchJob /\ jobs[j].left # {} /\ jobs[j].channels # <<>>
         /\ Head(jobs[j].channels) = c
         /\ \E job : Loses(j, nrs, job)
<1>1. jobs[j].at = "dispatch" /\ jobs[j].left # {} /\ Head(jobs[j].channels) = c
  BY DEF With
<1>2. jobs[j] \in DispatchJob /\ jobs[j].channels # <<>>
  BY <1>1, Stages DEF TInv, Working, JobOK
<1>3. PICK left : left = jobs[j].left \ nrs
  OBVIOUS
<1>4. left \in SUBSET Nat
  BY <1>2, <1>3 DEF DispatchJob
<1>5. PICK w : w = Leave(jobs[j], left)
  OBVIOUS
<1>6. /\ w \in DispatchJob /\ w.made = jobs[j].made /\ w.left = left /\ w.used = jobs[j].used
      /\ w.channels = IF left = {} THEN Tail(jobs[j].channels) ELSE jobs[j].channels
  BY <1>2, <1>4, <1>5, LeaveMeans
<1>7. CASE Skip(j, nrs)
  <2>1. Become(j, w)
    BY <1>3, <1>5, <1>7 DEF Skip
  <2>2. Loses(j, nrs, w)
    BY <1>3, <1>6, <2>1 DEF Loses
  <2>3. QED BY <1>1, <1>2, <2>2
<1>8. CASE Attempt(j, nrs, pending, c, status, got)
  <2>1. PICK written : written = Recorded(pending, c, status)
    OBVIOUS
  <2>2. PICK x : x = [w EXCEPT !.written = @ \cup written, !.known = @ \cup nrs]
    OBVIOUS
  <2>3. Become(j, x)
    BY <1>3, <1>5, <1>8, <2>1, <2>2 DEF Attempt
  <2>4. nrs \subseteq Nat /\ pending \subseteq Nat
    BY <1>2 DEF DispatchJob
  <2>5. written \subseteq Nat \X ChannelNames \X Outcomes
    BY <2>1, <2>4 DEF Recorded
  <2>6. /\ x \in DispatchJob /\ x.made = w.made /\ x.left = w.left /\ x.used = w.used
        /\ x.channels = w.channels
    BY <1>6, <2>2, <2>4, <2>5 DEF DispatchJob
  <2>7. Loses(j, nrs, x)
    BY <1>3, <1>6, <2>3, <2>6 DEF Loses
  <2>8. QED BY <1>1, <1>2, <2>7
<1>9. QED BY <1>7, <1>8

LEMMA WorksTypes ==
  ASSUME TInv, NEW j \in Jobs, Works(j)
  PROVE  TInv'
<1>1. PICK c \in ChannelNames, nrs \in SUBSET jobs[j].left, pending \in SUBSET jobs[j].left,
           status \in Outcomes, got \in BOOLEAN :
        /\ With(j, c) /\ pending \in SUBSET nrs /\ UNCHANGED household
        /\ Skip(j, nrs) \/ Attempt(j, nrs, pending, c, status, got)
  BY DEF Works
<1>2. /\ jobs[j] \in DispatchJob /\ jobs[j].channels # <<>>
      /\ \E job : Loses(j, nrs, job)
  BY <1>1, WorksMeans
<1>3. PICK job \in DispatchJob :
              /\ Become(j, job) /\ job.made = jobs[j].made /\ job.left = jobs[j].left \ nrs
              /\ job.channels = IF jobs[j].left \ nrs = {} THEN Tail(jobs[j].channels)
                                ELSE jobs[j].channels
  BY <1>2 DEF Loses
<1>4. UNCHANGED <<today, subjectVars, inboxVars>> /\ told' = told
  BY <1>1, HouseholdStays DEF inboxVars
<1>5. jobs'[j] = job
  BY <1>3, BecomeMeans DEF TInv
<1>6. jobs[j].left \subseteq jobs[j].made /\ Made(jobs[j]) = jobs[j].made
  BY <1>2, Stages DEF TInv, Working, JobOK, DispatchJob
<1>7. JobOK(j)' /\ Made(job) \subseteq Made(jobs[j]) /\ job # Idle
  BY <1>2, <1>3, <1>4, <1>5, <1>6, DispatchOK
<1>8. CASE Skip(j, nrs)
  <2>1. UNCHANGED <<writer, deliveries>>
    BY <1>8 DEF Skip
  <2>2. Delivered'
    BY <1>4, <2>1, DeliveredStays
  <2>3. writer' \in {writer, j} /\ (writer' = j => writer \in {Null, j})
    BY <2>1
  <2>4. QED BY <1>3, <1>4, <1>7, <2>1, <2>2, <2>3, JobStepTypes
<1>9. CASE Attempt(j, nrs, pending, c, status, got)
  <2>1. /\ pending \subseteq Numbers /\ writer \in {Null, j} /\ writer' = j
        /\ deliveries' = deliveries \cup (pending \X {c} \X {status})
    BY <1>9 DEF Attempt, Free, Recorded
  <2>2. Numbers' = Numbers
    BY <1>4 DEF Numbers, inboxVars
  <2>3. pending \subseteq Made(jobs[j]) /\ pending \subseteq Nat
    BY <1>1, <1>2, <1>6 DEF DispatchJob
  <2>4. Delivered'
    <3>1. Delivered
      BY DEF TInv
    <3>2. \A d \in pending \X {c} \X {status} : d \in Nat \X ChannelNames \X Outcomes /\ d[1] \in Numbers
      BY <2>1, <2>3
    <3>3. QED BY <2>1, <2>2, <3>1, <3>2 DEF Delivered
  <2>5. ASSUME NEW i \in Jobs, i # j, NEW d \in deliveries', d \notin deliveries
        PROVE  d[1] \notin Made(jobs[i])
    <3>1. d[1] \in pending
      BY <2>1, <2>5
    <3>2. Made(jobs[j]) \cap Made(jobs[i]) = {}
      BY <2>5 DEF TInv, Working
    <3>3. QED BY <2>3, <3>1, <3>2
  <2>6. writer' \in {writer, j} /\ (writer' = j => writer \in {Null, j})
    BY <2>1
  <2>7. QED BY <1>3, <1>4, <1>7, <2>4, <2>5, <2>6, JobStepTypes
<1>10. QED BY <1>1, <1>8, <1>9
LEMMA PassOverWorks ==
  ASSUME TInv, NEW j \in Jobs, NEW c \in ChannelNames, PassOver(j, c), UNCHANGED household
  PROVE  Works(j)
<1>1. With(j, c) /\ (Skip(j, {Turn(j)}) \/ Skip(j, jobs[j].left))
  BY DEF PassOver
<1>2. jobs[j] \in DispatchJob /\ jobs[j].left # {}
  BY <1>1, Stages DEF With, TInv, Working
<1>3. Turn(j) \in jobs[j].left
  BY <1>2, TurnMeans DEF Turn, DispatchJob
<1>4. PICK nrs \in SUBSET jobs[j].left : Skip(j, nrs)
  BY <1>1, <1>3
<1>5. {} \in SUBSET jobs[j].left /\ {} \subseteq nrs /\ "sent" \in Outcomes /\ TRUE \in BOOLEAN
  BY DEF Outcomes
<1>6. QED BY <1>1, <1>4, <1>5 DEF Works

LEMMA TryWorks ==
  ASSUME TInv, NEW j \in Jobs, NEW c \in ChannelNames, NEW status \in Outcomes, NEW got \in BOOLEAN,
         Try(j, c, status, got), status = "sent" /\ c # "mqtt" => got, UNCHANGED household
  PROVE  Works(j)
<1>1. With(j, c) /\ Attempt(j, {Turn(j)}, {Turn(j)}, c, status, got)
  BY DEF Try
<1>2. jobs[j] \in DispatchJob /\ jobs[j].left # {}
  BY <1>1, Stages DEF With, TInv, Working
<1>3. {Turn(j)} \in SUBSET jobs[j].left
  BY <1>2, TurnMeans DEF Turn, DispatchJob
<1>4. PICK nrs \in SUBSET jobs[j].left : nrs = {Turn(j)}
  BY <1>3
<1>5. Attempt(j, nrs, nrs, c, status, got)
  BY <1>1, <1>4
<1>6. QED BY <1>1, <1>5 DEF Works

LEMMA MailWorks ==
  ASSUME TInv, NEW j \in Jobs, Mail(j)
  PROVE  Works(j)
<1>1. PICK mine, pending :
        /\ mine \in SUBSET jobs[j].left /\ pending \in SUBSET jobs[j].left /\ pending \subseteq mine
        /\ With(j, "email") /\ UNCHANGED household
        /\ \/ Skip(j, mine)
           \/ Attempt(j, mine, pending, "email", "sent", TRUE)
           \/ \E got \in BOOLEAN : Attempt(j, mine, pending, "email", "failed", got)
  <2> DEFINE mine == Of(Recipient(Turn(j)), jobs[j].left)
             pending == {n \in mine : ~ExistsSent(n, "email")}
  <2>1. mine \in SUBSET jobs[j].left /\ pending \in SUBSET jobs[j].left /\ pending \subseteq mine
    BY DEF Of
  <2>2. /\ With(j, "email") /\ UNCHANGED household
        /\ \/ Skip(j, mine)
           \/ Attempt(j, mine, pending, "email", "sent", TRUE)
           \/ \E got \in BOOLEAN : Attempt(j, mine, pending, "email", "failed", got)
    BY DEF Mail
  <2> HIDE DEF mine, pending
  <2>3. QED BY <2>1, <2>2
<1>2. "email" \in ChannelNames /\ "sent" \in Outcomes /\ "failed" \in Outcomes
  BY DEF ChannelNames, Outcomes
<1>3. CASE Skip(j, mine)
  BY <1>1, <1>2, <1>3 DEF Works
<1>4. CASE Attempt(j, mine, pending, "email", "sent", TRUE)
  BY <1>1, <1>2, <1>4 DEF Works
<1>5. CASE \E got \in BOOLEAN : Attempt(j, mine, pending, "email", "failed", got)
  BY <1>1, <1>2, <1>5 DEF Works
<1>6. QED BY <1>1, <1>3, <1>4, <1>5

LEMMA EachWorks ==
  ASSUME TInv, NEW j \in Jobs, Mail(j) \/ Post(j) \/ Publish(j)
  PROVE  Works(j)
<1>1. CASE Mail(j)
  BY <1>1, MailWorks
<1>2. "http" \in ChannelNames /\ "mqtt" \in ChannelNames /\ "sent" \in Outcomes /\ "failed" \in Outcomes
  BY DEF ChannelNames, Outcomes
<1>3. CASE Post(j)
  BY <1>2, <1>3, PassOverWorks, TryWorks DEF Post
<1>4. CASE Publish(j)
  BY <1>2, <1>4, PassOverWorks, TryWorks DEF Publish
<1>5. QED BY <1>1, <1>3, <1>4

LEMMA FinishTypes ==
  ASSUME TInv, NEW j \in Jobs, Finish(j)
  PROVE  TInv'
<1>1. Become(j, Idle) /\ Release(j) /\ UNCHANGED <<today, subjectVars, inboxVars, deliveries>>
  BY HouseholdStays DEF Finish
<1>2. jobs'[j] = Idle
  BY <1>1, BecomeMeans DEF TInv
<1>3. Len(told') \in Nat
  BY <1>1 DEF inboxVars, TInv, InboxOK
<1>4. JobOK(j)' /\ Made(Idle) = {}
  BY <1>2, <1>3, IdleMeans
<1>5. Delivered'
  BY <1>1, DeliveredStays
<1>6. QED BY <1>1, <1>4, <1>5, JobStepTypes

LEMMA DieMeans ==
  ASSUME TInv, NEW j \in Jobs, Die(j)
  PROVE  /\ Become(j, Idle) /\ Release(j) /\ UNCHANGED <<today, subjectVars, budget, overlap, configured>>
         /\ \/ jobs[j] \in ScanJob /\ Forget(jobs[j].held) /\ UNCHANGED <<deliveries, heard>>
            \/ /\ jobs[j] \in DispatchJob /\ UNCHANGED inboxVars /\ deliveries' = deliveries \ jobs[j].written
               /\ \/ UNCHANGED heard
                  \/ /\ jobs[j].left # {}
                     /\ \E nrs \in SUBSET jobs[j].left : Hear(nrs, Head(jobs[j].channels))
<1> DEFINE sending == IF jobs[j].at # "dispatch" \/ jobs[j].left = {} THEN {}
                      ELSE IF With(j, "email") THEN Of(Recipient(Turn(j)), jobs[j].left)
                      ELSE {n \in {Turn(j)} : Readable(jobs[j], n)}
           pending == {n \in sending : ~ExistsSent(n, Head(jobs[j].channels))}
<1>1. /\ jobs[j] # Idle /\ Become(j, Idle) /\ Release(j)
      /\ UNCHANGED <<today, subjectVars, budget, overlap, configured>>
      /\ IF jobs[j].at = "scan" THEN Forget(jobs[j].held) ELSE UNCHANGED inboxVars
      /\ deliveries' = IF jobs[j].at = "scan" THEN deliveries ELSE deliveries \ jobs[j].written
      /\ UNCHANGED heard \/ (sending # {} /\ Hear(pending, Head(jobs[j].channels)))
  BY DEF Die
<1>2. JobOK(j)
  BY DEF TInv, Working
<1>3. CASE jobs[j].at = "scan"
  <2>1. jobs[j] \in ScanJob
    BY <1>2, <1>3, Stages
  <2>2. sending = {}
    BY <1>3
  <2>3. UNCHANGED heard
    BY <1>1, <2>2
  <2>4. QED BY <1>1, <1>3, <2>1, <2>3
<1>4. CASE jobs[j].at = "dispatch"
  <2>1. jobs[j] \in DispatchJob
    BY <1>2, <1>4, Stages
  <2>2. sending # {} => jobs[j].left # {}
    OBVIOUS
  <2>3. jobs[j].left # {} => Turn(j) \in jobs[j].left
    BY <2>1, TurnMeans DEF Turn, DispatchJob
  <2>4. pending \in SUBSET jobs[j].left
    BY <1>4, <2>3 DEF Of
  <2> HIDE DEF sending, pending
  <2>5. QED BY <1>1, <1>4, <2>1, <2>2, <2>4
<1>5. QED BY <1>1, <1>2, <1>3, <1>4, Stages

\* Forgetting takes back the rows above some number.
LEMMA ForgetMeans ==
  ASSUME TInv, NEW j \in Jobs, jobs[j] \in ScanJob, Forget(jobs[j].held)
  PROVE  \E h \in 0 .. Len(told) :
           /\ jobs[j].held = h + 1 .. Len(told)
           /\ told' \in Seq(Key \X Nat) /\ Len(told') = h /\ \A n \in 1 .. h : told'[n] = told[n]
           /\ DOMAIN rows' = {k \in DOMAIN rows : rows[k].nr <= h}
           /\ \A k \in DOMAIN rows' : rows'[k] = rows[k]
<1>1. told \in Seq(Key \X Nat) /\ Len(told) \in Nat /\ \A k \in DOMAIN rows : rows[k].nr \in 1 .. Len(told)
  BY DEF TInv, InboxOK
<1>2. PICK h \in 0 .. Len(told) : jobs[j].held = h + 1 .. Len(told)
  BY DEF TInv, Working, JobOK, ScanJob
<1>3. Cardinality(jobs[j].held) = Len(told) - h
  BY <1>1, <1>2, FS_Interval
<1>4. told' = SubSeq(told, 1, h)
  <2>1. told' = SubSeq(told, 1, Len(told) - Cardinality(jobs[j].held))
    BY DEF Forget
  <2>2. Len(told) - (Len(told) - h) = h
    BY <1>1, <1>2
  <2>3. QED BY <1>3, <2>1, <2>2
<1>5. told' \in Seq(Key \X Nat) /\ Len(told') = h /\ \A n \in 1 .. h : told'[n] = told[n]
  <2>1. /\ Len(SubSeq(told, 1, h)) = h
        /\ \A n \in 1 .. h : SubSeq(told, 1, h)[n] = told[n]
    BY <1>1, <1>2
  <2>2. \A n \in 1 .. h : told[n] \in Key \X Nat
    BY <1>1, <1>2
  <2>3. SubSeq(told, 1, h) \in Seq(Key \X Nat)
    BY <1>1, <1>2, <2>2
  <2>4. QED BY <1>4, <2>1, <2>3
<1>6. {k \in DOMAIN rows : rows[k].nr \notin jobs[j].held} = {k \in DOMAIN rows : rows[k].nr <= h}
  BY <1>1, <1>2
<1>7. rows' = Restrict(rows, {k \in DOMAIN rows : rows[k].nr <= h})
  BY <1>6 DEF Forget
<1>8. QED BY <1>2, <1>5, <1>7 DEF Restrict

LEMMA DieTypes ==
  ASSUME TInv, NEW j \in Jobs, Die(j)
  PROVE  TInv'
<1>1. Become(j, Idle) /\ Release(j) /\ UNCHANGED <<today, subjectVars>>
  BY DieMeans
<1>2. jobs'[j] = Idle /\ \A i \in Jobs : i # j => jobs'[i] = jobs[i]
  BY <1>1, BecomeMeans DEF TInv
<1>3. CASE UNCHANGED inboxVars /\ deliveries' = deliveries \ jobs[j].written
  <2>1. Len(told') \in Nat
    BY <1>3 DEF inboxVars, TInv, InboxOK
  <2>2. JobOK(j)' /\ Made(Idle) = {}
    BY <1>2, <2>1, IdleMeans
  <2>3. Delivered'
    BY <1>3, DeliveredStays
  <2>4. QED BY <1>1, <1>3, <2>2, <2>3, JobStepTypes
<1>4. CASE jobs[j] \in ScanJob /\ Forget(jobs[j].held) /\ UNCHANGED <<deliveries, heard>>
  <2>1. PICK h \in 0 .. Len(told) :
           /\ jobs[j].held = h + 1 .. Len(told)
           /\ told' \in Seq(Key \X Nat) /\ Len(told') = h /\ \A n \in 1 .. h : told'[n] = told[n]
           /\ DOMAIN rows' = {k \in DOMAIN rows : rows[k].nr <= h}
           /\ \A k \in DOMAIN rows' : rows'[k] = rows[k]
    BY <1>4, ForgetMeans
  <2>2. jobs[j].at = "scan" /\ Len(told) \in Nat
    BY <1>4 DEF ScanJob, TInv, InboxOK
  <2>3. InboxOK'
    BY <2>1, <2>2 DEF TInv, InboxOK
  <2>4. jobs[j].held \subseteq Made(jobs[j])
    BY <2>2 DEF TInv, Working, JobOK, Made
  <2>5. \A d \in deliveries : d[1] \notin jobs[j].held
    BY <2>2 DEF TInv, Working, JobOK
  <2>6. Delivered'
    <3>1. ASSUME NEW d \in deliveries PROVE d[1] \in Numbers'
      <4>1. PICK k \in DOMAIN rows : d[1] = rows[k].nr
        BY <3>1 DEF TInv, Delivered, Numbers
      <4>2. rows[k].nr \in 1 .. Len(told) /\ rows[k].nr \notin h + 1 .. Len(told)
        BY <2>1, <2>5, <4>1 DEF TInv, InboxOK
      <4>3. k \in DOMAIN rows' /\ rows'[k] = rows[k]
        BY <2>1, <2>2, <4>2
      <4>4. QED BY <4>1, <4>3 DEF Numbers
    <3>2. QED BY <1>4, <3>1 DEF TInv, Delivered
  <2>7. JobOK(j)' /\ Made(Idle) = {}
    BY <1>2, <2>1, IdleMeans
  <2>8. ASSUME NEW i \in Jobs, i # j PROVE JobOK(i)'
    <3>1. JobOK(i) /\ jobs'[i] = jobs[i] /\ Made(jobs[i]) \cap Made(jobs[j]) = {}
      BY <1>2, <2>8 DEF TInv, Working
    <3>2. Made(jobs'[i]) = Made(jobs[i]) /\ Made(jobs[i]) \subseteq 1 .. h
      <4>1. ASSUME NEW n \in Made(jobs[i]) PROVE n \in 1 .. h
        <5>1. n \in 1 .. Len(told) /\ n \notin h + 1 .. Len(told)
          BY <2>1, <2>4, <3>1, <4>1 DEF JobOK
        <5>2. QED BY <2>2, <5>1
      <4>2. QED BY <3>1, <4>1
    <3>3. jobs[i].at = "scan" => \E g \in 0 .. Len(told') : jobs[i].held = g + 1 .. Len(told')
      <4>1. SUFFICES ASSUME jobs[i].at = "scan" PROVE \E g \in 0 .. Len(told') : jobs[i].held = g + 1 .. Len(told')
        OBVIOUS
      <4>2. CASE jobs[i].held = {}
        <5>1. h + 1 .. h = {} /\ h \in 0 .. h
          BY <2>2
        <5>2. QED BY <2>1, <4>2, <5>1
      <4>3. CASE jobs[i].held # {}
        <5>1. jobs[j].held = {}
          BY <2>2, <2>8, <3>1, <4>1, <4>3 DEF TInv, Working, JobOK
        <5>2. h = Len(told)
          <6>1. h + 1 \in h + 1 .. Len(told) \/ h = Len(told)
            BY <2>2
          <6>2. QED BY <2>1, <5>1, <6>1
        <5>3. QED BY <2>1, <3>1, <4>1, <5>2 DEF JobOK
      <4>4. QED BY <4>2, <4>3
    <3>4. (jobs[i].at = "scan" /\ jobs[i].held # {}) => writer' = i
      BY <1>1, <2>8, <3>1, ReleaseMeans DEF JobOK
    <3>5. QED BY <1>4, <2>1, <3>1, <3>2, <3>3, <3>4 DEF JobOK, Made
  <2>9. Working /\ writer' \in Jobs \cup {Null}
    BY <1>1, ReleaseMeans DEF TInv
  <2>10. Working'
    BY <1>1, <2>7, <2>8, <2>9, WorkingAfter
  <2>11. writer' \in Jobs => jobs'[writer'] # Idle
    BY <1>1, <1>2, ReleaseMeans DEF TInv
  <2>12. SubjectsOK' /\ today' = today
    BY <1>1 DEF TInv, SubjectsOK, subjectVars
  <2>13. QED BY <2>3, <2>6, <2>10, <2>11, <2>12 DEF TInv
<1>5. QED BY <1>3, <1>4, DieMeans
-----------------------------------------------------------------------------
(* Types and numbers *)

LEMMA TypesImply ==
  ASSUME TInv
  PROVE  TypeOK
<1>1. \A d \in deliveries : d[1] \in Numbers /\ d[3] \in {"sent", "failed"}
  BY DEF TInv, Delivered, Outcomes
<1>2. QED BY <1>1 DEF TypeOK, TInv, SubjectsOK, InboxOK

LEMMA InitTypes ==
  ASSUME Init
  PROVE  TInv
<1>1. today = FirstDay /\ FirstDay \in Nat /\ FirstDay > 1 /\ MaxId \in Nat \ {0}
  BY ReminderConstants DEF Init
<1>2. users \in [Users -> User]
  BY DEF Init, User, Statuses
<1>3. \A i \in DOMAIN lots : i \in 1 .. MaxId /\ lots[i] \in Lot
  <2>1. PICK date \in [Sources -> Dates \cup {Null}], who \in Users \cup {Null} :
          lots = [i \in {1} |-> [no |-> 1, date |-> date, live |-> TRUE, who |-> who, lead |-> Null]]
    BY DEF Init
  <2>2. [no |-> 1, date |-> date, live |-> TRUE, who |-> who, lead |-> Null] \in Lot
    BY DEF Lot
  <2>3. QED BY <1>1, <2>1, <2>2
<1>4. DOMAIN lots = {1}
  BY DEF Init
<1>5. \A s \in DOMAIN tasks : s \in 1 .. MaxId /\ tasks[s] \in Task /\ tasks[s].lot \in DOMAIN lots
  <2>1. CASE tasks = <<>>
    BY <2>1
  <2>2. CASE \E due \in Dates, interval \in Intervals :
               tasks = [i \in {1} |-> [no |-> 2, lot |-> 1, due |-> due, interval |-> interval,
                                       lead |-> Null, active |-> TRUE, since |-> <<>>]]
    <3>1. PICK due \in Dates, interval \in Intervals :
            tasks = [i \in {1} |-> [no |-> 2, lot |-> 1, due |-> due, interval |-> interval,
                                    lead |-> Null, active |-> TRUE, since |-> <<>>]]
      BY <2>2
    <3>2. PICK task : task = [no |-> 2, lot |-> 1, due |-> due, interval |-> interval,
                              lead |-> Null, active |-> TRUE, since |-> <<>>]
      OBVIOUS
    <3>3. task \in Task /\ task.lot = 1
      BY <3>2, Constants DEF Task
    <3>4. QED BY <1>1, <1>4, <3>1, <3>2, <3>3
  <2>3. QED BY <2>1, <2>2 DEF Init
<1>6. SubjectsOK
  <2>1. subjects \in Nat
    BY DEF Init
  <2>2. QED BY <1>2, <1>3, <1>5, <2>1 DEF SubjectsOK
<1>7. told = <<>> /\ rows = <<>> /\ deliveries = {} /\ writer = Null /\ jobs = [j \in Jobs |-> Idle]
  BY DEF Init
<1>8. InboxOK /\ Delivered
  BY <1>7 DEF InboxOK, Delivered
<1>9. Working
  <2>1. \A j \in Jobs : jobs[j].at = "idle" /\ jobs[j] = Idle /\ Made(jobs[j]) = {}
    BY <1>7 DEF Idle, Made
  <2>2. Len(told) \in Nat
    BY <1>7
  <2>3. \A j \in Jobs : JobOK(j)
    BY <2>1, <2>2 DEF JobOK
  <2>4. QED BY <1>7, <2>1, <2>3 DEF Working
<1>10. QED BY <1>1, <1>6, <1>7, <1>8, <1>9, Constants DEF TInv

LEMMA StepKeepsTypes ==
  ASSUME TInv, [Next]_vars
  PROVE  TInv'
<1>1. CASE Reminding
  <2>1. Cascade
    BY <1>1 DEF Reminding
  <2>2. CASE Requested
    BY <2>1, <2>2, RequestedEffect, RequestKeepsTypes
  <2>3. CASE NextDay
    BY <2>1, <2>3, NextDayTypes
  <2>4. CASE \E j \in Jobs : Begin(j) \/ Pass(j) \/ Make(j)
    BY <2>1, <2>4, BeginTypes, PassTypes, MakeTypes
  <2>5. QED BY <1>1, <2>2, <2>3, <2>4 DEF Reminding
<1>2. CASE \E j \in Jobs : Dispatching(j)
  <2>1. PICK j \in Jobs : Dispatching(j)
    BY <1>2
  <2>2. CASE Commit(j) \/ Enter(j)
    BY <2>2, CommitTypes, EnterTypes
  <2>3. CASE Mail(j) \/ Post(j) \/ Publish(j)
    BY <2>3, EachWorks, WorksTypes
  <2>4. CASE Finish(j) \/ Die(j)
    BY <2>4, FinishTypes, DieTypes
  <2>5. QED BY <2>1, <2>2, <2>3, <2>4 DEF Dispatching
<1>3. CASE UNCHANGED vars
  <2>1. UNCHANGED <<today, subjectVars, inboxVars, jobs, writer, deliveries>>
    BY <1>3, HouseholdStays DEF vars
  <2>2. Working'
    BY <2>1 DEF TInv, Working, JobOK, inboxVars
  <2>3. (writer \in Jobs => jobs[writer] # Idle)'
    BY <2>1 DEF TInv
  <2>4. QED BY <2>1, <2>2, <2>3, TablesStay DEF TInv
<1>4. QED BY <1>1, <1>2, <1>3 DEF Next

\* Whatever the users, dates and channels, and whoever dies: tables, work in
\* progress and ghosts are of their types, one job writes at a time, and the
\* rows in the inboxes are the ones that were told.
THEOREM TypeCorrect == Spec => []TypeOK
<1>1. Init => TInv
  BY InitTypes
<1>2. TInv /\ [Next]_vars => TInv'
  BY StepKeepsTypes
<1>3. TInv => TypeOK
  BY TypesImply
<1>4. QED BY <1>1, <1>2, <1>3, PTL DEF Spec

-----------------------------------------------------------------------------
(* A completed schedule follows the calendar *)

LEMMA RequestFollows ==
  ASSUME TInv, DueFollowsCompletion, Requested
  PROVE  DueFollowsCompletion'
<1>1. ASSUME UNCHANGED tasks PROVE DueFollowsCompletion'
  BY <1>1 DEF DueFollowsCompletion
<1>2. CASE \E u \in Users : SetUser(u) \/ MarkAllRead(u) \/ DismissAll(u)
  BY <1>1, <1>2 DEF SetUser, MarkAllRead, DismissAll, Mark, subjectVars
<1>3. CASE CreateLot
  BY <1>1, <1>3 DEF CreateLot
<1>4. CASE CreateTask
  <2>1. PICK i, task : /\ tasks' = Insert(tasks, i, task) /\ task.since = <<>>
    <3>1. PICK i \in DOMAIN lots, due \in Dates, interval \in Intervals, lead \in Leads \cup {Null} :
          tasks' = Insert(tasks, NextId(tasks),
                     [no |-> subjects + 1, lot |-> i, due |-> due, interval |-> interval,
                      lead |-> lead, active |-> TRUE, since |-> <<>>])
      BY <1>4 DEF CreateTask
    <3>2. PICK task : task = [no |-> subjects + 1, lot |-> i, due |-> due, interval |-> interval,
                              lead |-> lead, active |-> TRUE, since |-> <<>>]
      OBVIOUS
    <3>3. task.since = <<>> /\ tasks' = Insert(tasks, NextId(tasks), task)
      BY <3>1, <3>2
    <3>4. QED BY <3>3
  <2>2. \A s \in DOMAIN tasks' : tasks'[s].since = <<>> \/ (s \in DOMAIN tasks /\ tasks'[s] = tasks[s])
    BY <2>1 DEF Insert
  <2>3. QED BY <2>2 DEF DueFollowsCompletion
<1>5. CASE \E i \in DOMAIN lots : EditLot(i) \/ DeleteLot(i)
  <2>1. \A s \in DOMAIN tasks' : s \in DOMAIN tasks /\ tasks'[s] = tasks[s]
    BY <1>5 DEF EditLot, DeleteLot, Restrict
  <2>2. QED BY <2>1 DEF DueFollowsCompletion
<1>6. CASE \E s \in DOMAIN tasks : EditTask(s) \/ DeleteTask(s) \/ CompleteTask(s)
  <2>1. PICK s \in DOMAIN tasks : EditTask(s) \/ DeleteTask(s) \/ CompleteTask(s)
    BY <1>6
  <2>2. tasks[s] \in Task
    BY DEF TInv, SubjectsOK
  <2>3. CASE EditTask(s)
    <3>1. /\ DOMAIN tasks' = DOMAIN tasks /\ \A r \in DOMAIN tasks : r # s => tasks'[r] = tasks[r]
          /\ \/ tasks'[s].since = <<>>
             \/ tasks'[s].since = tasks[s].since /\ tasks'[s].due = tasks[s].due
      BY <2>2, <2>3 DEF EditTask, Task
    <3>2. QED BY <3>1 DEF DueFollowsCompletion
  <2>4. CASE DeleteTask(s)
    <3>1. \A r \in DOMAIN tasks' : r \in DOMAIN tasks /\ tasks'[r] = tasks[r]
      BY <2>4 DEF DeleteTask, Restrict
    <3>2. QED BY <3>1 DEF DueFollowsCompletion
  <2>5. CASE CompleteTask(s)
    BY <2>5, CompleteTaskMeans DEF DueFollowsCompletion
  <2>6. QED BY <2>1, <2>3, <2>4, <2>5
<1>7. CASE \E k \in DOMAIN rows : MarkRead(k) \/ Dismiss(k)
  BY <1>1, <1>7 DEF MarkRead, Dismiss, Mark, subjectVars
<1>8. QED BY <1>2, <1>3, <1>4, <1>5, <1>6, <1>7 DEF Requested

LEMMA OnlyRequestsTouchSubjects ==
  ASSUME TInv, [Next]_vars, ~Requested
  PROVE  UNCHANGED subjectVars
<1>1. CASE Reminding
  BY <1>1 DEF Reminding, NextDay, Begin, Pass, Make
<1>2. CASE \E j \in Jobs : Dispatching(j)
  <2>1. PICK j \in Jobs : Dispatching(j)
    BY <1>2
  <2>2. CASE Die(j)
    BY <2>2 DEF Die
  <2>3. CASE Commit(j) \/ Enter(j) \/ Mail(j) \/ Post(j) \/ Publish(j) \/ Finish(j)
    BY <2>3, HouseholdStays DEF Commit, Enter, Mail, Post, Publish, Finish
  <2>4. QED BY <2>1, <2>2, <2>3 DEF Dispatching
<1>3. CASE UNCHANGED vars
  BY <1>3, HouseholdStays DEF vars
<1>4. QED BY <1>1, <1>2, <1>3 DEF Next

\* Whatever the interval and the day of completion: until it is moved by hand,
\* the due date of a schedule is one interval after its last completion.
THEOREM CompletionSetsTheDate == Spec => []DueFollowsCompletion
<1>1. Init => TInv /\ DueFollowsCompletion
  <2>1. SUFFICES ASSUME Init PROVE TInv /\ DueFollowsCompletion
    OBVIOUS
  <2>2. \A s \in DOMAIN tasks : tasks[s].since = <<>>
    BY <2>1 DEF Init
  <2>3. QED BY <2>1, <2>2, InitTypes DEF DueFollowsCompletion
<1>2. TInv /\ DueFollowsCompletion /\ [Next]_vars => (TInv /\ DueFollowsCompletion)'
  <2>1. SUFFICES ASSUME TInv, DueFollowsCompletion, [Next]_vars PROVE TInv' /\ DueFollowsCompletion'
    OBVIOUS
  <2>2. TInv'
    BY <2>1, StepKeepsTypes
  <2>3. DueFollowsCompletion'
    <3>1. CASE Requested
      BY <2>1, <3>1, RequestFollows
    <3>2. CASE ~Requested
      BY <2>1, <3>2, OnlyRequestsTouchSubjects DEF DueFollowsCompletion, subjectVars
    <3>3. QED BY <3>1, <3>2
  <2>4. QED BY <2>2, <2>3
<1>3. QED BY <1>1, <1>2, PTL DEF Spec
-----------------------------------------------------------------------------
(* Nothing is heard twice *)

LEMMA HearMeans ==
  ASSUME heard = SetToBag(DOMAIN heard), NEW nrs, NEW c, Hear(nrs, c),
         \A n \in nrs : <<n, c>> \notin DOMAIN heard
  PROVE  heard' = SetToBag(DOMAIN heard') /\ DOMAIN heard' = DOMAIN heard \cup (nrs \X {c})
<1>1. PICK new : new = nrs \X {c}
  OBVIOUS
<1>2. new \cap DOMAIN heard = {}
  BY <1>1
<1>3. heard' = heard (+) SetToBag(new)
  BY <1>1 DEF Hear
<1>4. \A p \in DOMAIN heard : heard[p] = 1
  BY DEF SetToBag
<1>5. DOMAIN SetToBag(new) = new /\ \A p \in new : SetToBag(new)[p] = 1
  BY DEF SetToBag
<1>6. heard' = [p \in DOMAIN heard \cup new |->
                  (IF p \in DOMAIN heard THEN heard[p] ELSE 0) + (IF p \in new THEN SetToBag(new)[p] ELSE 0)]
  BY <1>3, <1>5 DEF (+)
<1>7. heard' = [p \in DOMAIN heard \cup new |-> 1]
  BY <1>2, <1>4, <1>5, <1>6
<1>8. QED BY <1>1, <1>7 DEF SetToBag

\* What one job does disturbs no other.
LEMMA HearingAfter ==
  ASSUME TInv, Hearing, NEW j \in Jobs, NEW job, Become(j, job), HeardOK(j)',
         DOMAIN heard \subseteq (1 .. Len(told')) \X ChannelNames,
         \/ UNCHANGED heard
         \/ /\ UNCHANGED told
            /\ \E nrs, c : /\ nrs \subseteq Made(jobs[j]) /\ c \in ChannelNames /\ Hear(nrs, c)
                           /\ \A n \in nrs : <<n, c>> \notin DOMAIN heard
  PROVE  Hearing'
<1>1. \A i \in Jobs : i # j => jobs'[i] = jobs[i]
  BY BecomeMeans DEF TInv
<1>2. CASE UNCHANGED heard
  BY <1>1, <1>2 DEF Hearing, HeardOK
<1>3. CASE /\ UNCHANGED told
            /\ \E nrs, c : /\ nrs \subseteq Made(jobs[j]) /\ c \in ChannelNames /\ Hear(nrs, c)
                           /\ \A n \in nrs : <<n, c>> \notin DOMAIN heard
  <2>1. PICK nrs, c : /\ nrs \subseteq Made(jobs[j]) /\ c \in ChannelNames /\ Hear(nrs, c)
                      /\ \A n \in nrs : <<n, c>> \notin DOMAIN heard
    BY <1>3
  <2>2. heard' = SetToBag(DOMAIN heard') /\ DOMAIN heard' = DOMAIN heard \cup (nrs \X {c})
    BY <2>1, HearMeans DEF Hearing
  <2>3. DOMAIN heard' \subseteq (1 .. Len(told')) \X ChannelNames
    <3>1. Made(jobs[j]) \subseteq 1 .. Len(told)
      BY DEF TInv, Working, JobOK
    <3>2. nrs \X {c} \subseteq (1 .. Len(told)) \X ChannelNames
      BY <2>1, <3>1
    <3>3. QED BY <1>3, <2>2, <3>2
  <2>4. ASSUME NEW i \in Jobs, i # j PROVE HeardOK(i)'
    <3>1. JobOK(i) /\ HeardOK(i) /\ Made(jobs[i]) \cap Made(jobs[j]) = {} /\ jobs'[i] = jobs[i]
      BY <1>1, <2>4 DEF TInv, Working, Hearing
    <3>2. \A n \in Made(jobs[i]) : n \notin nrs
      BY <2>1, <3>1
    <3>3. \A p \in DOMAIN heard' : p[1] \in Made(jobs[i]) => p \in DOMAIN heard
      BY <2>2, <3>2
    <3>4. jobs[i].at \in {"scan", "dispatch"} => Made(jobs[i]) = jobs[i].made
      BY <3>1, Stages
    <3>5. jobs[i].at = "scan" => \A p \in DOMAIN heard' : p[1] \notin jobs[i].made
      BY <3>1, <3>3, <3>4 DEF HeardOK
    <3>6. jobs[i].at = "dispatch" =>
            \A n \in jobs[i].made, b \in Range(jobs[i].channels) :
              <<n, b>> \in DOMAIN heard' => <<n, b>> \in DOMAIN heard
      <4>1. ASSUME jobs[i].at = "dispatch", NEW n \in jobs[i].made, NEW b, <<n, b>> \in DOMAIN heard'
            PROVE  <<n, b>> \in DOMAIN heard
        BY <3>3, <3>4, <4>1
      <4>2. QED BY <4>1
    <3>7. QED BY <3>1, <3>5, <3>6 DEF HeardOK
  <2>5. QED BY <2>2, <2>3, <2>4 DEF Hearing
<1>4. QED BY <1>2, <1>3

LEMMA RemindingHears ==
  ASSUME TInv, Hearing, Reminding
  PROVE  Hearing'
<1>1. UNCHANGED heard /\ Cascade
  BY DEF Reminding
<1>2. CASE Requested \/ NextDay
  <2>1. UNCHANGED <<jobs, told>>
    BY <1>2, RequestedEffect DEF RequestEffect, NextDay, inboxVars
  <2>2. QED BY <1>1, <2>1 DEF Hearing, HeardOK
<1>3. ASSUME NEW j \in Jobs, Begin(j) PROVE Hearing'
  <2>1. PICK job \in ScanJob : Become(j, job) /\ job.made = {}
    BY <1>3, BeginMeans
  <2>2. jobs'[j] = job /\ told' = told /\ job.at = "scan"
    BY <1>3, <2>1, BecomeMeans DEF TInv, Begin, inboxVars, ScanJob
  <2>3. HeardOK(j)'
    BY <2>1, <2>2 DEF HeardOK
  <2>4. QED BY <1>1, <2>1, <2>2, <2>3, HearingAfter DEF Hearing
<1>4. ASSUME NEW j \in Jobs, Pass(j) PROVE Hearing'
  <2>1. PICK job \in ScanJob : Become(j, job) /\ job.made = jobs[j].made
    BY <1>4, PassMeans
  <2>2. jobs'[j] = job /\ told' = told /\ job.at = "scan" /\ jobs[j].at = "scan"
    BY <1>4, <2>1, BecomeMeans, PassMeans DEF TInv, inboxVars, ScanJob
  <2>3. HeardOK(j)'
    BY <1>1, <2>1, <2>2 DEF HeardOK, Hearing
  <2>4. QED BY <1>1, <2>1, <2>2, <2>3, HearingAfter DEF Hearing
<1>5. ASSUME NEW j \in Jobs, Make(j) PROVE Hearing'
  <2>1. PICK job \in ScanJob :
          /\ Become(j, job)
          /\ \/ UNCHANGED inboxVars /\ job.made = jobs[j].made
             \/ Len(told') = Len(told) + 1 /\ job.made = jobs[j].made \cup {Len(told) + 1}
    BY <1>5, MakeMeans DEF Adds
  <2>2. jobs'[j] = job /\ job.at = "scan" /\ jobs[j].at = "scan" /\ Len(told) \in Nat
    <3>1. jobs[j] \in ScanJob
      BY <1>5, MakeMeans
    <3>2. jobs'[j] = job
      BY <2>1, BecomeMeans DEF TInv
    <3>3. QED BY <3>1, <3>2 DEF TInv, InboxOK, ScanJob
  <2>3. DOMAIN heard \subseteq (1 .. Len(told')) \X ChannelNames
    BY <2>1, <2>2 DEF inboxVars, Hearing
  <2>4. HeardOK(j)'
    <3>1. \A p \in DOMAIN heard : p[1] \notin jobs[j].made /\ p[1] \in 1 .. Len(told)
      BY <2>2 DEF Hearing, HeardOK
    <3>2. \A p \in DOMAIN heard' : p[1] \notin job.made
      BY <1>1, <2>1, <2>2, <3>1
    <3>3. QED BY <2>2, <3>2 DEF HeardOK
  <2>5. QED BY <1>1, <2>1, <2>3, <2>4, HearingAfter
<1>6. QED BY <1>2, <1>3, <1>4, <1>5 DEF Reminding

LEMMA CommitHears ==
  ASSUME TInv, Hearing, NEW j \in Jobs, Commit(j)
  PROVE  Hearing'
<1>1. jobs[j] \in ScanJob /\ UNCHANGED <<told, heard>>
  BY CommitMeans, HouseholdStays DEF inboxVars
<1>2. jobs[j].at = "scan" /\ DOMAIN heard \subseteq (1 .. Len(told')) \X ChannelNames
  BY <1>1 DEF ScanJob, Hearing
<1>3. CASE Become(j, Idle)
  <2>1. jobs'[j].at = "idle"
    BY <1>3, BecomeMeans DEF TInv, Idle
  <2>2. HeardOK(j)'
    BY <2>1 DEF HeardOK
  <2>3. QED BY <1>1, <1>2, <1>3, <2>2, HearingAfter
<1>4. CASE ~Become(j, Idle)
  <2>1. PICK job \in DispatchJob : Become(j, job) /\ job.made = jobs[j].made
    BY <1>4, CommitMeans
  <2>2. jobs'[j] = job /\ job.at = "dispatch"
    BY <2>1, BecomeMeans DEF TInv, DispatchJob
  <2>3. \A n \in job.made, c \in Range(job.channels) : <<n, c>> \notin DOMAIN heard'
    <3>1. \A p \in DOMAIN heard : p[1] \notin job.made
      BY <1>2, <2>1 DEF Hearing, HeardOK
    <3>2. QED BY <1>1, <3>1
  <2>4. HeardOK(j)'
    BY <2>2, <2>3 DEF HeardOK
  <2>5. QED BY <1>1, <1>2, <2>1, <2>4, HearingAfter
<1>5. QED BY <1>3, <1>4

LEMMA EnterHears ==
  ASSUME TInv, Hearing, NEW j \in Jobs, Enter(j)
  PROVE  Hearing'
<1>1. /\ jobs[j] \in DispatchJob /\ jobs[j].left = {} /\ jobs[j].channels # <<>>
      /\ UNCHANGED <<told, heard>>
  BY EnterMeans, HouseholdStays DEF inboxVars
<1>2. PICK job \in DispatchJob :
        /\ Become(j, job) /\ job.made = jobs[j].made
        /\ \/ job.channels = Tail(jobs[j].channels)
           \/ job.channels = jobs[j].channels
  BY EnterMeans
<1>3. jobs'[j] = job /\ job.at = "dispatch" /\ jobs[j].at = "dispatch"
  BY <1>1, <1>2, BecomeMeans DEF TInv, DispatchJob
<1>4. Range(job.channels) \subseteq Range(jobs[j].channels)
  BY <1>1, <1>2, RouteSteps DEF DispatchJob
<1>5. \A n \in job.made, c \in Range(job.channels) : <<n, c>> \notin DOMAIN heard
  BY <1>1, <1>2, <1>3, <1>4 DEF Hearing, HeardOK
<1>6. HeardOK(j)'
  BY <1>1, <1>3, <1>5 DEF HeardOK
<1>7. QED BY <1>1, <1>2, <1>6, HearingAfter DEF Hearing

LEMMA WorksHears ==
  ASSUME TInv, Hearing, NEW j \in Jobs, Works(j)
  PROVE  Hearing'
<1>1. PICK c \in ChannelNames, nrs \in SUBSET jobs[j].left, pending \in SUBSET jobs[j].left,
           status \in Outcomes, got \in BOOLEAN :
        /\ With(j, c) /\ pending \in SUBSET nrs /\ UNCHANGED household
        /\ Skip(j, nrs) \/ Attempt(j, nrs, pending, c, status, got)
  BY DEF Works
<1>2. /\ jobs[j] \in DispatchJob /\ jobs[j].channels # <<>> /\ Head(jobs[j].channels) = c
      /\ \E job : Loses(j, nrs, job)
  BY <1>1, WorksMeans
<1>3. PICK job : Loses(j, nrs, job)
  BY <1>2
<1>4. /\ Become(j, job) /\ job \in DispatchJob
      /\ job.made = jobs[j].made /\ job.left = jobs[j].left \ nrs
      /\ job.channels = IF job.left = {} THEN Tail(jobs[j].channels) ELSE jobs[j].channels
  BY <1>3 DEF Loses
<1>5. UNCHANGED told
  BY <1>1, HouseholdStays DEF inboxVars
<1>6. jobs'[j] = job /\ job.at = "dispatch" /\ jobs[j].at = "dispatch"
  BY <1>2, <1>4, BecomeMeans DEF TInv, DispatchJob
<1>7. jobs[j].left \subseteq jobs[j].made /\ Made(jobs[j]) = jobs[j].made
  BY <1>2, Stages DEF TInv, Working, JobOK, DispatchJob
<1>8. /\ Range(jobs[j].channels) = {c} \cup Range(Tail(jobs[j].channels))
      /\ c \notin Range(Tail(jobs[j].channels))
  BY <1>2, RouteSteps DEF DispatchJob
<1>9. \A n \in jobs[j].made, b \in Range(jobs[j].channels) :
        <<n, b>> \in DOMAIN heard => b = c /\ n \notin jobs[j].left
  BY <1>2, <1>6 DEF Hearing, HeardOK
<1>10. \A n \in pending : <<n, c>> \notin DOMAIN heard
  BY <1>1, <1>7, <1>8, <1>9
<1>11. UNCHANGED heard \/ Hear(pending, c)
  BY <1>1 DEF Skip, Attempt
<1>12. DOMAIN heard' \subseteq DOMAIN heard \cup (pending \X {c})
  BY <1>10, <1>11, HearMeans DEF Hearing
<1>13. \A n \in job.made, b \in Range(job.channels) :
         <<n, b>> \in DOMAIN heard' => b = Head(job.channels) /\ job.left # {} /\ n \notin job.left
  <2>1. ASSUME NEW n \in job.made, NEW b \in Range(job.channels), <<n, b>> \in DOMAIN heard'
        PROVE  b = Head(job.channels) /\ job.left # {} /\ n \notin job.left
    <3>1. b \in Range(jobs[j].channels)
      BY <1>4, <1>8
    <3>2. b = c
      <4>1. CASE <<n, b>> \in DOMAIN heard
        BY <1>4, <1>9, <3>1, <4>1
      <4>2. CASE <<n, b>> \in pending \X {c}
        BY <4>2
      <4>3. QED BY <1>12, <2>1, <4>1, <4>2
    <3>3. job.left # {} /\ job.channels = jobs[j].channels
      BY <1>4, <1>8, <3>2
    <3>4. n \notin job.left
      <4>1. CASE <<n, b>> \in DOMAIN heard
        BY <1>4, <1>9, <3>1, <4>1
      <4>2. CASE <<n, b>> \in pending \X {c}
        BY <1>1, <1>4, <4>2
      <4>3. QED BY <1>12, <2>1, <4>1, <4>2
    <3>5. QED BY <1>2, <3>2, <3>3, <3>4
  <2>2. QED BY <2>1
<1>14. HeardOK(j)'
  BY <1>6, <1>13 DEF HeardOK
<1>15. DOMAIN heard \subseteq (1 .. Len(told')) \X ChannelNames
  BY <1>5 DEF Hearing
<1>16. pending \subseteq Made(jobs[j])
  BY <1>1, <1>7
<1>17. QED BY <1>4, <1>5, <1>10, <1>11, <1>14, <1>15, <1>16, HearingAfter

LEMMA FinishHears ==
  ASSUME TInv, Hearing, NEW j \in Jobs, Finish(j)
  PROVE  Hearing'
<1>1. Become(j, Idle) /\ UNCHANGED <<told, heard>>
  BY HouseholdStays DEF Finish, inboxVars
<1>2. jobs'[j].at = "idle"
  BY <1>1, BecomeMeans DEF TInv, Idle
<1>3. HeardOK(j)'
  BY <1>2 DEF HeardOK
<1>4. QED BY <1>1, <1>3, HearingAfter DEF Hearing

LEMMA DieHears ==
  ASSUME TInv, Hearing, NEW j \in Jobs, Die(j)
  PROVE  Hearing'
<1>1. Become(j, Idle)
  BY DieMeans
<1>2. jobs'[j].at = "idle"
  BY <1>1, BecomeMeans DEF TInv, Idle
<1>3. HeardOK(j)'
  BY <1>2 DEF HeardOK
<1>4. CASE jobs[j] \in ScanJob /\ Forget(jobs[j].held) /\ UNCHANGED heard
  <2>1. PICK h \in 0 .. Len(told) : jobs[j].held = h + 1 .. Len(told) /\ Len(told') = h
    BY <1>4, ForgetMeans
  <2>2. jobs[j].at = "scan" /\ Len(told) \in Nat
    BY <1>4 DEF ScanJob, TInv, InboxOK
  <2>3. \A p \in DOMAIN heard : p[1] \in 1 .. Len(told) /\ p[1] \notin jobs[j].held /\ p \in Nat \X ChannelNames
    BY <2>2 DEF Hearing, HeardOK, TInv, Working, JobOK
  <2>4. DOMAIN heard \subseteq (1 .. Len(told')) \X ChannelNames
    BY <2>1, <2>2, <2>3
  <2>5. QED BY <1>1, <1>3, <1>4, <2>4, HearingAfter
<1>5. CASE /\ jobs[j] \in DispatchJob /\ UNCHANGED inboxVars
           /\ \/ UNCHANGED heard
              \/ /\ jobs[j].left # {}
                 /\ \E nrs \in SUBSET jobs[j].left : Hear(nrs, Head(jobs[j].channels))
  <2>1. UNCHANGED told /\ DOMAIN heard \subseteq (1 .. Len(told')) \X ChannelNames
    BY <1>5 DEF inboxVars, Hearing
  <2>2. CASE UNCHANGED heard
    BY <1>1, <1>3, <2>1, <2>2, HearingAfter
  <2>3. CASE jobs[j].left # {} /\ \E nrs \in SUBSET jobs[j].left : Hear(nrs, Head(jobs[j].channels))
    <3>1. PICK nrs \in SUBSET jobs[j].left : Hear(nrs, Head(jobs[j].channels))
      BY <2>3
    <3>2. jobs[j].at = "dispatch" /\ Made(jobs[j]) = jobs[j].made
      BY <1>5, Stages DEF DispatchJob, TInv, Working
    <3>3. jobs[j].left \subseteq jobs[j].made /\ jobs[j].channels # <<>>
      BY <2>3, <3>2 DEF TInv, Working, JobOK
    <3>4. PICK c : c = Head(jobs[j].channels) /\ c \in ChannelNames /\ c \in Range(jobs[j].channels)
      BY <1>5, <3>3, RouteSteps DEF DispatchJob
    <3>5. \A n \in nrs : <<n, c>> \notin DOMAIN heard
      BY <3>1, <3>2, <3>3, <3>4 DEF Hearing, HeardOK
    <3>6. nrs \subseteq Made(jobs[j]) /\ Hear(nrs, c)
      BY <3>1, <3>2, <3>3, <3>4
    <3>7. QED BY <1>1, <1>3, <2>1, <3>4, <3>5, <3>6, HearingAfter
  <2>4. QED BY <1>5, <2>2, <2>3
<1>6. QED BY <1>4, <1>5, DieMeans

LEMMA StepHears ==
  ASSUME TInv, Hearing, [Next]_vars
  PROVE  Hearing'
<1>1. CASE Reminding
  BY <1>1, RemindingHears
<1>2. CASE \E j \in Jobs : Dispatching(j)
  <2>1. PICK j \in Jobs : Dispatching(j)
    BY <1>2
  <2>2. CASE Commit(j) \/ Enter(j) \/ Finish(j) \/ Die(j)
    BY <2>2, CommitHears, EnterHears, FinishHears, DieHears
  <2>3. CASE Mail(j) \/ Post(j) \/ Publish(j)
    BY <2>3, EachWorks, WorksHears
  <2>4. QED BY <2>1, <2>2, <2>3 DEF Dispatching
<1>3. CASE UNCHANGED vars
  BY <1>3, HouseholdStays DEF vars, Hearing, HeardOK, inboxVars
<1>4. QED BY <1>1, <1>2, <1>3 DEF Next
-----------------------------------------------------------------------------
(* Nothing is told twice *)

LEMMA LivesStays ==
  ASSUME UNCHANGED <<lots, tasks>>
  PROVE  /\ Alive' = Alive /\ \A s : NoOf(s)' = NoOf(s)
         /\ \A d : Lives(d)' <=> Lives(d)
BY DEF Alive, NoOf, Lives

LEMMA FitsStays ==
  ASSUME UNCHANGED subjectVars
  PROVE  \A d : Fits(d)' <=> Fits(d)
BY LivesStays DEF subjectVars, Fits

LEMMA RequestKeeps ==
  ASSUME TInv, Keeping, RequestEffect
  PROVE  Keeping'
<1>1. PICK gone \in SUBSET Alive :
        /\ DOMAIN rows' = {k \in DOMAIN rows : SubjectOf(k) \notin gone}
        /\ \/ Alive' = Alive \ gone /\ subjects' = subjects /\ \A s \in Alive' : NoOf(s)' = NoOf(s)
           \/ /\ gone = {} /\ subjects' = subjects + 1
              /\ \E s : /\ s \notin Alive /\ Alive' = Alive \cup {s} /\ NoOf(s)' = subjects + 1
                        /\ \A r \in Alive : NoOf(r)' = NoOf(r)
  BY DEF RequestEffect, SubjectsMove
<1>2. UNCHANGED <<jobs, told>> /\ \A k \in DOMAIN rows' : k \in DOMAIN rows /\ rows'[k].nr = rows[k].nr
  BY DEF RequestEffect
<1>3. subjects \in Nat /\ told \in Seq(Key \X Nat)
  BY DEF TInv, SubjectsOK, InboxOK
<1>4. \A s \in Alive : NoOf(s) \in Nat
  <2>1. \A i \in DOMAIN lots : lots[i].no \in Nat
    BY DEF TInv, SubjectsOK, Lot
  <2>2. \A i \in DOMAIN tasks : tasks[i].no \in Nat
    BY DEF TInv, SubjectsOK, Task
  <2>3. QED BY <2>1, <2>2 DEF Alive, NoOf
<1>5. CASE Alive' = Alive \ gone /\ subjects' = subjects /\ \A s \in Alive' : NoOf(s)' = NoOf(s)
  <2>1. \A d : Lives(d)' => Lives(d) /\ SubjectOf(d[1]) \notin gone
    BY <1>5 DEF Lives
  <2>2. ASSUME NEW d, Fits(d) PROVE Fits(d)'
    <3>1. ASSUME NEW s \in Alive', NoOf(s)' = d[2] PROVE Lives(d)'
      <4>1. s \in Alive /\ NoOf(s) = d[2]
        BY <1>5, <3>1
      <4>2. SubjectOf(d[1]) \in Alive /\ NoOf(SubjectOf(d[1])) = d[2]
        BY <2>2, <4>1 DEF Fits, Lives
      <4>3. SubjectOf(d[1]) = s
        BY <4>1, <4>2 DEF Keeping
      <4>4. QED BY <3>1, <4>3 DEF Lives
    <3>2. QED BY <1>5, <2>2, <3>1 DEF Fits
  <2>3. \A s \in Alive' : NoOf(s)' <= subjects'
    BY <1>5 DEF Keeping
  <2>4. \A r, s \in Alive' : NoOf(r)' = NoOf(s)' => r = s
    BY <1>5 DEF Keeping
  <2>5. ASSUME NEW m \in 1 .. Len(told)
        PROVE  Fits(told[m])' /\ (Lives(told[m])' => told[m][1] \in DOMAIN rows' /\ rows'[told[m][1]].nr = m)
    <3>1. PICK d : d = told[m]
      OBVIOUS
    <3>2. Fits(d) /\ (Lives(d) => d[1] \in DOMAIN rows /\ rows[d[1]].nr = m)
      BY <3>1 DEF Keeping
    <3>3. Fits(d)' /\ (Lives(d)' => d[1] \in DOMAIN rows' /\ rows'[d[1]].nr = m)
      BY <1>1, <1>2, <2>1, <2>2, <3>2
    <3>4. QED BY <1>2, <3>1, <3>3 DEF Fits, Lives
  <2>6. \A j \in Jobs : jobs'[j].at = "scan" => \A d \in jobs'[j].due : Fits(d)'
    BY <1>2, <2>2 DEF Keeping
  <2>7. QED BY <1>2, <2>3, <2>4, <2>5, <2>6 DEF Keeping
<1>6. CASE /\ gone = {} /\ subjects' = subjects + 1
           /\ \E s : /\ s \notin Alive /\ Alive' = Alive \cup {s} /\ NoOf(s)' = subjects + 1
                     /\ \A r \in Alive : NoOf(r)' = NoOf(r)
  <2>1. PICK s : /\ s \notin Alive /\ Alive' = Alive \cup {s} /\ NoOf(s)' = subjects + 1
                 /\ \A r \in Alive : NoOf(r)' = NoOf(r)
    BY <1>6
  <2>2. ASSUME NEW d, d[2] \in Nat, Fits(d) PROVE Fits(d)' /\ (Lives(d)' => Lives(d))
    <3>1. d[2] <= subjects /\ d[2] <= subjects' /\ d[2] # NoOf(s)'
      BY <1>3, <1>6, <2>1, <2>2 DEF Fits
    <3>2. ASSUME NEW r \in Alive', NoOf(r)' = d[2] PROVE Lives(d) /\ Lives(d)'
      <4>1. r \in Alive /\ NoOf(r) = d[2]
        BY <2>1, <3>1, <3>2
      <4>2. Lives(d)
        BY <2>2, <4>1 DEF Fits
      <4>3. QED BY <2>1, <4>2 DEF Lives
    <3>3. Lives(d)' => Lives(d)
      BY <3>2 DEF Lives
    <3>4. QED BY <3>1, <3>2, <3>3 DEF Fits
  <2>3. \A r \in Alive' : NoOf(r)' <= subjects'
    BY <1>3, <1>4, <1>6, <2>1 DEF Keeping
  <2>4. \A q, r \in Alive' : NoOf(q)' = NoOf(r)' => q = r
    <3>1. \A r \in Alive : NoOf(r)' <= subjects /\ NoOf(r)' \in Nat
      BY <1>4, <2>1 DEF Keeping
    <3>2. \A q, r \in Alive : NoOf(q)' = NoOf(r)' => q = r
      BY <2>1 DEF Keeping
    <3>3. \A r \in Alive : NoOf(r)' # NoOf(s)'
      BY <1>3, <2>1, <3>1
    <3>4. QED BY <2>1, <3>2, <3>3
  <2>5. ASSUME NEW m \in 1 .. Len(told)
        PROVE  Fits(told[m])' /\ (Lives(told[m])' => told[m][1] \in DOMAIN rows' /\ rows'[told[m][1]].nr = m)
    <3>1. PICK d : d = told[m]
      OBVIOUS
    <3>2. Fits(d) /\ (Lives(d) => d[1] \in DOMAIN rows /\ rows[d[1]].nr = m)
      BY <3>1 DEF Keeping
    <3>3. d[2] \in Nat
      BY <1>3, <3>1
    <3>4. DOMAIN rows' = DOMAIN rows
      BY <1>1, <1>6
    <3>5. Fits(d)' /\ (Lives(d)' => d[1] \in DOMAIN rows' /\ rows'[d[1]].nr = m)
      BY <1>2, <2>2, <3>2, <3>3, <3>4
    <3>6. QED BY <1>2, <3>1, <3>5 DEF Fits, Lives
  <2>6. ASSUME NEW j \in Jobs, jobs'[j].at = "scan", NEW d \in jobs'[j].due PROVE Fits(d)'
    <3>1. jobs[j].at = "scan" /\ d \in jobs[j].due
      BY <1>2, <2>6
    <3>2. d \in Key \X Nat
      BY <3>1, Stages DEF TInv, Working, ScanJob
    <3>3. QED BY <2>2, <3>1, <3>2 DEF Keeping
  <2>7. QED BY <1>2, <2>3, <2>4, <2>5, <2>6 DEF Keeping
<1>7. QED BY <1>1, <1>5, <1>6

\* A step of a job that tells nothing.
LEMMA KeepingAfter ==
  ASSUME TInv, Keeping, NEW j \in Jobs, NEW job, Become(j, job), UNCHANGED <<subjectVars, inboxVars>>,
         job.at = "scan" => \A d \in job.due : Fits(d)
  PROVE  Keeping'
<1>1. jobs'[j] = job /\ \A i \in Jobs : i # j => jobs'[i] = jobs[i]
  BY BecomeMeans DEF TInv
<1>2. Alive' = Alive /\ (\A s : NoOf(s)' = NoOf(s)) /\ (\A d : Lives(d)' <=> Lives(d))
  BY LivesStays DEF subjectVars
<1>3. \A d : Fits(d)' <=> Fits(d)
  BY FitsStays
<1>4. UNCHANGED <<rows, told, subjects>>
  BY DEF inboxVars, subjectVars
<1>5. \A i \in Jobs : jobs'[i].at = "scan" => \A d \in jobs'[i].due : Fits(d)'
  BY <1>1, <1>3 DEF Keeping
<1>6. ASSUME NEW m \in 1 .. Len(told)
      PROVE  Fits(told[m])' /\ (Lives(told[m])' => told[m][1] \in DOMAIN rows' /\ rows'[told[m][1]].nr = m)
  <2>1. PICK d : d = told[m]
    OBVIOUS
  <2>2. Fits(d)' /\ (Lives(d)' => d[1] \in DOMAIN rows' /\ rows'[d[1]].nr = m)
    BY <1>2, <1>3, <1>4, <2>1 DEF Keeping
  <2>3. QED BY <1>4, <2>1, <2>2 DEF Fits, Lives
<1>7. QED BY <1>2, <1>4, <1>5, <1>6 DEF Keeping

LEMMA AskedLives ==
  ASSUME TInv, NEW job \in ScanJob, NEW pass, NEW d \in Asked(job, pass)
  PROVE  Lives(d)
<1>1. CASE pass \in Sources
  <2>1. d \in DueDates(job.users, pass, job.day)
    BY <1>1 DEF Asked
  <2>2. PICK i \in DOMAIN lots : \E u : d = <<<<pass, u, i, lots[i].date[pass]>>, lots[i].no>>
    BY <2>1, DueDatesMeans
  <2>3. pass # "maintenance" /\ SubjectOf(d[1]) = <<"lot", i>> /\ d[2] = lots[i].no
    BY <1>1, <2>2 DEF Sources, SubjectOf
  <2>4. QED BY <2>3 DEF Lives, Alive, NoOf
<1>2. CASE pass \notin Sources
  <2>1. d \in DueTasks(job.users, job.day)
    BY <1>2 DEF Asked
  <2>2. PICK s \in DOMAIN tasks : \E u : d = <<<<"maintenance", u, s, tasks[s].due>>, tasks[s].no>>
    BY <2>1, DueTasksMeans
  <2>3. SubjectOf(d[1]) = <<"task", s>> /\ d[2] = tasks[s].no
    BY <2>2 DEF SubjectOf
  <2>4. QED BY <2>3 DEF Lives, Alive, NoOf
<1>3. QED BY <1>1, <1>2

LEMMA LivesFits ==
  ASSUME Keeping, NEW d, Lives(d)
  PROVE  Fits(d)
BY DEF Keeping, Lives, Fits

LEMMA MakeKeeps ==
  ASSUME TInv, Keeping, NEW j \in Jobs, Make(j)
  PROVE  Keeping'
<1>1. jobs[j] \in ScanJob /\ UNCHANGED subjectVars
  BY MakeMeans
<1>2. PICK d \in jobs[j].due, job \in ScanJob :
        Become(j, job) /\ job.due = jobs[j].due \ {d} /\ (UNCHANGED inboxVars \/ Adds(d))
  BY MakeMeans
<1>3. \A e \in jobs[j].due : Fits(e)
  BY <1>1 DEF Keeping, ScanJob
<1>4. CASE UNCHANGED inboxVars
  BY <1>1, <1>2, <1>3, <1>4, KeepingAfter
<1>5. CASE Adds(d)
  <2>1. jobs'[j] = job /\ \A i \in Jobs : i # j => jobs'[i] = jobs[i]
    BY <1>2, BecomeMeans DEF TInv
  <2>2. /\ Alive' = Alive /\ (\A s : NoOf(s)' = NoOf(s)) /\ (\A e : Lives(e)' <=> Lives(e))
        /\ (\A e : Fits(e)' <=> Fits(e)) /\ subjects' = subjects
    BY <1>1, LivesStays, FitsStays DEF subjectVars
  <2>3. \A i \in Jobs : jobs'[i].at = "scan" => \A e \in jobs'[i].due : Fits(e)'
    BY <1>2, <1>3, <2>1, <2>2 DEF Keeping
  <2>4. Len(told) \in Nat
    BY DEF TInv, InboxOK
  <2>5. ASSUME NEW m \in 1 .. Len(told')
        PROVE  Fits(told[m])' /\ (Lives(told[m])' => told'[m][1] \in DOMAIN rows' /\ rows'[told'[m][1]].nr = m)
    <3>1. PICK e : e = told'[m]
      OBVIOUS
    <3>2. CASE m = Len(told) + 1
      <4>1. e = d /\ d[1] \in DOMAIN rows' /\ rows'[d[1]].nr = m
        BY <1>5, <3>1, <3>2 DEF Adds
      <4>2. Fits(e)'
        BY <1>2, <1>3, <2>2, <4>1
      <4>3. QED BY <3>1, <4>1, <4>2 DEF Fits, Lives
    <3>3. CASE m \in 1 .. Len(told)
      <4>1. e = told[m] /\ \A k \in DOMAIN rows : k \in DOMAIN rows' /\ rows'[k] = rows[k]
        BY <1>5, <3>1, <3>3 DEF Adds
      <4>2. Fits(e) /\ (Lives(e) => e[1] \in DOMAIN rows /\ rows[e[1]].nr = m)
        BY <3>3, <4>1 DEF Keeping
      <4>3. Fits(e)' /\ (Lives(e)' => e[1] \in DOMAIN rows' /\ rows'[e[1]].nr = m)
        BY <2>2, <4>1, <4>2
      <4>4. QED BY <3>1, <4>3 DEF Fits, Lives
    <3>4. QED BY <1>5, <2>4, <3>2, <3>3 DEF Adds
  <2>6. QED BY <2>2, <2>3, <2>5 DEF Keeping
<1>6. QED BY <1>2, <1>4, <1>5

LEMMA DieKeeps ==
  ASSUME TInv, Keeping, NEW j \in Jobs, Die(j)
  PROVE  Keeping'
<1>1. Become(j, Idle) /\ UNCHANGED subjectVars /\ Idle.at = "idle"
  BY DieMeans DEF Idle
<1>2. CASE UNCHANGED inboxVars
  BY <1>1, <1>2, KeepingAfter
<1>3. CASE jobs[j] \in ScanJob /\ Forget(jobs[j].held)
  <2>1. PICK h \in 0 .. Len(told) :
           /\ Len(told') = h /\ \A n \in 1 .. h : told'[n] = told[n]
           /\ DOMAIN rows' = {k \in DOMAIN rows : rows[k].nr <= h}
           /\ \A k \in DOMAIN rows' : rows'[k] = rows[k]
    BY <1>3, ForgetMeans
  <2>2. jobs'[j] = Idle /\ \A i \in Jobs : i # j => jobs'[i] = jobs[i]
    BY <1>1, BecomeMeans DEF TInv
  <2>3. /\ Alive' = Alive /\ (\A s : NoOf(s)' = NoOf(s)) /\ (\A e : Lives(e)' <=> Lives(e))
        /\ (\A e : Fits(e)' <=> Fits(e)) /\ subjects' = subjects
    BY <1>1, LivesStays, FitsStays DEF subjectVars
  <2>4. \A i \in Jobs : jobs'[i].at = "scan" => \A e \in jobs'[i].due : Fits(e)'
    BY <1>1, <2>2, <2>3 DEF Keeping
  <2>5. Len(told) \in Nat
    BY DEF TInv, InboxOK
  <2>6. ASSUME NEW m \in 1 .. Len(told')
        PROVE  Fits(told[m])' /\ (Lives(told[m])' => told'[m][1] \in DOMAIN rows' /\ rows'[told'[m][1]].nr = m)
    <3>1. PICK e : e = told'[m]
      OBVIOUS
    <3>2. e = told[m] /\ m \in 1 .. Len(told) /\ m <= h
      BY <2>1, <2>5, <3>1
    <3>3. Fits(e) /\ (Lives(e) => e[1] \in DOMAIN rows /\ rows[e[1]].nr = m)
      BY <3>2 DEF Keeping
    <3>4. Fits(e)' /\ (Lives(e)' => e[1] \in DOMAIN rows' /\ rows'[e[1]].nr = m)
      BY <2>1, <2>3, <3>2, <3>3
    <3>5. QED BY <3>1, <3>4 DEF Fits, Lives
  <2>7. QED BY <2>3, <2>4, <2>6 DEF Keeping
<1>4. QED BY <1>2, <1>3, DieMeans

LEMMA StepKeeps ==
  ASSUME TInv, Keeping, [Next]_vars
  PROVE  Keeping'
<1>1. CASE Requested
  BY <1>1, RequestedEffect, RequestKeeps
<1>2. CASE NextDay \/ UNCHANGED vars
  <2>1. UNCHANGED <<subjectVars, inboxVars, jobs>>
    BY <1>2, HouseholdStays DEF NextDay, vars
  <2>2. UNCHANGED <<rows, told, lots, tasks, subjects>>
    BY <2>1 DEF inboxVars, subjectVars
  <2>3. QED BY <2>1, <2>2 DEF Keeping, Alive, NoOf, Fits, Lives
<1>3. ASSUME NEW j \in Jobs, Begin(j) PROVE Keeping'
  <2>1. PICK job \in ScanJob : Become(j, job) /\ job.due = {}
    BY <1>3, BeginMeans
  <2>2. UNCHANGED <<subjectVars, inboxVars>>
    BY <1>3 DEF Begin
  <2>3. QED BY <2>1, <2>2, KeepingAfter
<1>4. ASSUME NEW j \in Jobs, Pass(j) PROVE Keeping'
  <2>1. jobs[j] \in ScanJob /\ UNCHANGED <<subjectVars, inboxVars>>
    BY <1>4, PassMeans
  <2>2. PICK job \in ScanJob : Become(j, job) /\ job.due = Asked(jobs[j], Head(jobs[j].passes))
    BY <1>4, PassMeans
  <2>3. \A d \in job.due : Fits(d)
    BY <2>1, <2>2, AskedLives, LivesFits
  <2>4. QED BY <2>1, <2>2, <2>3, KeepingAfter
<1>5. ASSUME NEW j \in Jobs, Commit(j) \/ Enter(j) \/ Works(j) \/ Finish(j) PROVE Keeping'
  <2>1. UNCHANGED <<subjectVars, inboxVars>>
    BY <1>5, HouseholdStays, CommitMeans, EnterMeans DEF Works, Finish
  <2>2. PICK job : Become(j, job) /\ job.at # "scan"
    <3>1. CASE Commit(j)
      BY <3>1, CommitMeans DEF Idle, DispatchJob
    <3>2. CASE Enter(j)
      BY <3>2, EnterMeans DEF DispatchJob
    <3>3. CASE Works(j)
      <4>1. PICK nrs : \E job : Loses(j, nrs, job)
        BY <3>3, WorksMeans DEF Works
      <4>2. QED BY <4>1 DEF Loses, DispatchJob
    <3>4. CASE Finish(j)
      BY <3>4 DEF Finish, Idle
    <3>5. QED BY <1>5, <3>1, <3>2, <3>3, <3>4
  <2>3. QED BY <2>1, <2>2, KeepingAfter
<1>6. ASSUME NEW j \in Jobs, Dispatching(j) PROVE Keeping'
  BY <1>5, <1>6, EachWorks, DieKeeps DEF Dispatching
<1>7. QED BY <1>1, <1>2, <1>3, <1>4, <1>6, MakeKeeps DEF Next, Reminding

LEMMA KeptIsToldOnce ==
  ASSUME Keeping
  PROVE  RemindedOnce
<1>1. ASSUME NEW m \in DOMAIN told, NEW n \in DOMAIN told, m # n, told[m] = told[n],
             told[m][2] \in Living, DOMAIN told = 1 .. Len(told)
      PROVE  FALSE
  <2>1. \E s \in Alive : NoOf(s) = told[m][2]
    <3>1. CASE \E i \in DOMAIN lots : told[m][2] = lots[i].no
      <4>1. PICK i \in DOMAIN lots : told[m][2] = lots[i].no
        BY <3>1
      <4>2. <<"lot", i>> \in Alive /\ NoOf(<<"lot", i>>) = told[m][2]
        BY <4>1 DEF Alive, NoOf
      <4>3. QED BY <4>2
    <3>2. CASE \E s \in DOMAIN tasks : told[m][2] = tasks[s].no
      <4>1. PICK s \in DOMAIN tasks : told[m][2] = tasks[s].no
        BY <3>2
      <4>2. <<"task", s>> \in Alive /\ NoOf(<<"task", s>>) = told[m][2]
        BY <4>1 DEF Alive, NoOf
      <4>3. QED BY <4>2
    <3>3. QED BY <1>1, <3>1, <3>2 DEF Living
  <2>2. Lives(told[m])
    BY <1>1, <2>1 DEF Keeping, Fits
  <2>3. rows[told[m][1]].nr = m /\ rows[told[n][1]].nr = n
    BY <1>1, <2>2 DEF Keeping
  <2>4. QED BY <1>1, <2>3
<1>2. QED BY <1>1 DEF RemindedOnce

\* Whoever scans, dies, deletes or sends at the same time, and whatever is
\* delayed: a user is not reminded twice of what still exists, and no receiver
\* gets a notification twice over one channel.
THEOREM NothingTwice == Spec => []ToldOnce
<1>1. Init => TInv /\ Hearing /\ Keeping
  <2>1. SUFFICES ASSUME Init PROVE TInv /\ Hearing /\ Keeping
    OBVIOUS
  <2>2. TInv
    BY <2>1, InitTypes
  <2>3. told = <<>> /\ heard = EmptyBag /\ \A j \in Jobs : jobs[j].at = "idle"
    BY <2>1 DEF Init, Idle
  <2>4. DOMAIN heard = {} /\ heard = SetToBag(DOMAIN heard)
    BY <2>3 DEF EmptyBag, SetToBag
  <2>5. Hearing
    BY <2>3, <2>4 DEF Hearing, HeardOK
  <2>6. DOMAIN lots = {1} /\ lots[1].no = 1
    BY <2>1 DEF Init
  <2>7. \/ DOMAIN tasks = {} /\ subjects = 1
        \/ DOMAIN tasks = {1} /\ tasks[1].no = 2 /\ subjects = 2
    BY <2>1 DEF Init
  <2>8. /\ \A s \in Alive : NoOf(s) <= subjects
        /\ \A r, s \in Alive : NoOf(r) = NoOf(s) => r = s
    BY <2>6, <2>7 DEF Alive, NoOf
  <2>9. Keeping
    BY <2>3, <2>8 DEF Keeping
  <2>10. QED BY <2>2, <2>5, <2>9
<1>2. TInv /\ Hearing /\ Keeping /\ [Next]_vars => (TInv /\ Hearing /\ Keeping)'
  BY StepKeepsTypes, StepHears, StepKeeps
<1>3. TInv /\ Hearing /\ Keeping => ToldOnce
  BY KeptIsToldOnce DEF ToldOnce, HeardOnce, Hearing, BagToSet
<1>4. QED BY <1>1, <1>2, <1>3, PTL DEF Spec
-----------------------------------------------------------------------------
(* What is recorded as sent was heard *)

LEMMA HeardGrows ==
  ASSUME NEW nrs, NEW c, Hear(nrs, c)
  PROVE  DOMAIN heard' = DOMAIN heard \cup (nrs \X {c})
<1>1. DOMAIN SetToBag(nrs \X {c}) = nrs \X {c}
  BY DEF SetToBag
<1>2. QED BY <1>1 DEF Hear, (+)

LEMMA StepKeepsSent ==
  ASSUME TInv, SentWasHeard, [Next]_vars
  PROVE  SentWasHeard'
<1>1. ASSUME deliveries' \subseteq deliveries, DOMAIN heard \subseteq DOMAIN heard' PROVE SentWasHeard'
  BY <1>1 DEF SentWasHeard, BagIn, BagToSet
<1>2. CASE Reminding
  BY <1>1, <1>2, CascadeMeans DEF Reminding
<1>3. ASSUME NEW j \in Jobs, Works(j) PROVE SentWasHeard'
  <2>1. PICK c \in ChannelNames, nrs \in SUBSET jobs[j].left, pending \in SUBSET jobs[j].left,
             status \in Outcomes, got \in BOOLEAN :
          \/ Skip(j, nrs)
          \/ (status = "sent" /\ c # "mqtt" => got) /\ Attempt(j, nrs, pending, c, status, got)
    BY <1>3 DEF Works
  <2>2. CASE Skip(j, nrs)
    BY <1>1, <2>2 DEF Skip
  <2>3. CASE (status = "sent" /\ c # "mqtt" => got) /\ Attempt(j, nrs, pending, c, status, got)
    <3>1. /\ deliveries' = deliveries \cup (pending \X {c} \X {status})
          /\ IF got THEN Hear(pending, c) ELSE UNCHANGED heard
      BY <2>3 DEF Attempt, Recorded
    <3>2. DOMAIN heard \subseteq DOMAIN heard' /\ (got => pending \X {c} \subseteq DOMAIN heard')
      <4>1. CASE got
        <5>1. DOMAIN heard' = DOMAIN heard \cup (pending \X {c})
          BY <3>1, <4>1, HeardGrows
        <5>2. QED BY <5>1
      <4>2. CASE ~got
        BY <3>1, <4>2
      <4>3. QED BY <4>1, <4>2
    <3>3. \A d \in pending \X {c} \X {status} : d[1] \in pending /\ d[2] = c /\ d[3] = status
      OBVIOUS
    <3>4. ASSUME NEW d \in deliveries', d[3] = "sent", d[2] # "mqtt" PROVE <<d[1], d[2]>> \in DOMAIN heard'
      <4>1. CASE d \in deliveries
        BY <3>2, <3>4, <4>1 DEF SentWasHeard, BagIn, BagToSet
      <4>2. CASE d \in pending \X {c} \X {status}
        <5>1. d[1] \in pending /\ d[2] = c /\ got
          BY <2>3, <3>3, <3>4, <4>2
        <5>2. <<d[1], d[2]>> \in pending \X {c}
          BY <5>1
        <5>3. QED BY <3>2, <5>1, <5>2
      <4>3. QED BY <3>1, <3>4, <4>1, <4>2
    <3>5. QED BY <3>4 DEF SentWasHeard, BagIn, BagToSet
  <2>4. QED BY <2>1, <2>2, <2>3
<1>4. ASSUME NEW j \in Jobs, Die(j) PROVE SentWasHeard'
  <2>1. deliveries' \subseteq deliveries
    BY <1>4, DieMeans
  <2>2. UNCHANGED heard \/ \E nrs, c : Hear(nrs, c)
    BY <1>4, DieMeans
  <2>3. QED BY <1>1, <2>1, <2>2, HeardGrows
<1>5. ASSUME NEW j \in Jobs, Commit(j) \/ Enter(j) \/ Finish(j) PROVE SentWasHeard'
  BY <1>1, <1>5 DEF Commit, Enter, Finish
<1>6. CASE UNCHANGED vars
  BY <1>1, <1>6 DEF vars
<1>7. QED BY <1>2, <1>3, <1>4, <1>5, <1>6, EachWorks DEF Next, Dispatching

-----------------------------------------------------------------------------
(* Jobs and requests one by one: a job that is at work is alone *)

LEMMA JobsMove ==
  ASSUME TInv, [Next]_vars
  PROVE  /\ overlap' = overlap
         /\ \/ jobs' = jobs
            \/ \E j \in Jobs : \E job : Become(j, job) /\ (jobs[j] = Idle /\ ~overlap => Quiet)
<1>1. \A job \in ScanJob \cup DispatchJob : job # Idle
  BY DEF ScanJob, DispatchJob, Idle
<1>2. CASE Requested
  BY <1>2, RequestedEffect DEF RequestEffect
<1>3. CASE NextDay \/ UNCHANGED vars
  BY <1>3, HouseholdStays DEF NextDay, vars
<1>4. ASSUME NEW j \in Jobs, Begin(j) \/ Pass(j) \/ Make(j)
      PROVE  overlap' = overlap /\ \E job : Become(j, job) /\ (jobs[j] = Idle /\ ~overlap => Quiet)
  <2>1. CASE Begin(j)
    BY <2>1, BeginMeans DEF Begin
  <2>2. CASE Pass(j)
    BY <1>1, <2>2, PassMeans
  <2>3. CASE Make(j)
    BY <1>1, <2>3, MakeMeans
  <2>4. QED BY <1>4, <2>1, <2>2, <2>3
<1>5. ASSUME NEW j \in Jobs, Dispatching(j)
      PROVE  overlap' = overlap /\ \E job : Become(j, job) /\ (jobs[j] = Idle /\ ~overlap => Quiet)
  <2>1. CASE Commit(j)
    BY <1>1, <2>1, CommitMeans, HouseholdStays
  <2>2. CASE Enter(j)
    BY <1>1, <2>2, EnterMeans, HouseholdStays
  <2>3. CASE Mail(j) \/ Post(j) \/ Publish(j)
    <3>1. PICK c \in ChannelNames, nrs \in SUBSET jobs[j].left, pending \in SUBSET jobs[j].left,
               status \in Outcomes, got \in BOOLEAN :
            /\ With(j, c) /\ pending \in SUBSET nrs /\ UNCHANGED household
            /\ Skip(j, nrs) \/ Attempt(j, nrs, pending, c, status, got)
      BY <2>3, EachWorks DEF Works
    <3>2. jobs[j] \in DispatchJob /\ \E job : Loses(j, nrs, job)
      BY <3>1, WorksMeans
    <3>3. PICK job : Become(j, job)
      BY <3>2 DEF Loses
    <3>4. QED BY <1>1, <3>1, <3>2, <3>3, HouseholdStays
  <2>4. CASE Finish(j)
    BY <2>4, HouseholdStays DEF Finish, Dispatched, Idle
  <2>5. CASE Die(j)
    BY <1>1, <2>5, DieMeans
  <2>6. QED BY <1>5, <2>1, <2>2, <2>3, <2>4, <2>5 DEF Dispatching
<1>6. QED BY <1>2, <1>3, <1>4, <1>5 DEF Next, Reminding

LEMMA AloneStays ==
  ASSUME TInv, ~overlap, Alone, [Next]_vars
  PROVE  Alone'
<1>1. CASE jobs' = jobs
  BY <1>1 DEF Alone
<1>2. CASE \E j \in Jobs : \E job : Become(j, job) /\ (jobs[j] = Idle => Quiet)
  <2>1. PICK j \in Jobs : \E job : Become(j, job) /\ (jobs[j] = Idle => Quiet)
    BY <1>2
  <2>2. \A i \in Jobs : i # j => jobs'[i] = jobs[i]
    BY <2>1, BecomeMeans DEF TInv
  <2>3. \A i \in Jobs : i # j => jobs[i] = Idle \/ jobs[j] # Idle
    BY <2>1 DEF Quiet
  <2>4. QED BY <2>2, <2>3 DEF Alone
<1>3. QED BY <1>1, <1>2, JobsMove

\* Of the others there is nothing to say.
LEMMA OthersIdle ==
  ASSUME TInv, Alone, NEW j \in Jobs, NEW job, Become(j, job), jobs[j] = Idle => Quiet
  PROVE  jobs'[j] = job /\ \A i \in Jobs : i # j => jobs[i] = Idle /\ jobs'[i] = Idle
<1>1. jobs'[j] = job /\ \A i \in Jobs : i # j => jobs'[i] = jobs[i]
  BY BecomeMeans DEF TInv
<1>2. \A i \in Jobs : i # j => jobs[i] = Idle
  BY DEF Alone, Quiet
<1>3. QED BY <1>1, <1>2

-----------------------------------------------------------------------------
(* Each attempt leaves one outcome *)

\* What is to be shown of a step of one job, where no others are at work.
LEMMA AccountingAfter ==
  ASSUME TInv, Accounting, overlap' = overlap, ~overlap => Alone', NEW j \in Jobs, NEW job,
         Become(j, job), jobs[j] = Idle /\ ~overlap => Quiet,
         ~overlap => Made(job) \subseteq Numbers' /\ AccountOK(job)'
  PROVE  Accounting'
<1>1. SUFFICES ASSUME ~overlap PROVE Accounting'
  BY DEF Accounting
<1>2. jobs'[j] = job /\ \A i \in Jobs : i # j => jobs'[i] = Idle
  BY <1>1, OthersIdle DEF Accounting
<1>3. Made(Idle) = {} /\ AccountOK(Idle)'
  BY DEF Made, AccountOK, Idle
<1>4. ASSUME NEW i \in Jobs PROVE Made(jobs[i])' \subseteq Numbers' /\ AccountOK(jobs[i])'
  <2>1. CASE i = j
    <3>1. Made(job) \subseteq Numbers' /\ AccountOK(job)'
      BY <1>1
    <3>2. Made(jobs[i])' = Made(job)
      BY <1>2, <2>1 DEF Made
    <3>3. AccountOK(jobs[i])'
      BY <1>2, <2>1, <3>1 DEF AccountOK
    <3>4. QED BY <3>1, <3>2, <3>3
  <2>2. CASE i # j
    <3>1. jobs'[i] = Idle /\ jobs'[i].at = "idle"
      BY <1>2, <2>2 DEF Idle
    <3>2. QED BY <3>1 DEF Made, AccountOK
  <2>3. QED BY <2>1, <2>2
<1>5. QED BY <1>1, <1>4 DEF Accounting

\* No job is at work.
LEMMA AccountingAtRest ==
  ASSUME TInv, UNCHANGED <<jobs, overlap>>, ~overlap => Quiet
  PROVE  Accounting'
BY DEF Accounting, Quiet, Alone, Made, AccountOK, Idle

LEMMA RemindingAccounts ==
  ASSUME TInv, Accounting, Reminding, ~overlap => Alone'
  PROVE  Accounting'
<1>1. Cascade
  BY DEF Reminding
<1>2. CASE Requested
  BY <1>2, RequestedEffect, AccountingAtRest DEF RequestEffect
<1>3. CASE NextDay
  <2>1. UNCHANGED <<jobs, overlap, rows, told, users>>
    BY <1>3 DEF NextDay, subjectVars, inboxVars
  <2>2. deliveries' = deliveries
    BY <1>1, <2>1 DEF Cascade, TInv, Delivered, Numbers
  <2>3. QED BY <2>1, <2>2 DEF Accounting, Alone, Numbers, AccountOK, OutcomesOf, Wanted, Recipient
<1>4. ASSUME NEW j \in Jobs, Begin(j) PROVE Accounting'
  <2>1. PICK job \in ScanJob : Become(j, job) /\ (~overlap => Quiet) /\ job.made = {}
    BY <1>4, BeginMeans
  <2>2. Made(job) = {} /\ AccountOK(job)' /\ overlap' = overlap
    BY <1>4, <2>1 DEF Made, AccountOK, ScanJob, Begin
  <2>3. QED BY <2>1, <2>2, AccountingAfter
<1>5. ASSUME NEW j \in Jobs, Pass(j) PROVE Accounting'
  <2>1. jobs[j] \in ScanJob /\ UNCHANGED <<inboxVars, overlap>>
    BY <1>5, PassMeans
  <2>2. PICK job \in ScanJob : Become(j, job) /\ job.made = jobs[j].made
    BY <1>5, PassMeans
  <2>3. Made(job) = Made(jobs[j]) /\ AccountOK(job)' /\ jobs[j] # Idle
    BY <2>1, <2>2 DEF Made, AccountOK, ScanJob, Idle
  <2>4. Numbers' = Numbers
    BY <2>1 DEF Numbers, inboxVars
  <2>5. ~overlap => Made(job) \subseteq Numbers'
    BY <2>3, <2>4 DEF Accounting
  <2>6. QED BY <2>1, <2>2, <2>3, <2>5, AccountingAfter
<1>6. ASSUME NEW j \in Jobs, Make(j) PROVE Accounting'
  <2>1. jobs[j] \in ScanJob /\ overlap' = overlap
    BY <1>6, MakeMeans
  <2>2. PICK d \in jobs[j].due, job \in ScanJob :
          /\ Become(j, job)
          /\ \/ UNCHANGED inboxVars /\ job.made = jobs[j].made
             \/ Adds(d) /\ job.made = jobs[j].made \cup {Len(told) + 1}
    BY <1>6, MakeMeans
  <2>3. /\ Made(job) = job.made /\ Made(jobs[j]) = jobs[j].made /\ AccountOK(job)' /\ jobs[j] # Idle
    BY <2>1, <2>2 DEF Made, AccountOK, ScanJob, Idle
  <2>4. Numbers \subseteq Numbers' /\ job.made \subseteq jobs[j].made \cup Numbers'
    <3>1. CASE UNCHANGED inboxVars /\ job.made = jobs[j].made
      BY <3>1 DEF Numbers, inboxVars
    <3>2. CASE Adds(d) /\ job.made = jobs[j].made \cup {Len(told) + 1}
      BY <3>2 DEF Adds, Numbers
    <3>3. QED BY <2>2, <3>1, <3>2
  <2>5. ~overlap => Made(job) \subseteq Numbers'
    BY <2>3, <2>4 DEF Accounting
  <2>6. QED BY <2>1, <2>2, <2>3, <2>5, AccountingAfter
<1>7. QED BY <1>2, <1>3, <1>4, <1>5, <1>6 DEF Reminding

\* With no job at work, and nothing to account for.
LEMMA EndAccounts ==
  ASSUME TInv, Accounting, ~overlap => Alone', NEW j \in Jobs, Become(j, Idle), overlap' = overlap,
         jobs[j] # Idle
  PROVE  Accounting'
BY AccountingAfter DEF Made, AccountOK, Idle

LEMMA CommitAccounts ==
  ASSUME TInv, Accounting, ~overlap => Alone', NEW j \in Jobs, Commit(j)
  PROVE  Accounting'
<1>1. /\ jobs[j] \in ScanJob /\ jobs[j].at = "scan" /\ jobs[j] # Idle
      /\ UNCHANGED <<inboxVars, overlap, deliveries>>
  BY CommitMeans, HouseholdStays DEF ScanJob, Idle
<1>2. CASE Become(j, Idle)
  BY <1>1, <1>2, EndAccounts
<1>3. CASE ~Become(j, Idle)
  <2>1. PICK job \in DispatchJob :
          /\ Become(j, job) /\ job.made = jobs[j].made /\ job.channels = Channels
          /\ job.left = {} /\ job.used = {}
    BY <1>3, CommitMeans
  <2>2. Made(job) = Made(jobs[j]) /\ Numbers' = Numbers
    BY <1>1, <2>1 DEF Made, DispatchJob, ScanJob, Numbers, inboxVars
  <2>3. ~overlap => Made(job) \subseteq Numbers'
    BY <2>2 DEF Accounting
  <2>4. \A d \in deliveries' : d[1] \notin job.made
    BY <1>1, <2>1 DEF TInv, Working, JobOK
  <2>5. \A n \in job.made, c \in ChannelNames : OutcomesOf(n, c)' = {}
    BY <2>4 DEF OutcomesOf
  <2>6. \A n, c : c \in ChannelNames => ~Passed(job, n, c)
    <3>1. Range(Channels) = ChannelNames
      BY DEF Channels, ChannelNames, Range
    <3>2. QED BY <2>1, <3>1 DEF Passed
  <2>7. AccountOK(job)'
    BY <2>1, <2>5, <2>6 DEF AccountOK
  <2>8. QED BY <1>1, <2>1, <2>3, <2>7, AccountingAfter
<1>4. QED BY <1>2, <1>3

\* What is wanted of a notification stays, where users and told do.
LEMMA WantedStays ==
  ASSUME UNCHANGED <<users, told>>
  PROVE  \A n, c : Wanted(n, c)' <=> Wanted(n, c)
BY DEF Wanted, Recipient

LEMMA EnterAccounts ==
  ASSUME TInv, Accounting, ~overlap => Alone', NEW j \in Jobs, Enter(j)
  PROVE  Accounting'
<1>1. /\ jobs[j] \in DispatchJob /\ jobs[j].left = {} /\ jobs[j].channels # <<>>
      /\ UNCHANGED <<users, inboxVars, overlap, deliveries>>
  BY EnterMeans, HouseholdStays DEF subjectVars
<1>2. jobs[j].at = "dispatch" /\ jobs[j] # Idle /\ jobs[j].made # {} /\ Made(jobs[j]) = jobs[j].made
  BY <1>1 DEF DispatchJob, Idle, Made, TInv, Working, JobOK
<1>3. PICK job \in DispatchJob :
        /\ Become(j, job) /\ job.made = jobs[j].made
        /\ \/ /\ job.channels = Tail(jobs[j].channels) /\ job.left = {}
              /\ \/ job.used = jobs[j].used
                 \/ \E n \in jobs[j].made : ~Readable(jobs[j], n)
           \/ /\ job.channels = jobs[j].channels /\ job.left = jobs[j].made
              /\ job.used = jobs[j].used \cup {Head(jobs[j].channels)}
  BY EnterMeans
<1>4. SUFFICES ASSUME ~overlap PROVE Made(job) \subseteq Numbers' /\ AccountOK(job)'
  BY <1>1, <1>2, <1>3, AccountingAfter
<1>5. jobs[j].made \subseteq Numbers /\ AccountOK(jobs[j])
  BY <1>2, <1>4 DEF Accounting
<1>6. job.at = "dispatch" /\ Made(job) = jobs[j].made /\ Numbers' = Numbers
  BY <1>1, <1>3 DEF DispatchJob, Made, Numbers, inboxVars
<1>7. PICK c, R, T : c = Head(jobs[j].channels) /\ R = Range(jobs[j].channels) /\ T = Range(Tail(jobs[j].channels))
  OBVIOUS
<1>8. R = {c} \cup T /\ c \notin T
  BY <1>1, <1>7, RouteSteps DEF DispatchJob
<1>9. jobs[j].used \cap R = {}
  BY <1>1, <1>2, <1>5, <1>7 DEF AccountOK
<1>10. /\ \A n \in job.made, b \in ChannelNames : b \in R => OutcomesOf(n, b) = {}
       /\ \A n \in job.made, b \in ChannelNames : b \notin R /\ b \in jobs[j].used /\ Wanted(n, b) =>
            \E status \in Outcomes : OutcomesOf(n, b) = {<<n, b, status>>}
  BY <1>1, <1>2, <1>3, <1>5, <1>7 DEF AccountOK, Passed
<1>11. (\A n, b : Wanted(n, b)' <=> Wanted(n, b)) /\ \A n, b : OutcomesOf(n, b)' = OutcomesOf(n, b)
  BY <1>1, WantedStays DEF inboxVars, OutcomesOf
<1>12. CASE job.channels = Tail(jobs[j].channels) /\ job.left = {} /\ job.used = jobs[j].used
  <2>1. \A n, b : Passed(job, n, b) <=> b \notin T
    BY <1>7, <1>12 DEF Passed
  <2>2. \A n \in job.made, b \in ChannelNames : ~Passed(job, n, b) => OutcomesOf(n, b)' = {}
    BY <1>8, <1>10, <1>11, <2>1
  <2>3. \A n \in job.made, b \in ChannelNames : Passed(job, n, b) /\ b \in job.used /\ Wanted(n, b)' =>
          \E status \in Outcomes : OutcomesOf(n, b)' = {<<n, b, status>>}
    BY <1>8, <1>9, <1>10, <1>11, <1>12, <2>1
  <2>4. job.used \cap Range(job.channels) = {}
    BY <1>7, <1>8, <1>9, <1>12
  <2>5. QED BY <1>5, <1>6, <2>2, <2>3, <2>4 DEF AccountOK
<1>13. CASE /\ job.channels = jobs[j].channels /\ job.left = jobs[j].made
            /\ job.used = jobs[j].used \cup {Head(jobs[j].channels)}
  <2>1. \A n \in job.made : \A b : Passed(job, n, b) <=> b \notin R
    BY <1>3, <1>7, <1>13 DEF Passed
  <2>2. \A n \in job.made, b \in ChannelNames : ~Passed(job, n, b) => OutcomesOf(n, b)' = {}
    BY <1>10, <1>11, <2>1
  <2>3. \A n \in job.made, b \in ChannelNames : Passed(job, n, b) /\ b \in job.used /\ Wanted(n, b)' =>
          \E status \in Outcomes : OutcomesOf(n, b)' = {<<n, b, status>>}
    BY <1>7, <1>8, <1>10, <1>11, <1>13, <2>1
  <2>4. \A b \in job.used \cap Range(job.channels) : b = Head(job.channels) /\ job.left # {}
    BY <1>2, <1>7, <1>9, <1>13
  <2>5. QED BY <1>5, <1>6, <2>2, <2>3, <2>4 DEF AccountOK
<1>14. \A n \in jobs[j].made : Readable(jobs[j], n)
  BY <1>5 DEF Readable
<1>15. QED BY <1>3, <1>12, <1>13, <1>14

\* The channel tries all it takes up, unless it is mail that is not wanted.
WorksWell(j) ==
  \E c \in ChannelNames, nrs \in SUBSET jobs[j].left, status \in Outcomes, got \in BOOLEAN :
    /\ With(j, c) /\ UNCHANGED household
    /\ \/ Skip(j, nrs) /\ \A n \in nrs : ~Wanted(n, c)
       \/ Attempt(j, nrs, nrs, c, status, got)

\* Of what is left for the channel it has sent nothing.
LEMMA NothingSent ==
  ASSUME TInv, Accounting, ~overlap, NEW j \in Jobs, NEW c \in ChannelNames, With(j, c)
  PROVE  /\ jobs[j].left \in SUBSET Nat /\ Turn(j) \in jobs[j].left
         /\ \A n \in jobs[j].left : ~ExistsSent(n, c) /\ Readable(jobs[j], n)
<1>1. jobs[j].at = "dispatch" /\ jobs[j].left # {} /\ Head(jobs[j].channels) = c
  BY DEF With
<1>2. jobs[j] \in DispatchJob /\ Made(jobs[j]) = jobs[j].made
  BY <1>1, Stages DEF TInv, Working
<1>3. jobs[j].left \subseteq jobs[j].made /\ jobs[j].channels # <<>>
  BY <1>1 DEF TInv, Working, JobOK
<1>4. jobs[j].left \in SUBSET Nat /\ Turn(j) \in jobs[j].left
  BY <1>1, <1>2, TurnMeans DEF Turn, DispatchJob
<1>5. AccountOK(jobs[j]) /\ jobs[j].made \subseteq Numbers
  BY <1>2 DEF Accounting
<1>6. c \in Range(jobs[j].channels)
  BY <1>1, <1>2, <1>3, RouteSteps DEF DispatchJob
<1>7. ASSUME NEW n \in jobs[j].left PROVE ~ExistsSent(n, c) /\ Readable(jobs[j], n)
  <2>1. ~Passed(jobs[j], n, c)
    BY <1>6 DEF Passed
  <2>2. OutcomesOf(n, c) = {}
    BY <1>1, <1>3, <1>5, <2>1 DEF AccountOK
  <2>3. <<n, c, "sent">> \notin deliveries
    <3>1. PICK d : d = <<n, c, "sent">>
      OBVIOUS
    <3>2. d[1] = n /\ d[2] = c
      BY <3>1
    <3>3. QED BY <2>2, <3>1, <3>2 DEF OutcomesOf
  <2>4. QED BY <1>3, <1>5, <2>3 DEF ExistsSent, Readable
<1>8. QED BY <1>4, <1>7

LEMMA TryWell ==
  ASSUME TInv, Accounting, ~overlap, NEW j \in Jobs, NEW c \in ChannelNames, UNCHANGED household,
         PassOver(j, c) \/ \E status \in Outcomes, got \in BOOLEAN : Try(j, c, status, got)
  PROVE  WorksWell(j)
<1>1. With(j, c)
  BY DEF PassOver, Try
<1>2. Turn(j) \in jobs[j].left /\ ~ExistsSent(Turn(j), c) /\ Readable(jobs[j], Turn(j))
  BY <1>1, NothingSent
<1>3. PICK status \in Outcomes, got \in BOOLEAN : Attempt(j, {Turn(j)}, {Turn(j)}, c, status, got)
  BY <1>2 DEF PassOver, Try
<1>4. PICK nrs \in SUBSET jobs[j].left : nrs = {Turn(j)}
  BY <1>2
<1>5. Attempt(j, nrs, nrs, c, status, got)
  BY <1>3, <1>4
<1>6. QED BY <1>1, <1>5 DEF WorksWell

LEMMA EachWorksWell ==
  ASSUME TInv, Accounting, ~overlap, NEW j \in Jobs, Mail(j) \/ Post(j) \/ Publish(j)
  PROVE  WorksWell(j)
<1>1. /\ "email" \in ChannelNames /\ "http" \in ChannelNames /\ "mqtt" \in ChannelNames
      /\ "sent" \in Outcomes /\ "failed" \in Outcomes
  BY DEF ChannelNames, Outcomes
<1>2. CASE Mail(j)
  <2>1. With(j, "email") /\ UNCHANGED household
    BY <1>2 DEF Mail
  <2>2. Turn(j) \in jobs[j].left /\ \A n \in jobs[j].left : ~ExistsSent(n, "email")
    BY <1>1, <2>1, NothingSent
  <2>3. PICK mine : mine = Of(Recipient(Turn(j)), jobs[j].left)
    OBVIOUS
  <2>4. /\ mine \in SUBSET jobs[j].left /\ mine # {}
        /\ \A n \in mine : Recipient(n) = Recipient(Turn(j))
    BY <2>2, <2>3 DEF Of
  <2>5. {n \in mine : ~ExistsSent(n, "email")} = mine
    BY <2>2, <2>4
  <2>6. \/ users[Recipient(Turn(j))].status # "mail" /\ Skip(j, mine)
        \/ \E status \in Outcomes, got \in BOOLEAN : Attempt(j, mine, mine, "email", status, got)
    <3>1. PICK pending : pending = {n \in mine : ~ExistsSent(n, "email")}
      OBVIOUS
    <3>2. \/ (pending = {} \/ users[Recipient(Turn(j))].status # "mail") /\ Skip(j, mine)
          \/ Attempt(j, mine, pending, "email", "sent", TRUE)
          \/ \E got \in BOOLEAN : Attempt(j, mine, pending, "email", "failed", got)
      BY <1>2, <2>3, <3>1 DEF Mail
    <3>3. pending = mine /\ pending # {}
      BY <2>4, <2>5, <3>1
    <3>4. QED BY <1>1, <3>2, <3>3
  <2>7. users[Recipient(Turn(j))].status # "mail" => \A n \in mine : ~Wanted(n, "email")
    BY <2>4 DEF Wanted
  <2>8. CASE Skip(j, mine) /\ \A n \in mine : ~Wanted(n, "email")
    BY <1>1, <2>1, <2>4, <2>8 DEF WorksWell
  <2>9. CASE \E status \in Outcomes, got \in BOOLEAN : Attempt(j, mine, mine, "email", status, got)
    BY <1>1, <2>1, <2>4, <2>9 DEF WorksWell
  <2>10. QED BY <2>6, <2>7, <2>8, <2>9
<1>3. CASE Post(j)
  BY <1>1, <1>3, TryWell DEF Post
<1>4. CASE Publish(j)
  BY <1>1, <1>4, TryWell DEF Publish
<1>5. QED BY <1>2, <1>3, <1>4

LEMMA WorksAccounts ==
  ASSUME TInv, Accounting, ~overlap => Alone', NEW j \in Jobs, Mail(j) \/ Post(j) \/ Publish(j)
  PROVE  Accounting'
<1>1. CASE overlap
  <2>1. overlap' = overlap
    BY EachWorks, HouseholdStays DEF Works
  <2>2. QED BY <1>1, <2>1 DEF Accounting
<1>2. CASE ~overlap
  <2>1. PICK c \in ChannelNames, nrs \in SUBSET jobs[j].left, status \in Outcomes, got \in BOOLEAN :
          /\ With(j, c) /\ UNCHANGED household
          /\ \/ Skip(j, nrs) /\ \A n \in nrs : ~Wanted(n, c)
             \/ Attempt(j, nrs, nrs, c, status, got)
    BY <1>2, EachWorksWell DEF WorksWell
  <2>2. /\ jobs[j] \in DispatchJob /\ jobs[j].left # {} /\ jobs[j].channels # <<>>
        /\ Head(jobs[j].channels) = c /\ \E job : Loses(j, nrs, job)
    BY <2>1, WorksMeans
  <2>3. PICK job : Loses(j, nrs, job)
    BY <2>2
  <2>4. /\ Become(j, job) /\ job \in DispatchJob /\ job.made = jobs[j].made /\ job.used = jobs[j].used
        /\ job.left = jobs[j].left \ nrs
        /\ job.channels = IF job.left = {} THEN Tail(jobs[j].channels) ELSE jobs[j].channels
    BY <2>3 DEF Loses
  <2>5. UNCHANGED <<users, inboxVars, overlap>>
    BY <2>1, HouseholdStays DEF subjectVars
  <2>6. /\ jobs[j].at = "dispatch" /\ jobs[j] # Idle /\ job.at = "dispatch" /\ Numbers' = Numbers
        /\ Made(jobs[j]) = jobs[j].made /\ Made(job) = job.made
    BY <2>2, <2>4, <2>5 DEF DispatchJob, Idle, Made, Numbers, inboxVars
  <2>7. jobs[j].left \subseteq jobs[j].made
    BY <2>6 DEF TInv, Working, JobOK
  <2>8. Made(job) \subseteq Numbers' /\ AccountOK(jobs[j])
    BY <1>2, <2>4, <2>6 DEF Accounting
  <2>9. PICK R, T : R = Range(jobs[j].channels) /\ T = Range(Tail(jobs[j].channels))
    OBVIOUS
  <2>10. R = {c} \cup T /\ c \notin T
    BY <2>2, <2>9, RouteSteps DEF DispatchJob
  <2>11. \A n, b : Passed(jobs[j], n, b) <=> b \notin R \/ (b = c /\ n \notin jobs[j].left)
    BY <2>2, <2>9 DEF Passed
  <2>12. \A n, b : Passed(job, n, b) <=> Passed(jobs[j], n, b) \/ (b = c /\ n \in nrs)
    <3>1. CASE job.left = {}
      <4>1. \A n, b : Passed(job, n, b) <=> b \notin T
        BY <2>4, <2>9, <3>1 DEF Passed
      <4>2. nrs = jobs[j].left
        BY <2>4, <3>1
      <4>3. QED BY <2>10, <2>11, <4>1, <4>2
    <3>2. CASE job.left # {}
      <4>1. \A n, b : Passed(job, n, b) <=> b \notin R \/ (b = c /\ n \notin job.left)
        BY <2>2, <2>4, <2>9, <3>2 DEF Passed
      <4>2. QED BY <2>4, <2>11, <4>1
    <3>3. QED BY <3>1, <3>2
  <2>13. \A n, b : Wanted(n, b)' <=> Wanted(n, b)
    BY <2>5, WantedStays DEF inboxVars
  <2>14. \A n, b : ~(b = c /\ n \in nrs) => OutcomesOf(n, b)' = OutcomesOf(n, b)
    <3>1. CASE Skip(j, nrs)
      BY <3>1 DEF Skip, OutcomesOf
    <3>2. CASE Attempt(j, nrs, nrs, c, status, got)
      <4>1. deliveries' = deliveries \cup (nrs \X {c} \X {status})
        BY <3>2 DEF Attempt, Recorded
      <4>2. \A d \in nrs \X {c} \X {status} : d[1] \in nrs /\ d[2] = c
        OBVIOUS
      <4>3. QED BY <4>1, <4>2 DEF OutcomesOf
    <3>3. QED BY <2>1, <3>1, <3>2
  <2>15. \A n \in nrs : Wanted(n, c) => OutcomesOf(n, c)' = {<<n, c, status>>}
    <3>1. SUFFICES ASSUME NEW n \in nrs, Wanted(n, c) PROVE OutcomesOf(n, c)' = {<<n, c, status>>}
      OBVIOUS
    <3>2. deliveries' = deliveries \cup (nrs \X {c} \X {status})
      BY <2>1, <3>1 DEF Attempt, Recorded
    <3>3. OutcomesOf(n, c) = {}
      BY <2>6, <2>7, <2>8, <2>10, <2>11 DEF AccountOK
    <3>4. \A d : d \in nrs \X {c} \X {status} /\ d[1] = n /\ d[2] = c <=> d = <<n, c, status>>
      OBVIOUS
    <3>5. \A d : d \in deliveries' /\ d[1] = n /\ d[2] = c <=> d = <<n, c, status>>
      BY <3>2, <3>3, <3>4 DEF OutcomesOf
    <3>6. QED BY <3>5 DEF OutcomesOf
  <2>16. \A n \in job.made, b \in ChannelNames : ~Passed(job, n, b) => OutcomesOf(n, b)' = {}
    BY <2>4, <2>6, <2>8, <2>12, <2>14 DEF AccountOK
  <2>17. ASSUME NEW n \in job.made, NEW b \in ChannelNames, Passed(job, n, b), b \in job.used, Wanted(n, b)'
         PROVE  \E s \in Outcomes : OutcomesOf(n, b)' = {<<n, b, s>>}
    <3>1. CASE b = c /\ n \in nrs
      BY <2>13, <2>15, <2>17, <3>1
    <3>2. CASE ~(b = c /\ n \in nrs)
      <4>1. Passed(jobs[j], n, b) /\ Wanted(n, b) /\ OutcomesOf(n, b)' = OutcomesOf(n, b)
        BY <2>12, <2>13, <2>14, <2>17, <3>2
      <4>2. \E s \in Outcomes : OutcomesOf(n, b) = {<<n, b, s>>}
        BY <2>4, <2>6, <2>8, <2>17, <4>1 DEF AccountOK
      <4>3. QED BY <4>1, <4>2
    <3>3. QED BY <3>1, <3>2
  <2>18. \A b \in job.used \cap Range(job.channels) : b = Head(job.channels) /\ job.left # {}
    <3>1. \A b \in job.used \cap R : b = c
      BY <2>2, <2>4, <2>6, <2>8, <2>9 DEF AccountOK
    <3>2. QED BY <2>2, <2>4, <2>9, <2>10, <3>1
  <2>19. AccountOK(job)'
    BY <2>16, <2>17, <2>18 DEF AccountOK
  <2>20. QED BY <2>4, <2>5, <2>6, <2>8, <2>19, AccountingAfter
<1>3. QED BY <1>1, <1>2

LEMMA StepAccounts ==
  ASSUME TInv, Accounting, [Next]_vars
  PROVE  Accounting'
<1>1. ~overlap => Alone'
  BY AloneStays DEF Accounting
<1>2. CASE Reminding
  BY <1>1, <1>2, RemindingAccounts
<1>3. ASSUME NEW j \in Jobs, Finish(j) \/ Die(j) PROVE Accounting'
  <2>1. Become(j, Idle) /\ overlap' = overlap
    BY <1>3, DieMeans, HouseholdStays DEF Finish
  <2>2. jobs[j] # Idle
    BY <1>3 DEF Finish, Dispatched, Die, Idle
  <2>3. QED BY <1>1, <2>1, <2>2, EndAccounts
<1>4. CASE \E j \in Jobs : Dispatching(j)
  BY <1>1, <1>3, <1>4, CommitAccounts, EnterAccounts, WorksAccounts DEF Dispatching
<1>5. CASE UNCHANGED vars
  <2>1. UNCHANGED <<jobs, overlap, rows, told, users, deliveries>>
    BY <1>5, HouseholdStays DEF vars, subjectVars, inboxVars
  <2>2. QED BY <2>1 DEF Accounting, Alone, Numbers, AccountOK, OutcomesOf, Wanted, Recipient
<1>6. QED BY <1>2, <1>4, <1>5 DEF Next

LEMMA AccountsAreRecorded ==
  ASSUME TInv, Accounting
  PROVE  OutcomeRecorded
<1>1. SUFFICES ASSUME ~overlap, NEW j \in Jobs, Dispatched(j), NEW n \in jobs[j].made,
                      NEW c \in jobs[j].used, Wanted(n, c)
               PROVE  Cardinality(OutcomesOf(n, c)) = 1
  BY DEF OutcomeRecorded, Wanted, OutcomesOf
<1>2. jobs[j].at = "dispatch" /\ jobs[j].channels = <<>>
  BY <1>1 DEF Dispatched
<1>3. c \in ChannelNames
  BY <1>2, Stages DEF TInv, Working, DispatchJob
<1>4. Passed(jobs[j], n, c)
  <2>1. Range(<<>>) = {}
    BY DEF Range
  <2>2. QED BY <1>2, <2>1 DEF Passed
<1>5. PICK status \in Outcomes : OutcomesOf(n, c) = {<<n, c, status>>}
  BY <1>1, <1>2, <1>3, <1>4 DEF Accounting, AccountOK
<1>6. QED BY <1>5, FS_Singleton

\* Where jobs and requests do not overlap, a job that is through with its
\* dispatch has exactly one outcome for each new row and each channel that was
\* enabled and concerned; and whatever overlaps or dies, what mail and webhook
\* record as sent has arrived.
THEOREM EachAttemptRecordedTruly == Spec => []OutcomesAreTrue
<1>1. Init => TInv /\ Accounting /\ SentWasHeard
  <2>1. SUFFICES ASSUME Init PROVE TInv /\ Accounting /\ SentWasHeard
    OBVIOUS
  <2>2. deliveries = {} /\ \A j \in Jobs : jobs[j] = Idle /\ jobs[j].at = "idle"
    BY <2>1 DEF Init, Idle
  <2>3. QED BY <2>1, <2>2, InitTypes DEF Accounting, Alone, Made, AccountOK, SentWasHeard
<1>2. TInv /\ Accounting /\ SentWasHeard /\ [Next]_vars => (TInv /\ Accounting /\ SentWasHeard)'
  BY StepKeepsTypes, StepAccounts, StepKeepsSent
<1>3. TInv /\ Accounting /\ SentWasHeard => OutcomesAreTrue
  BY AccountsAreRecorded DEF OutcomesAreTrue
<1>4. QED BY <1>1, <1>2, <1>3, PTL DEF Spec

-----------------------------------------------------------------------------
(* A scan leaves nobody out *)

\* What is to be shown of a step of one job, where no others are at work.
LEMMA SettlingAfter ==
  ASSUME TInv, Settling, overlap' = overlap, ~overlap => Alone', NEW j \in Jobs, NEW job,
         Become(j, job), jobs[j] = Idle /\ ~overlap => Quiet,
         ~overlap => (\A k \in DOMAIN rows : Lives(told[rows[k].nr]))' /\ SettleOK(job)'
  PROVE  Settling'
<1>1. SUFFICES ASSUME ~overlap PROVE Settling'
  BY DEF Settling
<1>2. jobs'[j] = job /\ \A i \in Jobs : i # j => jobs'[i] = Idle
  BY <1>1, OthersIdle DEF Settling
<1>3. ASSUME NEW i \in Jobs PROVE SettleOK(jobs[i])'
  <2>1. CASE i = j
    <3>1. SettleOK(job)' /\ jobs'[i] = job
      BY <1>1, <1>2, <2>1
    <3>2. QED BY <3>1 DEF SettleOK, Asked, DueDates, DueTasks
  <2>2. CASE i # j
    <3>1. jobs'[i].at = "idle"
      BY <1>2, <2>2 DEF Idle
    <3>2. QED BY <3>1 DEF SettleOK
  <2>3. QED BY <2>1, <2>2
<1>4. QED BY <1>1, <1>3 DEF Settling

\* What the scan asks for depends on lots and schedules, not on who reads them.
LEMMA AskedStays ==
  ASSUME UNCHANGED <<lots, tasks>>, NEW job, NEW old, job.day = old.day, job.users = old.users
  PROVE  \A pass : Asked(job, pass)' = Asked(old, pass)
BY DEF Asked, DueDates, DueTasks

LEMMA RequestSettles ==
  ASSUME TInv, Settling, RequestEffect, ~overlap => Alone'
  PROVE  Settling'
<1>1. SUFFICES ASSUME ~overlap PROVE Settling'
  BY DEF Settling, RequestEffect
<1>2. \A j \in Jobs : jobs'[j].at = "idle"
  BY <1>1 DEF RequestEffect, Quiet, Idle
<1>3. PICK gone \in SUBSET Alive :
        /\ DOMAIN rows' = {k \in DOMAIN rows : SubjectOf(k) \notin gone}
        /\ \A s \in Alive : s \notin gone => s \in Alive' /\ NoOf(s)' = NoOf(s)
  BY DEF RequestEffect, SubjectsMove
<1>4. ASSUME NEW k \in DOMAIN rows' PROVE Lives(told[rows[k].nr])'
  <2>1. PICK d : d = told[rows[k].nr]
    OBVIOUS
  <2>2. k \in DOMAIN rows /\ d[1] = k /\ SubjectOf(k) \notin gone /\ told'[rows'[k].nr] = d
    BY <1>3, <2>1 DEF RequestEffect, TInv, InboxOK
  <2>3. Lives(d)
    BY <1>1, <2>1, <2>2 DEF Settling
  <2>4. Lives(d)'
    BY <1>3, <2>2, <2>3 DEF Lives
  <2>5. QED BY <2>2, <2>4 DEF Lives
<1>5. QED BY <1>1, <1>2, <1>4 DEF Settling, SettleOK

\* A row of a subject that lives is the one that was asked for.
LEMMA KnownBefore ==
  ASSUME TInv, NEW d \in Key \X Nat, Lives(d), d[1] \in DOMAIN rows, Lives(told[rows[d[1]].nr])
  PROVE  Known(d)
<1>1. PICK e : e = told[rows[d[1]].nr]
  OBVIOUS
<1>2. e \in Key \X Nat /\ e[1] = d[1]
  BY <1>1 DEF TInv, InboxOK
<1>3. Lives(e)
  BY <1>1
<1>4. e[2] = d[2]
  BY <1>2, <1>3 DEF Lives
<1>5. e = d
  BY <1>2, <1>4
<1>6. QED BY <1>1, <1>5 DEF Known

LEMMA PassSettles ==
  ASSUME TInv, Settling, ~overlap => Alone', NEW j \in Jobs, Pass(j)
  PROVE  Settling'
<1>1. /\ jobs[j] \in ScanJob /\ jobs[j].due = {} /\ jobs[j].passes # <<>>
      /\ UNCHANGED <<subjectVars, inboxVars, overlap>>
  BY PassMeans
<1>2. PICK job \in ScanJob :
        /\ Become(j, job) /\ job.day = jobs[j].day /\ job.users = jobs[j].users
        /\ job.passes = Tail(jobs[j].passes) /\ job.due = Asked(jobs[j], Head(jobs[j].passes))
  BY PassMeans
<1>3. jobs[j].at = "scan" /\ job.at = "scan" /\ jobs[j] # Idle
  BY <1>1, <1>2 DEF ScanJob, Idle
<1>4. UNCHANGED <<rows, told, users, lots, tasks>>
  BY <1>1 DEF subjectVars, inboxVars
<1>5. \A d : (Lives(d)' <=> Lives(d)) /\ (Known(d)' <=> Known(d))
  BY <1>4, LivesStays DEF Known
<1>6. \A pass : Asked(job, pass)' = Asked(jobs[j], pass)
  BY <1>2, <1>4, AskedStays
<1>7. SUFFICES ASSUME ~overlap PROVE (\A k \in DOMAIN rows : Lives(told[rows[k].nr]))' /\ SettleOK(job)'
  BY <1>1, <1>2, <1>3, SettlingAfter
<1>8. SettleOK(jobs[j]) /\ \A k \in DOMAIN rows : Lives(told[rows[k].nr])
  BY <1>7 DEF Settling
<1>9. (\A k \in DOMAIN rows : Lives(told[rows[k].nr]))'
  BY <1>4, <1>8 DEF Lives, Alive, NoOf
<1>10. \A d \in job.due : Lives(d)'
  BY <1>1, <1>2, <1>5, AskedLives
<1>11. ASSUME NEW pass \in (Sources \cup {"maintenance"}) \ Range(job.passes), NEW d \in Asked(job, pass)'
       PROVE  d \in job.due \/ Known(d)'
  <2>1. d \in Asked(jobs[j], pass)
    BY <1>6, <1>11
  <2>2. CASE pass = Head(jobs[j].passes)
    BY <1>2, <2>1, <2>2
  <2>3. CASE pass # Head(jobs[j].passes)
    <3>1. pass \notin Range(jobs[j].passes)
      BY <1>1, <1>2, <1>11, <2>3, RoundSteps DEF ScanJob
    <3>2. Known(d)
      BY <1>1, <1>3, <1>8, <1>11, <2>1, <3>1 DEF SettleOK
    <3>3. QED BY <1>5, <3>2
  <2>4. QED BY <2>2, <2>3
<1>12. job.users = users'
  BY <1>2, <1>3, <1>4, <1>8 DEF SettleOK
<1>13. QED BY <1>9, <1>10, <1>11, <1>12 DEF SettleOK

LEMMA MakeSettles ==
  ASSUME TInv, Settling, ~overlap => Alone', NEW j \in Jobs, Make(j)
  PROVE  Settling'
<1>1. jobs[j] \in ScanJob /\ UNCHANGED <<subjectVars, overlap>>
  BY MakeMeans
<1>2. PICK d \in jobs[j].due, job \in ScanJob :
        /\ Become(j, job) /\ job.day = jobs[j].day /\ job.users = jobs[j].users
        /\ job.passes = jobs[j].passes /\ job.due = jobs[j].due \ {d} /\ d \in Key \X Nat
        /\ \/ d[1] \in DOMAIN rows /\ UNCHANGED inboxVars
           \/ Adds(d)
  BY MakeMeans
<1>3. jobs[j].at = "scan" /\ job.at = "scan" /\ jobs[j] # Idle
  BY <1>1, <1>2 DEF ScanJob, Idle
<1>4. UNCHANGED <<users, lots, tasks>>
  BY <1>1 DEF subjectVars
<1>5. \A e : Lives(e)' <=> Lives(e)
  BY <1>4, LivesStays
<1>6. \A pass : Asked(job, pass)' = Asked(jobs[j], pass)
  BY <1>2, <1>4, AskedStays
<1>7. SUFFICES ASSUME ~overlap PROVE (\A k \in DOMAIN rows : Lives(told[rows[k].nr]))' /\ SettleOK(job)'
  BY <1>1, <1>2, <1>3, SettlingAfter
<1>8. SettleOK(jobs[j]) /\ \A k \in DOMAIN rows : Lives(told[rows[k].nr])
  BY <1>7 DEF Settling
<1>9. Lives(d)
  BY <1>3, <1>8 DEF SettleOK
<1>10. /\ Known(d)' /\ \A e : Known(e) => Known(e)'
       /\ (\A k \in DOMAIN rows : Lives(told[rows[k].nr]))'
  <2>1. CASE d[1] \in DOMAIN rows /\ UNCHANGED inboxVars
    <3>1. UNCHANGED <<rows, told>> /\ Known(d)
      BY <1>2, <1>8, <1>9, <2>1, KnownBefore DEF inboxVars
    <3>2. \A e : Known(e)' <=> Known(e)
      BY <3>1 DEF Known
    <3>3. (\A k \in DOMAIN rows : Lives(told[rows[k].nr]))'
      BY <1>4, <1>8, <3>1 DEF Lives, Alive, NoOf
    <3>4. QED BY <3>1, <3>2, <3>3
  <2>2. CASE Adds(d)
    <3>1. /\ d[1] \notin DOMAIN rows /\ DOMAIN rows' = DOMAIN rows \cup {d[1]}
          /\ told'[rows'[d[1]].nr] = d
      BY <2>2 DEF Adds
    <3>2. \A k \in DOMAIN rows : rows'[k] = rows[k] /\ told'[rows'[k].nr] = told[rows[k].nr]
      BY <2>2 DEF Adds, TInv, InboxOK
    <3>3. Known(d)' /\ \A e : Known(e) => Known(e)'
      BY <3>1, <3>2 DEF Known
    <3>4. ASSUME NEW k \in DOMAIN rows' PROVE Lives(told[rows[k].nr])'
      <4>1. PICK e : e = told'[rows'[k].nr]
        OBVIOUS
      <4>2. Lives(e)
        BY <1>8, <1>9, <3>1, <3>2, <4>1
      <4>3. Lives(e)'
        BY <1>5, <4>2
      <4>4. QED BY <4>1, <4>3 DEF Lives
    <3>5. QED BY <3>3, <3>4
  <2>3. QED BY <1>2, <2>1, <2>2
<1>11. \A e \in job.due : Lives(e)'
  BY <1>2, <1>3, <1>5, <1>8 DEF SettleOK
<1>12. ASSUME NEW pass \in (Sources \cup {"maintenance"}) \ Range(job.passes), NEW e \in Asked(job, pass)'
       PROVE  e \in job.due \/ Known(e)'
  <2>1. e \in Asked(jobs[j], pass) /\ pass \in (Sources \cup {"maintenance"}) \ Range(jobs[j].passes)
    BY <1>2, <1>6, <1>12
  <2>2. e \in jobs[j].due \/ Known(e)
    BY <1>3, <1>8, <2>1 DEF SettleOK
  <2>3. QED BY <1>2, <1>10, <2>2
<1>13. job.users = users'
  BY <1>2, <1>3, <1>4, <1>8 DEF SettleOK
<1>14. QED BY <1>10, <1>11, <1>12, <1>13 DEF SettleOK

\* A job that is not, or no longer, at its scan, where rows only go.
LEMMA OtherwiseSettles ==
  ASSUME TInv, Settling, overlap' = overlap, ~overlap => Alone', NEW j \in Jobs, NEW job,
         Become(j, job), jobs[j] # Idle, job.at # "scan", UNCHANGED <<lots, tasks>>,
         \A k \in DOMAIN rows' : k \in DOMAIN rows /\ told'[rows'[k].nr] = told[rows[k].nr]
  PROVE  Settling'
<1>1. SUFFICES ASSUME ~overlap PROVE (\A k \in DOMAIN rows : Lives(told[rows[k].nr]))' /\ SettleOK(job)'
  BY SettlingAfter
<1>2. ASSUME NEW k \in DOMAIN rows' PROVE Lives(told[rows[k].nr])'
  <2>1. PICK e : e = told'[rows'[k].nr]
    OBVIOUS
  <2>2. Lives(e)
    BY <1>1, <2>1 DEF Settling
  <2>3. Lives(e)'
    BY <2>2, LivesStays
  <2>4. QED BY <2>1, <2>3 DEF Lives
<1>3. QED BY <1>2 DEF SettleOK

LEMMA DispatchingSettles ==
  ASSUME TInv, Settling, ~overlap => Alone', NEW j \in Jobs, Dispatching(j)
  PROVE  Settling'
<1>1. \A job \in ScanJob \cup DispatchJob : job # Idle
  BY DEF ScanJob, DispatchJob, Idle
<1>2. \A job \in {Idle} \cup DispatchJob : job.at # "scan"
  BY DEF DispatchJob, Idle
<1>3. ASSUME UNCHANGED household, jobs[j] # Idle, NEW job, Become(j, job), job.at # "scan"
      PROVE  Settling'
  <2>1. UNCHANGED <<lots, tasks, rows, told, overlap>>
    BY <1>3, HouseholdStays DEF subjectVars, inboxVars
  <2>2. QED BY <1>3, <2>1, OtherwiseSettles
<1>4. CASE Commit(j)
  BY <1>1, <1>2, <1>3, <1>4, CommitMeans
<1>5. CASE Enter(j)
  BY <1>1, <1>2, <1>3, <1>5, EnterMeans
<1>6. CASE Mail(j) \/ Post(j) \/ Publish(j)
  <2>1. PICK c \in ChannelNames, nrs \in SUBSET jobs[j].left, pending \in SUBSET jobs[j].left,
             status \in Outcomes, got \in BOOLEAN :
          /\ With(j, c) /\ pending \in SUBSET nrs /\ UNCHANGED household
          /\ Skip(j, nrs) \/ Attempt(j, nrs, pending, c, status, got)
    BY <1>6, EachWorks DEF Works
  <2>2. jobs[j] \in DispatchJob /\ \E job : Loses(j, nrs, job)
    BY <2>1, WorksMeans
  <2>3. PICK job \in DispatchJob : Become(j, job)
    BY <2>2 DEF Loses
  <2>4. QED BY <1>1, <1>2, <1>3, <2>1, <2>2, <2>3
<1>7. CASE Finish(j)
  BY <1>2, <1>3, <1>7 DEF Finish, Dispatched, Idle
<1>8. CASE Die(j)
  <2>1. /\ Become(j, Idle) /\ UNCHANGED <<lots, tasks, overlap>> /\ jobs[j] # Idle
    BY <1>1, <1>8, DieMeans DEF subjectVars
  <2>2. \A k \in DOMAIN rows' : k \in DOMAIN rows /\ told'[rows'[k].nr] = told[rows[k].nr]
    <3>1. CASE UNCHANGED inboxVars
      BY <3>1 DEF inboxVars
    <3>2. CASE jobs[j] \in ScanJob /\ Forget(jobs[j].held)
      <4>1. PICK h \in 0 .. Len(told) :
               /\ \A n \in 1 .. h : told'[n] = told[n]
               /\ DOMAIN rows' = {k \in DOMAIN rows : rows[k].nr <= h}
               /\ \A k \in DOMAIN rows' : rows'[k] = rows[k]
        BY <3>2, ForgetMeans
      <4>2. Len(told) \in Nat /\ \A k \in DOMAIN rows : rows[k].nr \in 1 .. Len(told)
        BY DEF TInv, InboxOK
      <4>3. QED BY <4>1, <4>2
    <3>3. QED BY <1>8, <3>1, <3>2, DieMeans
  <2>3. QED BY <1>2, <2>1, <2>2, OtherwiseSettles
<1>9. QED BY <1>4, <1>5, <1>6, <1>7, <1>8 DEF Dispatching

LEMMA StepSettles ==
  ASSUME TInv, Settling, [Next]_vars
  PROVE  Settling'
<1>1. ~overlap => Alone'
  BY AloneStays DEF Settling
<1>2. CASE Requested
  BY <1>1, <1>2, RequestedEffect, RequestSettles
<1>3. CASE NextDay \/ UNCHANGED vars
  <2>1. UNCHANGED <<users, lots, tasks, rows, told, jobs, overlap>>
    BY <1>3, HouseholdStays DEF NextDay, vars, subjectVars, inboxVars
  <2>2. (\A j \in Jobs : SettleOK(jobs[j])) => (\A j \in Jobs : SettleOK(jobs[j]))'
    BY <2>1 DEF SettleOK, Asked, DueDates, DueTasks, Known, Lives, Alive, NoOf
  <2>3. (\A k \in DOMAIN rows : Lives(told[rows[k].nr])) => (\A k \in DOMAIN rows : Lives(told[rows[k].nr]))'
    BY <2>1 DEF Lives, Alive, NoOf
  <2>4. QED BY <1>1, <2>1, <2>2, <2>3 DEF Settling
<1>4. ASSUME NEW j \in Jobs, Begin(j) PROVE Settling'
  <2>1. PICK job \in ScanJob :
           /\ Become(j, job) /\ (~overlap => Quiet) /\ job.users = users /\ job.due = {}
           /\ Range(job.passes) = {"best_before", "warranty", "low_stock", "maintenance"}
    BY <1>4, BeginMeans
  <2>2. UNCHANGED <<users, lots, tasks, rows, told, overlap>>
    BY <1>4 DEF Begin, subjectVars, inboxVars
  <2>3. (Sources \cup {"maintenance"}) \ Range(job.passes) = {}
    BY <2>1 DEF Sources
  <2>4. SettleOK(job)'
    BY <2>1, <2>2, <2>3 DEF SettleOK
  <2>5. (\A k \in DOMAIN rows : Lives(told[rows[k].nr])) => (\A k \in DOMAIN rows : Lives(told[rows[k].nr]))'
    BY <2>2 DEF Lives, Alive, NoOf
  <2>6. QED BY <1>1, <2>1, <2>2, <2>4, <2>5, SettlingAfter DEF Settling
<1>5. QED BY <1>1, <1>2, <1>3, <1>4, PassSettles, MakeSettles, DispatchingSettles DEF Next, Reminding

\* Who is concerned is told.
LEMMA ConcernedAreTold ==
  ASSUME NEW u \in Users, NEW who, Concerns(u, who)
  PROVE  u \in Told(users, who)
<1>1. users[u].status \in {"inbox", "mail"}
  BY DEF Concerns
<1>2. who \in Active(users) => who = u
  <2>1. who \in Active(users) => who \in Users /\ users[who].status # "inactive"
    BY DEF Active
  <2>2. QED BY <2>1, Constants DEF Concerns
<1>3. u \in RecipientsFor(users, who)
  BY <1>1, <1>2 DEF RecipientsFor, Active
<1>4. QED BY <1>1, <1>3 DEF Told

\* A scan that is through has told all it was asked for.
LEMMA AllKnown ==
  ASSUME TInv, Settling, ~overlap, NEW j \in Jobs, Scanned(j), NEW pass \in Sources \cup {"maintenance"},
         NEW d \in Asked(jobs[j], pass)
  PROVE  Known(d)
<1>1. jobs[j].at = "scan" /\ jobs[j].due = {} /\ Range(jobs[j].passes) = {}
  BY DEF Scanned, Range
<1>2. QED BY <1>1 DEF Settling, SettleOK

LEMMA SettledLeavesNobodyOut ==
  ASSUME TInv, Settling
  PROVE  ScanSettles
<1>1. SUFFICES ASSUME ~overlap, NEW j \in Jobs, Scanned(j)
      PROVE  /\ \A i \in DOMAIN lots, source \in Sources, u \in Users :
                 (/\ lots[i].live /\ lots[i].date[source] # Null /\ Concerns(u, lots[i].who)
                  /\ jobs[j].day + ResolveLead(source, lots[i], users[u]) >= lots[i].date[source])
                   => Reminded(u, source, i, lots[i].date[source], lots[i].no)
             /\ \A s \in DOMAIN tasks, u \in Users :
                  (/\ tasks[s].active /\ Concerns(u, lots[tasks[s].lot].who)
                   /\ jobs[j].day + TaskLead(tasks[s]) >= tasks[s].due)
                    => Reminded(u, "maintenance", s, tasks[s].due, tasks[s].no)
  BY DEF ScanSettles, TaskLead
<1>2. jobs[j].at = "scan"
  BY <1>1 DEF Scanned
<1>3. jobs[j] \in ScanJob /\ jobs[j].day \in Nat
  BY <1>2, Stages DEF TInv, Working, ScanJob
<1>4. jobs[j].users = users
  BY <1>1, <1>2 DEF Settling, SettleOK
<1>5. GlobalLead \in [Sources \cup {"maintenance"} -> Nat] /\ users \in [Users -> User]
  BY ReminderConstants DEF TInv, SubjectsOK
<1>6. ASSUME NEW i \in DOMAIN lots, NEW source \in Sources, NEW u \in Users,
             lots[i].live, lots[i].date[source] # Null, Concerns(u, lots[i].who),
             jobs[j].day + ResolveLead(source, lots[i], users[u]) >= lots[i].date[source]
      PROVE  Reminded(u, source, i, lots[i].date[source], lots[i].no)
  <2>1. lots[i].lead \in Leads \cup {Null} /\ lots[i].date[source] \in Nat
    <3>1. lots[i] \in Lot
      BY DEF TInv, SubjectsOK
    <3>2. QED BY <1>6, <3>1, Constants DEF Lot
  <2>2. users[u].lead[source] \in Leads \cup {Null}
    BY <1>5 DEF User
  <2>3. ResolveLead(source, lots[i], users[u]) \in Nat
    BY <1>5, <2>1, <2>2, Constants DEF ResolveLead
  <2>4. jobs[j].day >= lots[i].date[source] - ResolveLead(source, lots[i], users[u])
    BY <1>3, <1>6, <2>1, <2>3
  <2>5. PICK d : d = <<<<source, u, i, lots[i].date[source]>>, lots[i].no>>
    OBVIOUS
  <2>6. u \in Told(users, lots[i].who)
    BY <1>6, ConcernedAreTold
  <2>7. d \in DueDates(users, source, jobs[j].day)
    BY <1>6, <2>4, <2>5, <2>6, DueDatesMeans
  <2>8. d \in Asked(jobs[j], source)
    BY <1>4, <2>7 DEF Asked
  <2>9. Known(d)
    BY <1>1, <2>8, AllKnown
  <2>10. QED BY <2>5, <2>9 DEF Known, Reminded
<1>7. ASSUME NEW s \in DOMAIN tasks, NEW u \in Users,
             tasks[s].active, Concerns(u, lots[tasks[s].lot].who),
             jobs[j].day + TaskLead(tasks[s]) >= tasks[s].due
      PROVE  Reminded(u, "maintenance", s, tasks[s].due, tasks[s].no)
  <2>1. tasks[s].lead \in Leads \cup {Null} /\ tasks[s].due \in Nat
    BY DEF TInv, SubjectsOK, Task
  <2>2. TaskLead(tasks[s]) \in Nat
    BY <1>5, <2>1, Constants DEF TaskLead
  <2>3. jobs[j].day >= tasks[s].due - TaskLead(tasks[s])
    BY <1>3, <1>7, <2>1, <2>2
  <2>4. PICK d : d = <<<<"maintenance", u, s, tasks[s].due>>, tasks[s].no>>
    OBVIOUS
  <2>5. u \in Told(users, lots[tasks[s].lot].who)
    BY <1>7, ConcernedAreTold
  <2>6. d \in DueTasks(users, jobs[j].day)
    BY <1>7, <2>3, <2>4, <2>5, DueTasksMeans
  <2>7. d \in Asked(jobs[j], "maintenance")
    BY <1>4, <2>6 DEF Asked, Sources
  <2>8. Known(d)
    BY <1>1, <2>7, AllKnown
  <2>9. QED BY <2>4, <2>8 DEF Known, Reminded
<1>8. QED BY <1>6, <1>7

\* Where jobs and requests do not overlap, and whatever died before: when a scan
\* is through, whoever a date that is near concerns has a row for it, and not one
\* of an earlier lot or schedule that had the same id.
THEOREM NobodyLeftOut == Spec => []ScanSettles
<1>1. Init => TInv /\ Settling
  <2>1. SUFFICES ASSUME Init PROVE TInv /\ Settling
    OBVIOUS
  <2>2. rows = <<>> /\ \A j \in Jobs : jobs[j] = Idle /\ jobs[j].at = "idle"
    BY <2>1 DEF Init, Idle
  <2>3. QED BY <2>1, <2>2, InitTypes DEF Settling, Alone, SettleOK
<1>2. TInv /\ Settling /\ [Next]_vars => (TInv /\ Settling)'
  BY StepKeepsTypes, StepSettles
<1>3. TInv /\ Settling => ScanSettles
  BY SettledLeavesNobodyOut
<1>4. QED BY <1>1, <1>2, <1>3, PTL DEF Spec
=============================================================================

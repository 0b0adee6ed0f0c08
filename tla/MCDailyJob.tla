------------------------------ MODULE MCDailyJob ------------------------------
(***************************************************************************)
(* End of January of a leap year; users and jobs are alike.                *)
(***************************************************************************)
EXTENDS DailyJob, TLC

Jan(day) == Ordinal([year |-> 2024, month |-> 1, day |-> day])

Day1 == Jan(30)
Day2 == Jan(31)
Entered == {Jan(31)}
NextWeek == {Day1 + 7}
Monthly == {<<"month", 1>>}
Weekly == {<<"week", 1>>}
Defaults == [best_before |-> 0, warranty |-> 0, maintenance |-> 7]

Alike == Permutations(Users) \cup Permutations(Jobs)

\* More requests where no channel and no overlap add to the behaviours.
Mixed ==
  {[channels |-> {}, overlap |-> FALSE, requests |-> 3],
   [channels |-> {"email", "http", "mqtt"}, overlap |-> FALSE, requests |-> 0]} \cup
  [channels : {{}, {"email"}, {"http"}, {"mqtt"}}, overlap : {TRUE}, requests : {1}] \cup
  [channels : {{"email"}, {"http"}, {"mqtt"}}, overlap : {FALSE}, requests : {1}]

OnlyMqtt == {[channels |-> {"mqtt"}, overlap |-> FALSE, requests |-> 0]}
OnlyInbox == {[channels |-> {}, overlap |-> FALSE, requests |-> 1]}

\* Few notifications, one where jobs overlap.
Bounded == Len(told) <= IF overlap THEN 1 ELSE 2
=============================================================================

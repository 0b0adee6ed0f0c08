------------------------- MODULE MCLowStockEpisodes -------------------------
(***************************************************************************)
(* Two users and one scan at a time over three days; two scans, movements  *)
(* and one user that overlap over two.                                     *)
(***************************************************************************)
EXTENDS LowStockEpisodes

CONSTANT Manual  \* the scan on request, besides the one of the day

Days == [o \in BOOLEAN |-> IF o THEN 1 ELSE 2]
Changes == [o \in BOOLEAN |-> IF o THEN 2 ELSE 4]

Bounded ==
  /\ changes = 0 => \A u \in Users : (users[u] = "on") <=> (u = 1 \/ ~overlap)
  /\ IF overlap
     THEN /\ \A u \in Users \ {1} : users[u] = "off"
          /\ changes + today <= 2
     ELSE scan[Manual] = Idle

OneDay == [o \in BOOLEAN |-> 0]
Three == [o \in BOOLEAN |-> 3]
=============================================================================

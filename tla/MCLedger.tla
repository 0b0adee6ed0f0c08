------------------------------ MODULE MCLedger ------------------------------
(***************************************************************************)
(* Four ledgers in one run: lots that differ in date and quantity, lots    *)
(* that carry serials, places and levels, lots that open in debt, and      *)
(* threads that overlap.                                                   *)
(***************************************************************************)
EXTENDS StockLedger, TLC

Alike == Permutations(Requests)

Openings == {-2, 0, 2, Null}

\* What is in the tables or about to be.
Asked == {inflight[r] : r \in Requests}
Rows ==
  {lots[l] : l \in DOMAIN lots} \cup {w.row : w \in {v \in Asked : v.kind = "create"}}
    \cup UNION {{w.own[l] : l \in DOMAIN w.own} : w \in {v \in Asked : v.kind = "rows"}}

Plain == mode = "exact" /\ \A row \in Rows : <<row.level, row.location, row.serial>> = <<Null, Null, Null>>

Undated == \A row \in Rows : row.bestBefore = Null

\* At most n lots, and requests for these amounts, opening lots with those.
Small(n, amounts, opening) ==
  /\ Cardinality(DOMAIN lots) <= n
  /\ n < MaxLot => LastId(movements) <= 3
  /\ \A w \in Asked : w # Idle =>
       IF w.kind = "create" THEN w.ask.n \in opening ELSE w.ask.n \in amounts

Asks(ops) == {w \in Asked : w # Idle /\ w.ask.op \in ops}

Bounded ==
  \/ /\ ~overlap /\ Plain /\ Small(MaxLot, -3 .. 3, {0, 2})
     /\ \A i \in DOMAIN movements : movements[i].type = "intake" => movements[i].delta # 1
     /\ \A w \in Asked \ Asks({"reverse"}) : w # Idle => w.ask.n # 1
  \/ /\ ~overlap /\ Undated /\ Small(2, -1 .. 1, {1, Null})
     /\ \A row \in Rows : row.quantity \in {0, 1, 2, Null}
     /\ \A w \in Asks({"adjust"}) : w.ask.n = 1
  \/ /\ ~overlap /\ Plain /\ Undated /\ Small(2, -3 .. 3, {-2})
     /\ movements # <<>> => 1 \in DOMAIN movements /\ movements[1].delta = -2
     /\ \A w \in Asks({"adjust"}) : w.ask.n = 0
     /\ \A w \in Asks({"discard", "consume"}) : w.ask.n = 1
  \/ /\ overlap /\ Plain /\ Undated /\ Small(2, -1 .. 1, {1})
     /\ \A row \in Rows : row.quantity \in {Null} \cup -2 .. 2
=============================================================================

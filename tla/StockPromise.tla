---------------------------- MODULE StockPromise ----------------------------
(***************************************************************************)
(* What the stock ledger promises, without a ledger: a plain counter per   *)
(* lot, changed by whole requests one at a time.  A lot may open below     *)
(* zero; whatever but an intake changes it after that leaves it at zero or *)
(* above.  A request first states its wish, then the wish is served on the *)
(* stock as it is at that moment, or dropped.                              *)
(***************************************************************************)
EXTENDS Integers, FiniteSets, Sums

CONSTANTS Requests, Null,
          MaxLot  \* bound: the highest lot id

VARIABLES
  stock,  \* units held per open lot
  wish    \* what each request in flight asks for

NoWish == [op |-> "none", lot |-> 0, n |-> 0]

Init == stock = <<>> /\ wish = [r \in Requests |-> NoWish]

\* A request arrives, or goes away unserved.
Wish(r) ==
  /\ wish[r] = NoWish
  /\ wish' = [wish EXCEPT ![r] = wish'[r]]
  /\ DOMAIN wish'[r] = DOMAIN NoWish
  /\ UNCHANGED stock

Drop(r) == wish' = [wish EXCEPT ![r] = NoWish] /\ UNCHANGED stock

Asks(r, op) == wish[r].op = op /\ wish' = [wish EXCEPT ![r] = NoWish]

Add(l, delta) == l \in DOMAIN stock /\ stock' = [stock EXCEPT ![l] = @ + delta]

\* A change that leaves no debt.
Change(l, delta) == Add(l, delta) /\ stock'[l] >= 0

Intake(r) == Asks(r, "intake") /\ wish[r].n > 0 /\ Add(wish[r].lot, wish[r].n)

Discard(r) == Asks(r, "discard") /\ wish[r].n > 0 /\ Change(wish[r].lot, -wish[r].n)

Reverse(r) == Asks(r, "reverse") /\ Change(wish[r].lot, wish[r].n)

Adjust(r) ==
  LET l == wish[r].lot IN
  Asks(r, "adjust") /\ l \in DOMAIN stock /\ Change(l, wish[r].n - stock[l])

\* All of the n units asked for leave the lots, none of which gives more
\* than it has.
Consume(r) ==
  LET given == [l \in DOMAIN stock |-> stock[l] - stock'[l]] IN
  /\ Asks(r, "consume")
  /\ wish[r].n > 0
  /\ DOMAIN stock' = DOMAIN stock
  /\ \A l \in DOMAIN stock : 
       given[l] >= 0 /\ (given[l] > 0 => stock'[l] >= 0)
  /\ SumTo(given, MaxLot) = wish[r].n

\* A new lot holds what its request says (nothing is counted for a lot
\* whose definition is not tracked by quantity).
Create(r) ==
  /\ Asks(r, "create")
  /\ IF wish[r].n = Null THEN UNCHANGED stock
     ELSE \E l \in (1 .. MaxLot) \ DOMAIN stock :
            stock' = [k \in DOMAIN stock \cup {l} |->
                        IF k = l THEN wish[r].n ELSE stock[k]]

Delete(r) ==
  /\ Asks(r, "delete")
  /\ stock' = [l \in DOMAIN stock \ {wish[r].lot} |-> stock[l]]

Bystander(r) == \E op \in {"move", "patch", "mode"} : Asks(r, op) /\ UNCHANGED stock

Next == \E r \in Requests :
  \/ Wish(r) \/ Drop(r) \/ Intake(r) \/ Discard(r) \/ Reverse(r) \/ Adjust(r)
  \/ Consume(r) \/ Create(r) \/ Delete(r) \/ Bystander(r)

Spec == Init /\ [][Next]_<<stock, wish>>
=============================================================================

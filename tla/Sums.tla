-------------------------------- MODULE Sums --------------------------------
(***************************************************************************)
(* Running totals of partial functions from positive integers to           *)
(* integers.  The SQL of the backend adds up columns                       *)
(* (COALESCE(SUM(..), 0) over the rows of one lot); row ids are positive   *)
(* integers, so a sum over rows is a prefix sum over ids.  A recursive     *)
(* function is used, so that theorems can be stated about it (in           *)
(* StockLedger_proofs).                                                    *)
(***************************************************************************)
EXTENDS Integers

\* What id n contributes to a sum over the rows of f: its value, or nothing
\* when there is no such row.
Contribution(f, n) == IF n \in DOMAIN f THEN f[n] ELSE 0

\* The sum of f over the ids 1 .. n.
SumTo(f, n) ==
  LET total[k \in Nat] ==
        IF k = 0 THEN 0 ELSE total[k - 1] + Contribution(f, k)
  IN  total[n]
=============================================================================

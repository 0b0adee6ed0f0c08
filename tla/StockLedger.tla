----------------------------- MODULE StockLedger -----------------------------
(***************************************************************************)
(* The stock ledger of one item definition: its lots (stock_instances),    *)
(* the append-only movement rows (stock_movements) and the HTTP requests   *)
(* that write them.  Routes are synchronous and run in a thread pool, one  *)
(* database session each, on SQLite: reads run in autocommit until the     *)
(* first INSERT/UPDATE/DELETE of the session begins a transaction, which   *)
(* then holds the only writer lock until it commits.  A request is         *)
(* therefore two steps: Load (everything it reads and every guard it       *)
(* decides before its first write) and Commit (everything it writes,       *)
(* atomically, if the table constraints allow it), or Abandon.             *)
(*                                                                         *)
(* Abstracted: the Numeric(18,6) amounts are integers of the smallest      *)
(* unit, a location is a value of a fixed set, received_at grows with the  *)
(* row id (it is never back-dated by any operation), and the low-stock and *)
(* shopping-list hooks, which write other tables, are modelled apart.      *)
(***************************************************************************)
EXTENDS Integers, FiniteSets, Sequences, Sums

CONSTANTS
  Requests,        \* the requests that may be in flight together
  Schedules,       \* {FALSE}: one request at a time; {TRUE}: threads interleave
  MaxLot,          \* bound: the highest lot id
  MaxMovement,     \* bound: the highest movement id
  MaxQuantity,     \* bound: the most a lot's ledger adds up to, either side of zero
  Modes,           \* the tracking modes the definition may take
  InitialMode,
  Locations,
  Serials,
  Dates,           \* best-before dates, integers
  Levels,          \* stock levels of level-mode lots
  Amounts,         \* quantities a movement request may carry
  InitialAmounts,  \* quantities a create request may carry, Null for none
  Null

ASSUME LedgerConstants ==
  /\ Schedules \subseteq BOOLEAN
  /\ MaxLot \in Nat /\ MaxMovement \in Nat /\ MaxQuantity \in Nat
  /\ Modes \subseteq {"exact", "level", "none"} /\ InitialMode \in Modes
  /\ Dates \subseteq Int /\ Amounts \subseteq Int
  /\ InitialAmounts \subseteq Int \cup {Null}
  /\ Null \notin Int \cup Locations \cup Serials \cup Levels

VARIABLES
  mode,       \* item_definitions.stock_tracking_mode
  lots,       \* the stock_instances rows: id -> row
  movements,  \* the stock_movements rows: id -> entry
  inflight,   \* per request, the unit of work it has prepared
  overlap     \* whether requests may be in flight together, in this behaviour

vars == <<mode, lots, movements, inflight, overlap>>

Maybe(S) == S \cup {Null}

Row == [quantity : Maybe(Int), level : Maybe(Levels), location : Maybe(Locations),
        serial : Maybe(Serials), bestBefore : Maybe(Dates)]

MovementTypes == {"intake", "discard", "adjust", "move", "consume", "correction"}

Entry == [lot : Nat, type : MovementTypes, delta : Int,
          from : Maybe(Locations), to : Maybe(Locations), reverses : Maybe(Nat)]

-----------------------------------------------------------------------------
(* Reading the tables *)

\* SELECT COALESCE(SUM(quantity_delta), 0) ... WHERE instance_id = l
SumDeltas(ms, l) ==
  SumTo([i \in {j \in DOMAIN ms : ms[j].lot = l} |-> ms[i].delta], MaxMovement)

\* A quantity column as the services read it: NULL counts as zero.
OrZero(q) == IF q = Null THEN 0 ELSE q

\* SQLite gives a new row the id one above the highest in the table, so the
\* id of a deleted last row is used again.
LastId(table) ==
  IF DOMAIN table = {} THEN 0
  ELSE CHOOSE i \in DOMAIN table : \A j \in DOMAIN table : j <= i

\* Mutant: SQLite's plain ASC, which sorts NULL dates first.
Before_NullsFirst(rows, a, b) ==
  LET da == rows[a].bestBefore
      db == rows[b].bestBefore
  IN  \/ da = Null /\ db # Null
      \/ da # Null /\ db # Null /\ da < db
      \/ da = db /\ a < b

\* FEFO: dated lots first, nearest date first, then oldest (lowest id).
Before(rows, a, b) ==
  LET da == rows[a].bestBefore
      db == rows[b].bestBefore
  IN  \/ da # Null /\ db = Null
      \/ da # Null /\ db # Null /\ da < db
      \/ da = db /\ a < b

ActiveLots(rows) ==
  {l \in DOMAIN rows : rows[l].quantity # Null /\ rows[l].quantity > 0}

\* The sequence list_active_lots_for_definition returns, as the one sorted
\* enumeration of the active lots.
FefoQueues(rows) ==
  LET active == ActiveLots(rows)
  IN  {q \in [1 .. Cardinality(active) -> active] :
         \A i, j \in DOMAIN q : i < j => Before(rows, q[i], q[j])}

\* The partial unique index on reverses_movement_id.
UniqueReversal(ms) ==
  \A i, j \in DOMAIN ms :
    ms[i].reverses # Null /\ ms[i].reverses = ms[j].reverses => i = j

\* The other table constraints: the foreign keys of stock_movements, the CHECK
\* that a serial-numbered lot holds one unit, and the partial unique index on
\* (definition_id, serial).
Constraints(ls, ms) ==
  /\ UniqueReversal(ms)
  /\ \A i \in DOMAIN ms : ms[i].lot \in DOMAIN ls
  /\ \A i \in DOMAIN ms : ms[i].reverses # Null => ms[i].reverses \in DOMAIN ms
  /\ \A l \in DOMAIN ls :
       ls[l].serial = Null \/ ls[l].quantity = Null \/ ls[l].quantity = 1
  /\ \A k, l \in DOMAIN ls :
       ls[k].serial # Null /\ ls[k].serial = ls[l].serial => k = l

-----------------------------------------------------------------------------
(* Units of work *)

Idle == [kind |-> "idle"]

\* A request may start to read: always, or once the others are done.
CanLoad(r) ==
  /\ inflight[r] = Idle
  /\ ~overlap => \A q \in Requests : inflight[q] = Idle

Prepare(r, work) ==
  /\ inflight' = [inflight EXCEPT ![r] = work]
  /\ UNCHANGED <<mode, lots, movements>>

\* Work on loaded rows: `seen` is what the session loaded, `own` the same
\* objects after the service's assignments, `entries` the movements to append.
RowWork(ask, entries, own) ==
  [kind |-> "rows", ask |-> ask, entries |-> entries,
   seen |-> [l \in DOMAIN own |-> lots[l]], own |-> own]

Movement(l, type, delta, from, to, reverses) ==
  [lot |-> l, type |-> type, delta |-> delta, from |-> from, to |-> to,
   reverses |-> reverses]

OneLot(l, row) == [k \in {l} |-> row]

\* Mutant: off by one.
Covers_OneTooMany(row, n) == OrZero(row.quantity) - n >= -1

\* A lot can lose n units (gain, when n is negative) without going below zero,
\* judged by the quantity that was loaded.
Covers(row, n) == OrZero(row.quantity) - n >= 0

Ask(op, l, n) == [op |-> op, lot |-> l, n |-> n]

(* The services up to their first write: guards and early returns *)

\* POST /instances/{id}/intake
LoadIntake(r) ==
  \E l \in DOMAIN lots, n \in Amounts :
    /\ CanLoad(r)
    /\ mode = "exact"
    /\ n > 0
    /\ Prepare(r, RowWork(Ask("intake", l, n),
         <<Movement(l, "intake", n, Null, lots[l].location, Null)>>,
         OneLot(l, lots[l])))

\* POST /instances/{id}/discard
LoadDiscard(r) ==
  \E l \in DOMAIN lots, n \in Amounts :
    /\ CanLoad(r)
    /\ mode = "exact"
    /\ n > 0
    /\ Covers(lots[l], n)
    /\ Prepare(r, RowWork(Ask("discard", l, n),
         <<Movement(l, "discard", -n, Null, Null, Null)>>,
         OneLot(l, lots[l])))

\* POST /instances/{id}/adjust: the caller counted n units
LoadAdjust(r) ==
  \E l \in DOMAIN lots, n \in Amounts :
    /\ CanLoad(r)
    /\ mode = "exact"
    /\ n >= 0
    /\ Prepare(r, RowWork(Ask("adjust", l, n),
         <<Movement(l, "adjust", n - OrZero(lots[l].quantity), Null, Null, Null)>>,
         OneLot(l, lots[l])))

\* POST /instances/{id}/move
LoadMove(r) ==
  \E l \in DOMAIN lots, place \in Locations :
    /\ CanLoad(r)
    /\ mode = "exact"
    /\ Prepare(r, RowWork(Ask("move", l, 0),
         <<Movement(l, "move", 0, lots[l].location, place, Null)>>,
         OneLot(l, [lots[l] EXCEPT !.location = place])))

\* How much of the request reaches the k-th lot of the queue, when every lot
\* before it gives all it has.
StillWanted(queue, n, k) ==
  n - SumTo([j \in DOMAIN queue |-> lots[queue[j]].quantity], k - 1)

\* Mutant: every lot reached is emptied.
Take_WholeLot(queue, n, k) == lots[queue[k]].quantity

Take(queue, n, k) ==
  IF lots[queue[k]].quantity <= StillWanted(queue, n, k)
  THEN lots[queue[k]].quantity ELSE StillWanted(queue, n, k)

\* POST /definitions/{id}/consume: draw n units from the lots in FEFO order;
\* the loop stops at the first lot that finds nothing left to take.
LoadConsume(r) ==
  \E n \in Amounts, queue \in FefoQueues(lots) :
    LET stop == Cardinality({k \in DOMAIN queue : StillWanted(queue, n, k) > 0})
    IN  /\ CanLoad(r)
        /\ mode = "exact"
        /\ n > 0
        /\ StillWanted(queue, n, Cardinality(DOMAIN queue) + 1) <= 0
        /\ Prepare(r, RowWork(Ask("consume", 0, n),
             [k \in 1 .. stop |->
                Movement(queue[k], "consume", -Take(queue, n, k), Null, Null, Null)],
             [l \in {queue[k] : k \in 1 .. stop} |-> lots[l]]))

\* Mutant: an undo may be undone.
Reversible_UndoOfUndo(i) == \A j \in DOMAIN movements : movements[j].reverses # i

\* Neither an undo itself nor undone already.
Reversible(i) ==
  /\ movements[i].reverses = Null
  /\ \A j \in DOMAIN movements : movements[j].reverses # i

\* POST /movements/{id}/reverse: append the opposite entry.  A reversed move
\* puts the lot back where the move found it.
LoadReverse(r) ==
  \E i \in DOMAIN movements :
    LET m   == movements[i]
        row == lots[m.lot]
        back == m.type = "move"
    IN  /\ CanLoad(r)
        /\ Reversible(i)
        /\ Covers(row, m.delta)
        /\ Prepare(r, RowWork(Ask("reverse", m.lot, -m.delta),
             <<Movement(m.lot, "correction", -m.delta,
                        IF back THEN m.to ELSE Null,
                        IF back THEN m.from ELSE Null, i)>>,
             OneLot(m.lot, IF back THEN [row EXCEPT !.location = m.from] ELSE row)))

\* Mutant: two columns of the PATCH change places.
Patched_Swapped(row, serial, place, bestBefore, level) ==
  [row EXCEPT !.serial = bestBefore, !.location = place,
              !.bestBefore = serial, !.level = level]

Patched(row, serial, place, bestBefore, level) ==
  [row EXCEPT !.serial = serial, !.location = place,
              !.bestBefore = bestBefore, !.level = level]

\* PATCH /instances/{id}: any of the columns it may set, never the quantity
LoadPatch(r) ==
  \E l \in DOMAIN lots, serial \in Maybe(Serials), place \in Maybe(Locations),
     bestBefore \in Maybe(Dates), level \in Maybe(Levels) :
    LET row == lots[l]
        own == Patched(row, serial, place, bestBefore, level)
    IN  /\ CanLoad(r)
        /\ own # row
        /\ level \notin {row.level, Null} => mode = "level"
        /\ mode = "exact" /\ serial \notin {row.serial, Null} =>
             row.quantity = Null \/ row.quantity = 1
        /\ serial \notin {row.serial, Null} =>
             \A k \in DOMAIN lots \ {l} : lots[k].serial # serial
        /\ Prepare(r, RowWork(Ask("patch", l, 0), <<>>, OneLot(l, own)))

\* POST /instances: an exact lot opens with an intake (of one unit when the
\* request names no quantity), the other modes take no quantity.
LoadCreate(r) ==
  \E n \in InitialAmounts, serial \in Maybe(Serials), place \in Maybe(Locations),
     bestBefore \in Maybe(Dates), level \in Maybe(Levels) :
    LET first == IF n = Null THEN 1 ELSE n
    IN  /\ CanLoad(r)
        /\ mode # "exact" => n = Null
        /\ (level # Null) <=> (mode = "level")
        /\ serial # Null => \A k \in DOMAIN lots : lots[k].serial # serial
        /\ mode = "exact" /\ serial # Null => first = 1
        /\ Prepare(r,
             [kind |-> "create", ask |-> Ask("create", 0, IF mode = "exact" THEN first ELSE Null),
              row |-> [quantity |-> Null, level |-> level, location |-> place,
                       serial |-> serial, bestBefore |-> bestBefore]])

\* DELETE /instances/{id}
LoadDelete(r) ==
  \E l \in DOMAIN lots :
    /\ CanLoad(r)
    /\ Prepare(r, [kind |-> "delete", ask |-> Ask("delete", l, 0)])

HasInstances == DOMAIN lots # {}

\* PATCH /definitions/{id} with a new tracking mode: only without lots
LoadMode(r) ==
  \E new \in Modes \ {mode} :
    /\ CanLoad(r)
    /\ ~HasInstances
    /\ Prepare(r, [kind |-> "mode", ask |-> Ask("mode", 0, 0), new |-> new])

-----------------------------------------------------------------------------
(* The writes, in one transaction *)

Finished(r) == inflight' = [inflight EXCEPT ![r] = Idle]

\* The ledger is append-only: new rows take the ids after the last one.
Appended(entries) ==
  LET last == LastId(movements)
  IN  [i \in DOMAIN movements \cup {last + k : k \in DOMAIN entries} |->
         IF i <= last THEN movements[i] ELSE entries[i - last]]

\* The flush of the ORM: a column is written only if it differs from the
\* value that was loaded; the others keep what the table has by now.
Flushed(seen, own, now) ==
  [c \in DOMAIN now |-> IF own[c] = seen[c] THEN now[c] ELSE own[c]]

\* Mutant: an undo does not recompute its lot.
Recomputed_NotOnUndo(w, l, ms) ==
  IF \E k \in DOMAIN w.entries : w.entries[k].lot = l /\ w.entries[k].type \notin {"move", "correction"}
  THEN [w.own[l] EXCEPT !.quantity = SumDeltas(ms, l)]
  ELSE w.own[l]

\* Mutant: quantity += delta on the loaded value.
Recomputed_AddsDelta(w, l, ms) ==
  IF \E k \in DOMAIN w.entries : w.entries[k].lot = l /\ w.entries[k].type # "move"
  THEN [w.own[l] EXCEPT !.quantity = OrZero(@) + w.entries[1].delta]
  ELSE w.own[l]

\* Every movement but a move is followed by quantity := SUM(quantity_delta).
Recomputed(w, l, ms) ==
  IF \E k \in DOMAIN w.entries : w.entries[k].lot = l /\ w.entries[k].type # "move"
  THEN [w.own[l] EXCEPT !.quantity = SumDeltas(ms, l)]
  ELSE w.own[l]

\* Append the entries, recompute their lots, flush and commit.  An intake
\* ends with the check that a serial-numbered lot holds one unit.
CommitRows(r) ==
  LET w == inflight[r]
      ms == Appended(w.entries)
      touched == DOMAIN w.seen
  IN  /\ w.kind = "rows"
      /\ LastId(movements) + Len(w.entries) <= MaxMovement
      /\ touched \subseteq DOMAIN lots
      /\ \A l \in touched : SumDeltas(ms, l) \in -MaxQuantity .. MaxQuantity
      /\ w.ask.op = "intake" =>
           \A l \in touched : w.own[l].serial = Null \/ SumDeltas(ms, l) = 1
      /\ movements' = ms
      /\ lots' = [l \in DOMAIN lots |->
                    IF l \in touched
                    THEN Flushed(w.seen[l], Recomputed(w, l, ms), lots[l])
                    ELSE lots[l]]
      /\ Constraints(lots', movements')
      /\ Finished(r)
      /\ UNCHANGED mode

\* Insert the lot and, for an exact one, its first intake.
CommitCreate(r) ==
  LET w == inflight[r]
      l == LastId(lots) + 1
      first == <<Movement(l, "intake", w.ask.n, Null, w.row.location, Null)>>
      ms == IF w.ask.n = Null THEN movements ELSE Appended(first)
      quantity == IF w.ask.n = Null THEN Null ELSE SumDeltas(ms, l)
  IN  /\ w.kind = "create"
      /\ l <= MaxLot
      /\ w.ask.n # Null => LastId(movements) + 1 <= MaxMovement
      /\ movements' = ms
      /\ lots' = [k \in DOMAIN lots \cup {l} |->
                    IF k = l THEN [w.row EXCEPT !.quantity = quantity] ELSE lots[k]]
      /\ Constraints(lots', movements')
      /\ Finished(r)
      /\ UNCHANGED mode

\* Delete the lot; its movements go with it (ON DELETE CASCADE), and an
\* entry that reversed one of them forgets which (ON DELETE SET NULL).
\* Deleting a row that is already gone does nothing.
CommitDelete(r) ==
  LET w == inflight[r]
      kept == {i \in DOMAIN movements : movements[i].lot # w.ask.lot}
  IN  /\ w.kind = "delete"
      /\ lots' = [k \in DOMAIN lots \ {w.ask.lot} |-> lots[k]]
      /\ movements' = [i \in kept |->
                         IF movements[i].reverses \in kept THEN movements[i]
                         ELSE [movements[i] EXCEPT !.reverses = Null]]
      /\ Finished(r)
      /\ UNCHANGED mode

CommitMode(r) ==
  /\ inflight[r].kind = "mode"
  /\ mode' = inflight[r].new
  /\ Finished(r)
  /\ UNCHANGED <<lots, movements>>

\* A violated constraint, a lock timeout, an exception or a crash: rolled back.
Abandon(r) ==
  /\ inflight[r] # Idle
  /\ Finished(r)
  /\ UNCHANGED <<mode, lots, movements>>

-----------------------------------------------------------------------------
Init ==
  /\ mode = InitialMode
  /\ lots = <<>>
  /\ movements = <<>>
  /\ inflight = [r \in Requests |-> Idle]
  /\ overlap \in Schedules

Load(r) ==
  \/ LoadIntake(r) \/ LoadDiscard(r) \/ LoadAdjust(r) \/ LoadMove(r)
  \/ LoadConsume(r) \/ LoadReverse(r) \/ LoadPatch(r) \/ LoadCreate(r)
  \/ LoadDelete(r) \/ LoadMode(r)

Commit(r) == CommitRows(r) \/ CommitCreate(r) \/ CommitDelete(r) \/ CommitMode(r)

Next ==
  /\ \E r \in Requests : Load(r) \/ Commit(r) \/ Abandon(r)
  /\ UNCHANGED overlap

Spec == Init /\ [][Next]_vars

-----------------------------------------------------------------------------
(* Invariants *)

\* The tables and the prepared work have their columns' types.
TypeOK ==
  /\ mode \in Modes /\ overlap \in BOOLEAN
  /\ \A l \in DOMAIN lots : l \in 1 .. MaxLot /\ lots[l] \in Row
  /\ \A i \in DOMAIN movements : i \in 1 .. MaxMovement /\ movements[i] \in Entry
  /\ \A r \in Requests :
       inflight[r] = Idle \/ inflight[r].kind \in {"rows", "create", "delete", "mode"}

\* The red line of the ledger, as the tests state it: after any sequence of
\* operations the cached quantity of a lot is the sum of its movement deltas.
LedgerIsTruth ==
  \A l \in DOMAIN lots :
    lots[l].quantity # Null => lots[l].quantity = SumDeltas(movements, l)

\* The red line holds as long as requests do not overlap.
CacheMatchesLedger == ~overlap => LedgerIsTruth

\* Unless requests overlap, no operation takes a lot below zero: create() takes
\* any quantity (it does not look at the sign), so a lot may open in debt, and one
\* that is below zero, in the cache or in the ledger, opened there and has seen
\* nothing but intakes and moves since.
NeverNegative ==
  ~overlap =>
    \A l \in DOMAIN lots :
      LET own == {i \in DOMAIN movements : movements[i].lot = l}
      IN  OrZero(lots[l].quantity) < 0 \/ SumDeltas(movements, l) < 0 =>
            /\ \A i \in own : movements[i].type \in {"intake", "move"}
            /\ \E i \in own : movements[i].type = "intake" /\ movements[i].delta < 0

\* What the services accept the tables accept: without interleaving, work
\* that passed its guards never trips a constraint when it is written.
AcceptedWorkCommits ==
  \A r \in Requests :
    LET w == inflight[r]
    IN  /\ ~overlap
        /\ w # Idle /\ w.ask.op \in {"discard", "adjust", "consume", "reverse"}
        /\ LastId(movements) + Len(w.entries) <= MaxMovement
        /\ \A l \in DOMAIN w.seen :
             SumDeltas(Appended(w.entries), l) \in -MaxQuantity .. MaxQuantity
        => ENABLED CommitRows(r)

\* A movement is undone at most once, whatever interleaves.
UndoneAtMostOnce ==
  \A i, j \in DOMAIN movements :
    movements[i].reverses # Null /\ movements[i].reverses = movements[j].reverses
      => i = j

\* Unless requests overlap an undo is exact: it is on the same lot with the
\* opposite delta, and what it undoes is not itself an undo.  (Where they overlap
\* the entry may be gone and its id in use again by the time of the commit.)
UndoIsExact ==
  ~overlap =>
    \A i \in DOMAIN movements :
      LET target == movements[i].reverses
      IN  target # Null =>
            /\ movements[target].lot = movements[i].lot
            /\ movements[target].delta = -movements[i].delta
            /\ movements[target].reverses = Null

ReversalsUndo == UndoneAtMostOnce /\ UndoIsExact

-----------------------------------------------------------------------------
(* Properties of steps *)

ExpiresFirst(x, y) == x # Null /\ (y # Null => x < y)

\* A consume draws nearest-expiry first: when it takes from a lot, every lot
\* that expires before it is left empty, unless other requests came in between.
DrawnInFefoOrder ==
  [][~overlap => \A i \in DOMAIN movements' \ DOMAIN movements :
       movements'[i].type = "consume" =>
         \A a \in DOMAIN lots :
           ExpiresFirst(lots[a].bestBefore, lots[movements'[i].lot].bestBefore) =>
             lots'[a].quantity <= 0]_vars

\* Whatever interleaves, a cached quantity only ever moves to what the ledger
\* adds up to at that moment: no request writes a total it computed earlier.
CacheMovesToSum ==
  [][\A l \in DOMAIN lots \cap DOMAIN lots' :
       lots'[l].quantity # lots[l].quantity =>
         lots'[l].quantity = SumDeltas(movements', l)]_vars

\* Recomputing a cache from the ledger amounts to a plain counter per lot that
\* serves whole requests one at a time and takes nothing that is not there.
\* Nothing is promised (nothing held, nothing wished) where requests overlap.
Promise == INSTANCE StockPromise WITH
  stock <- [l \in {k \in DOMAIN lots : ~overlap /\ lots[k].quantity # Null} |-> lots[l].quantity],
  wish  <- [r \in Requests |->
              IF overlap \/ inflight[r] = Idle THEN [op |-> "none", lot |-> 0, n |-> 0]
              ELSE inflight[r].ask]

KeepsPromise == Promise!Spec
=============================================================================

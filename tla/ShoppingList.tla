---------------------------- MODULE ShoppingList ----------------------------
(***************************************************************************)
(* The shared shopping list: manual rows, and one auto row per definition   *)
(* that reconcile_auto_items opens while the definition is below its        *)
(* min_stock.  It is reconciled from three places:                          *)
(*                                                                          *)
(*  - the event hook of a movement, in the movement's own transaction;      *)
(*  - the daily scan and POST /reminders/run, in a savepoint.  SQLite keeps *)
(*    the read lock for the whole savepoint, so this is one step too;       *)
(*  - POST /shopping-list/refresh, query by query.  The row it creates is   *)
(*    committed when create()'s own savepoint is released.  Its first       *)
(*    UPDATE or DELETE takes the writer lock and keeps it to the end of     *)
(*    the request, so what follows it is one step.                          *)
(*                                                                          *)
(* The other requests load a row and write it back later.                   *)
(*                                                                          *)
(* Abstracted: quantities are counted in units; a definition is low when    *)
(* its stock is below MinStock (LowStockService.compute); texts and times   *)
(* are left out.                                                            *)
(***************************************************************************)
EXTENDS Integers, FiniteSets, FiniteSetsExt

CONSTANTS
  Definitions,  \* definition ids, integers: the engine takes them in order
  Requests,     \* the requests that may be in progress at once
  Schedules,    \* of overlap: FALSE for requests one by one, TRUE for any order
  MinStock,     \* item_definitions.min_stock
  MaxStock,     \* bound on the stock of a definition
  MaxChanges,   \* bound on what users do, and so on row ids
  Null

ASSUME ShoppingConstants ==
  /\ Definitions \subseteq Nat /\ IsFiniteSet(Definitions) /\ Null \notin Nat
  /\ Schedules \subseteq BOOLEAN
  /\ MinStock \in Nat /\ MaxStock \in Nat /\ MaxChanges \in Nat

VARIABLES
  stock,     \* per definition, its total quantity; Null when it does not exist
  autoAdd,   \* settings: shopping_list.auto_add_low_stock
  rows,      \* shopping_list_items: id -> row
  inflight,  \* per request, where it is
  changes,   \* how much of the bound is used
  overlap    \* whether requests overlap; chosen at the start

vars == <<overlap, stock, autoAdd, rows, inflight, changes>>

Row == [source : {"auto", "manual"}, definition : Definitions \cup {Null}, bought : BOOLEAN]

\* A request: its stage, the row and definition it is at, and for a refresh the
\* low set it computed and the definitions of it that are still to be seen.
Idle == [stage |-> "idle", row |-> 0, definition |-> Null, low |-> {}, todo |-> {}, prune |-> {}]

-----------------------------------------------------------------------------
(* Queries *)

Existing == {d \in Definitions : stock[d] # Null}

\* LowStockService.compute: strictly below the threshold.
Low == {d \in Existing : stock[d] < MinStock}

\* get_auto_item: the auto rows of d, checked or not.
AutoRows(table, d) ==
  {i \in DOMAIN table : table[i].source = "auto" /\ table[i].definition = d}

\* Mutant: checked rows are pruned as well.
Recovered_CheckedToo(table, low) ==
  {i \in DOMAIN table : table[i].source = "auto" /\ table[i].definition \notin low}

\* Mutant: the prune phase is left out.
Recovered_Never(table, low) == {}

\* list_open_auto_items, without those that are still low.
Recovered(table, low) ==
  {i \in DOMAIN table : table[i].source = "auto" /\ ~table[i].bought
                        /\ table[i].definition \notin low}

NextId(table) == IF DOMAIN table = {} THEN 1 ELSE Max(DOMAIN table) + 1

\* Mutant: uq_shopping_list_one_auto_per_def is missing.
UniqueAuto_Missing(table, d) == TRUE

\* The partial unique index: no second auto row for d.
UniqueAuto(table, d) == AutoRows(table, d) = {}

(* reconcile_auto_items *)

NewAuto(d) == [source |-> "auto", definition |-> d, bought |-> FALSE]

Inserted(table, row) ==
  [i \in DOMAIN table \cup {NextId(table)} |-> IF i \in DOMAIN table THEN table[i] ELSE row]

Without(table, ids) == [i \in DOMAIN table \ ids |-> table[i]]

\* Mutant: a checked row counts as a suggestion that is already there.
Reopened_Never(table, ds) == table

\* Auto rows of low definitions are open again.
Reopened(table, ds) ==
  [i \in DOMAIN table |->
     IF table[i].source = "auto" /\ table[i].definition \in ds
     THEN [table[i] EXCEPT !.bought = FALSE] ELSE table[i]]

\* One open auto row for each of ds, new rows in the order of definition ids.
Ensured(table, ds) ==
  LET missing == {d \in ds : AutoRows(table, d) = {}}
      at(d)   == NextId(table) + Cardinality({e \in missing : e < d})
      old     == Reopened(table, ds)
  IN  [i \in DOMAIN table \cup {at(d) : d \in missing} |->
         IF i \in DOMAIN table THEN old[i] ELSE NewAuto(CHOOSE d \in missing : at(d) = i)]

\* The rest of a reconcile that runs under the writer lock.
Reconciled(table, ds, low) ==
  LET opened == Ensured(table, ds)
  IN  Without(opened, Recovered(opened, low))

-----------------------------------------------------------------------------
(* Users and settings *)

Quiet == \A r \in Requests : inflight[r] = Idle

Change ==
  /\ changes < MaxChanges
  /\ changes' = changes + 1
  /\ ~overlap => Quiet

\* A discard, consume or adjust, with the hook in its transaction.  A hook that
\* fails is rolled back alone.
Movement(d) ==
  /\ Change
  /\ stock[d] # Null
  /\ \E n \in 0 .. MaxStock \ {stock[d]} : stock' = [stock EXCEPT ![d] = n]
  /\ \/ autoAdd /\ rows' = Reconciled(rows, Low', Low')
     \/ rows' = rows
  /\ UNCHANGED <<overlap, autoAdd, inflight>>

\* An intake, an undo, an edited or a new lot has no hook.
SilentChange(d) ==
  /\ Change
  /\ stock[d] # Null
  /\ \E n \in 0 .. MaxStock \ {stock[d]} : stock' = [stock EXCEPT ![d] = n]
  /\ UNCHANGED <<overlap, autoAdd, rows, inflight>>

\* A definition without lots is deleted; its rows go with it (ON DELETE CASCADE).
DeleteDefinition(d) ==
  /\ Change
  /\ stock[d] = 0
  /\ stock' = [stock EXCEPT ![d] = Null]
  /\ rows' = Without(rows, {i \in DOMAIN rows : rows[i].definition = d})
  /\ UNCHANGED <<overlap, autoAdd, inflight>>

CreateDefinition(d) ==
  /\ Change
  /\ stock[d] = Null
  /\ stock' = [stock EXCEPT ![d] = 0]
  /\ UNCHANGED <<overlap, autoAdd, rows, inflight>>

SetAutoAdd ==
  /\ Change
  /\ autoAdd' = ~autoAdd
  /\ UNCHANGED <<overlap, stock, rows, inflight>>

\* POST /shopping-list: free text, or an existing definition.
AddManual ==
  /\ Change
  /\ \E d \in Existing \cup {Null} :
       rows' = Inserted(rows, [source |-> "manual", definition |-> d, bought |-> FALSE])
  /\ UNCHANGED <<overlap, stock, autoAdd, inflight>>

\* POST /shopping-list/clear-purchased
ClearPurchased ==
  /\ Change
  /\ rows' = Without(rows, {i \in DOMAIN rows : rows[i].bought})
  /\ UNCHANGED <<overlap, stock, autoAdd, inflight>>

-----------------------------------------------------------------------------
(* Requests on one row: load, then write *)

Begin(r) == inflight[r] = Idle /\ (~overlap => Quiet)

Become(r, state) == inflight' = [inflight EXCEPT ![r] = state]

\* POST /{id}/check, with an intake when the row names a definition.  Whether
\* the row is checked already is not asked.
LoadCheck(r) ==
  /\ Begin(r) /\ Change
  /\ \E i \in DOMAIN rows, d \in Definitions \cup {Null} :
       /\ d \in {rows[i].definition, Null}
       /\ Become(r, [Idle EXCEPT !.stage = "check", !.row = i, !.definition = d])
  /\ UNCHANGED <<overlap, stock, autoAdd, rows>>

\* The lot and its intake, unless its definition is gone, then the stamp, in one
\* transaction.
CommitCheck(r) ==
  LET i == inflight[r].row
      d == inflight[r].definition
  IN  /\ inflight[r].stage = "check"
      /\ i \in DOMAIN rows
      /\ \/ d \in Existing /\ stock[d] < MaxStock /\ stock' = [stock EXCEPT ![d] = @ + 1]
         \/ d \notin Existing /\ stock' = stock
      /\ rows' = [rows EXCEPT ![i].bought = TRUE]
      /\ Become(r, Idle)
      /\ UNCHANGED <<overlap, autoAdd, changes>>

\* POST /{id}/uncheck.  A row that was loaded open is not written at all.
LoadUncheck(r) ==
  /\ Begin(r) /\ Change
  /\ \E i \in DOMAIN rows :
       rows[i].bought /\ Become(r, [Idle EXCEPT !.stage = "uncheck", !.row = i])
  /\ UNCHANGED <<overlap, stock, autoAdd, rows>>

CommitUncheck(r) ==
  LET i == inflight[r].row
  IN  /\ inflight[r].stage = "uncheck"
      /\ i \in DOMAIN rows
      /\ rows' = [rows EXCEPT ![i].bought = FALSE]
      /\ Become(r, Idle)
      /\ UNCHANGED <<overlap, stock, autoAdd, changes>>

\* DELETE /shopping-list/{id}.  Deleting what is gone is not an error.
LoadRemove(r) ==
  /\ Begin(r) /\ Change
  /\ \E i \in DOMAIN rows : Become(r, [Idle EXCEPT !.stage = "remove", !.row = i])
  /\ UNCHANGED <<overlap, stock, autoAdd, rows>>

CommitRemove(r) ==
  /\ inflight[r].stage = "remove"
  /\ rows' = Without(rows, {inflight[r].row})
  /\ Become(r, Idle)
  /\ UNCHANGED <<overlap, stock, autoAdd, changes>>

\* A lock timeout, an update of a row that is gone, an error or a crash.
Fail(r) ==
  /\ inflight[r] # Idle
  /\ Become(r, Idle)
  /\ UNCHANGED <<overlap, stock, autoAdd, rows, changes>>

-----------------------------------------------------------------------------
(* The reconcile of a scan, and POST /shopping-list/refresh *)

\* _run_scan_job and run_reminders
ScanReconcile ==
  /\ ~overlap => Quiet
  /\ autoAdd
  /\ rows' = Reconciled(rows, Low, Low)
  /\ UNCHANGED <<overlap, stock, autoAdd, inflight, changes>>

\* The gate and the low set.
RefreshCompute(r) ==
  /\ Begin(r) /\ Change
  /\ autoAdd
  /\ Become(r, [Idle EXCEPT !.stage = "look", !.low = Low, !.todo = Low])
  /\ UNCHANGED <<overlap, stock, autoAdd, rows>>

\* get_auto_item of the next low definition.
RefreshLook(r) ==
  LET now == inflight[r]
      d   == Min(now.todo)
      own == AutoRows(rows, d)
  IN  /\ now.stage = "look" /\ now.todo # {}
      /\ \/ own = {} /\ Become(r, [now EXCEPT !.stage = "create", !.definition = d])
         \/ \E i \in own :
              \/ ~rows[i].bought /\ Become(r, [now EXCEPT !.todo = @ \ {d}])
              \/ rows[i].bought /\ Become(r, [now EXCEPT !.stage = "reopen", !.row = i])
      /\ UNCHANGED <<overlap, stock, autoAdd, rows, changes>>

\* create(): a row of its own, committed at once.
RefreshCreate(r) ==
  LET now == inflight[r]
      d   == now.definition
  IN  /\ now.stage = "create"
      /\ stock[d] # Null
      /\ UniqueAuto(rows, d)
      /\ rows' = Inserted(rows, NewAuto(d))
      /\ Become(r, [now EXCEPT !.stage = "look", !.definition = Null, !.todo = @ \ {d}])
      /\ UNCHANGED <<overlap, stock, autoAdd, changes>>

\* Every auto row that is still to be created can be: a definition deleted
\* meanwhile breaks the foreign key, and the whole rest is rolled back (Fail).
Creatable(ds) == \A d \in ds : AutoRows(rows, d) = {} => d \in Existing

\* create() meets the row of a concurrent reconcile: the savepoint is rolled
\* back to, which keeps the writer lock, the row is taken as it is, and the
\* rest of the refresh runs under the lock.
RefreshYield(r) ==
  LET now == inflight[r]
      d   == now.definition
  IN  /\ now.stage = "create"
      /\ stock[d] # Null
      /\ ~UniqueAuto(rows, d)
      /\ Creatable(now.todo \ {d})
      /\ rows' = Reconciled(rows, now.todo \ {d}, now.low)
      /\ Become(r, Idle)
      /\ UNCHANGED <<overlap, stock, autoAdd, changes>>

\* The first UPDATE, of a checked row, begins the transaction that the rest of
\* the refresh runs in.
RefreshReopen(r) ==
  LET now == inflight[r]
  IN  /\ now.stage = "reopen"
      /\ now.row \in DOMAIN rows
      /\ Creatable(now.todo \ {Min(now.todo)})
      /\ rows' = Reconciled([rows EXCEPT ![now.row].bought = FALSE],
                            now.todo \ {Min(now.todo)}, now.low)
      /\ Become(r, Idle)
      /\ UNCHANGED <<overlap, stock, autoAdd, changes>>

\* The rows to prune are read ...
RefreshList(r) ==
  LET now == inflight[r]
  IN  /\ now.stage = "look" /\ now.todo = {}
      /\ Become(r, [now EXCEPT !.stage = "prune", !.prune = Recovered(rows, now.low)])
      /\ UNCHANGED <<overlap, stock, autoAdd, rows, changes>>

\* ... and deleted by id.
RefreshPrune(r) ==
  /\ inflight[r].stage = "prune"
  /\ rows' = Without(rows, inflight[r].prune)
  /\ Become(r, Idle)
  /\ UNCHANGED <<overlap, stock, autoAdd, changes>>

-----------------------------------------------------------------------------
Init ==
  /\ stock \in [Definitions -> {Null, 0}]
  /\ autoAdd = TRUE
  /\ rows = <<>>
  /\ inflight = [r \in Requests |-> Idle]
  /\ changes = 0
  /\ overlap \in Schedules

User ==
  \/ \E d \in Definitions :
       Movement(d) \/ SilentChange(d) \/ DeleteDefinition(d) \/ CreateDefinition(d)
  \/ SetAutoAdd \/ AddManual \/ ClearPurchased

Refresh(r) ==
  \/ RefreshCompute(r) \/ RefreshLook(r) \/ RefreshCreate(r) \/ RefreshYield(r)
  \/ RefreshReopen(r) \/ RefreshList(r) \/ RefreshPrune(r)

Request(r) ==
  \/ LoadCheck(r) \/ CommitCheck(r) \/ LoadUncheck(r) \/ CommitUncheck(r)
  \/ LoadRemove(r) \/ CommitRemove(r) \/ Fail(r)

Next == User \/ ScanReconcile \/ \E r \in Requests : Request(r) \/ Refresh(r)

Spec == Init /\ [][Next]_vars

\* The daily scan reconciles again and again, and a request in progress ends;
\* users promise nothing.
FairSpec ==
  /\ Spec
  /\ WF_vars(ScanReconcile)
  /\ \A r \in Requests : WF_vars(inflight[r] # Idle /\ (Request(r) \/ Refresh(r)))

-----------------------------------------------------------------------------
(* Properties *)

OpenAuto(table, d) == {i \in AutoRows(table, d) : ~table[i].bought}

\* A definition has at most one auto row, open or checked, whatever scans,
\* hooks, refreshes, check-offs and unchecks do at the same time.
OneAutoRow ==
  \A i, j \in DOMAIN rows :
    rows[i].source = "auto" /\ rows[j].source = "auto"
      /\ rows[i].definition = rows[j].definition => i = j

\* The tables keep their types and their keys, and every row's definition exists.
TypeOK ==
  /\ stock \in [Definitions -> 0 .. MaxStock \cup {Null}]
  /\ autoAdd \in BOOLEAN
  /\ \A i \in DOMAIN rows :
       /\ i \in Nat \ {0} /\ rows[i] \in Row
       /\ rows[i].definition # Null => stock[rows[i].definition] # Null
  /\ OneAutoRow
  /\ \A r \in Requests : inflight[r].low \subseteq Definitions

RefreshEnds == \E r \in Requests : RefreshYield(r) \/ RefreshReopen(r) \/ RefreshPrune(r)

\* After a reconcile the open auto rows are exactly the low definitions, unless
\* it is a refresh that another request overlapped.
ListFollowsSignal ==
  [][ScanReconcile \/ (RefreshEnds /\ ~overlap) =>
       \A d \in Definitions : d \in Low <=> OpenAuto(rows', d) # {}]_vars

\* A reconcile never takes a manual row or a checked auto row away, again unless
\* it is a refresh that another request overlapped: that one deletes by id what
\* it listed before.
PrunesOnlyOpenAutoRows ==
  [][ScanReconcile \/ (RefreshEnds /\ ~overlap) =>
       \A i \in DOMAIN rows \ DOMAIN rows' : rows[i].source = "auto" /\ ~rows[i].bought]_vars

\* A shortage that lasts is on the list again and again, even if it is checked
\* off without a purchase, removed or cleared.
ShortageListed ==
  \A d \in Definitions :
    <>[](autoAdd /\ d \in Low) => []<>(OpenAuto(rows, d) # {})

\* What has recovered drops off the list.
RecoveredDropsOff ==
  \A d \in Definitions :
    <>[](autoAdd /\ d \notin Low) => []<>(OpenAuto(rows, d) = {})

\* The list catches up with what lasts, both ways.
ListCatchesUp == ShortageListed /\ RecoveredDropsOff
=============================================================================

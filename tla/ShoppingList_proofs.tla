------------------------ MODULE ShoppingList_proofs ------------------------
(***************************************************************************)
(* The keys of the shopping list hold whatever interleaves, and a           *)
(* reconcile that no request overlaps leaves the list as it should be.      *)
(***************************************************************************)
EXTENDS ShoppingList, FiniteSetTheorems, TLAPS

(* The invariants *)

\* A table with finitely many rows that keeps the unique index.
TableOK(table) ==
  /\ \E n \in Nat : DOMAIN table \subseteq 1 .. n
  /\ \A i \in DOMAIN table : table[i] \in Row
  /\ \A i, j \in DOMAIN table :
       table[i].source = "auto" /\ table[j].source = "auto"
         /\ table[i].definition = table[j].definition => i = j

\* Its rows name definitions that exist.
Rooted(table, existing) ==
  \A i \in DOMAIN table : table[i].definition # Null => table[i].definition \in existing

Stages == {"idle", "check", "uncheck", "remove", "look", "create", "reopen", "prune"}

State == [stage : Stages, row : Nat, definition : Definitions \cup {Null},
          low : SUBSET Definitions, todo : SUBSET Definitions, prune : SUBSET Nat]

TInv ==
  /\ stock \in [Definitions -> 0 .. MaxStock \cup {Null}]
  /\ autoAdd \in BOOLEAN /\ overlap \in BOOLEAN
  /\ TableOK(rows) /\ Rooted(rows, Existing)
  /\ inflight \in [Requests -> State]
  /\ \A r \in Requests : inflight[r].stage = "create" => inflight[r].definition \in Definitions

-----------------------------------------------------------------------------
(* The operators *)

\* A non-empty set of naturals has a least element.
LEMMA LeastExists ==
  ASSUME NEW T, T \subseteq Nat, T # {}
  PROVE  \E i \in T : \A j \in T : i <= j
<1>1. PICK x \in T : \A y \in T : <<y, x>> \notin OpToRel(<, Nat)
  BY NatLessThanWellFounded, WFMin
<1>2. \A y \in T : ~(y < x)
  BY <1>1 DEF OpToRel
<1>3. QED
  BY <1>2

\* A bounded one has a greatest element, the least of its bounds.
LEMMA GreatestExists ==
  ASSUME NEW n \in Nat, NEW T, T \subseteq 0 .. n, T # {}
  PROVE  \E i \in T : \A j \in T : j <= i
<1> DEFINE Bounds == {m \in Nat : \A j \in T : j <= m}
<1>1. PICK m \in Bounds : \A k \in Bounds : m <= k
  <2>1. n \in Bounds
    OBVIOUS
  <2> HIDE DEF Bounds
  <2>2. Bounds \subseteq Nat
    BY DEF Bounds
  <2>3. QED BY <2>1, <2>2, LeastExists
<1>2. m \in T
  <2>1. SUFFICES ASSUME m \notin T PROVE FALSE
    OBVIOUS
  <2>2. \A j \in T : j \in Nat /\ j < m
    BY <2>1
  <2>3. \E j \in T : j \in Nat /\ j < m
    BY <2>2
  <2>4. m - 1 \in Nat /\ \A j \in T : j <= m - 1
    BY <2>2, <2>3
  <2>5. QED BY <1>1, <2>4
<1>3. QED BY <1>1, <1>2

LEMMA NextIdFresh ==
  ASSUME NEW table, NEW n \in Nat, DOMAIN table \subseteq 1 .. n
  PROVE  /\ NextId(table) \in 1 .. n + 1
         /\ \A i \in DOMAIN table : i < NextId(table)
<1>1. CASE DOMAIN table = {}
  BY <1>1 DEF NextId
<1>2. CASE DOMAIN table # {}
  <2>1. \E i \in DOMAIN table : \A j \in DOMAIN table : j <= i
    BY <1>2, GreatestExists
  <2>2. \E i \in DOMAIN table : \A j \in DOMAIN table : i >= j
    BY <2>1
  <2>3. Max(DOMAIN table) \in DOMAIN table /\ \A j \in DOMAIN table : Max(DOMAIN table) >= j
    BY <2>2 DEF Max
  <2>4. QED BY <1>2, <2>3 DEF NextId
<1>3. QED BY <1>1, <1>2

LEMMA MinOf ==
  ASSUME NEW T, T \subseteq Nat, T # {}
  PROVE  Min(T) \in T
<1>1. \E i \in T : \A j \in T : i <= j
  BY LeastExists
<1>2. QED BY <1>1 DEF Min

\* Where the new row of the definition d goes.
Slot(table, ds, d) ==
  NextId(table) + Cardinality({e \in {f \in ds : AutoRows(table, f) = {}} : e < d})

Missing(table, ds) == {d \in ds : AutoRows(table, d) = {}}

LEMMA SlotsDiffer ==
  ASSUME ShoppingConstants, NEW table, NEW n \in Nat, DOMAIN table \subseteq 1 .. n,
         NEW ds \in SUBSET Definitions
  PROVE  /\ \A d \in ds : Slot(table, ds, d) \in Nat /\ Slot(table, ds, d) >= NextId(table)
         /\ \A d \in ds : Slot(table, ds, d) <= n + 1 + Cardinality(ds)
         /\ Cardinality(ds) \in Nat
         /\ \A d, e \in Missing(table, ds) :
              Slot(table, ds, d) = Slot(table, ds, e) => d = e
<1> DEFINE M == Missing(table, ds)
           B(d) == {e \in M : e < d}
<1>1. IsFiniteSet(ds) /\ Cardinality(ds) \in Nat
  BY FS_Subset, FS_CardinalityType DEF ShoppingConstants
<1>2. ASSUME NEW d \in ds
      PROVE  IsFiniteSet(B(d)) /\ Cardinality(B(d)) \in Nat /\ Cardinality(B(d)) <= Cardinality(ds)
  <2>1. B(d) \in SUBSET ds
    BY DEF Missing
  <2>2. QED BY <1>1, <2>1, FS_Subset, FS_CardinalityType
<1>3. \A d \in ds : Slot(table, ds, d) = NextId(table) + Cardinality(B(d))
  BY DEF Slot, Missing
<1>4. NextId(table) \in 1 .. n + 1
  BY NextIdFresh
<1>5. ASSUME NEW d \in M, NEW e \in M, d < e
      PROVE  Cardinality(B(d)) # Cardinality(B(e))
  <2>1. d \in Nat /\ e \in Nat /\ M \subseteq Nat /\ d \in ds /\ e \in ds
    BY DEF ShoppingConstants, Missing
  <2>2. B(d) \in SUBSET B(e)
    BY <1>5, <2>1
  <2>3. d \in B(e) /\ d \notin B(d)
    BY <1>5, <2>1
  <2>4. B(d) # B(e)
    BY <2>3
  <2>5. IsFiniteSet(B(e))
    BY <1>2, <2>1
  <2> HIDE DEF B
  <2>6. QED BY <2>2, <2>4, <2>5, FS_Subset
<1>6. ASSUME NEW d \in M, NEW e \in M, Slot(table, ds, d) = Slot(table, ds, e) PROVE d = e
  <2>1. d \in Nat /\ e \in Nat /\ d \in ds /\ e \in ds
    BY DEF ShoppingConstants, Missing
  <2>2. Cardinality(B(d)) = Cardinality(B(e))
    <3> HIDE DEF B
    <3>1. QED BY <1>2, <1>3, <1>4, <1>6, <2>1
  <2>3. ~(d < e) /\ ~(e < d)
    BY <1>5, <2>2
  <2>4. QED BY <2>1, <2>3
<1> HIDE DEF B
<1>7. QED
  BY <1>1, <1>2, <1>3, <1>4, <1>6

\* What a reconcile opens: all the rows there were, of low definitions open, and
\* an open row of each that had none.
LEMMA EnsuredRows ==
  ASSUME ShoppingConstants, NEW table, TableOK(table), NEW ds \in SUBSET Definitions
  PROVE  LET new == Ensured(table, ds)
         IN  /\ DOMAIN table \subseteq DOMAIN new
             /\ \E n \in Nat : DOMAIN new \subseteq 1 .. n
             /\ \A i \in DOMAIN table : new[i] = Reopened(table, ds)[i]
             /\ \A i \in DOMAIN new \ DOMAIN table :
                  \E d \in Missing(table, ds) : new[i] = NewAuto(d) /\ i = Slot(table, ds, d)
             /\ \A d \in Missing(table, ds) :
                  /\ Slot(table, ds, d) \in DOMAIN new \ DOMAIN table
                  /\ new[Slot(table, ds, d)] = NewAuto(d)
<1> DEFINE M == Missing(table, ds)
           at(d) == Slot(table, ds, d)
           old == Reopened(table, ds)
           new == Ensured(table, ds)
<1>1. PICK n \in Nat : DOMAIN table \subseteq 1 .. n
  BY DEF TableOK
<1>2. new = [i \in DOMAIN table \cup {at(d) : d \in M} |->
               IF i \in DOMAIN table THEN old[i] ELSE NewAuto(CHOOSE d \in M : at(d) = i)]
  BY DEF Ensured, Missing, Slot
<1>3. DOMAIN old = DOMAIN table
  BY DEF Reopened
<1>4. M \subseteq ds
  BY DEF Missing
<1>5. ASSUME NEW d \in M
      PROVE  at(d) \in Nat /\ at(d) \notin DOMAIN table /\ at(d) <= n + 1 + Cardinality(ds) /\ at(d) >= 1
  <2>1. d \in ds
    BY <1>4
  <2>2. at(d) \in Nat /\ at(d) >= NextId(table) /\ at(d) <= n + 1 + Cardinality(ds)
    BY <1>1, <2>1, SlotsDiffer
  <2>3. NextId(table) \in 1 .. n + 1 /\ \A i \in DOMAIN table : i < NextId(table)
    BY <1>1, NextIdFresh
  <2>4. DOMAIN table \subseteq Nat
    BY <1>1
  <2> HIDE DEF at
  <2>5. QED BY <2>2, <2>3, <2>4
<1>6. \A d \in M : (CHOOSE e \in M : at(e) = at(d)) = d
  <2>1. \A d, e \in M : at(d) = at(e) => d = e
    BY <1>1, SlotsDiffer
  <2> HIDE DEF M, at
  <2>2. QED BY <2>1
<1> HIDE DEF M, at, old, new
<1>7. /\ DOMAIN new = DOMAIN table \cup {at(d) : d \in M}
      /\ \A i \in DOMAIN table : new[i] = old[i]
      /\ \A d \in M : new[at(d)] = NewAuto(d)
  BY <1>2, <1>5, <1>6
<1>8. Cardinality(ds) \in Nat
  BY <1>1, SlotsDiffer
<1>9. DOMAIN new \subseteq 1 .. (n + 1 + Cardinality(ds))
  BY <1>1, <1>5, <1>7, <1>8
<1>10. QED
  BY <1>5, <1>7, <1>8, <1>9 DEF M, at, old, new

-----------------------------------------------------------------------------
(* What every operation leaves of the keys *)

LEMMA InsertedOK ==
  ASSUME NEW table, TableOK(table), NEW row \in Row,
         row.source = "auto" => AutoRows(table, row.definition) = {}
  PROVE  TableOK(Inserted(table, row))
<1> DEFINE new == Inserted(table, row)
           at == NextId(table)
<1>1. PICK n \in Nat : DOMAIN table \subseteq 1 .. n
  BY DEF TableOK
<1>2. at \in 1 .. n + 1 /\ at \notin DOMAIN table
  BY <1>1, NextIdFresh
<1>3. /\ DOMAIN new = DOMAIN table \cup {at}
      /\ new[at] = row
      /\ \A i \in DOMAIN table : new[i] = table[i]
  BY <1>2 DEF Inserted
<1> HIDE DEF new, at
<1>4. DOMAIN new \subseteq 1 .. n + 1
  BY <1>1, <1>2, <1>3
<1>5. \A i \in DOMAIN new : new[i] \in Row
  BY <1>3 DEF TableOK
<1>6. ASSUME NEW i \in DOMAIN new, NEW j \in DOMAIN new,
             new[i].source = "auto", new[j].source = "auto",
             new[i].definition = new[j].definition
      PROVE  i = j
  <2>1. CASE i \in DOMAIN table /\ j \in DOMAIN table
    BY <1>3, <1>6, <2>1 DEF TableOK
  <2>2. CASE i = at /\ j \in DOMAIN table
    BY <1>3, <1>6, <2>2 DEF AutoRows
  <2>3. CASE j = at /\ i \in DOMAIN table
    BY <1>3, <1>6, <2>3 DEF AutoRows
  <2>4. QED BY <1>3, <2>1, <2>2, <2>3
<1>7. QED BY <1>1, <1>4, <1>5, <1>6 DEF TableOK, new

LEMMA WithoutOK ==
  ASSUME NEW table, TableOK(table), NEW ids
  PROVE  TableOK(Without(table, ids))
  BY DEF TableOK, Without

LEMMA MarkedOK ==
  ASSUME NEW table, TableOK(table), NEW i \in DOMAIN table, NEW b \in BOOLEAN
  PROVE  LET new == [table EXCEPT ![i].bought = b]
         IN  /\ TableOK(new)
             /\ DOMAIN new = DOMAIN table
             /\ \A j \in DOMAIN table : /\ new[j].source = table[j].source
                                        /\ new[j].definition = table[j].definition
<1> DEFINE new == [table EXCEPT ![i].bought = b]
<1>1. /\ DOMAIN new = DOMAIN table
      /\ \A j \in DOMAIN table : /\ new[j] \in Row
                                 /\ new[j].source = table[j].source
                                 /\ new[j].definition = table[j].definition
  BY DEF TableOK, Row
<1> HIDE DEF new
<1>2. TableOK(new)
  BY <1>1 DEF TableOK
<1>3. QED BY <1>1, <1>2 DEF new

LEMMA MarkedRooted ==
  ASSUME NEW table, TableOK(table), NEW existing, Rooted(table, existing),
         NEW i \in DOMAIN table, NEW b \in BOOLEAN
  PROVE  TableOK([table EXCEPT ![i].bought = b]) /\ Rooted([table EXCEPT ![i].bought = b], existing)
<1> DEFINE new == [table EXCEPT ![i].bought = b]
<1>1. /\ TableOK(new) /\ DOMAIN new = DOMAIN table
      /\ \A j \in DOMAIN table : new[j].definition = table[j].definition
  BY MarkedOK
<1> HIDE DEF new
<1>2. Rooted(new, existing)
  BY <1>1 DEF Rooted
<1>3. QED BY <1>1, <1>2 DEF new

LEMMA ReopenedOK ==
  ASSUME NEW table, TableOK(table), NEW ds
  PROVE  /\ TableOK(Reopened(table, ds))
         /\ DOMAIN Reopened(table, ds) = DOMAIN table
         /\ \A j \in DOMAIN table :
              /\ Reopened(table, ds)[j].source = table[j].source
              /\ Reopened(table, ds)[j].definition = table[j].definition
<1> DEFINE new == Reopened(table, ds)
<1>1. /\ DOMAIN new = DOMAIN table
      /\ \A j \in DOMAIN table : /\ new[j] \in Row
                                 /\ new[j].source = table[j].source
                                 /\ new[j].definition = table[j].definition
  BY DEF TableOK, Row, Reopened
<1> HIDE DEF new
<1>2. QED BY <1>1 DEF TableOK, new

LEMMA EnsuredOK ==
  ASSUME ShoppingConstants, NEW table, TableOK(table), NEW ds \in SUBSET Definitions
  PROVE  /\ TableOK(Ensured(table, ds))
         /\ \A i \in DOMAIN Ensured(table, ds) :
              \/ i \in DOMAIN table
                 /\ Ensured(table, ds)[i].definition = table[i].definition
              \/ Ensured(table, ds)[i].definition \in Missing(table, ds)
<1> DEFINE new == Ensured(table, ds)
           old == Reopened(table, ds)
           M == Missing(table, ds)
           at(d) == Slot(table, ds, d)
<1>1. /\ DOMAIN table \subseteq DOMAIN new
      /\ \E n \in Nat : DOMAIN new \subseteq 1 .. n
      /\ \A i \in DOMAIN table : new[i] = old[i]
      /\ \A i \in DOMAIN new \ DOMAIN table : \E d \in M : new[i] = NewAuto(d) /\ i = at(d)
  BY EnsuredRows
<1>2. /\ TableOK(old) /\ DOMAIN old = DOMAIN table
      /\ \A j \in DOMAIN table : /\ old[j].source = table[j].source
                                 /\ old[j].definition = table[j].definition
  BY ReopenedOK
<1>3. M \subseteq Definitions /\ \A d \in M : AutoRows(table, d) = {}
  BY DEF Missing
<1> HIDE DEF new, old, M, at
<1>4. \A d \in M : NewAuto(d) \in Row /\ NewAuto(d).definition = d /\ NewAuto(d).source = "auto"
  BY <1>3 DEF NewAuto, Row
<1>5. \A i \in DOMAIN new : new[i] \in Row
  BY <1>1, <1>2, <1>4 DEF TableOK
<1>6. ASSUME NEW i \in DOMAIN new, NEW j \in DOMAIN new,
             new[i].source = "auto", new[j].source = "auto",
             new[i].definition = new[j].definition
      PROVE  i = j
  <2>1. CASE i \in DOMAIN table /\ j \in DOMAIN table
    BY <1>1, <1>2, <1>6, <2>1 DEF TableOK
  <2>2. CASE i \notin DOMAIN table /\ j \in DOMAIN table
    BY <1>1, <1>2, <1>3, <1>4, <1>6, <2>2 DEF AutoRows
  <2>3. CASE j \notin DOMAIN table /\ i \in DOMAIN table
    BY <1>1, <1>2, <1>3, <1>4, <1>6, <2>3 DEF AutoRows
  <2>4. CASE i \notin DOMAIN table /\ j \notin DOMAIN table
    BY <1>1, <1>4, <1>6, <2>4
  <2>5. QED BY <2>1, <2>2, <2>3, <2>4
<1>7. TableOK(new)
  BY <1>1, <1>5, <1>6 DEF TableOK
<1>8. \A i \in DOMAIN new : \/ i \in DOMAIN table /\ new[i].definition = table[i].definition
                            \/ new[i].definition \in M
  BY <1>1, <1>2, <1>4
<1>9. QED BY <1>7, <1>8 DEF new, M

LEMMA ReconciledOK ==
  ASSUME ShoppingConstants, NEW table, TableOK(table), NEW ds \in SUBSET Definitions, NEW low,
         NEW existing, Rooted(table, existing), Missing(table, ds) \subseteq existing
  PROVE  TableOK(Reconciled(table, ds, low)) /\ Rooted(Reconciled(table, ds, low), existing)
<1> DEFINE new == Ensured(table, ds)
<1>1. TableOK(new)
  BY EnsuredOK
<1>2. Rooted(new, existing)
  BY EnsuredOK DEF Rooted
<1>3. Reconciled(table, ds, low) = Without(new, Recovered(new, low))
  BY DEF Reconciled
<1> HIDE DEF new
<1>4. QED BY <1>1, <1>2, <1>3, WithoutOK DEF Rooted, Without

-----------------------------------------------------------------------------
(* The keys hold in any interleaving *)

LEMMA TypesOfInit ==
  ASSUME ShoppingConstants, Init
  PROVE  TInv
<1>1. stock \in [Definitions -> 0 .. MaxStock \cup {Null}]
  BY DEF Init, ShoppingConstants
<1>2. autoAdd \in BOOLEAN /\ overlap \in BOOLEAN
  BY DEF Init, ShoppingConstants
<1>3. DOMAIN rows = {} /\ 0 \in Nat /\ {} \subseteq 1 .. 0
  BY DEF Init
<1>4. TableOK(rows) /\ Rooted(rows, Existing)
  BY <1>3 DEF TableOK, Rooted
<1>5. Idle \in State /\ Idle.stage # "create"
  <2>1. Idle \in State
    BY DEF Idle, State, Stages
  <2>2. Idle.stage = "idle"
    BY DEF Idle
  <2>3. QED BY <2>1, <2>2
<1>6. inflight \in [Requests -> State] /\ \A r \in Requests : inflight[r].stage # "create"
  BY <1>5 DEF Init
<1>7. QED BY <1>1, <1>2, <1>4, <1>6 DEF TInv

\* A request whose new state is one.
LEMMA BecomeOK ==
  ASSUME TInv, NEW r \in Requests, NEW state \in State, Become(r, state),
         state.stage = "create" => state.definition \in Definitions
  PROVE  /\ inflight' \in [Requests -> State]
         /\ \A q \in Requests : inflight'[q].stage = "create" => inflight'[q].definition \in Definitions
  BY DEF TInv, Become

\* A change of the stock that leaves every definition where it is.
LEMMA StockOK ==
  ASSUME ShoppingConstants, TInv, NEW d \in Definitions, stock[d] # Null,
         NEW n \in 0 .. MaxStock, stock' = [stock EXCEPT ![d] = n]
  PROVE  stock' \in [Definitions -> 0 .. MaxStock \cup {Null}] /\ Existing' = Existing
  BY DEF TInv, Existing, ShoppingConstants

LEMMA LowExists ==
  ASSUME ShoppingConstants
  PROVE  Low \subseteq Existing /\ Existing \subseteq Definitions
  BY DEF Low, Existing

LEMMA TypesOfUser ==
  ASSUME ShoppingConstants, TInv, User
  PROVE  TInv'
<1> USE DEF Change
<1>1. ASSUME NEW d \in Definitions, Movement(d) PROVE TInv'
  <2>1. PICK n \in 0 .. MaxStock : stock' = [stock EXCEPT ![d] = n]
    BY <1>1 DEF Movement
  <2>2. stock' \in [Definitions -> 0 .. MaxStock \cup {Null}] /\ Existing' = Existing
    BY <1>1, <2>1, StockOK DEF Movement
  <2>3. Low' \subseteq Existing /\ Low' \in SUBSET Definitions
    BY <2>2 DEF Low, Existing
  <2>4. TableOK(rows') /\ Rooted(rows', Existing)
    <3>1. CASE rows' = Reconciled(rows, Low', Low')
      BY <2>3, <3>1, ReconciledOK DEF TInv, Missing
    <3>2. CASE rows' = rows
      BY <3>2 DEF TInv
    <3>3. QED BY <1>1, <3>1, <3>2 DEF Movement
  <2>5. QED BY <1>1, <2>2, <2>4 DEF TInv, Movement
<1>2. ASSUME NEW d \in Definitions, SilentChange(d) PROVE TInv'
  <2>1. PICK n \in 0 .. MaxStock : stock' = [stock EXCEPT ![d] = n]
    BY <1>2 DEF SilentChange
  <2>2. stock' \in [Definitions -> 0 .. MaxStock \cup {Null}] /\ Existing' = Existing
    BY <1>2, <2>1, StockOK DEF SilentChange
  <2>3. QED BY <1>2, <2>2 DEF TInv, SilentChange
<1>3. ASSUME NEW d \in Definitions, DeleteDefinition(d) PROVE TInv'
  <2>1. stock' \in [Definitions -> 0 .. MaxStock \cup {Null}] /\ Existing \ {d} \subseteq Existing'
    BY <1>3 DEF TInv, DeleteDefinition, Existing
  <2>2. TableOK(rows')
    BY <1>3, WithoutOK DEF TInv, DeleteDefinition
  <2>3. Rooted(rows', Existing')
    BY <1>3, <2>1 DEF TInv, Rooted, DeleteDefinition, Without
  <2>4. QED BY <1>3, <2>1, <2>2, <2>3 DEF TInv, DeleteDefinition
<1>4. ASSUME NEW d \in Definitions, CreateDefinition(d) PROVE TInv'
  <2>1. stock' \in [Definitions -> 0 .. MaxStock \cup {Null}] /\ Existing \subseteq Existing'
    BY <1>4 DEF TInv, CreateDefinition, Existing, ShoppingConstants
  <2>2. QED BY <1>4, <2>1 DEF TInv, CreateDefinition, Rooted
<1>5. CASE SetAutoAdd
  BY <1>5 DEF TInv, SetAutoAdd, Existing
<1>6. CASE AddManual
  <2>1. PICK d \in Existing \cup {Null} :
          rows' = Inserted(rows, [source |-> "manual", definition |-> d, bought |-> FALSE])
    BY <1>6 DEF AddManual
  <2> DEFINE row == [source |-> "manual", definition |-> d, bought |-> FALSE]
  <2>2. row \in Row /\ row.source # "auto"
    BY DEF Row, Existing
  <2>3. TableOK(rows')
    BY <2>1, <2>2, InsertedOK DEF TInv
  <2>4. Rooted(rows', Existing)
    BY <2>1 DEF TInv, Rooted, Inserted
  <2>5. QED BY <1>6, <2>3, <2>4 DEF TInv, AddManual, Existing
<1>7. CASE ClearPurchased
  <2>1. TableOK(rows') /\ Rooted(rows', Existing)
    BY <1>7, WithoutOK DEF TInv, ClearPurchased, Rooted, Without
  <2>2. QED BY <1>7, <2>1 DEF TInv, ClearPurchased, Existing
<1>8. QED BY <1>1, <1>2, <1>3, <1>4, <1>5, <1>6, <1>7 DEF User

LEMMA TypesOfRequest ==
  ASSUME ShoppingConstants, TInv, NEW r \in Requests, Request(r)
  PROVE  TInv'
<1> USE DEF Change
<1>1. /\ Idle \in State /\ Idle.stage = "idle"
      /\ \A i \in Nat, d \in Definitions \cup {Null}, stage \in {"check", "uncheck", "remove"} :
           LET new == [Idle EXCEPT !.stage = stage, !.row = i, !.definition = d]
           IN  new \in State /\ new.stage = stage
      /\ \A i \in Nat, stage \in {"check", "uncheck", "remove"} :
           LET new == [Idle EXCEPT !.stage = stage, !.row = i]
           IN  new \in State /\ new.stage = stage
  BY DEF Idle, State, Stages
<1>2. DOMAIN rows \subseteq Nat
  BY DEF TInv, TableOK
<1>3. ASSUME Become(r, Idle)
      PROVE  /\ inflight' \in [Requests -> State]
             /\ \A q \in Requests : inflight'[q].stage = "create" => inflight'[q].definition \in Definitions
  BY <1>1, <1>3, BecomeOK
<1>4. CASE LoadCheck(r)
  <2>1. PICK i \in DOMAIN rows, d \in Definitions \cup {Null} :
          Become(r, [Idle EXCEPT !.stage = "check", !.row = i, !.definition = d])
    BY <1>4 DEF LoadCheck
  <2>2. /\ inflight' \in [Requests -> State]
        /\ \A q \in Requests : inflight'[q].stage = "create" => inflight'[q].definition \in Definitions
    BY <1>1, <1>2, <2>1, BecomeOK
  <2>3. QED BY <1>4, <2>2 DEF TInv, LoadCheck, Existing
<1>5. CASE CommitCheck(r)
  <2> DEFINE i == inflight[r].row
             d == inflight[r].definition
  <2>1. stock' \in [Definitions -> 0 .. MaxStock \cup {Null}] /\ Existing' = Existing
    <3>1. CASE d \in Existing /\ stock[d] < MaxStock /\ stock' = [stock EXCEPT ![d] = @ + 1]
      <4>1. d \in Definitions /\ stock[d] # Null /\ stock[d] \in 0 .. MaxStock
        BY <3>1 DEF TInv, Existing
      <4>2. stock[d] + 1 \in 0 .. MaxStock /\ stock' = [stock EXCEPT ![d] = stock[d] + 1]
        BY <3>1, <4>1 DEF ShoppingConstants
      <4>3. QED BY <4>1, <4>2, StockOK
    <3>2. CASE stock' = stock
      BY <3>2 DEF TInv, Existing
    <3>3. QED BY <1>5, <3>1, <3>2 DEF CommitCheck
  <2>2. TableOK(rows') /\ Rooted(rows', Existing)
    <3>1. i \in DOMAIN rows /\ rows' = [rows EXCEPT ![i].bought = TRUE]
      BY <1>5 DEF CommitCheck
    <3>2. QED BY <3>1, MarkedRooted DEF TInv
  <2>3. QED BY <1>3, <1>5, <2>1, <2>2 DEF TInv, CommitCheck
<1>6. CASE LoadUncheck(r)
  <2>1. PICK i \in DOMAIN rows : Become(r, [Idle EXCEPT !.stage = "uncheck", !.row = i])
    BY <1>6 DEF LoadUncheck
  <2>2. /\ inflight' \in [Requests -> State]
        /\ \A q \in Requests : inflight'[q].stage = "create" => inflight'[q].definition \in Definitions
    BY <1>1, <1>2, <2>1, BecomeOK
  <2>3. QED BY <1>6, <2>2 DEF TInv, LoadUncheck, Existing
<1>7. CASE CommitUncheck(r)
  <2> DEFINE i == inflight[r].row
  <2>1. i \in DOMAIN rows /\ rows' = [rows EXCEPT ![i].bought = FALSE]
    BY <1>7 DEF CommitUncheck
  <2>2. TableOK(rows') /\ Rooted(rows', Existing)
    BY <2>1, MarkedRooted DEF TInv
  <2>3. QED BY <1>3, <1>7, <2>2 DEF TInv, CommitUncheck, Existing
<1>8. CASE LoadRemove(r)
  <2>1. PICK i \in DOMAIN rows : Become(r, [Idle EXCEPT !.stage = "remove", !.row = i])
    BY <1>8 DEF LoadRemove
  <2>2. /\ inflight' \in [Requests -> State]
        /\ \A q \in Requests : inflight'[q].stage = "create" => inflight'[q].definition \in Definitions
    BY <1>1, <1>2, <2>1, BecomeOK
  <2>3. QED BY <1>8, <2>2 DEF TInv, LoadRemove, Existing
<1>9. CASE CommitRemove(r)
  <2>1. TableOK(rows') /\ Rooted(rows', Existing)
    BY <1>9, WithoutOK DEF TInv, CommitRemove, Rooted, Without
  <2>2. QED BY <1>3, <1>9, <2>1 DEF TInv, CommitRemove, Existing
<1>10. CASE Fail(r)
  BY <1>3, <1>10 DEF TInv, Fail, Existing
<1>11. QED BY <1>4, <1>5, <1>6, <1>7, <1>8, <1>9, <1>10 DEF Request

LEMMA TypesOfRefresh ==
  ASSUME ShoppingConstants, TInv, NEW r \in Requests, Refresh(r)
  PROVE  TInv'
<1> DEFINE now == inflight[r]
           InflightOK ==
             /\ inflight' \in [Requests -> State]
             /\ \A q \in Requests :
                  inflight'[q].stage = "create" => inflight'[q].definition \in Definitions
<1>1. /\ Idle \in State /\ Idle.stage = "idle"
      /\ Idle = [stage |-> "idle", row |-> 0, definition |-> Null, low |-> {}, todo |-> {}, prune |-> {}]
  BY DEF Idle, State, Stages
<1>2. now \in State /\ now.todo \subseteq Definitions /\ Definitions \subseteq Nat
  BY DEF TInv, State, ShoppingConstants
<1>3. DOMAIN rows \subseteq Nat
  BY DEF TInv, TableOK
<1>4. ASSUME Become(r, Idle) PROVE InflightOK
  BY <1>1, <1>4, BecomeOK
<1>5. ASSUME NEW ds, Creatable(ds) PROVE Missing(rows, ds) \subseteq Existing
  BY <1>5 DEF Creatable, Missing
<1>6. ASSUME NEW table, TableOK(table), Rooted(table, Existing), NEW ds \in SUBSET Definitions, NEW low,
             Missing(table, ds) \subseteq Existing
      PROVE  TableOK(Reconciled(table, ds, low)) /\ Rooted(Reconciled(table, ds, low), Existing)
  BY <1>6, ReconciledOK
<1>7. CASE RefreshCompute(r)
  <2> DEFINE new == [Idle EXCEPT !.stage = "look", !.low = Low, !.todo = Low]
  <2>1. new \in State /\ new.stage = "look"
    BY <1>1, LowExists DEF State, Stages
  <2>2. InflightOK
    BY <1>7, <2>1, BecomeOK DEF RefreshCompute
  <2>3. QED BY <1>7, <2>2 DEF TInv, RefreshCompute, Existing, Change
<1>8. CASE RefreshLook(r)
  <2> DEFINE d == Min(now.todo)
  <2>1. d \in Definitions
    BY <1>2, <1>8, MinOf DEF RefreshLook
  <2>2. InflightOK
    <3>1. CASE Become(r, [now EXCEPT !.stage = "create", !.definition = d])
      <4>1. /\ [now EXCEPT !.stage = "create", !.definition = d] \in State
            /\ [now EXCEPT !.stage = "create", !.definition = d].definition \in Definitions
        BY <1>2, <2>1 DEF State, Stages
      <4>2. QED BY <3>1, <4>1, BecomeOK
    <3>2. CASE now.stage = "look" /\ Become(r, [now EXCEPT !.todo = @ \ {d}])
      <4>1. /\ [now EXCEPT !.todo = @ \ {d}] \in State
            /\ [now EXCEPT !.todo = @ \ {d}].stage = now.stage
        BY <1>2 DEF State, Stages
      <4>2. QED BY <3>2, <4>1, BecomeOK
    <3>3. CASE \E i \in AutoRows(rows, d) : Become(r, [now EXCEPT !.stage = "reopen", !.row = i])
      <4>1. PICK i \in DOMAIN rows : Become(r, [now EXCEPT !.stage = "reopen", !.row = i])
        BY <3>3 DEF AutoRows
      <4>2. /\ [now EXCEPT !.stage = "reopen", !.row = i] \in State
            /\ [now EXCEPT !.stage = "reopen", !.row = i].stage = "reopen"
        BY <1>2, <1>3 DEF State, Stages
      <4>3. QED BY <4>1, <4>2, BecomeOK
    <3>4. QED BY <1>8, <3>1, <3>2, <3>3 DEF RefreshLook
  <2>3. QED BY <1>8, <2>2 DEF TInv, RefreshLook, Existing
<1>9. CASE RefreshCreate(r)
  <2> DEFINE d == now.definition
             new == [now EXCEPT !.stage = "look", !.definition = Null, !.todo = @ \ {d}]
  <2>1. d \in Definitions /\ stock[d] # Null /\ AutoRows(rows, d) = {}
    BY <1>9 DEF TInv, RefreshCreate, UniqueAuto
  <2>2. NewAuto(d) \in Row /\ NewAuto(d).definition = d
    BY <2>1 DEF NewAuto, Row
  <2>3. rows' = Inserted(rows, NewAuto(d)) /\ Become(r, new)
    BY <1>9 DEF RefreshCreate
  <2>4. TableOK(rows')
    BY <2>1, <2>2, <2>3, InsertedOK DEF TInv
  <2>5. Rooted(rows', Existing)
    BY <2>1, <2>2, <2>3 DEF TInv, Rooted, Inserted, Existing
  <2>6. new \in State /\ new.stage = "look"
    BY <1>2 DEF State, Stages
  <2>7. InflightOK
    BY <2>3, <2>6, BecomeOK
  <2>8. QED BY <1>9, <2>4, <2>5, <2>7 DEF TInv, RefreshCreate, Existing
<1>10. CASE RefreshYield(r)
  <2> DEFINE ds == now.todo \ {now.definition}
  <2>1. ds \in SUBSET Definitions /\ Missing(rows, ds) \subseteq Existing
    BY <1>2, <1>5, <1>10 DEF RefreshYield
  <2>2. rows' = Reconciled(rows, ds, now.low)
    BY <1>10 DEF RefreshYield
  <2> HIDE DEF ds
  <2>3. TableOK(rows') /\ Rooted(rows', Existing)
    BY <1>6, <2>1, <2>2 DEF TInv
  <2>4. QED BY <1>4, <1>10, <2>3 DEF TInv, RefreshYield, Existing
<1>11. CASE RefreshReopen(r)
  <2> DEFINE ds == now.todo \ {Min(now.todo)}
             table == [rows EXCEPT ![now.row].bought = FALSE]
  <2>1. ds \in SUBSET Definitions /\ Missing(rows, ds) \subseteq Existing
    BY <1>2, <1>5, <1>11 DEF RefreshReopen
  <2>2. rows' = Reconciled(table, ds, now.low) /\ now.row \in DOMAIN rows
    BY <1>11 DEF RefreshReopen
  <2>3. TableOK(table) /\ Rooted(table, Existing)
    BY <2>2, MarkedRooted DEF TInv
  <2>4. \A d : AutoRows(table, d) = AutoRows(rows, d)
    BY <2>2, MarkedOK DEF AutoRows, TInv
  <2>5. Missing(table, ds) = Missing(rows, ds)
    BY <2>4 DEF Missing
  <2> HIDE DEF ds, table
  <2>6. TableOK(rows') /\ Rooted(rows', Existing)
    BY <1>6, <2>1, <2>2, <2>3, <2>5
  <2>7. QED BY <1>4, <1>11, <2>6 DEF TInv, RefreshReopen, Existing
<1>12. CASE RefreshList(r)
  <2> DEFINE new == [now EXCEPT !.stage = "prune", !.prune = Recovered(rows, now.low)]
  <2>1. new \in State /\ new.stage = "prune"
    BY <1>2, <1>3 DEF State, Stages, Recovered
  <2>2. InflightOK
    BY <1>12, <2>1, BecomeOK DEF RefreshList
  <2>3. QED BY <1>12, <2>2 DEF TInv, RefreshList, Existing
<1>13. CASE RefreshPrune(r)
  <2>1. TableOK(rows') /\ Rooted(rows', Existing)
    BY <1>13, WithoutOK DEF TInv, RefreshPrune, Rooted, Without
  <2>2. QED BY <1>4, <1>13, <2>1 DEF TInv, RefreshPrune, Existing
<1>14. QED
  BY <1>7, <1>8, <1>9, <1>10, <1>11, <1>12, <1>13 DEF Refresh

LEMMA TypesOfNext ==
  ASSUME ShoppingConstants, TInv, [Next]_vars
  PROVE  TInv'
<1>1. CASE ScanReconcile
  <2>1. Low \in SUBSET Definitions /\ Missing(rows, Low) \subseteq Existing
    BY LowExists DEF Missing
  <2>2. TableOK(rows') /\ Rooted(rows', Existing)
    BY <1>1, <2>1, ReconciledOK DEF TInv, ScanReconcile
  <2>3. QED BY <1>1, <2>2 DEF TInv, ScanReconcile, Existing
<1>2. CASE UNCHANGED vars
  BY <1>2 DEF TInv, Existing, vars
<1>3. QED BY <1>1, <1>2, TypesOfUser, TypesOfRequest, TypesOfRefresh DEF Next

\* The keys of the list hold whatever scans, hooks, refreshes and requests do at
\* the same time: one auto row per definition, and no row of a definition that is
\* gone (uq_shopping_list_one_auto_per_def, ON DELETE CASCADE).
THEOREM TypeCorrect ==
  ASSUME ShoppingConstants
  PROVE  Spec => []TypeOK
<1>1. TInv => TypeOK
  <2> SUFFICES ASSUME TInv PROVE TypeOK
    OBVIOUS
  <2>1. \A i \in DOMAIN rows : i \in Nat \ {0} /\ rows[i] \in Row
    BY DEF TInv, TableOK
  <2>2. \A i \in DOMAIN rows : rows[i].definition # Null => stock[rows[i].definition] # Null
    BY DEF TInv, Rooted, Existing
  <2>3. \A r \in Requests : inflight[r].low \subseteq Definitions
    BY DEF TInv, State
  <2>4. QED BY <2>1, <2>2, <2>3 DEF TInv, TypeOK, OneAutoRow, TableOK
<1>2. QED BY <1>1, TypesOfInit, TypesOfNext, PTL DEF Spec

\* In particular never two suggestions for one definition.
THEOREM AlwaysOneAutoRow ==
  ASSUME ShoppingConstants
  PROVE  Spec => []OneAutoRow
<1>1. TypeOK => OneAutoRow
  BY DEF TypeOK
<1>2. QED BY <1>1, TypeCorrect, PTL

-----------------------------------------------------------------------------
(* What a reconcile makes of the list *)

\* Every definition of ds has an open auto row.
Listed(table, ds) == \A d \in ds : OpenAuto(table, d) # {}

LEMMA ReconcileExact ==
  ASSUME ShoppingConstants, NEW table, TableOK(table),
         NEW low \in SUBSET Definitions, NEW ds \in SUBSET low, Listed(table, low \ ds),
         NEW d \in Definitions
  PROVE  d \in low <=> OpenAuto(Reconciled(table, ds, low), d) # {}
<1> DEFINE new == Ensured(table, ds)
           old == Reopened(table, ds)
           M == Missing(table, ds)
           at(e) == Slot(table, ds, e)
<1>1. /\ DOMAIN table \subseteq DOMAIN new
      /\ \A i \in DOMAIN table : new[i] = old[i]
      /\ \A e \in M : at(e) \in DOMAIN new /\ new[at(e)] = NewAuto(e)
  <2>1. ds \in SUBSET Definitions
    OBVIOUS
  <2>2. QED BY <2>1, EnsuredRows
<1>2. Reconciled(table, ds, low) = Without(new, Recovered(new, low))
  BY DEF Reconciled
<1> HIDE DEF new, at
<1>3. ASSUME d \in low PROVE OpenAuto(new, d) # {}
  <2>1. CASE d \in M
    <3>1. at(d) \in DOMAIN new /\ new[at(d)] = NewAuto(d)
      BY <1>1, <2>1
    <3>2. at(d) \in OpenAuto(new, d)
      BY <3>1 DEF OpenAuto, AutoRows, NewAuto
    <3>3. QED BY <3>2
  <2>2. CASE d \in ds /\ d \notin M
    <3>1. PICK i \in AutoRows(table, d) : TRUE
      BY <2>2 DEF Missing
    <3>2. i \in DOMAIN table /\ table[i].source = "auto" /\ table[i].definition = d
      BY DEF AutoRows
    <3>3. table[i] \in Row /\ old[i] = [table[i] EXCEPT !.bought = FALSE]
      BY <2>2, <3>2 DEF Reopened, TableOK
    <3>4. i \in OpenAuto(new, d)
      BY <1>1, <3>2, <3>3 DEF OpenAuto, AutoRows, Row
    <3>5. QED BY <3>4
  <2>3. CASE d \notin ds
    <3>1. PICK i \in OpenAuto(table, d) : TRUE
      BY <1>3, <2>3 DEF Listed
    <3>2. i \in DOMAIN table /\ old[i] = table[i]
      BY <2>3, <3>1 DEF OpenAuto, AutoRows, Reopened
    <3>3. i \in OpenAuto(new, d)
      BY <1>1, <3>1, <3>2 DEF OpenAuto, AutoRows
    <3>4. QED BY <3>3
  <2>4. QED BY <2>1, <2>2, <2>3
<1>4. \A i \in OpenAuto(new, d) :
        i \in DOMAIN Without(new, Recovered(new, low)) <=> d \in low
  BY DEF OpenAuto, AutoRows, Without, Recovered
<1>5. \A i \in DOMAIN Without(new, Recovered(new, low)) :
        i \in DOMAIN new /\ Without(new, Recovered(new, low))[i] = new[i]
  BY DEF Without
<1>6. OpenAuto(Without(new, Recovered(new, low)), d)
        = {i \in OpenAuto(new, d) : i \in DOMAIN Without(new, Recovered(new, low))}
  BY <1>5 DEF OpenAuto, AutoRows
<1>7. QED BY <1>2, <1>3, <1>4, <1>6

LEMMA ReconcilePrunes ==
  ASSUME ShoppingConstants, NEW table, TableOK(table),
         NEW low \in SUBSET Definitions, NEW ds \in SUBSET low,
         NEW i \in DOMAIN table, i \notin DOMAIN Reconciled(table, ds, low)
  PROVE  table[i].source = "auto" /\ ~table[i].bought /\ table[i].definition \notin low
<1> DEFINE new == Ensured(table, ds)
           old == Reopened(table, ds)
<1>1. i \in DOMAIN new /\ new[i] = old[i]
  BY EnsuredRows
<1>2. Reconciled(table, ds, low) = Without(new, Recovered(new, low))
  BY DEF Reconciled
<1> HIDE DEF new
<1>3. i \in Recovered(new, low)
  BY <1>1, <1>2 DEF Without
<1>4. new[i].source = "auto" /\ ~new[i].bought /\ new[i].definition \notin low
  BY <1>3 DEF Recovered
<1>5. old[i].source = table[i].source /\ old[i].definition = table[i].definition
  BY ReopenedOK
<1>6. table[i].definition \notin ds
  BY <1>1, <1>4, <1>5
<1>7. old[i] = table[i]
  BY <1>6 DEF Reopened
<1>8. QED BY <1>1, <1>4, <1>7

-----------------------------------------------------------------------------
(* Requests one by one *)

Alone ==
  \A q, r \in Requests : inflight[q] # Idle /\ inflight[r] # Idle => q = r

\* What a refresh has read is still so, and what it has gone over is listed.
Fresh(r) ==
  LET now == inflight[r]
  IN  now.stage \in {"look", "create", "reopen", "prune"} =>
        /\ now.low = Low /\ now.todo \subseteq Low
        /\ Listed(rows, Low \ now.todo)
        /\ now.stage = "create" => now.definition \in now.todo /\ AutoRows(rows, now.definition) = {}
        /\ now.stage = "reopen" => now.todo # {} /\ now.row \in AutoRows(rows, Min(now.todo))
        /\ now.stage = "prune" => now.todo = {} /\ now.prune = Recovered(rows, now.low)

SInv == ~overlap => Alone /\ \A r \in Requests : Fresh(r)

LEMMA SerialOfInit ==
  ASSUME Init
  PROVE  SInv
  BY DEF Init, SInv, Alone, Fresh, Idle

\* After a step that leaves every request idle, nothing has to be fresh.
LEMMA IdleIsFresh ==
  ASSUME TInv, NEW r \in Requests, inflight'[r] = Idle
  PROVE  Fresh(r)'
  BY DEF Fresh, Idle

LEMMA AloneThen ==
  ASSUME TInv, NEW r \in Requests, NEW state, Become(r, state),
         \A q \in Requests \ {r} : inflight[q] = Idle
  PROVE  /\ inflight'[r] = state
         /\ \A q \in Requests \ {r} : inflight'[q] = Idle
         /\ Alone'
  BY DEF TInv, Become, Alone

LEMMA SerialOfRequest ==
  ASSUME ShoppingConstants, TInv, SInv, ~overlap, NEW r \in Requests, Request(r)
  PROVE  SInv'
<1>1. Idle.stage = "idle"
  BY DEF Idle
<1>2. ASSUME Quiet \/ inflight[r] # Idle,
             NEW state, Become(r, state), state.stage \in {"idle", "check", "uncheck", "remove"}
      PROVE  SInv'
  <2>1. \A q \in Requests \ {r} : inflight[q] = Idle
    BY <1>2 DEF Quiet, SInv, Alone
  <2>2. inflight'[r] = state /\ (\A q \in Requests \ {r} : inflight'[q] = Idle) /\ Alone'
    BY <1>2, <2>1, AloneThen
  <2>3. Fresh(r)'
    BY <1>2, <2>2 DEF Fresh
  <2>4. \A q \in Requests \ {r} : Fresh(q)'
    BY <2>2, IdleIsFresh
  <2>5. QED BY <2>2, <2>3, <2>4 DEF SInv
<1>3. CASE LoadCheck(r)
  <2>1. PICK i \in DOMAIN rows, d \in Definitions \cup {Null} :
          Become(r, [Idle EXCEPT !.stage = "check", !.row = i, !.definition = d])
    BY <1>3 DEF LoadCheck
  <2>2. [Idle EXCEPT !.stage = "check", !.row = i, !.definition = d].stage = "check"
    BY DEF Idle
  <2>3. QED BY <1>2, <1>3, <2>1, <2>2 DEF LoadCheck, Begin
<1>4. CASE LoadUncheck(r)
  <2>1. PICK i \in DOMAIN rows : Become(r, [Idle EXCEPT !.stage = "uncheck", !.row = i])
    BY <1>4 DEF LoadUncheck
  <2>2. [Idle EXCEPT !.stage = "uncheck", !.row = i].stage = "uncheck"
    BY DEF Idle
  <2>3. QED BY <1>2, <1>4, <2>1, <2>2 DEF LoadUncheck, Begin
<1>5. CASE LoadRemove(r)
  <2>1. PICK i \in DOMAIN rows : Become(r, [Idle EXCEPT !.stage = "remove", !.row = i])
    BY <1>5 DEF LoadRemove
  <2>2. [Idle EXCEPT !.stage = "remove", !.row = i].stage = "remove"
    BY DEF Idle
  <2>3. QED BY <1>2, <1>5, <2>1, <2>2 DEF LoadRemove, Begin
<1>6. CASE CommitCheck(r) \/ CommitUncheck(r) \/ CommitRemove(r) \/ Fail(r)
  <2>1. inflight[r] # Idle /\ Become(r, Idle)
    BY <1>1, <1>6 DEF CommitCheck, CommitUncheck, CommitRemove, Fail
  <2>2. QED BY <1>1, <1>2, <2>1
<1>7. QED BY <1>3, <1>4, <1>5, <1>6 DEF Request

LEMMA SerialOfRefresh ==
  ASSUME ShoppingConstants, TInv, SInv, ~overlap, NEW r \in Requests, Refresh(r)
  PROVE  SInv'
<1> DEFINE now == inflight[r]
<1>1. \A q \in Requests \ {r} : inflight[q] = Idle
  <2>1. Idle.stage = "idle"
    BY DEF Idle
  <2>2. Quiet \/ inflight[r].stage # "idle"
    BY DEF Refresh, RefreshCompute, RefreshLook, RefreshCreate, RefreshYield, RefreshReopen,
           RefreshList, RefreshPrune, Begin
  <2>3. QED BY <2>1, <2>2 DEF Quiet, SInv, Alone
<1>2. ASSUME NEW state, Become(r, state), Fresh(r)'
      PROVE  SInv'
  <2>1. (\A q \in Requests \ {r} : inflight'[q] = Idle) /\ Alone'
    BY <1>1, <1>2, AloneThen
  <2>2. \A q \in Requests \ {r} : Fresh(q)'
    BY <2>1, IdleIsFresh
  <2>3. QED BY <1>2, <2>1, <2>2 DEF SInv
<1>3. ASSUME NEW state, Become(r, state) PROVE inflight'[r] = state
  BY <1>3 DEF Become, TInv
<1>4. Fresh(r) /\ now \in State
  BY DEF SInv, TInv
<1>5. ASSUME Become(r, Idle) PROVE SInv'
  BY <1>2, <1>3, <1>5, IdleIsFresh
<1>6. CASE RefreshCompute(r)
  <2> DEFINE new == [Idle EXCEPT !.stage = "look", !.low = Low, !.todo = Low]
  <2>1. new.stage = "look" /\ new.low = Low /\ new.todo = Low
    BY DEF Idle
  <2>2. Become(r, new) /\ UNCHANGED <<stock, rows>>
    BY <1>6 DEF RefreshCompute
  <2>3. inflight'[r] = new /\ Low' = Low
    BY <1>3, <2>2 DEF Low, Existing
  <2> HIDE DEF new
  <2>4. Fresh(r)'
    BY <2>1, <2>2, <2>3 DEF Fresh, Listed
  <2>5. QED BY <1>2, <2>2, <2>4
<1>7. CASE RefreshLook(r)
  <2> DEFINE d == Min(now.todo)
             own == AutoRows(rows, d)
  <2>1. /\ now.stage = "look" /\ now.todo # {} /\ UNCHANGED <<stock, rows>>
        /\ now.low = Low /\ now.todo \subseteq Low /\ Listed(rows, Low \ now.todo)
    BY <1>4, <1>7 DEF RefreshLook, Fresh
  <2>2. d \in now.todo
    BY <2>1, MinOf, LowExists DEF ShoppingConstants
  <2>3. Low' = Low
    BY <2>1 DEF Low, Existing
  <2>4. CASE own = {} /\ Become(r, [now EXCEPT !.stage = "create", !.definition = d])
    <3> DEFINE new == [now EXCEPT !.stage = "create", !.definition = d]
    <3>1. new.stage = "create" /\ new.definition = d /\ new.low = now.low /\ new.todo = now.todo
      BY <1>4 DEF State
    <3>2. inflight'[r] = new
      BY <1>3, <2>4
    <3> HIDE DEF new, d
    <3>3. Fresh(r)'
      BY <2>1, <2>2, <2>3, <2>4, <3>1, <3>2 DEF Fresh, Listed
    <3>4. QED BY <1>2, <2>4, <3>3
  <2>5. CASE \E i \in own : ~rows[i].bought /\ Become(r, [now EXCEPT !.todo = @ \ {d}])
    <3> DEFINE new == [now EXCEPT !.todo = @ \ {d}]
    <3>1. new.stage = "look" /\ new.low = now.low /\ new.todo = now.todo \ {d}
      BY <1>4, <2>1 DEF State
    <3>2. inflight'[r] = new
      BY <1>3, <2>5
    <3>3. OpenAuto(rows, d) # {}
      BY <2>5 DEF OpenAuto
    <3> HIDE DEF new, d
    <3>4. Listed(rows, Low \ new.todo)
      BY <2>1, <3>1, <3>3 DEF Listed
    <3>5. Fresh(r)'
      BY <2>1, <2>3, <3>1, <3>2, <3>4 DEF Fresh, Listed
    <3>6. QED BY <1>2, <2>5, <3>5 DEF new
  <2>6. CASE \E i \in own : Become(r, [now EXCEPT !.stage = "reopen", !.row = i])
    <3>1. PICK i \in own : Become(r, [now EXCEPT !.stage = "reopen", !.row = i])
      BY <2>6
    <3> DEFINE new == [now EXCEPT !.stage = "reopen", !.row = i]
    <3>2. new.stage = "reopen" /\ new.row = i /\ new.low = now.low /\ new.todo = now.todo
      BY <1>4 DEF State
    <3>3. inflight'[r] = new
      BY <1>3, <3>1
    <3> HIDE DEF new
    <3>4. Fresh(r)'
      BY <2>1, <2>3, <3>1, <3>2, <3>3 DEF Fresh, Listed
    <3>5. QED BY <1>2, <3>1, <3>4
  <2>7. QED BY <1>7, <2>4, <2>5, <2>6 DEF RefreshLook
<1>8. CASE RefreshCreate(r)
  <2> DEFINE d == now.definition
             new == [now EXCEPT !.stage = "look", !.definition = Null, !.todo = @ \ {d}]
  <2>1. /\ now.low = Low /\ now.todo \subseteq Low /\ Listed(rows, Low \ now.todo)
        /\ UNCHANGED stock /\ Become(r, new) /\ rows' = Inserted(rows, NewAuto(d))
    BY <1>4, <1>8 DEF RefreshCreate, Fresh
  <2>2. new.stage = "look" /\ new.low = now.low /\ new.todo = now.todo \ {d}
    BY <1>4 DEF State
  <2>3. inflight'[r] = new /\ Low' = Low
    BY <1>3, <2>1 DEF Low, Existing
  <2>4. Listed(rows', Low \ new.todo)
    <3>1. NextId(rows) \notin DOMAIN rows
      BY NextIdFresh DEF TInv, TableOK
    <3>2. NextId(rows) \in OpenAuto(rows', d)
      BY <2>1, <3>1 DEF Inserted, OpenAuto, AutoRows, NewAuto
    <3>3. \A e : OpenAuto(rows, e) \subseteq OpenAuto(rows', e)
      BY <2>1 DEF Inserted, OpenAuto, AutoRows
    <3> HIDE DEF new
    <3>4. QED BY <2>1, <2>2, <3>2, <3>3 DEF Listed
  <2> HIDE DEF new
  <2>5. Fresh(r)'
    BY <2>1, <2>2, <2>3, <2>4 DEF Fresh, Listed
  <2>6. QED BY <1>2, <2>1, <2>5
<1>9. CASE RefreshList(r)
  <2> DEFINE new == [now EXCEPT !.stage = "prune", !.prune = Recovered(rows, now.low)]
  <2>1. /\ now.low = Low /\ now.todo = {} /\ Listed(rows, Low \ now.todo)
        /\ UNCHANGED <<stock, rows>> /\ Become(r, new)
    BY <1>4, <1>9 DEF RefreshList, Fresh
  <2>2. /\ new.stage = "prune" /\ new.low = now.low /\ new.todo = now.todo
        /\ new.prune = Recovered(rows, now.low)
    BY <1>4 DEF State
  <2>3. inflight'[r] = new /\ Low' = Low
    BY <1>3, <2>1 DEF Low, Existing
  <2> HIDE DEF new
  <2>4. Fresh(r)'
    BY <2>1, <2>2, <2>3 DEF Fresh, Listed
  <2>5. QED BY <1>2, <2>1, <2>4
<1>10. CASE RefreshYield(r) \/ RefreshReopen(r) \/ RefreshPrune(r)
  BY <1>5, <1>10 DEF RefreshYield, RefreshReopen, RefreshPrune
<1>11. QED
  BY <1>6, <1>7, <1>8, <1>9, <1>10 DEF Refresh

LEMMA SerialOfNext ==
  ASSUME ShoppingConstants, TInv, SInv, [Next]_vars
  PROVE  SInv'
<1>1. overlap' = overlap
  BY DEF Next, vars, User, Movement, SilentChange, DeleteDefinition, CreateDefinition, SetAutoAdd,
         AddManual, ClearPurchased, ScanReconcile, Request, LoadCheck, CommitCheck, LoadUncheck,
         CommitUncheck, LoadRemove, CommitRemove, Fail, Refresh, RefreshCompute, RefreshLook,
         RefreshCreate, RefreshYield, RefreshReopen, RefreshList, RefreshPrune
<1>2. SUFFICES ASSUME ~overlap PROVE SInv'
  BY <1>1 DEF SInv
<1>3. CASE User \/ ScanReconcile
  <2>1. Quiet /\ inflight' = inflight
    BY <1>2, <1>3 DEF User, Movement, SilentChange, DeleteDefinition, CreateDefinition, SetAutoAdd,
                      AddManual, ClearPurchased, ScanReconcile, Change
  <2>2. \A r \in Requests : inflight'[r] = Idle
    BY <2>1 DEF Quiet
  <2>3. QED BY <2>2, IdleIsFresh DEF SInv, Alone
<1>4. CASE UNCHANGED vars
  BY <1>4 DEF vars, SInv, Alone, Fresh, Low, Existing
<1>5. QED BY <1>2, <1>3, <1>4, SerialOfRequest, SerialOfRefresh DEF Next

-----------------------------------------------------------------------------
(* What a reconcile does *)

LEMMA ReconcileSteps ==
  ASSUME ShoppingConstants, TInv, SInv,
         ScanReconcile \/ (RefreshEnds /\ ~overlap)
  PROVE  /\ \A d \in Definitions : d \in Low <=> OpenAuto(rows', d) # {}
         /\ \A i \in DOMAIN rows \ DOMAIN rows' : rows[i].source = "auto" /\ ~rows[i].bought
<1>1. TableOK(rows) /\ Low \in SUBSET Definitions
  BY LowExists DEF TInv
<1>2. CASE ScanReconcile
  <2>1. rows' = Reconciled(rows, Low, Low) /\ Listed(rows, Low \ Low)
    BY <1>2 DEF ScanReconcile, Listed
  <2>2. QED BY <1>1, <2>1, ReconcileExact, ReconcilePrunes
<1>3. ASSUME NEW r \in Requests, RefreshYield(r), ~overlap PROVE FALSE
  BY <1>3 DEF RefreshYield, UniqueAuto, SInv, Fresh
<1>4. ASSUME NEW r \in Requests, RefreshReopen(r), ~overlap
      PROVE  /\ \A d \in Definitions : d \in Low <=> OpenAuto(rows', d) # {}
             /\ \A i \in DOMAIN rows \ DOMAIN rows' : rows[i].source = "auto" /\ ~rows[i].bought
  <2> DEFINE now == inflight[r]
             m == Min(now.todo)
             table == [rows EXCEPT ![now.row].bought = FALSE]
  <2>1. /\ now.low = Low /\ now.todo \subseteq Low /\ Listed(rows, Low \ now.todo)
        /\ now.todo # {} /\ now.row \in AutoRows(rows, m)
        /\ rows' = Reconciled(table, now.todo \ {m}, Low)
    BY <1>4 DEF RefreshReopen, SInv, Fresh
  <2>2. now.row \in DOMAIN rows /\ rows[now.row].source = "auto" /\ rows[now.row].definition = m
    BY <2>1 DEF AutoRows
  <2>3. m \in Low
    BY <1>1, <2>1, MinOf DEF ShoppingConstants
  <2>4. /\ TableOK(table) /\ DOMAIN table = DOMAIN rows
        /\ \A j \in DOMAIN rows : /\ table[j].source = rows[j].source
                                  /\ table[j].definition = rows[j].definition
    BY <1>1, <2>2, MarkedOK
  <2>5. /\ ~table[now.row].bought
        /\ \A j \in DOMAIN rows \ {now.row} : table[j] = rows[j]
    BY <1>1, <2>2 DEF TableOK, Row
  <2> HIDE DEF table, m
  <2>6. Listed(table, Low \ (now.todo \ {m}))
    <3>1. now.row \in OpenAuto(table, m)
      BY <2>2, <2>4, <2>5 DEF OpenAuto, AutoRows
    <3>2. \A d : OpenAuto(rows, d) \subseteq OpenAuto(table, d)
      BY <2>4, <2>5 DEF OpenAuto, AutoRows
    <3>3. QED BY <2>1, <3>1, <3>2 DEF Listed
  <2>7. now.todo \ {m} \in SUBSET Low
    BY <2>1
  <2>8. \A d \in Definitions : d \in Low <=> OpenAuto(rows', d) # {}
    BY <1>1, <2>1, <2>4, <2>6, <2>7, ReconcileExact
  <2>9. ASSUME NEW i \in DOMAIN rows \ DOMAIN rows' PROVE rows[i].source = "auto" /\ ~rows[i].bought
    <3>1. i \in DOMAIN table /\ i \notin DOMAIN Reconciled(table, now.todo \ {m}, Low)
      BY <2>1, <2>4
    <3>2. table[i].source = "auto" /\ ~table[i].bought /\ table[i].definition \notin Low
      BY <1>1, <2>4, <2>7, <3>1, ReconcilePrunes
    <3>3. i # now.row
      BY <2>2, <2>3, <2>4, <3>2
    <3>4. QED BY <2>5, <3>2, <3>3
  <2>10. QED BY <2>8, <2>9
<1>5. ASSUME NEW r \in Requests, RefreshPrune(r), ~overlap
      PROVE  /\ \A d \in Definitions : d \in Low <=> OpenAuto(rows', d) # {}
             /\ \A i \in DOMAIN rows \ DOMAIN rows' : rows[i].source = "auto" /\ ~rows[i].bought
  <2>1. Listed(rows, Low) /\ rows' = Without(rows, Recovered(rows, Low))
    BY <1>5 DEF RefreshPrune, SInv, Fresh
  <2>2. \A d : OpenAuto(rows', d) = IF d \in Low THEN OpenAuto(rows, d) ELSE {}
    BY <2>1 DEF OpenAuto, AutoRows, Without, Recovered
  <2>3. QED BY <2>1, <2>2 DEF Listed, Without, Recovered
<1>6. QED BY <1>2, <1>3, <1>4, <1>5 DEF RefreshEnds

\* After a reconcile the open auto rows are exactly the low definitions: after the
\* one of a scan whatever interleaves, after a refresh if no request overlaps it.
THEOREM ReconcilesExactly ==
  ASSUME ShoppingConstants
  PROVE  Spec => ListFollowsSignal
<1>1. TInv /\ SInv /\ [Next]_vars =>
        [ScanReconcile \/ (RefreshEnds /\ ~overlap) =>
           \A d \in Definitions : d \in Low <=> OpenAuto(rows', d) # {}]_vars
  BY ReconcileSteps
<1>2. QED BY <1>1, TypesOfInit, TypesOfNext, SerialOfInit, SerialOfNext, PTL DEF Spec, ListFollowsSignal

\* And takes nothing away but open auto rows: no row a user wrote or checked off.
THEOREM PrunesNothingElse ==
  ASSUME ShoppingConstants
  PROVE  Spec => PrunesOnlyOpenAutoRows
<1>1. TInv /\ SInv /\ [Next]_vars =>
        [ScanReconcile \/ (RefreshEnds /\ ~overlap) =>
           \A i \in DOMAIN rows \ DOMAIN rows' : rows[i].source = "auto" /\ ~rows[i].bought]_vars
  BY ReconcileSteps
<1>2. QED BY <1>1, TypesOfInit, TypesOfNext, SerialOfInit, SerialOfNext, PTL DEF Spec, PrunesOnlyOpenAutoRows
=============================================================================

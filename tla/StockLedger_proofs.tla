------------------------- MODULE StockLedger_proofs -------------------------
(***************************************************************************)
(* Theorems about StockLedger, for every number of requests, lots and      *)
(* movements and every set of inputs: running totals (Sums), types, undo,  *)
(* the cached quantity, the refinement of StockPromise and the FEFO order. *)
(***************************************************************************)
EXTENDS StockLedger, FiniteSetTheorems, TLAPS

-----------------------------------------------------------------------------
(* Running totals: the total exists and is an integer, and one more row     *)
(* adds its value, once.                                                    *)

\* Induction over the naturals, for a set.
LEMMA NatSetInduction ==
  ASSUME NEW S, 0 \in S, \A n \in Nat : n \in S => n + 1 \in S
  PROVE  Nat \subseteq S
<1>1. SUFFICES ASSUME Nat \ S # {} PROVE FALSE
  OBVIOUS
<1>2. \E x \in Nat \ S : \A y \in Nat \ S : ~(y < x)
  <2>1. IsWellFoundedOn(OpToRel(<, Nat), Nat)
    BY NatLessThanWellFounded
  <2>2. Nat \ S \subseteq Nat
    OBVIOUS
  <2>3. \E x \in Nat \ S : \A y \in Nat \ S : <<y, x>> \notin OpToRel(<, Nat)
    BY ONLY <1>1, <2>1, <2>2, WFMin
  <2>4. QED
    BY <2>3 DEF OpToRel
<1>3. PICK x \in Nat \ S : \A y \in Nat \ S : ~(y < x)
  BY <1>2
<1>4. x # 0
  OBVIOUS
<1>5. x - 1 \in Nat /\ x - 1 < x
  BY <1>4
<1>6. x - 1 \in S
  BY <1>3, <1>5
<1>7. x \in S
  BY <1>5, <1>6
<1>8. QED
  BY <1>7

\* A non-empty set of positive integers up to n has a greatest element.
LEMMA GreatestExists ==
  ASSUME NEW n \in Nat, NEW T, T \subseteq 1 .. n, T # {}
  PROVE  \E i \in T : \A j \in T : j <= i
<1> DEFINE S == {m \in Nat : \A U \in SUBSET (1 .. m) :
                   U # {} => \E i \in U : \A j \in U : j <= i}
<1>1. 0 \in S
  BY 1 .. 0 = {}
<1>2. ASSUME NEW m \in Nat, m \in S PROVE m + 1 \in S
  <2> SUFFICES ASSUME NEW U \in SUBSET (1 .. m + 1), U # {}
               PROVE  \E i \in U : \A j \in U : j <= i
    OBVIOUS
  <2>1. CASE m + 1 \in U
    BY <2>1
  <2>2. CASE m + 1 \notin U
    <3>1. U \in SUBSET (1 .. m)
      BY <2>2
    <3>2. QED BY <1>2, <3>1
  <2>3. QED BY <2>1, <2>2
<1> HIDE DEF S
<1>3. Nat \subseteq S
  BY <1>1, <1>2, NatSetInduction
<1>4. QED
  BY <1>3 DEF S

\* The equation a running total of f obeys.
TotalBody(f, total) ==
  [k \in Nat |-> IF k = 0 THEN 0 ELSE total[k - 1] + Contribution(f, k)]

\* A running total of f up to n only.
UpTo(f, n, g) ==
  /\ g \in [0 .. n -> Int]
  /\ g[0] = 0
  /\ \A k \in 1 .. n : g[k] = g[k - 1] + Contribution(f, k)

LEMMA ContributionInt ==
  ASSUME NEW f, \A i \in DOMAIN f : f[i] \in Int, NEW n
  PROVE  Contribution(f, n) \in Int
BY DEF Contribution

LEMMA UpToExists ==
  ASSUME NEW f, \A i \in DOMAIN f : f[i] \in Int
  PROVE  \A n \in Nat : \E g : UpTo(f, n, g)
<1> DEFINE S == {n \in Nat : \E g : UpTo(f, n, g)}
<1>1. 0 \in S
  <2>1. UpTo(f, 0, [k \in 0 .. 0 |-> 0])
    BY DEF UpTo
  <2>2. QED BY <2>1
<1>2. ASSUME NEW n \in Nat, n \in S PROVE n + 1 \in S
  <2>1. PICK g : UpTo(f, n, g)
    BY <1>2
  <2> DEFINE h == [k \in 0 .. n + 1 |-> IF k = n + 1 THEN g[n] + Contribution(f, n + 1) ELSE g[k]]
  <2> HIDE DEF h
  <2>2. g[n] \in Int /\ Contribution(f, n + 1) \in Int
    BY <2>1 DEF UpTo, Contribution
  <2>3. h \in [0 .. n + 1 -> Int] /\ h[0] = 0
    BY <2>1, <2>2 DEF UpTo, h
  <2>4. ASSUME NEW k \in 1 .. n + 1 PROVE h[k] = h[k - 1] + Contribution(f, k)
    <3>1. CASE k = n + 1
      BY <3>1 DEF h
    <3>2. CASE k \in 1 .. n
      BY <3>2, <2>1 DEF UpTo, h
    <3>3. QED BY <3>1, <3>2
  <2>5. UpTo(f, n + 1, h)
    BY <2>3, <2>4 DEF UpTo
  <2>6. QED BY <2>5
<1> HIDE DEF S
<1>3. Nat \subseteq S
  BY <1>1, <1>2, NatSetInduction
<1>4. QED
  BY <1>3 DEF S

LEMMA UpToUnique ==
  ASSUME NEW f, NEW n \in Nat, NEW m \in Nat, n <= m, NEW g, NEW h,
         UpTo(f, n, g), UpTo(f, m, h), NEW k \in 0 .. n
  PROVE  g[k] = h[k]
<1> DEFINE S == {i \in Nat : i \in 0 .. n => g[i] = h[i]}
<1>1. 0 \in S
  BY DEF UpTo
<1>2. ASSUME NEW i \in Nat, i \in S PROVE i + 1 \in S
  <2>1. CASE i + 1 \in 0 .. n
    <3>1. i + 1 \in 1 .. n /\ i + 1 \in 1 .. m /\ i \in 0 .. n
      BY <2>1
    <3>2. g[i + 1] = g[(i + 1) - 1] + Contribution(f, i + 1)
      BY <3>1 DEF UpTo
    <3>3. h[i + 1] = h[(i + 1) - 1] + Contribution(f, i + 1)
      BY <3>1 DEF UpTo
    <3>4. g[i] = h[i]
      BY <1>2, <3>1
    <3>5. QED BY <3>2, <3>3, <3>4
  <2>2. CASE i + 1 \notin 0 .. n
    BY <2>2
  <2>3. QED BY <2>1, <2>2
<1> HIDE DEF S
<1>3. Nat \subseteq S
  BY <1>1, <1>2, NatSetInduction
<1>4. QED
  BY <1>3 DEF S

\* The running total of integers exists: its recursion is well-founded.
LEMMA TotalExists ==
  ASSUME NEW f, \A i \in DOMAIN f : f[i] \in Int
  PROVE  \E total \in [Nat -> Int] : total = TotalBody(f, total)
<1> DEFINE part(n) == CHOOSE g : UpTo(f, n, g)
           total == [n \in Nat |-> part(n)[n]]
<1>1. \A n \in Nat : UpTo(f, n, part(n))
  BY UpToExists
<1> HIDE DEF part
<1>2. total \in [Nat -> Int]
  <2>1. ASSUME NEW n \in Nat PROVE part(n)[n] \in Int
    BY <1>1 DEF UpTo
  <2>2. QED BY <2>1
<1>3. total[0] = 0
  BY <1>1 DEF UpTo
<1>4. ASSUME NEW k \in Nat, k # 0
      PROVE  total[k] = total[k - 1] + Contribution(f, k)
  <2>1. k - 1 \in Nat /\ k - 1 <= k /\ k \in 1 .. k /\ k - 1 \in 0 .. k - 1
    BY <1>4
  <2>2. part(k)[k] = part(k)[k - 1] + Contribution(f, k)
    BY <1>1, <2>1 DEF UpTo
  <2>3. part(k - 1)[k - 1] = part(k)[k - 1]
    BY <1>1, <2>1, UpToUnique
  <2>4. QED BY <2>1, <2>2, <2>3
<1>5. total = TotalBody(f, total)
  BY <1>3, <1>4 DEF TotalBody
<1>6. QED BY <1>2, <1>5

\* The equations by which SumTo is computed.
THEOREM SumToRecursion ==
  ASSUME NEW f, \A i \in DOMAIN f : f[i] \in Int
  PROVE  /\ SumTo(f, 0) = 0
         /\ \A n \in Nat : SumTo(f, n) \in Int
         /\ \A n \in Nat : SumTo(f, n + 1) = SumTo(f, n) + Contribution(f, n + 1)
<1> DEFINE total == CHOOSE g : g = [k \in Nat |-> IF k = 0 THEN 0 ELSE g[k - 1] + Contribution(f, k)]
<1>1. \A n : SumTo(f, n) = total[n]
  BY DEF SumTo
<1>2. PICK g \in [Nat -> Int] : g = TotalBody(f, g)
  BY TotalExists
<1>3. total = [k \in Nat |-> IF k = 0 THEN 0 ELSE total[k - 1] + Contribution(f, k)]
  BY <1>2 DEF TotalBody
<1> HIDE DEF total
<1>4. total[0] = 0
  BY <1>3
<1>5. \A n \in Nat : total[n + 1] = total[n] + Contribution(f, n + 1)
  <2> SUFFICES ASSUME NEW n \in Nat PROVE total[n + 1] = total[n] + Contribution(f, n + 1)
    OBVIOUS
  <2>1. n + 1 \in Nat /\ n + 1 # 0 /\ (n + 1) - 1 = n
    OBVIOUS
  <2>2. QED BY <1>3, <2>1
<1>6. \A n \in Nat : total[n] \in Int
  <2> DEFINE S == {n \in Nat : total[n] \in Int}
  <2>1. 0 \in S
    BY <1>4
  <2>2. \A n \in Nat : n \in S => n + 1 \in S
    BY <1>5, ContributionInt
  <2> HIDE DEF S
  <2>3. Nat \subseteq S
    BY <2>1, <2>2, NatSetInduction
  <2>4. QED BY <2>3 DEF S
<1>7. QED BY <1>1, <1>4, <1>5, <1>6

\* Two tables that differ by d at id k only, and k is summed, differ by d in sum.
THEOREM SumToOneRow ==
  ASSUME NEW f, \A i \in DOMAIN f : f[i] \in Int,
         NEW g, \A i \in DOMAIN g : g[i] \in Int,
         NEW k \in Nat \ {0}, NEW d \in Int,
         Contribution(g, k) = Contribution(f, k) + d,
         \A i \in Nat \ {0, k} : Contribution(g, i) = Contribution(f, i),
         NEW n \in Nat
  PROVE  SumTo(g, n) = SumTo(f, n) + IF k <= n THEN d ELSE 0
<1> DEFINE S == {m \in Nat : SumTo(g, m) = SumTo(f, m) + IF k <= m THEN d ELSE 0}
<1>1. 0 \in S
  BY SumToRecursion
<1>2. ASSUME NEW m \in Nat, m \in S PROVE m + 1 \in S
  <2>1. SumTo(g, m + 1) = SumTo(g, m) + Contribution(g, m + 1)
    BY SumToRecursion
  <2>2. SumTo(f, m + 1) = SumTo(f, m) + Contribution(f, m + 1)
    BY SumToRecursion
  <2>3. /\ SumTo(f, m) \in Int /\ SumTo(g, m) \in Int
        /\ Contribution(f, m + 1) \in Int /\ Contribution(g, m + 1) \in Int
    BY SumToRecursion DEF Contribution
  <2>4. SumTo(g, m) = SumTo(f, m) + IF k <= m THEN d ELSE 0
    BY <1>2
  <2>5. CASE k = m + 1
    BY <2>1, <2>2, <2>3, <2>4, <2>5
  <2>6. CASE k # m + 1
    <3>1. Contribution(g, m + 1) = Contribution(f, m + 1)
      BY <2>6
    <3>2. k <= m + 1 <=> k <= m
      BY <2>6
    <3>3. QED BY <2>1, <2>2, <2>3, <2>4, <3>1, <3>2
  <2>7. QED BY <2>5, <2>6
<1> HIDE DEF S
<1>3. Nat \subseteq S
  BY <1>1, <1>2, NatSetInduction
<1>4. QED
  BY <1>3 DEF S

\* A table without rows adds up to nothing: COALESCE(SUM(..), 0).
THEOREM SumToNothing ==
  ASSUME NEW f, DOMAIN f = {}, NEW n \in Nat
  PROVE  SumTo(f, n) = 0
<1> DEFINE S == {m \in Nat : SumTo(f, m) = 0}
<1>1. 0 \in S
  BY SumToRecursion
<1>2. ASSUME NEW m \in Nat, m \in S PROVE m + 1 \in S
  <2>1. SumTo(f, m + 1) = SumTo(f, m) + Contribution(f, m + 1)
    BY SumToRecursion
  <2>2. Contribution(f, m + 1) = 0
    BY DEF Contribution
  <2>3. QED BY <1>2, <2>1, <2>2
<1> HIDE DEF S
<1>3. Nat \subseteq S
  BY <1>1, <1>2, NatSetInduction
<1>4. QED
  BY <1>3 DEF S

\* Inserting a row adds its value to the sum.
THEOREM SumToInsert ==
  ASSUME NEW f, \A i \in DOMAIN f : f[i] \in Int,
         NEW g, NEW n \in Nat, NEW k \in 1 .. n,
         k \notin DOMAIN f, DOMAIN g = DOMAIN f \cup {k},
         g[k] \in Int, \A i \in DOMAIN f : g[i] = f[i]
  PROVE  SumTo(g, n) = SumTo(f, n) + g[k]
<1>1. \A i \in DOMAIN g : g[i] \in Int
  OBVIOUS
<1>2. Contribution(g, k) = Contribution(f, k) + g[k]
  BY DEF Contribution
<1>3. \A i \in Nat \ {0, k} : Contribution(g, i) = Contribution(f, i)
  BY DEF Contribution
<1>4. SumTo(g, n) = SumTo(f, n) + IF k <= n THEN g[k] ELSE 0
  BY <1>1, <1>2, <1>3, SumToOneRow
<1>5. QED BY <1>4

\* A running total of what is never negative never falls.
THEOREM SumToGrows ==
  ASSUME NEW f, \A i \in DOMAIN f : f[i] \in Nat, NEW a \in Nat, NEW b \in Nat, a <= b
  PROVE  SumTo(f, a) <= SumTo(f, b)
<1> DEFINE S == {m \in Nat : a <= m => SumTo(f, a) <= SumTo(f, m)}
<1>1. 0 \in S
  BY SumToRecursion
<1>2. ASSUME NEW m \in Nat, m \in S PROVE m + 1 \in S
  <2>1. /\ SumTo(f, m + 1) = SumTo(f, m) + Contribution(f, m + 1)
        /\ SumTo(f, m) \in Int /\ SumTo(f, a) \in Int
    BY SumToRecursion
  <2>2. Contribution(f, m + 1) \in Nat
    BY DEF Contribution
  <2>3. a <= m + 1 => a <= m \/ a = m + 1
    OBVIOUS
  <2>4. QED BY <1>2, <2>1, <2>2, <2>3
<1> HIDE DEF S
<1>3. Nat \subseteq S
  BY <1>1, <1>2, NatSetInduction
<1>4. QED BY <1>3 DEF S

-----------------------------------------------------------------------------
(* The inductive type invariant: the tables, and what each kind of prepared *)
(* work carries.                                                            *)

TablesOK(ls, ms) ==
  /\ \A l \in DOMAIN ls : l \in 1 .. MaxLot /\ ls[l] \in Row
  /\ \A i \in DOMAIN ms : i \in 1 .. MaxMovement /\ ms[i] \in Entry
  /\ \A i \in DOMAIN ms : ms[i].lot \in DOMAIN ls

\* The service never assigns a quantity itself, and appends at most one entry
\* for each of the rows it loaded.
RowsWork(w) ==
  /\ w.kind = "rows"
  /\ w.entries \in Seq(Entry)
  /\ DOMAIN w.own = DOMAIN w.seen
  /\ \A l \in DOMAIN w.seen :
       w.seen[l] \in Row /\ w.own[l] \in Row /\ w.own[l].quantity = w.seen[l].quantity
  /\ \A k \in DOMAIN w.entries : w.entries[k].lot \in DOMAIN w.seen
  /\ \A j, k \in DOMAIN w.entries : w.entries[j].lot = w.entries[k].lot => j = k
  /\ \A k \in DOMAIN w.entries : w.entries[k].type = "move" => w.entries[k].delta = 0

\* The rows the work was prepared from are the table's rows.
Fresh(w) ==
  /\ DOMAIN w.seen \subseteq DOMAIN lots
  /\ \A l \in DOMAIN w.seen : w.seen[l] = lots[l]

\* Every entry leaves its lot at zero or above, or is an intake or a move,
\* which take nothing.
Leaves(w) ==
  \A k \in DOMAIN w.entries :
    \/ OrZero(w.seen[w.entries[k].lot].quantity) + w.entries[k].delta >= 0
    \/ w.entries[k].type \in {"intake", "move"} /\ w.entries[k].delta >= 0

\* What row work is when it has just been prepared.
Loaded(w) == RowsWork(w) /\ Fresh(w) /\ Leaves(w)

CreateWork(w) ==
  /\ w.kind = "create"
  /\ w.row \in Row /\ w.row.quantity = Null
  /\ w.ask.n \in Maybe(Int)

OtherWork(w) == w.kind = "delete" \/ (w.kind = "mode" /\ w.new \in Modes)

Work(w) == w = Idle \/ RowsWork(w) \/ CreateWork(w) \/ OtherWork(w)

TInv ==
  /\ mode \in Modes
  /\ TablesOK(lots, movements)
  /\ DOMAIN inflight = Requests
  /\ \A r \in Requests : Work(inflight[r])

-----------------------------------------------------------------------------
(* Lemmas about the operators *)

LEMMA LastIdIsLast ==
  ASSUME NEW table, NEW n \in Nat, DOMAIN table \subseteq 1 .. n
  PROVE  /\ LastId(table) \in 0 .. n
         /\ \A i \in DOMAIN table : i <= LastId(table)
<1>1. CASE DOMAIN table = {}
  BY <1>1 DEF LastId
<1>2. CASE DOMAIN table # {}
  <2>1. \E i \in DOMAIN table : \A j \in DOMAIN table : j <= i
    BY <1>2, GreatestExists
  <2>2. LastId(table) = CHOOSE i \in DOMAIN table : \A j \in DOMAIN table : j <= i
    BY <1>2 DEF LastId
  <2>3. LastId(table) \in DOMAIN table /\ \A j \in DOMAIN table : j <= LastId(table)
    BY <2>1, <2>2
  <2>4. QED BY <2>3
<1>3. QED BY <1>1, <1>2

\* The sum over a lot is an integer.
LEMMA SumDeltasInt ==
  ASSUME NEW ms, \A i \in DOMAIN ms : ms[i] \in Entry, NEW l
  PROVE  SumDeltas(ms, l) \in Int
<1> DEFINE f == [i \in {j \in DOMAIN ms : ms[j].lot = l} |-> ms[i].delta]
<1>1. \A i \in DOMAIN f : f[i] \in Int
  BY DEF Entry
<1>2. SumTo(f, MaxMovement) \in Int
  BY <1>1, SumToRecursion, LedgerConstants
<1>3. QED BY <1>2 DEF SumDeltas

\* A flushed row has, column by column, the assigned value if it differs from
\* the loaded one and the table's value otherwise.
LEMMA FlushedRow ==
  ASSUME NEW seen \in Row, NEW own \in Row, NEW now \in Row
  PROVE  /\ Flushed(seen, own, now) \in Row
         /\ Flushed(seen, own, now).quantity =
              IF own.quantity = seen.quantity THEN now.quantity ELSE own.quantity
BY DEF Flushed, Row

LEMMA RecomputedRow ==
  ASSUME NEW w, RowsWork(w), NEW l \in DOMAIN w.seen, NEW ms,
         \A i \in DOMAIN ms : ms[i] \in Entry
  PROVE  /\ Recomputed(w, l, ms) \in Row
         /\ \/ Recomputed(w, l, ms).quantity = w.seen[l].quantity
            \/ Recomputed(w, l, ms).quantity = SumDeltas(ms, l)
<1>1. SumDeltas(ms, l) \in Maybe(Int)
  BY SumDeltasInt DEF Maybe
<1>2. w.own[l] \in Row /\ w.own[l].quantity = w.seen[l].quantity
  BY DEF RowsWork
<1>3. [w.own[l] EXCEPT !.quantity = SumDeltas(ms, l)] \in Row
  BY <1>1, <1>2 DEF Row
<1>4. [w.own[l] EXCEPT !.quantity = SumDeltas(ms, l)].quantity = SumDeltas(ms, l)
  BY <1>2 DEF Row
<1>5. QED BY <1>2, <1>3, <1>4 DEF Recomputed

\* Appending keeps every row and adds the entries behind the last id.
LEMMA AppendedRows ==
  ASSUME TablesOK(lots, movements), NEW entries \in Seq(Entry),
         LastId(movements) + Len(entries) <= MaxMovement
  PROVE  /\ DOMAIN Appended(entries) =
              DOMAIN movements \cup {LastId(movements) + k : k \in DOMAIN entries}
         /\ \A i \in DOMAIN movements : Appended(entries)[i] = movements[i]
         /\ \A k \in DOMAIN entries :
              /\ LastId(movements) + k \notin DOMAIN movements
              /\ Appended(entries)[LastId(movements) + k] = entries[k]
         /\ \A i \in DOMAIN Appended(entries) :
              i \in 1 .. MaxMovement /\ Appended(entries)[i] \in Entry
<1> DEFINE last == LastId(movements)
<1>1. /\ last \in 0 .. MaxMovement
      /\ \A i \in DOMAIN movements : i <= last
  BY LastIdIsLast, LedgerConstants DEF TablesOK
<1> HIDE DEF last
<1>2. DOMAIN entries = 1 .. Len(entries) /\ Len(entries) \in Nat
  OBVIOUS
<1>3. \A k \in DOMAIN entries : entries[k] \in Entry
  OBVIOUS
<1>4. Appended(entries) =
        [i \in DOMAIN movements \cup {last + k : k \in DOMAIN entries} |->
           IF i <= last THEN movements[i] ELSE entries[i - last]]
  BY DEF Appended, last
<1>5. \A i \in DOMAIN movements : Appended(entries)[i] = movements[i]
  BY <1>1, <1>4
<1>6. ASSUME NEW k \in DOMAIN entries
      PROVE  /\ last + k \notin DOMAIN movements
             /\ Appended(entries)[last + k] = entries[k]
  <2>1. ~(last + k <= last) /\ (last + k) - last = k
    BY <1>1, <1>2
  <2>2. QED BY <1>1, <1>4, <2>1
<1>7. ASSUME NEW i \in DOMAIN Appended(entries)
      PROVE  i \in 1 .. MaxMovement /\ Appended(entries)[i] \in Entry
  <2>1. CASE i \in DOMAIN movements
    BY <2>1, <1>5 DEF TablesOK
  <2>2. CASE i \in {last + k : k \in DOMAIN entries}
    <3>1. PICK k \in DOMAIN entries : i = last + k
      BY <2>2
    <3>2. i \in 1 .. MaxMovement
      BY <3>1, <1>1, <1>2, LedgerConstants DEF last
    <3>3. QED BY <3>1, <3>2, <1>3, <1>6
  <2>3. QED BY <1>4, <2>1, <2>2
<1>8. QED BY <1>4, <1>5, <1>6, <1>7 DEF last

-----------------------------------------------------------------------------
(* Types *)

LEMMA TInvInit == Init => TInv
<1> SUFFICES ASSUME Init PROVE TInv
  OBVIOUS
<1>1. DOMAIN lots = {} /\ DOMAIN movements = {}
  BY DEF Init
<1>2. TablesOK(lots, movements)
  BY <1>1 DEF TablesOK
<1>3. mode \in Modes /\ DOMAIN inflight = Requests /\ \A r \in Requests : Work(inflight[r])
  BY LedgerConstants DEF Init, Work
<1>4. QED BY <1>2, <1>3 DEF TInv

\* Preparing well-formed work keeps the invariant.
LEMMA PrepareKeeps ==
  ASSUME TInv, NEW r \in Requests, NEW w, Work(w), Prepare(r, w)
  PROVE  TInv'
BY DEF TInv, Prepare, TablesOK, Work, RowsWork, CreateWork, OtherWork

\* Work on one loaded row with one entry, or none, is well-formed.
LEMMA OneRowWork ==
  ASSUME TInv, NEW ask, NEW l \in DOMAIN lots, NEW row \in Row,
         row.quantity = lots[l].quantity,
         NEW entries,
         entries # <<>> =>
           \E e \in Entry :
             /\ e.lot = l /\ entries = <<e>>
             /\ e.type = "move" => e.delta = 0
             /\ \/ OrZero(lots[l].quantity) + e.delta >= 0
                \/ e.type \in {"intake", "move"} /\ e.delta >= 0
  PROVE  Loaded(RowWork(ask, entries, OneLot(l, row)))
<1> DEFINE w == RowWork(ask, entries, OneLot(l, row))
<1>1. /\ w.kind = "rows" /\ w.entries = entries
      /\ w.own = [k \in {l} |-> row] /\ w.seen = [k \in {l} |-> lots[k]]
  BY DEF RowWork, OneLot
<1>2. lots[l] \in Row
  BY DEF TInv, TablesOK
<1>3. /\ entries \in Seq(Entry)
      /\ \A k \in DOMAIN entries :
           /\ k = 1 /\ entries[k].lot = l
           /\ entries[k].type = "move" => entries[k].delta = 0
           /\ \/ OrZero(lots[l].quantity) + entries[k].delta >= 0
              \/ entries[k].type \in {"intake", "move"} /\ entries[k].delta >= 0
  <2>1. CASE entries = <<>>
    BY <2>1
  <2>2. CASE entries # <<>>
    <3>1. PICK e \in Entry :
             /\ e.lot = l /\ entries = <<e>>
             /\ e.type = "move" => e.delta = 0
             /\ \/ OrZero(lots[l].quantity) + e.delta >= 0
                \/ e.type \in {"intake", "move"} /\ e.delta >= 0
      BY <2>2
    <3>2. entries \in Seq(Entry) /\ DOMAIN entries = {1} /\ entries[1] = e
      BY <3>1
    <3>3. QED BY <3>1, <3>2
  <2>3. QED BY <2>1, <2>2
<1> HIDE DEF w
<1>4. RowsWork(w)
  BY <1>1, <1>2, <1>3 DEF RowsWork
<1>5. Fresh(w)
  BY <1>1 DEF Fresh
<1>6. Leaves(w)
  BY <1>1, <1>3 DEF Leaves
<1>7. QED BY <1>4, <1>5, <1>6 DEF Loaded, w

LEMMA MovementEntry ==
  ASSUME NEW l \in Nat, NEW type \in MovementTypes, NEW delta \in Int,
         NEW from \in Maybe(Locations), NEW to \in Maybe(Locations),
         NEW reverses \in Maybe(Nat)
  PROVE  /\ Movement(l, type, delta, from, to, reverses) \in Entry
         /\ Movement(l, type, delta, from, to, reverses).lot = l
         /\ Movement(l, type, delta, from, to, reverses).delta = delta
         /\ Movement(l, type, delta, from, to, reverses).type = type
BY DEF Movement, Entry

LEMMA LotRow ==
  ASSUME TInv, NEW l \in DOMAIN lots
  PROVE  /\ l \in Nat /\ lots[l] \in Row
         /\ lots[l].quantity \in Maybe(Int) /\ OrZero(lots[l].quantity) \in Int
         /\ lots[l].location \in Maybe(Locations)
         /\ Null \in Maybe(Locations) /\ Null \in Maybe(Nat)
BY LedgerConstants DEF TInv, TablesOK, Row, Maybe, OrZero

LEMMA IntakeWork ==
  ASSUME TInv, NEW r \in Requests, LoadIntake(r)
  PROVE  \E w : Prepare(r, w) /\ Loaded(w)
<1>1. PICK l \in DOMAIN lots, n \in Amounts :
        /\ n > 0
        /\ Prepare(r, RowWork(Ask("intake", l, n),
             <<Movement(l, "intake", n, Null, lots[l].location, Null)>>, OneLot(l, lots[l])))
  BY DEF LoadIntake
<1> DEFINE e == Movement(l, "intake", n, Null, lots[l].location, Null)
<1>2. n \in Int /\ "intake" \in MovementTypes
  BY LedgerConstants DEF MovementTypes
<1>3. e \in Entry /\ e.lot = l /\ e.delta = n /\ e.type = "intake"
  BY <1>2, LotRow, MovementEntry
<1> HIDE DEF e
<1>4. e.delta >= 0
  BY <1>1, <1>2, <1>3
<1>5. Loaded(RowWork(Ask("intake", l, n), <<e>>, OneLot(l, lots[l])))
  BY <1>3, <1>4, LotRow, OneRowWork
<1>6. QED
  BY <1>1, <1>5 DEF e

LEMMA DiscardWork ==
  ASSUME TInv, NEW r \in Requests, LoadDiscard(r)
  PROVE  \E w : Prepare(r, w) /\ Loaded(w)
<1>1. PICK l \in DOMAIN lots, n \in Amounts :
        /\ Covers(lots[l], n)
        /\ Prepare(r, RowWork(Ask("discard", l, n),
             <<Movement(l, "discard", -n, Null, Null, Null)>>, OneLot(l, lots[l])))
  BY DEF LoadDiscard
<1> DEFINE e == Movement(l, "discard", -n, Null, Null, Null)
<1>2. n \in Int /\ -n \in Int
  BY LedgerConstants
<1>3. e \in Entry /\ e.lot = l /\ e.delta = -n /\ e.type = "discard"
  BY <1>2, LotRow, MovementEntry DEF MovementTypes
<1> HIDE DEF e
<1>4. OrZero(lots[l].quantity) + e.delta >= 0
  BY <1>1, <1>2, <1>3, LotRow DEF Covers
<1>5. Loaded(RowWork(Ask("discard", l, n), <<e>>, OneLot(l, lots[l])))
  BY <1>3, <1>4, LotRow, OneRowWork
<1>6. QED
  BY <1>1, <1>5 DEF e

LEMMA AdjustWork ==
  ASSUME TInv, NEW r \in Requests, LoadAdjust(r)
  PROVE  \E w : Prepare(r, w) /\ Loaded(w)
<1>1. PICK l \in DOMAIN lots, n \in Amounts :
        /\ n >= 0
        /\ Prepare(r, RowWork(Ask("adjust", l, n),
             <<Movement(l, "adjust", n - OrZero(lots[l].quantity), Null, Null, Null)>>,
             OneLot(l, lots[l])))
  BY DEF LoadAdjust
<1> DEFINE e == Movement(l, "adjust", n - OrZero(lots[l].quantity), Null, Null, Null)
<1>2. n \in Int /\ n - OrZero(lots[l].quantity) \in Int
  BY LedgerConstants, LotRow
<1>3. e \in Entry /\ e.lot = l /\ e.delta = n - OrZero(lots[l].quantity) /\ e.type = "adjust"
  BY <1>2, LotRow, MovementEntry DEF MovementTypes
<1> HIDE DEF e
<1>4. OrZero(lots[l].quantity) + e.delta >= 0
  BY <1>1, <1>2, <1>3, LotRow
<1>5. Loaded(RowWork(Ask("adjust", l, n), <<e>>, OneLot(l, lots[l])))
  BY <1>3, <1>4, LotRow, OneRowWork
<1>6. QED
  BY <1>1, <1>5 DEF e

LEMMA MoveWork ==
  ASSUME TInv, NEW r \in Requests, LoadMove(r)
  PROVE  \E w : Prepare(r, w) /\ Loaded(w)
<1>1. PICK l \in DOMAIN lots, place \in Locations :
        Prepare(r, RowWork(Ask("move", l, 0),
          <<Movement(l, "move", 0, lots[l].location, place, Null)>>,
          OneLot(l, [lots[l] EXCEPT !.location = place])))
  BY DEF LoadMove
<1> DEFINE e == Movement(l, "move", 0, lots[l].location, place, Null)
           own == [lots[l] EXCEPT !.location = place]
<1>2. place \in Maybe(Locations)
  BY DEF Maybe
<1>3. e \in Entry /\ e.lot = l /\ e.delta = 0 /\ e.type = "move"
  BY <1>2, LotRow, MovementEntry DEF MovementTypes
<1>4. own \in Row /\ own.quantity = lots[l].quantity
  BY <1>2, LotRow DEF Row
<1> HIDE DEF e, own
<1>5. Loaded(RowWork(Ask("move", l, 0), <<e>>, OneLot(l, own)))
  BY <1>3, <1>4, OneRowWork
<1>6. QED
  BY <1>1, <1>5 DEF e, own

LEMMA PatchWork ==
  ASSUME TInv, NEW r \in Requests, LoadPatch(r)
  PROVE  \E w : Prepare(r, w) /\ Loaded(w)
<1>1. PICK l \in DOMAIN lots, serial \in Maybe(Serials), place \in Maybe(Locations),
           bestBefore \in Maybe(Dates), level \in Maybe(Levels) :
        Prepare(r, RowWork(Ask("patch", l, 0), <<>>,
          OneLot(l, Patched(lots[l], serial, place, bestBefore, level))))
  BY Zenon DEF LoadPatch
<1>2. /\ Patched(lots[l], serial, place, bestBefore, level) \in Row
      /\ Patched(lots[l], serial, place, bestBefore, level).quantity = lots[l].quantity
  BY LotRow DEF Row, Patched
<1>3. QED
  BY <1>1, <1>2, OneRowWork

LEMMA ReverseWork ==
  ASSUME TInv, NEW r \in Requests, LoadReverse(r)
  PROVE  \E w : Prepare(r, w) /\ Loaded(w)
<1> DEFINE Back(i) == movements[i].type = "move"
           Undo(i) == Movement(movements[i].lot, "correction", -movements[i].delta,
                        IF Back(i) THEN movements[i].to ELSE Null,
                        IF Back(i) THEN movements[i].from ELSE Null, i)
           Own(i) == IF Back(i)
                     THEN [lots[movements[i].lot] EXCEPT !.location = movements[i].from]
                     ELSE lots[movements[i].lot]
<1>1. PICK i \in DOMAIN movements :
        /\ Covers(lots[movements[i].lot], movements[i].delta)
        /\ Prepare(r, RowWork(Ask("reverse", movements[i].lot, -movements[i].delta),
             <<Undo(i)>>, OneLot(movements[i].lot, Own(i))))
  BY Zenon DEF LoadReverse
<1>2. /\ movements[i] \in Entry /\ movements[i].lot \in DOMAIN lots /\ i \in Nat
      /\ movements[i].delta \in Int
      /\ movements[i].from \in Maybe(Locations) /\ movements[i].to \in Maybe(Locations)
  BY DEF TInv, TablesOK, Entry
<1>3. i \in Maybe(Nat) /\ -movements[i].delta \in Int /\ "correction" \in MovementTypes
  BY <1>2 DEF Maybe, MovementTypes
<1>4. /\ (IF Back(i) THEN movements[i].to ELSE Null) \in Maybe(Locations)
      /\ (IF Back(i) THEN movements[i].from ELSE Null) \in Maybe(Locations)
      /\ movements[i].lot \in Nat
  BY <1>2, LotRow
<1>5. /\ Undo(i) \in Entry /\ Undo(i).lot = movements[i].lot
      /\ Undo(i).delta = -movements[i].delta /\ Undo(i).type = "correction"
  BY <1>3, <1>4, MovementEntry
<1>6. Own(i) \in Row /\ Own(i).quantity = lots[movements[i].lot].quantity
  BY <1>2, LotRow DEF Row
<1> HIDE DEF Undo, Own
<1>7. OrZero(lots[movements[i].lot].quantity) + Undo(i).delta >= 0
  BY <1>1, <1>2, <1>5, LotRow DEF Covers
<1>8. Loaded(RowWork(Ask("reverse", movements[i].lot, -movements[i].delta),
          <<Undo(i)>>, OneLot(movements[i].lot, Own(i))))
  BY <1>2, <1>5, <1>6, <1>7, OneRowWork
<1>9. QED
  BY <1>1, <1>8

LEMMA QueueLength ==
  ASSUME TInv
  PROVE  IsFiniteSet(ActiveLots(lots)) /\ Cardinality(ActiveLots(lots)) \in Nat
<1>1. ActiveLots(lots) \subseteq 1 .. MaxLot
  BY DEF ActiveLots, TInv, TablesOK
<1>2. IsFiniteSet(1 .. MaxLot)
  BY FS_Interval, LedgerConstants
<1>3. IsFiniteSet(ActiveLots(lots))
  BY <1>1, <1>2, FS_Subset
<1>4. QED BY <1>3, FS_CardinalityType

\* What is still wanted at a lot of the queue, and what it gives.
LEMMA TakeBounds ==
  ASSUME TInv, NEW queue \in FefoQueues(lots), NEW n \in Int, NEW k \in DOMAIN queue
  PROVE  /\ queue[k] \in DOMAIN lots
         /\ lots[queue[k]].quantity \in Int /\ lots[queue[k]].quantity > 0
         /\ Take(queue, n, k) \in Int
         /\ Take(queue, n, k) <= lots[queue[k]].quantity
<1>1. /\ queue \in [1 .. Cardinality(ActiveLots(lots)) -> ActiveLots(lots)]
      /\ DOMAIN queue = 1 .. Cardinality(ActiveLots(lots))
  BY DEF FefoQueues
<1>2. \A j \in DOMAIN queue : /\ queue[j] \in DOMAIN lots
                              /\ lots[queue[j]].quantity \in Int
                              /\ lots[queue[j]].quantity > 0
  <2> SUFFICES ASSUME NEW j \in DOMAIN queue
               PROVE  /\ queue[j] \in DOMAIN lots
                      /\ lots[queue[j]].quantity \in Int
                      /\ lots[queue[j]].quantity > 0
    OBVIOUS
  <2>1. queue[j] \in ActiveLots(lots)
    BY <1>1
  <2>2. QED BY <2>1, LotRow DEF ActiveLots, Maybe
<1> DEFINE q == [j \in DOMAIN queue |-> lots[queue[j]].quantity]
<1>3. \A j \in DOMAIN q : q[j] \in Int
  BY <1>2
<1>4. k - 1 \in Nat
  BY <1>1, QueueLength
<1> HIDE DEF q
<1>5. SumTo(q, k - 1) \in Int
  BY <1>3, <1>4, SumToRecursion
<1>6. StillWanted(queue, n, k) \in Int
  BY <1>5 DEF StillWanted, q
<1>7. QED BY <1>2, <1>6 DEF Take

\* No lot is twice in the queue.
LEMMA QueueDistinct ==
  ASSUME TInv, NEW queue \in FefoQueues(lots),
         NEW j \in DOMAIN queue, NEW k \in DOMAIN queue, queue[j] = queue[k]
  PROVE  j = k
<1>1. /\ queue \in [1 .. Cardinality(ActiveLots(lots)) -> ActiveLots(lots)]
      /\ \A x, y \in DOMAIN queue : x < y => Before(lots, queue[x], queue[y])
  BY DEF FefoQueues
<1>2. j \in Int /\ k \in Int
  BY <1>1, QueueLength
<1>3. ASSUME NEW l \in DOMAIN lots PROVE ~Before(lots, l, l)
  <2>1. lots[l].bestBefore \in Maybe(Dates) /\ l \in Nat
    BY LotRow DEF Row
  <2>2. lots[l].bestBefore # Null => lots[l].bestBefore \in Int
    BY <2>1, LedgerConstants DEF Maybe
  <2>3. QED BY <2>1, <2>2 DEF Before
<1>4. queue[k] \in DOMAIN lots
  BY <1>1 DEF ActiveLots
<1>5. ~Before(lots, queue[k], queue[k])
  BY <1>3, <1>4
<1>6. ~(j < k) /\ ~(k < j)
  BY <1>1, <1>5
<1>7. QED BY <1>2, <1>6

LEMMA ConsumeWork ==
  ASSUME TInv, NEW r \in Requests, LoadConsume(r)
  PROVE  \E w : Prepare(r, w) /\ Loaded(w)
<1> DEFINE Drawn(n, queue) == {k \in DOMAIN queue : StillWanted(queue, n, k) > 0}
           Draw(n, queue) ==
             [k \in 1 .. Cardinality(Drawn(n, queue)) |->
                Movement(queue[k], "consume", -Take(queue, n, k), Null, Null, Null)]
           Rows(n, queue) ==
             [l \in {queue[k] : k \in 1 .. Cardinality(Drawn(n, queue))} |-> lots[l]]
<1>1. PICK n \in Amounts, queue \in FefoQueues(lots) :
        Prepare(r, RowWork(Ask("consume", 0, n), Draw(n, queue), Rows(n, queue)))
  BY Zenon DEF LoadConsume
<1>2. n \in Int
  BY LedgerConstants
<1> DEFINE stop == Cardinality(Drawn(n, queue))
           len == Cardinality(ActiveLots(lots))
           w == RowWork(Ask("consume", 0, n), Draw(n, queue), Rows(n, queue))
<1>3. DOMAIN queue = 1 .. len /\ len \in Nat
  BY QueueLength DEF FefoQueues
<1>4. stop \in Nat /\ stop <= len
  <2>1. IsFiniteSet(1 .. len) /\ Cardinality(1 .. len) = len
    <3> HIDE DEF len
    <3>1. QED BY <1>3, FS_Interval
  <2>2. Drawn(n, queue) \in SUBSET (1 .. len)
    BY <1>3
  <2>3. IsFiniteSet(Drawn(n, queue)) /\ stop <= len
    <3> HIDE DEF Drawn, len
    <3>1. QED BY <2>1, <2>2, FS_Subset
  <2>4. QED BY <2>3, FS_CardinalityType
<1> HIDE DEF Drawn
<1>5. \A k \in 1 .. stop : k \in DOMAIN queue
  <2> HIDE DEF len, stop
  <2>1. QED BY <1>3, <1>4
<1>6. \A k \in 1 .. stop :
        /\ Movement(queue[k], "consume", -Take(queue, n, k), Null, Null, Null) \in Entry
        /\ Movement(queue[k], "consume", -Take(queue, n, k), Null, Null, Null).lot = queue[k]
        /\ Movement(queue[k], "consume", -Take(queue, n, k), Null, Null, Null).type = "consume"
        /\ Movement(queue[k], "consume", -Take(queue, n, k), Null, Null, Null).delta
             = -Take(queue, n, k)
        /\ queue[k] \in DOMAIN lots
  <2> HIDE DEF stop
  <2> SUFFICES ASSUME NEW k \in 1 .. stop
      PROVE
        /\ Movement(queue[k], "consume", -Take(queue, n, k), Null, Null, Null) \in Entry
        /\ Movement(queue[k], "consume", -Take(queue, n, k), Null, Null, Null).lot = queue[k]
        /\ Movement(queue[k], "consume", -Take(queue, n, k), Null, Null, Null).type = "consume"
        /\ Movement(queue[k], "consume", -Take(queue, n, k), Null, Null, Null).delta
             = -Take(queue, n, k)
        /\ queue[k] \in DOMAIN lots
    OBVIOUS
  <2>1. queue[k] \in DOMAIN lots /\ Take(queue, n, k) \in Int
    BY <1>2, <1>5, TakeBounds
  <2>2. -Take(queue, n, k) \in Int /\ "consume" \in MovementTypes
    BY <2>1 DEF MovementTypes
  <2>3. QED BY <2>1, <2>2, LotRow, MovementEntry
<1>7. /\ Draw(n, queue) \in Seq(Entry) /\ DOMAIN Draw(n, queue) = 1 .. stop
      /\ \A k \in 1 .. stop : /\ Draw(n, queue)[k].lot = queue[k]
                              /\ Draw(n, queue)[k].type = "consume"
                              /\ Draw(n, queue)[k].delta = -Take(queue, n, k)
  <2> HIDE DEF stop
  <2>1. Draw(n, queue) = [k \in 1 .. stop |->
            Movement(queue[k], "consume", -Take(queue, n, k), Null, Null, Null)]
    BY DEF stop
  <2> HIDE DEF Draw
  <2>2. QED BY <1>4, <1>6, <2>1
<1>8. /\ w.kind = "rows" /\ w.entries = Draw(n, queue) /\ w.own = Rows(n, queue)
      /\ w.seen = Rows(n, queue)
  BY DEF RowWork
<1>9. \A l \in DOMAIN Rows(n, queue) :
        /\ l \in DOMAIN lots
        /\ Rows(n, queue)[l] = lots[l] /\ Rows(n, queue)[l] \in Row
  <2> HIDE DEF stop
  <2>1. Rows(n, queue) = [l \in {queue[k] : k \in 1 .. stop} |-> lots[l]]
    BY DEF stop
  <2> HIDE DEF Rows
  <2>2. QED BY <2>1, <1>6, LotRow
<1>10. DOMAIN Rows(n, queue) = {queue[k] : k \in 1 .. stop}
  OBVIOUS
<1> HIDE DEF stop, w, Draw, Rows
<1>11. \A j, k \in 1 .. stop : queue[j] = queue[k] => j = k
  BY <1>5, QueueDistinct
<1>12. RowsWork(w)
  BY <1>7, <1>8, <1>9, <1>10, <1>11 DEF RowsWork
<1>13. Fresh(w)
  BY <1>8, <1>9 DEF Fresh
<1>14. Leaves(w)
  <2> SUFFICES ASSUME NEW k \in 1 .. stop
               PROVE  OrZero(w.seen[queue[k]].quantity) - Take(queue, n, k) >= 0
    BY <1>7, <1>8, TakeBounds, <1>2, <1>5, LotRow, <1>9, <1>10 DEF Leaves
  <2>1. w.seen[queue[k]] = lots[queue[k]]
    BY <1>8, <1>9, <1>10
  <2>2. /\ lots[queue[k]].quantity \in Int /\ Take(queue, n, k) \in Int
        /\ Take(queue, n, k) <= lots[queue[k]].quantity
    BY <1>2, <1>5, TakeBounds
  <2>3. QED BY <2>1, <2>2, LedgerConstants DEF OrZero
<1>15. QED
  BY <1>1, <1>12, <1>13, <1>14 DEF Loaded, w

LEMMA RowLoads ==
  ASSUME TInv, NEW r \in Requests,
         LoadIntake(r) \/ LoadDiscard(r) \/ LoadAdjust(r) \/ LoadMove(r)
           \/ LoadConsume(r) \/ LoadReverse(r) \/ LoadPatch(r)
  PROVE  \E w : Prepare(r, w) /\ Loaded(w)
BY IntakeWork, DiscardWork, AdjustWork, MoveWork, ConsumeWork, ReverseWork, PatchWork

LEMMA OtherLoads ==
  ASSUME TInv, NEW r \in Requests, LoadCreate(r) \/ LoadDelete(r) \/ LoadMode(r)
  PROVE  TInv'
<1>1. CASE LoadCreate(r)
  <2>1. PICK n \in InitialAmounts, serial \in Maybe(Serials), place \in Maybe(Locations),
             bestBefore \in Maybe(Dates), level \in Maybe(Levels) :
          Prepare(r,
            [kind |-> "create",
             ask |-> Ask("create", 0, IF mode = "exact" THEN (IF n = Null THEN 1 ELSE n) ELSE Null),
             row |-> [quantity |-> Null, level |-> level, location |-> place,
                      serial |-> serial, bestBefore |-> bestBefore]])
    BY <1>1, Zenon DEF LoadCreate
  <2> DEFINE a == IF mode = "exact" THEN (IF n = Null THEN 1 ELSE n) ELSE Null
             row == [quantity |-> Null, level |-> level, location |-> place,
                     serial |-> serial, bestBefore |-> bestBefore]
             w == [kind |-> "create", ask |-> Ask("create", 0, a), row |-> row]
  <2>2. a \in Maybe(Int)
    BY LedgerConstants DEF Maybe
  <2>3. row \in Row /\ row.quantity = Null
    BY DEF Row, Maybe
  <2> HIDE DEF a, row
  <2>4. CreateWork(w)
    BY <2>2, <2>3 DEF CreateWork, Ask
  <2>5. Prepare(r, w)
    BY <2>1 DEF a, row
  <2> HIDE DEF w
  <2>6. QED BY <2>4, <2>5, PrepareKeeps DEF Work
<1>2. CASE LoadDelete(r)
  <2>1. PICK l \in DOMAIN lots : Prepare(r, [kind |-> "delete", ask |-> Ask("delete", l, 0)])
    BY <1>2 DEF LoadDelete
  <2>2. OtherWork([kind |-> "delete", ask |-> Ask("delete", l, 0)])
    BY DEF OtherWork
  <2>3. QED BY <2>1, <2>2, PrepareKeeps DEF Work
<1>3. CASE LoadMode(r)
  <2>1. PICK new \in Modes : Prepare(r, [kind |-> "mode", ask |-> Ask("mode", 0, 0), new |-> new])
    BY <1>3 DEF LoadMode
  <2>2. OtherWork([kind |-> "mode", ask |-> Ask("mode", 0, 0), new |-> new])
    BY DEF OtherWork
  <2>3. QED BY <2>1, <2>2, PrepareKeeps DEF Work
<1>4. QED BY <1>1, <1>2, <1>3

\* A finished request leaves well-formed work behind.
LEMMA FinishedKeeps ==
  ASSUME TInv, NEW r \in Requests, Finished(r)
  PROVE  DOMAIN inflight' = Requests /\ \A q \in Requests : Work(inflight'[q])
BY DEF TInv, Finished, Work

\* What a committed unit of row work leaves in the tables.
LEMMA RowsCommitted ==
  ASSUME TInv, NEW r \in Requests, CommitRows(r)
  PROVE  LET w == inflight[r] IN
         /\ RowsWork(w)
         /\ DOMAIN w.seen \subseteq DOMAIN lots
         /\ LastId(movements) + Len(w.entries) <= MaxMovement
         /\ movements' = Appended(w.entries)
         /\ \A i \in DOMAIN movements' :
              i \in 1 .. MaxMovement /\ movements'[i] \in Entry
         /\ DOMAIN lots' = DOMAIN lots
         /\ \A l \in DOMAIN lots : l \notin DOMAIN w.seen => lots'[l] = lots[l]
         /\ \A l \in DOMAIN w.seen :
              /\ lots'[l] = Flushed(w.seen[l], Recomputed(w, l, movements'), lots[l])
              /\ lots'[l] \in Row
<1> DEFINE w == inflight[r]
<1>1. /\ w.kind = "rows" /\ Work(w)
      /\ LastId(movements) + Len(w.entries) <= MaxMovement
      /\ DOMAIN w.seen \subseteq DOMAIN lots
      /\ movements' = Appended(w.entries)
      /\ lots' = [l \in DOMAIN lots |->
                    IF l \in DOMAIN w.seen
                    THEN Flushed(w.seen[l], Recomputed(w, l, movements'), lots[l])
                    ELSE lots[l]]
  BY DEF CommitRows, TInv
<1> HIDE DEF w
<1>2. RowsWork(w)
  BY <1>1 DEF Work, Idle, CreateWork, OtherWork
<1>3. \A i \in DOMAIN movements' : i \in 1 .. MaxMovement /\ movements'[i] \in Entry
  <2>1. w.entries \in Seq(Entry) /\ TablesOK(lots, movements)
    BY <1>2 DEF RowsWork, TInv
  <2>2. QED BY <1>1, <2>1, AppendedRows
<1>4. ASSUME NEW l \in DOMAIN w.seen
      PROVE  Flushed(w.seen[l], Recomputed(w, l, movements'), lots[l]) \in Row
  <2>1. w.seen[l] \in Row /\ lots[l] \in Row
    BY <1>1, <1>2, LotRow DEF RowsWork
  <2>2. Recomputed(w, l, movements') \in Row
    BY <1>2, <1>3, RecomputedRow
  <2>3. QED BY <2>1, <2>2, FlushedRow
<1>5. QED BY <1>1, <1>2, <1>3, <1>4 DEF w

LEMMA RowsCommitKeeps ==
  ASSUME TInv, NEW r \in Requests, CommitRows(r) PROVE TInv'
<1>1. /\ DOMAIN lots' = DOMAIN lots
      /\ \A l \in DOMAIN lots : lots'[l] \in Row
      /\ \A i \in DOMAIN movements' : i \in 1 .. MaxMovement /\ movements'[i] \in Entry
  BY RowsCommitted, LotRow
<1>2. /\ \A i \in DOMAIN movements' : movements'[i].lot \in DOMAIN lots'
      /\ Finished(r) /\ mode' = mode
  BY DEF CommitRows, Constraints
<1>3. TablesOK(lots', movements')
  BY <1>1, <1>2 DEF TablesOK, TInv
<1>4. QED BY <1>2, <1>3, FinishedKeeps DEF TInv

LEMMA CreateCommitKeeps ==
  ASSUME TInv, NEW r \in Requests, CommitCreate(r) PROVE TInv'
<1> DEFINE w == inflight[r]
           l == LastId(lots) + 1
           e == Movement(l, "intake", w.ask.n, Null, w.row.location, Null)
<1>1. /\ w.kind = "create" /\ Work(w) /\ l <= MaxLot
      /\ w.ask.n # Null => LastId(movements) + 1 <= MaxMovement
      /\ movements' = IF w.ask.n = Null THEN movements ELSE Appended(<<e>>)
      /\ lots' = [k \in DOMAIN lots \cup {l} |->
                    IF k = l
                    THEN [w.row EXCEPT !.quantity =
                            IF w.ask.n = Null THEN Null ELSE SumDeltas(movements', l)]
                    ELSE lots[k]]
      /\ Constraints(lots', movements')
      /\ Finished(r) /\ mode' = mode
  BY DEF CommitCreate, TInv
<1> HIDE DEF w
<1>2. CreateWork(w)
  BY <1>1 DEF Work, Idle, RowsWork, OtherWork
<1>3. l \in 1 .. MaxLot
  <2>1. LastId(lots) \in 0 .. MaxLot
    BY LastIdIsLast, LedgerConstants DEF TInv, TablesOK
  <2>2. QED BY <1>1, <2>1, LedgerConstants
<1>4. \A i \in DOMAIN movements' : i \in 1 .. MaxMovement /\ movements'[i] \in Entry
  <2>1. CASE w.ask.n = Null
    BY <2>1, <1>1 DEF TInv, TablesOK
  <2>2. CASE w.ask.n # Null
    <3>1. w.ask.n \in Int /\ w.row.location \in Maybe(Locations) /\ l \in Nat
      BY <1>2, <1>3, <2>2 DEF CreateWork, Maybe, Row
    <3>2. /\ Null \in Maybe(Locations) /\ Null \in Maybe(Nat)
          /\ "intake" \in MovementTypes
      BY DEF Maybe, MovementTypes
    <3> HIDE DEF l
    <3>3. e \in Entry
      BY <3>1, <3>2, MovementEntry
    <3> HIDE DEF e
    <3>4. <<e>> \in Seq(Entry) /\ Len(<<e>>) = 1
      BY <3>3
    <3>5. LastId(movements) + Len(<<e>>) <= MaxMovement
      BY <1>1, <2>2, <3>4
    <3>6. QED
      BY <1>1, <2>2, <3>4, <3>5, AppendedRows DEF TInv
  <2>3. QED BY <2>1, <2>2
<1> HIDE DEF l, e
<1>5. \A k \in DOMAIN lots' : k \in 1 .. MaxLot /\ lots'[k] \in Row
  <2> DEFINE q == IF w.ask.n = Null THEN Null ELSE SumDeltas(movements', l)
  <2>1. q \in Maybe(Int)
    BY <1>4, SumDeltasInt DEF Maybe
  <2> HIDE DEF q
  <2>2. [w.row EXCEPT !.quantity = q] \in Row
    BY <2>1, <1>2 DEF CreateWork, Row
  <2>3. QED BY <1>1, <1>3, <2>2 DEF q, TInv, TablesOK
<1>6. \A i \in DOMAIN movements' : movements'[i].lot \in DOMAIN lots'
  BY <1>1 DEF Constraints
<1>7. TablesOK(lots', movements')
  BY <1>4, <1>5, <1>6 DEF TablesOK
<1>8. QED BY <1>1, <1>7, FinishedKeeps DEF TInv

LEMMA DeleteCommitKeeps ==
  ASSUME TInv, NEW r \in Requests, CommitDelete(r) PROVE TInv'
<1> DEFINE gone == inflight[r].ask.lot
           kept == {i \in DOMAIN movements : movements[i].lot # gone}
<1>1. /\ lots' = [k \in DOMAIN lots \ {gone} |-> lots[k]]
      /\ movements' = [i \in kept |->
                         IF movements[i].reverses \in kept THEN movements[i]
                         ELSE [movements[i] EXCEPT !.reverses = Null]]
      /\ Finished(r) /\ mode' = mode
  BY DEF CommitDelete
<1>2. ASSUME NEW i \in DOMAIN movements
      PROVE  /\ [movements[i] EXCEPT !.reverses = Null] \in Entry
             /\ [movements[i] EXCEPT !.reverses = Null].lot = movements[i].lot
  BY DEF TInv, TablesOK, Entry, Maybe
<1> HIDE DEF gone
<1>3. \A i \in DOMAIN movements' :
        /\ i \in kept /\ movements'[i] \in Entry
        /\ movements'[i].lot = movements[i].lot
  BY <1>1, <1>2 DEF TInv, TablesOK
<1>4. \A i \in kept : i \in 1 .. MaxMovement /\ movements[i].lot \in DOMAIN lots \ {gone}
  BY DEF TInv, TablesOK
<1> HIDE DEF kept
<1>5. DOMAIN lots' = DOMAIN lots \ {gone} /\ \A l \in DOMAIN lots' : lots'[l] = lots[l]
  BY <1>1
<1>6. TablesOK(lots', movements')
  BY <1>3, <1>4, <1>5 DEF TInv, TablesOK
<1>7. QED BY <1>1, <1>6, FinishedKeeps DEF TInv

LEMMA TInvNext == TInv /\ [Next]_vars => TInv'
<1> SUFFICES ASSUME TInv, [Next]_vars PROVE TInv'
  OBVIOUS
<1>1. CASE UNCHANGED vars
  BY <1>1 DEF vars, TInv
<1>2. ASSUME NEW r \in Requests, Load(r) \/ Commit(r) \/ Abandon(r)
      PROVE  TInv'
  <2>1. CASE Load(r)
    <3>1. CASE LoadCreate(r) \/ LoadDelete(r) \/ LoadMode(r)
      BY <3>1, OtherLoads
    <3>2. CASE \E w : Prepare(r, w) /\ Loaded(w)
      BY <3>2, PrepareKeeps DEF Loaded, Work
    <3>3. QED BY <2>1, <3>1, <3>2, RowLoads DEF Load
  <2>2. CASE CommitRows(r) \/ CommitCreate(r) \/ CommitDelete(r)
    BY <2>2, RowsCommitKeeps, CreateCommitKeeps, DeleteCommitKeeps
  <2>3. CASE CommitMode(r)
    <3>1. inflight[r].new \in Modes
      BY <2>3 DEF CommitMode, TInv, Work, Idle, RowsWork, CreateWork, OtherWork
    <3>2. QED BY <2>3, <3>1, FinishedKeeps DEF CommitMode, TInv
  <2>4. CASE Abandon(r)
    BY <2>4, FinishedKeeps DEF Abandon, TInv
  <2>5. QED BY <1>2, <2>1, <2>2, <2>3, <2>4 DEF Commit
<1>3. QED BY <1>1, <1>2 DEF Next

\* Whether requests overlap is settled at the start.
LEMMA ScheduleInit == Init => overlap \in BOOLEAN
BY LedgerConstants DEF Init

LEMMA ScheduleNext == overlap \in BOOLEAN /\ [Next]_vars => (overlap \in BOOLEAN)'
BY DEF Next, vars

\* The tables keep their columns' types, whatever interleaves.
THEOREM TypeCorrect == Spec => []TypeOK
<1>1. TInv /\ overlap \in BOOLEAN => TypeOK
  <2>1. \A w : Work(w) => w = Idle \/ w.kind \in {"rows", "create", "delete", "mode"}
    BY DEF Work, RowsWork, CreateWork, OtherWork
  <2>2. QED BY <2>1 DEF TInv, TablesOK, TypeOK
<1>2. QED BY <1>1, TInvInit, TInvNext, ScheduleInit, ScheduleNext, PTL DEF Spec

-----------------------------------------------------------------------------
(* Whatever interleaves *)

\* A movement is undone at most once: the unique index holds in every state a
\* transaction leaves behind.
LEMMA NeverUndoneTwice == Spec => []UndoneAtMostOnce
<1>1. Init => UndoneAtMostOnce
  BY DEF Init, UndoneAtMostOnce
<1>2. TInv /\ UndoneAtMostOnce /\ [Next]_vars => UndoneAtMostOnce'
  <2> SUFFICES ASSUME TInv, UndoneAtMostOnce, [Next]_vars PROVE UndoneAtMostOnce'
    OBVIOUS
  <2>1. ASSUME movements' = movements PROVE UndoneAtMostOnce'
    BY <2>1 DEF UndoneAtMostOnce
  <2>2. ASSUME NEW r \in Requests, CommitRows(r) \/ CommitCreate(r) PROVE UndoneAtMostOnce'
    BY <2>2 DEF CommitRows, CommitCreate, Constraints, UniqueReversal, UndoneAtMostOnce
  <2>3. ASSUME NEW r \in Requests, CommitDelete(r) PROVE UndoneAtMostOnce'
    <3> DEFINE kept == {i \in DOMAIN movements : movements[i].lot # inflight[r].ask.lot}
    <3>1. movements' = [i \in kept |->
                          IF movements[i].reverses \in kept THEN movements[i]
                          ELSE [movements[i] EXCEPT !.reverses = Null]]
      BY <2>3 DEF CommitDelete
    <3>2. ASSUME NEW i \in kept, movements'[i].reverses # Null
          PROVE  movements'[i].reverses = movements[i].reverses
      BY <3>1, <3>2 DEF TInv, TablesOK, Entry
    <3>3. DOMAIN movements' = kept
      BY <3>1
    <3>4. \A i \in kept : i \in DOMAIN movements
      OBVIOUS
    <3> HIDE DEF kept
    <3>5. QED BY <3>2, <3>3, <3>4 DEF UndoneAtMostOnce
  <2>4. ASSUME NEW r \in Requests, Load(r) PROVE movements' = movements
    BY <2>4, RowLoads DEF Load, LoadCreate, LoadDelete, LoadMode, Prepare
  <2>5. QED
    BY <2>1, <2>2, <2>3, <2>4 DEF Next, Commit, CommitMode, Abandon, vars
<1>3. QED BY <1>1, <1>2, TInvInit, TInvNext, PTL DEF Spec

\* A cached quantity only ever moves to the current ledger sum.
THEOREM CacheMovesOnlyToSum == Spec => CacheMovesToSum
<1> DEFINE Moves == \A l \in DOMAIN lots \cap DOMAIN lots' :
              lots'[l].quantity # lots[l].quantity =>
                lots'[l].quantity = SumDeltas(movements', l)
<1>1. TInv /\ [Next]_vars => [Moves]_vars
  <2> SUFFICES ASSUME TInv, Next PROVE Moves
    OBVIOUS
  <2>1. ASSUME lots' = lots PROVE Moves
    BY <2>1
  <2>2. ASSUME NEW r \in Requests, CommitRows(r) PROVE Moves
    <3> DEFINE w == inflight[r]
    <3> SUFFICES ASSUME NEW l \in DOMAIN lots, lots'[l].quantity # lots[l].quantity
                 PROVE  lots'[l].quantity = SumDeltas(movements', l)
      OBVIOUS
    <3> HIDE DEF w
    <3>1. /\ RowsWork(w) /\ l \in DOMAIN w.seen
          /\ lots'[l] = Flushed(w.seen[l], Recomputed(w, l, movements'), lots[l])
          /\ \A i \in DOMAIN movements' : movements'[i] \in Entry
      BY <2>2, RowsCommitted DEF w
    <3>2. w.seen[l] \in Row /\ lots[l] \in Row
      BY <3>1, LotRow DEF RowsWork
    <3>3. /\ Recomputed(w, l, movements') \in Row
          /\ \/ Recomputed(w, l, movements').quantity = w.seen[l].quantity
             \/ Recomputed(w, l, movements').quantity = SumDeltas(movements', l)
      BY <3>1, RecomputedRow
    <3>4. lots'[l].quantity =
            IF Recomputed(w, l, movements').quantity = w.seen[l].quantity
            THEN lots[l].quantity ELSE Recomputed(w, l, movements').quantity
      BY <3>1, <3>2, <3>3, FlushedRow
    <3>5. QED BY <3>3, <3>4
  <2>3. ASSUME NEW r \in Requests, CommitCreate(r) PROVE Moves
    <3>1. LastId(lots) + 1 \notin DOMAIN lots
      BY LastIdIsLast, LedgerConstants DEF TInv, TablesOK
    <3>2. \A l \in DOMAIN lots : lots'[l] = lots[l]
      BY <2>3, <3>1 DEF CommitCreate
    <3>3. QED BY <3>2
  <2>4. ASSUME NEW r \in Requests, CommitDelete(r) PROVE Moves
    BY <2>4 DEF CommitDelete
  <2>5. ASSUME NEW r \in Requests, Load(r) PROVE lots' = lots
    BY <2>5, RowLoads DEF Load, LoadCreate, LoadDelete, LoadMode, Prepare
  <2>6. QED
    BY <2>1, <2>2, <2>3, <2>4, <2>5 DEF Next, Commit, CommitMode, Abandon
<1>2. QED BY <1>1, TInvInit, TInvNext, PTL DEF Spec, CacheMovesToSum

-----------------------------------------------------------------------------
(* One request at a time *)

\* Entries for other lots leave the sum of a lot alone.
LEMMA SumOfOtherLot ==
  ASSUME TablesOK(lots, movements), NEW entries \in Seq(Entry),
         LastId(movements) + Len(entries) <= MaxMovement,
         NEW l, \A k \in DOMAIN entries : entries[k].lot # l
  PROVE  SumDeltas(Appended(entries), l) = SumDeltas(movements, l)
<1> DEFINE ms == Appended(entries)
           rows(t) == {j \in DOMAIN t : t[j].lot = l}
<1>1. /\ DOMAIN ms = DOMAIN movements \cup {LastId(movements) + k : k \in DOMAIN entries}
      /\ \A i \in DOMAIN movements : ms[i] = movements[i]
      /\ \A k \in DOMAIN entries : ms[LastId(movements) + k] = entries[k]
  BY AppendedRows
<1> HIDE DEF ms
<1>2. \A i \in DOMAIN ms : i \in DOMAIN movements \/ ms[i].lot # l
  <2> SUFFICES ASSUME NEW i \in DOMAIN ms, i \notin DOMAIN movements PROVE ms[i].lot # l
    OBVIOUS
  <2>1. PICK k \in DOMAIN entries : i = LastId(movements) + k
    BY <1>1
  <2>2. QED BY <1>1, <2>1
<1>3. rows(ms) = rows(movements)
  BY <1>1, <1>2
<1>4. [i \in rows(ms) |-> ms[i].delta] = [i \in rows(movements) |-> movements[i].delta]
  BY <1>1, <1>3
<1>5. QED BY <1>4 DEF SumDeltas, ms

\* The one entry for a lot adds its delta to the sum.
LEMMA SumOfTouchedLot ==
  ASSUME TablesOK(lots, movements), NEW entries \in Seq(Entry),
         LastId(movements) + Len(entries) <= MaxMovement,
         NEW k \in DOMAIN entries,
         \A j \in DOMAIN entries : entries[j].lot = entries[k].lot => j = k
  PROVE  SumDeltas(Appended(entries), entries[k].lot)
           = SumDeltas(movements, entries[k].lot) + entries[k].delta
<1> DEFINE ms == Appended(entries)
           l == entries[k].lot
           new == LastId(movements) + k
           rows(t) == {j \in DOMAIN t : t[j].lot = l}
           f == [i \in rows(movements) |-> movements[i].delta]
           g == [i \in rows(ms) |-> ms[i].delta]
<1>1. /\ DOMAIN ms = DOMAIN movements \cup {LastId(movements) + j : j \in DOMAIN entries}
      /\ \A i \in DOMAIN movements : ms[i] = movements[i]
      /\ \A j \in DOMAIN entries : /\ LastId(movements) + j \notin DOMAIN movements
                                   /\ ms[LastId(movements) + j] = entries[j]
      /\ \A i \in DOMAIN ms : i \in 1 .. MaxMovement /\ ms[i] \in Entry
  BY AppendedRows
<1> HIDE DEF ms
<1>2. rows(ms) = rows(movements) \cup {new}
  BY <1>1
<1>3. new \in DOMAIN ms /\ new \notin DOMAIN movements /\ ms[new] = entries[k]
  BY <1>1
<1>4. /\ \A i \in DOMAIN f : f[i] \in Int
      /\ \A i \in DOMAIN f : g[i] = f[i]
      /\ DOMAIN g = DOMAIN f \cup {new} /\ new \notin DOMAIN f
      /\ g[new] = entries[k].delta /\ g[new] \in Int /\ new \in 1 .. MaxMovement
  BY <1>1, <1>2, <1>3 DEF Entry, TablesOK
<1> HIDE DEF f, g, new
<1>5. SumTo(g, MaxMovement) = SumTo(f, MaxMovement) + g[new]
  BY <1>4, SumToInsert, LedgerConstants
<1>6. QED BY <1>4, <1>5 DEF SumDeltas, f, g, ms

\* The cache, with NULL read as zero, is the sum.
CacheIsSum == \A l \in DOMAIN lots : OrZero(lots[l].quantity) = SumDeltas(movements, l)

\* A lot has seen nothing but intakes and moves, and opened below zero.
OwesItsOpening(l) ==
  /\ \A i \in DOMAIN movements :
       movements[i].lot = l => movements[i].type \in {"intake", "move"}
  /\ \E i \in DOMAIN movements :
       movements[i].lot = l /\ movements[i].type = "intake" /\ movements[i].delta < 0

DebtIsOpening ==
  \A l \in DOMAIN lots : OrZero(lots[l].quantity) < 0 => OwesItsOpening(l)

\* Prepared work has the rows as they still are, and asks for no more than
\* they hold.
WorkCurrent ==
  /\ \A q, r \in Requests : inflight[q] # Idle /\ inflight[r] # Idle => q = r
  /\ \A r \in Requests : RowsWork(inflight[r]) => Fresh(inflight[r]) /\ Leaves(inflight[r])

SInv == TInv /\ CacheIsSum /\ DebtIsOpening /\ WorkCurrent

LEMMA SInvInit == Init => SInv
<1> SUFFICES ASSUME Init PROVE SInv
  OBVIOUS
<1>1. DOMAIN lots = {} /\ \A r \in Requests : inflight[r] = Idle
  BY DEF Init
<1>2. CacheIsSum /\ DebtIsOpening
  BY <1>1 DEF CacheIsSum, DebtIsOpening
<1>3. WorkCurrent
  BY <1>1 DEF WorkCurrent, RowsWork, Idle
<1>4. QED BY <1>2, <1>3, TInvInit DEF SInv

\* A request loads while every other one is idle, so its work is current.
LEMMA LoadCurrent ==
  ASSUME SInv, ~overlap, NEW r \in Requests, Load(r)
  PROVE  CacheIsSum' /\ DebtIsOpening' /\ WorkCurrent'
<1>1. CanLoad(r)
  BY DEF Load, LoadIntake, LoadDiscard, LoadAdjust, LoadMove, LoadConsume, LoadReverse,
         LoadPatch, LoadCreate, LoadDelete, LoadMode
<1>2. \A q \in Requests : inflight[q] = Idle
  BY <1>1 DEF CanLoad
<1>3. \E w : Prepare(r, w) /\ (RowsWork(w) => Fresh(w) /\ Leaves(w))
  <2>1. CASE LoadDelete(r)
    BY <2>1 DEF LoadDelete, RowsWork
  <2>2. CASE LoadMode(r)
    BY <2>2 DEF LoadMode, RowsWork
  <2>3. CASE LoadCreate(r)
    <3>1. \E ask, row : Prepare(r, [kind |-> "create", ask |-> ask, row |-> row])
      BY <2>3, Zenon DEF LoadCreate
    <3>2. \A ask, row : ~RowsWork([kind |-> "create", ask |-> ask, row |-> row])
      BY DEF RowsWork
    <3>3. QED BY <3>1, <3>2
  <2>4. CASE ~(LoadDelete(r) \/ LoadMode(r) \/ LoadCreate(r))
    BY <2>4, RowLoads DEF Load, SInv, Loaded
  <2>5. QED BY <2>1, <2>2, <2>3, <2>4
<1>4. PICK w : Prepare(r, w) /\ (RowsWork(w) => Fresh(w) /\ Leaves(w))
  BY <1>3
<1>5. /\ UNCHANGED <<lots, movements>>
      /\ inflight'[r] = w /\ \A q \in Requests : q # r => inflight'[q] = Idle
  BY <1>2, <1>4 DEF Prepare, SInv, TInv
<1>6. CacheIsSum' /\ DebtIsOpening'
  BY <1>5 DEF SInv, CacheIsSum, DebtIsOpening, OwesItsOpening
<1>7. Fresh(w) => Fresh(w)'
  BY <1>5 DEF Fresh
<1>8. ~RowsWork(Idle)
  BY DEF RowsWork, Idle
<1>9. WorkCurrent'
  BY <1>4, <1>5, <1>7, <1>8 DEF WorkCurrent, SInv, Fresh, Leaves, RowsWork
<1>10. QED BY <1>6, <1>9

LEMMA FinishedCurrent ==
  ASSUME SInv, NEW r \in Requests, inflight[r] # Idle, Finished(r)
  PROVE  WorkCurrent'
<1>1. \A q \in Requests : inflight'[q] = Idle
  BY DEF SInv, WorkCurrent, Finished, TInv
<1>2. ~RowsWork(Idle)
  BY DEF RowsWork, Idle
<1>3. QED BY <1>1, <1>2 DEF WorkCurrent

\* A lot's cache is its sum again once its work is written.
LEMMA RowsCommitCurrent ==
  ASSUME SInv, NEW r \in Requests, CommitRows(r)
  PROVE  CacheIsSum' /\ DebtIsOpening'
<1> DEFINE w == inflight[r]
<1>1. /\ RowsWork(w)
      /\ LastId(movements) + Len(w.entries) <= MaxMovement
      /\ movements' = Appended(w.entries)
      /\ \A i \in DOMAIN movements' : movements'[i] \in Entry
      /\ DOMAIN lots' = DOMAIN lots
      /\ \A l \in DOMAIN lots : l \notin DOMAIN w.seen => lots'[l] = lots[l]
      /\ \A l \in DOMAIN w.seen :
           lots'[l] = Flushed(w.seen[l], Recomputed(w, l, movements'), lots[l])
  BY RowsCommitted DEF SInv
<1>2. Fresh(w) /\ Leaves(w)
  BY <1>1 DEF SInv, WorkCurrent
<1> HIDE DEF w
<1>3. w.entries \in Seq(Entry) /\ TablesOK(lots, movements)
  BY <1>1 DEF RowsWork, SInv, TInv
<1>4. /\ \A i \in DOMAIN movements : i \in DOMAIN movements' /\ movements'[i] = movements[i]
      /\ \A i \in DOMAIN movements' \ DOMAIN movements :
           \E k \in DOMAIN w.entries : movements'[i] = w.entries[k]
  <2>1. /\ DOMAIN movements' =
             DOMAIN movements \cup {LastId(movements) + k : k \in DOMAIN w.entries}
        /\ \A i \in DOMAIN movements : movements'[i] = movements[i]
        /\ \A k \in DOMAIN w.entries : movements'[LastId(movements) + k] = w.entries[k]
    BY <1>1, <1>3, AppendedRows
  <2>2. QED BY <2>1
<1>5. ASSUME NEW l \in DOMAIN lots
      PROVE  /\ OrZero(lots'[l].quantity) = SumDeltas(movements', l)
             /\ OrZero(lots'[l].quantity) < 0 => OwesItsOpening(l)'
  <2>1. /\ OrZero(lots[l].quantity) = SumDeltas(movements, l)
        /\ OrZero(lots[l].quantity) < 0 => OwesItsOpening(l)
    BY DEF SInv, CacheIsSum, DebtIsOpening
  <2>2. CASE \A k \in DOMAIN w.entries : w.entries[k].lot # l
    <3>1. SumDeltas(movements', l) = SumDeltas(movements, l)
      BY <1>1, <1>3, <2>2, SumOfOtherLot
    <3>2. lots'[l].quantity = lots[l].quantity
      <4>1. CASE l \in DOMAIN w.seen
        <5>1. Recomputed(w, l, movements') = w.own[l]
          BY <2>2 DEF Recomputed
        <5>2. w.own[l] \in Row /\ w.seen[l] \in Row /\ lots[l] \in Row
              /\ w.own[l].quantity = w.seen[l].quantity
          BY <1>1, <4>1, LotRow DEF RowsWork, SInv
        <5>3. QED BY <1>1, <4>1, <5>1, <5>2, FlushedRow
      <4>2. QED BY <1>1, <4>1
    <3>3. OwesItsOpening(l) => OwesItsOpening(l)'
      BY <2>2, <1>4 DEF OwesItsOpening
    <3>4. QED BY <2>1, <3>1, <3>2, <3>3
  <2>3. CASE \E k \in DOMAIN w.entries : w.entries[k].lot = l
    <3>1. PICK k \in DOMAIN w.entries : w.entries[k].lot = l
      BY <2>3
    <3>2. /\ l \in DOMAIN w.seen
          /\ \A j \in DOMAIN w.entries : w.entries[j].lot = w.entries[k].lot => j = k
          /\ w.entries[k].type = "move" => w.entries[k].delta = 0
          /\ w.seen[l] \in Row /\ w.own[l] \in Row
          /\ w.own[l].quantity = w.seen[l].quantity
      BY <1>1, <3>1 DEF RowsWork
    <3>3. w.seen[l] = lots[l] /\ lots[l] \in Row
      BY <1>2, <3>2, LotRow DEF Fresh, SInv
    <3>4. SumDeltas(movements', l) = SumDeltas(movements, l) + w.entries[k].delta
      BY <1>1, <1>3, <3>1, <3>2, SumOfTouchedLot
    <3>5. SumDeltas(movements', l) \in Int
      BY <1>1, SumDeltasInt
    <3>6. Recomputed(w, l, movements') \in Row
      BY <1>1, <3>2, RecomputedRow
    <3>7. lots'[l].quantity = Recomputed(w, l, movements').quantity
      BY <1>1, <3>2, <3>3, <3>6, FlushedRow
    <3>8. SumDeltas(movements', l) < 0 => OwesItsOpening(l)'
      <4> SUFFICES ASSUME SumDeltas(movements', l) < 0 PROVE OwesItsOpening(l)'
        OBVIOUS
      <4>1. \/ OrZero(lots[l].quantity) + w.entries[k].delta >= 0
            \/ w.entries[k].type \in {"intake", "move"} /\ w.entries[k].delta >= 0
        BY <1>2, <3>1, <3>3 DEF Leaves
      <4>2. OrZero(lots[l].quantity) \in Int /\ w.entries[k].delta \in Int
        <5>1. w.entries[k] \in Entry
          BY <1>3, <3>1
        <5>2. QED BY <5>1, LotRow DEF SInv, Entry
      <4>3. w.entries[k].type \in {"intake", "move"} /\ OwesItsOpening(l)
        BY <2>1, <3>4, <4>1, <4>2
      <4>4. \A i \in DOMAIN movements' \ DOMAIN movements :
              movements'[i].lot = l => movements'[i] = w.entries[k]
        BY <1>4, <3>1, <3>2
      <4>5. QED BY <1>4, <4>3, <4>4 DEF OwesItsOpening
    <3>9. CASE w.entries[k].type = "move"
      <4>1. Recomputed(w, l, movements') = w.own[l]
        BY <3>1, <3>2, <3>9 DEF Recomputed
      <4>2. SumDeltas(movements, l) \in Int
        BY <1>3, SumDeltasInt DEF TablesOK
      <4>3. QED BY <2>1, <3>2, <3>3, <3>4, <3>7, <3>8, <3>9, <4>1, <4>2
    <3>10. CASE w.entries[k].type # "move"
      <4>1. Recomputed(w, l, movements') = [w.own[l] EXCEPT !.quantity = SumDeltas(movements', l)]
        BY <3>1, <3>10 DEF Recomputed
      <4>2. lots'[l].quantity = SumDeltas(movements', l)
        BY <3>2, <3>7, <4>1 DEF Row
      <4>3. lots'[l].quantity # Null
        BY <3>5, <4>2, LedgerConstants
      <4>4. QED BY <3>8, <4>2, <4>3 DEF OrZero
    <3>11. QED BY <3>9, <3>10
  <2>4. QED BY <2>2, <2>3
<1>6. CacheIsSum'
  BY <1>1, <1>5 DEF CacheIsSum
<1>7. DebtIsOpening'
  BY <1>1, <1>5 DEF DebtIsOpening
<1>8. QED BY <1>6, <1>7

\* A lot that does not exist has no movements.
LEMMA SumOfNewLot ==
  ASSUME TablesOK(lots, movements), NEW l, l \notin DOMAIN lots
  PROVE  SumDeltas(movements, l) = 0
<1> DEFINE f == [i \in {j \in DOMAIN movements : movements[j].lot = l} |-> movements[i].delta]
<1>1. DOMAIN f = {}
  BY DEF TablesOK
<1> HIDE DEF f
<1>2. SumTo(f, MaxMovement) = 0
  BY <1>1, SumToNothing, LedgerConstants
<1>3. QED BY <1>2 DEF SumDeltas, f

\* The first intake of a new lot is its sum, and changes no other.
LEMMA FirstIntake ==
  ASSUME TablesOK(lots, movements), NEW l \in Nat, l \notin DOMAIN lots, NEW n \in Int,
         NEW place \in Maybe(Locations), LastId(movements) + 1 <= MaxMovement,
         NEW ms, ms = Appended(<<Movement(l, "intake", n, Null, place, Null)>>)
  PROVE  /\ SumDeltas(ms, l) = n
         /\ \A k \in DOMAIN lots : SumDeltas(ms, k) = SumDeltas(movements, k)
<1> DEFINE e == Movement(l, "intake", n, Null, place, Null)
<1>1. Null \in Maybe(Locations) /\ Null \in Maybe(Nat) /\ "intake" \in MovementTypes
  BY DEF Maybe, MovementTypes
<1>2. e \in Entry /\ e.lot = l /\ e.delta = n
  BY <1>1, MovementEntry
<1>3. ms = Appended(<<e>>)
  OBVIOUS
<1> HIDE DEF e
<1>4. /\ <<e>> \in Seq(Entry) /\ Len(<<e>>) = 1 /\ DOMAIN <<e>> = {1} /\ <<e>>[1] = e
      /\ LastId(movements) + Len(<<e>>) <= MaxMovement
  BY <1>2
<1>5. SumDeltas(ms, l) = n
  <2>1. 1 \in DOMAIN <<e>> /\ \A j \in DOMAIN <<e>> : <<e>>[j].lot = <<e>>[1].lot => j = 1
    BY <1>4
  <2>2. SumDeltas(Appended(<<e>>), <<e>>[1].lot)
          = SumDeltas(movements, <<e>>[1].lot) + <<e>>[1].delta
    BY <1>4, <2>1, SumOfTouchedLot
  <2>3. SumDeltas(movements, l) = 0
    BY SumOfNewLot
  <2>4. QED BY <1>2, <1>3, <1>4, <2>2, <2>3
<1>6. ASSUME NEW k \in DOMAIN lots
      PROVE  SumDeltas(ms, k) = SumDeltas(movements, k)
  <2>1. \A j \in DOMAIN <<e>> : <<e>>[j].lot # k
    BY <1>2, <1>4
  <2>2. QED BY <1>3, <1>4, <2>1, SumOfOtherLot
<1>7. QED BY <1>5, <1>6

\* A new lot holds what its request asks for, or is not counted, and every other
\* lot keeps its row and its sum.
LEMMA CreateChange ==
  ASSUME TInv, NEW r \in Requests, CommitCreate(r), NEW w, w = inflight[r],
         NEW l, l = LastId(lots) + 1
  PROVE  /\ CreateWork(w)
         /\ l \in 1 .. MaxLot /\ l \notin DOMAIN lots
         /\ DOMAIN lots' = DOMAIN lots \cup {l}
         /\ \A k \in DOMAIN lots : /\ lots'[k] = lots[k]
                                   /\ SumDeltas(movements', k) = SumDeltas(movements, k)
         /\ lots'[l].quantity = w.ask.n
         /\ OrZero(w.ask.n) = SumDeltas(movements', l)
         /\ w.ask.n = Null => movements' = movements
<1>1. /\ w.kind = "create" /\ Work(w) /\ l <= MaxLot
      /\ w.ask.n # Null => LastId(movements) + 1 <= MaxMovement
      /\ movements' = IF w.ask.n = Null THEN movements
                      ELSE Appended(<<Movement(l, "intake", w.ask.n, Null, w.row.location, Null)>>)
      /\ lots' = [k \in DOMAIN lots \cup {l} |->
                    IF k = l
                    THEN [w.row EXCEPT !.quantity =
                            IF w.ask.n = Null THEN Null ELSE SumDeltas(movements', l)]
                    ELSE lots[k]]
  BY DEF CommitCreate, TInv
<1>2. CreateWork(w)
  BY <1>1 DEF Work, Idle, RowsWork, OtherWork
<1>3. l \in 1 .. MaxLot /\ l \notin DOMAIN lots
  <2>1. LastId(lots) \in 0 .. MaxLot /\ \A k \in DOMAIN lots : k <= LastId(lots) /\ k \in Nat
    BY LastIdIsLast, LedgerConstants DEF TInv, TablesOK
  <2>2. QED BY <1>1, <2>1, LedgerConstants
<1>4. TablesOK(lots, movements)
  BY DEF TInv
<1>5. /\ \A k \in DOMAIN lots : SumDeltas(movements', k) = SumDeltas(movements, k)
      /\ SumDeltas(movements', l) = OrZero(w.ask.n)
  <2>1. CASE w.ask.n = Null
    BY <1>1, <1>3, <1>4, <2>1, SumOfNewLot DEF OrZero
  <2>2. CASE w.ask.n # Null
    <3>1. w.ask.n \in Int /\ w.row.location \in Maybe(Locations) /\ l \in Nat
      BY <1>2, <1>3, <2>2 DEF CreateWork, Maybe, Row
    <3>2. QED BY <1>1, <1>3, <1>4, <2>2, <3>1, FirstIntake DEF OrZero
  <2>3. QED BY <2>1, <2>2
<1>6. lots'[l].quantity = IF w.ask.n = Null THEN Null ELSE SumDeltas(movements', l)
  <2>1. w.row \in Row
    BY <1>2 DEF CreateWork
  <2>2. QED BY <1>1, <2>1 DEF Row
<1>7. lots'[l].quantity = w.ask.n
  BY <1>5, <1>6 DEF OrZero
<1>8. DOMAIN lots' = DOMAIN lots \cup {l} /\ \A k \in DOMAIN lots : lots'[k] = lots[k]
  BY <1>1, <1>3
<1>9. w.ask.n = Null => movements' = movements
  BY <1>1
<1>10. QED BY <1>2, <1>3, <1>5, <1>7, <1>8, <1>9

\* A new lot opens with the sum of its first intake, or with nothing.
LEMMA CreateCommitCurrent ==
  ASSUME SInv, NEW r \in Requests, CommitCreate(r)
  PROVE  CacheIsSum' /\ DebtIsOpening'
<1> DEFINE w == inflight[r]
           l == LastId(lots) + 1
<1>1. /\ CreateWork(w)
      /\ DOMAIN lots' = DOMAIN lots \cup {l}
      /\ \A k \in DOMAIN lots : /\ lots'[k] = lots[k]
                                /\ SumDeltas(movements', k) = SumDeltas(movements, k)
      /\ lots'[l].quantity = w.ask.n
      /\ OrZero(w.ask.n) = SumDeltas(movements', l)
      /\ w.ask.n = Null => movements' = movements
      /\ l \notin DOMAIN lots /\ l \in Nat
  BY CreateChange DEF SInv
<1>2. /\ \A i \in DOMAIN movements : i \in DOMAIN movements' /\ movements'[i] = movements[i]
      /\ \A i \in DOMAIN movements' \ DOMAIN movements :
           movements'[i] = Movement(l, "intake", w.ask.n, Null, w.row.location, Null)
      /\ w.ask.n # Null => DOMAIN movements' # DOMAIN movements
  <2>1. CASE w.ask.n = Null
    BY <1>1, <2>1
  <2>2. CASE w.ask.n # Null
    <3> DEFINE e == Movement(l, "intake", w.ask.n, Null, w.row.location, Null)
    <3>1. movements' = Appended(<<e>>) /\ LastId(movements) + 1 <= MaxMovement
      BY <2>2 DEF CommitCreate
    <3>2. /\ w.ask.n \in Int /\ w.row.location \in Maybe(Locations) /\ "intake" \in MovementTypes
          /\ Null \in Maybe(Locations) /\ Null \in Maybe(Nat)
      BY <1>1, <2>2 DEF CreateWork, Maybe, Row, MovementTypes
    <3>3. e \in Entry
      BY <1>1, <3>2, MovementEntry
    <3> HIDE DEF e
    <3>4. <<e>> \in Seq(Entry) /\ Len(<<e>>) = 1 /\ DOMAIN <<e>> = {1} /\ <<e>>[1] = e
      BY <3>3
    <3>5. /\ DOMAIN movements' = DOMAIN movements \cup {LastId(movements) + 1}
          /\ \A i \in DOMAIN movements : movements'[i] = movements[i]
          /\ LastId(movements) + 1 \notin DOMAIN movements
          /\ movements'[LastId(movements) + 1] = e
      BY <3>1, <3>4, AppendedRows DEF SInv, TInv
    <3>6. QED BY <3>5 DEF e
  <2>3. QED BY <2>1, <2>2
<1> HIDE DEF w, l
<1>3. CacheIsSum'
  BY <1>1 DEF SInv, CacheIsSum
<1>4. ASSUME NEW k \in DOMAIN lots', OrZero(lots'[k].quantity) < 0
      PROVE  OwesItsOpening(k)'
  <2>1. CASE k = l
    <3>1. w.ask.n # Null /\ w.ask.n < 0
      BY <1>1, <1>4, <2>1 DEF OrZero
    <3>2. \A i \in DOMAIN movements : movements[i].lot # l
      BY <1>1 DEF SInv, TInv, TablesOK
    <3>3. \A i \in DOMAIN movements' : movements'[i].lot = l =>
             movements'[i].type = "intake" /\ movements'[i].delta = w.ask.n
      BY <1>2, <3>2 DEF Movement
    <3>4. PICK i \in DOMAIN movements' : i \notin DOMAIN movements
      BY <1>2, <3>1
    <3>5. movements'[i].lot = l
      BY <1>2, <3>4 DEF Movement
    <3>6. QED BY <2>1, <3>1, <3>3, <3>5 DEF OwesItsOpening
  <2>2. CASE k # l
    <3>1. k \in DOMAIN lots /\ OwesItsOpening(k)
      BY <1>1, <1>4, <2>2 DEF SInv, DebtIsOpening
    <3>2. \A i \in DOMAIN movements' \ DOMAIN movements : movements'[i].lot # k
      BY <1>2, <2>2 DEF Movement
    <3>3. QED BY <1>2, <3>1, <3>2 DEF OwesItsOpening
  <2>3. QED BY <2>1, <2>2
<1>5. DebtIsOpening'
  BY <1>4 DEF DebtIsOpening
<1>6. QED BY <1>3, <1>5

\* Deleting a lot takes its own movements and leaves the sums of the others.
LEMMA DeleteCommitCurrent ==
  ASSUME SInv, NEW r \in Requests, CommitDelete(r)
  PROVE  CacheIsSum' /\ DebtIsOpening'
<1> DEFINE gone == inflight[r].ask.lot
           kept == {i \in DOMAIN movements : movements[i].lot # gone}
<1>1. /\ lots' = [k \in DOMAIN lots \ {gone} |-> lots[k]]
      /\ movements' = [i \in kept |->
                         IF movements[i].reverses \in kept THEN movements[i]
                         ELSE [movements[i] EXCEPT !.reverses = Null]]
  BY DEF CommitDelete
<1>2. ASSUME NEW i \in DOMAIN movements
      PROVE  /\ [movements[i] EXCEPT !.reverses = Null].lot = movements[i].lot
             /\ [movements[i] EXCEPT !.reverses = Null].delta = movements[i].delta
             /\ [movements[i] EXCEPT !.reverses = Null].type = movements[i].type
  BY DEF SInv, TInv, TablesOK, Entry
<1> HIDE DEF gone
<1>3. /\ DOMAIN movements' = kept
      /\ \A i \in kept : /\ movements'[i].lot = movements[i].lot
                         /\ movements'[i].delta = movements[i].delta
                         /\ movements'[i].type = movements[i].type
  BY <1>1, <1>2
<1>4. DOMAIN lots' = DOMAIN lots \ {gone} /\ \A l \in DOMAIN lots' : lots'[l] = lots[l]
  BY <1>1
<1>5. ASSUME NEW l \in DOMAIN lots'
      PROVE  SumDeltas(movements', l) = SumDeltas(movements, l)
  <2> DEFINE rows(t) == {j \in DOMAIN t : t[j].lot = l}
  <2>1. l # gone
    BY <1>4
  <2>2. rows(movements') = rows(movements)
    BY <1>3, <2>1
  <2>3. \A i \in rows(movements) : movements'[i].delta = movements[i].delta
    BY <1>3, <2>1
  <2>4. [i \in rows(movements') |-> movements'[i].delta]
          = [i \in rows(movements) |-> movements[i].delta]
    BY <2>2, <2>3
  <2>5. QED BY <2>4 DEF SumDeltas
<1>6. CacheIsSum'
  BY <1>4, <1>5 DEF SInv, CacheIsSum
<1>7. DebtIsOpening'
  <2>1. \A l \in DOMAIN lots' : l # gone /\ (OwesItsOpening(l) => OwesItsOpening(l)')
    BY <1>3, <1>4 DEF OwesItsOpening
  <2>2. QED BY <1>4, <2>1 DEF SInv, DebtIsOpening
<1>8. QED BY <1>6, <1>7

LEMMA SInvNext ==
  ASSUME ~overlap PROVE SInv /\ [Next]_vars => SInv'
<1> SUFFICES ASSUME SInv, [Next]_vars PROVE CacheIsSum' /\ DebtIsOpening' /\ WorkCurrent'
  BY TInvNext DEF SInv
<1>1. ASSUME UNCHANGED <<lots, movements>> PROVE CacheIsSum' /\ DebtIsOpening'
  BY <1>1 DEF SInv, CacheIsSum, DebtIsOpening, OwesItsOpening
<1>2. CASE UNCHANGED vars
  BY <1>1, <1>2 DEF vars, SInv, WorkCurrent, Fresh, Leaves
<1>3. ASSUME NEW r \in Requests, Load(r)
      PROVE  CacheIsSum' /\ DebtIsOpening' /\ WorkCurrent'
  BY <1>3, LoadCurrent
<1>4. ASSUME NEW r \in Requests, Commit(r) \/ Abandon(r)
      PROVE  CacheIsSum' /\ DebtIsOpening' /\ WorkCurrent'
  <2>1. inflight[r] # Idle /\ Finished(r)
    BY <1>4 DEF Commit, Abandon, CommitRows, CommitCreate, CommitDelete, CommitMode, Idle
  <2>2. WorkCurrent'
    BY <2>1, FinishedCurrent
  <2>3. CASE CommitRows(r)
    BY <2>2, <2>3, RowsCommitCurrent
  <2>4. CASE CommitCreate(r)
    BY <2>2, <2>4, CreateCommitCurrent
  <2>5. CASE CommitDelete(r)
    BY <2>2, <2>5, DeleteCommitCurrent
  <2>6. CASE CommitMode(r) \/ Abandon(r)
    BY <1>1, <2>2, <2>6 DEF CommitMode, Abandon
  <2>7. QED BY <1>4, <2>3, <2>4, <2>5, <2>6 DEF Commit
<1>5. QED BY <1>2, <1>3, <1>4 DEF Next

\* What one request at a time keeps: a behaviour stays on its schedule.
QInv == ~overlap => SInv

LEMMA QInvInit == Init => QInv
BY SInvInit DEF QInv

LEMMA QInvNext == QInv /\ [Next]_vars => QInv'
<1> SUFFICES ASSUME QInv, [Next]_vars, ~overlap' PROVE SInv'
  BY DEF QInv
<1>1. ~overlap
  BY DEF Next, vars
<1>2. QED BY <1>1, SInvNext DEF QInv

\* The red line of the ledger: unless requests overlap, the cached quantity of
\* every lot is the sum of its movements (recalculate_quantity).
THEOREM CacheIsLedgerSum == Spec => []CacheMatchesLedger
<1>1. QInv => CacheMatchesLedger
  BY DEF QInv, SInv, CacheIsSum, CacheMatchesLedger, LedgerIsTruth, OrZero
<1>2. QED BY <1>1, QInvInit, QInvNext, PTL DEF Spec

\* Requests that do not overlap take no lot below zero: one that is there opened
\* there, and nothing but intakes and moves has touched it since (discard, consume
\* and reverse refuse what a lot does not hold, and nobody counts less than zero).
THEOREM StockNeverNegative == Spec => []NeverNegative
<1>1. QInv => NeverNegative
  BY DEF QInv, SInv, CacheIsSum, DebtIsOpening, OwesItsOpening, NeverNegative
<1>2. QED BY <1>1, QInvInit, QInvNext, PTL DEF Spec

-----------------------------------------------------------------------------
(* An undo is exact as long as requests do not overlap: it is on the same lot *)
(* with the opposite delta, and what it reverses is not itself an undo.       *)

\* Entry e undoes an entry of the table ms, or nothing.
Undoes(ms, e) ==
  e.reverses # Null =>
    /\ e.reverses \in DOMAIN ms
    /\ ms[e.reverses].lot = e.lot
    /\ ms[e.reverses].delta = -e.delta
    /\ ms[e.reverses].reverses = Null

UndoesAll(w) == w.kind = "rows" => \A k \in DOMAIN w.entries : Undoes(movements, w.entries[k])

ExactUndo ==
  /\ \A i \in DOMAIN movements : Undoes(movements, movements[i])
  /\ \A r \in Requests : inflight[r] # Idle => UndoesAll(inflight[r])

\* The invariant: SInv keeps prepared work alone and current.
EInv == ~overlap => SInv /\ ExactUndo

\* Only reverse() prepares an entry that reverses one, and it has just read it.
LEMMA LoadUndoes ==
  ASSUME TInv, NEW r \in Requests, Load(r)
  PROVE  \E w : Prepare(r, w) /\ UndoesAll(w)
<1>1. ASSUME NEW ask, NEW e, NEW own, Undoes(movements, e), Prepare(r, RowWork(ask, <<e>>, own))
      PROVE  \E w : Prepare(r, w) /\ UndoesAll(w)
  <2>1. RowWork(ask, <<e>>, own).entries = <<e>>
    BY DEF RowWork
  <2>2. UndoesAll(RowWork(ask, <<e>>, own))
    BY <1>1, <2>1 DEF UndoesAll
  <2>3. QED BY <1>1, <2>2
<1>2. \A l, type, delta, from, to : Undoes(movements, Movement(l, type, delta, from, to, Null))
  BY DEF Undoes, Movement
<1>3. CASE LoadIntake(r)
  BY <1>1, <1>2, <1>3, Zenon DEF LoadIntake
<1>4. CASE LoadDiscard(r)
  BY <1>1, <1>2, <1>4, Zenon DEF LoadDiscard
<1>5. CASE LoadAdjust(r)
  BY <1>1, <1>2, <1>5, Zenon DEF LoadAdjust
<1>6. CASE LoadMove(r)
  BY <1>1, <1>2, <1>6, Zenon DEF LoadMove
<1>7. CASE LoadConsume(r)
  <2> DEFINE Stop(n, queue) == Cardinality({k \in DOMAIN queue : StillWanted(queue, n, k) > 0})
             Draw(n, queue) == [k \in 1 .. Stop(n, queue) |->
                Movement(queue[k], "consume", -Take(queue, n, k), Null, Null, Null)]
             Rows(n, queue) == [l \in {queue[k] : k \in 1 .. Stop(n, queue)} |-> lots[l]]
  <2>1. PICK n \in Amounts, queue \in FefoQueues(lots) :
          Prepare(r, RowWork(Ask("consume", 0, n), Draw(n, queue), Rows(n, queue)))
    BY <1>7, Zenon DEF LoadConsume
  <2>2. \A k \in DOMAIN Draw(n, queue) : Undoes(movements, Draw(n, queue)[k])
    <3> HIDE DEF Stop
    <3>1. \A k \in DOMAIN Draw(n, queue) :
            Draw(n, queue)[k] = Movement(queue[k], "consume", -Take(queue, n, k), Null, Null, Null)
      OBVIOUS
    <3>2. QED BY <1>2, <3>1
  <2> HIDE DEF Draw, Rows
  <2>3. UndoesAll(RowWork(Ask("consume", 0, n), Draw(n, queue), Rows(n, queue)))
    BY <2>2 DEF UndoesAll, RowWork
  <2>4. QED BY <2>1, <2>3
<1>8. CASE LoadReverse(r)
  <2> DEFINE Back(i) == movements[i].type = "move"
             Undo(i) == Movement(movements[i].lot, "correction", -movements[i].delta,
                          IF Back(i) THEN movements[i].to ELSE Null,
                          IF Back(i) THEN movements[i].from ELSE Null, i)
             Own(i) == IF Back(i)
                       THEN [lots[movements[i].lot] EXCEPT !.location = movements[i].from]
                       ELSE lots[movements[i].lot]
  <2>1. PICK i \in DOMAIN movements :
          /\ Reversible(i)
          /\ Prepare(r, RowWork(Ask("reverse", movements[i].lot, -movements[i].delta),
               <<Undo(i)>>, OneLot(movements[i].lot, Own(i))))
    BY <1>8, Zenon DEF LoadReverse
  <2>2. Undo(i).reverses = i /\ Undo(i).lot = movements[i].lot /\ Undo(i).delta = -movements[i].delta
    BY DEF Movement
  <2>3. movements[i].delta \in Int
    BY DEF TInv, TablesOK, Entry
  <2>4. Undoes(movements, Undo(i))
    BY <2>1, <2>2, <2>3 DEF Undoes, Reversible
  <2> HIDE DEF Undo, Own
  <2>5. QED BY <1>1, <2>1, <2>4
<1>9. CASE LoadPatch(r)
  <2>1. PICK ask, own : Prepare(r, RowWork(ask, <<>>, own))
    BY <1>9, Zenon DEF LoadPatch
  <2>2. UndoesAll(RowWork(ask, <<>>, own))
    BY DEF UndoesAll, RowWork
  <2>3. QED BY <2>1, <2>2
<1>10. CASE LoadCreate(r)
  <2>1. PICK ask, row : Prepare(r, [kind |-> "create", ask |-> ask, row |-> row])
    BY <1>10, Zenon DEF LoadCreate
  <2>2. QED BY <2>1 DEF UndoesAll
<1>11. CASE LoadDelete(r)
  BY <1>11 DEF LoadDelete, UndoesAll
<1>12. CASE LoadMode(r)
  BY <1>12 DEF LoadMode, UndoesAll
<1>13. QED
  BY <1>3, <1>4, <1>5, <1>6, <1>7, <1>8, <1>9, <1>10, <1>11, <1>12 DEF Load

\* Entries that undo rows of the table, or nothing, may be appended to it.
LEMMA AppendUndoes ==
  ASSUME TInv, ExactUndo, NEW entries \in Seq(Entry),
         LastId(movements) + Len(entries) <= MaxMovement,
         \A k \in DOMAIN entries : Undoes(movements, entries[k])
  PROVE  \A i \in DOMAIN Appended(entries) : Undoes(Appended(entries), Appended(entries)[i])
<1> DEFINE ms == Appended(entries)
<1>1. /\ DOMAIN ms = DOMAIN movements \cup {LastId(movements) + k : k \in DOMAIN entries}
      /\ \A i \in DOMAIN movements : ms[i] = movements[i]
      /\ \A k \in DOMAIN entries : ms[LastId(movements) + k] = entries[k]
  BY AppendedRows DEF TInv
<1> HIDE DEF ms
<1>2. \A e : Undoes(movements, e) => Undoes(ms, e)
  BY <1>1 DEF Undoes
<1>3. \A i \in DOMAIN ms : Undoes(movements, ms[i])
  <2> SUFFICES ASSUME NEW i \in DOMAIN ms PROVE Undoes(movements, ms[i])
    OBVIOUS
  <2>1. CASE i \in DOMAIN movements
    BY <1>1, <2>1 DEF ExactUndo
  <2>2. CASE i \notin DOMAIN movements
    <3>1. PICK k \in DOMAIN entries : i = LastId(movements) + k
      BY <1>1, <2>2
    <3>2. QED BY <1>1, <3>1
  <2>3. QED BY <2>1, <2>2
<1>4. QED BY <1>2, <1>3 DEF ms

LEMMA ExactUndoNext ==
  ASSUME SInv, ExactUndo, ~overlap, [Next]_vars
  PROVE  ExactUndo'
<1>1. CASE UNCHANGED vars
  BY <1>1 DEF vars, ExactUndo, UndoesAll
<1>2. ASSUME NEW r \in Requests, Load(r)
      PROVE  ExactUndo'
  <2>1. PICK w : Prepare(r, w) /\ UndoesAll(w)
    BY <1>2, LoadUndoes DEF SInv
  <2>2. /\ movements' = movements
        /\ inflight'[r] = w /\ \A q \in Requests : q # r => inflight'[q] = inflight[q]
    BY <2>1 DEF Prepare, SInv, TInv
  <2>3. QED BY <2>1, <2>2 DEF ExactUndo, UndoesAll
<1>3. ASSUME NEW r \in Requests, Commit(r) \/ Abandon(r)
      PROVE  ExactUndo'
  <2>1. inflight[r] # Idle /\ Finished(r)
    BY <1>3 DEF Commit, Abandon, CommitRows, CommitCreate, CommitDelete, CommitMode, Idle
  <2>2. \A q \in Requests : inflight'[q] = Idle
    BY <2>1 DEF SInv, WorkCurrent, Finished, TInv
  <2>3. SUFFICES \A i \in DOMAIN movements' : Undoes(movements', movements'[i])
    BY <2>2 DEF ExactUndo
  <2>4. CASE CommitRows(r)
    <3> DEFINE entries == inflight[r].entries
    <3>1. /\ entries \in Seq(Entry) /\ LastId(movements) + Len(entries) <= MaxMovement
          /\ movements' = Appended(entries) /\ inflight[r].kind = "rows"
      BY <2>4, RowsCommitted DEF SInv, RowsWork
    <3>2. \A k \in DOMAIN entries : Undoes(movements, entries[k])
      BY <2>1, <3>1 DEF ExactUndo, UndoesAll
    <3> HIDE DEF entries
    <3>3. QED BY <3>1, <3>2, AppendUndoes DEF SInv
  <2>5. CASE CommitCreate(r)
    <3> DEFINE w == inflight[r]
               e == Movement(LastId(lots) + 1, "intake", w.ask.n, Null, w.row.location, Null)
    <3>1. /\ w.kind = "create" /\ Work(w)
          /\ w.ask.n # Null => LastId(movements) + 1 <= MaxMovement
          /\ movements' = IF w.ask.n = Null THEN movements ELSE Appended(<<e>>)
      BY <2>5 DEF CommitCreate, SInv, TInv
    <3>2. CreateWork(w)
      BY <3>1 DEF Work, Idle, RowsWork, OtherWork
    <3>3. CASE w.ask.n = Null
      BY <3>1, <3>3 DEF ExactUndo
    <3>4. CASE w.ask.n # Null
      <4>1. w.ask.n \in Int /\ w.row.location \in Maybe(Locations)
        BY <3>2, <3>4 DEF CreateWork, Maybe, Row
      <4>2. LastId(lots) + 1 \in Nat
        BY LastIdIsLast, LedgerConstants DEF SInv, TInv, TablesOK
      <4>3. Null \in Maybe(Locations) /\ Null \in Maybe(Nat) /\ "intake" \in MovementTypes
        BY DEF Maybe, MovementTypes
      <4>4. e \in Entry /\ e.reverses = Null
        BY <4>1, <4>2, <4>3, MovementEntry DEF Movement
      <4> HIDE DEF e
      <4>5. <<e>> \in Seq(Entry) /\ Len(<<e>>) = 1 /\ DOMAIN <<e>> = {1} /\ <<e>>[1] = e
        BY <4>4
      <4>6. \A k \in DOMAIN <<e>> : Undoes(movements, <<e>>[k])
        BY <4>4, <4>5 DEF Undoes
      <4>7. QED BY <3>1, <3>4, <4>5, <4>6, AppendUndoes DEF SInv
    <3>5. QED BY <3>3, <3>4
  <2>6. CASE CommitDelete(r)
    <3> DEFINE gone == inflight[r].ask.lot
               kept == {i \in DOMAIN movements : movements[i].lot # gone}
    <3>1. movements' = [i \in kept |->
                          IF movements[i].reverses \in kept THEN movements[i]
                          ELSE [movements[i] EXCEPT !.reverses = Null]]
      BY <2>6 DEF CommitDelete
    <3>2. ASSUME NEW i \in kept
          PROVE  /\ movements'[i].lot = movements[i].lot
                 /\ movements'[i].delta = movements[i].delta
                 /\ \/ movements'[i].reverses = Null
                    \/ movements'[i].reverses = movements[i].reverses /\ movements[i].reverses \in kept
      BY <3>1 DEF SInv, TInv, TablesOK, Entry
    <3>3. DOMAIN movements' = kept /\ \A i \in kept : i \in DOMAIN movements
      BY <3>1
    <3> HIDE DEF kept
    <3>4. QED BY <3>2, <3>3 DEF ExactUndo, Undoes
  <2>7. CASE CommitMode(r) \/ Abandon(r)
    BY <2>7 DEF CommitMode, Abandon, ExactUndo
  <2>8. QED BY <1>3, <2>4, <2>5, <2>6, <2>7 DEF Commit
<1>4. QED BY <1>1, <1>2, <1>3 DEF Next

\* An undo undoes one movement, once and exactly: the first whatever interleaves,
\* the second as long as requests do not overlap (StockMovementService.reverse).
THEOREM UndoesOnceExactly == Spec => []ReversalsUndo
<1>1. Init => EInv
  <2>1. Init => ExactUndo
    BY DEF Init, ExactUndo
  <2>2. QED BY <2>1, SInvInit DEF EInv
<1>2. EInv /\ [Next]_vars => EInv'
  <2> SUFFICES ASSUME EInv, [Next]_vars, ~overlap' PROVE SInv' /\ ExactUndo'
    BY DEF EInv
  <2>1. ~overlap
    BY DEF Next, vars
  <2>2. QED BY <2>1, SInvNext, ExactUndoNext DEF EInv
<1>3. EInv => UndoIsExact
  BY DEF EInv, ExactUndo, Undoes, UndoIsExact
<1>4. Spec => []UndoneAtMostOnce
  BY NeverUndoneTwice
<1>5. UndoneAtMostOnce /\ UndoIsExact => ReversalsUndo
  BY DEF ReversalsUndo
<1>6. QED BY <1>1, <1>2, <1>3, <1>4, <1>5, PTL DEF Spec

-----------------------------------------------------------------------------
(* StockLedger implements StockPromise: seen as plain counters, requests    *)
(* that do not overlap serve what they ask for, in one step each, and leave *)
(* nothing below zero.  And a consume draws nearest-expiry first.  Both     *)
(* rest on what a request has prepared being what it asks for, which for a  *)
(* consume is a sum over its FEFO queue.                                    *)

-----------------------------------------------------------------------------
(* What a request has prepared, against what it asks for *)

\* Which lots are counted goes with the mode of the definition: all of them, or
\* none, and then there are no movements either.
ModeDecides ==
  /\ mode = "exact" => \A l \in DOMAIN lots : lots[l].quantity # Null
  /\ mode # "exact" => /\ \A l \in DOMAIN lots : lots[l].quantity = Null
                       /\ DOMAIN movements = {}

\* One entry, on the lot asked for, of the size asked for.
CountedWork(w) ==
  LET e == w.entries[1] IN
  /\ DOMAIN w.entries = {1}
  /\ w.ask.lot = e.lot /\ e.lot \in DOMAIN lots /\ e.type \notin {"move", "consume"}
  /\ e.type = "intake" => w.ask.op = "intake"
  /\ \/ w.ask.op = "intake" /\ w.ask.n > 0 /\ e.delta = w.ask.n
     \/ w.ask.op = "discard" /\ w.ask.n > 0 /\ e.delta = -w.ask.n
     \/ w.ask.op = "reverse" /\ e.delta = w.ask.n
     \/ w.ask.op = "adjust" /\ e.delta = w.ask.n - OrZero(lots[e.lot].quantity)

\* What each lot gives to a consume: the entries say so, and it adds up.
Gives(w, given) ==
  /\ given \in [DOMAIN lots -> Nat]
  /\ \A k \in DOMAIN w.entries : given[w.entries[k].lot] = -w.entries[k].delta
  /\ \A l \in DOMAIN lots : (\A k \in DOMAIN w.entries : w.entries[k].lot # l) => given[l] = 0
  /\ SumTo(given, MaxLot) = w.ask.n

\* A lot that expires before one that is drawn from gives all it has.
Nearest(w) ==
  \A k \in DOMAIN w.entries, a \in DOMAIN lots :
    ExpiresFirst(lots[a].bestBefore, lots[w.entries[k].lot].bestBefore) =>
      /\ (\A j \in DOMAIN w.entries : w.entries[j].lot # a) => lots[a].quantity <= 0
      /\ \A j \in DOMAIN w.entries :
           w.entries[j].lot = a => w.entries[j].delta = -lots[a].quantity

DrawWork(w) ==
  /\ w.ask.op = "consume" /\ w.ask.n > 0
  /\ \A k \in DOMAIN w.entries : w.entries[k].type # "move"
  /\ \E given : Gives(w, given)
  /\ Nearest(w)

BystandingWork(w) ==
  /\ w.ask.op \in {"move", "patch"}
  /\ \A k \in DOMAIN w.entries : w.entries[k].type = "move"
  /\ mode # "exact" => w.entries = <<>>

AsAsked(w) ==
  /\ DOMAIN w.ask = {"op", "lot", "n"}
  /\ w.kind = "rows" => \/ mode = "exact" /\ (CountedWork(w) \/ DrawWork(w))
                        \/ BystandingWork(w)
  /\ w.kind = "create" => w.ask.op = "create" /\ (w.ask.n = Null <=> mode # "exact")
  /\ w.kind = "delete" => w.ask.op = "delete"
  /\ w.kind = "mode" => w.ask.op = "mode" /\ DOMAIN lots = {}

AllAsAsked == \A r \in Requests : inflight[r] # Idle => AsAsked(inflight[r])

\* The invariant of the refinement.
PInv == ~overlap => SInv /\ ModeDecides /\ AllAsAsked


-----------------------------------------------------------------------------
(* A consume draws what it is asked for *)

\* What is wanted at a lot of the queue, and at the place after it.
LEMMA WantedStep ==
  ASSUME TInv, NEW queue \in FefoQueues(lots), NEW n \in Int
  PROVE  /\ StillWanted(queue, n, 1) = n
         /\ \A k \in DOMAIN queue :
              /\ StillWanted(queue, n, k) \in Int
              /\ StillWanted(queue, n, k + 1)
                   = StillWanted(queue, n, k) - lots[queue[k]].quantity
         /\ \A j, k \in DOMAIN queue :
              j <= k => StillWanted(queue, n, k) <= StillWanted(queue, n, j)
<1> DEFINE q == [j \in DOMAIN queue |-> lots[queue[j]].quantity]
           len == Cardinality(ActiveLots(lots))
<1>1. DOMAIN queue = 1 .. len /\ len \in Nat
  BY QueueLength DEF FefoQueues
<1>2. \A j \in DOMAIN queue : lots[queue[j]].quantity \in Int /\ lots[queue[j]].quantity > 0
  BY TakeBounds
<1>3. \A j \in DOMAIN q : q[j] \in Nat /\ q[j] \in Int
  BY <1>2
<1>4. \A k : StillWanted(queue, n, k) = n - SumTo(q, k - 1)
  BY DEF StillWanted
<1>5. \A j \in DOMAIN queue : q[j] = lots[queue[j]].quantity
  OBVIOUS
<1>6. DOMAIN q = DOMAIN queue
  OBVIOUS
<1> HIDE DEF q, len
<1>7. StillWanted(queue, n, 1) = n
  <2>1. SumTo(q, 0) = 0
    BY <1>3, SumToRecursion
  <2>2. QED BY <1>4, <2>1
<1>8. ASSUME NEW k \in DOMAIN queue
      PROVE  /\ StillWanted(queue, n, k) \in Int
             /\ StillWanted(queue, n, k + 1)
                  = StillWanted(queue, n, k) - lots[queue[k]].quantity
  <2>1. k - 1 \in Nat /\ (k - 1) + 1 = k /\ (k + 1) - 1 = k
    BY <1>1
  <2>2. SumTo(q, k - 1) \in Int /\ SumTo(q, k) = SumTo(q, k - 1) + Contribution(q, k)
    BY <1>3, <2>1, SumToRecursion
  <2>3. Contribution(q, k) = lots[queue[k]].quantity
    BY <1>5, <1>6 DEF Contribution
  <2>4. QED BY <1>2, <1>4, <2>1, <2>2, <2>3
<1>9. ASSUME NEW j \in DOMAIN queue, NEW k \in DOMAIN queue, j <= k
      PROVE  StillWanted(queue, n, k) <= StillWanted(queue, n, j)
  <2>1. j - 1 \in Nat /\ k - 1 \in Nat /\ j - 1 <= k - 1
    BY <1>1, <1>9
  <2>2. SumTo(q, j - 1) <= SumTo(q, k - 1)
    BY <1>3, <2>1, SumToGrows
  <2>3. SumTo(q, j - 1) \in Int /\ SumTo(q, k - 1) \in Int
    BY <1>3, <2>1, SumToRecursion
  <2>4. QED BY <1>4, <2>2, <2>3
<1>10. QED BY <1>7, <1>8, <1>9

\* The loop goes through a first part of the queue, and stops with nothing left
\* to take.
LEMMA DrawnPart ==
  ASSUME TInv, NEW queue \in FefoQueues(lots), NEW n \in Int, n > 0,
         StillWanted(queue, n, Cardinality(DOMAIN queue) + 1) <= 0,
         NEW stop, stop = Cardinality({k \in DOMAIN queue : StillWanted(queue, n, k) > 0})
  PROVE  /\ stop \in Nat /\ 1 .. stop \subseteq DOMAIN queue
         /\ \A k \in 1 .. stop : StillWanted(queue, n, k) > 0
         /\ StillWanted(queue, n, stop + 1) <= 0
<1> DEFINE len == Cardinality(ActiveLots(lots))
           Wanting == {k \in DOMAIN queue : StillWanted(queue, n, k) > 0}
<1>1. DOMAIN queue = 1 .. len /\ len \in Nat
  BY QueueLength DEF FefoQueues
<1> HIDE DEF len
<1>2. Cardinality(DOMAIN queue) = len
  BY <1>1, FS_Interval
<1>3. Wanting # {}
  <2>1. StillWanted(queue, n, 1) = n
    BY WantedStep
  <2>2. len # 0
    BY <1>2, <2>1
  <2>3. 1 \in Wanting
    BY <1>1, <2>1, <2>2
  <2>4. QED BY <2>3
<1>4. Wanting \subseteq 1 .. len
  BY <1>1
<1>5. \A j, k \in DOMAIN queue : j <= k /\ k \in Wanting => j \in Wanting
  BY WantedStep
<1>6. \A k \in Wanting : StillWanted(queue, n, k) > 0
  OBVIOUS
<1>7. \A k \in DOMAIN queue : k \notin Wanting => StillWanted(queue, n, k) <= 0
  BY WantedStep
<1>8. stop = Cardinality(Wanting)
  OBVIOUS
<1> HIDE DEF Wanting
<1>9. PICK g \in Wanting : \A j \in Wanting : j <= g
  BY <1>1, <1>3, <1>4, GreatestExists
<1>10. Wanting = 1 .. g /\ g \in Nat
  <2>1. g \in 1 .. len
    BY <1>4
  <2>2. 1 .. g \subseteq Wanting
    BY <1>1, <1>5, <2>1
  <2>3. Wanting \subseteq 1 .. g
    BY <1>4, <1>9, <2>1
  <2>4. Wanting = 1 .. g
    BY <2>2, <2>3, Zenon
  <2>5. QED BY <2>1, <2>4
<1>11. stop = g
  BY <1>8, <1>10, FS_Interval
<1>12. StillWanted(queue, n, g + 1) <= 0
  <2>1. CASE g = len
    BY <1>2, <2>1
  <2>2. CASE g # len
    <3>1. g + 1 \in DOMAIN queue /\ g + 1 \notin Wanting
      BY <1>1, <1>4, <1>9, <1>10, <2>2
    <3>2. QED BY <1>7, <3>1
  <2>3. QED BY <2>1, <2>2
<1>13. QED BY <1>1, <1>4, <1>6, <1>10, <1>11, <1>12

\* What the first m lots of the queue give, lot by lot.
GivenBy(queue, n, m) ==
  [l \in DOMAIN lots |->
     IF \E k \in 1 .. m : queue[k] = l
     THEN Take(queue, n, CHOOSE k \in 1 .. m : queue[k] = l) ELSE 0]

\* The takes of the lots drawn from add up to what was asked for.
LEMMA DrawnSum ==
  ASSUME TInv, NEW queue \in FefoQueues(lots), NEW n \in Int, n > 0, NEW stop \in Nat,
         1 .. stop \subseteq DOMAIN queue,
         \A k \in 1 .. stop : StillWanted(queue, n, k) > 0,
         StillWanted(queue, n, stop + 1) <= 0
  PROVE  /\ \A k \in 1 .. stop : GivenBy(queue, n, stop)[queue[k]] = Take(queue, n, k)
         /\ \A l \in DOMAIN lots : GivenBy(queue, n, stop)[l] \in Nat
         /\ SumTo(GivenBy(queue, n, stop), MaxLot) = n
<1> DEFINE G(m) == GivenBy(queue, n, m)
           Left(k) == IF StillWanted(queue, n, k) > 0 THEN StillWanted(queue, n, k) ELSE 0
           S == {m \in Nat : m <= stop => SumTo(G(m), MaxLot) = n - Left(m + 1)}
<1>1. ASSUME NEW k \in 1 .. stop
      PROVE  /\ queue[k] \in DOMAIN lots /\ queue[k] \in 1 .. MaxLot
             /\ Take(queue, n, k) \in Nat
             /\ Take(queue, n, k) = Left(k) - Left(k + 1)
             /\ Left(k) \in Int /\ Left(k + 1) \in Int
  <2>1. /\ queue[k] \in DOMAIN lots
        /\ lots[queue[k]].quantity \in Int /\ lots[queue[k]].quantity > 0
    BY TakeBounds
  <2>2. /\ StillWanted(queue, n, k) \in Int
        /\ StillWanted(queue, n, k + 1) = StillWanted(queue, n, k) - lots[queue[k]].quantity
        /\ StillWanted(queue, n, k) > 0
    BY WantedStep
  <2>3. queue[k] \in 1 .. MaxLot
    BY <2>1 DEF TInv, TablesOK
  <2>4. QED BY <2>1, <2>2, <2>3 DEF Take
<1>2. \A j, k \in 1 .. stop : queue[j] = queue[k] => j = k
  BY QueueDistinct
<1>3. ASSUME NEW m \in 0 .. stop
      PROVE  /\ DOMAIN G(m) = DOMAIN lots
             /\ \A k \in 1 .. m : G(m)[queue[k]] = Take(queue, n, k)
             /\ \A l \in DOMAIN lots : (\A k \in 1 .. m : queue[k] # l) => G(m)[l] = 0
             /\ \A l \in DOMAIN lots : G(m)[l] \in Nat
  <2>1. ASSUME NEW k \in 1 .. m PROVE G(m)[queue[k]] = Take(queue, n, k)
    <3>1. \E j \in 1 .. m : queue[j] = queue[k]
      OBVIOUS
    <3>2. (CHOOSE j \in 1 .. m : queue[j] = queue[k]) = k
      BY <1>2, <3>1
    <3>3. queue[k] \in DOMAIN lots
      BY <1>1
    <3>4. QED BY <3>1, <3>2, <3>3 DEF GivenBy
  <2>2. ASSUME NEW l \in DOMAIN lots, \A k \in 1 .. m : queue[k] # l PROVE G(m)[l] = 0
    BY <2>2 DEF GivenBy
  <2>3. ASSUME NEW l \in DOMAIN lots PROVE G(m)[l] \in Nat
    BY <1>1, <2>1, <2>2
  <2>4. QED BY <2>1, <2>2, <2>3 DEF GivenBy
<1> HIDE DEF G
<1>4. 0 \in S
  <2>1. 0 \in 0 .. stop
    OBVIOUS
  <2>2. \A l \in DOMAIN lots : G(0)[l] = 0
    BY <1>3, <2>1
  <2>3. \A i : Contribution(G(0), i) = 0
    BY <1>3, <2>1, <2>2 DEF Contribution
  <2>4. SumTo(G(0), MaxLot) = 0
    <3> DEFINE Z == {m \in Nat : SumTo(G(0), m) = 0}
    <3>1. \A i \in DOMAIN G(0) : G(0)[i] \in Int
      BY <1>3, <2>1
    <3>2. 0 \in Z /\ \A m \in Nat : m \in Z => m + 1 \in Z
      BY <2>3, <3>1, SumToRecursion
    <3> HIDE DEF Z
    <3>3. Nat \subseteq Z
      BY <3>2, NatSetInduction
    <3>4. QED BY <3>3, LedgerConstants DEF Z
  <2>5. Left(1) = n
    BY WantedStep
  <2>6. QED BY <2>4, <2>5
<1>5. ASSUME NEW m \in Nat, m \in S PROVE m + 1 \in S
  <2> SUFFICES ASSUME m + 1 <= stop
               PROVE  SumTo(G(m + 1), MaxLot) = n - Left((m + 1) + 1)
    OBVIOUS
  <2>1. m \in 0 .. stop /\ m + 1 \in 0 .. stop /\ m + 1 \in 1 .. stop
    OBVIOUS
  <2> DEFINE l == queue[m + 1]
             d == Take(queue, n, m + 1)
  <2>2. /\ l \in 1 .. MaxLot /\ l \in DOMAIN lots /\ d \in Nat
        /\ d = Left(m + 1) - Left((m + 1) + 1)
        /\ Left(m + 1) \in Int /\ Left((m + 1) + 1) \in Int
    BY <1>1, <2>1
  <2>3. G(m + 1)[l] = d
    BY <1>3, <2>1
  <2>4. G(m)[l] = 0
    <3>1. \A k \in 1 .. m : queue[k] # l
      BY <1>2, <2>1
    <3>2. QED BY <1>3, <2>1, <2>2, <3>1
  <2>5. \A i \in DOMAIN lots : i # l => G(m + 1)[i] = G(m)[i]
    <3> SUFFICES ASSUME NEW i \in DOMAIN lots, i # l PROVE G(m + 1)[i] = G(m)[i]
      OBVIOUS
    <3>1. CASE \E k \in 1 .. m : queue[k] = i
      <4>1. PICK k \in 1 .. m : queue[k] = i
        BY <3>1
      <4>2. k \in 1 .. m + 1
        OBVIOUS
      <4>3. G(m)[queue[k]] = Take(queue, n, k)
        BY <1>3, <2>1
      <4>4. G(m + 1)[queue[k]] = Take(queue, n, k)
        BY <1>3, <2>1, <4>2
      <4>5. QED BY <4>1, <4>3, <4>4
    <3>2. CASE \A k \in 1 .. m : queue[k] # i
      <4>1. \A k \in 1 .. m + 1 : queue[k] # i
        BY <3>2
      <4>2. G(m)[i] = 0
        BY <1>3, <2>1, <3>2
      <4>3. G(m + 1)[i] = 0
        BY <1>3, <2>1, <4>1
      <4>4. QED BY <4>2, <4>3
    <3>3. QED BY <3>1, <3>2
  <2>6. /\ DOMAIN G(m) = DOMAIN lots /\ DOMAIN G(m + 1) = DOMAIN lots
        /\ \A i \in DOMAIN G(m) : G(m)[i] \in Int
        /\ \A i \in DOMAIN G(m + 1) : G(m + 1)[i] \in Int
    BY <1>3, <2>1
  <2> HIDE DEF l, d
  <2>7. Contribution(G(m + 1), l) = Contribution(G(m), l) + d
    BY <2>2, <2>3, <2>4, <2>6 DEF Contribution
  <2>8. \A i \in Nat \ {0, l} : Contribution(G(m + 1), i) = Contribution(G(m), i)
    BY <2>5, <2>6 DEF Contribution
  <2>9. l \in Nat \ {0} /\ d \in Int /\ MaxLot \in Nat /\ l <= MaxLot
    BY <2>2, LedgerConstants
  <2>10. SumTo(G(m + 1), MaxLot) = SumTo(G(m), MaxLot) + IF l <= MaxLot THEN d ELSE 0
    BY <2>6, <2>7, <2>8, <2>9, SumToOneRow
  <2>11. SumTo(G(m), MaxLot) = n - Left(m + 1)
    BY <1>5
  <2> HIDE DEF Left
  <2>12. QED BY <2>2, <2>9, <2>10, <2>11
<1> HIDE DEF S
<1>6. Nat \subseteq S
  BY <1>4, <1>5, NatSetInduction
<1>7. SumTo(G(stop), MaxLot) = n
  <2>1. StillWanted(queue, n, stop + 1) \in Int
    <3>1. CASE stop = 0
      BY <3>1, WantedStep
    <3>2. CASE stop # 0
      <4>1. stop \in DOMAIN queue
        BY <3>2
      <4>2. /\ StillWanted(queue, n, stop) \in Int
            /\ StillWanted(queue, n, stop + 1)
                 = StillWanted(queue, n, stop) - lots[queue[stop]].quantity
        BY <4>1, WantedStep
      <4>3. lots[queue[stop]].quantity \in Int
        BY <4>1, TakeBounds
      <4>4. QED BY <4>2, <4>3
    <3>3. QED BY <3>1, <3>2
  <2>2. Left(stop + 1) = 0
    BY <2>1
  <2>3. SumTo(G(stop), MaxLot) = n - Left(stop + 1)
    BY <1>6 DEF S
  <2> HIDE DEF Left
  <2>4. QED BY <2>2, <2>3
<1>8. QED BY <1>3, <1>7 DEF G

\* Every active lot is in the queue.
LEMMA QueueComplete ==
  ASSUME TInv, NEW queue \in FefoQueues(lots), NEW a \in ActiveLots(lots)
  PROVE  \E j \in DOMAIN queue : queue[j] = a
<1> DEFINE active == ActiveLots(lots)
           len == Cardinality(active)
<1>1. IsFiniteSet(active) /\ len \in Nat
  BY QueueLength
<1>2. queue \in [1 .. len -> active] /\ DOMAIN queue = 1 .. len
  BY DEF FefoQueues
<1>3. a \in active
  OBVIOUS
<1> HIDE DEF active
<1>4. SUFFICES ASSUME \A j \in DOMAIN queue : queue[j] # a PROVE FALSE
  OBVIOUS
<1>5. IsFiniteSet(active \ {a}) /\ Cardinality(active \ {a}) = len - 1
  BY <1>1, <1>3, FS_RemoveElement
<1> HIDE DEF len
<1>6. queue \in [1 .. len -> active \ {a}]
  BY <1>2, <1>4
<1>7. IsFiniteSet(1 .. len) /\ Cardinality(1 .. len) = len
  BY <1>1, FS_Interval
<1>8. \E j, k \in 1 .. len : j # k /\ queue[j] = queue[k]
  BY <1>1, <1>5, <1>6, <1>7, FS_PigeonHole
<1>9. QED BY <1>2, <1>8, QueueDistinct

\* A lot that expires before one of the queue is before it in the queue.
LEMMA ExpiringIsAhead ==
  ASSUME TInv, NEW queue \in FefoQueues(lots), NEW j \in DOMAIN queue, NEW k \in DOMAIN queue,
         ExpiresFirst(lots[queue[j]].bestBefore, lots[queue[k]].bestBefore)
  PROVE  j < k
<1>1. \A x, y \in DOMAIN queue : x < y => Before(lots, queue[x], queue[y])
  BY DEF FefoQueues
<1>2. j \in Int /\ k \in Int
  BY QueueLength DEF FefoQueues
<1>3. queue[j] \in DOMAIN lots /\ queue[k] \in DOMAIN lots
  BY TakeBounds, 0 \in Int
<1>4. /\ lots[queue[j]].bestBefore # Null => lots[queue[j]].bestBefore \in Int
      /\ lots[queue[k]].bestBefore # Null => lots[queue[k]].bestBefore \in Int
  BY <1>3, LotRow, LedgerConstants DEF Row, Maybe
<1>5. ~Before(lots, queue[k], queue[j])
  BY <1>4 DEF ExpiresFirst, Before
<1>6. queue[j] # queue[k]
  BY <1>4 DEF ExpiresFirst
<1>7. ~(k < j) /\ j # k
  BY <1>1, <1>5, <1>6
<1>8. QED BY <1>2, <1>7

\* What the loop takes from a lot it goes beyond is all the lot has.
LEMMA DrawnInOrder ==
  ASSUME TInv, NEW queue \in FefoQueues(lots), NEW n \in Int, NEW stop \in Nat,
         1 .. stop \subseteq DOMAIN queue,
         \A k \in 1 .. stop : StillWanted(queue, n, k) > 0,
         NEW k \in 1 .. stop, NEW a \in DOMAIN lots,
         ExpiresFirst(lots[a].bestBefore, lots[queue[k]].bestBefore)
  PROVE  /\ (\A j \in 1 .. stop : queue[j] # a) /\ lots[a].quantity # Null
              => lots[a].quantity <= 0
         /\ \A j \in 1 .. stop : queue[j] = a => Take(queue, n, j) = lots[a].quantity
<1>1. ASSUME NEW j \in DOMAIN queue, queue[j] = a PROVE j \in 1 .. stop /\ j < k
  <2>1. j < k
    BY <1>1, ExpiringIsAhead
  <2>2. j \in 1 .. Cardinality(ActiveLots(lots))
    BY DEF FefoQueues
  <2>3. QED BY <2>1, <2>2, QueueLength
<1>2. ASSUME \A j \in 1 .. stop : queue[j] # a, lots[a].quantity # Null
      PROVE  lots[a].quantity <= 0
  <2>1. a \notin ActiveLots(lots)
    BY <1>1, <1>2, QueueComplete
  <2>2. lots[a].quantity \in Int
    BY <1>2, LotRow DEF Maybe
  <2>3. QED BY <1>2, <2>1, <2>2 DEF ActiveLots
<1>3. ASSUME NEW j \in 1 .. stop, queue[j] = a PROVE Take(queue, n, j) = lots[a].quantity
  <2>1. j \in DOMAIN queue /\ j + 1 \in 1 .. stop
    BY <1>1, <1>3
  <2>2. /\ StillWanted(queue, n, j) \in Int
        /\ StillWanted(queue, n, j + 1) = StillWanted(queue, n, j) - lots[queue[j]].quantity
        /\ StillWanted(queue, n, j + 1) > 0
    BY <2>1, WantedStep
  <2>3. lots[queue[j]].quantity \in Int
    BY <2>1, TakeBounds
  <2>4. QED BY <1>3, <2>2, <2>3 DEF Take
<1>4. QED BY <1>2, <1>3

-----------------------------------------------------------------------------
(* Every request prepares what it asks for *)

AsksFor(ask, op, l, n) ==
  ask.op = op /\ ask.lot = l /\ ask.n = n /\ DOMAIN ask = {"op", "lot", "n"}

LEMMA AskAsks == \A op, l, n : AsksFor(Ask(op, l, n), op, l, n)
BY DEF AsksFor, Ask

LEMMA MovementFields ==
  \A l, type, delta, from, to, reverses :
    LET e == Movement(l, type, delta, from, to, reverses)
    IN  e.lot = l /\ e.type = type /\ e.delta = delta
BY DEF Movement

\* Work with one entry on the one lot it asks about.
LEMMA CountedAsAsked ==
  ASSUME NEW op, NEW l \in DOMAIN lots, NEW n, NEW e, NEW own, mode = "exact",
         e.lot = l, e.type \notin {"move", "consume"}, e.type = "intake" => op = "intake",
         \/ op = "intake" /\ n > 0 /\ e.delta = n
         \/ op = "discard" /\ n > 0 /\ e.delta = -n
         \/ op = "reverse" /\ e.delta = n
         \/ op = "adjust" /\ e.delta = n - OrZero(lots[l].quantity)
  PROVE  AsAsked(RowWork(Ask(op, l, n), <<e>>, own))
<1> DEFINE w == RowWork(Ask(op, l, n), <<e>>, own)
<1>1. w.kind = "rows" /\ w.entries = <<e>> /\ AsksFor(w.ask, op, l, n)
  BY AskAsks DEF RowWork
<1> HIDE DEF w
<1>2. DOMAIN w.entries = {1} /\ w.entries[1] = e
  BY <1>1
<1>3. CountedWork(w)
  BY <1>1, <1>2 DEF CountedWork, AsksFor
<1>4. QED BY <1>1, <1>3 DEF AsAsked, AsksFor, w

LEMMA ConsumeAsAsked ==
  ASSUME TInv, ModeDecides, NEW r \in Requests, LoadConsume(r)
  PROVE  \E ask, entries, own :
           Prepare(r, RowWork(ask, entries, own)) /\ AsAsked(RowWork(ask, entries, own))
<1> DEFINE Stop(n, queue) == Cardinality({k \in DOMAIN queue : StillWanted(queue, n, k) > 0})
           Draw(n, queue) == [k \in 1 .. Stop(n, queue) |->
              Movement(queue[k], "consume", -Take(queue, n, k), Null, Null, Null)]
           Rows(n, queue) == [l \in {queue[k] : k \in 1 .. Stop(n, queue)} |-> lots[l]]
<1>1. PICK n \in Amounts, queue \in FefoQueues(lots) :
        /\ mode = "exact" /\ n > 0
        /\ StillWanted(queue, n, Cardinality(DOMAIN queue) + 1) <= 0
        /\ Prepare(r, RowWork(Ask("consume", 0, n), Draw(n, queue), Rows(n, queue)))
  BY Zenon DEF LoadConsume
<1>2. n \in Int
  BY LedgerConstants
<1> DEFINE stop == Stop(n, queue)
           entries == Draw(n, queue)
           given == GivenBy(queue, n, stop)
           w == RowWork(Ask("consume", 0, n), entries, Rows(n, queue))
<1>3. /\ stop \in Nat /\ 1 .. stop \subseteq DOMAIN queue
      /\ \A k \in 1 .. stop : StillWanted(queue, n, k) > 0
      /\ StillWanted(queue, n, stop + 1) <= 0
  <2> HIDE DEF stop
  <2>1. stop = Cardinality({k \in DOMAIN queue : StillWanted(queue, n, k) > 0})
    BY DEF stop
  <2>2. QED BY <1>1, <1>2, <2>1, DrawnPart
<1>4. /\ DOMAIN entries = 1 .. stop
      /\ \A k \in 1 .. stop :
           entries[k] = Movement(queue[k], "consume", -Take(queue, n, k), Null, Null, Null)
  <2> HIDE DEF Stop
  <2>1. QED OBVIOUS
<1>5. w.kind = "rows" /\ w.entries = entries /\ AsksFor(w.ask, "consume", 0, n)
  BY AskAsks DEF RowWork
<1>6. Prepare(r, w)
  BY <1>1
<1> HIDE DEF Stop, Draw, entries, Rows, w, stop
<1>7. /\ \A k \in 1 .. stop : given[queue[k]] = Take(queue, n, k)
      /\ \A l \in DOMAIN lots : given[l] \in Nat
      /\ SumTo(given, MaxLot) = n
  BY <1>1, <1>2, <1>3, DrawnSum
<1>8. \A k \in 1 .. stop : entries[k].lot = queue[k] /\ entries[k].type = "consume"
                           /\ entries[k].delta = -Take(queue, n, k)
  BY <1>4, MovementFields
<1>9. \A k \in 1 .. stop : Take(queue, n, k) \in Int
  BY <1>2, <1>3, TakeBounds
<1>10. given \in [DOMAIN lots -> Nat]
  BY <1>7 DEF GivenBy
<1>11. \A l \in DOMAIN lots : (\A k \in 1 .. stop : queue[k] # l) => given[l] = 0
  BY DEF GivenBy
<1> HIDE DEF given
<1>12. Gives(w, given)
  <2>1. DOMAIN w.entries = 1 .. stop /\ w.ask.n = n
    BY <1>4, <1>5 DEF AsksFor
  <2>2. ASSUME NEW k \in 1 .. stop
        PROVE  w.entries[k].lot = queue[k] /\ given[w.entries[k].lot] = -w.entries[k].delta
    BY <1>5, <1>7, <1>8, <1>9
  <2>3. ASSUME NEW l \in DOMAIN lots, \A k \in DOMAIN w.entries : w.entries[k].lot # l
        PROVE  given[l] = 0
    BY <1>11, <2>1, <2>2, <2>3
  <2>4. SumTo(given, MaxLot) = w.ask.n
    BY <1>7, <2>1
  <2>5. QED BY <1>10, <2>1, <2>2, <2>3, <2>4 DEF Gives
<1>13. Nearest(w)
  <2> SUFFICES ASSUME NEW k \in 1 .. stop, NEW a \in DOMAIN lots,
                      ExpiresFirst(lots[a].bestBefore, lots[queue[k]].bestBefore)
               PROVE  /\ (\A j \in 1 .. stop : queue[j] # a) => lots[a].quantity <= 0
                      /\ \A j \in 1 .. stop : queue[j] = a => -Take(queue, n, j) = -lots[a].quantity
    BY <1>4, <1>5, <1>8 DEF Nearest
  <2>1. lots[a].quantity # Null
    BY <1>1 DEF ModeDecides
  <2>2. QED BY <1>2, <1>3, <2>1, DrawnInOrder
<1>14. DrawWork(w)
  BY <1>1, <1>4, <1>5, <1>8, <1>12, <1>13 DEF DrawWork, AsksFor
<1>15. AsAsked(w)
  BY <1>1, <1>5, <1>14 DEF AsAsked, AsksFor
<1>16. QED BY <1>6, <1>15 DEF w

LEMMA LoadAsAsked ==
  ASSUME TInv, ModeDecides, NEW r \in Requests, Load(r)
  PROVE  \E w : Prepare(r, w) /\ w # Idle /\ AsAsked(w)
<1>1. \A ask, entries, own : RowWork(ask, entries, own) # Idle
  BY DEF RowWork, Idle
<1>2. CASE LoadIntake(r)
  <2>1. PICK l \in DOMAIN lots, n \in Amounts :
          /\ mode = "exact" /\ n > 0
          /\ Prepare(r, RowWork(Ask("intake", l, n),
               <<Movement(l, "intake", n, Null, lots[l].location, Null)>>, OneLot(l, lots[l])))
    BY <1>2 DEF LoadIntake
  <2>2. AsAsked(RowWork(Ask("intake", l, n),
               <<Movement(l, "intake", n, Null, lots[l].location, Null)>>, OneLot(l, lots[l])))
    BY <2>1, MovementFields, CountedAsAsked
  <2>3. QED BY <1>1, <2>1, <2>2
<1>3. CASE LoadDiscard(r)
  <2>1. PICK l \in DOMAIN lots, n \in Amounts :
          /\ mode = "exact" /\ n > 0
          /\ Prepare(r, RowWork(Ask("discard", l, n),
               <<Movement(l, "discard", -n, Null, Null, Null)>>, OneLot(l, lots[l])))
    BY <1>3 DEF LoadDiscard
  <2>2. AsAsked(RowWork(Ask("discard", l, n),
               <<Movement(l, "discard", -n, Null, Null, Null)>>, OneLot(l, lots[l])))
    BY <2>1, MovementFields, CountedAsAsked
  <2>3. QED BY <1>1, <2>1, <2>2
<1>4. CASE LoadAdjust(r)
  <2>1. PICK l \in DOMAIN lots, n \in Amounts :
          /\ mode = "exact"
          /\ Prepare(r, RowWork(Ask("adjust", l, n),
               <<Movement(l, "adjust", n - OrZero(lots[l].quantity), Null, Null, Null)>>,
               OneLot(l, lots[l])))
    BY <1>4 DEF LoadAdjust
  <2>2. AsAsked(RowWork(Ask("adjust", l, n),
               <<Movement(l, "adjust", n - OrZero(lots[l].quantity), Null, Null, Null)>>,
               OneLot(l, lots[l])))
    BY <2>1, MovementFields, CountedAsAsked
  <2>3. QED BY <1>1, <2>1, <2>2
<1>5. CASE LoadMove(r)
  <2>1. PICK l \in DOMAIN lots, place \in Locations :
          /\ mode = "exact"
          /\ Prepare(r, RowWork(Ask("move", l, 0),
               <<Movement(l, "move", 0, lots[l].location, place, Null)>>,
               OneLot(l, [lots[l] EXCEPT !.location = place])))
    BY <1>5 DEF LoadMove
  <2> DEFINE e == Movement(l, "move", 0, lots[l].location, place, Null)
             w == RowWork(Ask("move", l, 0), <<e>>, OneLot(l, [lots[l] EXCEPT !.location = place]))
  <2>2. w.kind = "rows" /\ w.entries = <<e>> /\ AsksFor(w.ask, "move", l, 0)
    BY AskAsks DEF RowWork
  <2>3. e.type = "move"
    BY MovementFields
  <2>4. Prepare(r, w) /\ w # Idle
    BY <1>1, <2>1
  <2> HIDE DEF e, w
  <2>5. \A k \in DOMAIN w.entries : w.entries[k].type = "move"
    BY <2>2, <2>3
  <2>6. AsAsked(w)
    BY <2>1, <2>2, <2>5 DEF AsAsked, BystandingWork, AsksFor
  <2>7. QED BY <2>4, <2>6
<1>6. CASE LoadConsume(r)
  BY <1>1, <1>6, ConsumeAsAsked
<1>7. CASE LoadReverse(r)
  <2> DEFINE Back(i) == movements[i].type = "move"
             Undo(i) == Movement(movements[i].lot, "correction", -movements[i].delta,
                          IF Back(i) THEN movements[i].to ELSE Null,
                          IF Back(i) THEN movements[i].from ELSE Null, i)
             Own(i) == IF Back(i)
                       THEN [lots[movements[i].lot] EXCEPT !.location = movements[i].from]
                       ELSE lots[movements[i].lot]
  <2>1. PICK i \in DOMAIN movements :
          Prepare(r, RowWork(Ask("reverse", movements[i].lot, -movements[i].delta),
            <<Undo(i)>>, OneLot(movements[i].lot, Own(i))))
    BY <1>7, Zenon DEF LoadReverse
  <2>2. /\ Undo(i).lot = movements[i].lot /\ Undo(i).delta = -movements[i].delta
        /\ Undo(i).type = "correction"
    BY MovementFields
  <2>3. mode = "exact"
    BY DEF ModeDecides
  <2>4. movements[i].lot \in DOMAIN lots
    BY DEF TInv, TablesOK
  <2> HIDE DEF Undo, Own
  <2>5. AsAsked(RowWork(Ask("reverse", movements[i].lot, -movements[i].delta),
            <<Undo(i)>>, OneLot(movements[i].lot, Own(i))))
    BY <2>2, <2>3, <2>4, CountedAsAsked
  <2>6. QED BY <1>1, <2>1, <2>5
<1>8. CASE LoadPatch(r)
  <2>1. PICK l, own : Prepare(r, RowWork(Ask("patch", l, 0), <<>>, own))
    BY <1>8, Zenon DEF LoadPatch
  <2> DEFINE w == RowWork(Ask("patch", l, 0), <<>>, own)
  <2>2. w.kind = "rows" /\ w.entries = <<>> /\ AsksFor(w.ask, "patch", l, 0)
    BY AskAsks DEF RowWork
  <2>3. Prepare(r, w) /\ w # Idle
    BY <1>1, <2>1
  <2> HIDE DEF w
  <2>4. AsAsked(w)
    BY <2>2 DEF AsAsked, BystandingWork, AsksFor
  <2>5. QED BY <2>3, <2>4
<1>9. CASE LoadCreate(r)
  <2>0. PICK n \in InitialAmounts : \E row :
          Prepare(r,
            [kind |-> "create",
             ask |-> Ask("create", 0, IF mode = "exact" THEN (IF n = Null THEN 1 ELSE n) ELSE Null),
             row |-> row])
    BY <1>9, Zenon DEF LoadCreate
  <2>1. PICK row :
          Prepare(r,
            [kind |-> "create",
             ask |-> Ask("create", 0, IF mode = "exact" THEN (IF n = Null THEN 1 ELSE n) ELSE Null),
             row |-> row])
    BY <2>0
  <2> DEFINE a == IF mode = "exact" THEN (IF n = Null THEN 1 ELSE n) ELSE Null
             w == [kind |-> "create", ask |-> Ask("create", 0, a), row |-> row]
  <2>2. a = Null <=> mode # "exact"
    BY LedgerConstants
  <2>3. Prepare(r, w)
    BY <2>1
  <2> HIDE DEF a
  <2>4. w.kind = "create" /\ AsksFor(w.ask, "create", 0, a) /\ w # Idle
    BY AskAsks DEF Idle
  <2> HIDE DEF w
  <2>5. AsAsked(w)
    BY <2>2, <2>4 DEF AsAsked, AsksFor
  <2>6. QED BY <2>3, <2>4, <2>5
<1>10. CASE LoadDelete(r)
  <2>1. PICK l \in DOMAIN lots : Prepare(r, [kind |-> "delete", ask |-> Ask("delete", l, 0)])
    BY <1>10 DEF LoadDelete
  <2> DEFINE w == [kind |-> "delete", ask |-> Ask("delete", l, 0)]
  <2>2. w.kind = "delete" /\ AsksFor(w.ask, "delete", l, 0) /\ w # Idle
    BY AskAsks DEF Idle
  <2>3. AsAsked(w)
    BY <2>2 DEF AsAsked, AsksFor
  <2>4. QED BY <2>1, <2>2, <2>3
<1>11. CASE LoadMode(r)
  <2>1. PICK new \in Modes :
          /\ ~HasInstances
          /\ Prepare(r, [kind |-> "mode", ask |-> Ask("mode", 0, 0), new |-> new])
    BY <1>11 DEF LoadMode
  <2> DEFINE w == [kind |-> "mode", ask |-> Ask("mode", 0, 0), new |-> new]
  <2>2. w.kind = "mode" /\ AsksFor(w.ask, "mode", 0, 0) /\ w # Idle
    BY AskAsks DEF Idle
  <2>3. AsAsked(w)
    BY <2>1, <2>2 DEF AsAsked, AsksFor, HasInstances
  <2>4. QED BY <2>1, <2>2, <2>3
<1>12. QED
  BY <1>2, <1>3, <1>4, <1>5, <1>6, <1>7, <1>8, <1>9, <1>10, <1>11 DEF Load

-----------------------------------------------------------------------------
(* What is committed changes the quantities by what the entries say *)

LEMMA RowsChange ==
  ASSUME SInv, NEW r \in Requests, CommitRows(r), NEW w, w = inflight[r]
  PROVE  /\ DOMAIN lots' = DOMAIN lots
         /\ \A l \in DOMAIN lots :
              (\A k \in DOMAIN w.entries : w.entries[k].lot = l => w.entries[k].type = "move")
                => lots'[l].quantity = lots[l].quantity
         /\ \A k \in DOMAIN w.entries :
              /\ w.entries[k].lot \in DOMAIN lots /\ w.entries[k].delta \in Int
              /\ w.entries[k].type # "move" =>
                   /\ lots'[w.entries[k].lot].quantity \in Int
                   /\ lots'[w.entries[k].lot].quantity
                        = OrZero(lots[w.entries[k].lot].quantity) + w.entries[k].delta
<1>1. /\ RowsWork(w)
      /\ DOMAIN w.seen \subseteq DOMAIN lots
      /\ LastId(movements) + Len(w.entries) <= MaxMovement
      /\ movements' = Appended(w.entries)
      /\ \A i \in DOMAIN movements' : movements'[i] \in Entry
      /\ DOMAIN lots' = DOMAIN lots
      /\ \A l \in DOMAIN lots : l \notin DOMAIN w.seen => lots'[l] = lots[l]
      /\ \A l \in DOMAIN w.seen :
           lots'[l] = Flushed(w.seen[l], Recomputed(w, l, movements'), lots[l])
  BY RowsCommitted DEF SInv
<1>2. Fresh(w)
  BY <1>1 DEF SInv, WorkCurrent
<1>3. /\ w.entries \in Seq(Entry) /\ TablesOK(lots, movements)
      /\ \A l \in DOMAIN lots : OrZero(lots[l].quantity) = SumDeltas(movements, l)
  BY <1>1 DEF RowsWork, SInv, TInv, CacheIsSum
<1>4. ASSUME NEW l \in DOMAIN w.seen
      PROVE  lots'[l].quantity = Recomputed(w, l, movements').quantity
  <2>1. /\ w.seen[l] \in Row /\ w.seen[l] = lots[l]
        /\ Recomputed(w, l, movements') \in Row
    BY <1>1, <1>2, RecomputedRow DEF RowsWork, Fresh
  <2>2. QED BY <1>1, <2>1, FlushedRow
<1>5. ASSUME NEW l \in DOMAIN lots,
             \A k \in DOMAIN w.entries : w.entries[k].lot = l => w.entries[k].type = "move"
      PROVE  lots'[l].quantity = lots[l].quantity
  <2>1. CASE l \in DOMAIN w.seen
    <3>1. Recomputed(w, l, movements') = w.own[l]
      BY <1>5 DEF Recomputed
    <3>2. w.own[l].quantity = w.seen[l].quantity /\ w.seen[l] = lots[l]
      BY <1>1, <1>2, <2>1 DEF RowsWork, Fresh
    <3>3. QED BY <1>4, <2>1, <3>1, <3>2
  <2>2. QED BY <1>1, <2>1
<1>6. ASSUME NEW k \in DOMAIN w.entries
      PROVE  /\ w.entries[k].lot \in DOMAIN lots /\ w.entries[k].delta \in Int
             /\ w.entries[k].type # "move" =>
                  /\ lots'[w.entries[k].lot].quantity \in Int
                  /\ lots'[w.entries[k].lot].quantity
                       = OrZero(lots[w.entries[k].lot].quantity) + w.entries[k].delta
  <2> DEFINE l == w.entries[k].lot
  <2>1. /\ l \in DOMAIN w.seen /\ l \in DOMAIN lots /\ w.own[l] \in Row
        /\ \A j \in DOMAIN w.entries : w.entries[j].lot = w.entries[k].lot => j = k
    BY <1>1 DEF RowsWork
  <2>2. w.entries[k] \in Entry
    BY <1>3
  <2>3. SumDeltas(movements', l) = SumDeltas(movements, l) + w.entries[k].delta
    BY <1>1, <1>3, <2>1, SumOfTouchedLot
  <2>4. ASSUME w.entries[k].type # "move"
        PROVE  lots'[l].quantity = SumDeltas(movements', l)
    <3>1. Recomputed(w, l, movements') = [w.own[l] EXCEPT !.quantity = SumDeltas(movements', l)]
      BY <2>4 DEF Recomputed
    <3>2. Recomputed(w, l, movements').quantity = SumDeltas(movements', l)
      BY <2>1, <3>1 DEF Row
    <3>3. QED BY <1>4, <2>1, <3>2
  <2>5. SumDeltas(movements', l) \in Int
    BY <1>1, SumDeltasInt
  <2>6. OrZero(lots[l].quantity) = SumDeltas(movements, l)
    BY <1>3, <2>1
  <2>7. w.entries[k].delta \in Int
    BY <2>2 DEF Entry
  <2>8. QED BY <2>1, <2>3, <2>4, <2>5, <2>6, <2>7
<1>7. QED BY <1>1, <1>5, <1>6

-----------------------------------------------------------------------------
(* The invariant *)

\* Row work leaves every counted lot counted, and the others uncounted.
LEMMA RowsKeepMode ==
  ASSUME SInv, ModeDecides, NEW r \in Requests, CommitRows(r), AsAsked(inflight[r])
  PROVE  ModeDecides'
<1> DEFINE w == inflight[r]
<1>1. /\ w.kind = "rows" /\ mode' = mode /\ movements' = Appended(w.entries)
      /\ w.entries \in Seq(Entry) /\ LastId(movements) + Len(w.entries) <= MaxMovement
      /\ TablesOK(lots, movements)
  BY RowsCommitted DEF CommitRows, SInv, TInv, RowsWork
<1>2. /\ DOMAIN lots' = DOMAIN lots
      /\ \A l \in DOMAIN lots :
           (\A k \in DOMAIN w.entries : w.entries[k].lot = l => w.entries[k].type = "move")
             => lots'[l].quantity = lots[l].quantity
      /\ \A k \in DOMAIN w.entries :
           w.entries[k].type # "move" => lots'[w.entries[k].lot].quantity \in Int
  BY RowsChange
<1>3. AsAsked(w)
  OBVIOUS
<1> HIDE DEF w
<1>4. CASE mode = "exact"
  <2>1. \A l \in DOMAIN lots : lots'[l].quantity \in Int \/ lots'[l].quantity = lots[l].quantity
    BY <1>2
  <2>2. QED BY <1>1, <1>2, <1>4, <2>1, LedgerConstants DEF ModeDecides
<1>5. CASE mode # "exact"
  <2>1. w.entries = <<>>
    BY <1>1, <1>3, <1>5 DEF AsAsked, BystandingWork
  <2>2. \A l \in DOMAIN lots : lots'[l].quantity = lots[l].quantity
    BY <1>2, <2>1
  <2>3. DOMAIN movements' = DOMAIN movements
    <3>1. DOMAIN Appended(w.entries) =
            DOMAIN movements \cup {LastId(movements) + k : k \in DOMAIN w.entries}
      BY <1>1, AppendedRows
    <3>2. DOMAIN w.entries = {}
      BY <2>1
    <3>3. QED BY <1>1, <3>1, <3>2
  <2>4. QED BY <1>1, <1>2, <1>5, <2>2, <2>3 DEF ModeDecides
<1>6. QED BY <1>4, <1>5

LEMMA PInvInit == Init => PInv
<1>1. Init => ModeDecides /\ AllAsAsked
  BY DEF Init, ModeDecides, AllAsAsked
<1>2. QED BY <1>1, SInvInit DEF PInv

LEMMA PInvNext == PInv /\ [Next]_vars => PInv'
<1> SUFFICES ASSUME PInv, [Next]_vars, ~overlap' PROVE SInv' /\ ModeDecides' /\ AllAsAsked'
  BY DEF PInv
<1>1. ~overlap
  BY DEF Next, vars
<1>2. SInv /\ ModeDecides /\ AllAsAsked /\ TInv
  BY <1>1 DEF PInv, SInv
<1>3. SInv'
  BY <1>1, <1>2, SInvNext
<1>4. ASSUME UNCHANGED vars PROVE ModeDecides' /\ AllAsAsked'
  <2>1. mode' = mode /\ lots' = lots /\ movements' = movements /\ inflight' = inflight
    BY <1>4 DEF vars
  <2>2. ASSUME NEW r \in Requests, inflight[r] # Idle PROVE AsAsked(inflight[r])'
    <3>1. AsAsked(inflight[r])
      BY <1>2, <2>2 DEF AllAsAsked
    <3>2. QED
      BY <2>1, <3>1 DEF AsAsked, CountedWork, DrawWork, Gives, Nearest, BystandingWork
  <2>3. ModeDecides'
    BY <1>2, <2>1 DEF ModeDecides
  <2>4. QED BY <2>1, <2>2, <2>3 DEF AllAsAsked
<1>5. ASSUME NEW r \in Requests, Load(r) PROVE ModeDecides' /\ AllAsAsked'
  <2>1. PICK w : Prepare(r, w) /\ w # Idle /\ AsAsked(w)
    BY <1>2, <1>5, LoadAsAsked
  <2>2. UNCHANGED <<mode, lots, movements>>
    BY <2>1 DEF Prepare
  <2>3. CanLoad(r)
    BY <1>5 DEF Load, LoadIntake, LoadDiscard, LoadAdjust, LoadMove, LoadConsume, LoadReverse,
                LoadPatch, LoadCreate, LoadDelete, LoadMode
  <2>4. inflight'[r] = w /\ \A q \in Requests : q # r => inflight'[q] = Idle
    BY <1>1, <1>2, <2>1, <2>3 DEF Prepare, CanLoad, TInv
  <2>5. ASSUME NEW q \in Requests, inflight'[q] # Idle PROVE AsAsked(inflight[q])'
    <3>1. inflight'[q] = w /\ lots' = lots /\ mode' = mode
      BY <2>2, <2>4, <2>5
    <3>2. CountedWork(w) => CountedWork(inflight[q])'
      BY <3>1 DEF CountedWork
    <3>3. BystandingWork(w) => BystandingWork(inflight[q])'
      BY <3>1 DEF BystandingWork
    <3>4. DrawWork(w) => DrawWork(inflight[q])'
      <4>1. Nearest(w) => Nearest(inflight[q])'
        BY <3>1 DEF Nearest
      <4>2. \A given : Gives(w, given) => Gives(inflight[q], given)'
        BY <3>1 DEF Gives
      <4>3. QED BY <3>1, <4>1, <4>2 DEF DrawWork
    <3>5. QED BY <2>1, <3>1, <3>2, <3>3, <3>4 DEF AsAsked
  <2>6. AllAsAsked'
    BY <2>5 DEF AllAsAsked
  <2>7. QED BY <1>2, <2>2, <2>6 DEF ModeDecides
<1>6. ASSUME NEW r \in Requests, Commit(r) \/ Abandon(r) PROVE ModeDecides' /\ AllAsAsked'
  <2>1. inflight[r] # Idle /\ Finished(r)
    BY <1>6 DEF Commit, Abandon, CommitRows, CommitCreate, CommitDelete, CommitMode, Idle
  <2>2. \A q \in Requests : inflight'[q] = Idle
    BY <1>2, <2>1 DEF SInv, WorkCurrent, Finished, TInv
  <2>3. AllAsAsked'
    BY <2>2 DEF AllAsAsked
  <2>4. AsAsked(inflight[r])
    BY <1>2, <2>1 DEF AllAsAsked
  <2>5. CASE CommitRows(r)
    BY <1>2, <2>3, <2>4, <2>5, RowsKeepMode
  <2>6. CASE CommitCreate(r)
    <3> DEFINE w == inflight[r]
               l == LastId(lots) + 1
    <3>1. /\ DOMAIN lots' = DOMAIN lots \cup {l}
          /\ \A k \in DOMAIN lots : lots'[k] = lots[k]
          /\ lots'[l].quantity = w.ask.n
          /\ w.ask.n = Null => movements' = movements
      BY <1>2, <2>6, CreateChange
    <3>2. mode' = mode /\ (w.ask.n = Null <=> mode # "exact")
      BY <2>4, <2>6 DEF CommitCreate, AsAsked
    <3> HIDE DEF w, l
    <3>3. ModeDecides'
      BY <1>2, <3>1, <3>2 DEF ModeDecides
    <3>4. QED BY <2>3, <3>3
  <2>7. CASE CommitDelete(r)
    BY <1>2, <2>3, <2>7 DEF CommitDelete, ModeDecides
  <2>8. CASE CommitMode(r)
    <3>1. DOMAIN lots' = {}
      BY <2>4, <2>8 DEF CommitMode, AsAsked
    <3>2. DOMAIN movements' = {}
      BY <1>3, <3>1 DEF SInv, TInv, TablesOK
    <3>3. QED BY <2>3, <3>1, <3>2 DEF ModeDecides
  <2>9. CASE Abandon(r)
    BY <1>2, <2>3, <2>9 DEF Abandon, ModeDecides
  <2>10. QED BY <1>6, <2>5, <2>6, <2>7, <2>8, <2>9 DEF Commit
<1>7. CASE Next
  <2>1. PICK r \in Requests : Load(r) \/ Commit(r) \/ Abandon(r)
    BY <1>7 DEF Next
  <2>2. QED BY <1>3, <1>5, <1>6, <2>1
<1>8. QED BY <1>3, <1>4, <1>7

-----------------------------------------------------------------------------
(* The refinement mapping *)

Counted == {k \in DOMAIN lots : ~overlap /\ lots[k].quantity # Null}

Stock == [l \in Counted |-> lots[l].quantity]

Wishes ==
  [r \in Requests |->
     IF overlap \/ inflight[r] = Idle THEN [op |-> "none", lot |-> 0, n |-> 0]
     ELSE inflight[r].ask]

Served(r) == Wishes' = [Wishes EXCEPT ![r] = [op |-> "none", lot |-> 0, n |-> 0]]

\* The steps of StockPromise, of the mapped state.
LEMMA PromiseSteps ==
  ASSUME NEW r \in Requests
  PROVE  LET ask == Wishes[r] IN
    /\ /\ Wishes[r] = [op |-> "none", lot |-> 0, n |-> 0]
       /\ Wishes' = [Wishes EXCEPT ![r] = Wishes'[r]]
       /\ DOMAIN Wishes'[r] = {"op", "lot", "n"} /\ Stock' = Stock
       => Promise!Wish(r)
    /\ Served(r) /\ Stock' = Stock => Promise!Drop(r)
    /\ Served(r) /\ Stock' = Stock /\ ask.op \in {"move", "patch", "mode"}
       => Promise!Bystander(r)
    /\ /\ Served(r) /\ ask.op = "intake" /\ ask.n > 0 /\ ask.lot \in DOMAIN Stock
       /\ Stock' = [Stock EXCEPT ![ask.lot] = @ + ask.n]
       => Promise!Intake(r)
    /\ /\ Served(r) /\ ask.op = "discard" /\ ask.n > 0
       /\ ask.lot \in DOMAIN Stock /\ Stock'[ask.lot] >= 0
       /\ Stock' = [Stock EXCEPT ![ask.lot] = @ + (-ask.n)]
       => Promise!Discard(r)
    /\ /\ Served(r) /\ ask.op = "reverse"
       /\ ask.lot \in DOMAIN Stock /\ Stock'[ask.lot] >= 0
       /\ Stock' = [Stock EXCEPT ![ask.lot] = @ + ask.n]
       => Promise!Reverse(r)
    /\ /\ Served(r) /\ ask.op = "adjust" /\ ask.lot \in DOMAIN Stock
       /\ Stock'[ask.lot] >= 0
       /\ Stock' = [Stock EXCEPT ![ask.lot] = @ + (ask.n - Stock[ask.lot])]
       => Promise!Adjust(r)
    /\ Served(r) /\ ask.op = "create" /\ ask.n = Null /\ Stock' = Stock => Promise!Create(r)
    /\ /\ Served(r) /\ ask.op = "create" /\ ask.n # Null
       /\ \E l \in (1 .. MaxLot) \ DOMAIN Stock :
            Stock' = [k \in DOMAIN Stock \cup {l} |-> IF k = l THEN ask.n ELSE Stock[k]]
       => Promise!Create(r)
    /\ /\ Served(r) /\ ask.op = "delete"
       /\ Stock' = [l \in DOMAIN Stock \ {ask.lot} |-> Stock[l]]
       => Promise!Delete(r)
BY Zenon DEF Stock, Counted, Wishes, Served, Promise!NoWish, Promise!Wish, Promise!Drop, Promise!Asks,
   Promise!Add, Promise!Change, Promise!Bystander, Promise!Intake, Promise!Discard, Promise!Reverse,
   Promise!Adjust, Promise!Create, Promise!Delete

LEMMA PromiseSum == \A f, n : Promise!SumTo(f, n) = SumTo(f, n)
BY DEF SumTo, Promise!SumTo, Contribution, Promise!Contribution

LEMMA PromiseConsume ==
  ASSUME NEW r \in Requests, Served(r), Wishes[r].op = "consume", Wishes[r].n > 0,
         DOMAIN Stock' = DOMAIN Stock,
         \A l \in DOMAIN Stock :
           Stock[l] - Stock'[l] >= 0 /\ (Stock[l] - Stock'[l] > 0 => Stock'[l] >= 0),
         SumTo([l \in DOMAIN Stock |-> Stock[l] - Stock'[l]], MaxLot) = Wishes[r].n
  PROVE  Promise!Consume(r)
BY PromiseSum DEF Stock, Counted, Wishes, Served, Promise!NoWish, Promise!Consume, Promise!Asks

-----------------------------------------------------------------------------
(* Every step is a step of the promise, or none *)

\* Where requests overlap nothing is promised, so no step shows.
LEMMA OverlapStutters ==
  ASSUME overlap, overlap' = overlap
  PROVE  Stock' = Stock /\ Wishes' = Wishes
BY DEF Stock, Counted, Wishes

\* The stock follows the quantities.
LEMMA StockSame ==
  ASSUME overlap' = overlap, DOMAIN lots' = DOMAIN lots,
         \A l \in DOMAIN lots : lots'[l].quantity = lots[l].quantity
  PROVE  Stock' = Stock
<1>1. Counted' = Counted
  BY DEF Counted
<1>2. \A l \in Counted : lots'[l].quantity = lots[l].quantity
  BY DEF Counted
<1>3. QED BY <1>1, <1>2 DEF Stock

\* Where the definition is counted, so is each of its lots.
AllCounted ==
  /\ DOMAIN Stock = DOMAIN lots
  /\ \A l \in DOMAIN lots : /\ Stock[l] = lots[l].quantity /\ Stock[l] \in Int
                            /\ Stock[l] = OrZero(lots[l].quantity)
  /\ Stock = [l \in DOMAIN lots |-> Stock[l]]

LEMMA ExactStock == ~overlap /\ SInv /\ ModeDecides /\ mode = "exact" => AllCounted
<1> SUFFICES ASSUME ~overlap, SInv, ModeDecides, mode = "exact" PROVE AllCounted
  OBVIOUS
<1>1. \A l \in DOMAIN lots : lots[l].quantity # Null /\ lots[l].quantity \in Maybe(Int)
  BY LotRow DEF ModeDecides, SInv
<1>2. Counted = DOMAIN lots
  BY <1>1 DEF Counted
<1>3. QED BY <1>1, <1>2 DEF AllCounted, Stock, OrZero, Maybe

\* A request that ends has had its wish served, or dropped.
LEMMA FinishedServed ==
  ASSUME ~overlap, overlap' = overlap, TInv, NEW r \in Requests, inflight[r] # Idle, Finished(r)
  PROVE  Served(r) /\ Wishes[r] = inflight[r].ask
<1>1. \A q \in Requests : inflight'[q] = IF q = r THEN Idle ELSE inflight[q]
  BY DEF Finished, TInv
<1>2. Wishes[r] = inflight[r].ask
  BY DEF Wishes
<1>3. Served(r)
  BY <1>1 DEF Served, Wishes
<1>4. QED BY <1>2, <1>3

LEMMA LoadIsWish ==
  ASSUME ~overlap, overlap' = overlap, SInv, ModeDecides, NEW r \in Requests, Load(r)
  PROVE  Promise!Wish(r)
<1>1. PICK w : Prepare(r, w) /\ w # Idle /\ AsAsked(w)
  BY LoadAsAsked DEF SInv
<1>2. inflight[r] = Idle
  BY DEF Load, LoadIntake, LoadDiscard, LoadAdjust, LoadMove, LoadConsume, LoadReverse,
         LoadPatch, LoadCreate, LoadDelete, LoadMode, CanLoad
<1>3. lots' = lots /\ \A q \in Requests : inflight'[q] = IF q = r THEN w ELSE inflight[q]
  BY <1>1 DEF Prepare, SInv, TInv
<1>4. Wishes[r] = [op |-> "none", lot |-> 0, n |-> 0] /\ Wishes'[r] = w.ask
  BY <1>1, <1>2, <1>3 DEF Wishes
<1>5. Wishes' = [Wishes EXCEPT ![r] = Wishes'[r]]
  BY <1>3 DEF Wishes
<1>6. DOMAIN Wishes'[r] = {"op", "lot", "n"}
  BY <1>1, <1>4 DEF AsAsked
<1>7. Stock' = Stock
  BY <1>3, StockSame
<1>8. QED BY <1>4, <1>5, <1>6, <1>7, PromiseSteps

\* One entry changes one lot, by as much as the wish says.
LEMMA CountedIsServed ==
  ASSUME ~overlap, overlap' = overlap, SInv, SInv', ModeDecides, ModeDecides',
         NEW r \in Requests, CommitRows(r), mode = "exact", CountedWork(inflight[r])
  PROVE  Promise!Intake(r) \/ Promise!Discard(r) \/ Promise!Reverse(r) \/ Promise!Adjust(r)
<1> DEFINE w == inflight[r]
           l == w.ask.lot
           d == w.entries[1].delta
<1>1. CountedWork(w) /\ Served(r) /\ Wishes[r] = w.ask
  BY FinishedServed DEF CommitRows, SInv, Idle
<1>2. mode' = mode /\ ~overlap'
  BY DEF CommitRows
<1>3. /\ DOMAIN lots' = DOMAIN lots
      /\ \A k \in DOMAIN lots :
           (\A j \in DOMAIN w.entries : w.entries[j].lot = k => w.entries[j].type = "move")
             => lots'[k].quantity = lots[k].quantity
      /\ \A j \in DOMAIN w.entries :
           /\ w.entries[j].delta \in Int
           /\ w.entries[j].type # "move" =>
                lots'[w.entries[j].lot].quantity
                  = OrZero(lots[w.entries[j].lot].quantity) + w.entries[j].delta
  BY RowsChange
<1>4. AllCounted
  BY ExactStock
<1>5. AllCounted'
  <2>1. (~overlap /\ SInv /\ ModeDecides /\ mode = "exact" => AllCounted)'
    BY ExactStock, PTL
  <2>2. QED BY <1>2, <2>1
<1> HIDE DEF w
<1>6. l \in DOMAIN lots /\ Stock'[l] = Stock[l] + d /\ d \in Int
  BY <1>1, <1>3, <1>4, <1>5 DEF CountedWork, AllCounted
<1>7. \A k \in DOMAIN lots : k # l => Stock'[k] = Stock[k]
  BY <1>1, <1>3, <1>4, <1>5 DEF CountedWork, AllCounted
<1>8. Stock' = [Stock EXCEPT ![l] = @ + d]
  <2> HIDE DEF l, d
  <2>1. QED BY <1>3, <1>4, <1>5, <1>6, <1>7 DEF AllCounted
<1>9. w.ask.op # "intake" => Stock'[l] >= 0
  <2>1. RowsWork(w) /\ Fresh(w) /\ Leaves(w)
    BY RowsCommitted DEF w, SInv, WorkCurrent
  <2>2. 1 \in DOMAIN w.entries /\ w.entries[1].lot = l
        /\ (w.ask.op # "intake" => w.entries[1].type \notin {"intake", "move"})
    BY <1>1 DEF CountedWork
  <2>3. w.seen[l] = lots[l]
    BY <2>1, <2>2 DEF Fresh, RowsWork
  <2>4. w.ask.op # "intake" => OrZero(lots[l].quantity) + d >= 0
    BY <2>1, <2>2, <2>3 DEF Leaves
  <2>5. QED BY <1>4, <1>6, <2>4 DEF AllCounted
<1>10. \/ w.ask.op = "intake" /\ w.ask.n > 0 /\ d = w.ask.n
       \/ w.ask.op = "discard" /\ w.ask.n > 0 /\ d = -w.ask.n
       \/ w.ask.op = "reverse" /\ d = w.ask.n
       \/ w.ask.op = "adjust" /\ d = w.ask.n - Stock[l]
  BY <1>1, <1>4 DEF CountedWork, AllCounted
<1> HIDE DEF d
<1>11. CASE w.ask.op = "intake" /\ w.ask.n > 0 /\ d = w.ask.n
  BY <1>1, <1>4, <1>6, <1>8, <1>9, <1>11, PromiseSteps DEF AllCounted
<1>12. CASE w.ask.op = "discard" /\ w.ask.n > 0 /\ d = -w.ask.n
  BY <1>1, <1>4, <1>6, <1>8, <1>9, <1>12, PromiseSteps DEF AllCounted
<1>13. CASE w.ask.op = "reverse" /\ d = w.ask.n
  BY <1>1, <1>4, <1>6, <1>8, <1>9, <1>13, PromiseSteps DEF AllCounted
<1>14. CASE w.ask.op = "adjust" /\ d = w.ask.n - Stock[l]
  BY <1>1, <1>4, <1>6, <1>8, <1>9, <1>14, PromiseSteps DEF AllCounted
<1>15. QED BY <1>10, <1>11, <1>12, <1>13, <1>14

\* The entries of a consume take from the lots what was asked for, no lot more
\* than it has.
LEMMA DrawIsServed ==
  ASSUME ~overlap, overlap' = overlap, SInv, SInv', ModeDecides, ModeDecides',
         NEW r \in Requests, CommitRows(r), mode = "exact", DrawWork(inflight[r])
  PROVE  Promise!Consume(r)
<1> DEFINE w == inflight[r]
<1>1. DrawWork(w) /\ Served(r) /\ Wishes[r] = w.ask
  BY FinishedServed DEF CommitRows, SInv, Idle
<1>2. mode' = mode /\ ~overlap'
  BY DEF CommitRows
<1>3. /\ DOMAIN lots' = DOMAIN lots
      /\ \A k \in DOMAIN lots :
           (\A j \in DOMAIN w.entries : w.entries[j].lot = k => w.entries[j].type = "move")
             => lots'[k].quantity = lots[k].quantity
      /\ \A j \in DOMAIN w.entries :
           /\ w.entries[j].lot \in DOMAIN lots /\ w.entries[j].delta \in Int
           /\ w.entries[j].type # "move" =>
                lots'[w.entries[j].lot].quantity
                  = OrZero(lots[w.entries[j].lot].quantity) + w.entries[j].delta
  BY RowsChange
<1>4. AllCounted
  BY ExactStock
<1>5. AllCounted'
  <2>1. (~overlap /\ SInv /\ ModeDecides /\ mode = "exact" => AllCounted)'
    BY ExactStock, PTL
  <2>2. QED BY <1>2, <2>1
<1> HIDE DEF w
<1>6. PICK given : Gives(w, given)
  BY <1>1 DEF DrawWork
<1>7. ASSUME NEW l \in DOMAIN lots
      PROVE  Stock[l] - Stock'[l] = given[l] /\ given[l] \in Nat
  <2>1. given[l] \in Nat
    BY <1>6 DEF Gives
  <2>2. /\ Stock[l] \in Int /\ Stock'[l] \in Int /\ Stock'[l] = lots'[l].quantity
        /\ Stock[l] = lots[l].quantity /\ Stock[l] = OrZero(lots[l].quantity)
    BY <1>3, <1>4, <1>5 DEF AllCounted
  <2>3. CASE \A k \in DOMAIN w.entries : w.entries[k].lot # l
    <3>1. given[l] = 0 /\ lots'[l].quantity = lots[l].quantity
      BY <1>3, <1>6, <2>3 DEF Gives
    <3>2. Stock'[l] = Stock[l]
      BY <2>2, <3>1
    <3>3. Stock[l] - Stock'[l] = 0
      BY <2>2, <3>2
    <3>4. QED BY <3>1, <3>3
  <2>4. CASE \E k \in DOMAIN w.entries : w.entries[k].lot = l
    <3>1. PICK k \in DOMAIN w.entries : w.entries[k].lot = l
      BY <2>4
    <3>2. given[l] = -w.entries[k].delta /\ w.entries[k].type # "move"
      BY <1>1, <1>6, <3>1 DEF Gives, DrawWork
    <3>3. Stock'[l] = Stock[l] + w.entries[k].delta /\ w.entries[k].delta \in Int
      BY <1>3, <2>2, <3>1, <3>2
    <3>4. QED BY <2>1, <2>2, <3>2, <3>3
  <2>5. QED BY <2>3, <2>4
<1>8. ASSUME NEW l \in DOMAIN Stock
      PROVE  Stock[l] - Stock'[l] >= 0 /\ (Stock[l] - Stock'[l] > 0 => Stock'[l] >= 0)
  <2>1. l \in DOMAIN lots /\ Stock[l] \in Int /\ Stock[l] = OrZero(lots[l].quantity)
    BY <1>4 DEF AllCounted
  <2>2. Stock[l] - Stock'[l] = given[l] /\ given[l] \in Nat
    BY <1>7, <2>1
  <2>3. CASE \A k \in DOMAIN w.entries : w.entries[k].lot # l
    BY <1>6, <2>1, <2>2, <2>3 DEF Gives
  <2>4. CASE \E k \in DOMAIN w.entries : w.entries[k].lot = l
    <3>1. PICK k \in DOMAIN w.entries : w.entries[k].lot = l
      BY <2>4
    <3>2. RowsWork(w) /\ Fresh(w) /\ Leaves(w)
      BY RowsCommitted DEF w, SInv, WorkCurrent
    <3>3. w.seen[l] = lots[l]
      BY <3>1, <3>2 DEF Fresh, RowsWork
    <3>4. \/ Stock[l] + w.entries[k].delta >= 0
          \/ w.entries[k].delta >= 0
      BY <2>1, <3>1, <3>2, <3>3 DEF Leaves
    <3>5. given[l] = -w.entries[k].delta /\ w.entries[k].delta \in Int
      BY <1>3, <1>6, <3>1 DEF Gives
    <3>6. Stock'[l] \in Int
      BY <1>3, <1>5, <2>1 DEF AllCounted
    <3>7. QED BY <2>1, <2>2, <3>4, <3>5, <3>6
  <2>5. QED BY <2>3, <2>4
<1>9. [l \in DOMAIN Stock |-> Stock[l] - Stock'[l]] = given
  <2>1. DOMAIN Stock = DOMAIN lots /\ given \in [DOMAIN lots -> Nat]
    BY <1>4, <1>6 DEF AllCounted, Gives
  <2>2. QED BY <1>7, <2>1
<1>10. DOMAIN Stock' = DOMAIN Stock
  BY <1>3, <1>4, <1>5 DEF AllCounted
<1>11. SumTo([l \in DOMAIN Stock |-> Stock[l] - Stock'[l]], MaxLot) = w.ask.n
  BY <1>6, <1>9 DEF Gives
<1>12. Wishes[r].op = "consume" /\ Wishes[r].n > 0 /\ Wishes[r].n = w.ask.n
  BY <1>1 DEF DrawWork
<1>13. QED BY <1>1, <1>8, <1>10, <1>11, <1>12, PromiseConsume

LEMMA RowsIsServed ==
  ASSUME ~overlap, overlap' = overlap, SInv, SInv', ModeDecides, ModeDecides',
         NEW r \in Requests, CommitRows(r), AsAsked(inflight[r])
  PROVE  \/ Promise!Intake(r) \/ Promise!Discard(r) \/ Promise!Reverse(r) \/ Promise!Adjust(r)
         \/ Promise!Consume(r) \/ Promise!Bystander(r)
<1> DEFINE w == inflight[r]
<1>1. w.kind = "rows" /\ AsAsked(w)
  BY DEF CommitRows
<1>2. CASE mode = "exact" /\ CountedWork(w)
  BY <1>2, CountedIsServed
<1>3. CASE mode = "exact" /\ DrawWork(w)
  BY <1>3, DrawIsServed
<1>4. CASE BystandingWork(w)
  <2>1. Served(r) /\ Wishes[r] = w.ask
    BY FinishedServed DEF CommitRows, SInv, Idle
  <2>2. /\ DOMAIN lots' = DOMAIN lots
        /\ \A l \in DOMAIN lots :
             (\A k \in DOMAIN w.entries : w.entries[k].lot = l => w.entries[k].type = "move")
               => lots'[l].quantity = lots[l].quantity
    BY RowsChange
  <2> HIDE DEF w
  <2>3. \A l \in DOMAIN lots : lots'[l].quantity = lots[l].quantity
    BY <1>4, <2>2 DEF BystandingWork
  <2>4. Stock' = Stock
    BY <2>2, <2>3, StockSame
  <2>5. QED BY <1>4, <2>1, <2>4, PromiseSteps DEF BystandingWork
<1> HIDE DEF w
<1>5. QED BY <1>1, <1>2, <1>3, <1>4 DEF AsAsked

LEMMA CreateIsServed ==
  ASSUME ~overlap, overlap' = overlap, SInv, NEW r \in Requests,
         CommitCreate(r), AsAsked(inflight[r])
  PROVE  Promise!Create(r)
<1> DEFINE w == inflight[r]
           l == LastId(lots) + 1
<1>1. /\ w.kind = "create" /\ w # Idle /\ Finished(r)
  BY DEF CommitCreate, Idle
<1>2. Served(r) /\ Wishes[r] = w.ask /\ w.ask.op = "create"
  BY <1>1, FinishedServed DEF SInv, AsAsked
<1>3. /\ CreateWork(w) /\ l \in 1 .. MaxLot /\ l \notin DOMAIN lots
      /\ DOMAIN lots' = DOMAIN lots \cup {l}
      /\ \A k \in DOMAIN lots : lots'[k] = lots[k]
      /\ lots'[l].quantity = w.ask.n
  BY CreateChange DEF SInv
<1> HIDE DEF w, l
<1>4. CASE w.ask.n = Null
  <2>1. Counted' = Counted
    BY <1>3, <1>4 DEF Counted
  <2>2. \A k \in Counted : lots'[k] = lots[k]
    BY <1>3 DEF Counted
  <2>3. Stock' = Stock
    BY <2>1, <2>2 DEF Stock
  <2>4. QED BY <1>2, <1>4, <2>3, PromiseSteps
<1>5. CASE w.ask.n # Null
  <2>1. Counted' = Counted \cup {l} /\ l \notin Counted
    BY <1>3, <1>5 DEF Counted
  <2>2. \A k \in Counted : lots'[k] = lots[k]
    BY <1>3 DEF Counted
  <2>3. Stock' = [k \in DOMAIN Stock \cup {l} |-> IF k = l THEN w.ask.n ELSE Stock[k]]
    BY <1>3, <2>1, <2>2 DEF Stock
  <2>4. l \in (1 .. MaxLot) \ DOMAIN Stock
    BY <1>3, <2>1 DEF Stock
  <2>5. QED BY <1>2, <1>5, <2>3, <2>4, PromiseSteps
<1>6. QED BY <1>4, <1>5

LEMMA DeleteIsServed ==
  ASSUME ~overlap, overlap' = overlap, SInv, NEW r \in Requests,
         CommitDelete(r), AsAsked(inflight[r])
  PROVE  Promise!Delete(r)
<1> DEFINE w == inflight[r]
<1>1. /\ w.kind = "delete" /\ w # Idle /\ Finished(r)
      /\ lots' = [k \in DOMAIN lots \ {w.ask.lot} |-> lots[k]]
  BY DEF CommitDelete, Idle
<1>2. Served(r) /\ Wishes[r] = w.ask /\ w.ask.op = "delete"
  BY <1>1, FinishedServed DEF SInv, AsAsked
<1> HIDE DEF w
<1>3. Counted' = Counted \ {w.ask.lot}
  BY <1>1 DEF Counted
<1>4. \A k \in Counted \ {w.ask.lot} : lots'[k] = lots[k]
  BY <1>1 DEF Counted
<1>5. Stock' = [k \in DOMAIN Stock \ {w.ask.lot} |-> Stock[k]]
  BY <1>3, <1>4 DEF Stock
<1>6. QED BY <1>2, <1>5, PromiseSteps

LEMMA OthersStandBy ==
  ASSUME ~overlap, overlap' = overlap, SInv, NEW r \in Requests
  PROVE  /\ CommitMode(r) /\ AsAsked(inflight[r]) => Promise!Bystander(r)
         /\ Abandon(r) => Promise!Drop(r)
<1>1. ASSUME CommitMode(r), AsAsked(inflight[r]) PROVE Promise!Bystander(r)
  <2>1. inflight[r].kind = "mode" /\ inflight[r] # Idle /\ Finished(r) /\ lots' = lots
    BY <1>1 DEF CommitMode, Idle
  <2>2. Served(r) /\ Wishes[r].op = "mode"
    BY <1>1, <2>1, FinishedServed DEF SInv, AsAsked
  <2>3. Stock' = Stock
    BY <2>1, StockSame
  <2>4. QED BY <2>2, <2>3, PromiseSteps
<1>2. ASSUME Abandon(r) PROVE Promise!Drop(r)
  <2>1. inflight[r] # Idle /\ Finished(r) /\ lots' = lots
    BY <1>2 DEF Abandon
  <2>2. Served(r)
    BY <2>1, FinishedServed DEF SInv
  <2>3. Stock' = Stock
    BY <2>1, StockSame
  <2>4. QED BY <2>2, <2>3, PromiseSteps
<1>3. QED BY <1>1, <1>2

\* One step of the ledger, in the eyes of the promise.
LEMMA StepKeepsPromise ==
  ASSUME PInv, PInv', [Next]_vars
  PROVE  Promise!Next \/ (Stock' = Stock /\ Wishes' = Wishes)
<1>1. CASE UNCHANGED vars
  BY <1>1 DEF vars, Stock, Counted, Wishes
<1>2. CASE Next
  <2>1. overlap' = overlap
    BY <1>2 DEF Next
  <2>2. CASE overlap
    BY <2>1, <2>2, OverlapStutters
  <2>3. CASE ~overlap
    <3>1. /\ SInv /\ ModeDecides /\ AllAsAsked
          /\ SInv' /\ ModeDecides' /\ ~overlap'
      BY <2>1, <2>3 DEF PInv
    <3>2. PICK r \in Requests : Load(r) \/ Commit(r) \/ Abandon(r)
      BY <1>2 DEF Next
    <3>3. Commit(r) => AsAsked(inflight[r])
      BY <3>1 DEF AllAsAsked, Commit, CommitRows, CommitCreate, CommitDelete, CommitMode, Idle
    <3>4. CASE Load(r)
      BY <2>1, <2>3, <3>1, <3>4, LoadIsWish, Zenon DEF Promise!Next
    <3>5. CASE Commit(r)
      <4>1. CASE CommitRows(r)
        BY <2>1, <2>3, <3>1, <3>3, <3>5, <4>1, RowsIsServed, Zenon DEF Promise!Next
      <4>2. CASE CommitCreate(r)
        BY <2>1, <2>3, <3>1, <3>3, <3>5, <4>2, CreateIsServed, Zenon DEF Promise!Next
      <4>3. CASE CommitDelete(r)
        BY <2>1, <2>3, <3>1, <3>3, <3>5, <4>3, DeleteIsServed, Zenon DEF Promise!Next
      <4>4. CASE CommitMode(r)
        BY <2>1, <2>3, <3>1, <3>3, <3>5, <4>4, OthersStandBy, Zenon DEF Promise!Next
      <4>5. QED BY <3>5, <4>1, <4>2, <4>3, <4>4 DEF Commit
    <3>6. CASE Abandon(r)
      BY <2>1, <2>3, <3>1, <3>6, OthersStandBy, Zenon DEF Promise!Next
    <3>7. QED BY <3>2, <3>4, <3>5, <3>6
  <2>4. QED BY <2>2, <2>3
<1>3. QED BY <1>1, <1>2

\* The ledger keeps the promise: each request that commits changes the quantities as its wish says, in one step, and what is
\* written besides (movements, rows, the recomputed cache) does not show.
THEOREM ImplementsPromise == Spec => KeepsPromise
<1>1. Init => Promise!Init
  <2> SUFFICES ASSUME Init PROVE Promise!Init
    OBVIOUS
  <2>1. DOMAIN Stock = {}
    BY DEF Init, Stock, Counted
  <2>2. Stock = <<>>
    BY <2>1 DEF Stock
  <2>3. Wishes = [r \in Requests |-> [op |-> "none", lot |-> 0, n |-> 0]]
    BY DEF Init, Wishes
  <2>4. QED BY <2>2, <2>3 DEF Promise!Init, Promise!NoWish, Stock, Counted, Wishes
<1>2. PInv /\ PInv' /\ [Next]_vars => [Promise!Next]_<<Stock, Wishes>>
  BY StepKeepsPromise
<1>3. QED
  BY <1>1, <1>2, PInvInit, PInvNext, PTL DEF Spec, KeepsPromise, Promise!Spec, Stock, Counted, Wishes

-----------------------------------------------------------------------------
(* The order of the draws *)

\* Row work appends its entries and no other row.
LEMMA NewRows ==
  ASSUME SInv, NEW r \in Requests, CommitRows(r), NEW w, w = inflight[r],
         NEW i \in DOMAIN movements' \ DOMAIN movements
  PROVE  \E k \in DOMAIN w.entries : movements'[i] = w.entries[k]
<1>1. /\ movements' = Appended(w.entries) /\ TablesOK(lots, movements)
      /\ w.entries \in Seq(Entry) /\ LastId(movements) + Len(w.entries) <= MaxMovement
  BY RowsCommitted DEF SInv, TInv, RowsWork
<1>2. /\ DOMAIN Appended(w.entries) =
           DOMAIN movements \cup {LastId(movements) + k : k \in DOMAIN w.entries}
      /\ \A k \in DOMAIN w.entries : Appended(w.entries)[LastId(movements) + k] = w.entries[k]
  BY <1>1, AppendedRows
<1>3. PICK k \in DOMAIN w.entries : i = LastId(movements) + k
  BY <1>1, <1>2
<1>4. QED BY <1>1, <1>2, <1>3

\* When a consume takes from a lot, every lot that expires before it is left
\* empty: by this consume, or it was so already.
LEMMA RowsInOrder ==
  ASSUME SInv, ModeDecides, NEW r \in Requests, CommitRows(r), AsAsked(inflight[r]),
         NEW i \in DOMAIN movements' \ DOMAIN movements, movements'[i].type = "consume",
         NEW a \in DOMAIN lots,
         ExpiresFirst(lots[a].bestBefore, lots[movements'[i].lot].bestBefore)
  PROVE  lots'[a].quantity <= 0
<1> DEFINE w == inflight[r]
<1>1. w.kind = "rows" /\ AsAsked(w)
  BY DEF CommitRows
<1>2. PICK k \in DOMAIN w.entries : movements'[i] = w.entries[k]
  BY NewRows
<1>3. /\ \A l \in DOMAIN lots :
           (\A j \in DOMAIN w.entries : w.entries[j].lot = l => w.entries[j].type = "move")
             => lots'[l].quantity = lots[l].quantity
      /\ \A j \in DOMAIN w.entries :
           /\ w.entries[j].delta \in Int
           /\ w.entries[j].type # "move" =>
                lots'[w.entries[j].lot].quantity
                  = OrZero(lots[w.entries[j].lot].quantity) + w.entries[j].delta
  BY RowsChange
<1>4. lots[a].quantity \in Maybe(Int) /\ OrZero(lots[a].quantity) \in Int
  BY LotRow DEF SInv
<1> HIDE DEF w
<1>5. DrawWork(w) /\ mode = "exact"
  BY <1>1, <1>2 DEF AsAsked, CountedWork, BystandingWork
<1>6. CASE \A j \in DOMAIN w.entries : w.entries[j].lot # a
  <2>1. lots[a].quantity <= 0
    BY <1>2, <1>5, <1>6 DEF DrawWork, Nearest
  <2>2. QED BY <1>3, <1>6, <2>1
<1>7. CASE \E j \in DOMAIN w.entries : w.entries[j].lot = a
  <2>1. PICK j \in DOMAIN w.entries : w.entries[j].lot = a
    BY <1>7
  <2>2. w.entries[j].delta = -lots[a].quantity /\ w.entries[j].type # "move"
    BY <1>2, <1>5, <2>1 DEF DrawWork, Nearest
  <2>3. lots'[a].quantity = OrZero(lots[a].quantity) + w.entries[j].delta
    BY <1>3, <2>1, <2>2
  <2>4. lots[a].quantity \in Int /\ OrZero(lots[a].quantity) = lots[a].quantity
    BY <1>4, <1>5 DEF ModeDecides, Maybe, OrZero
  <2>5. QED BY <2>2, <2>3, <2>4
<1>8. QED BY <1>6, <1>7

\* A consume draws nearest-expiry first, unless requests overlap (the queue of
\* list_active_lots_for_definition as consume_fifo walks it).
THEOREM DrawsNearestFirst == Spec => DrawnInFefoOrder
<1> DEFINE InOrder ==
      ~overlap => \A i \in DOMAIN movements' \ DOMAIN movements :
        movements'[i].type = "consume" =>
          \A a \in DOMAIN lots :
            ExpiresFirst(lots[a].bestBefore, lots[movements'[i].lot].bestBefore) =>
              lots'[a].quantity <= 0
<1>1. PInv /\ [Next]_vars => [InOrder]_vars
  <2> SUFFICES ASSUME PInv, Next, ~overlap,
                      NEW i \in DOMAIN movements' \ DOMAIN movements,
                      movements'[i].type = "consume", NEW a \in DOMAIN lots,
                      ExpiresFirst(lots[a].bestBefore, lots[movements'[i].lot].bestBefore)
               PROVE  lots'[a].quantity <= 0
    BY Zenon
  <2>1. SInv /\ ModeDecides /\ AllAsAsked
    BY DEF PInv
  <2>2. PICK r \in Requests : Load(r) \/ Commit(r) \/ Abandon(r)
    BY DEF Next
  <2>3. CASE CommitRows(r)
    <3>1. AsAsked(inflight[r])
      BY <2>1, <2>3 DEF AllAsAsked, CommitRows, Idle
    <3>2. QED BY <2>1, <2>3, <3>1, RowsInOrder
  <2>4. CASE CommitCreate(r)
    <3> DEFINE w == inflight[r]
               first == <<Movement(LastId(lots) + 1, "intake", w.ask.n, Null, w.row.location, Null)>>
    <3>1. movements' = IF w.ask.n = Null THEN movements ELSE Appended(first)
      BY <2>4 DEF CommitCreate
    <3>2. first[1].type = "intake" /\ DOMAIN first = {1}
      BY MovementFields
    <3> HIDE DEF first, w
    <3>3. movements' = Appended(first)
      BY <3>1
    <3>4. /\ i \in {LastId(movements) + k : k \in {1}}
          /\ movements'[i] = first[i - LastId(movements)]
      <4>1. \A j \in DOMAIN movements : j <= LastId(movements)
        BY <2>1, LastIdIsLast, LedgerConstants DEF SInv, TInv, TablesOK
      <4>2. LastId(movements) \in Int
        BY <2>1, LastIdIsLast, LedgerConstants DEF SInv, TInv, TablesOK
      <4>3. QED BY <3>2, <3>3, <4>1, <4>2 DEF Appended
    <3>5. movements'[i] = first[1]
      BY <3>4, <2>1, LastIdIsLast, LedgerConstants DEF SInv, TInv, TablesOK
    <3>6. QED BY <3>2, <3>5
  <2>5. CASE CommitDelete(r)
    BY <2>5 DEF CommitDelete
  <2>6. CASE Load(r)
    <3>1. movements' = movements
      BY <2>6, RowLoads, <2>1 DEF SInv, Load, LoadCreate, LoadDelete, LoadMode, Prepare
    <3>2. QED BY <3>1
  <2>7. CASE CommitMode(r) \/ Abandon(r)
    BY <2>7 DEF CommitMode, Abandon
  <2>8. QED BY <2>2, <2>3, <2>4, <2>5, <2>6, <2>7 DEF Commit
<1>2. QED BY <1>1, PInvInit, PInvNext, PTL DEF Spec, DrawnInFefoOrder
=============================================================================

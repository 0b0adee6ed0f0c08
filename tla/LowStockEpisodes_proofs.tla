----------------------- MODULE LowStockEpisodes_proofs -----------------------
(***************************************************************************)
(* Episodes: whatever interleaves, a row is announced at most once; and     *)
(* while nothing overtakes a scan, a user has one open episode per          *)
(* definition, it ends only on recovery, and a committed scan leaves every  *)
(* inbox in step with the stock.                                            *)
(***************************************************************************)
EXTENDS LowStockEpisodes, FiniteSetTheorems, TLAPS

-----------------------------------------------------------------------------
(* Types *)

\* A dedup key, without the bounds on the calendar.
KeyShapes == [user : Users, definition : Definitions, start : Nat, offset : Nat, seq : Nat]

Stages == {"idle", "listed", "user", "open", "count", "create", "close", "dispatch"}

ScanStates ==
  [stage : Stages, day : 0 .. MaxDay[overlap], todo : SUBSET Users, wants : SUBSET Users,
   low : SUBSET Definitions, told : SUBSET (Users \X Definitions),
   user : Users \cup {Null}, definition : Definitions \cup {Null},
   keys : SUBSET Keys, new : SUBSET Keys]

OnUser == {"open", "count", "create", "close"}
OnPair == {"count", "create"}

ScanOK(now) ==
  /\ now \in ScanStates
  /\ now.stage \in OnUser => now.user \in Users
  /\ now.stage \in OnPair => now.definition \in Definitions

TInv ==
  /\ TypeOK
  /\ IsFiniteSet(DOMAIN rows) /\ IsFiniteSet(DOMAIN draft)
  /\ DOMAIN scan = Scans
  /\ \A s \in Scans : ScanOK(scan[s])

-----------------------------------------------------------------------------
(* Announcements *)

\* What was announced is committed, and what a scan has created is in the table
\* it reads; only a scan between its first UPDATE and its commit has the lock.
NInv ==
  /\ sent \subseteq DOMAIN rows
  /\ \A s \in Scans : scan[s].new \subseteq DOMAIN Table(s)
  /\ writer # Null => DOMAIN rows \subseteq DOMAIN draft
  /\ \A s \in Scans : scan[s].stage \in {"idle", "dispatch"} => writer # s
  /\ NewIsUnsent

-----------------------------------------------------------------------------
(* A scan that nothing overtakes *)

One(t) ==
  \A j, k \in {r \in DOMAIN t : r.offset = 0 /\ t[r] = "open"} :
    j.user = k.user /\ j.definition = k.definition => j = k

\* The openers of a day are numbered below their count, so the next is new.
Numbered(t) ==
  \A k \in DOMAIN t : k.offset = 0 => k.seq < OpenersOn(t, k.user, k.definition, k.start)

\* What was open and is not is about something that is not low.
EndsRight(t, t2, lacking) ==
  \A k \in DOMAIN t : t[k] = "open" /\ t2[k] = "resolved" => k.definition \notin lacking

\* An open episode with every repeat that is due.
Served(t, u, d, day) ==
  /\ OpenOpeners(t, u, d) # {}
  /\ \A o \in OpenOpeners(t, u, d) : DueRepeats(o, day) \subseteq DOMAIN t

\* The keys a scan is about to write on table t: the next opener, or repeats.
Opening(now, t) ==
  /\ OpenOpeners(t, now.user, now.definition) = {}
  /\ now.keys = {Opener(now.user, now.definition, now.day,
                        OpenersOn(t, now.user, now.definition, now.day))}

Repeating(now, t) ==
  /\ OpenOpeners(t, now.user, now.definition) # {}
  /\ \A k \in now.keys : k.offset # 0 /\ k.user = now.user /\ k.definition = now.definition
  /\ \A o \in OpenOpeners(t, now.user, now.definition) :
       DueRepeats(o, now.day) \subseteq now.keys \cup DOMAIN t

\* Who still waits for a scan to tell him of a definition.
Waiting(now, u, d) ==
  /\ <<u, d>> \in now.told
  /\ u \in now.todo \/ (u = now.user /\ now.stage \in {"open", "count", "create"})

AtPair(now, u, d) == now.stage \in OnPair /\ u = now.user /\ d = now.definition

\* How far a scan has come on table t, when `lacking` is low, `active` the
\* active users and `wanted` whoever is to be told of what.
Progress(now, t, day, lacking, active, wanted) ==
  /\ now.day = day /\ now.low = lacking
  /\ \A u \in Users, d \in Definitions :
       <<u, d>> \in wanted =>
         (Waiting(now, u, d) \/ AtPair(now, u, d) \/ Served(t, u, d, day))
  /\ \A u \in active \ now.todo, d \in Definitions :
       ~(u = now.user /\ now.stage \in OnUser) /\ OpenOpeners(t, u, d) # {} => d \in lacking
  /\ now.stage = "count" => OpenOpeners(t, now.user, now.definition) = {}
  /\ now.stage = "create" => Opening(now, t) \/ Repeating(now, t)
  /\ now.stage = "close" =>
       now.keys = {k \in DOMAIN t : /\ k.user = now.user /\ k.offset = 0
                                    /\ t[k] = "open" /\ k.definition \notin lacking}

Wanted == {p \in Users \X Definitions :
             p[2] \in low /\ p[1] \in Recipients(p[2]) /\ users[p[1]] = "on"}

\* A scan in state `now` on table t, while the world stands still.
PlaceAt(now, t) ==
  /\ now.stage = "listed" =>
       /\ now.day = today /\ now.todo = Active
       /\ now.wants = {u \in Active : users[u] = "on"}
  /\ now.stage \in OnUser \cup {"user"} => Progress(now, t, today, low, Active, Wanted)

SInv ==
  /\ \A s, q \in Scans : scan[s] # Idle /\ scan[q] # Idle => s = q
  /\ One(rows) /\ One(draft) /\ Numbered(rows) /\ Numbered(draft)
  /\ writer # Null => EndsRight(rows, draft, low)
  /\ \A s \in Scans : scan[s] # Idle => PlaceAt(scan[s], Table(s))

IInv == TInv /\ NInv /\ (~overlap => SInv)

-----------------------------------------------------------------------------
(* Tables *)

TableOK(t) ==
  /\ DOMAIN t \subseteq KeyShapes /\ IsFiniteSet(DOMAIN t)
  /\ \A k \in DOMAIN t : t[k] \in {"open", "resolved"}

LEMMA Bounds ==
  ASSUME overlap \in BOOLEAN
  PROVE  /\ MaxDay[overlap] \in Nat
         /\ Keys \subseteq KeyShapes
<1>1. MaxDay[overlap] \in Nat /\ Offsets \subseteq Nat
  BY EpisodeConstants
<1>2. 0 .. MaxDay[overlap] \subseteq Nat /\ Offsets \cup {0} \subseteq Nat
  BY <1>1
<1> DEFINE days == 0 .. MaxDay[overlap]
           offsets == Offsets \cup {0}
<1> HIDE DEF days, offsets
<1>3. [user : Users, definition : Definitions, start : days, offset : offsets, seq : Nat]
        \subseteq KeyShapes
  <2>1. days \subseteq Nat /\ offsets \subseteq Nat
    BY <1>2 DEF days, offsets
  <2>2. QED BY <2>1 DEF KeyShapes
<1>4. QED BY <1>1, <1>3 DEF Keys, days, offsets

LEMMA NullIsNoUser == Null \notin Users
BY EpisodeConstants

LEMMA InsertedRows ==
  ASSUME NEW t, NEW K
  PROVE  /\ DOMAIN Insert(t, K) = DOMAIN t \cup K
         /\ \A k \in DOMAIN t : Insert(t, K)[k] = t[k]
         /\ \A k \in K \ DOMAIN t : Insert(t, K)[k] = "open"
BY DEF Insert

LEMMA ResolvedRows ==
  ASSUME NEW t, NEW openers
  PROVE  /\ DOMAIN Resolve(t, openers) = DOMAIN t
         /\ \A k \in DOMAIN t :
              IF \E o \in openers : k.user = o.user /\ k.definition = o.definition /\ k.start = o.start
              THEN Resolve(t, openers)[k] = "resolved" ELSE Resolve(t, openers)[k] = t[k]
BY DEF Resolve

\* The openers that OpenersOn counts.
DayOpeners(t, u, d, day) ==
  {k \in DOMAIN t : k.user = u /\ k.definition = d /\ k.offset = 0 /\ k.start = day}

LEMMA CountsAreNat ==
  ASSUME NEW t, IsFiniteSet(DOMAIN t), NEW u, NEW d, NEW day
  PROVE  /\ OpenersOn(t, u, d, day) \in Nat
         /\ IsFiniteSet(DayOpeners(t, u, d, day))
         /\ OpenersOn(t, u, d, day) = Cardinality(DayOpeners(t, u, d, day))
<1>1. DayOpeners(t, u, d, day) \in SUBSET DOMAIN t
  BY DEF DayOpeners
<1>2. IsFiniteSet(DayOpeners(t, u, d, day))
  BY <1>1, FS_Subset
<1>3. OpenersOn(t, u, d, day) = Cardinality(DayOpeners(t, u, d, day))
  BY DEF OpenersOn, DayOpeners
<1>4. QED BY <1>2, <1>3, FS_CardinalityType

\* One opener at most for each user and definition that has none open, with the
\* next number of its day.
Fresh(K, t) ==
  /\ \A k \in K : k.offset = 0 =>
       /\ OpenOpeners(t, k.user, k.definition) = {}
       /\ k.seq = OpenersOn(t, k.user, k.definition, k.start)
  /\ \A j, k \in K : j.offset = 0 /\ k.offset = 0 /\ j.user = k.user /\ j.definition = k.definition
                       => j = k

LEMMA FreshIsNew ==
  ASSUME NEW t, IsFiniteSet(DOMAIN t), NEW K, Fresh(K, t), Numbered(t)
  PROVE  \A k \in K : k.offset = 0 => k \notin DOMAIN t
<1>1. SUFFICES ASSUME NEW k \in K, k.offset = 0, k \in DOMAIN t PROVE FALSE
  OBVIOUS
<1>2. k.seq < OpenersOn(t, k.user, k.definition, k.start)
  BY <1>1 DEF Numbered
<1>3. k.seq = OpenersOn(t, k.user, k.definition, k.start)
  BY <1>1 DEF Fresh
<1>4. OpenersOn(t, k.user, k.definition, k.start) \in Nat
  BY CountsAreNat
<1>5. QED BY <1>2, <1>3, <1>4

LEMMA InsertedOpenings ==
  ASSUME NEW t, NEW K
  PROVE  \A u, d, k : k \in OpenOpeners(Insert(t, K), u, d) <=>
           \/ k \in OpenOpeners(t, u, d)
           \/ k \in K \ DOMAIN t /\ k.user = u /\ k.definition = d /\ k.offset = 0
<1> DEFINE t2 == Insert(t, K)
<1>1. /\ DOMAIN t2 = DOMAIN t \cup K
      /\ \A k \in DOMAIN t : t2[k] = t[k]
      /\ \A k \in K \ DOMAIN t : t2[k] = "open"
  BY InsertedRows
<1> HIDE DEF t2
<1>2. \A u, d, k : k \in OpenOpeners(t2, u, d) <=>
        \/ k \in OpenOpeners(t, u, d)
        \/ k \in K \ DOMAIN t /\ k.user = u /\ k.definition = d /\ k.offset = 0
  BY <1>1 DEF OpenOpeners
<1>3. QED BY <1>2 DEF t2

LEMMA InsertFresh ==
  ASSUME NEW t, TableOK(t), NEW K, K \subseteq KeyShapes, IsFiniteSet(K),
         Fresh(K, t), One(t), Numbered(t)
  PROVE  One(Insert(t, K)) /\ Numbered(Insert(t, K))
<1> DEFINE t2 == Insert(t, K)
<1>1. DOMAIN t2 = DOMAIN t \cup K /\ \A k \in DOMAIN t : t2[k] = t[k]
  BY InsertedRows
<1>2. IsFiniteSet(DOMAIN t) /\ IsFiniteSet(DOMAIN t2)
  BY <1>1, FS_Union DEF TableOK
<1>3. \A k \in K : k.offset = 0 => k \notin DOMAIN t
  BY <1>2, FreshIsNew
<1> HIDE DEF t2
<1>4. One(t2)
  <2>1. SUFFICES ASSUME NEW j \in DOMAIN t2, NEW k \in DOMAIN t2,
                        j.offset = 0, k.offset = 0, t2[j] = "open", t2[k] = "open",
                        j.user = k.user, j.definition = k.definition
                 PROVE  j = k
    BY DEF One
  <2>2. CASE j \in DOMAIN t /\ k \in DOMAIN t
    BY <2>1, <2>2, <1>1 DEF One
  <2>3. CASE j \in K /\ k \in K
    BY <2>1, <2>3 DEF Fresh
  <2>4. CASE j \in DOMAIN t /\ k \in K
    <3>1. OpenOpeners(t, k.user, k.definition) = {}
      BY <2>1, <2>4 DEF Fresh
    <3>2. j \in OpenOpeners(t, k.user, k.definition)
      BY <2>1, <2>4, <1>1 DEF OpenOpeners
    <3>3. QED BY <3>1, <3>2
  <2>5. CASE j \in K /\ k \in DOMAIN t
    <3>1. OpenOpeners(t, j.user, j.definition) = {}
      BY <2>1, <2>5 DEF Fresh
    <3>2. k \in OpenOpeners(t, j.user, j.definition)
      BY <2>1, <2>5, <1>1 DEF OpenOpeners
    <3>3. QED BY <3>1, <3>2
  <2>6. QED BY <2>2, <2>3, <2>4, <2>5, <1>1
<1>5. Numbered(t2)
  <2>1. SUFFICES ASSUME NEW k \in DOMAIN t2, k.offset = 0
                 PROVE  k.seq < OpenersOn(t2, k.user, k.definition, k.start)
    BY DEF Numbered
  <2> DEFINE S == DayOpeners(t, k.user, k.definition, k.start)
             S2 == DayOpeners(t2, k.user, k.definition, k.start)
  <2>2. S \in SUBSET S2 /\ S \subseteq DOMAIN t /\ k \in S2
    BY <1>1, <2>1 DEF DayOpeners
  <2>3. /\ IsFiniteSet(S) /\ IsFiniteSet(S2)
        /\ OpenersOn(t, k.user, k.definition, k.start) = Cardinality(S)
        /\ OpenersOn(t2, k.user, k.definition, k.start) = Cardinality(S2)
        /\ Cardinality(S) \in Nat /\ Cardinality(S2) \in Nat
    BY <1>2, CountsAreNat
  <2> HIDE DEF S, S2
  <2>4. Cardinality(S) <= Cardinality(S2)
    BY <2>2, <2>3, FS_Subset
  <2>5. k.seq \in Nat
    BY <1>1 DEF TableOK, KeyShapes
  <2>6. CASE k \in DOMAIN t
    BY <2>1, <2>3, <2>4, <2>5, <2>6 DEF Numbered
  <2>7. CASE k \notin DOMAIN t
    <3>1. k \in K
      BY <1>1, <2>7
    <3>2. k.seq = Cardinality(S)
      BY <2>1, <2>3, <3>1 DEF Fresh
    <3>3. Cardinality(S) # Cardinality(S2)
      BY <2>2, <2>3, <2>7, FS_Subset
    <3>4. QED BY <2>3, <2>4, <3>2, <3>3
  <2>8. QED BY <2>6, <2>7
<1>6. QED BY <1>4, <1>5 DEF t2

LEMMA ResolveKeeps ==
  ASSUME NEW t, NEW openers
  PROVE  /\ \A u, d : OpenOpeners(Resolve(t, openers), u, d) \subseteq OpenOpeners(t, u, d)
         /\ One(t) => One(Resolve(t, openers))
         /\ Numbered(t) => Numbered(Resolve(t, openers))
<1> DEFINE t2 == Resolve(t, openers)
<1>1. DOMAIN t2 = DOMAIN t /\ \A k \in DOMAIN t : t2[k] = "open" => t[k] = "open"
  BY ResolvedRows
<1>2. \A u, d, day : OpenersOn(t2, u, d, day) = OpenersOn(t, u, d, day)
  BY <1>1 DEF OpenersOn
<1> HIDE DEF t2
<1>3. \A u, d : OpenOpeners(t2, u, d) \subseteq OpenOpeners(t, u, d)
  BY <1>1 DEF OpenOpeners
<1>4. One(t) => One(t2)
  BY <1>1 DEF One
<1>5. Numbered(t) => Numbered(t2)
  BY <1>1, <1>2 DEF Numbered
<1>6. QED BY <1>3, <1>4, <1>5 DEF t2

-----------------------------------------------------------------------------
(* What is written *)

LEMMA UnionFinite ==
  ASSUME NEW S, IsFiniteSet(S), NEW f, DOMAIN f = S, \A x \in S : IsFiniteSet(f[x])
  PROVE  IsFiniteSet(UNION {f[x] : x \in S})
<1> DEFINE T == {f[x] : x \in S}
           g == [x \in S |-> f[x]]
<1>1. g \in Surjection(S, T)
  BY DEF Surjection
<1>2. IsFiniteSet(T)
  BY <1>1, FS_Surjection
<1>3. \A x \in T : IsFiniteSet(x)
  OBVIOUS
<1> HIDE DEF T
<1>4. IsFiniteSet(UNION T)
  BY <1>2, <1>3, FS_UNION
<1>5. QED BY <1>4 DEF T

LEMMA DueRepeatsOK ==
  ASSUME overlap \in BOOLEAN, NEW o \in Keys, NEW day \in Nat
  PROVE  /\ DueRepeats(o, day) \subseteq Keys
         /\ IsFiniteSet(DueRepeats(o, day))
         /\ \A k \in DueRepeats(o, day) :
              k.offset # 0 /\ k.user = o.user /\ k.definition = o.definition
<1> DEFINE N == {n \in Offsets : n <= day - o.start}
           f == [n \in N |-> [o EXCEPT !.offset = n, !.seq = 0]]
<1>1. Offsets \subseteq Nat \ {0}
  BY EpisodeConstants
<1>2. /\ o \in KeyShapes
      /\ o = [user |-> o.user, definition |-> o.definition, start |-> o.start,
              offset |-> o.offset, seq |-> o.seq]
  BY Bounds DEF KeyShapes
<1>3. \A n \in N : [o EXCEPT !.offset = n, !.seq = 0] =
                     [user |-> o.user, definition |-> o.definition, start |-> o.start,
                      offset |-> n, seq |-> 0]
  <2> HIDE DEF N
  <2>1. DOMAIN o = {"user", "definition", "start", "offset", "seq"}
    BY <1>2
  <2>2. TAKE n \in N
  <2> DEFINE k == [o EXCEPT !.offset = n, !.seq = 0]
  <2>3. /\ k = [j \in DOMAIN k |-> k[j]] /\ DOMAIN k = {"user", "definition", "start", "offset", "seq"}
        /\ k.user = o.user /\ k.definition = o.definition /\ k.start = o.start
        /\ k.offset = n /\ k.seq = 0
    BY <2>1
  <2> HIDE DEF k
  <2>4. k = [user |-> o.user, definition |-> o.definition, start |-> o.start,
             offset |-> n, seq |-> 0]
    BY <2>3
  <2>5. QED BY <2>4 DEF k
<1>4. DueRepeats(o, day) = {[o EXCEPT !.offset = n, !.seq = 0] : n \in N}
  BY DEF DueRepeats
<1>5. \A n \in N : n \in Nat /\ n # 0 /\ n \in Offsets /\ n <= day
  BY <1>1, <1>2 DEF KeyShapes
<1>6. IsFiniteSet(N)
  BY <1>5, FS_BoundedSetOfNaturals
<1>7. f \in Surjection(N, DueRepeats(o, day))
  BY <1>4 DEF Surjection
<1>8. IsFiniteSet(DueRepeats(o, day))
  BY <1>6, <1>7, FS_Surjection
<1>9. \A n \in N : [user |-> o.user, definition |-> o.definition, start |-> o.start,
                    offset |-> n, seq |-> 0] \in Keys
  BY <1>5 DEF Keys
<1>10. \A k \in DueRepeats(o, day) :
         k \in Keys /\ k.offset # 0 /\ k.user = o.user /\ k.definition = o.definition
  <2> HIDE DEF N
  <2>1. TAKE k \in DueRepeats(o, day)
  <2>2. PICK n \in N : k = [user |-> o.user, definition |-> o.definition, start |-> o.start,
                            offset |-> n, seq |-> 0]
    BY <1>3, <1>4
  <2>3. QED BY <1>5, <1>9, <2>2
<1>11. QED BY <1>8, <1>10

LEMMA OpenerOK ==
  ASSUME NEW u \in Users, NEW d \in Definitions, NEW day \in 0 .. MaxDay[overlap], NEW seq \in Nat
  PROVE  /\ Opener(u, d, day, seq) \in Keys
         /\ Opener(u, d, day, seq).user = u /\ Opener(u, d, day, seq).definition = d
         /\ Opener(u, d, day, seq).start = day /\ Opener(u, d, day, seq).offset = 0
         /\ Opener(u, d, day, seq).seq = seq
BY DEF Opener, Keys

TypedTable(t) ==
  /\ DOMAIN t \subseteq Keys /\ IsFiniteSet(DOMAIN t)
  /\ \A k \in DOMAIN t : t[k] \in {"open", "resolved"}

LEMMA InsertTyped ==
  ASSUME NEW t, TypedTable(t), NEW K, K \subseteq Keys, IsFiniteSet(K)
  PROVE  TypedTable(Insert(t, K))
<1> DEFINE t2 == Insert(t, K)
<1>1. /\ DOMAIN t2 = DOMAIN t \cup K
      /\ \A k \in DOMAIN t : t2[k] = t[k]
      /\ \A k \in K \ DOMAIN t : t2[k] = "open"
  BY InsertedRows
<1> HIDE DEF t2
<1>2. IsFiniteSet(DOMAIN t2)
  <2>1. IsFiniteSet(DOMAIN t)
    BY DEF TypedTable
  <2>2. QED BY <1>1, <2>1, FS_Union
<1>3. TypedTable(t2)
  BY <1>1, <1>2 DEF TypedTable
<1>4. QED BY <1>3 DEF t2

LEMMA ResolveTyped ==
  ASSUME NEW t, TypedTable(t), NEW openers
  PROVE  TypedTable(Resolve(t, openers))
<1> DEFINE t2 == Resolve(t, openers)
<1>1. DOMAIN t2 = DOMAIN t /\ \A k \in DOMAIN t : t2[k] = t[k] \/ t2[k] = "resolved"
  BY ResolvedRows
<1> HIDE DEF t2
<1>2. TypedTable(t2)
  BY <1>1 DEF TypedTable
<1>3. QED BY <1>2 DEF t2

LEMMA NoTable == TypedTable(<<>>)
<1>1. DOMAIN <<>> = {}
  OBVIOUS
<1>2. QED BY <1>1, FS_EmptySet DEF TypedTable

LEMMA TypedIsOK ==
  ASSUME overlap \in BOOLEAN, NEW t, TypedTable(t)
  PROVE  TableOK(t)
BY Bounds DEF TypedTable, TableOK

LEMMA TablesTyped ==
  ASSUME TInv
  PROVE  /\ TypedTable(rows) /\ TypedTable(draft)
         /\ \A s : TypedTable(Table(s))
BY DEF TInv, TypeOK, TypedTable, Table

\* The rows a movement adds for user u.
AddedFor(u, d) ==
  LET open == OpenOpeners(rows, u, d)
  IN  IF open = {} THEN {Opener(u, d, today, OpenersOn(rows, u, d, today))}
      ELSE UNION {DueRepeats(o, today) : o \in open}

LEMMA OpenersTyped ==
  ASSUME NEW t, TypedTable(t), NEW u, NEW d
  PROVE  /\ OpenOpeners(t, u, d) \subseteq Keys
         /\ IsFiniteSet(OpenOpeners(t, u, d))
         /\ \A o \in OpenOpeners(t, u, d) : o.user = u /\ o.definition = d
<1>1. OpenOpeners(t, u, d) \in SUBSET DOMAIN t
  BY DEF OpenOpeners
<1>2. IsFiniteSet(DOMAIN t)
  BY DEF TypedTable
<1>3. IsFiniteSet(OpenOpeners(t, u, d))
  BY <1>1, <1>2, FS_Subset
<1>4. \A o \in OpenOpeners(t, u, d) : o.user = u /\ o.definition = d
  BY DEF OpenOpeners
<1>5. QED BY <1>1, <1>3, <1>4 DEF TypedTable

\* The repeats that are due of the open episode.
Repeats(t, u, d, day) == UNION {DueRepeats(o, day) : o \in OpenOpeners(t, u, d)}

LEMMA RepeatsOK ==
  ASSUME overlap \in BOOLEAN, NEW t, TypedTable(t), NEW u, NEW d, NEW day \in Nat
  PROVE  /\ Repeats(t, u, d, day) \subseteq Keys
         /\ IsFiniteSet(Repeats(t, u, d, day))
         /\ \A k \in Repeats(t, u, d, day) : k.offset # 0 /\ k.user = u /\ k.definition = d
<1> DEFINE open == OpenOpeners(t, u, d)
           f == [o \in open |-> DueRepeats(o, day)]
           K == UNION {DueRepeats(o, day) : o \in open}
<1>1. /\ open \subseteq Keys /\ IsFiniteSet(open)
      /\ \A o \in open : o.user = u /\ o.definition = d
  BY OpenersTyped
<1> HIDE DEF open
<1>2. \A o \in open : /\ DueRepeats(o, day) \subseteq Keys /\ IsFiniteSet(DueRepeats(o, day))
                      /\ \A k \in DueRepeats(o, day) : k.offset # 0 /\ k.user = u /\ k.definition = d
  BY <1>1, DueRepeatsOK
<1>3. DOMAIN f = open /\ \A o \in open : f[o] = DueRepeats(o, day)
  OBVIOUS
<1>4. UNION {f[o] : o \in open} = K
  BY <1>3
<1> HIDE DEF f
<1>5. IsFiniteSet(UNION {f[o] : o \in open})
  BY <1>1, <1>2, <1>3, UnionFinite
<1>6. Repeats(t, u, d, day) = K
  BY DEF Repeats, open
<1> HIDE DEF K
<1>7. K \subseteq Keys /\ \A k \in K : k.offset # 0 /\ k.user = u /\ k.definition = d
  BY <1>2 DEF K
<1>8. QED BY <1>4, <1>5, <1>6, <1>7

LEMMA AddedForOK ==
  ASSUME TInv, NEW u \in Users, NEW d \in Definitions
  PROVE  /\ AddedFor(u, d) \subseteq Keys /\ IsFiniteSet(AddedFor(u, d))
         /\ \A k \in AddedFor(u, d) :
              /\ k.user = u /\ k.definition = d
              /\ k.offset = 0 => /\ OpenOpeners(rows, u, d) = {}
                                 /\ k = Opener(u, d, today, OpenersOn(rows, u, d, today))
<1>1. overlap \in BOOLEAN /\ today \in 0 .. MaxDay[overlap] /\ today \in Nat
  BY Bounds DEF TInv, TypeOK
<1>2. TypedTable(rows)
  BY TablesTyped
<1>3. OpenersOn(rows, u, d, today) \in Nat
  BY <1>2, CountsAreNat DEF TypedTable
<1>4. CASE OpenOpeners(rows, u, d) = {}
  <2>1. AddedFor(u, d) = {Opener(u, d, today, OpenersOn(rows, u, d, today))}
    BY <1>4 DEF AddedFor
  <2> DEFINE o == Opener(u, d, today, OpenersOn(rows, u, d, today))
  <2>2. o \in Keys /\ o.user = u /\ o.definition = d
    BY <1>1, <1>3, OpenerOK
  <2>3. AddedFor(u, d) = {o} /\ IsFiniteSet({o})
    BY <2>1, FS_Singleton
  <2> HIDE DEF o
  <2>4. QED BY <1>4, <2>2, <2>3 DEF o
<1>5. CASE OpenOpeners(rows, u, d) # {}
  <2>1. AddedFor(u, d) = Repeats(rows, u, d, today)
    BY <1>5 DEF AddedFor, Repeats
  <2>2. QED BY <1>1, <1>2, <1>5, <2>1, RepeatsOK
<1>6. QED BY <1>4, <1>5

-----------------------------------------------------------------------------
(* The types are kept *)

LEMMA IdleOK ==
  ASSUME overlap \in BOOLEAN
  PROVE  ScanOK(Idle)
<1>1. MaxDay[overlap] \in Nat
  BY Bounds
<1>2. 0 \in 0 .. MaxDay[overlap]
  BY <1>1
<1>3. QED BY <1>2 DEF ScanOK, ScanStates, Idle, Stages, OnUser, OnPair

LEMMA BecomeMeans ==
  ASSUME DOMAIN scan = Scans, NEW s \in Scans, NEW X, Become(s, X)
  PROVE  /\ DOMAIN scan' = Scans /\ scan'[s] = X
         /\ \A q \in Scans : q # s => scan'[q] = scan[q]
BY DEF Become

LEMMA SameTypes ==
  ASSUME overlap' = overlap
  PROVE  Keys' = Keys /\ ScanStates' = ScanStates
BY DEF Keys, ScanStates

LEMMA TypesAfter ==
  ASSUME TInv, overlap' = overlap,
         today' \in 0 .. MaxDay[overlap], low' \subseteq Definitions,
         users' \in [Users -> {"off", "silent", "on"}],
         responsible' \in [Definitions -> Users \cup {Null}],
         TypedTable(rows'), TypedTable(draft'), writer' \in Scans \cup {Null},
         sent' \subseteq Keys, DOMAIN scan' = Scans, \A s \in Scans : ScanOK(scan'[s])
  PROVE  TInv'
<1>1. overlap \in BOOLEAN
  BY DEF TInv, TypeOK
<1>2. Keys' = Keys /\ ScanStates' = ScanStates
  BY SameTypes
<1>3. \A s \in Scans : ScanOK(scan[s])'
  BY <1>2 DEF ScanOK
<1>4. \A s \in Scans : (scan'[s]).keys \cup (scan'[s]).new \subseteq Keys
  BY DEF ScanOK, ScanStates
<1>5. TypeOK'
  BY <1>1, <1>2, <1>4 DEF TypeOK, TypedTable
<1>6. QED BY <1>3, <1>5 DEF TInv, TypedTable

\* A step of scan s.
LEMMA TypesAfterScan ==
  ASSUME TInv, overlap' = overlap, UNCHANGED world, NEW s \in Scans, NEW X, Become(s, X), ScanOK(X),
         TypedTable(rows'), TypedTable(draft'), writer' \in Scans \cup {Null}, sent' \subseteq Keys
  PROVE  TInv'
<1>1. DOMAIN scan = Scans /\ \A q \in Scans : ScanOK(scan[q])
  BY DEF TInv
<1>2. DOMAIN scan' = Scans /\ \A q \in Scans : ScanOK(scan'[q])
  BY <1>1, BecomeMeans
<1>3. /\ today' \in 0 .. MaxDay[overlap] /\ low' \subseteq Definitions
      /\ users' \in [Users -> {"off", "silent", "on"}]
      /\ responsible' \in [Definitions -> Users \cup {Null}]
  BY DEF world, TInv, TypeOK
<1>4. QED BY <1>2, <1>3, TypesAfter

\* A step of scan s that leaves the database alone.
LEMMA TypesAfterReading ==
  ASSUME TInv, overlap' = overlap, UNCHANGED <<world, database, sent>>,
         NEW s \in Scans, NEW X, Become(s, X), ScanOK(X)
  PROVE  TInv'
<1>1. TypedTable(rows') /\ TypedTable(draft')
  BY TablesTyped DEF database
<1>2. writer' \in Scans \cup {Null} /\ sent' \subseteq Keys
  BY DEF database, TInv, TypeOK
<1>3. QED BY <1>1, <1>2, TypesAfterScan

LEMMA TypesOfRollBack ==
  ASSUME TInv, overlap' = overlap, UNCHANGED <<world, sent>>, NEW s \in Scans, RollBack(s)
  PROVE  TInv'
<1>1. TypedTable(rows') /\ TypedTable(draft') /\ writer' \in Scans \cup {Null} /\ sent' \subseteq Keys
  BY TablesTyped, NoTable DEF RollBack, TInv, TypeOK
<1>2. Become(s, Idle) /\ ScanOK(Idle)
  BY IdleOK DEF RollBack, TInv, TypeOK
<1>3. QED BY <1>1, <1>2, TypesAfterScan

\* A non-empty set of naturals has a least element.
LEMMA LeastExists ==
  ASSUME NEW T, T \subseteq Nat, T # {}
  PROVE  \E i \in T : \A j \in T : i <= j
<1>1. PICK x \in T : \A y \in T : <<y, x>> \notin OpToRel(<, Nat)
  BY NatLessThanWellFounded, WFMin
<1>2. \A y \in T : ~(y < x)
  BY <1>1 DEF OpToRel
<1>3. QED
  BY <1>2

LEMMA MinOf ==
  ASSUME NEW T, T \subseteq Nat, T # {}
  PROVE  Min(T) \in T
<1>1. \E i \in T : \A j \in T : i <= j
  BY LeastExists
<1>2. QED BY <1>1 DEF Min

LEMMA ActiveUsers == Active \subseteq Users
BY DEF Active

\* What one step makes of the state of scan s, but for the rows it creates.
LEMMA TypesOfScan ==
  ASSUME TInv, overlap' = overlap, NEW s \in Scans, ScanStep(s)
  PROVE  TInv'
<1> DEFINE now == scan[s]
<1>1. /\ ScanOK(now) /\ now \in ScanStates /\ overlap \in BOOLEAN
      /\ today \in 0 .. MaxDay[overlap] /\ low \subseteq Definitions
      /\ writer \in Scans \cup {Null} /\ sent \subseteq Keys
  BY DEF TInv, TypeOK, ScanOK
<1>2. TypedTable(rows) /\ TypedTable(draft) /\ \A q : TypedTable(Table(q))
  BY TablesTyped
<1>3. MaxDay[overlap] \in Nat
  BY <1>1, Bounds
<1> HIDE DEF now
<1>4. CASE ListUsers(s)
  <2> DEFINE X == IF Active = {} THEN [Idle EXCEPT !.stage = "dispatch"]
                  ELSE [Idle EXCEPT !.stage = "listed", !.day = today, !.todo = Active,
                                    !.wants = {u \in Active : users[u] = "on"}]
  <2>1. Become(s, X) /\ UNCHANGED <<world, database, sent>>
    BY <1>4 DEF ListUsers
  <2> DEFINE wants == {u \in Active : users[u] = "on"}
  <2>2. Active \subseteq Users /\ wants \subseteq Users
    BY ActiveUsers
  <2>3. 0 \in 0 .. MaxDay[overlap]
    BY <1>3
  <2>4. Idle \in ScanStates
    BY <1>1, IdleOK DEF ScanOK
  <2>5. ScanOK([Idle EXCEPT !.stage = "dispatch"])
    BY <2>4 DEF ScanOK, ScanStates, Stages, OnUser, OnPair
  <2>6. ScanOK([Idle EXCEPT !.stage = "listed", !.day = today, !.todo = Active, !.wants = wants])
    <3> HIDE DEF wants
    <3>1. QED BY <1>1, <2>2, <2>4 DEF ScanOK, ScanStates, Stages, OnUser, OnPair
  <2>7. ScanOK(X)
    BY <2>5, <2>6
  <2> HIDE DEF X
  <2>8. QED BY <2>1, <2>7, TypesAfterReading
<1>5. CASE ComputeLow(s)
  <2> DEFINE told == {p \in now.wants \X low : p[1] \in Routed(now.todo, p[2])}
             X == [now EXCEPT !.stage = "user", !.wants = {}, !.low = low, !.told = told]
  <2>1. Become(s, X) /\ UNCHANGED <<world, database, sent>>
    BY <1>5 DEF ComputeLow, now
  <2>2. told \subseteq Users \X Definitions
    BY <1>1 DEF ScanStates
  <2> HIDE DEF told
  <2>3. ScanOK(X)
    BY <1>1, <2>2 DEF ScanOK, ScanStates, Stages, OnUser, OnPair
  <2>4. QED BY <2>1, <2>3, TypesAfterReading
<1>6. CASE NextUser(s)
  <2> DEFINE u == Min(now.todo)
             X == [now EXCEPT !.stage = "open", !.user = u, !.todo = @ \ {u}]
  <2>1. Become(s, X) /\ UNCHANGED <<world, database, sent>> /\ now.todo # {}
    BY <1>6 DEF NextUser, now
  <2>2. u \in Users
    BY <1>1, <2>1, MinOf, EpisodeConstants DEF ScanStates
  <2> HIDE DEF u
  <2>3. ScanOK(X)
    BY <1>1, <2>2 DEF ScanOK, ScanStates, Stages, OnUser, OnPair
  <2>4. QED BY <2>1, <2>3, TypesAfterReading
<1>7. CASE ReadOpener(s)
  <2>1. PICK d \in {p[2] : p \in {q \in now.told : q[1] = now.user}} :
          LET open == OpenOpeners(Table(s), now.user, d)
              next == [now EXCEPT !.definition = d, !.told = @ \ {<<now.user, d>>}]
          IN  \/ Become(s, [next EXCEPT !.stage = "count"]) /\ UNCHANGED database
              \/ /\ Become(s, [next EXCEPT !.stage = "create",
                                 !.keys = UNION {DueRepeats(o, now.day) : o \in open}])
                 /\ UNCHANGED database
              \/ RollBack(s)
    BY <1>7, Zenon DEF ReadOpener, now
  <2> DEFINE K == UNION {DueRepeats(o, now.day) : o \in OpenOpeners(Table(s), now.user, d)}
             next == [now EXCEPT !.definition = d, !.told = @ \ {<<now.user, d>>}]
  <2>2. UNCHANGED <<world, sent>> /\ now.stage = "open"
    BY <1>7 DEF ReadOpener, now
  <2>3. d \in Definitions /\ now.day \in Nat /\ now.user \in Users
    BY <1>1, <2>2 DEF ScanOK, ScanStates, OnUser
  <2>4. K \subseteq Keys
    <3>1. TypedTable(Table(s))
      BY <1>2
    <3>2. Repeats(Table(s), now.user, d, now.day) \subseteq Keys
      BY <1>1, <2>3, <3>1, RepeatsOK
    <3>3. QED BY <3>2 DEF Repeats
  <2>5. CASE RollBack(s)
    BY <2>2, <2>5, TypesOfRollBack
  <2> HIDE DEF K
  <2>6. next \in ScanStates /\ next.user \in Users /\ next.definition \in Definitions
    BY <1>1, <2>3 DEF ScanStates
  <2>7. CASE Become(s, [next EXCEPT !.stage = "count"]) /\ UNCHANGED database
    <3>1. ScanOK([next EXCEPT !.stage = "count"])
      <4> HIDE DEF next
      <4>1. QED BY <2>6 DEF ScanOK, ScanStates, Stages, OnUser, OnPair
    <3> HIDE DEF next
    <3>2. QED BY <2>2, <2>7, <3>1, TypesAfterReading
  <2>8. CASE Become(s, [next EXCEPT !.stage = "create", !.keys = K]) /\ UNCHANGED database
    <3> HIDE DEF next
    <3>1. ScanOK([next EXCEPT !.stage = "create", !.keys = K])
      BY <2>4, <2>6 DEF ScanOK, ScanStates, Stages, OnUser, OnPair
    <3>2. QED BY <2>2, <2>8, <3>1, TypesAfterReading
  <2>9. QED BY <2>1, <2>5, <2>7, <2>8 DEF K
<1>8. CASE CountOpeners(s)
  <2> DEFINE seq == OpenersOn(Table(s), now.user, now.definition, now.day)
             k == Opener(now.user, now.definition, now.day, seq)
             X == [now EXCEPT !.stage = "create", !.keys = {k}]
  <2>1. Become(s, X) /\ UNCHANGED <<world, database, sent>> /\ now.stage = "count"
    BY <1>8 DEF CountOpeners, now
  <2>2. now.user \in Users /\ now.definition \in Definitions /\ now.day \in 0 .. MaxDay[overlap]
    BY <1>1, <2>1 DEF ScanOK, ScanStates, OnUser, OnPair
  <2>3. seq \in Nat
    BY <1>2, CountsAreNat DEF TypedTable
  <2> HIDE DEF seq
  <2>4. k \in Keys
    BY <2>2, <2>3, OpenerOK
  <2> HIDE DEF k
  <2>5. ScanOK(X)
    BY <1>1, <2>2, <2>4 DEF ScanOK, ScanStates, Stages, OnUser, OnPair
  <2>6. QED BY <2>1, <2>5, TypesAfterReading
<1>9. CASE CreateRow(s)
  <2>1. PICK k \in now.keys :
          /\ Become(s, [now EXCEPT !.keys = @ \ {k},
                                   !.new = IF Created(Table(s), k) THEN @ \cup {k} ELSE @])
          /\ IF writer = s
             THEN draft' = Insert(draft, {k}) /\ rows' = rows
             ELSE rows' = Insert(rows, {k}) /\ draft' = draft
    BY <1>9, Zenon DEF CreateRow, now
  <2>2. UNCHANGED <<world, writer, sent>> /\ now.stage = "create"
    BY <1>9 DEF CreateRow, now
  <2>3. k \in Keys /\ {k} \subseteq Keys /\ IsFiniteSet({k})
    BY <1>1, FS_Singleton DEF ScanStates
  <2>4. TypedTable(rows') /\ TypedTable(draft')
    BY <1>2, <2>1, <2>3, InsertTyped
  <2> DEFINE new == IF Created(Table(s), k) THEN now.new \cup {k} ELSE now.new
             X == [now EXCEPT !.keys = @ \ {k}, !.new = new]
  <2>5. Become(s, X)
    BY <2>1, Zenon
  <2>6. new \subseteq Keys
    BY <1>1, <2>3 DEF ScanStates
  <2> HIDE DEF new
  <2>7. ScanOK(X)
    BY <1>1, <2>6 DEF ScanOK, ScanStates, Stages, OnUser, OnPair
  <2> HIDE DEF X
  <2>8. writer' \in Scans \cup {Null} /\ sent' \subseteq Keys /\ UNCHANGED world
    BY <1>1, <2>2
  <2>9. QED BY <2>4, <2>5, <2>7, <2>8, TypesAfterScan
<1>10. CASE DefinitionDone(s)
  <2> DEFINE X == [now EXCEPT !.stage = "open", !.definition = Null]
  <2>1. Become(s, X) /\ UNCHANGED <<world, database, sent>> /\ now.stage = "create"
    BY <1>10 DEF DefinitionDone, now
  <2>2. ScanOK(X)
    BY <1>1, <2>1 DEF ScanOK, ScanStates, Stages, OnUser, OnPair
  <2>3. QED BY <2>1, <2>2, TypesAfterReading
<1>11. CASE ReadOpenOpeners(s)
  <2> DEFINE K == {k \in DOMAIN Table(s) : /\ k.user = now.user /\ k.offset = 0
                                           /\ Table(s)[k] = "open" /\ Recovered(s, k)}
             X == [now EXCEPT !.stage = "close", !.keys = K]
  <2>1. Become(s, X) /\ UNCHANGED <<world, database, sent>> /\ now.stage = "open"
    BY <1>11 DEF ReadOpenOpeners, now
  <2>2. K \subseteq Keys
    BY <1>2 DEF TypedTable
  <2> HIDE DEF K
  <2>3. ScanOK(X)
    BY <1>1, <2>1, <2>2 DEF ScanOK, ScanStates, Stages, OnUser, OnPair
  <2>4. QED BY <2>1, <2>3, TypesAfterReading
<1>12. CASE CloseEpisodes(s)
  <2> DEFINE X == [now EXCEPT !.stage = "user", !.user = Null, !.keys = {}]
  <2>1. Become(s, X) /\ UNCHANGED <<world, sent>>
    BY <1>12 DEF CloseEpisodes, now
  <2>2. /\ TypedTable(rows') /\ TypedTable(draft')
        /\ writer' \in Scans \cup {Null} /\ sent' \subseteq Keys
    BY <1>1, <1>2, <1>12, ResolveTyped DEF CloseEpisodes, database
  <2>3. ScanOK(X)
    BY <1>1 DEF ScanOK, ScanStates, Stages, OnUser, OnPair
  <2> HIDE DEF X
  <2>4. QED BY <2>1, <2>2, <2>3, TypesAfterScan
<1>13. CASE CommitScan(s)
  <2> DEFINE X == [Idle EXCEPT !.stage = "dispatch", !.new = now.new]
  <2>1. Become(s, X) /\ UNCHANGED <<world, sent>>
    BY <1>13 DEF CommitScan, now
  <2>2. /\ TypedTable(rows') /\ TypedTable(draft')
        /\ writer' \in Scans \cup {Null} /\ sent' \subseteq Keys
    BY <1>1, <1>2, <1>13, NoTable DEF CommitScan, database
  <2>3. ScanOK(X)
    <3>1. Idle \in ScanStates /\ now.new \subseteq Keys
      BY <1>1, IdleOK DEF ScanOK, ScanStates
    <3>2. QED BY <3>1 DEF ScanOK, ScanStates, Stages, OnUser, OnPair
  <2> HIDE DEF X
  <2>4. QED BY <2>1, <2>2, <2>3, TypesAfterScan
<1>14. CASE Dispatch(s)
  <2>1. Become(s, Idle) /\ UNCHANGED <<world, database>> /\ ScanOK(Idle)
    BY <1>1, <1>14, IdleOK DEF Dispatch
  <2>2. /\ TypedTable(rows') /\ TypedTable(draft')
        /\ writer' \in Scans \cup {Null} /\ sent' \subseteq Keys
    BY <1>1, <1>2, <1>14 DEF Dispatch, database, ScanStates, now
  <2>3. QED BY <2>1, <2>2, TypesAfterScan
<1>15. QED
  BY <1>4, <1>5, <1>6, <1>7, <1>8, <1>9, <1>10, <1>11, <1>12, <1>13, <1>14 DEF ScanStep

(* A movement and its hook *)

Told(d, lacking) == IF d \in lacking THEN {u \in Recipients(d) : users[u] = "on"} ELSE {}
Added(d, lacking) == UNION {AddedFor(u, d) : u \in Told(d, lacking)}
Over(d, lacking) == IF d \in lacking THEN {} ELSE UNION {OpenOpeners(rows, u, d) : u \in Active}

LEMMA MovementMeans ==
  ASSUME NEW d, Movement(d)
  PROVE  /\ low' \in {low \cup {d}, low \ {d}}
         /\ rows' = Resolve(Insert(rows, Added(d, low')), Over(d, low'))
         /\ sent' \in {sent, sent \cup (Added(d, low') \ DOMAIN rows)}
         /\ Change /\ Unlocked /\ UNCHANGED <<today, users, responsible, scan>>
BY DEF Movement, Told, Added, Over, AddedFor

LEMMA AddedOK ==
  ASSUME TInv, NEW d \in Definitions, NEW lacking
  PROVE  /\ Added(d, lacking) \subseteq Keys /\ IsFiniteSet(Added(d, lacking))
         /\ \A k \in Added(d, lacking) : k.definition = d
         /\ Fresh(Added(d, lacking), rows)
<1> DEFINE T == Told(d, lacking)
           f == [u \in T |-> AddedFor(u, d)]
           K == Added(d, lacking)
<1>1. responsible \in [Definitions -> Users \cup {Null}]
  BY DEF TInv, TypeOK
<1>2. T \in SUBSET Users
  BY <1>1, ActiveUsers DEF Told, Recipients
<1>3. IsFiniteSet(T)
  BY <1>2, EpisodeConstants, FS_Subset
<1> HIDE DEF T
<1>4. \A u \in T : /\ AddedFor(u, d) \subseteq Keys /\ IsFiniteSet(AddedFor(u, d))
                   /\ \A k \in AddedFor(u, d) :
                        /\ k.user = u /\ k.definition = d
                        /\ k.offset = 0 => /\ OpenOpeners(rows, u, d) = {}
                                           /\ k = Opener(u, d, today, OpenersOn(rows, u, d, today))
  BY <1>2, AddedForOK
<1>5. DOMAIN f = T /\ \A u \in T : f[u] = AddedFor(u, d)
  OBVIOUS
<1>6. K = UNION {f[u] : u \in T}
  BY <1>5 DEF Added, T
<1>7. \A k \in K : \E u \in T : k \in AddedFor(u, d)
  BY DEF Added, T
<1> HIDE DEF f, K
<1>8. IsFiniteSet(K)
  BY <1>3, <1>4, <1>5, <1>6, UnionFinite
<1>9. \A u, seq : /\ Opener(u, d, today, seq).start = today
                  /\ Opener(u, d, today, seq).seq = seq
  BY DEF Opener
<1>10. \A k \in K : k.offset = 0 =>
         /\ k.definition = d /\ OpenOpeners(rows, k.user, d) = {}
         /\ k = Opener(k.user, d, today, OpenersOn(rows, k.user, d, today))
  BY <1>4, <1>7
<1>11. Fresh(K, rows)
  BY <1>9, <1>10 DEF Fresh
<1>12. QED BY <1>4, <1>7, <1>8, <1>11 DEF K

LEMMA TypesOfWorld ==
  ASSUME TInv, overlap' = overlap, World
  PROVE  TInv'
<1>1. /\ today \in 0 .. MaxDay[overlap] /\ low \subseteq Definitions
      /\ users \in [Users -> {"off", "silent", "on"}]
      /\ responsible \in [Definitions -> Users \cup {Null}]
      /\ writer \in Scans \cup {Null} /\ sent \subseteq Keys
      /\ DOMAIN scan = Scans /\ \A s \in Scans : ScanOK(scan[s])
      /\ overlap \in BOOLEAN
  BY DEF TInv, TypeOK
<1>2. TypedTable(rows) /\ TypedTable(draft)
  BY TablesTyped
<1>3. ASSUME NEW d \in Definitions, SilentChange(d) \/ Assign(d) PROVE TInv'
  <2>1. low' \subseteq Definitions /\ responsible' \in [Definitions -> Users \cup {Null}]
    BY <1>1, <1>3 DEF SilentChange, Assign
  <2>2. UNCHANGED <<today, users, rows, scan, sent, writer, draft>>
    BY <1>3 DEF SilentChange, Assign, Unlocked
  <2>3. QED BY <1>1, <1>2, <2>1, <2>2, TypesAfter
<1>4. ASSUME NEW d \in Definitions, Movement(d) PROVE TInv'
  <2>1. /\ low' \in {low \cup {d}, low \ {d}}
        /\ rows' = Resolve(Insert(rows, Added(d, low')), Over(d, low'))
        /\ sent' \in {sent, sent \cup (Added(d, low') \ DOMAIN rows)}
        /\ UNCHANGED <<today, users, responsible, scan, writer, draft>>
    BY <1>4, MovementMeans DEF Unlocked
  <2>2. Added(d, low') \subseteq Keys /\ IsFiniteSet(Added(d, low'))
    BY AddedOK
  <2>3. TypedTable(rows')
    BY <1>2, <2>1, <2>2, InsertTyped, ResolveTyped
  <2>4. low' \subseteq Definitions /\ sent' \subseteq Keys
    BY <1>1, <2>1, <2>2
  <2>5. QED BY <1>1, <1>2, <2>1, <2>3, <2>4, TypesAfter
<1>5. ASSUME NEW d \in Definitions, DeleteDefinition(d) PROVE TInv'
  <2> DEFINE kept == {k \in DOMAIN rows : k.definition # d}
  <2>1. /\ low' = low \ {d} /\ responsible' = [responsible EXCEPT ![d] = Null]
        /\ rows' = [k \in kept |-> rows[k]]
        /\ sent' = {k \in sent : k.definition # d}
        /\ scan' = [s \in Scans |-> [scan[s] EXCEPT !.new = {k \in @ : k.definition # d}]]
        /\ UNCHANGED <<today, users, writer, draft>>
    BY <1>5 DEF DeleteDefinition, Unlocked
  <2>2. kept \in SUBSET DOMAIN rows /\ IsFiniteSet(DOMAIN rows)
    BY <1>2 DEF TypedTable
  <2>3. IsFiniteSet(kept)
    BY <2>2, FS_Subset
  <2>4. TypedTable(rows')
    BY <1>2, <2>1, <2>2, <2>3 DEF TypedTable
  <2>5. DOMAIN scan' = Scans
    BY <2>1
  <2>6. ASSUME NEW s \in Scans PROVE ScanOK(scan'[s])
    <3> DEFINE new == {k \in scan[s].new : k.definition # d}
               now == scan[s]
    <3>1. scan'[s] = [now EXCEPT !.new = new]
      BY <2>1
    <3>2. ScanOK(now) /\ new \subseteq Keys
      BY <1>1 DEF ScanOK, ScanStates
    <3> HIDE DEF new, now
    <3>3. QED BY <3>1, <3>2 DEF ScanOK, ScanStates, OnUser, OnPair
  <2>7. /\ low' \subseteq Definitions /\ sent' \subseteq Keys
        /\ responsible' \in [Definitions -> Users \cup {Null}]
    BY <1>1, <2>1
  <2>8. TypedTable(draft') /\ writer' \in Scans \cup {Null} /\ today' \in 0 .. MaxDay[overlap]
        /\ users' \in [Users -> {"off", "silent", "on"}]
    BY <1>1, <1>2, <2>1
  <2>9. QED BY <2>4, <2>5, <2>6, <2>7, <2>8, TypesAfter
<1>6. ASSUME NEW u \in Users, ChangeUser(u) PROVE TInv'
  <2>1. users' \in [Users -> {"off", "silent", "on"}]
    BY <1>1, <1>6 DEF ChangeUser
  <2>2. UNCHANGED <<today, low, responsible, rows, scan, sent, writer, draft>>
    BY <1>6 DEF ChangeUser, Unlocked
  <2>3. QED BY <1>1, <1>2, <2>1, <2>2, TypesAfter
<1>7. CASE NextDay
  <2>1. today' \in 0 .. MaxDay[overlap]
    BY <1>1, <1>7, Bounds DEF NextDay
  <2>2. UNCHANGED <<low, users, responsible, rows, scan, sent, writer, draft>>
    BY <1>7 DEF NextDay
  <2>3. QED BY <1>1, <1>2, <2>1, <2>2, TypesAfter
<1>8. QED BY <1>3, <1>4, <1>5, <1>6, <1>7 DEF World

LEMMA TypesOfInit == Init => TInv
<1>1. SUFFICES ASSUME Init PROVE TInv
  OBVIOUS
<1>2. overlap \in BOOLEAN /\ MaxDay[overlap] \in Nat
  BY <1>1, EpisodeConstants DEF Init
<1>3. DOMAIN <<>> = {} /\ IsFiniteSet({})
  BY FS_EmptySet
<1>4. ScanOK(Idle)
  BY <1>2, IdleOK
<1>5. Idle.keys = {} /\ Idle.new = {}
  BY DEF Idle
<1>6. /\ today \in 0 .. MaxDay[overlap] /\ low \subseteq Definitions
      /\ users \in [Users -> {"off", "silent", "on"}]
      /\ responsible \in [Definitions -> Users \cup {Null}]
      /\ writer \in Scans \cup {Null} /\ sent \subseteq Keys
  BY <1>1, <1>2 DEF Init
<1>7. QED BY <1>1, <1>2, <1>3, <1>4, <1>5, <1>6 DEF TInv, TypeOK, Init

LEMMA TypesOfNext == TInv /\ [Next]_vars => TInv'
<1>1. SUFFICES ASSUME TInv, [Next]_vars PROVE TInv'
  OBVIOUS
<1>2. CASE UNCHANGED vars
  <2>1. Keys' = Keys /\ ScanStates' = ScanStates
    BY <1>2, SameTypes DEF vars
  <2>2. QED BY <1>1, <1>2, <2>1 DEF vars, TInv, TypeOK, ScanOK
<1>3. CASE Next
  <2>1. overlap' = overlap
    BY <1>3 DEF Next
  <2>2. CASE World
    BY <1>1, <2>1, <2>2, TypesOfWorld
  <2>3. ASSUME NEW s \in Scans, ScanStep(s) PROVE TInv'
    BY <1>1, <2>1, <2>3, TypesOfScan
  <2>4. ASSUME NEW s \in Scans, Fail(s) PROVE TInv'
    BY <1>1, <2>1, <2>4, TypesOfRollBack DEF Fail
  <2>5. QED BY <1>3, <2>2, <2>3, <2>4 DEF Next
<1>4. QED BY <1>1, <1>2, <1>3

\* The variables keep their types: every row has a user, a definition, a day of
\* the calendar and an offset, and no scan is about to write anything else.
THEOREM TypeCorrect == Spec => []TypeOK
<1>1. TInv => TypeOK
  BY DEF TInv
<1>2. QED BY <1>1, TypesOfInit, TypesOfNext, PTL DEF Spec

-----------------------------------------------------------------------------
(* Announcements are about new rows *)

LEMMA NewOfInit == Init => NInv
<1>1. SUFFICES ASSUME Init PROVE NInv
  OBVIOUS
<1>2. \A s \in Scans : scan[s].new = {} /\ writer # s
  BY <1>1, EpisodeConstants DEF Init, Idle
<1>3. writer = Null /\ sent = {}
  BY <1>1 DEF Init
<1>4. QED BY <1>2, <1>3 DEF NInv, NewIsUnsent

\* A step of scan s that leaves the database and its new rows alone.
LEMMA NewAfterReading ==
  ASSUME TInv, NInv, UNCHANGED <<database, sent>>, NEW s \in Scans, NEW X, Become(s, X),
         X.new = scan[s].new, X.stage \in {"idle", "dispatch"} => writer # s
  PROVE  NInv'
<1>1. /\ scan'[s] = X /\ \A q \in Scans : q # s => scan'[q] = scan[q]
  BY BecomeMeans DEF TInv
<1>2. UNCHANGED <<rows, draft, writer, sent>>
  BY DEF database
<1>3. \A q \in Scans : (scan'[q]).new = scan[q].new
  BY <1>1
<1>4. \A q \in Scans : Table(q)' = Table(q)
  BY <1>2 DEF Table
<1>5. \A q \in Scans : (scan'[q]).stage \in {"idle", "dispatch"} => writer' # q
  BY <1>1, <1>2 DEF NInv
<1>6. QED BY <1>2, <1>3, <1>4, <1>5 DEF NInv, NewIsUnsent

LEMMA NewOfRollBack ==
  ASSUME TInv, NInv, UNCHANGED sent, NEW s \in Scans, RollBack(s)
  PROVE  NInv'
<1>1. /\ scan'[s] = Idle /\ \A q \in Scans : q # s => scan'[q] = scan[q]
  BY BecomeMeans DEF TInv, RollBack
<1>2. Idle.new = {} /\ Idle.stage = "idle"
  BY DEF Idle
<1>3. rows' = rows /\ sent' = sent /\ Null \notin Scans
  BY EpisodeConstants DEF RollBack
<1>4. CASE writer = s
  <2>1. writer' = Null
    BY <1>4 DEF RollBack
  <2>2. \A q \in Scans : q # s => Table(q) = rows
    BY <1>4 DEF Table
  <2>3. \A q \in Scans : Table(q)' = rows
    BY <1>3, <2>1 DEF Table
  <2>4. QED BY <1>1, <1>2, <1>3, <2>1, <2>2, <2>3 DEF NInv, NewIsUnsent
<1>5. CASE writer # s
  <2>1. UNCHANGED <<writer, draft>>
    BY <1>5 DEF RollBack
  <2>2. \A q \in Scans : Table(q)' = Table(q)
    BY <1>3, <2>1 DEF Table
  <2>3. QED BY <1>1, <1>2, <1>3, <1>5, <2>1, <2>2 DEF NInv, NewIsUnsent
<1>6. QED BY <1>4, <1>5

LEMMA NewOfScan ==
  ASSUME TInv, NInv, NEW s \in Scans, ScanStep(s)
  PROVE  NInv'
<1> DEFINE now == scan[s]
<1>1. ScanOK(now) /\ now \in ScanStates
  BY DEF TInv, ScanOK
<1>2. now.stage \in {"idle", "dispatch"} => writer # s
  BY DEF NInv
<1>3. Null \notin Scans /\ writer \in Scans \cup {Null}
  BY EpisodeConstants DEF TInv, TypeOK
<1> HIDE DEF now
<1>4. CASE ListUsers(s)
  <2> DEFINE X == IF Active = {} THEN [Idle EXCEPT !.stage = "dispatch"]
                  ELSE [Idle EXCEPT !.stage = "listed", !.day = today, !.todo = Active,
                                    !.wants = {u \in Active : users[u] = "on"}]
  <2>1. Become(s, X) /\ UNCHANGED <<database, sent>> /\ now = Idle
    BY <1>4 DEF ListUsers, now
  <2>2. X.new = now.new
    BY <2>1 DEF Idle
  <2>3. writer # s
    BY <1>2, <2>1 DEF Idle
  <2> HIDE DEF X
  <2>4. QED BY <2>1, <2>2, <2>3, NewAfterReading DEF now
<1>5. CASE ComputeLow(s)
  <2>1. PICK told : /\ Become(s, [now EXCEPT !.stage = "user", !.wants = {}, !.low = low, !.told = told])
                    /\ UNCHANGED <<database, sent>>
    BY <1>5 DEF ComputeLow, now
  <2> DEFINE X == [now EXCEPT !.stage = "user", !.wants = {}, !.low = low, !.told = told]
  <2>2. X.new = now.new /\ X.stage = "user"
    BY <1>1 DEF ScanStates
  <2> HIDE DEF X
  <2>3. QED BY <2>1, <2>2, NewAfterReading DEF now, X
<1>6. CASE NextUser(s)
  <2> DEFINE X == [now EXCEPT !.stage = "open", !.user = Min(now.todo), !.todo = @ \ {Min(now.todo)}]
  <2>1. Become(s, X) /\ UNCHANGED <<database, sent>>
    BY <1>6 DEF NextUser, now
  <2>2. X.new = now.new /\ X.stage = "open"
    BY <1>1 DEF ScanStates
  <2> HIDE DEF X
  <2>3. QED BY <2>1, <2>2, NewAfterReading DEF now
<1>7. CASE ReadOpener(s)
  <2>1. PICK d, K :
          LET next == [now EXCEPT !.definition = d, !.told = @ \ {<<now.user, d>>}]
          IN  \/ Become(s, [next EXCEPT !.stage = "count"]) /\ UNCHANGED database
              \/ Become(s, [next EXCEPT !.stage = "create", !.keys = K]) /\ UNCHANGED database
              \/ RollBack(s)
    BY <1>7, Zenon DEF ReadOpener, now
  <2>2. UNCHANGED sent
    BY <1>7 DEF ReadOpener
  <2> DEFINE next == [now EXCEPT !.definition = d, !.told = @ \ {<<now.user, d>>}]
             X == [next EXCEPT !.stage = "count"]
             Y == [next EXCEPT !.stage = "create", !.keys = K]
  <2>3. X.new = now.new /\ X.stage = "count" /\ Y.new = now.new /\ Y.stage = "create"
    BY <1>1 DEF ScanStates
  <2>4. \/ Become(s, X) /\ UNCHANGED database
        \/ Become(s, Y) /\ UNCHANGED database
        \/ RollBack(s)
    BY <2>1
  <2> HIDE DEF X, Y
  <2>5. QED BY <2>2, <2>3, <2>4, NewAfterReading, NewOfRollBack DEF now
<1>8. CASE CountOpeners(s)
  <2>1. PICK K : /\ Become(s, [now EXCEPT !.stage = "create", !.keys = K])
                 /\ UNCHANGED <<database, sent>>
    BY <1>8 DEF CountOpeners, now
  <2> DEFINE X == [now EXCEPT !.stage = "create", !.keys = K]
  <2>2. X.new = now.new /\ X.stage = "create"
    BY <1>1 DEF ScanStates
  <2> HIDE DEF X
  <2>3. QED BY <2>1, <2>2, NewAfterReading DEF now, X
<1>9. CASE CreateRow(s)
  <2>1. PICK k \in now.keys :
          /\ Become(s, [now EXCEPT !.keys = @ \ {k},
                                   !.new = IF Created(Table(s), k) THEN @ \cup {k} ELSE @])
          /\ IF writer = s
             THEN draft' = Insert(draft, {k}) /\ rows' = rows
             ELSE rows' = Insert(rows, {k}) /\ draft' = draft
    BY <1>9, Zenon DEF CreateRow, now
  <2>2. UNCHANGED <<writer, sent>> /\ now.stage = "create" /\ writer \in {Null, s}
    BY <1>9 DEF CreateRow, now
  <2> DEFINE new == IF Created(Table(s), k) THEN now.new \cup {k} ELSE now.new
             X == [now EXCEPT !.keys = @ \ {k}, !.new = new]
  <2>3. Become(s, X)
    BY <2>1, Zenon
  <2>4. X.new = new /\ X.stage = "create"
    BY <1>1, <2>2 DEF ScanStates
  <2> HIDE DEF X
  <2>5. /\ scan'[s] = X /\ \A q \in Scans : q # s => scan'[q] = scan[q]
    BY <2>3, BecomeMeans DEF TInv
  <2>6. /\ k \notin DOMAIN Table(s) => new = now.new \cup {k}
        /\ k \in DOMAIN Table(s) => new = now.new
    BY DEF Created
  <2>7. /\ DOMAIN Insert(draft, {k}) = DOMAIN draft \cup {k}
        /\ DOMAIN Insert(rows, {k}) = DOMAIN rows \cup {k}
    BY InsertedRows
  <2>8. k \notin DOMAIN Table(s) =>
          k \notin sent /\ \A q \in Scans : q # s => k \notin scan[q].new
    <3>1. DOMAIN rows \subseteq DOMAIN Table(s)
      BY <1>3, <2>2 DEF Table, NInv
    <3>2. \A q \in Scans : q # s => scan[q].new \subseteq DOMAIN rows
      BY <1>3, <2>2 DEF Table, NInv
    <3>3. sent \subseteq DOMAIN rows
      BY DEF NInv
    <3>4. QED BY <3>1, <3>2, <3>3
  <2> HIDE DEF new
  <2>9. DOMAIN Table(s)' = DOMAIN Table(s) \cup {k}
    BY <2>1, <2>2, <2>7 DEF Table
  <2>10. \A q \in Scans : DOMAIN Table(q) \subseteq DOMAIN Table(q)'
    BY <2>1, <2>2, <2>7 DEF Table
  <2>11. /\ DOMAIN rows \subseteq DOMAIN rows'
         /\ writer' # Null => DOMAIN rows' \subseteq DOMAIN draft'
    BY <1>3, <2>1, <2>2, <2>7 DEF NInv
  <2>12. \A q \in Scans : (scan'[q]).new \subseteq DOMAIN Table(q)'
    BY <2>4, <2>5, <2>6, <2>9, <2>10 DEF NInv, now
  <2>13. \A q \in Scans : (scan'[q]).stage \in {"idle", "dispatch"} => writer' # q
    BY <2>2, <2>4, <2>5 DEF NInv
  <2>14. NewIsUnsent'
    <3>1. \A q \in Scans : (scan'[q]).new = IF q = s THEN new ELSE scan[q].new
      BY <2>4, <2>5
    <3>2. \A q \in Scans : scan[q].new \cap sent = {}
                           /\ \A p \in Scans \ {q} : scan[q].new \cap scan[p].new = {}
      BY DEF NInv, NewIsUnsent
    <3>3. \A q \in Scans : (scan'[q]).new \cap sent' = {}
      BY <2>2, <2>6, <2>8, <3>1, <3>2 DEF now
    <3>4. \A q \in Scans \ {s} : new \cap scan[q].new = {}
      BY <2>6, <2>8, <3>2 DEF now
    <3>5. \A q \in Scans, p \in Scans : p # q => (scan'[q]).new \cap (scan'[p]).new = {}
      BY <3>1, <3>2, <3>4
    <3>6. QED BY <3>3, <3>5 DEF NewIsUnsent
  <2>15. QED BY <2>2, <2>11, <2>12, <2>13, <2>14 DEF NInv
<1>10. CASE DefinitionDone(s)
  <2> DEFINE X == [now EXCEPT !.stage = "open", !.definition = Null]
  <2>1. Become(s, X) /\ UNCHANGED <<database, sent>>
    BY <1>10 DEF DefinitionDone, now
  <2>2. X.new = now.new /\ X.stage = "open"
    BY <1>1 DEF ScanStates
  <2> HIDE DEF X
  <2>3. QED BY <2>1, <2>2, NewAfterReading DEF now
<1>11. CASE ReadOpenOpeners(s)
  <2>1. PICK K : /\ Become(s, [now EXCEPT !.stage = "close", !.keys = K])
                 /\ UNCHANGED <<database, sent>>
    BY <1>11 DEF ReadOpenOpeners, now
  <2> DEFINE X == [now EXCEPT !.stage = "close", !.keys = K]
  <2>2. X.new = now.new /\ X.stage = "close"
    BY <1>1 DEF ScanStates
  <2> HIDE DEF X
  <2>3. QED BY <2>1, <2>2, NewAfterReading DEF now, X
<1>12. CASE CloseEpisodes(s)
  <2> DEFINE X == [now EXCEPT !.stage = "user", !.user = Null, !.keys = {}]
  <2>1. Become(s, X) /\ UNCHANGED sent
    BY <1>12 DEF CloseEpisodes, now
  <2>2. X.new = now.new /\ X.stage = "user"
    BY <1>1 DEF ScanStates
  <2> HIDE DEF X
  <2>3. CASE now.keys = {}
    BY <1>12, <2>1, <2>2, <2>3, NewAfterReading DEF CloseEpisodes, now
  <2>4. CASE now.keys # {}
    <3>1. /\ writer \in {Null, s} /\ writer' = s /\ rows' = rows
          /\ draft' = Resolve(Table(s), now.keys)
      BY <1>12, <2>4 DEF CloseEpisodes, now
    <3>2. DOMAIN draft' = DOMAIN Table(s)
      BY <3>1, ResolvedRows
    <3>3. /\ scan'[s] = X /\ \A q \in Scans : q # s => scan'[q] = scan[q]
      BY <2>1, BecomeMeans DEF TInv
    <3>4. \A q \in Scans : DOMAIN Table(q)' = DOMAIN Table(q)
      BY <1>3, <3>1, <3>2 DEF Table
    <3>5. DOMAIN rows \subseteq DOMAIN Table(s)
      BY <1>3, <3>1 DEF Table, NInv
    <3>6. \A q \in Scans : (scan'[q]).new = scan[q].new
      BY <2>2, <3>3 DEF now
    <3>7. \A q \in Scans : (scan'[q]).stage \in {"idle", "dispatch"} => writer' # q
      BY <2>2, <3>1, <3>3
    <3>8. QED BY <2>1, <3>1, <3>2, <3>4, <3>5, <3>6, <3>7 DEF NInv, NewIsUnsent
  <2>5. QED BY <2>3, <2>4
<1>13. CASE CommitScan(s)
  <2> DEFINE X == [Idle EXCEPT !.stage = "dispatch", !.new = now.new]
  <2>1. Become(s, X) /\ UNCHANGED sent /\ rows' = Table(s)
    BY <1>13 DEF CommitScan, now
  <2>2. X.new = now.new /\ X.stage = "dispatch"
    BY DEF Idle
  <2> HIDE DEF X
  <2>3. /\ scan'[s] = X /\ \A q \in Scans : q # s => scan'[q] = scan[q]
    BY <2>1, BecomeMeans DEF TInv
  <2>4. \A q \in Scans : (scan'[q]).new = scan[q].new
    BY <2>2, <2>3 DEF now
  <2>5. CASE writer = s
    <3>1. writer' = Null /\ rows' = draft
      BY <1>13, <2>1, <2>5 DEF CommitScan, Table
    <3>2. \A q \in Scans : Table(q)' = draft
      BY <1>3, <3>1 DEF Table
    <3>3. DOMAIN rows \subseteq DOMAIN draft
      BY <1>3, <2>5 DEF NInv
    <3>4. \A q \in Scans : DOMAIN Table(q) \subseteq DOMAIN draft
      BY <3>3, <2>5 DEF Table
    <3>5. QED BY <1>3, <2>1, <2>4, <3>1, <3>2, <3>3, <3>4 DEF NInv, NewIsUnsent
  <2>6. CASE writer # s
    <3>1. UNCHANGED <<writer, draft, rows>>
      BY <1>13, <2>1, <2>6 DEF CommitScan, Table
    <3>2. UNCHANGED <<database, sent>>
      BY <2>1, <3>1 DEF database
    <3>3. QED BY <2>1, <2>2, <2>6, <3>2, NewAfterReading DEF now
  <2>7. QED BY <2>5, <2>6
<1>14. CASE Dispatch(s)
  <2>1. /\ Become(s, Idle) /\ UNCHANGED <<rows, writer, draft>> /\ now.stage = "dispatch"
        /\ sent' \in {sent, sent \cup now.new}
    BY <1>14 DEF Dispatch, database, now
  <2>2. /\ scan'[s] = Idle /\ \A q \in Scans : q # s => scan'[q] = scan[q]
    BY <2>1, BecomeMeans DEF TInv
  <2>3. Idle.new = {} /\ Idle.stage = "idle" /\ writer # s
    BY <1>2, <2>1 DEF Idle
  <2>4. Table(s) = rows /\ now.new \subseteq DOMAIN rows
    BY <2>3 DEF Table, NInv, now
  <2>5. \A q \in Scans : Table(q)' = Table(q)
    BY <2>1 DEF Table
  <2>6. sent' \subseteq DOMAIN rows'
    BY <2>1, <2>4 DEF NInv
  <2>7. \A q \in Scans : (scan'[q]).new \subseteq DOMAIN Table(q)'
    BY <2>2, <2>3, <2>5 DEF NInv
  <2>8. \A q \in Scans : (scan'[q]).stage \in {"idle", "dispatch"} => writer' # q
    BY <2>1, <2>2, <2>3 DEF NInv
  <2>9. NewIsUnsent'
    <3>1. \A q \in Scans \ {s} : (scan'[q]).new \cap sent' = {}
      BY <2>1, <2>2 DEF NInv, NewIsUnsent, now
    <3>2. \A q, p \in Scans : p # q => (scan'[q]).new \cap (scan'[p]).new = {}
      BY <2>2, <2>3 DEF NInv, NewIsUnsent
    <3>3. QED BY <2>2, <2>3, <3>1, <3>2 DEF NewIsUnsent
  <2>10. QED BY <2>1, <2>6, <2>7, <2>8, <2>9 DEF NInv
<1>15. QED
  BY <1>4, <1>5, <1>6, <1>7, <1>8, <1>9, <1>10, <1>11, <1>12, <1>13, <1>14 DEF ScanStep

LEMMA NewOfWorld ==
  ASSUME TInv, NInv, World
  PROVE  NInv'
<1>1. CASE UNCHANGED <<rows, draft, writer, sent, scan>>
  <2>1. \A q \in Scans : Table(q)' = Table(q)
    BY <1>1 DEF Table
  <2>2. QED BY <1>1, <2>1 DEF NInv, NewIsUnsent
<1>2. ASSUME NEW d \in Definitions, Movement(d) PROVE NInv'
  <2>1. /\ rows' = Resolve(Insert(rows, Added(d, low')), Over(d, low'))
        /\ sent' \in {sent, sent \cup (Added(d, low') \ DOMAIN rows)}
        /\ UNCHANGED <<scan, writer, draft>> /\ writer = Null
    BY <1>2, MovementMeans DEF Unlocked
  <2>2. DOMAIN rows' = DOMAIN rows \cup Added(d, low')
    <3>1. DOMAIN rows' = DOMAIN Insert(rows, Added(d, low'))
      BY <2>1, ResolvedRows
    <3>2. QED BY <3>1, InsertedRows
  <2>3. Null \notin Scans
    BY EpisodeConstants
  <2>4. \A q \in Scans : Table(q) = rows /\ Table(q)' = rows'
    BY <2>1, <2>3 DEF Table
  <2>5. \A q \in Scans : scan[q].new \subseteq DOMAIN rows
    BY <2>4 DEF NInv
  <2>6. NewIsUnsent'
    BY <2>1, <2>5 DEF NInv, NewIsUnsent
  <2>7. QED BY <2>1, <2>2, <2>3, <2>4, <2>5, <2>6 DEF NInv
<1>3. ASSUME NEW d \in Definitions, DeleteDefinition(d) PROVE NInv'
  <2> DEFINE kept == {k \in DOMAIN rows : k.definition # d}
  <2>1. /\ rows' = [k \in kept |-> rows[k]]
        /\ sent' = {k \in sent : k.definition # d}
        /\ scan' = [s \in Scans |-> [scan[s] EXCEPT !.new = {k \in @ : k.definition # d}]]
        /\ UNCHANGED <<writer, draft>> /\ writer = Null
    BY <1>3 DEF DeleteDefinition, Unlocked
  <2>2. \A q \in Scans : /\ (scan'[q]).new = {k \in scan[q].new : k.definition # d}
                         /\ (scan'[q]).stage = scan[q].stage
    <3>1. TAKE q \in Scans
    <3> DEFINE now == scan[q]
               new == {k \in scan[q].new : k.definition # d}
    <3>2. scan'[q] = [now EXCEPT !.new = new]
      BY <2>1
    <3>3. now \in ScanStates
      BY DEF TInv, ScanOK
    <3> HIDE DEF now, new
    <3>4. (scan'[q]).new = new /\ (scan'[q]).stage = now.stage
      BY <3>2, <3>3 DEF ScanStates
    <3>5. QED BY <3>4 DEF now, new
  <2>3. Null \notin Scans
    BY EpisodeConstants
  <2>4. \A q \in Scans : Table(q) = rows /\ Table(q)' = rows'
    BY <2>1, <2>3 DEF Table
  <2>5. \A q \in Scans : scan[q].new \subseteq DOMAIN rows
    BY <2>4 DEF NInv
  <2>6. DOMAIN rows' = kept
    BY <2>1
  <2>7. \A q \in Scans : (scan'[q]).new \subseteq DOMAIN Table(q)'
    BY <2>2, <2>4, <2>5, <2>6
  <2>8. NewIsUnsent'
    BY <2>1, <2>2 DEF NInv, NewIsUnsent
  <2>9. sent' \subseteq DOMAIN rows'
    BY <2>1, <2>6 DEF NInv
  <2>10. QED BY <2>1, <2>2, <2>3, <2>7, <2>8, <2>9 DEF NInv
<1>4. QED
  BY <1>1, <1>2, <1>3
     DEF World, SilentChange, Assign, ChangeUser, NextDay, Unlocked

LEMMA NewOfNext == TInv /\ NInv /\ [Next]_vars => NInv'
<1>1. SUFFICES ASSUME TInv, NInv, [Next]_vars PROVE NInv'
  OBVIOUS
<1>2. CASE UNCHANGED vars
  <2>1. \A q \in Scans : Table(q)' = Table(q)
    BY <1>2 DEF Table, vars
  <2>2. QED BY <1>1, <1>2, <2>1 DEF vars, NInv, NewIsUnsent
<1>3. CASE Next
  BY <1>1, <1>3, NewOfWorld, NewOfScan, NewOfRollBack DEF Next, Fail
<1>4. QED BY <1>1, <1>2, <1>3

-----------------------------------------------------------------------------
(* How far a scan has come *)

LEMMA ServedKept ==
  ASSUME NEW t, NEW t2, NEW u, NEW d, NEW day, DOMAIN t \subseteq DOMAIN t2,
         OpenOpeners(t2, u, d) = OpenOpeners(t, u, d), Served(t, u, d, day)
  PROVE  Served(t2, u, d, day)
BY DEF Served

\* No repeat is due on the day of the opener.
LEMMA NothingDue ==
  ASSUME NEW u, NEW d, NEW day \in Nat, NEW seq
  PROVE  DueRepeats(Opener(u, d, day, seq), day) = {}
<1>1. Opener(u, d, day, seq).start = day
  BY DEF Opener
<1>2. \A n \in Offsets : ~(n <= day - day)
  BY EpisodeConstants
<1>3. QED BY <1>1, <1>2 DEF DueRepeats

\* CreateRow: the next of the keys is written.
LEMMA ProgressOfInsert ==
  ASSUME NEW t, TableOK(t), One(t), Numbered(t),
         NEW day \in Nat, NEW lacking, NEW active, NEW wanted,
         NEW now, Progress(now, t, day, lacking, active, wanted), now.stage = "create",
         NEW k \in now.keys, k \in KeyShapes,
         NEW X, X.stage = "create", X.keys = now.keys \ {k}, X.day = now.day, X.low = now.low,
         X.told = now.told, X.todo = now.todo, X.user = now.user, X.definition = now.definition
  PROVE  /\ Fresh({k}, t)
         /\ Progress(X, Insert(t, {k}), day, lacking, active, wanted)
<1> DEFINE t2 == Insert(t, {k})
           u == now.user
           d == now.definition
<1>1. /\ DOMAIN t2 = DOMAIN t \cup {k}
      /\ \A v, e, j : j \in OpenOpeners(t2, v, e) <=>
           \/ j \in OpenOpeners(t, v, e)
           \/ j \in {k} \ DOMAIN t /\ j.user = v /\ j.definition = e /\ j.offset = 0
  <2>1. DOMAIN t2 = DOMAIN t \cup {k}
    BY InsertedRows
  <2>2. QED BY <2>1, InsertedOpenings
<1> HIDE DEF t2, u, d
<1>2. now.day = day /\ now.low = lacking
  BY DEF Progress
<1>3. \A v, e : Waiting(X, v, e) <=> Waiting(now, v, e)
  BY DEF Waiting
<1>4. \A v, e : AtPair(X, v, e) <=> AtPair(now, v, e)
  BY DEF AtPair
\* It is enough to look at the pair that the scan is at.
<1>5. ASSUME k.user = u, \A v, e : ~(v = u /\ e = d) => OpenOpeners(t2, v, e) = OpenOpeners(t, v, e),
             Repeating(X, t2)
      PROVE  Progress(X, t2, day, lacking, active, wanted)
  <2>1. ASSUME NEW v \in Users, NEW e \in Definitions, <<v, e>> \in wanted
        PROVE  Waiting(X, v, e) \/ AtPair(X, v, e) \/ Served(t2, v, e, day)
    <3>1. Waiting(now, v, e) \/ AtPair(now, v, e) \/ Served(t, v, e, day)
      BY <2>1 DEF Progress
    <3>2. CASE Served(t, v, e, day) /\ ~AtPair(now, v, e)
      <4>1. ~(v = u /\ e = d)
        BY <3>2 DEF AtPair, OnPair, u, d
      <4>2. QED BY <1>1, <1>5, <3>2, <4>1, ServedKept
    <3>3. QED BY <1>3, <1>4, <3>1, <3>2
  <2>2. ASSUME NEW v \in active \ X.todo, NEW e \in Definitions,
               ~(v = X.user /\ X.stage \in OnUser), OpenOpeners(t2, v, e) # {}
        PROVE  e \in lacking
    <3>1. v # u /\ ~(v = now.user /\ now.stage \in OnUser)
      BY <2>2 DEF OnUser, u
    <3>2. OpenOpeners(t, v, e) # {}
      BY <1>5, <2>2, <3>1
    <3>3. QED BY <2>2, <3>1, <3>2 DEF Progress
  <2>3. QED BY <1>2, <1>5, <2>1, <2>2 DEF Progress
<1>6. CASE Opening(now, t)
  <2> DEFINE seq == OpenersOn(t, u, d, day)
  <2>1. now.keys = {Opener(u, d, day, seq)} /\ OpenOpeners(t, u, d) = {}
    BY <1>2, <1>6 DEF Opening, u, d
  <2>2. k = Opener(u, d, day, seq) /\ X.keys = {}
    BY <2>1
  <2>3. k.user = u /\ k.definition = d /\ k.start = day /\ k.offset = 0 /\ k.seq = seq
    BY <2>2 DEF Opener
  <2>4. Fresh({k}, t)
    BY <2>1, <2>3 DEF Fresh
  <2>5. k \notin DOMAIN t
    BY <2>3, <2>4, FreshIsNew DEF TableOK
  <2>6. OpenOpeners(t2, u, d) = {k}
    BY <1>1, <2>1, <2>3, <2>5
  <2>7. DueRepeats(k, day) = {}
    BY <2>2, NothingDue
  <2>8. Repeating(X, t2)
    BY <1>2, <2>2, <2>6, <2>7 DEF Repeating, u, d
  <2>9. ASSUME NEW v, NEW e, ~(v = u /\ e = d)
        PROVE  OpenOpeners(t2, v, e) = OpenOpeners(t, v, e)
    <3>1. \A j : j \in OpenOpeners(t2, v, e) <=> j \in OpenOpeners(t, v, e)
      BY <1>1, <2>3, <2>9
    <3>2. QED BY <3>1
  <2>10. QED BY <1>5, <2>3, <2>4, <2>8, <2>9 DEF t2
<1>7. CASE Repeating(now, t)
  <2>1. k.offset # 0 /\ k.user = u
    BY <1>7 DEF Repeating, u
  <2>2. Fresh({k}, t)
    BY <2>1 DEF Fresh
  <2>3. ASSUME NEW v, NEW e PROVE OpenOpeners(t2, v, e) = OpenOpeners(t, v, e)
    <3>1. \A j : j \in OpenOpeners(t2, v, e) <=> j \in OpenOpeners(t, v, e)
      BY <1>1, <2>1
    <3>2. QED BY <3>1
  <2>4. now.keys \cup DOMAIN t = X.keys \cup DOMAIN t2
    BY <1>1
  <2>5. Repeating(X, t2)
    BY <1>7, <2>3, <2>4 DEF Repeating
  <2>6. QED BY <1>5, <2>1, <2>2, <2>3, <2>5 DEF t2
<1>8. QED BY <1>6, <1>7 DEF Progress

\* CloseEpisodes: the openers that were read are closed on t, which gives t2.
LEMMA ProgressOfClose ==
  ASSUME NEW t, NEW t2, NEW day, NEW lacking, NEW active, NEW wanted,
         NEW now, Progress(now, t, day, lacking, active, wanted), now.stage = "close",
         \A u \in Users, d \in Definitions : <<u, d>> \in wanted => d \in lacking,
         \/ t2 = t /\ now.keys = {}
         \/ t2 = Resolve(t, now.keys),
         NEW X, X.stage = "user", X.day = now.day, X.low = now.low,
         X.told = now.told, X.todo = now.todo
  PROVE  Progress(X, t2, day, lacking, active, wanted)
<1>1. now.keys = {k \in DOMAIN t : /\ k.user = now.user /\ k.offset = 0
                                   /\ t[k] = "open" /\ k.definition \notin lacking}
  BY DEF Progress
<1>2. /\ DOMAIN t2 = DOMAIN t
      /\ \A k \in DOMAIN t : k \in now.keys => t2[k] # "open"
      /\ \A k \in DOMAIN t : t2[k] = "open" => t[k] = "open"
      /\ \A k \in DOMAIN t : k.definition \in lacking => t2[k] = t[k]
  <2>1. CASE t2 = t /\ now.keys = {}
    BY <2>1
  <2>2. CASE t2 = Resolve(t, now.keys)
    <3>1. /\ DOMAIN t2 = DOMAIN t
          /\ \A k \in DOMAIN t :
               IF \E o \in now.keys : /\ k.user = o.user /\ k.definition = o.definition
                                      /\ k.start = o.start
               THEN t2[k] = "resolved" ELSE t2[k] = t[k]
      BY <2>2, ResolvedRows
    <3>2. \A o \in now.keys : o.definition \notin lacking
      BY <1>1
    <3>3. QED BY <3>1, <3>2
  <2>3. QED BY <2>1, <2>2
<1>3. ASSUME NEW u \in Users, NEW d \in Definitions, <<u, d>> \in wanted
      PROVE  Waiting(X, u, d) \/ Served(t2, u, d, day)
  <2>1. Waiting(now, u, d) \/ Served(t, u, d, day)
    BY <1>3 DEF Progress, AtPair, OnPair
  <2>2. Waiting(now, u, d) => Waiting(X, u, d)
    BY DEF Waiting
  <2>3. OpenOpeners(t2, u, d) = OpenOpeners(t, u, d)
    BY <1>2, <1>3 DEF OpenOpeners
  <2>4. QED BY <1>2, <2>1, <2>2, <2>3, ServedKept
<1>4. ASSUME NEW u \in active \ X.todo, NEW d \in Definitions, OpenOpeners(t2, u, d) # {}
      PROVE  d \in lacking
  <2>1. PICK o \in OpenOpeners(t2, u, d) : TRUE
    BY <1>4
  <2>2. o \in DOMAIN t /\ t2[o] = "open" /\ t[o] = "open" /\ o \notin now.keys
        /\ o.user = u /\ o.definition = d /\ o.offset = 0
    BY <1>2, <2>1 DEF OpenOpeners
  <2>3. CASE u = now.user
    BY <1>1, <2>2, <2>3
  <2>4. CASE u # now.user
    <3>1. OpenOpeners(t, u, d) # {}
      BY <2>2 DEF OpenOpeners
    <3>2. QED BY <1>4, <2>4, <3>1 DEF Progress
  <2>5. QED BY <2>3, <2>4
<1>5. QED BY <1>3, <1>4 DEF Progress, OnUser

-----------------------------------------------------------------------------
(* Nothing overtakes a scan *)

LEMMA NoTableIsFine == One(<<>>) /\ Numbered(<<>>)
<1>1. DOMAIN <<>> = {}
  OBVIOUS
<1>2. QED BY <1>1 DEF One, Numbered

LEMMA SameWorld ==
  ASSUME UNCHANGED world
  PROVE  /\ Active' = Active /\ Wanted' = Wanted /\ today' = today /\ low' = low /\ users' = users
         /\ \A now, t : PlaceAt(now, t)' <=> PlaceAt(now, t)
<1>1. UNCHANGED <<today, low, users, responsible>>
  BY DEF world
<1>2. Active' = Active
  BY <1>1 DEF Active
<1>3. \A d : Recipients(d)' = Recipients(d)
  BY <1>1, <1>2 DEF Recipients
<1>4. Wanted' = Wanted
  BY <1>1, <1>3 DEF Wanted
<1>5. QED BY <1>1, <1>2, <1>4 DEF PlaceAt

LEMMA SerialOfInit == Init => SInv
<1>1. SUFFICES ASSUME Init PROVE SInv
  OBVIOUS
<1>2. rows = <<>> /\ draft = <<>> /\ writer = Null /\ \A s \in Scans : scan[s] = Idle
  BY <1>1 DEF Init
<1>3. QED BY <1>2, NoTableIsFine DEF SInv

\* A step of scan s, after which its table is t.
LEMMA SerialAfter ==
  ASSUME TInv, NInv, SInv, UNCHANGED world, NEW s \in Scans, NEW X, Become(s, X),
         scan[s] # Idle \/ \A q \in Scans : scan[q] = Idle,
         One(rows'), One(draft'), Numbered(rows'), Numbered(draft'),
         writer' # Null => EndsRight(rows', draft', low),
         PlaceAt(X, Table(s)')
  PROVE  SInv'
<1>1. /\ scan'[s] = X /\ \A q \in Scans : q # s => scan'[q] = scan[q]
  BY BecomeMeans DEF TInv
<1>2. \A q \in Scans : q # s => scan'[q] = Idle
  BY <1>1 DEF SInv
<1>3. \A q \in Scans : scan'[q] # Idle => PlaceAt(scan[q], Table(q))'
  <2>1. TAKE q \in Scans
  <2>2. HAVE scan'[q] # Idle
  <2>3. q = s
    BY <1>2, <2>2
  <2>4. PlaceAt(scan'[s], Table(s)')
    BY <1>1
  <2>5. PlaceAt(scan[s], Table(s))'
    BY <2>4, SameWorld DEF PlaceAt
  <2>6. QED BY <2>3, <2>5
<1>4. writer' # Null => EndsRight(rows, draft, low)'
  BY DEF world, EndsRight
<1>5. One(rows)' /\ One(draft)' /\ Numbered(rows)' /\ Numbered(draft)'
  BY DEF One, Numbered, OpenersOn
<1>6. QED BY <1>2, <1>3, <1>4, <1>5 DEF SInv

LEMMA SerialAfterReading ==
  ASSUME TInv, NInv, SInv, UNCHANGED <<world, database>>, NEW s \in Scans, NEW X, Become(s, X),
         scan[s] # Idle \/ \A q \in Scans : scan[q] = Idle,
         PlaceAt(X, Table(s))
  PROVE  SInv'
<1>1. UNCHANGED <<rows, draft, writer>>
  BY DEF database
<1>2. Table(s)' = Table(s)
  BY <1>1 DEF Table
<1>3. PlaceAt(X, Table(s)')
  BY <1>2
<1>4. /\ One(rows') /\ One(draft') /\ Numbered(rows') /\ Numbered(draft')
      /\ writer' # Null => EndsRight(rows', draft', low)
  BY <1>1 DEF SInv
<1>5. QED BY <1>3, <1>4, SerialAfter

\* Of a scan that is idle, or waits to dispatch, nothing is asked.
LEMMA PlaceOfOthers ==
  ASSUME NEW X, X.stage \in {"idle", "dispatch"}, NEW t
  PROVE  PlaceAt(X, t)
BY DEF PlaceAt, OnUser

LEMMA SerialOfRollBack ==
  ASSUME TInv, NInv, SInv, UNCHANGED world, NEW s \in Scans, scan[s] # Idle, RollBack(s)
  PROVE  SInv'
<1>1. PlaceAt(Idle, Table(s)')
  BY PlaceOfOthers DEF Idle
<1>2. /\ Become(s, Idle) /\ rows' = rows
      /\ \/ writer' = Null /\ draft' = <<>>
         \/ UNCHANGED <<writer, draft>>
  BY DEF RollBack
<1>3. /\ One(rows') /\ One(draft') /\ Numbered(rows') /\ Numbered(draft')
      /\ writer' # Null => EndsRight(rows', draft', low)
  BY <1>2, NoTableIsFine DEF SInv
<1>4. QED BY <1>1, <1>2, <1>3, SerialAfter

LEMMA SerialOfScan ==
  ASSUME TInv, NInv, SInv, ~overlap, NEW s \in Scans, ScanStep(s)
  PROVE  SInv'
<1> DEFINE now == scan[s]
           t == Table(s)
<1>1. ScanOK(now) /\ now \in ScanStates /\ overlap \in BOOLEAN
  BY DEF TInv, TypeOK, ScanOK
<1>2. UNCHANGED world
  BY DEF ScanStep, ListUsers, ComputeLow, NextUser, ReadOpener, CountOpeners, CreateRow,
         DefinitionDone, ReadOpenOpeners, CloseEpisodes, CommitScan, Dispatch
<1>3. now.stage # "idle" => now # Idle /\ PlaceAt(now, t)
  BY DEF Idle, SInv
<1>4. TypedTable(t) /\ TableOK(t) /\ One(t) /\ Numbered(t)
  <2>1. TypedTable(t)
    BY TablesTyped
  <2>2. TableOK(t)
    BY <1>1, <2>1, TypedIsOK
  <2>3. QED BY <2>1, <2>2 DEF SInv, Table
<1>5. today \in Nat
  BY <1>1, Bounds DEF TInv, TypeOK
<1> HIDE DEF now, t
\* A step that reads leaves the scan where PlaceAt says, on the same table.
<1>6. ASSUME NEW X, Become(s, X), UNCHANGED database, now.stage # "idle",
             X.stage \in OnUser \cup {"user"}, Progress(X, t, today, low, Active, Wanted)
      PROVE  SInv'
  <2>1. PlaceAt(X, Table(s))
    BY <1>6 DEF PlaceAt, OnUser, t
  <2>2. scan[s] # Idle
    BY <1>3, <1>6 DEF now
  <2>3. QED BY <1>2, <1>6, <2>1, <2>2, SerialAfterReading
<1>7. CASE ListUsers(s)
  <2> DEFINE wants == {u \in Active : users[u] = "on"}
             Y == [Idle EXCEPT !.stage = "listed", !.day = today, !.todo = Active, !.wants = wants]
             Z == [Idle EXCEPT !.stage = "dispatch"]
             X == IF Active = {} THEN Z ELSE Y
  <2>1. Become(s, X) /\ UNCHANGED database /\ \A q \in Scans : scan[q] = Idle
    BY <1>7 DEF ListUsers
  <2>2. /\ Y.stage = "listed" /\ Y.day = today /\ Y.todo = Active /\ Y.wants = wants
        /\ Z.stage = "dispatch"
    BY DEF Idle
  <2> HIDE DEF Y, Z
  <2>3. PlaceAt(Y, Table(s))
    BY <2>2 DEF PlaceAt, OnUser
  <2>4. PlaceAt(Z, Table(s))
    BY <2>2, PlaceOfOthers
  <2>5. PlaceAt(X, Table(s))
    BY <2>3, <2>4
  <2> HIDE DEF X
  <2>6. QED BY <1>2, <2>1, <2>5, SerialAfterReading
<1>8. CASE ComputeLow(s)
  <2> DEFINE told == {p \in now.wants \X low : p[1] \in Routed(now.todo, p[2])}
             X == [now EXCEPT !.stage = "user", !.wants = {}, !.low = low, !.told = told]
  <2>1. Become(s, X) /\ UNCHANGED database /\ now.stage = "listed"
    BY <1>8 DEF ComputeLow, now
  <2>2. /\ now.day = today /\ now.todo = Active
        /\ now.wants = {u \in Active : users[u] = "on"}
    BY <1>3, <2>1 DEF PlaceAt
  <2>3. X.stage = "user" /\ X.day = now.day /\ X.low = low /\ X.told = told /\ X.todo = now.todo
    BY <1>1 DEF ScanStates
  <2>4. \A u \in Users, d \in Definitions : <<u, d>> \in Wanted => u \in Active /\ <<u, d>> \in told
    BY <2>2 DEF Wanted, Recipients, Routed
  <2> HIDE DEF X, told
  <2>5. Progress(X, t, today, low, Active, Wanted)
    BY <2>2, <2>3, <2>4 DEF Progress, Waiting
  <2>6. QED BY <1>6, <2>1, <2>3, <2>5
<1>9. CASE NextUser(s)
  <2> DEFINE u == Min(now.todo)
             X == [now EXCEPT !.stage = "open", !.user = u, !.todo = @ \ {u}]
  <2>1. Become(s, X) /\ UNCHANGED database /\ now.stage = "user"
    BY <1>9 DEF NextUser, now
  <2>2. /\ X.stage = "open" /\ X.day = now.day /\ X.low = now.low /\ X.told = now.told
        /\ X.user = u /\ X.todo = now.todo \ {u}
    BY <1>1 DEF ScanStates
  <2> HIDE DEF X, u
  <2>3. Progress(now, t, today, low, Active, Wanted)
    BY <1>3, <2>1 DEF PlaceAt
  <2>4. \A v, d : Waiting(now, v, d) => Waiting(X, v, d)
    BY <2>1, <2>2 DEF Waiting
  <2>5. \A v, d : ~AtPair(now, v, d)
    BY <2>1 DEF AtPair, OnPair
  <2>6. Progress(X, t, today, low, Active, Wanted)
    BY <2>1, <2>2, <2>3, <2>4, <2>5 DEF Progress, OnUser
  <2>7. QED BY <1>6, <2>1, <2>2, <2>6 DEF OnUser
<1>10. CASE ReadOpener(s)
  <2>1. PICK d \in {p[2] : p \in {q \in now.told : q[1] = now.user}} :
          LET open == OpenOpeners(t, now.user, d)
              next == [now EXCEPT !.definition = d, !.told = @ \ {<<now.user, d>>}]
          IN  \/ /\ open = {}
                 /\ Become(s, [next EXCEPT !.stage = "count"]) /\ UNCHANGED database
              \/ /\ Cardinality(open) = 1
                 /\ Become(s, [next EXCEPT !.stage = "create",
                                 !.keys = UNION {DueRepeats(o, now.day) : o \in open}])
                 /\ UNCHANGED database
              \/ RollBack(s)
    BY <1>10, Zenon DEF ReadOpener, now, t
  <2> DEFINE next == [now EXCEPT !.definition = d, !.told = @ \ {<<now.user, d>>}]
             K == Repeats(t, now.user, d, now.day)
             X == [next EXCEPT !.stage = "count"]
             Y == [next EXCEPT !.stage = "create", !.keys = K]
  <2>2. now.stage = "open"
    BY <1>10 DEF ReadOpener, now
  <2>3. Progress(now, t, today, low, Active, Wanted)
    BY <1>3, <2>2 DEF PlaceAt, OnUser
  <2>4. /\ X.stage = "count" /\ X.user = now.user /\ X.definition = d /\ X.day = now.day
        /\ X.low = now.low /\ X.told = now.told \ {<<now.user, d>>} /\ X.todo = now.todo
    BY <1>1 DEF ScanStates
  <2>5. /\ Y.stage = "create" /\ Y.user = now.user /\ Y.definition = d /\ Y.day = now.day
        /\ Y.low = now.low /\ Y.told = now.told \ {<<now.user, d>>} /\ Y.todo = now.todo
        /\ Y.keys = K
    BY <1>1 DEF ScanStates
  <2>6. CASE RollBack(s)
    BY <1>2, <1>3, <2>2, <2>6, SerialOfRollBack DEF now
  <2> HIDE DEF next, K
  <2> HIDE DEF X, Y
  <2>7. \A v, e : /\ Waiting(now, v, e) => Waiting(X, v, e) \/ AtPair(X, v, e)
                  /\ Waiting(now, v, e) => Waiting(Y, v, e) \/ AtPair(Y, v, e)
    BY <2>4, <2>5 DEF Waiting, AtPair, OnPair
  <2>8. \A v, e : ~AtPair(now, v, e)
    BY <2>2 DEF AtPair, OnPair
  <2>9. CASE OpenOpeners(t, now.user, d) = {} /\ Become(s, X) /\ UNCHANGED database
    <3>1. Progress(X, t, today, low, Active, Wanted)
      BY <2>2, <2>3, <2>4, <2>7, <2>8, <2>9 DEF Progress, OnUser
    <3>2. QED BY <1>6, <2>2, <2>4, <2>9, <3>1 DEF OnUser
  <2>10. CASE Cardinality(OpenOpeners(t, now.user, d)) = 1 /\ Become(s, Y) /\ UNCHANGED database
    <3>1. OpenOpeners(t, now.user, d) # {}
      BY <2>10, FS_EmptySet
    <3>2. \A k \in K : k.offset # 0 /\ k.user = now.user /\ k.definition = d
      <4>1. now.day \in Nat
        BY <1>5, <2>3 DEF Progress
      <4>2. QED BY <1>1, <1>4, <4>1, RepeatsOK DEF K
    <3>3. \A o \in OpenOpeners(t, now.user, d) : DueRepeats(o, now.day) \subseteq K
      BY DEF K, Repeats
    <3>4. Repeating(Y, t)
      BY <2>5, <3>1, <3>2, <3>3 DEF Repeating
    <3>5. Progress(Y, t, today, low, Active, Wanted)
      BY <2>2, <2>3, <2>5, <2>7, <2>8, <3>4 DEF Progress, OnUser
    <3>6. QED BY <1>6, <2>2, <2>5, <2>10, <3>5 DEF OnUser
  <2>11. QED BY <2>1, <2>6, <2>9, <2>10 DEF next, K, X, Y, Repeats
<1>11. CASE CountOpeners(s)
  <2> DEFINE seq == OpenersOn(t, now.user, now.definition, now.day)
             K == {Opener(now.user, now.definition, now.day, seq)}
             X == [now EXCEPT !.stage = "create", !.keys = K]
  <2>1. Become(s, X) /\ UNCHANGED database /\ now.stage = "count"
    BY <1>11 DEF CountOpeners, now, t
  <2>2. /\ X.stage = "create" /\ X.user = now.user /\ X.definition = now.definition
        /\ X.day = now.day /\ X.low = now.low /\ X.told = now.told /\ X.todo = now.todo
        /\ X.keys = K
    BY <1>1 DEF ScanStates
  <2>3. Progress(now, t, today, low, Active, Wanted)
    BY <1>3, <2>1 DEF PlaceAt, OnUser
  <2>4. OpenOpeners(t, now.user, now.definition) = {}
    BY <2>1, <2>3 DEF Progress
  <2> HIDE DEF X
  <2>5. Opening(X, t)
    BY <2>2, <2>4 DEF Opening
  <2>6. \A v, e : /\ Waiting(now, v, e) => Waiting(X, v, e)
                  /\ AtPair(now, v, e) => AtPair(X, v, e)
    BY <2>1, <2>2 DEF Waiting, AtPair, OnPair
  <2>7. Progress(X, t, today, low, Active, Wanted)
    BY <2>1, <2>2, <2>3, <2>5, <2>6 DEF Progress, OnUser
  <2>8. QED BY <1>6, <2>1, <2>2, <2>7 DEF OnUser
<1>12. CASE CreateRow(s)
  <2>1. PICK k \in now.keys :
          /\ Become(s, [now EXCEPT !.keys = @ \ {k},
                                   !.new = IF Created(Table(s), k) THEN @ \cup {k} ELSE @])
          /\ IF writer = s
             THEN draft' = Insert(draft, {k}) /\ rows' = rows
             ELSE rows' = Insert(rows, {k}) /\ draft' = draft
    BY <1>12, Zenon DEF CreateRow, now
  <2>2. writer' = writer /\ writer \in {Null, s} /\ now.stage = "create" /\ Null # s
    BY <1>12, EpisodeConstants DEF CreateRow, now
  <2> DEFINE new == IF Created(Table(s), k) THEN now.new \cup {k} ELSE now.new
             X == [now EXCEPT !.keys = @ \ {k}, !.new = new]
             t2 == Insert(t, {k})
  <2>3. Become(s, X)
    BY <2>1, Zenon
  <2> HIDE DEF new
  <2>4. /\ X.stage = "create" /\ X.user = now.user /\ X.definition = now.definition
        /\ X.day = now.day /\ X.low = now.low /\ X.told = now.told /\ X.todo = now.todo
        /\ X.keys = now.keys \ {k}
    BY <1>1, <2>2 DEF ScanStates
  <2> HIDE DEF X
  <2>5. Progress(now, t, today, low, Active, Wanted)
    BY <1>3, <2>2 DEF PlaceAt, OnUser
  <2>6. k \in KeyShapes /\ {k} \subseteq KeyShapes /\ IsFiniteSet({k})
    BY <1>1, Bounds, FS_Singleton DEF ScanStates
  <2>7. Fresh({k}, t) /\ Progress(X, t2, today, low, Active, Wanted)
    BY <1>4, <1>5, <2>2, <2>4, <2>5, <2>6, ProgressOfInsert
  <2>8. One(t2) /\ Numbered(t2)
    BY <1>4, <2>6, <2>7, InsertFresh
  <2>9. PlaceAt(X, t2)
    BY <2>4, <2>7 DEF PlaceAt
  <2>10. CASE writer = s
    <3>1. t = draft /\ draft' = t2 /\ rows' = rows /\ Table(s)' = t2
      BY <2>1, <2>2, <2>10 DEF Table, t
    <3>2. EndsRight(rows, draft, low) /\ DOMAIN rows \subseteq DOMAIN draft
      BY <2>2, <2>10 DEF SInv, NInv
    <3>3. \A j \in DOMAIN t : t2[j] = t[j]
      BY InsertedRows
    <3>4. EndsRight(rows, t2, low)
      BY <3>1, <3>2, <3>3 DEF EndsRight
    <3>5. One(rows) /\ Numbered(rows) /\ scan[s] # Idle
      BY <1>3, <2>2 DEF SInv, now
    <3> HIDE DEF t2
    <3>6. QED BY <1>2, <2>3, <2>8, <2>9, <3>1, <3>4, <3>5, SerialAfter
  <2>11. CASE writer # s
    <3>1. t = rows /\ rows' = t2 /\ draft' = draft /\ Table(s)' = t2 /\ writer' = Null
      BY <2>1, <2>2, <2>11 DEF Table, t
    <3>2. One(draft) /\ Numbered(draft) /\ scan[s] # Idle
      BY <1>3, <2>2 DEF SInv, now
    <3> HIDE DEF t2
    <3>3. QED BY <1>2, <2>3, <2>8, <2>9, <3>1, <3>2, SerialAfter
  <2>12. QED BY <2>10, <2>11
<1>13. CASE DefinitionDone(s)
  <2> DEFINE X == [now EXCEPT !.stage = "open", !.definition = Null]
  <2>1. Become(s, X) /\ UNCHANGED database /\ now.stage = "create" /\ now.keys = {}
    BY <1>13 DEF DefinitionDone, now
  <2>2. /\ X.stage = "open" /\ X.user = now.user
        /\ X.day = now.day /\ X.low = now.low /\ X.told = now.told /\ X.todo = now.todo
    BY <1>1 DEF ScanStates
  <2> HIDE DEF X
  <2>3. Progress(now, t, today, low, Active, Wanted)
    BY <1>3, <2>1 DEF PlaceAt, OnUser
  <2>4. Repeating(now, t)
    BY <2>1, <2>3 DEF Progress, Opening
  <2>5. Served(t, now.user, now.definition, today)
    BY <2>1, <2>3, <2>4 DEF Repeating, Served, Progress
  <2>6. \A v, e : /\ Waiting(now, v, e) => Waiting(X, v, e)
                  /\ AtPair(now, v, e) => Served(t, v, e, today)
    BY <2>1, <2>2, <2>5 DEF Waiting, AtPair
  <2>7. Progress(X, t, today, low, Active, Wanted)
    BY <2>1, <2>2, <2>3, <2>6 DEF Progress, OnUser
  <2>8. QED BY <1>6, <2>1, <2>2, <2>7 DEF OnUser
<1>14. CASE ReadOpenOpeners(s)
  <2> DEFINE K == {k \in DOMAIN t : /\ k.user = now.user /\ k.offset = 0
                                    /\ t[k] = "open" /\ Recovered(s, k)}
             X == [now EXCEPT !.stage = "close", !.keys = K]
  <2>1. /\ Become(s, X) /\ UNCHANGED database /\ now.stage = "open"
        /\ \A p \in now.told : p[1] # now.user
    BY <1>14 DEF ReadOpenOpeners, now, t
  <2>2. /\ X.stage = "close" /\ X.user = now.user /\ X.keys = K
        /\ X.day = now.day /\ X.low = now.low /\ X.told = now.told /\ X.todo = now.todo
    BY <1>1 DEF ScanStates
  <2> HIDE DEF X
  <2>3. Progress(now, t, today, low, Active, Wanted)
    BY <1>3, <2>1 DEF PlaceAt, OnUser
  <2>4. now.low = low
    BY <2>3 DEF Progress
  <2>5. K = {k \in DOMAIN t : /\ k.user = now.user /\ k.offset = 0
                              /\ t[k] = "open" /\ k.definition \notin low}
    BY <2>4 DEF Recovered, now
  <2> HIDE DEF K
  <2>6. \A v, e : ~AtPair(now, v, e) /\ (Waiting(now, v, e) => Waiting(X, v, e))
    BY <2>1, <2>2 DEF Waiting, AtPair, OnPair
  <2>7. Progress(X, t, today, low, Active, Wanted)
    BY <2>1, <2>2, <2>3, <2>5, <2>6 DEF Progress, OnUser
  <2>8. QED BY <1>6, <2>1, <2>2, <2>7 DEF OnUser
<1>15. CASE CloseEpisodes(s)
  <2> DEFINE X == [now EXCEPT !.stage = "user", !.user = Null, !.keys = {}]
  <2>1. Become(s, X) /\ now.stage = "close"
    BY <1>15 DEF CloseEpisodes, now
  <2>2. /\ X.stage = "user" /\ X.day = now.day /\ X.low = now.low /\ X.told = now.told
        /\ X.todo = now.todo
    BY <1>1 DEF ScanStates
  <2> HIDE DEF X
  <2>3. Progress(now, t, today, low, Active, Wanted)
    BY <1>3, <2>1 DEF PlaceAt, OnUser
  <2>4. \A u \in Users, d \in Definitions : <<u, d>> \in Wanted => d \in low
    BY DEF Wanted
  <2>5. CASE now.keys = {}
    <3>1. UNCHANGED database
      BY <1>15, <2>5 DEF CloseEpisodes, now
    <3>2. Progress(X, t, today, low, Active, Wanted)
      BY <2>1, <2>2, <2>3, <2>4, <2>5, ProgressOfClose
    <3>3. QED BY <1>6, <2>1, <2>2, <3>1, <3>2
  <2>6. CASE now.keys # {}
    <3> DEFINE t2 == Resolve(t, now.keys)
    <3>1. writer \in {Null, s} /\ writer' = s /\ draft' = t2 /\ rows' = rows
      BY <1>15, <2>6 DEF CloseEpisodes, now, t
    <3>2. Progress(X, t2, today, low, Active, Wanted)
      BY <2>1, <2>2, <2>3, <2>4, ProgressOfClose
    <3>3. One(t2) /\ Numbered(t2)
      BY <1>4, ResolveKeeps
    <3>4. EndsRight(rows, t2, low)
      <4>1. \A o \in now.keys : o.definition \notin low
        BY <2>1, <2>3 DEF Progress
      <4>2. \A k \in DOMAIN t : t2[k] = t[k] \/ k.definition \notin low
        BY <4>1, ResolvedRows
      <4>3. DOMAIN rows \subseteq DOMAIN t /\ EndsRight(rows, t, low)
        <5>1. CASE writer = s
          <6>1. writer # Null
            BY <5>1, EpisodeConstants
          <6>2. QED BY <5>1, <6>1 DEF Table, NInv, SInv, t
        <5>2. CASE writer # s
          BY <5>2 DEF Table, EndsRight, t
        <5>3. QED BY <5>1, <5>2
      <4> HIDE DEF t2
      <4>4. QED BY <4>2, <4>3 DEF EndsRight
    <3>5. Table(s)' = t2 /\ One(rows) /\ Numbered(rows) /\ scan[s] # Idle
      BY <1>3, <2>1, <3>1 DEF Table, SInv, now
    <3> HIDE DEF t2
    <3>6. PlaceAt(X, t2)
      BY <2>2, <3>2 DEF PlaceAt
    <3>7. QED BY <1>2, <2>1, <3>1, <3>3, <3>4, <3>5, <3>6, SerialAfter
  <2>7. QED BY <2>5, <2>6
<1>16. CASE CommitScan(s)
  <2> DEFINE X == [Idle EXCEPT !.stage = "dispatch", !.new = now.new]
  <2>1. /\ Become(s, X) /\ rows' = t /\ now.stage = "user"
        /\ \/ writer' = Null /\ draft' = <<>>
           \/ UNCHANGED <<writer, draft>> /\ writer # s
    BY <1>16 DEF CommitScan, now, t
  <2>2. X.stage = "dispatch"
    BY DEF Idle
  <2> HIDE DEF X
  <2>3. One(draft') /\ Numbered(draft')
    BY <2>1, NoTableIsFine DEF SInv
  <2>4. writer' # Null => EndsRight(rows', draft', low)
    BY <2>1 DEF SInv, Table, t
  <2>5. PlaceAt(X, Table(s)') /\ scan[s] # Idle
    BY <1>3, <2>1, <2>2, PlaceOfOthers DEF now
  <2>6. QED BY <1>2, <1>4, <2>1, <2>3, <2>4, <2>5, SerialAfter
<1>17. CASE Dispatch(s)
  <2>1. Become(s, Idle) /\ UNCHANGED database /\ now.stage = "dispatch"
    BY <1>17 DEF Dispatch, now
  <2>2. PlaceAt(Idle, Table(s)) /\ scan[s] # Idle
    BY <1>3, <2>1, PlaceOfOthers DEF Idle, now
  <2>3. QED BY <1>2, <2>1, <2>2, SerialAfterReading
<1>18. QED
  BY <1>7, <1>8, <1>9, <1>10, <1>11, <1>12, <1>13, <1>14, <1>15, <1>16, <1>17 DEF ScanStep

LEMMA SerialOfWorld ==
  ASSUME TInv, NInv, SInv, ~overlap, World
  PROVE  SInv'
<1>1. \A s \in Scans : scan[s] = Idle
  BY DEF World, SilentChange, Movement, Assign, DeleteDefinition, ChangeUser, NextDay, Change
<1>2. writer = Null
  BY <1>1 DEF Idle, NInv, TInv, TypeOK
<1>3. UNCHANGED <<writer, draft>>
  BY DEF World, SilentChange, Movement, Assign, DeleteDefinition, ChangeUser, NextDay, Unlocked
<1>4. \A s \in Scans : scan'[s] = Idle
  <2>1. CASE UNCHANGED scan
    BY <1>1, <2>1
  <2>2. ASSUME NEW d \in Definitions, DeleteDefinition(d) PROVE \A s \in Scans : scan'[s] = Idle
    <3>1. [Idle EXCEPT !.new = {k \in @ : k.definition # d}] = Idle
      BY DEF Idle
    <3>2. scan' = [s \in Scans |-> [scan[s] EXCEPT !.new = {k \in @ : k.definition # d}]]
      BY <2>2 DEF DeleteDefinition
    <3>3. \A s \in Scans : scan'[s] = [Idle EXCEPT !.new = {k \in @ : k.definition # d}]
      BY <1>1, <3>2
    <3>4. QED BY <3>1, <3>3
  <2>3. QED
    BY <2>1, <2>2 DEF World, SilentChange, Movement, Assign, ChangeUser, NextDay
<1>5. One(rows') /\ Numbered(rows')
  <2>1. CASE UNCHANGED rows
    BY <2>1 DEF SInv
  <2>2. ASSUME NEW d \in Definitions, Movement(d) PROVE One(rows') /\ Numbered(rows')
    <3> DEFINE K == Added(d, low')
               t == Insert(rows, K)
    <3>1. rows' = Resolve(t, Over(d, low'))
      BY <2>2, MovementMeans
    <3>2. K \subseteq KeyShapes /\ IsFiniteSet(K) /\ Fresh(K, rows)
      BY AddedOK, Bounds DEF TInv, TypeOK
    <3>3. TableOK(rows) /\ One(rows) /\ Numbered(rows)
      BY TablesTyped, TypedIsOK DEF TInv, TypeOK, SInv
    <3> HIDE DEF K
    <3>4. One(t) /\ Numbered(t)
      BY <3>2, <3>3, InsertFresh
    <3> HIDE DEF t
    <3>5. QED BY <3>1, <3>4, ResolveKeeps
  <2>3. ASSUME NEW d \in Definitions, DeleteDefinition(d) PROVE One(rows') /\ Numbered(rows')
    <3> DEFINE kept == {k \in DOMAIN rows : k.definition # d}
    <3>1. rows' = [k \in kept |-> rows[k]]
      BY <2>3 DEF DeleteDefinition
    <3>2. \A k \in DOMAIN rows' : k \in DOMAIN rows /\ rows'[k] = rows[k] /\ k.definition # d
      BY <3>1
    <3>3. One(rows')
      BY <3>2 DEF SInv, One
    <3>4. \A u, e, day : e # d =>
            {k \in DOMAIN rows' : k.user = u /\ k.definition = e /\ k.offset = 0 /\ k.start = day}
              = {k \in DOMAIN rows : k.user = u /\ k.definition = e /\ k.offset = 0 /\ k.start = day}
      BY <3>1
    <3>5. \A u, e, day : e # d => OpenersOn(rows', u, e, day) = OpenersOn(rows, u, e, day)
      BY <3>4 DEF OpenersOn
    <3>6. Numbered(rows')
      BY <3>2, <3>5 DEF SInv, Numbered
    <3>7. QED BY <3>3, <3>6
  <2>4. QED
    BY <2>1, <2>2, <2>3 DEF World, SilentChange, Assign, ChangeUser, NextDay
<1>6. One(draft') /\ Numbered(draft')
  BY <1>3 DEF SInv
<1>7. One(rows)' /\ One(draft)' /\ Numbered(rows)' /\ Numbered(draft)'
  BY <1>5, <1>6 DEF One, Numbered, OpenersOn
<1>8. QED BY <1>2, <1>3, <1>4, <1>7 DEF SInv

LEMMA SerialOfNext == TInv /\ NInv /\ SInv /\ ~overlap /\ [Next]_vars => SInv'
<1>1. SUFFICES ASSUME TInv, NInv, SInv, ~overlap, [Next]_vars PROVE SInv'
  OBVIOUS
<1>2. CASE UNCHANGED vars
  <2>1. UNCHANGED world
    BY <1>2 DEF vars, world
  <2>2. \A q \in Scans : Table(q)' = Table(q)
    BY <1>2 DEF Table, vars
  <2>3. \A q \in Scans : PlaceAt(scan[q], Table(q))' <=> PlaceAt(scan[q], Table(q))
    <3>1. TAKE q \in Scans
    <3>2. scan'[q] = scan[q] /\ Table(q)' = Table(q)
      BY <1>2, <2>2 DEF vars
    <3>3. QED BY <2>1, <3>2, SameWorld DEF PlaceAt
  <2>4. /\ scan' = scan /\ writer' = writer /\ low' = low /\ rows' = rows /\ draft' = draft
    BY <1>2 DEF vars
  <2>5. /\ One(rows)' /\ One(draft)' /\ Numbered(rows)' /\ Numbered(draft)'
        /\ writer' # Null => EndsRight(rows, draft, low)'
    BY <1>1, <2>4 DEF SInv, One, Numbered, OpenersOn, EndsRight
  <2>6. QED BY <1>1, <2>3, <2>4, <2>5 DEF SInv
<1>3. CASE Next
  <2>1. ASSUME NEW s \in Scans, Fail(s) PROVE SInv'
    BY <1>1, <2>1, SerialOfRollBack DEF Fail
  <2>2. QED BY <1>1, <1>3, <2>1, SerialOfWorld, SerialOfScan DEF Next
<1>4. QED BY <1>1, <1>2, <1>3

LEMMA InvOfNext == IInv /\ [Next]_vars => IInv'
<1>1. [Next]_vars => overlap' = overlap
  BY DEF Next, vars
<1>2. QED BY <1>1, TypesOfNext, NewOfNext, SerialOfNext DEF IInv

LEMMA Inductive == Spec => []IInv
<1>1. Init => IInv
  BY TypesOfInit, NewOfInit, SerialOfInit DEF IInv
<1>2. QED BY <1>1, InvOfNext, PTL DEF Spec

-----------------------------------------------------------------------------
(* What follows *)

\* One shortage is one episode while nothing overtakes a scan; and whatever
\* interleaves, two scans or a movement never hand the same row to the channels:
\* run_scan dispatches what create_if_absent says is new.
THEOREM AnnouncedOnce == Spec => []NothingTwice
<1>1. IInv => NothingTwice
  BY DEF IInv, NInv, SInv, One, NothingTwice, OneOpenEpisode
<1>2. QED BY <1>1, Inductive, PTL

LEMMA StepEndsOnRecovery ==
  ASSUME IInv, [Next]_vars, ~overlap, NEW k \in DOMAIN rows \cap DOMAIN rows',
         rows[k] = "open", rows'[k] = "resolved"
  PROVE  k.definition \notin low'
<1>1. TInv /\ NInv /\ SInv
  BY DEF IInv
<1>2. CASE rows' = rows
  BY <1>2
<1>3. ASSUME NEW d \in Definitions, Movement(d) PROVE k.definition \notin low'
  <2> DEFINE t == Insert(rows, Added(d, low'))
             over == Over(d, low')
  <2>1. rows' = Resolve(t, over)
    BY <1>3, MovementMeans
  <2>2. k \in DOMAIN t /\ t[k] = "open"
    <3>1. k \in DOMAIN rows
      OBVIOUS
    <3>2. DOMAIN t = DOMAIN rows \cup Added(d, low') /\ \A j \in DOMAIN rows : t[j] = rows[j]
      BY InsertedRows
    <3> HIDE DEF t
    <3>3. QED BY <3>1, <3>2
  <2> HIDE DEF t, over
  <2>3. PICK o \in over : k.definition = o.definition
    BY <2>1, <2>2, ResolvedRows
  <2>4. d \notin low' /\ o.definition = d
    BY <2>3 DEF over, Over, OpenOpeners
  <2>5. QED BY <2>3, <2>4
<1>4. ASSUME NEW d \in Definitions, DeleteDefinition(d) PROVE FALSE
  <2>1. rows'[k] = rows[k]
    BY <1>4 DEF DeleteDefinition
  <2>2. QED BY <2>1
<1>5. ASSUME NEW s \in Scans, CreateRow(s), rows' # rows PROVE FALSE
  <2>1. PICK j : rows' = Insert(rows, {j})
    BY <1>5 DEF CreateRow
  <2>2. rows'[k] = rows[k]
    BY <2>1, InsertedRows
  <2>3. QED BY <2>2
<1>6. ASSUME NEW s \in Scans, CommitScan(s), rows' # rows PROVE k.definition \notin low'
  <2>1. rows' = draft /\ writer = s /\ low' = low /\ Null # s
    BY <1>6, EpisodeConstants DEF CommitScan, Table, world
  <2>2. QED BY <1>1, <2>1 DEF SInv, EndsRight
<1>7. QED
  BY <1>2, <1>3, <1>4, <1>5, <1>6
     DEF Next, vars, World, SilentChange, Assign, ChangeUser, NextDay, ScanStep, Fail, RollBack,
         ListUsers, ComputeLow, NextUser, ReadOpener, CountOpeners, DefinitionDone,
         ReadOpenOpeners, CloseEpisodes, Dispatch, database

LEMMA StepSettles ==
  ASSUME IInv, NEW s \in Scans, ~overlap, CommitScan(s), NEW u \in Active, NEW d \in Definitions
  PROVE  LET open == OpenOpeners(rows', u, d)
         IN  /\ open # {} => d \in low
             /\ d \in low /\ u \in Recipients(d) /\ users[u] = "on" =>
                  /\ open # {}
                  /\ \A o \in open, n \in Offsets :
                       n <= today - o.start =>
                         [o EXCEPT !.offset = n, !.seq = 0] \in DOMAIN rows'
<1> DEFINE now == scan[s]
           t == Table(s)
<1>1. now.stage = "user" /\ now.todo = {} /\ rows' = t
  BY DEF CommitScan
<1>2. Progress(now, t, today, low, Active, Wanted)
  BY <1>1 DEF IInv, SInv, PlaceAt, OnUser, Idle
<1> HIDE DEF now, t
<1>3. u \in Users
  BY ActiveUsers
<1>4. OpenOpeners(t, u, d) # {} => d \in low
  BY <1>1, <1>2 DEF Progress, OnUser
<1>5. ASSUME d \in low, u \in Recipients(d), users[u] = "on"
      PROVE  Served(t, u, d, today)
  <2>1. <<u, d>> \in Wanted
    BY <1>3, <1>5 DEF Wanted
  <2>2. ~Waiting(now, u, d) /\ ~AtPair(now, u, d)
    BY <1>1 DEF Waiting, AtPair, OnPair
  <2>3. QED BY <1>2, <1>3, <2>1, <2>2 DEF Progress
<1>6. \A o, n : n \in Offsets /\ n <= today - o.start =>
        [o EXCEPT !.offset = n, !.seq = 0] \in DueRepeats(o, today)
  BY DEF DueRepeats
<1>7. QED BY <1>1, <1>4, <1>5, <1>6 DEF Served

\* While nothing overtakes a scan: an episode ends only when its definition has
\* recovered, whatever was done to its routing and users, and a committed run_scan
\* leaves an open episode with every due repeat for exactly the low definitions.
THEOREM FollowsStock == Spec => EpisodesFollowStock
<1>1. IInv /\ [Next]_vars =>
        [~overlap => \A k \in DOMAIN rows \cap DOMAIN rows' :
           rows[k] = "open" /\ rows'[k] = "resolved" => k.definition \notin low']_vars
  BY StepEndsOnRecovery
<1>2. IInv /\ [Next]_vars =>
        [\A s \in Scans : ~overlap /\ CommitScan(s) =>
           \A u \in Active, d \in Definitions :
             LET open == OpenOpeners(rows', u, d)
             IN  /\ open # {} => d \in low
                 /\ d \in low /\ u \in Recipients(d) /\ users[u] = "on" =>
                      /\ open # {}
                      /\ \A o \in open, n \in Offsets :
                           n <= today - o.start =>
                             [o EXCEPT !.offset = n, !.seq = 0] \in DOMAIN rows']_vars
  BY StepSettles, Zenon
<1>3. QED
  BY <1>1, <1>2, Inductive, PTL DEF Spec, EpisodesFollowStock, EndsOnRecovery, ScanSettles
=============================================================================

----------------------------- MODULE Trees_proofs -----------------------------
(***************************************************************************)
(* Theorems about LocationTree and CategoryTree, for every set of lots,     *)
(* definitions and requests and every bound.  A step of the categories is a *)
(* step of the tree or leaves it alone, so that its invariants serve both;  *)
(* and in a tree without cycles each category, and so each definition, has  *)
(* its one place.                                                           *)
(***************************************************************************)
EXTENDS CategoryTree, FiniteSetTheorems, TLAPS

-----------------------------------------------------------------------------
(* Type correctness *)

\* The fields of a request.
IsRequest(now) ==
  DOMAIN now = {"stage", "row", "old", "parent", "asset", "seen", "frontier"}

Requesting ==
  /\ inflight = [r \in Requests |-> inflight[r]]
  /\ \A r \in Requests : IsRequest(inflight[r])

TInv == TypeOK /\ Requesting

LEMMA TInvInit == Init => TInv
BY TreeConstants DEF Init, TInv, TypeOK, Requesting, IsRequest, Idle

LEMMA BecomeOther ==
  ASSUME Requesting, NEW r \in Requests, NEW state, Become(r, state)
  PROVE  /\ inflight'[r] = state
         /\ \A q \in Requests : q # r => inflight'[q] = inflight[q]
BY DEF Become, Requesting

LEMMA BecomeRequest ==
  ASSUME Requesting, NEW r \in Requests, NEW state, Become(r, state), IsRequest(state)
  PROVE  Requesting'
BY DEF Become, Requesting, IsRequest

LEMMA IdleIsRequest == IsRequest(Idle)
BY DEF IsRequest, Idle

\* Every step of a request leaves a request.
LEMMA RequestStep ==
  ASSUME Requesting, NEW r \in Requests,
         LoadUpdate(r) \/ LoadDelete(r) \/ Walk(r) \/ CheckUpdate(r) \/ Refuse(r)
           \/ CommitUpdate(r) \/ LoadChildren(r) \/ CommitDelete(r) \/ Fail(r)
  PROVE  Requesting'
<1>1. CASE LoadUpdate(r)
  <2>1. PICK i \in DOMAIN locations, x \in Lots \cup {Null, Keep},
             p \in DOMAIN locations \cup {Null, Keep} :
          (p \in {Null, Keep} \/ p # i)
          /\ Become(r, [Idle EXCEPT !.stage = "walk", !.row = i, !.old = locations[i],
                                 !.parent = p, !.asset = x,
                                 !.frontier = IF p \in DOMAIN locations THEN Children(i) ELSE {}])
    BY <1>1, Zenon DEF LoadUpdate
  <2> DEFINE c == IF p \in DOMAIN locations THEN Children(i) ELSE {}
             o == locations[i]
  <2> HIDE DEF c, o
  <2>2. IsRequest([Idle EXCEPT !.stage = "walk", !.row = i, !.old = o,
                               !.parent = p, !.asset = x, !.frontier = c])
    BY DEF IsRequest, Idle
  <2> QED BY <2>1, <2>2, BecomeRequest DEF c, o
<1>2. CASE LoadDelete(r)
  <2>1. PICK i \in DOMAIN locations : Become(r, [Idle EXCEPT !.stage = "delete", !.row = i])
    BY <1>2 DEF LoadDelete
  <2>2. IsRequest([Idle EXCEPT !.stage = "delete", !.row = i])
    BY DEF IsRequest, Idle
  <2> QED BY <2>1, <2>2, BecomeRequest
<1>3. CASE Walk(r)
  <2> DEFINE now == inflight[r]
  <2>1. PICK n \in now.frontier :
          Become(r, [now EXCEPT !.seen = @ \cup {n}, !.frontier = Expand(@, n)])
    BY <1>3 DEF Walk
  <2>2. IsRequest([now EXCEPT !.seen = @ \cup {n}, !.frontier = Expand(@, n)])
    BY DEF IsRequest, Requesting
  <2> QED BY <2>1, <2>2, BecomeRequest
<1>4. CASE CheckUpdate(r)
  <2>1. IsRequest([inflight[r] EXCEPT !.stage = "write"])
    BY DEF IsRequest, Requesting
  <2> QED BY <1>4, <2>1, BecomeRequest DEF CheckUpdate
<1>5. CASE LoadChildren(r)
  <2> DEFINE below == Subtree(inflight[r].row)
  <2> HIDE DEF below
  <2>1. IsRequest([inflight[r] EXCEPT !.stage = "drop", !.seen = below])
    BY DEF IsRequest, Requesting
  <2> QED BY <1>5, <2>1, BecomeRequest DEF LoadChildren, below
<1>6. CASE Refuse(r) \/ CommitUpdate(r) \/ CommitDelete(r) \/ Fail(r)
  BY <1>6, IdleIsRequest, BecomeRequest DEF Refuse, CommitUpdate, CommitDelete, Fail
<1> QED BY <1>1, <1>2, <1>3, <1>4, <1>5, <1>6

\* A row with an existing parent and an existing link keeps the tables typed.
LEMMA CommitUpdateTyped ==
  ASSUME TInv, overlap' = overlap, NEW r \in Requests, CommitUpdate(r)
  PROVE  TypeOK'
<1> DEFINE now == inflight[r]
           row == Updated(now)
<1>1. /\ now.row \in DOMAIN locations
      /\ row.parent \in DOMAIN locations \cup {Null}
      /\ row.asset # Null => row.asset \in DOMAIN lots /\ UniqueAsset(now.row, row.asset)
      /\ locations' = [locations EXCEPT ![now.row] = row]
      /\ lots' = lots
  BY DEF CommitUpdate
<1>2. row = [parent |-> row.parent, asset |-> row.asset]
  BY DEF Updated
<1> HIDE DEF row, now
<1>3. \A i, j \in DOMAIN locations' :
        locations'[i].asset # Null /\ locations'[i].asset = locations'[j].asset => i = j
  BY <1>1 DEF TInv, TypeOK, UniqueAsset
<1> QED BY <1>1, <1>2, <1>3 DEF TInv, TypeOK

LEMMA CommitDeleteTyped ==
  ASSUME TInv, overlap' = overlap, NEW r \in Requests, CommitDelete(r)
  PROVE  TypeOK'
<1> DEFINE gone == inflight[r].seen
           rest == DOMAIN locations \ gone
<1>1. /\ \A i \in rest : locations[i].parent \notin gone
      /\ locations' = [i \in rest |-> locations[i]]
      /\ lots' = [x \in DOMAIN lots |-> IF lots[x] \in gone THEN Null ELSE lots[x]]
  BY DEF CommitDelete
<1> HIDE DEF gone
<1> QED BY <1>1 DEF TInv, TypeOK

LEMMA TInvStep == TInv /\ [Next]_vars => TInv'
<1> SUFFICES ASSUME TInv, [Next]_vars PROVE TInv'
  OBVIOUS
<1>o. overlap' = overlap
  BY DEF Next, vars
<1>1. CASE CreateLocation
  <2>1. PICK k \in Locations, p \in DOMAIN locations \cup {Null} :
          /\ IsNext(k)
          /\ locations' = [i \in DOMAIN locations \cup {k} |->
                             IF i = k THEN [parent |-> p, asset |-> Null] ELSE locations[i]]
    BY <1>1 DEF CreateLocation
  <2>2. lots' = lots /\ Requesting'
    BY <1>1 DEF CreateLocation, TInv, Requesting, IsRequest
  <2> QED BY <1>o, <2>1, <2>2 DEF TInv, TypeOK
<1>2. CASE \E x \in Lots : PlaceLot(x)
  BY <1>o, <1>2 DEF PlaceLot, TInv, TypeOK, Requesting, IsRequest
<1>3. CASE \E x \in Lots : RemoveLot(x)
  <2>1. PICK x \in Lots : RemoveLot(x)
    BY <1>3
  <2>2. DOMAIN locations' = DOMAIN locations /\ DOMAIN lots' = DOMAIN lots \ {x}
    BY <2>1 DEF RemoveLot
  <2>3. \A i \in DOMAIN locations :
          locations'[i] = [parent |-> locations[i].parent,
                           asset |-> IF locations[i].asset = x THEN Null ELSE locations[i].asset]
    BY <2>1 DEF RemoveLot, TInv, TypeOK
  <2>4. \A y \in DOMAIN lots' : lots'[y] = lots[y]
    BY <2>1 DEF RemoveLot
  <2>5. Requesting'
    BY <2>1 DEF RemoveLot, TInv, Requesting, IsRequest
  <2> QED BY <1>o, <2>2, <2>3, <2>4, <2>5 DEF TInv, TypeOK
<1>4. ASSUME NEW r \in Requests, CommitUpdate(r) PROVE TInv'
  BY <1>o, <1>4, CommitUpdateTyped, RequestStep DEF TInv
<1>5. ASSUME NEW r \in Requests, CommitDelete(r) PROVE TInv'
  BY <1>o, <1>5, CommitDeleteTyped, RequestStep DEF TInv
<1>6. ASSUME NEW r \in Requests,
             LoadUpdate(r) \/ LoadDelete(r) \/ Walk(r) \/ CheckUpdate(r) \/ Refuse(r)
               \/ LoadChildren(r) \/ Fail(r)
      PROVE  TInv'
  <2>1. locations' = locations /\ lots' = lots
    BY <1>6 DEF LoadUpdate, LoadDelete, Walk, CheckUpdate, Refuse, LoadChildren, Fail
  <2>2. Requesting'
    BY <1>6, RequestStep DEF TInv
  <2> QED BY <1>o, <2>1, <2>2 DEF TInv, TypeOK
<1>7. CASE UNCHANGED vars
  BY <1>7 DEF vars, TInv, TypeOK, Requesting, IsRequest
<1> QED BY <1>1, <1>2, <1>3, <1>4, <1>5, <1>6, <1>7 DEF Next, Answer

\* Whatever requests interleave, rows keep their types, every parent, placement and
\* link names a row that exists, and a lot is at most one location.
THEOREM TypeCorrect == Spec => []TypeOK
<1>1. TInv => TypeOK
  BY DEF TInv
<1> QED BY TInvInit, TInvStep, <1>1, PTL DEF Spec

-----------------------------------------------------------------------------
(* The tree has no cycle, if requests do not overlap *)

Moves(now) == now.stage \in {"walk", "write"} /\ now.parent \notin {Null, Keep}

\* What the search has met, and what it still has to expand, covers the children
\* of the moved node and of every node expanded.
Searched(now) ==
  /\ now.parent # now.row
  /\ Children(now.row) \subseteq now.seen \cup now.frontier
  /\ \A n \in now.seen : Children(n) \subseteq now.seen \cup now.frontier

Checked(now) == now.frontier = {} /\ now.parent \notin now.seen

OneAtATime == \A q, r \in Requests : inflight[q] # Idle /\ inflight[r] # Idle => q = r

SInv ==
  /\ OneAtATime
  /\ \A r \in Requests :
       Moves(inflight[r]) =>
         Searched(inflight[r]) /\ (inflight[r].stage = "write" => Checked(inflight[r]))

\* A set with the moved node, the nodes met and, with every member, its children.
Closed(D) == \A n \in D : Children(n) \subseteq D

\* The subtree of a node is the smallest closed set around it.
LEMMA SubtreeIsClosed ==
  ASSUME NEW n \in DOMAIN locations
  PROVE  /\ n \in Subtree(n) /\ Subtree(n) \subseteq DOMAIN locations
         /\ Closed(Subtree(n))
BY DEF Subtree, Children, Closed

LEMMA SubtreeIsLeast ==
  ASSUME NEW n \in DOMAIN locations, NEW S \in SUBSET DOMAIN locations, n \in S, Closed(S)
  PROVE  Subtree(n) \subseteq S
BY DEF Subtree, Closed

\* To hang a node under a parent outside a closed set around it makes no cycle: a
\* set with no way out, cut by the closed set, had no way out before either.
LEMMA MoveKeepsAcyclic ==
  ASSUME TypeOK, Acyclic, NEW k \in DOMAIN locations, NEW row, NEW D,
         Closed(D), k \in D, row.parent \notin D,
         locations' = [locations EXCEPT ![k] = row]
  PROVE  Acyclic'
<1> SUFFICES ASSUME NEW S \in SUBSET DOMAIN locations, S # {},
                    \A i \in S : locations'[i].parent \in S
             PROVE  FALSE
  BY DEF Acyclic
<1>1. \A i \in DOMAIN locations : i # k => locations'[i] = locations[i]
  OBVIOUS
<1>2. CASE k \notin S
  BY <1>1, <1>2 DEF Acyclic
<1>3. CASE k \in S
  <2>1. row.parent \in S \ D
    BY <1>3
  <2>2. ASSUME NEW i \in S \ D PROVE locations[i].parent \in S \ D
    <3>1. locations[i].parent \in S
      BY <1>1, <2>2
    <3>2. locations[i].parent \notin D
      BY <2>2 DEF Closed, Children
    <3> QED BY <3>1, <3>2
  <2>3. S \ D \in SUBSET DOMAIN locations /\ S \ D # {}
    BY <2>1
  <2> QED BY <2>2, <2>3 DEF Acyclic
<1> QED BY <1>2, <1>3

LEMMA AcyclicStep ==
  TInv /\ SInv /\ Acyclic /\ [Next]_vars => Acyclic'
<1> SUFFICES ASSUME TInv, SInv, Acyclic, [Next]_vars PROVE Acyclic'
  OBVIOUS
<1>1. CASE CreateLocation
  <2>1. PICK k \in Locations, p \in DOMAIN locations \cup {Null} :
          /\ IsNext(k)
          /\ locations' = [i \in DOMAIN locations \cup {k} |->
                             IF i = k THEN [parent |-> p, asset |-> Null] ELSE locations[i]]
    BY <1>1 DEF CreateLocation
  <2>2. k \in Nat /\ k \notin DOMAIN locations /\ k # Null
    <3>1. k \in Nat
      BY TreeConstants DEF Locations
    <3>2. k \notin DOMAIN locations
      BY <2>1, <3>1 DEF IsNext
    <3> QED BY <3>1, <3>2, TreeConstants
  <2>3. SUFFICES ASSUME NEW S \in SUBSET DOMAIN locations', S # {}
                 PROVE  \E i \in S : locations'[i].parent \notin S
    BY DEF Acyclic
  <2>4. CASE S = {k}
    BY <2>1, <2>2, <2>4
  <2>5. CASE S # {k}
    <3>1. S \ {k} \in SUBSET DOMAIN locations /\ S \ {k} # {}
      BY <2>1, <2>3, <2>5
    <3>2. PICK i \in S \ {k} : locations[i].parent \notin S \ {k}
      BY <3>1 DEF Acyclic
    <3>3. i \in DOMAIN locations
      BY <3>1
    <3>4. locations[i].parent # k
      BY <3>3, <2>2 DEF TInv, TypeOK
    <3>5. locations'[i] = locations[i]
      BY <3>2, <3>3, <2>1
    <3> QED BY <3>2, <3>4, <3>5
  <2> QED BY <2>4, <2>5
<1>2. CASE \E x \in Lots : RemoveLot(x)
  <2>1. DOMAIN locations' = DOMAIN locations
    BY <1>2 DEF RemoveLot
  <2>2. \A i \in DOMAIN locations : locations'[i].parent = locations[i].parent
    BY <1>2 DEF RemoveLot, TInv, TypeOK
  <2> QED BY <2>1, <2>2 DEF Acyclic
<1>3. ASSUME NEW r \in Requests, CommitUpdate(r) PROVE Acyclic'
  <2> DEFINE now == inflight[r]
             row == Updated(now)
             D == now.seen \cup {now.row}
  <2>1. /\ now.row \in DOMAIN locations
        /\ now.stage = "write"
        /\ row.parent \in DOMAIN locations \cup {Null}
        /\ locations' = [locations EXCEPT ![now.row] = row]
    BY <1>3 DEF CommitUpdate
  <2>2. \/ row.parent = locations[now.row].parent
        \/ row.parent = now.parent /\ now.parent # Keep
    BY DEF Updated, Set
  <2>3. CASE row.parent = locations[now.row].parent
    <3>1. DOMAIN locations' = DOMAIN locations
      BY <2>1
    <3>2. \A i \in DOMAIN locations : locations'[i].parent = locations[i].parent
      BY <2>1, <2>3
    <3> QED BY <3>1, <3>2 DEF Acyclic
  <2>4. CASE row.parent = now.parent /\ now.parent \notin {Null, Keep}
    <3>1. Searched(now) /\ Checked(now)
      BY <2>1, <2>4 DEF SInv, Moves
    <3>2. Closed(D) /\ now.row \in D
      BY <3>1 DEF Closed, Searched, Checked
    <3>3. row.parent \notin D
      BY <2>4, <3>1 DEF Searched, Checked
    <3> HIDE DEF D, row, now
    <3> QED BY <2>1, <3>2, <3>3, MoveKeepsAcyclic DEF TInv
  <2>5. CASE row.parent = Null
    <3> DEFINE All == DOMAIN locations
    <3>1. Closed(All) /\ now.row \in All
      BY <2>1 DEF Closed, Children
    <3>2. row.parent \notin All
      BY <2>5, TreeConstants DEF TInv, TypeOK, Locations
    <3> HIDE DEF All, row, now
    <3> QED BY <2>1, <3>1, <3>2, MoveKeepsAcyclic DEF TInv
  <2> QED BY <2>2, <2>3, <2>4, <2>5
<1>4. ASSUME NEW r \in Requests, CommitDelete(r) PROVE Acyclic'
  <2>1. locations' = [i \in DOMAIN locations \ inflight[r].seen |-> locations[i]]
    BY <1>4 DEF CommitDelete
  <2> QED BY <2>1 DEF Acyclic
<1>5. CASE locations' = locations
  BY <1>5 DEF Acyclic
<1> QED
  BY <1>1, <1>2, <1>3, <1>4, <1>5
  DEF Next, Answer, vars, PlaceLot, LoadUpdate, LoadDelete, Walk, CheckUpdate, Refuse, LoadChildren, Fail

\* A request that begins finds the others idle; one that is in progress does too.
LEMMA OneAtATimeStep ==
  ASSUME TInv, OneAtATime, NEW r \in Requests, NEW state, Become(r, state),
         Quiet \/ inflight[r] # Idle
  PROVE  /\ OneAtATime'
         /\ \A q \in Requests : q # r => inflight'[q] = Idle
BY BecomeOther DEF OneAtATime, TInv, Quiet

LEMMA SInvStep ==
  ASSUME ~overlap
  PROVE  TInv /\ SInv /\ [Next]_vars => SInv'
<1> SUFFICES ASSUME TInv, SInv, [Next]_vars PROVE SInv'
  OBVIOUS
<1> USE DEF SInv
<1>a. ~Moves(Idle)
  BY DEF Moves, Idle
<1>b. ASSUME NEW r \in Requests, NEW state, Become(r, state),
             Quiet \/ inflight[r] # Idle,
             Moves(state) =>
               /\ locations' = locations
               /\ Searched(state)
               /\ state.stage = "write" => Checked(state)
      PROVE  SInv'
  <2>1. OneAtATime' /\ (\A q \in Requests : q # r => inflight'[q] = Idle)
    BY <1>b, OneAtATimeStep
  <2>2. inflight'[r] = state
    BY <1>b, BecomeOther DEF TInv
  <2>3. ASSUME NEW q \in Requests, Moves(inflight[q])'
        PROVE  (Searched(inflight[q]) /\ (inflight[q].stage = "write" => Checked(inflight[q])))'
    <3>1. q = r
      BY <2>1, <2>3 DEF Moves, Idle
    <3>2. Moves(state)
      BY <2>2, <2>3, <3>1 DEF Moves
    <3>3. locations' = locations /\ Searched(state) /\ (state.stage = "write" => Checked(state))
      BY <3>2, <1>b
    <3> QED BY <2>2, <3>1, <3>3 DEF Searched, Checked, Children
  <2> QED BY <2>1, <2>3 DEF OneAtATime
<1>c. ASSUME NEW r \in Requests, Become(r, Idle), inflight[r] # Idle PROVE SInv'
  BY <1>a, <1>b, <1>c
<1>1. CASE Quiet /\ inflight' = inflight
  BY <1>1, <1>a DEF Quiet, OneAtATime
<1>2. ASSUME NEW r \in Requests, LoadUpdate(r) PROVE SInv'
  <2>1. Quiet /\ locations' = locations
    BY <1>2 DEF LoadUpdate, Begin, Change
  <2>2. PICK i \in DOMAIN locations, x \in Lots \cup {Null, Keep},
             p \in DOMAIN locations \cup {Null, Keep} :
          (p \in {Null, Keep} \/ p # i)
          /\ Become(r, [Idle EXCEPT !.stage = "walk", !.row = i, !.old = locations[i],
                                 !.parent = p, !.asset = x,
                                 !.frontier = IF p \in DOMAIN locations THEN Children(i) ELSE {}])
    BY <1>2 DEF LoadUpdate
  <2> DEFINE state == [Idle EXCEPT !.stage = "walk", !.row = i, !.old = locations[i],
                                   !.parent = p, !.asset = x,
                                   !.frontier = IF p \in DOMAIN locations THEN Children(i) ELSE {}]
  <2>3. /\ state.stage = "walk" /\ state.row = i /\ state.parent = p
        /\ state.seen = {}
        /\ state.frontier = IF p \in DOMAIN locations THEN Children(i) ELSE {}
    BY DEF Idle
  <2> HIDE DEF state
  <2>4. ASSUME Moves(state) PROVE Searched(state)
    <3>1. p \in DOMAIN locations /\ p # i
      BY <2>2, <2>3, <2>4 DEF Moves
    <3> QED BY <2>1, <2>3, <3>1 DEF Searched, Children
  <2>5. state.stage # "write"
    BY <2>3
  <2>6. Become(r, state)
    BY <2>2 DEF state
  <2> QED BY <1>b, <2>1, <2>4, <2>5, <2>6
<1>3. ASSUME NEW r \in Requests, LoadDelete(r) PROVE SInv'
  <2>1. Quiet
    BY <1>3 DEF LoadDelete, Begin, Change
  <2>2. PICK i \in DOMAIN locations : Become(r, [Idle EXCEPT !.stage = "delete", !.row = i])
    BY <1>3 DEF LoadDelete
  <2>3. ~Moves([Idle EXCEPT !.stage = "delete", !.row = i])
    BY DEF Moves, Idle
  <2> QED BY <1>b, <2>1, <2>2, <2>3
<1>4. ASSUME NEW r \in Requests, Walk(r) PROVE SInv'
  <2> DEFINE now == inflight[r]
  <2>1. now.stage = "walk" /\ locations' = locations
    BY <1>4 DEF Walk
  <2>2. PICK n \in now.frontier :
          Become(r, [now EXCEPT !.seen = @ \cup {n}, !.frontier = Expand(@, n)])
    BY <1>4 DEF Walk
  <2> DEFINE state == [now EXCEPT !.seen = @ \cup {n}, !.frontier = Expand(@, n)]
  <2>3. inflight[r] # Idle
    BY <2>1 DEF Idle
  <2>4. /\ state.stage = "walk" /\ state.row = now.row /\ state.parent = now.parent
        /\ state.seen = now.seen \cup {n}
        /\ state.frontier = (now.frontier \ {n}) \cup Children(n)
    BY <2>1 DEF TInv, Requesting, IsRequest, Expand
  <2>5. Become(r, state)
    BY <2>2
  <2> HIDE DEF state
  <2>6. ASSUME Moves(state) PROVE Searched(state)
    <3>1. Moves(now)
      BY <2>1, <2>4, <2>6 DEF Moves
    <3>2. Searched(now)
      BY <3>1
    <3> HIDE DEF now
    <3> QED BY <2>1, <2>2, <2>4, <3>2 DEF Searched, Children
  <2> QED BY <1>b, <2>1, <2>3, <2>4, <2>5, <2>6
<1>5. ASSUME NEW r \in Requests, CheckUpdate(r) PROVE SInv'
  <2> DEFINE now == inflight[r]
             state == [now EXCEPT !.stage = "write"]
  <2>1. /\ now.stage = "walk" /\ now.frontier = {} /\ now.parent \notin now.seen
        /\ Become(r, state) /\ locations' = locations
    BY <1>5 DEF CheckUpdate, Walked, NoCycle
  <2>2. now # Idle
    BY <2>1 DEF Idle
  <2>3. /\ state.stage = "write" /\ state.row = now.row /\ state.parent = now.parent
        /\ state.seen = now.seen /\ state.frontier = now.frontier
    BY DEF TInv, Requesting, IsRequest
  <2> HIDE DEF state
  <2>4. ASSUME Moves(state) PROVE Searched(state) /\ Checked(state)
    <3>1. Searched(now)
      BY <2>1, <2>3, <2>4 DEF Moves
    <3> HIDE DEF now
    <3> QED BY <2>1, <2>3, <3>1 DEF Searched, Checked, Children
  <2> QED BY <1>b, <2>1, <2>2, <2>4
<1>6. ASSUME NEW r \in Requests, LoadChildren(r) PROVE SInv'
  <2> DEFINE below == Subtree(inflight[r].row)
             state == [inflight[r] EXCEPT !.stage = "drop", !.seen = below]
  <2>1. inflight[r].stage = "delete" /\ Become(r, state)
    BY <1>6 DEF LoadChildren
  <2> HIDE DEF below
  <2>2. ~Moves(state)
    BY DEF Moves, TInv, Requesting, IsRequest
  <2>3. inflight[r] # Idle
    BY <2>1 DEF Idle
  <2> HIDE DEF state
  <2> QED BY <1>b, <2>1, <2>2, <2>3
<1>7. ASSUME NEW r \in Requests,
             Refuse(r) \/ CommitUpdate(r) \/ CommitDelete(r) \/ Fail(r)
      PROVE  SInv'
  <2>1. Become(r, Idle)
    BY <1>7 DEF Refuse, CommitUpdate, CommitDelete, Fail
  <2>2. inflight[r] # Idle
    BY <1>7 DEF Refuse, Walked, CommitUpdate, CommitDelete, Fail, Idle
  <2> QED BY <1>c, <2>1, <2>2
<1>8. CASE UNCHANGED vars
  BY <1>8 DEF vars, OneAtATime, Moves, Searched, Checked, Children
<1>9. CASE CreateLocation \/ \E x \in Lots : PlaceLot(x) \/ RemoveLot(x)
  BY <1>1, <1>9 DEF CreateLocation, PlaceLot, RemoveLot, Change
<1> QED BY <1>2, <1>3, <1>4, <1>5, <1>6, <1>7, <1>8, <1>9 DEF Next, Answer

\* What is kept where requests do not overlap: a behaviour stays on its schedule.
OInv == TInv /\ (~overlap => SInv /\ Acyclic)

LEMMA OInvInit == Init => OInv
<1>1. Init => SInv /\ Acyclic
  BY DEF Init, SInv, OneAtATime, Moves, Idle, Acyclic
<1> QED BY <1>1, TInvInit DEF OInv

LEMMA OInvStep == OInv /\ [Next]_vars => OInv'
<1> SUFFICES ASSUME OInv, [Next]_vars PROVE OInv'
  OBVIOUS
<1>1. overlap' = overlap
  BY DEF Next, vars
<1>2. ASSUME ~overlap PROVE SInv' /\ Acyclic'
  BY <1>2, SInvStep, AcyclicStep DEF OInv
<1> QED BY <1>1, <1>2, TInvStep DEF OInv

\* When requests do not overlap, no location ever is under itself, however deep the
\* tree: the breadth-first search meets every descendant before the move is written.
THEOREM MovesMakeNoCycle == Spec => []NoCycles
<1>1. OInv => NoCycles
  BY DEF OInv, NoCycles
<1> QED BY <1>1, OInvInit, OInvStep, PTL DEF Spec

-----------------------------------------------------------------------------
(* The search comes to an end *)

\* What the search has met and what it has yet to expand are apart, and each was
\* met as a child of what was expanded before.
Onward(now) ==
  LET met == now.seen \cup now.frontier
  IN  /\ now.row \in DOMAIN locations /\ met \subseteq DOMAIN locations
      /\ now.seen \cap now.frontier = {}
      /\ \A i \in met : locations[i].parent \in now.seen \cup {now.row}

\* What is met is under the node that the search began with.
Below(now) == now.seen \cup now.frontier \subseteq Subtree(now.row)

WInv ==
  \A r \in Requests :
    inflight[r].stage = "walk" => Onward(inflight[r]) /\ Below(inflight[r])

\* The children of what is expanded next were not met before: else the nodes
\* expanded and the one the search began with would be a set with no way out.
LEMMA ChildrenAreNew ==
  ASSUME Acyclic, NEW now, Onward(now), NEW n \in now.frontier
  PROVE  Children(n) \cap (now.seen \cup {n}) = {}
<1>1. n \notin Children(n)
  <2>1. {n} \in SUBSET DOMAIN locations
    BY DEF Onward
  <2> QED BY <2>1 DEF Acyclic, Children
<1>2. ASSUME NEW c \in Children(n), c \in now.seen PROVE FALSE
  <2> DEFINE S == now.seen \cup {now.row}
  <2>1. n = now.row
    BY <1>2 DEF Onward, Children
  <2>2. S \in SUBSET DOMAIN locations /\ S # {} /\ \A i \in S : locations[i].parent \in S
    BY <2>1 DEF Onward
  <2> HIDE DEF S
  <2> QED BY <2>2 DEF Acyclic
<1> QED BY <1>1, <1>2

LEMMA WInvStep ==
  ASSUME ~overlap
  PROVE  TInv /\ SInv /\ Acyclic /\ WInv /\ [Next]_vars => WInv'
<1> SUFFICES ASSUME TInv, SInv, Acyclic, WInv, [Next]_vars PROVE WInv'
  OBVIOUS
<1>a. ASSUME NEW r \in Requests, NEW state, Become(r, state),
             Quiet \/ inflight[r] # Idle,
             state.stage = "walk" => locations' = locations /\ Onward(state) /\ Below(state)
      PROVE  WInv'
  <2>1. \A q \in Requests : q # r => inflight'[q] = Idle
    BY <1>a, OneAtATimeStep DEF SInv
  <2>2. inflight'[r] = state
    BY <1>a, BecomeOther DEF TInv
  <2>3. Idle.stage # "walk"
    BY DEF Idle
  <2> QED BY <1>a, <2>1, <2>2, <2>3 DEF WInv, Onward, Below, Subtree, Children
<1>1. ASSUME NEW r \in Requests, LoadUpdate(r) PROVE WInv'
  <2>1. Quiet /\ locations' = locations
    BY <1>1 DEF LoadUpdate, Begin, Change
  <2>2. PICK i \in DOMAIN locations, x \in Lots \cup {Null, Keep},
             p \in DOMAIN locations \cup {Null, Keep} :
          Become(r, [Idle EXCEPT !.stage = "walk", !.row = i, !.old = locations[i],
                                 !.parent = p, !.asset = x,
                                 !.frontier = IF p \in DOMAIN locations THEN Children(i) ELSE {}])
    BY <1>1 DEF LoadUpdate
  <2> DEFINE state == [Idle EXCEPT !.stage = "walk", !.row = i, !.old = locations[i],
                                   !.parent = p, !.asset = x,
                                   !.frontier = IF p \in DOMAIN locations THEN Children(i) ELSE {}]
  <2>3. state.row = i /\ state.seen = {} /\ state.frontier \subseteq Children(i)
    BY DEF Idle
  <2>4. Become(r, state)
    BY <2>2
  <2> HIDE DEF state
  <2>5. Onward(state)
    BY <2>3 DEF Onward, Children
  <2>6. Below(state)
    <3>1. Children(i) \subseteq Subtree(i)
      BY SubtreeIsClosed DEF Closed
    <3> QED BY <2>3, <3>1 DEF Below
  <2> QED BY <1>a, <2>1, <2>4, <2>5, <2>6
<1>2. ASSUME NEW r \in Requests, Walk(r) PROVE WInv'
  <2> DEFINE now == inflight[r]
  <2>1. now.stage = "walk" /\ locations' = locations
    BY <1>2 DEF Walk
  <2>2. PICK n \in now.frontier :
          Become(r, [now EXCEPT !.seen = @ \cup {n}, !.frontier = Expand(@, n)])
    BY <1>2 DEF Walk
  <2> DEFINE state == [now EXCEPT !.seen = @ \cup {n}, !.frontier = Expand(@, n)]
  <2>3. inflight[r] # Idle
    BY <2>1 DEF Idle
  <2>4. /\ state.row = now.row
        /\ state.seen = now.seen \cup {n}
        /\ state.frontier = (now.frontier \ {n}) \cup Children(n)
    BY DEF TInv, Requesting, IsRequest, Expand
  <2>5. Become(r, state)
    BY <2>2
  <2>6. Onward(now) /\ Below(now)
    BY <2>1 DEF WInv
  <2>7. Children(n) \cap (now.seen \cup {n}) = {}
    BY <2>6, ChildrenAreNew
  <2> HIDE DEF state, now
  <2>8. Onward(state)
    BY <2>2, <2>4, <2>6, <2>7 DEF Onward, Children
  <2>9. Below(state)
    <3>1. Closed(Subtree(now.row))
      BY <2>6, SubtreeIsClosed DEF Onward
    <3> QED BY <2>2, <2>4, <2>6, <3>1 DEF Below, Closed
  <2> QED BY <1>a, <2>1, <2>3, <2>5, <2>8, <2>9
<1>3. ASSUME NEW r \in Requests, NEW state, Become(r, state), state.stage # "walk",
             Quiet \/ inflight[r] # Idle
      PROVE  WInv'
  BY <1>3, <1>a
<1>4. ASSUME NEW r \in Requests, LoadDelete(r) PROVE WInv'
  <2>1. Quiet
    BY <1>4 DEF LoadDelete, Begin, Change
  <2>2. PICK i \in DOMAIN locations : Become(r, [Idle EXCEPT !.stage = "delete", !.row = i])
    BY <1>4 DEF LoadDelete
  <2>3. [Idle EXCEPT !.stage = "delete", !.row = i].stage # "walk"
    BY DEF Idle
  <2> QED BY <1>3, <2>1, <2>2, <2>3
<1>5. ASSUME NEW r \in Requests, CheckUpdate(r) \/ LoadChildren(r) PROVE WInv'
  <2> DEFINE now == inflight[r]
             below == Subtree(now.row)
  <2>1. now.stage \in {"walk", "delete"}
    BY <1>5 DEF CheckUpdate, Walked, LoadChildren
  <2>2. now # Idle
    BY <2>1 DEF Idle
  <2>3. \/ Become(r, [now EXCEPT !.stage = "write"])
        \/ Become(r, [now EXCEPT !.stage = "drop", !.seen = below])
    BY <1>5 DEF CheckUpdate, LoadChildren
  <2> HIDE DEF below
  <2>4. /\ [now EXCEPT !.stage = "write"].stage # "walk"
        /\ [now EXCEPT !.stage = "drop", !.seen = below].stage # "walk"
    BY DEF TInv, Requesting, IsRequest
  <2> QED BY <1>3, <2>2, <2>3, <2>4
<1>6. ASSUME NEW r \in Requests,
             Refuse(r) \/ CommitUpdate(r) \/ CommitDelete(r) \/ Fail(r)
      PROVE  WInv'
  <2>1. Become(r, Idle)
    BY <1>6 DEF Refuse, CommitUpdate, CommitDelete, Fail
  <2>2. inflight[r] # Idle
    BY <1>6 DEF Refuse, Walked, CommitUpdate, CommitDelete, Fail, Idle
  <2>3. Idle.stage # "walk"
    BY DEF Idle
  <2> QED BY <1>3, <2>1, <2>2, <2>3
<1>7. CASE UNCHANGED vars
  BY <1>7 DEF vars, WInv, Onward, Below, Subtree, Children
<1>8. CASE CreateLocation \/ \E x \in Lots : PlaceLot(x) \/ RemoveLot(x)
  <2>1. Quiet /\ inflight' = inflight
    BY <1>8 DEF CreateLocation, PlaceLot, RemoveLot, Change
  <2> QED BY <2>1 DEF Quiet, Idle, WInv
<1> QED BY <1>1, <1>2, <1>4, <1>5, <1>6, <1>7, <1>8 DEF Next, Answer

\* How many locations a search has not met.
Unmet(r) == Cardinality(DOMAIN locations \ inflight[r].seen)

\* What is kept of a search, where requests do not overlap.
Search == OInv /\ (~overlap => WInv)

LEMMA SearchInit == Init => Search
BY OInvInit DEF Init, WInv, Search, Idle

LEMMA SearchStep == Search /\ [Next]_vars => Search'
<1> SUFFICES ASSUME Search, [Next]_vars PROVE Search'
  OBVIOUS
<1>1. overlap' = overlap
  BY DEF Next, vars
<1>2. ASSUME ~overlap PROVE WInv'
  BY <1>2, WInvStep DEF Search, OInv
<1> QED BY <1>1, <1>2, OInvStep DEF Search

\* When requests do not overlap, each query of get_descendants expands a location
\* that it has not expanded before, though it keeps no set of visited nodes: it
\* ends after as many queries as there are locations, at most.
THEOREM SearchComesToAnEnd ==
  Spec => [][~overlap => \A r \in Requests : Walk(r) => Unmet(r)' < Unmet(r)]_vars
<1> DEFINE Inv == Search
           Step == ~overlap => \A r \in Requests : Walk(r) => Unmet(r)' < Unmet(r)
<1>1. Init => Inv
  BY SearchInit
<1>2. Inv /\ [Next]_vars => Inv'
  BY SearchStep
<1>3. Inv => Step
  <2> SUFFICES ASSUME Inv, ~overlap, NEW r \in Requests, Walk(r) PROVE Unmet(r)' < Unmet(r)
    OBVIOUS
  <2> USE DEF Search, OInv
  <2> DEFINE now == inflight[r]
             rest == DOMAIN locations \ now.seen
  <2>1. now.stage = "walk" /\ locations' = locations
    BY DEF Walk
  <2>2. PICK n \in now.frontier :
          Become(r, [now EXCEPT !.seen = @ \cup {n}, !.frontier = Expand(@, n)])
    BY DEF Walk
  <2> DEFINE state == [now EXCEPT !.seen = @ \cup {n}, !.frontier = Expand(@, n)]
  <2>s. state.seen = now.seen \cup {n}
    BY DEF TInv, Requesting, IsRequest
  <2>b. Become(r, state)
    BY <2>2
  <2> HIDE DEF state
  <2>3. inflight'[r].seen = now.seen \cup {n}
    BY <2>s, <2>b, BecomeOther DEF TInv
  <2>4. n \in rest
    BY <2>1 DEF WInv, Onward
  <2>5. DOMAIN locations' \ inflight'[r].seen = rest \ {n}
    BY <2>1, <2>3
  <2>6. IsFiniteSet(rest)
    <3>1. IsFiniteSet(1 .. MaxLocation)
      BY TreeConstants, FS_Interval
    <3>2. rest \subseteq 1 .. MaxLocation
      BY DEF TInv, TypeOK, Locations
    <3> QED BY <3>1, <3>2, FS_Subset
  <2>7. Cardinality(rest \ {n}) = Cardinality(rest) - 1
    BY <2>4, <2>6, FS_RemoveElement
  <2>8. Cardinality(rest) \in Nat
    BY <2>6, FS_CardinalityType
  <2>9. Unmet(r) = Cardinality(rest) /\ Unmet(r)' = Cardinality(rest \ {n})
    BY <2>5 DEF Unmet
  <2> HIDE DEF rest
  <2> QED BY <2>7, <2>8, <2>9
<1> HIDE DEF Inv, Step
<1>4. Spec => [][Step]_vars
  BY <1>1, <1>2, <1>3, PTL DEF Spec
<1> QED BY <1>4 DEF Step

\* When requests do not overlap, a move passes the check only if the new parent is
\* not under the node, and is refused for its parent only if it is: what the search
\* has met at its end is all that is under the node, and nothing else.
THEOREM SearchJudgesMoves == Spec => MovesJudged
<1> DEFINE Judged(r) ==
             LET now == inflight[r]
                 below == now.parent \in Subtree(now.row)
             IN  now.parent \notin {Null, Keep} =>
                   /\ CheckUpdate(r) => ~below
                   /\ Refuse(r) /\ Linkable(now) => below
           Step == ~overlap => \A r \in Requests : Judged(r)
<1>1. Search => Step
  <2> SUFFICES ASSUME Search, ~overlap, NEW r \in Requests, Walked(r),
                      inflight[r].parent \notin {Null, Keep}
               PROVE  inflight[r].parent \in Subtree(inflight[r].row)
                        <=> inflight[r].parent \in inflight[r].seen
    BY DEF CheckUpdate, Refuse, NoCycle
  <2> DEFINE now == inflight[r]
             D == now.seen \cup {now.row}
  <2>1. now.stage = "walk" /\ now.frontier = {}
    BY DEF Walked
  <2>2. Searched(now) /\ Onward(now) /\ Below(now)
    BY <2>1 DEF Search, OInv, SInv, WInv, Moves
  <2>3. now.row \in D /\ D \in SUBSET DOMAIN locations /\ Closed(D)
    BY <2>1, <2>2 DEF Searched, Onward, Closed
  <2> HIDE DEF D
  <2>4. Subtree(now.row) \subseteq D
    BY <2>2, <2>3, SubtreeIsLeast DEF Onward
  <2>5. now.seen \subseteq Subtree(now.row) /\ now.parent # now.row
    BY <2>2 DEF Below, Searched
  <2> QED BY <2>4, <2>5 DEF D
<1> HIDE DEF Step
<1>2. Spec => [][Step]_vars
  BY <1>1, SearchInit, SearchStep, PTL DEF Spec
<1> QED BY <1>2 DEF Step, MovesJudged

-----------------------------------------------------------------------------
(* The categories' tree *)

\* What the invariants of the tree are about.
table == <<locations, lots, inflight, overlap>>

\* A step of the categories is one of the tree, or counts one request more.
LEMMA StepIsTreeStep ==
  ASSUME [CategoryNext]_categoryVars
  PROVE  [Next]_vars \/ UNCHANGED table
<1>o. overlap' = overlap
  BY DEF CategoryNext, categoryVars, vars
<1>1. CASE CreateCategory
  BY <1>o, <1>1 DEF CreateCategory, Next
<1>2. ASSUME NEW r \in Requests, UpdateCategory(r) \/ DeleteCategory(r) \/ FailCategory(r)
      PROVE  Next
  BY <1>o, <1>2 DEF UpdateCategory, DeleteCategory, FailCategory, Next, Answer
<1>3. ASSUME NEW d \in Definitions, Classify(d) \/ DeleteDefinition(d)
      PROVE  UNCHANGED table
  BY <1>o, <1>3 DEF Classify, DeleteDefinition, table
<1>4. CASE UNCHANGED categoryVars
  BY <1>4 DEF categoryVars, vars, table
<1>5. QED BY <1>1, <1>2, <1>3, <1>4 DEF CategoryNext

LEMMA OInvOfNext ==
  ASSUME OInv, [CategoryNext]_categoryVars
  PROVE  OInv'
<1>1. CASE [Next]_vars
  BY <1>1, OInvStep
<1>2. CASE UNCHANGED table
  BY <1>2 DEF table, OInv, TInv, TypeOK, Requesting, IsRequest, SInv,
       OneAtATime, Moves, Searched, Checked, Children, Acyclic
<1>3. QED BY <1>1, <1>2, StepIsTreeStep

-----------------------------------------------------------------------------
(* Where a category is in a tree without cycles *)

USE DEF categories

RowsOK ==
  /\ Null \notin DOMAIN categories
  /\ \A i \in DOMAIN categories : categories[i].parent \in DOMAIN categories \cup {Null}

\* Nothing but n itself gets into its subtree from outside.
LEMMA SubtreeEntry ==
  ASSUME RowsOK, NEW n \in DOMAIN categories, NEW k \in Subtree(n), k # n
  PROVE  categories[k].parent \in Subtree(n)
<1> DEFINE S == Subtree(n) \ {k}
<1>1. k \in DOMAIN categories
  BY SubtreeIsClosed
<1>2. SUFFICES ASSUME categories[k].parent \notin Subtree(n) PROVE FALSE
  OBVIOUS
<1>3. \A i \in S : k \notin Children(i)
  BY <1>2 DEF Children
<1>4. Closed(S)
  BY <1>3, SubtreeIsClosed DEF Closed
<1>5. n \in S /\ S \in SUBSET DOMAIN categories
  BY SubtreeIsClosed
<1> HIDE DEF S
<1>6. Subtree(n) \subseteq S
  BY <1>4, <1>5, SubtreeIsLeast
<1>7. QED BY <1>6 DEF S

LEMMA RootsAreApart ==
  ASSUME RowsOK, NEW c \in Roots, NEW e \in Roots, c # e
  PROVE  Subtree(c) \cap Subtree(e) = {}
<1> DEFINE S == DOMAIN categories \ Subtree(e)
<1>1. c \in DOMAIN categories /\ e \in DOMAIN categories /\ categories[c].parent = Null
  BY DEF Roots
<1>2. c \notin Subtree(e)
  BY <1>1, SubtreeEntry, SubtreeIsClosed DEF RowsOK
<1>3. Closed(S)
  <2>1. ASSUME NEW i \in S, NEW k \in Children(i), k \in Subtree(e) PROVE FALSE
    <3>1. k # e
      BY <2>1 DEF Children, Roots, RowsOK
    <3>2. categories[k].parent \in Subtree(e)
      BY <1>1, <2>1, <3>1, SubtreeEntry
    <3>3. QED BY <2>1, <3>2 DEF Children
  <2>2. QED BY <2>1 DEF Closed, Children
<1>4. Subtree(c) \subseteq S
  <2>1. c \in S
    BY <1>1, <1>2
  <2> HIDE DEF S
  <2>2. S \in SUBSET DOMAIN categories
    BY DEF S
  <2>3. QED BY <1>1, <1>3, <2>1, <2>2, SubtreeIsLeast
<1>5. QED BY <1>4

\* The set of what is under no root would have no way out.
LEMMA UnderSomeRoot ==
  ASSUME RowsOK, Acyclic, NEW i \in DOMAIN categories
  PROVE  \E c \in Roots : i \in Subtree(c)
<1> DEFINE S == {j \in DOMAIN categories : \A c \in Roots : j \notin Subtree(c)}
<1>1. SUFFICES ASSUME i \in S PROVE FALSE
  OBVIOUS
<1>2. PICK j \in S : categories[j].parent \notin S
  BY <1>1 DEF Acyclic
<1>3. CASE categories[j].parent = Null
  BY <1>2, <1>3, SubtreeIsClosed DEF Roots
<1>4. CASE categories[j].parent \in DOMAIN categories
  <2>1. PICK c \in Roots : categories[j].parent \in Subtree(c)
    BY <1>2, <1>4
  <2>2. j \in Subtree(c)
    BY <2>1, SubtreeIsClosed DEF Closed, Children, Roots
  <2>3. QED BY <2>2
<1>5. QED BY <1>2, <1>3, <1>4 DEF RowsOK

LEMMA OneRoot ==
  ASSUME RowsOK, Acyclic, NEW i \in DOMAIN categories
  PROVE  Cardinality({c \in Roots : i \in Subtree(c)}) = 1
<1>1. PICK c \in Roots : i \in Subtree(c)
  BY UnderSomeRoot
<1>2. {e \in Roots : i \in Subtree(e)} = {c}
  BY <1>1, RootsAreApart
<1>3. QED BY <1>2, FS_Singleton

LEMMA ParentHoldsChild ==
  ASSUME RowsOK, NEW c \in DOMAIN categories, categories[c].parent # Null
  PROVE  Subtree(c) \subseteq Subtree(categories[c].parent)
<1>1. categories[c].parent \in DOMAIN categories
  BY DEF RowsOK
<1>2. c \in Subtree(categories[c].parent)
  BY <1>1, SubtreeIsClosed DEF Closed, Children
<1>3. QED BY <1>1, <1>2, SubtreeIsClosed, SubtreeIsLeast

-----------------------------------------------------------------------------
(* The definitions *)

LEMMA FiledOfNext ==
  ASSUME Filed, [CategoryNext]_categoryVars
  PROVE  Filed'
<1>1. CASE CreateCategory
  BY <1>1 DEF CreateCategory, CreateLocation, Filed
<1>2. ASSUME NEW r \in Requests, UpdateCategory(r) PROVE Filed'
  <2>1. DOMAIN categories' = DOMAIN categories
    BY <1>2 DEF UpdateCategory, LoadUpdate, Walk, CheckUpdate, Refuse, CommitUpdate
  <2>2. QED BY <1>2, <2>1 DEF UpdateCategory, Filed
<1>3. ASSUME NEW r \in Requests, DeleteCategory(r) PROVE Filed'
  BY <1>3 DEF DeleteCategory
<1>4. ASSUME NEW r \in Requests, FailCategory(r) PROVE Filed'
  BY <1>4 DEF FailCategory, Fail, Filed
<1>5. ASSUME NEW d \in Definitions, Classify(d) PROVE Filed'
  BY <1>5 DEF Classify, Filed
<1>6. ASSUME NEW d \in Definitions, DeleteDefinition(d) PROVE Filed'
  BY <1>6 DEF DeleteDefinition, Filed
<1>7. CASE UNCHANGED categoryVars
  BY <1>7 DEF categoryVars, vars, Filed
<1>8. QED BY <1>1, <1>2, <1>3, <1>4, <1>5, <1>6, <1>7 DEF CategoryNext

\* Each category is under one root, and each definition is found there and under
\* every category above its own, after any number of creations, moves and deletes
\* that do not overlap, in trees of any size.
THEOREM EveryItemStaysFiled == CategorySpec => []EveryItemIsFiled
<1>1. ASSUME OInv, Filed PROVE EveryItemIsFiled
  <2>1. RowsOK
    BY <1>1, TreeConstants DEF RowsOK, OInv, TInv, TypeOK, Locations
  <2>2. SUFFICES ASSUME ~overlap PROVE EveryItemIsFiled
    BY DEF EveryItemIsFiled
  <2>3. Acyclic
    BY <1>1, <2>2 DEF OInv
  <2>4. \A i \in DOMAIN categories :
          /\ categories[i].parent \in DOMAIN categories \cup {Null}
          /\ Cardinality({c \in Roots : i \in Subtree(c)}) = 1
    BY <2>1, <2>3, OneRoot DEF RowsOK
  <2>5. ASSUME NEW d \in DOMAIN definitions, definitions[d] # Null
        PROVE  /\ definitions[d] \in DOMAIN categories
               /\ Cardinality({c \in Roots : d \in Listed(c)}) = 1
               /\ \A c \in DOMAIN categories :
                    d \in Listed(c) /\ categories[c].parent # Null => d \in Listed(categories[c].parent)
    <3>1. definitions[d] \in DOMAIN categories
      BY <1>1, <2>5 DEF Filed
    <3>2. \A c : d \in Listed(c) <=> definitions[d] \in Subtree(c)
      BY DEF Listed
    <3>3. {c \in Roots : d \in Listed(c)} = {c \in Roots : definitions[d] \in Subtree(c)}
      BY <3>2
    <3>4. QED BY <2>1, <2>4, <3>1, <3>2, <3>3, ParentHoldsChild
  <2>6. QED BY <2>2, <2>4, <2>5 DEF EveryItemIsFiled
<1>2. CategoryInit => Filed
  BY DEF CategoryInit, Filed
<1>3. QED BY <1>1, <1>2, OInvInit, OInvOfNext, FiledOfNext, PTL DEF CategorySpec, CategoryInit
=============================================================================

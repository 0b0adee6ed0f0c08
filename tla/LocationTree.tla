---------------------------- MODULE LocationTree ----------------------------
(***************************************************************************)
(* The location tree: locations under locations, lots placed in locations,  *)
(* and a location that is itself a tracked lot (its item_instance_id).      *)
(*                                                                          *)
(* A PATCH reads the descendants of the location it moves, one query per    *)
(* node, and a DELETE reads its guards, before either writes; every read is *)
(* a transaction of its own.  The writes of a request and its commit are    *)
(* one step, under SQLite's writer lock.  The foreign keys and the unique   *)
(* index are checked by the write itself.                                   *)
(*                                                                          *)
(* The category tree shares the mixin with the guards and has neither lots  *)
(* nor links: it is this tree with Lots = {}.                               *)
(*                                                                          *)
(* Abstracted: names, and the attachments, tags and notes of a location.    *)
(***************************************************************************)
EXTENDS Integers

CONSTANTS
  MaxLocation,  \* bound on location ids
  Lots,         \* ids of lots
  Requests,     \* the requests that may be in progress at once
  Schedules,    \* {FALSE}: one request at a time; {TRUE}: threads interleave
  MaxChanges,   \* bound on the requests
  Null,
  Keep          \* a field that a PATCH does not set

ASSUME TreeConstants ==
  /\ MaxLocation \in Nat /\ MaxChanges \in Nat /\ Schedules \subseteq BOOLEAN
  /\ Null \notin Nat /\ Keep \notin Nat /\ Null # Keep
  /\ Null \notin Lots /\ Keep \notin Lots

VARIABLES
  locations,  \* rows: id -> parent_id and item_instance_id
  lots,       \* existing lots -> location_id
  inflight,   \* per request, where it is
  changes,    \* how much of the bound is used
  overlap     \* whether requests may be in progress together, in this behaviour

vars == <<locations, lots, inflight, changes, overlap>>

Locations == 1 .. MaxLocation

\* A request: the row it loaded, its columns then, the values to set, and the
\* two ends of the breadth-first search: nodes met and nodes still to expand.
Idle == [stage |-> "idle", row |-> 0, old |-> [parent |-> Null, asset |-> Null],
         parent |-> Keep, asset |-> Keep, seen |-> {}, frontier |-> {}]

-----------------------------------------------------------------------------
(* Queries and guards *)

Children(n) == {i \in DOMAIN locations : locations[i].parent = n}

LotsAt(n) == {x \in DOMAIN lots : lots[x] = n}

\* n with all that is under it: the smallest set that has n and the children of
\* its members.
Subtree(n) ==
  LET ids == DOMAIN locations \cup {n}
  IN  {j \in ids : \A S \in SUBSET ids :
         n \in S /\ (\A i \in S : Children(i) \subseteq S) => j \in S}

\* Mutant: the search stops at the children.
Expand_ChildrenOnly(frontier, n) == frontier \ {n}

\* One turn of get_descendants.  It keeps no set of visited nodes: what is met
\* twice is expanded twice.
Expand(frontier, n) == (frontier \ {n}) \cup Children(n)

\* Mutant: _assert_no_cycle is not called.
NoCycle_Unchecked(now) == TRUE

\* Mutant: to be moved to where it is counts as a cycle.
NoCycle_OldParent(now) == now.parent \notin now.seen \cup {now.old.parent}

\* _assert_no_cycle, for a parent other than the node itself
NoCycle(now) == now.parent \notin now.seen

\* _assert_deletable_location
Deletable(i) ==
  /\ Children(i) = {}
  /\ LotsAt(i) = {}
  /\ locations[i].asset = Null

\* No location but i is the lot x.
UniqueAsset(i, x) ==
  \A j \in DOMAIN locations \ {i} : locations[j].asset # x

\* The next row id that SQLite hands out.
IsNext(k) ==
  /\ \A i \in DOMAIN locations : i < k
  /\ k = 1 \/ k - 1 \in DOMAIN locations

-----------------------------------------------------------------------------
(* Requests of one step: their checks are repeated by the foreign keys *)

Quiet == \A r \in Requests : inflight[r] = Idle

Change ==
  /\ changes < MaxChanges
  /\ changes' = changes + 1
  /\ ~overlap => Quiet

\* POST /locations
CreateLocation ==
  /\ Change
  /\ \E k \in Locations, p \in DOMAIN locations \cup {Null} :
       /\ IsNext(k)
       /\ locations' = [i \in DOMAIN locations \cup {k} |->
                          IF i = k THEN [parent |-> p, asset |-> Null] ELSE locations[i]]
  /\ UNCHANGED <<lots, inflight>>

\* A lot is created in a location or nowhere, or moved there.
PlaceLot(x) ==
  /\ Change
  /\ \E i \in DOMAIN locations \cup {Null} :
       lots' = [y \in DOMAIN lots \cup {x} |-> IF y = x THEN i ELSE lots[y]]
  /\ UNCHANGED <<locations, inflight>>

\* Mutant: the foreign key of item_instance_id lacks ON DELETE SET NULL.
RemoveLot_KeepsLink(x) ==
  /\ Change
  /\ x \in DOMAIN lots
  /\ lots' = [y \in DOMAIN lots \ {x} |-> lots[y]]
  /\ UNCHANGED <<locations, inflight>>

\* A lot is deleted.  A location that was this lot is no lot any more.
RemoveLot(x) ==
  /\ Change
  /\ x \in DOMAIN lots
  /\ lots' = [y \in DOMAIN lots \ {x} |-> lots[y]]
  /\ locations' = [i \in DOMAIN locations |->
                     IF locations[i].asset = x THEN [locations[i] EXCEPT !.asset = Null]
                     ELSE locations[i]]
  /\ UNCHANGED inflight

-----------------------------------------------------------------------------
(* PATCH /locations/{id} *)

Begin(r) == inflight[r] = Idle /\ Change

Become(r, state) == inflight' = [inflight EXCEPT ![r] = state]

\* The row, the parent if one is named, and for a move the first children query.
LoadUpdate(r) ==
  /\ Begin(r)
  /\ \E i \in DOMAIN locations, x \in Lots \cup {Null, Keep} :
       \E p \in (DOMAIN locations \ {i}) \cup {Null, Keep} :
         Become(r, [Idle EXCEPT !.stage = "walk", !.row = i, !.old = locations[i],
                                !.parent = p, !.asset = x,
                                !.frontier = IF p \in DOMAIN locations THEN Children(i) ELSE {}])
  /\ UNCHANGED <<locations, lots>>

Walk(r) ==
  LET now == inflight[r]
  IN  /\ now.stage = "walk"
      /\ \E n \in now.frontier :
           Become(r, [now EXCEPT !.seen = @ \cup {n}, !.frontier = Expand(@, n)])
      /\ UNCHANGED <<locations, lots, changes>>

Walked(r) == inflight[r].stage = "walk" /\ inflight[r].frontier = {}

\* _assert_instance_exists and _assert_instance_id_unique
Linkable(now) == now.asset \in Lots => now.asset \in DOMAIN lots /\ UniqueAsset(now.row, now.asset)

CheckUpdate(r) ==
  /\ Walked(r)
  /\ NoCycle(inflight[r])
  /\ Linkable(inflight[r])
  /\ Become(r, [inflight[r] EXCEPT !.stage = "write"])
  /\ UNCHANGED <<locations, lots, changes>>

Refuse(r) ==
  /\ Walked(r)
  /\ ~(NoCycle(inflight[r]) /\ Linkable(inflight[r]))
  /\ Become(r, Idle)
  /\ UNCHANGED <<locations, lots, changes>>

\* A column is written only when its value differs from the one loaded.
Set(current, old, new) == IF new \in {Keep, old} THEN current ELSE new

Updated(now) ==
  [parent |-> Set(locations[now.row].parent, now.old.parent, now.parent),
   asset  |-> Set(locations[now.row].asset, now.old.asset, now.asset)]

CommitUpdate(r) ==
  LET now == inflight[r]
      row == Updated(now)
  IN  /\ now.stage = "write"
      /\ now.row \in DOMAIN locations
      /\ row.parent \in DOMAIN locations \cup {Null}
      /\ row.asset # Null => row.asset \in DOMAIN lots /\ UniqueAsset(now.row, row.asset)
      /\ locations' = [locations EXCEPT ![now.row] = row]
      /\ Become(r, Idle)
      /\ UNCHANGED <<lots, changes>>

-----------------------------------------------------------------------------
(* DELETE /locations/{id} *)

LoadDelete(r) ==
  /\ Begin(r)
  /\ \E i \in DOMAIN locations :
       Deletable(i) /\ Become(r, [Idle EXCEPT !.stage = "delete", !.row = i])
  /\ UNCHANGED <<locations, lots>>

\* Session.delete loads the children, and theirs: the relationship cascades
\* ("all, delete-orphan").
LoadChildren(r) ==
  /\ inflight[r].stage = "delete"
  /\ Become(r, [inflight[r] EXCEPT !.stage = "drop", !.seen = Subtree(inflight[r].row)])
  /\ UNCHANGED <<locations, lots, changes>>

\* The rows go by id; a child that is not among them stops the delete, a lot
\* placed there is left nowhere.
CommitDelete(r) ==
  LET gone == inflight[r].seen
      rest == DOMAIN locations \ gone
  IN  /\ inflight[r].stage = "drop"
      /\ \A i \in rest : locations[i].parent \notin gone
      /\ locations' = [i \in rest |-> locations[i]]
      /\ lots' = [x \in DOMAIN lots |-> IF lots[x] \in gone THEN Null ELSE lots[x]]
      /\ Become(r, Idle)
      /\ UNCHANGED changes

\* A lock timeout, a constraint that fails, an error or a crash.
Fail(r) ==
  /\ inflight[r] # Idle
  /\ Become(r, Idle)
  /\ UNCHANGED <<locations, lots, changes>>

-----------------------------------------------------------------------------
Init ==
  /\ locations = <<>>
  /\ lots = <<>>
  /\ inflight = [r \in Requests |-> Idle]
  /\ changes = 0
  /\ overlap \in Schedules

Answer(r) == Walk(r) \/ CheckUpdate(r) \/ Refuse(r) \/ CommitUpdate(r) \/ LoadChildren(r) \/ CommitDelete(r)

Next ==
  /\ \/ CreateLocation
     \/ \E x \in Lots : PlaceLot(x) \/ RemoveLot(x)
     \/ \E r \in Requests : LoadUpdate(r) \/ LoadDelete(r) \/ Answer(r) \/ Fail(r)
  /\ UNCHANGED overlap

Spec == Init /\ [][Next]_vars

\* A request in progress goes on.
FairSpec == Spec /\ \A r \in Requests : WF_vars(Answer(r))

-----------------------------------------------------------------------------
(* Properties *)

\* Rows keep their types and keys: every parent, placement and link exists, and a
\* lot is at most one location, also where a child comes or a lot is placed between
\* the guards of a delete and the delete, or two requests link a lot they saw free.
TypeOK ==
  /\ DOMAIN locations \subseteq Locations /\ DOMAIN lots \subseteq Lots /\ overlap \in BOOLEAN
  /\ \A i \in DOMAIN locations :
       /\ locations[i] = [parent |-> locations[i].parent, asset |-> locations[i].asset]
       /\ locations[i].parent \in DOMAIN locations \cup {Null}
       /\ locations[i].asset \in DOMAIN lots \cup {Null}
  /\ \A i, j \in DOMAIN locations :
       locations[i].asset # Null /\ locations[i].asset = locations[j].asset => i = j
  /\ \A x \in DOMAIN lots : lots[x] \in DOMAIN locations \cup {Null}

\* In every set of locations there is one whose parent is outside the set.
Acyclic ==
  \A S \in SUBSET DOMAIN locations :
    S # {} => \E i \in S : locations[i].parent \notin S

\* As long as requests do not overlap, no location is under itself, after any moves
\* and deletions: _build_tree would show none of a cycle.
NoCycles == ~overlap => Acyclic

\* Moves are judged rightly, as long as requests do not overlap: a move passes
\* _assert_no_cycle, which asks for the children of one node after the other, only
\* if the new parent is not under the node, at any depth, and is refused for its
\* parent only if it is.
MovesJudged ==
  [][~overlap => \A r \in Requests :
       LET now == inflight[r]
           below == now.parent \in Subtree(now.row)
       IN  now.parent \notin {Null, Keep} =>
             /\ CheckUpdate(r) => ~below
             /\ Refuse(r) /\ Linkable(now) => below]_vars

\* The search for descendants, get_descendants, keeps no set of visited nodes and yet
\* ends, as long as requests do not overlap.
WalkEnds ==
  \A r \in Requests : ~overlap /\ inflight[r].stage = "walk" ~> inflight[r].stage # "walk"
=============================================================================

------------------------------ MODULE MCTrees ------------------------------
(***************************************************************************)
(* The two trees, for TLC in one run: a behaviour is one of the locations   *)
(* or one of the categories, and either of one request at a time or of two  *)
(* that overlap, on a smaller tree.                                         *)
(***************************************************************************)
EXTENDS CategoryTree

CONSTANTS
  Alone,         \* the request that is used when requests do not overlap
  FewLocations,  \* bounds on overlapping behaviours
  FewChanges

VARIABLE part  \* the tree that is used

TreesInit == CategoryInit /\ part \in {"locations", "categories"}

Bounded ==
  IF overlap THEN DOMAIN locations \subseteq 1 .. FewLocations /\ changes <= FewChanges
  ELSE \A r \in Requests \ {Alone} : inflight[r] = Idle

TreesNext ==
  /\ \/ part = "locations" /\ Next /\ UNCHANGED definitions
     \/ part = "categories" /\ CategoryNext
  /\ UNCHANGED part
  /\ Bounded'

\* The fairness is that of LocationTree, where the foreign key lets a request go on.
TreesSpec ==
  /\ TreesInit /\ [][TreesNext]_<<part, categoryVars>>
  /\ \A r \in Requests : WF_vars(Answer(r) /\ UNCHANGED <<overlap, definitions>> /\ Filed')
=============================================================================

---------------------------- MODULE CategoryTree ----------------------------
(***************************************************************************)
(* The category tree, and the item definitions classified by it.            *)
(*                                                                          *)
(* Categories share the guards, the cascade of a delete and the races of    *)
(* the location tree: this is that tree, without lots.  A definition names  *)
(* a category by a foreign key that restricts its deletion.                 *)
(***************************************************************************)
EXTENDS LocationTree, FiniteSets

CONSTANT Definitions  \* ids of definitions

VARIABLE definitions  \* existing definitions -> category_id

\* The rows of the tree: id -> parent_id.
categories == locations

categoryVars == <<vars, definitions>>

-----------------------------------------------------------------------------
(* Queries *)

\* _build_tree starts from the roots.
Roots == {i \in DOMAIN categories : categories[i].parent = Null}

\* Mutant: only the category itself is asked for.
Listed_Direct(c) == {d \in DOMAIN definitions : definitions[d] = c}

\* The definitions of a category and of all that is under it.
Listed(c) == {d \in DOMAIN definitions : definitions[d] \in Subtree(c)}

\* The foreign key of a definition.
Filed == \A d \in DOMAIN definitions : definitions[d] \in DOMAIN categories \cup {Null}

-----------------------------------------------------------------------------
(* Requests *)

CreateCategory == CreateLocation /\ UNCHANGED definitions

\* The parent is looked up, the search below the category made query by query.
UpdateCategory(r) ==
  /\ \/ LoadUpdate(r) /\ inflight'[r].asset = Keep
     \/ Walk(r) \/ CheckUpdate(r) \/ Refuse(r) \/ CommitUpdate(r)
  /\ UNCHANGED definitions

\* Only the children are asked for.  That a definition names the category, or one
\* that it takes along, is left to the foreign key, and ends the request.
DeleteCategory(r) ==
  /\ LoadDelete(r) \/ LoadChildren(r) \/ CommitDelete(r)
  /\ UNCHANGED definitions
  /\ Filed'

FailCategory(r) == Fail(r) /\ UNCHANGED definitions

\* POST /definitions, or a PATCH of category_id
Classify(d) ==
  /\ Change
  /\ \E c \in DOMAIN categories \cup {Null} :
       definitions' = [e \in DOMAIN definitions \cup {d} |-> IF e = d THEN c ELSE definitions[e]]
  /\ UNCHANGED <<locations, lots, inflight>>

DeleteDefinition(d) ==
  /\ Change
  /\ d \in DOMAIN definitions
  /\ definitions' = [e \in DOMAIN definitions \ {d} |-> definitions[e]]
  /\ UNCHANGED <<locations, lots, inflight>>

-----------------------------------------------------------------------------
CategoryInit == Init /\ definitions = <<>>

CategoryNext ==
  /\ \/ CreateCategory
     \/ \E r \in Requests : UpdateCategory(r) \/ DeleteCategory(r) \/ FailCategory(r)
     \/ \E d \in Definitions : Classify(d) \/ DeleteDefinition(d)
  /\ UNCHANGED overlap

CategorySpec == CategoryInit /\ [][CategoryNext]_categoryVars

-----------------------------------------------------------------------------
(* Properties *)

\* Whatever was moved and deleted before, one by one, the page of the tree shows
\* each category under one root, no parent and no category of a definition is
\* missing, and a definition is found under one root, and under each category
\* above its own.
EveryItemIsFiled ==
  ~overlap =>
    /\ \A i \in DOMAIN categories :
         /\ categories[i].parent \in DOMAIN categories \cup {Null}
         /\ Cardinality({c \in Roots : i \in Subtree(c)}) = 1
    /\ \A d \in DOMAIN definitions :
         definitions[d] # Null =>
           /\ definitions[d] \in DOMAIN categories
           /\ Cardinality({c \in Roots : d \in Listed(c)}) = 1
           /\ \A c \in DOMAIN categories :
                d \in Listed(c) /\ categories[c].parent # Null => d \in Listed(categories[c].parent)
=============================================================================

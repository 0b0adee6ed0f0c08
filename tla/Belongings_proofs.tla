--------------------------- MODULE Belongings_proofs ---------------------------
(***************************************************************************)
(* Theorems about Belongings, for every set of contents, names, codes and   *)
(* requests and every bound: the keys the database knows, then, for         *)
(* requests that do not overlap, files, owners and names.                   *)
(***************************************************************************)
EXTENDS Belongings, FiniteSetTheorems, TLAPS

-----------------------------------------------------------------------------
(* The inductive type invariant: ids are bounded, and what work carries.    *)

Ids == 1 .. MaxId

RowsNumbered ==
  /\ DOMAIN media \subseteq Ids /\ DOMAIN attachments \subseteq Ids
  /\ DOMAIN tags \subseteq Ids /\ DOMAIN notes \subseteq Ids

\* What is known of any work: the bytes of an upload can be stored and its owner
\* has an id, a name is a name.
WorkOK(w) ==
  /\ w.stage \in {"idle", "write", "commit", "unlink"}
  /\ w.stage = "write" =>
       w = [stage |-> "write", op |-> "upload", owner |-> w.owner, bytes |-> w.bytes, media |-> Null]
  /\ (w.stage = "write" \/ (w.stage = "commit" /\ w.op = "upload")) =>
       w.owner \in Nat /\ w.bytes \in Contents
  /\ w.stage = "commit" /\ w.op \in {"tag", "rename"} => w.name \in Names

Working ==
  /\ inflight = [r \in Requests |-> inflight[r]]
  /\ \A r \in Requests : WorkOK(inflight[r])

TInv == TypeOK /\ RowsNumbered /\ Working

\* Requests one by one: at most one is in progress.
Alone == ~overlap => \A q, r \in Requests : inflight[q] # Idle /\ inflight[r] # Idle => q = r

-----------------------------------------------------------------------------
(* Files, media rows and attachments agree, if requests do not overlap.     *)

\* What the work of a request still says of these tables when it is carried out.
PictureFresh(w) ==
  /\ w.stage = "write" => w.bytes \notin Range(media)
  /\ w.stage = "unlink" => w.bytes \cap Range(media) = {}
  /\ w.stage = "commit" /\ w.op = "upload" =>
       IF w.media = Null THEN w.bytes \in files \ Range(media)
       ELSE w.media \in DOMAIN media /\ media[w.media] = w.bytes
  /\ w.stage = "commit" /\ w.op \in {"detach", "delete owner"} =>
       w.attachments \subseteq DOMAIN attachments /\ w.media = Attached(w.attachments)

\* The bytes of files that have no row yet, or none any more.
Afloat(w) ==
  IF w.stage = "unlink" THEN w.bytes
  ELSE IF w.stage = "commit" /\ w.op = "upload" /\ w.media = Null THEN {w.bytes}
  ELSE {}

AllAfloat == UNION {Afloat(inflight[r]) : r \in Requests}

Pictured ==
  ~overlap =>
    /\ \A a \in DOMAIN attachments : media[attachments[a].media] = attachments[a].bytes
    /\ DOMAIN media = Attached(DOMAIN attachments)
    /\ Range(media) \subseteq files
    /\ ~failed => files \subseteq Range(media) \cup AllAfloat
    /\ \A r \in Requests : PictureFresh(inflight[r])

-----------------------------------------------------------------------------
(* Nothing outlives its owner, if requests do not overlap.                  *)

OwnerFresh(w) ==
  /\ w.stage = "write" => w.owner \in owners
  /\ w.stage = "commit" /\ w.op \in {"upload", "note", "retag"} => w.owner \in owners
  /\ w.stage = "commit" /\ w.op = "delete owner" =>
       /\ w.attachments = AttachmentsOf(w.owner)
       /\ w.links = LinksOf(w.owner)
       /\ w.notes = Of(notes, w.owner)

Owned ==
  ~overlap =>
    /\ \A a \in DOMAIN attachments : attachments[a].owner \in owners
    /\ \A l \in links : l[2] \in owners
    /\ \A n \in DOMAIN notes : notes[n] \in owners
    /\ \A r \in Requests : OwnerFresh(inflight[r])

-----------------------------------------------------------------------------
(* Names differ, if requests do not overlap.                                *)

\* No other tag than t has this name.
Free(name, t) == \A u \in DOMAIN tags \ {t} : Folded(tags[u]) # Folded(name)

NameFresh(w) ==
  /\ w.stage = "commit" /\ w.op = "tag" => Free(w.name, Null)
  /\ w.stage = "commit" /\ w.op = "rename" => Free(w.name, w.tag)

NamesHeld ==
  ~overlap =>
    /\ \A t, u \in DOMAIN tags : Folded(tags[t]) = Folded(tags[u]) => t = u
    /\ \A r \in Requests : NameFresh(inflight[r])


-----------------------------------------------------------------------------
(* The operators *)

\* A non-empty set of naturals has a least element.
LEMMA LeastExists ==
  ASSUME NEW T, T \subseteq Nat, T # {}
  PROVE  \E i \in T : \A j \in T : i <= j
<1>1. PICK x \in T : \A y \in T : <<y, x>> \notin OpToRel(<, Nat)
  BY NatLessThanWellFounded, WFMin
<1>2. \A y \in T : ~(y < x)
  BY <1>1 DEF OpToRel
<1>3. QED
  BY <1>2

\* A bounded one has a greatest element, the least of its bounds.
LEMMA GreatestExists ==
  ASSUME NEW n \in Nat, NEW T, T \subseteq 0 .. n, T # {}
  PROVE  \E i \in T : \A j \in T : j <= i
<1> DEFINE Bounds == {m \in Nat : \A j \in T : j <= m}
<1>1. PICK m \in Bounds : \A k \in Bounds : m <= k
  <2>1. n \in Bounds
    OBVIOUS
  <2> HIDE DEF Bounds
  <2>2. Bounds \subseteq Nat
    BY DEF Bounds
  <2>3. QED BY <2>1, <2>2, LeastExists
<1>2. m \in T
  <2>1. SUFFICES ASSUME m \notin T PROVE FALSE
    OBVIOUS
  <2>2. \A j \in T : j \in Nat /\ j < m
    BY <2>1
  <2>3. \E j \in T : j \in Nat /\ j < m
    BY <2>2
  <2>4. m - 1 \in Nat /\ \A j \in T : j <= m - 1
    BY <2>2, <2>3
  <2>5. QED BY <1>1, <2>4
<1>3. QED BY <1>1, <1>2

\* An id that is in use is never handed out.
LEMMA NewIdFresh ==
  ASSUME NEW ids, ids \subseteq Ids
  PROVE  NewId(ids) \in Nat \ {0} /\ NewId(ids) \notin ids
<1> DEFINE T == ids \cup {0}
<1>1. T \subseteq 0 .. MaxId /\ T # {} /\ MaxId \in Nat
  BY BelongingConstants DEF Ids
<1> HIDE DEF T
<1>2. \E i \in T : \A j \in T : j <= i
  BY <1>1, GreatestExists
<1>3. \E i \in T : \A j \in T : i >= j
  BY <1>1, <1>2
<1>4. Max(T) \in T /\ \A j \in T : Max(T) >= j
  BY <1>3 DEF Max
<1>5. Max(T) \in Nat /\ (\A j \in ids : j \in Nat /\ Max(T) >= j)
  BY <1>1, <1>4 DEF T
<1>6. NewId(ids) = Max(T) + 1
  BY DEF NewId, T
<1>7. QED BY <1>5, <1>6

LEMMA BecomeMeans ==
  ASSUME Working, NEW r \in Requests, NEW work, Become(r, work)
  PROVE  /\ inflight' = [q \in Requests |-> inflight'[q]]
         /\ inflight'[r] = work
         /\ \A q \in Requests : q # r => inflight'[q] = inflight[q]
BY DEF Become, Working

LEMMA WorkingAfter ==
  ASSUME Working, NEW r \in Requests, NEW work, Become(r, work), WorkOK(work)
  PROVE  Working'
BY BecomeMeans DEF Working

LEMMA IdleOK == WorkOK(Idle) /\ Idle.stage = "idle"
BY DEF WorkOK, Idle

\* A request that has begun has prepared work, which it may go on with.
LEMMA LoadMeans ==
  ASSUME TInv, NEW r \in Requests, NEW work, Load(r, work), WorkOK(work)
  PROVE  /\ Become(r, work) /\ inflight[r] = Idle /\ (~overlap => Quiet)
         /\ UNCHANGED <<owners, pictures, files, labels, failed, overlap>>
         /\ TInv'
<1>1. /\ Become(r, work) /\ inflight[r] = Idle /\ (~overlap => Quiet)
      /\ UNCHANGED <<owners, pictures, files, labels, failed, overlap>>
  BY DEF Load
<1>2. Working'
  BY <1>1, WorkingAfter DEF TInv
<1>3. TypeOK' /\ RowsNumbered'
  BY <1>1 DEF TInv, TypeOK, RowsNumbered, pictures, labels, Attachment
<1>4. QED BY <1>1, <1>2, <1>3 DEF TInv

\* The works that requests prepare.
UploadWork(w) ==
  /\ w.op = "upload" /\ w.owner \in owners /\ w.bytes \in Contents
  /\ \/ /\ w = [stage |-> "write", op |-> "upload", owner |-> w.owner, bytes |-> w.bytes, media |-> Null]
        /\ Of(media, w.bytes) = {}
     \/ w.stage = "commit" /\ w.media \in Of(media, w.bytes)

LEMMA LoadUploadMeans ==
  ASSUME TInv, NEW r \in Requests, LoadUpload(r)
  PROVE  \E w : Load(r, w) /\ UploadWork(w) /\ WorkOK(w)
<1>1. PICK o \in owners, c \in Contents :
        Load(r, IF Of(media, c) = {}
                THEN [stage |-> "write", op |-> "upload", owner |-> o, bytes |-> c, media |-> Null]
                ELSE [stage |-> "commit", op |-> "upload", owner |-> o, bytes |-> c,
                      media |-> CHOOSE m \in Of(media, c) : TRUE])
  BY Zenon DEF LoadUpload
<1>2. o \in Nat
  BY BelongingConstants DEF TInv, TypeOK
<1>3. CASE Of(media, c) = {}
  <2> DEFINE w == [stage |-> "write", op |-> "upload", owner |-> o, bytes |-> c, media |-> Null]
  <2>1. w.stage = "write" /\ w.op = "upload" /\ w.owner = o /\ w.bytes = c
    OBVIOUS
  <2>2. Load(r, w)
    BY <1>1, <1>3
  <2> HIDE DEF w
  <2>3. w = [stage |-> "write", op |-> "upload", owner |-> w.owner, bytes |-> w.bytes, media |-> Null]
    BY <2>1 DEF w
  <2>4. QED BY <1>2, <1>3, <2>1, <2>2, <2>3 DEF UploadWork, WorkOK
<1>4. CASE Of(media, c) # {}
  <2> DEFINE m == CHOOSE m \in Of(media, c) : TRUE
  <2>1. m \in Of(media, c)
    BY <1>4
  <2> HIDE DEF m
  <2> DEFINE w == [stage |-> "commit", op |-> "upload", owner |-> o, bytes |-> c, media |-> m]
  <2>2. w.stage = "commit" /\ w.op = "upload" /\ w.owner = o /\ w.bytes = c /\ w.media = m
    OBVIOUS
  <2>3. Load(r, w)
    BY <1>1, <1>4 DEF m
  <2> HIDE DEF w
  <2>4. QED BY <1>2, <2>1, <2>2, <2>3 DEF UploadWork, WorkOK
<1>5. QED BY <1>3, <1>4

\* The work of the other requests is of these kinds.
OtherWork(w) ==
  /\ w.stage = "commit"
  /\ \/ /\ w.op = "detach"
        /\ w.attachments \subseteq DOMAIN attachments /\ w.media = Attached(w.attachments)
     \/ /\ w.op = "delete owner"
        /\ w.attachments = AttachmentsOf(w.owner) /\ w.media = Attached(w.attachments)
        /\ w.links = LinksOf(w.owner) /\ w.notes = Of(notes, w.owner)
     \/ w.op \in {"note", "bind"} /\ w.owner \in owners
     \/ w.op \in {"delete note", "delete tag"}
     \/ w.op = "tag" /\ w.name \in Names /\ ~Taken(w.name, Null)
     \/ w.op = "rename" /\ w.name \in Names /\ ~Taken(w.name, w.tag)
     \/ w.op = "retag" /\ w.owner \in owners

Loading(r) ==
  \/ LoadDetach(r) \/ LoadDeleteOwner(r) \/ LoadNote(r) \/ LoadDeleteNote(r) \/ LoadBind(r)
  \/ LoadTag(r) \/ LoadRename(r) \/ LoadDeleteTag(r) \/ LoadRetag(r)

LEMMA LoadingMeans ==
  ASSUME TInv, NEW r \in Requests, Loading(r)
  PROVE  \E w : Load(r, w) /\ OtherWork(w) /\ WorkOK(w)
<1>1. CASE LoadDetach(r)
  <2>1. PICK a \in DOMAIN attachments :
          Load(r, [stage |-> "commit", op |-> "detach", attachments |-> {a}, media |-> Attached({a})])
    BY <1>1, Zenon DEF LoadDetach
  <2> DEFINE ms == Attached({a})
             w == [stage |-> "commit", op |-> "detach", attachments |-> {a}, media |-> ms]
  <2>2. Load(r, w)
    BY <2>1
  <2> HIDE DEF ms
  <2>3. w.stage = "commit" /\ w.op = "detach" /\ w.attachments = {a} /\ w.media = Attached({a})
    BY DEF ms
  <2> HIDE DEF w
  <2>4. QED BY <2>2, <2>3 DEF OtherWork, WorkOK
<1>2. CASE LoadDeleteOwner(r)
  <2>1. PICK o \in owners :
          Load(r, [stage |-> "commit", op |-> "delete owner", owner |-> o,
                   attachments |-> AttachmentsOf(o), media |-> Attached(AttachmentsOf(o)),
                   links |-> LinksOf(o), notes |-> Of(notes, o)])
    BY <1>2, Zenon DEF LoadDeleteOwner
  <2> DEFINE as == AttachmentsOf(o)
             ms == Attached(AttachmentsOf(o))
             ls == LinksOf(o)
             ns == Of(notes, o)
             w == [stage |-> "commit", op |-> "delete owner", owner |-> o,
                   attachments |-> as, media |-> ms, links |-> ls, notes |-> ns]
  <2>2. Load(r, w)
    BY <2>1
  <2> HIDE DEF as, ms, ls, ns
  <2>3. /\ w.stage = "commit" /\ w.op = "delete owner" /\ w.owner = o
        /\ w.attachments = as /\ w.media = ms /\ w.links = ls /\ w.notes = ns
    OBVIOUS
  <2> HIDE DEF w
  <2>4. QED BY <2>2, <2>3 DEF OtherWork, WorkOK, as, ms, ls, ns
<1>3. CASE LoadNote(r)
  <2>1. PICK o \in owners :
          Load(r, [stage |-> "commit", op |-> "note", owner |-> o])
    BY <1>3, Zenon DEF LoadNote
  <2> DEFINE w == [stage |-> "commit", op |-> "note", owner |-> o]
  <2>2. w.stage = "commit" /\ w.op = "note" /\ w.owner = o
    OBVIOUS
  <2>3. Load(r, w)
    BY <2>1
  <2> HIDE DEF w
  <2>4. QED BY <2>1, <2>2, <2>3 DEF OtherWork, WorkOK
<1>4. CASE LoadDeleteNote(r)
  <2>1. PICK n \in DOMAIN notes :
          Load(r, [stage |-> "commit", op |-> "delete note", note |-> n])
    BY <1>4, Zenon DEF LoadDeleteNote
  <2> DEFINE w == [stage |-> "commit", op |-> "delete note", note |-> n]
  <2>2. w.stage = "commit" /\ w.op = "delete note" /\ w.note = n
    OBVIOUS
  <2>3. Load(r, w)
    BY <2>1
  <2> HIDE DEF w
  <2>4. QED BY <2>1, <2>2, <2>3 DEF OtherWork, WorkOK
<1>5. CASE LoadBind(r)
  <2>1. PICK o \in owners, c \in Codes \ DOMAIN barcodes :
          Load(r, [stage |-> "commit", op |-> "bind", owner |-> o, code |-> c])
    BY <1>5, Zenon DEF LoadBind
  <2> DEFINE w == [stage |-> "commit", op |-> "bind", owner |-> o, code |-> c]
  <2>2. w.stage = "commit" /\ w.op = "bind" /\ w.owner = o /\ w.code = c
    OBVIOUS
  <2>3. Load(r, w)
    BY <2>1
  <2> HIDE DEF w
  <2>4. QED BY <2>1, <2>2, <2>3 DEF OtherWork, WorkOK
<1>6. CASE LoadTag(r)
  <2>1. PICK name \in Names :
          ~Taken(name, Null) /\ Load(r, [stage |-> "commit", op |-> "tag", name |-> name])
    BY <1>6, Zenon DEF LoadTag
  <2> DEFINE w == [stage |-> "commit", op |-> "tag", name |-> name]
  <2>2. w.stage = "commit" /\ w.op = "tag" /\ w.name = name
    OBVIOUS
  <2>3. Load(r, w)
    BY <2>1
  <2> HIDE DEF w
  <2>4. QED BY <2>1, <2>2, <2>3 DEF OtherWork, WorkOK
<1>7. CASE LoadRename(r)
  <2>1. PICK t \in DOMAIN tags, name \in Names :
          ~Taken(name, t) /\ Load(r, [stage |-> "commit", op |-> "rename", tag |-> t, name |-> name])
    BY <1>7, Zenon DEF LoadRename
  <2> DEFINE w == [stage |-> "commit", op |-> "rename", tag |-> t, name |-> name]
  <2>2. w.stage = "commit" /\ w.op = "rename" /\ w.tag = t /\ w.name = name
    OBVIOUS
  <2>3. Load(r, w)
    BY <2>1
  <2> HIDE DEF w
  <2>4. QED BY <2>1, <2>2, <2>3 DEF OtherWork, WorkOK
<1>8. CASE LoadDeleteTag(r)
  <2>1. PICK t \in DOMAIN tags :
          Load(r, [stage |-> "commit", op |-> "delete tag", tag |-> t])
    BY <1>8, Zenon DEF LoadDeleteTag
  <2> DEFINE w == [stage |-> "commit", op |-> "delete tag", tag |-> t]
  <2>2. w.stage = "commit" /\ w.op = "delete tag" /\ w.tag = t
    OBVIOUS
  <2>3. Load(r, w)
    BY <2>1
  <2> HIDE DEF w
  <2>4. QED BY <2>1, <2>2, <2>3 DEF OtherWork, WorkOK
<1>9. CASE LoadRetag(r)
  <2> DEFINE current(o) == {l[1] : l \in LinksOf(o)}
  <2>1. PICK o \in owners, wanted \in SUBSET DOMAIN tags :
          Load(r, [stage |-> "commit", op |-> "retag", owner |-> o,
                   add |-> wanted \ current(o), drop |-> current(o) \ wanted])
    BY <1>9, Zenon DEF LoadRetag
  <2> DEFINE add == wanted \ current(o)
             drop == current(o) \ wanted
             w == [stage |-> "commit", op |-> "retag", owner |-> o, add |-> add, drop |-> drop]
  <2>2. Load(r, w)
    BY <2>1
  <2> HIDE DEF add, drop
  <2>3. w.stage = "commit" /\ w.op = "retag" /\ w.owner = o
    OBVIOUS
  <2> HIDE DEF w
  <2>4. QED BY <2>2, <2>3 DEF OtherWork, WorkOK
<1>10. QED BY <1>1, <1>2, <1>3, <1>4, <1>5, <1>6, <1>7, <1>8, <1>9 DEF Loading

-----------------------------------------------------------------------------
(* Types *)

LEMMA DetachMeans ==
  ASSUME NEW as, NEW ms, Detach(as, ms)
  PROVE  /\ DOMAIN attachments' = DOMAIN attachments \ as
         /\ \A a \in DOMAIN attachments' : attachments'[a] = attachments[a]
         /\ \A a \in DOMAIN attachments' : attachments'[a].media \in DOMAIN media'
         /\ DOMAIN media' = DOMAIN media \ Unreferenced(ms, attachments')
         /\ \A m \in DOMAIN media' : m \in DOMAIN media /\ media'[m] = media[m]
<1> DEFINE left == Restrict(attachments, DOMAIN attachments \ as)
           gone == Unreferenced(ms, left)
<1>1. /\ attachments' = left /\ media' = Restrict(media, DOMAIN media \ gone)
      /\ \A a \in DOMAIN left : left[a].media \in DOMAIN media'
  BY DEF Detach
<1>2. DOMAIN left = DOMAIN attachments \ as /\ \A a \in DOMAIN left : left[a] = attachments[a]
  BY DEF Restrict
<1>3. gone = Unreferenced(ms, attachments')
  BY <1>1
<1> HIDE DEF left, gone
<1>4. DOMAIN media' = DOMAIN media \ gone /\ \A m \in DOMAIN media' : media'[m] = media[m]
  BY <1>1 DEF Restrict
<1>5. QED BY <1>1, <1>2, <1>3, <1>4

\* The bytes of the rows that went.
Gone == {media[m] : m \in DOMAIN media \ DOMAIN media'}

LEMMA ThenUnlinkMeans ==
  ASSUME NEW r \in Requests, ThenUnlink(r)
  PROVE  /\ \E w : /\ Become(r, w) /\ WorkOK(w)
                   /\ \/ w = Idle /\ Gone = {}
                      \/ w.stage = "unlink" /\ w.bytes = Gone
         /\ UNCHANGED <<failed, changes, overlap>>
<1> DEFINE w == [stage |-> "unlink", bytes |-> Gone]
<1>1. /\ Become(r, IF Gone = {} THEN Idle ELSE w)
      /\ UNCHANGED <<failed, changes, overlap>>
  BY DEF ThenUnlink, Gone
<1>2. w.stage = "unlink" /\ w.bytes = Gone
  OBVIOUS
<1> HIDE DEF w
<1>3. QED BY <1>1, <1>2, IdleOK DEF WorkOK

\* Attachments and media rows that were detached keep their types.
LEMMA DetachTyped ==
  ASSUME TInv, NEW as, NEW ms, Detach(as, ms)
  PROVE  /\ \A a \in DOMAIN attachments' :
              attachments'[a] \in Attachment /\ attachments'[a].media \in DOMAIN media'
         /\ IsInjective(media') /\ Range(media') \subseteq Contents
         /\ DOMAIN media' \subseteq Ids /\ DOMAIN attachments' \subseteq Ids
<1>1. \A a \in DOMAIN attachments' :
        attachments'[a] \in Attachment /\ attachments'[a].media \in DOMAIN media'
  BY DetachMeans DEF TInv, TypeOK
<1>2. \A m \in DOMAIN media' : m \in DOMAIN media /\ media'[m] = media[m]
  BY DetachMeans
<1>3. IsInjective(media')
  BY <1>2 DEF IsInjective, TInv, TypeOK
<1>4. Range(media') \subseteq Contents
  BY <1>2 DEF Range, TInv, TypeOK
<1>5. DOMAIN media' \subseteq Ids /\ DOMAIN attachments' \subseteq Ids
  BY DetachMeans DEF TInv, RowsNumbered
<1>6. QED BY <1>1, <1>3, <1>4, <1>5

LEMMA CommitUploadMeans ==
  ASSUME TInv, NEW r \in Requests, CommitUpload(r)
  PROVE  LET w == inflight[r]
             m == IF w.media = Null THEN NewId(DOMAIN media) ELSE w.media
             a == NewId(DOMAIN attachments)
         IN  /\ w.stage = "commit" /\ w.op = "upload"
             /\ a \in Ids \ DOMAIN attachments /\ m \in Ids
             /\ IF w.media = Null
                THEN /\ m \notin DOMAIN media /\ DOMAIN media' = DOMAIN media \cup {m}
                     /\ media'[m] = w.bytes /\ \A i \in DOMAIN media : media'[i] = media[i]
                ELSE media' = media /\ m \in DOMAIN media
             /\ m \in DOMAIN media' /\ UniqueHash(media')
             /\ DOMAIN attachments' = DOMAIN attachments \cup {a}
             /\ attachments'[a] = [media |-> m, owner |-> w.owner, bytes |-> w.bytes]
             /\ \A i \in DOMAIN attachments : attachments'[i] = attachments[i]
             /\ Become(r, Idle)
             /\ UNCHANGED <<owners, files, labels, failed, changes, overlap>>
<1> DEFINE w == inflight[r]
           m == IF w.media = Null THEN NewId(DOMAIN media) ELSE w.media
           a == NewId(DOMAIN attachments)
<1>1. /\ w.stage = "commit" /\ w.op = "upload" /\ {a, m} \subseteq Ids
      /\ media' = IF w.media = Null THEN Insert(media, m, w.bytes) ELSE media
      /\ m \in DOMAIN media' /\ UniqueHash(media')
      /\ attachments' = Insert(attachments, a, [media |-> m, owner |-> w.owner, bytes |-> w.bytes])
      /\ Become(r, Idle)
      /\ UNCHANGED <<owners, files, labels, failed, changes, overlap>>
  BY DEF CommitUpload, Ready, Done, Ids
<1>2. a \notin DOMAIN attachments /\ (w.media = Null => m \notin DOMAIN media)
  BY NewIdFresh DEF TInv, RowsNumbered
<1> HIDE DEF a, m, w
<1>3. /\ DOMAIN attachments' = DOMAIN attachments \cup {a}
      /\ attachments'[a] = [media |-> m, owner |-> w.owner, bytes |-> w.bytes]
      /\ \A i \in DOMAIN attachments : attachments'[i] = attachments[i]
  BY <1>1, <1>2 DEF Insert
<1>4. IF w.media = Null
      THEN /\ m \notin DOMAIN media /\ DOMAIN media' = DOMAIN media \cup {m}
           /\ media'[m] = w.bytes /\ \A i \in DOMAIN media : media'[i] = media[i]
      ELSE media' = media /\ m \in DOMAIN media
  BY <1>1, <1>2 DEF Insert
<1>5. QED BY <1>1, <1>2, <1>3, <1>4 DEF a, m, w

LEMMA CommitUploadTyped ==
  ASSUME TInv, NEW r \in Requests, CommitUpload(r)
  PROVE  TInv'
<1> DEFINE w == inflight[r]
           m == IF w.media = Null THEN NewId(DOMAIN media) ELSE w.media
           a == NewId(DOMAIN attachments)
           row == [media |-> m, owner |-> w.owner, bytes |-> w.bytes]
<1>1. /\ w.stage = "commit" /\ w.op = "upload"
      /\ a \in Ids \ DOMAIN attachments /\ m \in Ids
      /\ IF w.media = Null
         THEN /\ m \notin DOMAIN media /\ DOMAIN media' = DOMAIN media \cup {m}
              /\ media'[m] = w.bytes /\ \A i \in DOMAIN media : media'[i] = media[i]
         ELSE media' = media /\ m \in DOMAIN media
      /\ m \in DOMAIN media' /\ UniqueHash(media')
      /\ DOMAIN attachments' = DOMAIN attachments \cup {a}
      /\ attachments'[a] = row
      /\ \A i \in DOMAIN attachments : attachments'[i] = attachments[i]
      /\ Become(r, Idle)
      /\ UNCHANGED <<owners, files, labels, failed, changes, overlap>>
  BY CommitUploadMeans
<1>2. w.owner \in Nat /\ w.bytes \in Contents
  BY <1>1 DEF TInv, Working, WorkOK
<1>3. row \in Attachment /\ row.media = m
  BY <1>1, <1>2, BelongingConstants DEF Attachment, Ids
<1> HIDE DEF w, m, a, row
<1>4. DOMAIN media \subseteq DOMAIN media' /\ DOMAIN media' \subseteq Ids
  BY <1>1 DEF TInv, RowsNumbered
<1>5. \A i \in DOMAIN attachments' :
        attachments'[i] \in Attachment /\ attachments'[i].media \in DOMAIN media'
  BY <1>1, <1>3, <1>4 DEF TInv, TypeOK
<1>6. IsInjective(media') /\ Range(media') \subseteq Contents
  BY <1>1, <1>2 DEF UniqueHash, IsInjective, Range, TInv, TypeOK
<1>7. DOMAIN attachments' \subseteq Ids
  BY <1>1 DEF TInv, RowsNumbered
<1>8. Working'
  BY <1>1, IdleOK, WorkingAfter DEF TInv
<1>9. TypeOK' /\ RowsNumbered'
  BY <1>1, <1>4, <1>5, <1>6, <1>7 DEF TInv, TypeOK, RowsNumbered, labels
<1>10. QED BY <1>8, <1>9 DEF TInv

LEMMA CommitDetachTyped ==
  ASSUME TInv, NEW r \in Requests, CommitDetach(r)
  PROVE  TInv'
<1>1. /\ Detach(inflight[r].attachments, inflight[r].media)
      /\ ThenUnlink(r)
      /\ UNCHANGED <<owners, files, labels>>
  BY DEF CommitDetach
<1>2. Working'
  BY <1>1, ThenUnlinkMeans, WorkingAfter DEF TInv
<1>3. TypeOK' /\ RowsNumbered'
  BY <1>1, DetachTyped DEF TInv, TypeOK, RowsNumbered, labels
<1>4. QED BY <1>2, <1>3 DEF TInv

LEMMA CommitDeleteOwnerTyped ==
  ASSUME TInv, NEW r \in Requests, CommitDeleteOwner(r)
  PROVE  TInv'
<1> DEFINE w == inflight[r]
<1>1. /\ Detach(w.attachments, w.media)
      /\ links' = links \ ListedLinks(w)
      /\ notes' = Restrict(notes, DOMAIN notes \ ListedNotes(w))
      /\ barcodes' = Restrict(barcodes, DOMAIN barcodes \ Of(barcodes, w.owner))
      /\ owners' = owners \ {w.owner}
      /\ ThenUnlink(r)
      /\ UNCHANGED <<files, tags>>
  BY DEF CommitDeleteOwner
<1> HIDE DEF w
<1>2. Working'
  BY <1>1, ThenUnlinkMeans, WorkingAfter DEF TInv
<1>3. Range(barcodes') \subseteq owners'
  BY <1>1 DEF Range, Restrict, Of, TInv, TypeOK
<1>4. DOMAIN notes' \subseteq Ids
  BY <1>1 DEF Restrict, TInv, RowsNumbered
<1>5. TypeOK' /\ RowsNumbered'
  BY <1>1, <1>3, <1>4, DetachTyped DEF TInv, TypeOK, RowsNumbered
<1>6. QED BY <1>2, <1>5 DEF TInv

\* Steps that touch neither files, attachments nor media rows.
PicturesStay == UNCHANGED <<pictures, files>>

LEMMA PicturesTyped ==
  ASSUME TInv, PicturesStay
  PROVE  /\ files' \subseteq Contents
         /\ \A a \in DOMAIN attachments' :
              attachments'[a] \in Attachment /\ attachments'[a].media \in DOMAIN media'
         /\ IsInjective(media') /\ Range(media') \subseteq Contents
         /\ DOMAIN media' \subseteq Ids /\ DOMAIN attachments' \subseteq Ids
<1>1. files' = files /\ media' = media /\ attachments' = attachments
  BY DEF PicturesStay, pictures
<1>2. QED BY <1>1 DEF TInv, TypeOK, RowsNumbered

LEMMA TInvStep ==
  ASSUME TInv, [Next]_vars
  PROVE  TInv'
<1>1. ASSUME NEW r \in Requests, LoadUpload(r) \/ Loading(r) PROVE TInv'
  BY <1>1, LoadUploadMeans, LoadingMeans, LoadMeans
<1>2. ASSUME NEW r \in Requests, WriteFile(r) PROVE TInv'
  <2> DEFINE w == inflight[r]
             done == [w EXCEPT !.stage = "commit"]
  <2>1. /\ w.stage = "write" /\ files' = files \cup {w.bytes} /\ Become(r, done)
        /\ UNCHANGED <<owners, pictures, labels>>
    BY <1>2 DEF WriteFile
  <2>2. /\ w = [stage |-> "write", op |-> "upload", owner |-> w.owner, bytes |-> w.bytes, media |-> Null]
        /\ w.owner \in Nat /\ w.bytes \in Contents
    BY <2>1 DEF TInv, Working, WorkOK
  <2>3. done.stage = "commit" /\ done.op = "upload" /\ done.owner = w.owner /\ done.bytes = w.bytes
    BY <2>2
  <2> HIDE DEF w, done
  <2>4. Working'
    BY <2>1, <2>2, <2>3, WorkingAfter DEF TInv, WorkOK
  <2>5. TypeOK' /\ RowsNumbered'
    BY <2>1, <2>2 DEF TInv, TypeOK, RowsNumbered, pictures, labels
  <2>6. QED BY <2>4, <2>5 DEF TInv
<1>3. ASSUME NEW r \in Requests, Unlink(r) PROVE TInv'
  <2>1. /\ files' \subseteq files /\ Become(r, Idle) /\ UNCHANGED <<owners, pictures, labels>>
    BY <1>3 DEF Unlink, Done
  <2>2. TypeOK' /\ RowsNumbered'
    BY <2>1 DEF TInv, TypeOK, RowsNumbered, pictures, labels
  <2>3. QED BY <2>1, <2>2, IdleOK, WorkingAfter DEF TInv
<1>4. ASSUME NEW r \in Requests, CreateOwner(r) PROVE TInv'
  <2>1. /\ NewId(owners) <= MaxId /\ owners' = owners \cup {NewId(owners)}
        /\ PicturesStay /\ UNCHANGED <<labels, inflight>>
    BY <1>4 DEF CreateOwner, PicturesStay
  <2>2. NewId(owners) \in Ids
    <3>1. owners \subseteq Ids
      BY DEF TInv, TypeOK, Ids
    <3>2. NewId(owners) \in Nat \ {0}
      BY <3>1, NewIdFresh
    <3>3. QED BY <2>1, <3>2, BelongingConstants DEF Ids
  <2>3. Working'
    BY <2>1 DEF TInv, Working
  <2>4. TypeOK' /\ RowsNumbered'
    BY <2>1, <2>2, PicturesTyped DEF TInv, TypeOK, RowsNumbered, labels, Ids
  <2>5. QED BY <2>3, <2>4 DEF TInv
<1>5. ASSUME NEW r \in Requests, CommitNote(r) PROVE TInv'
  <2> DEFINE n == NewId(DOMAIN notes)
  <2>1. /\ n <= MaxId /\ notes' = Insert(notes, n, inflight[r].owner)
        /\ Become(r, Idle) /\ PicturesStay /\ UNCHANGED <<owners, tags, links, barcodes>>
    BY <1>5 DEF CommitNote, Done, PicturesStay
  <2>2. n \in Ids
    BY <2>1, NewIdFresh, BelongingConstants DEF TInv, RowsNumbered, Ids
  <2> HIDE DEF n
  <2>3. DOMAIN notes' \subseteq Ids
    BY <2>1, <2>2 DEF Insert, TInv, RowsNumbered
  <2>4. TypeOK' /\ RowsNumbered'
    BY <2>1, <2>3, PicturesTyped DEF TInv, TypeOK, RowsNumbered
  <2>5. QED BY <2>1, <2>4, IdleOK, WorkingAfter DEF TInv
<1>6. ASSUME NEW r \in Requests, CommitDeleteNote(r) PROVE TInv'
  <2>1. /\ DOMAIN notes' \subseteq DOMAIN notes
        /\ Become(r, Idle) /\ PicturesStay /\ UNCHANGED <<owners, tags, links, barcodes>>
    BY <1>6 DEF CommitDeleteNote, Done, PicturesStay, Restrict
  <2>2. TypeOK' /\ RowsNumbered'
    BY <2>1, PicturesTyped DEF TInv, TypeOK, RowsNumbered
  <2>3. QED BY <2>1, <2>2, IdleOK, WorkingAfter DEF TInv
<1>7. ASSUME NEW r \in Requests, CommitBind(r) PROVE TInv'
  <2>1. /\ Bindable(inflight[r])
        /\ barcodes' = Insert(barcodes, inflight[r].code, inflight[r].owner)
        /\ Become(r, Idle) /\ PicturesStay /\ UNCHANGED <<owners, tags, links, notes>>
    BY <1>7 DEF CommitBind, Done, PicturesStay
  <2>2. Range(barcodes') \subseteq owners
    BY <2>1 DEF Bindable, Insert, Range, TInv, TypeOK
  <2>3. TypeOK' /\ RowsNumbered'
    BY <2>1, <2>2, PicturesTyped DEF TInv, TypeOK, RowsNumbered
  <2>4. QED BY <2>1, <2>3, IdleOK, WorkingAfter DEF TInv
<1>8. ASSUME NEW r \in Requests, Unbind(r) PROVE TInv'
  <2>1. PICK c \in DOMAIN barcodes :
          /\ barcodes' = Restrict(barcodes, DOMAIN barcodes \ {c})
          /\ PicturesStay /\ UNCHANGED <<owners, tags, links, notes, inflight>>
    BY <1>8 DEF Unbind, PicturesStay
  <2>2. Range(barcodes') \subseteq owners
    BY <2>1 DEF Restrict, Range, TInv, TypeOK
  <2>3. TypeOK' /\ RowsNumbered' /\ Working'
    BY <2>1, <2>2, PicturesTyped DEF TInv, TypeOK, RowsNumbered, Working
  <2>4. QED BY <2>3 DEF TInv
<1>9. ASSUME NEW r \in Requests, CommitTag(r) PROVE TInv'
  <2> DEFINE t == NewId(DOMAIN tags)
             name == inflight[r].name
  <2>1. /\ t <= MaxId /\ tags' = Insert(tags, t, name)
        /\ inflight[r].stage = "commit" /\ inflight[r].op = "tag"
        /\ Become(r, Idle) /\ PicturesStay /\ UNCHANGED <<owners, links, notes, barcodes>>
    BY <1>9 DEF CommitTag, Ready, Done, PicturesStay
  <2>2. t \in Ids /\ name \in Names
    BY <2>1, NewIdFresh, BelongingConstants DEF TInv, RowsNumbered, Ids, Working, WorkOK
  <2> HIDE DEF t, name
  <2>3. DOMAIN tags' = DOMAIN tags \cup {t} /\ Range(tags') \subseteq Names
    BY <2>1, <2>2 DEF Insert, Range, TInv, TypeOK
  <2>4. TypeOK' /\ RowsNumbered'
    BY <2>1, <2>2, <2>3, PicturesTyped DEF TInv, TypeOK, RowsNumbered
  <2>5. QED BY <2>1, <2>4, IdleOK, WorkingAfter DEF TInv
<1>10. ASSUME NEW r \in Requests, CommitRename(r) PROVE TInv'
  <2> DEFINE w == inflight[r]
  <2>1. /\ w.tag \in DOMAIN tags /\ tags' = [tags EXCEPT ![w.tag] = w.name]
        /\ w.stage = "commit" /\ w.op = "rename"
        /\ Become(r, Idle) /\ PicturesStay /\ UNCHANGED <<owners, links, notes, barcodes>>
    BY <1>10 DEF CommitRename, Ready, Done, PicturesStay
  <2>2. w.name \in Names
    BY <2>1 DEF TInv, Working, WorkOK
  <2> HIDE DEF w
  <2>3. DOMAIN tags' = DOMAIN tags /\ Range(tags') \subseteq Names
    BY <2>1, <2>2 DEF Range, TInv, TypeOK
  <2>4. TypeOK' /\ RowsNumbered'
    BY <2>1, <2>3, PicturesTyped DEF TInv, TypeOK, RowsNumbered
  <2>5. QED BY <2>1, <2>4, IdleOK, WorkingAfter DEF TInv
<1>11. ASSUME NEW r \in Requests, CommitDeleteTag(r) PROVE TInv'
  <2> DEFINE t == inflight[r].tag
  <2>1. /\ tags' = Restrict(tags, DOMAIN tags \ {t}) /\ links' = {l \in links : l[1] # t}
        /\ Become(r, Idle) /\ PicturesStay /\ UNCHANGED <<owners, notes, barcodes>>
    BY <1>11 DEF CommitDeleteTag, Done, PicturesStay
  <2> HIDE DEF t
  <2>2. DOMAIN tags' = DOMAIN tags \ {t} /\ Range(tags') \subseteq Names
    BY <2>1 DEF Restrict, Range, TInv, TypeOK
  <2>3. {l[1] : l \in links'} \subseteq DOMAIN tags'
    BY <2>1, <2>2 DEF TInv, TypeOK
  <2>4. TypeOK' /\ RowsNumbered'
    BY <2>1, <2>2, <2>3, PicturesTyped DEF TInv, TypeOK, RowsNumbered
  <2>5. QED BY <2>1, <2>4, IdleOK, WorkingAfter DEF TInv
<1>12. ASSUME NEW r \in Requests, CommitRetag(r) PROVE TInv'
  <2> DEFINE w == inflight[r]
  <2>1. PICK kept \in SUBSET w.add :
          Linked(w, kept) /\ links' = (links \cup (kept \X {w.owner})) \ (w.drop \X {w.owner})
    BY <1>12 DEF CommitRetag
  <2>2. Become(r, Idle) /\ PicturesStay /\ UNCHANGED <<owners, tags, notes, barcodes>>
    BY <1>12 DEF CommitRetag, Done, PicturesStay
  <2> HIDE DEF w
  <2>3. {l[1] : l \in links'} \subseteq DOMAIN tags
    BY <2>1 DEF Linked, TInv, TypeOK
  <2>4. TypeOK' /\ RowsNumbered'
    BY <2>2, <2>3, PicturesTyped DEF TInv, TypeOK, RowsNumbered
  <2>5. QED BY <2>2, <2>4, IdleOK, WorkingAfter DEF TInv
<1>13. ASSUME NEW r \in Requests, Fail(r) PROVE TInv'
  <2>1. Become(r, Idle) /\ PicturesStay /\ UNCHANGED <<owners, labels>>
    BY <1>13 DEF Fail, PicturesStay
  <2>2. TypeOK' /\ RowsNumbered'
    BY <2>1, PicturesTyped DEF TInv, TypeOK, RowsNumbered, labels
  <2>3. QED BY <2>1, <2>2, IdleOK, WorkingAfter DEF TInv
<1>14. CASE UNCHANGED vars
  BY <1>14 DEF vars, pictures, labels, TInv, TypeOK, RowsNumbered, Working
<1>15. QED
  BY <1>1, <1>2, <1>3, <1>4, <1>5, <1>6, <1>7, <1>8, <1>9, <1>10, <1>11, <1>12, <1>13, <1>14,
     CommitUploadTyped, CommitDetachTyped, CommitDeleteOwnerTyped
  DEF Next, Attaching, Owning, Noting, Tagging, Loading

LEMMA TInvInit == Init => TInv
<1>1. SUFFICES ASSUME Init PROVE TInv
  OBVIOUS
<1>2. Working
  <2>1. \A r \in Requests : inflight[r] = Idle
    BY <1>1 DEF Init
  <2>2. inflight = [r \in Requests |-> inflight[r]]
    BY <1>1 DEF Init
  <2>3. QED BY <2>1, <2>2, IdleOK DEF Working
<1>3. owners \subseteq 1 .. MaxId
  BY <1>1, BelongingConstants DEF Init
<1>4. /\ DOMAIN media = {} /\ DOMAIN attachments = {} /\ DOMAIN tags = {}
      /\ DOMAIN notes = {} /\ DOMAIN barcodes = {} /\ links = {} /\ files = {}
  BY <1>1 DEF Init
<1>5. QED BY <1>2, <1>3, <1>4 DEF TInv, TypeOK, RowsNumbered, IsInjective, Range

\* Whatever requests interleave and wherever they end, the keys of the database
\* hold: an attachment has its media row, a hash one row, a link its tag, a
\* barcode its definition.
THEOREM TypeCorrect == Spec => []TypeOK
<1>1. TInv => TypeOK
  BY DEF TInv
<1>2. TInv /\ [Next]_vars => TInv'
  BY TInvStep
<1>3. QED BY TInvInit, <1>1, <1>2, PTL DEF Spec
-----------------------------------------------------------------------------
(* Requests that do not overlap: one works, the others are idle             *)

LEMMA OthersIdle ==
  ASSUME TInv, Alone, ~overlap, NEW r \in Requests, Quiet \/ inflight[r] # Idle
  PROVE  \A q \in Requests \ {r} : inflight[q] = Idle
BY DEF Alone, Quiet

\* After a step of r that leaves it with the work w.
Only(r, w) == \A q \in Requests : inflight'[q] = IF q = r THEN w ELSE Idle

LEMMA OnlyMeans ==
  ASSUME TInv, Alone, ~overlap, NEW r \in Requests, NEW w, Become(r, w), Quiet \/ inflight[r] # Idle
  PROVE  Only(r, w)
BY OthersIdle, BecomeMeans DEF Only, TInv

LEMMA NotIdle ==
  ASSUME NEW r \in Requests, inflight[r].stage # "idle"
  PROVE  inflight[r] # Idle
BY DEF Idle

\* What a step does to the requests: one goes from idle to work when all are idle,
\* or from work to other work or none, or nobody's work changes.
LEMMA StepWorks ==
  ASSUME TInv, Alone, [Next]_vars, ~overlap
  PROVE  /\ ~overlap'
         /\ \/ inflight' = inflight
            \/ \E r \in Requests : \E w : Become(r, w) /\ (Quiet \/ inflight[r] # Idle)
<1>1. ASSUME NEW r \in Requests, LoadUpload(r) \/ Loading(r)
      PROVE  ~overlap' /\ \E w : Become(r, w) /\ Quiet
  BY <1>1, LoadUploadMeans, LoadingMeans, LoadMeans
<1>2. ASSUME NEW r \in Requests, CreateOwner(r) \/ Unbind(r) PROVE ~overlap' /\ inflight' = inflight
  <2>1. overlap' = overlap /\ inflight' = inflight
    BY <1>2 DEF CreateOwner, Unbind
  <2>2. QED BY <2>1
<1>3. ASSUME NEW r \in Requests, WriteFile(r)
      PROVE  ~overlap' /\ \E w : Become(r, w) /\ inflight[r] # Idle
  BY <1>3, NotIdle DEF WriteFile
<1>4. ASSUME NEW r \in Requests, CommitUpload(r) \/ Unlink(r) \/ CommitNote(r) \/ CommitDeleteNote(r)
                                   \/ CommitBind(r) \/ CommitTag(r) \/ CommitRename(r)
                                   \/ CommitDeleteTag(r) \/ CommitRetag(r)
      PROVE  ~overlap' /\ \E w : Become(r, w) /\ inflight[r] # Idle
  <2>1. Done(r) /\ inflight[r].stage # "idle"
    BY <1>4 DEF CommitUpload, Unlink, CommitNote, CommitDeleteNote, CommitBind, CommitTag,
                CommitRename, CommitDeleteTag, CommitRetag, Ready
  <2>2. QED BY <2>1, NotIdle DEF Done
<1>5. ASSUME NEW r \in Requests, CommitDetach(r) \/ CommitDeleteOwner(r)
      PROVE  ~overlap' /\ \E w : Become(r, w) /\ inflight[r] # Idle
  <2>1. ThenUnlink(r) /\ inflight[r].stage # "idle"
    BY <1>5 DEF CommitDetach, CommitDeleteOwner, Ready
  <2>2. QED BY <2>1, ThenUnlinkMeans, NotIdle
<1>6. ASSUME NEW r \in Requests, Fail(r)
      PROVE  ~overlap' /\ \E w : Become(r, w) /\ inflight[r] # Idle
  BY <1>6 DEF Fail
<1>7. CASE UNCHANGED vars
  BY <1>7 DEF vars
<1>8. QED
  BY <1>1, <1>2, <1>3, <1>4, <1>5, <1>6, <1>7
  DEF Next, Attaching, Owning, Noting, Tagging, Loading

\* Whether requests overlap is settled at the start.
LEMMA OverlapStays ==
  ASSUME [Next]_vars
  PROVE  overlap' = overlap
<1>1. ASSUME NEW r \in Requests, Attaching(r) PROVE overlap' = overlap
  BY <1>1 DEF Attaching, LoadUpload, WriteFile, CommitUpload, LoadDetach, CommitDetach, Unlink,
     Load, ThenUnlink, Done
<1>2. ASSUME NEW r \in Requests, Owning(r) PROVE overlap' = overlap
  BY <1>2 DEF Owning, CreateOwner, LoadDeleteOwner, CommitDeleteOwner, Load, ThenUnlink
<1>3. ASSUME NEW r \in Requests, Noting(r) PROVE overlap' = overlap
  BY <1>3 DEF Noting, LoadNote, CommitNote, LoadDeleteNote, CommitDeleteNote, LoadBind,
     CommitBind, Unbind, Load, Done
<1>4. ASSUME NEW r \in Requests, Tagging(r) PROVE overlap' = overlap
  BY <1>4 DEF Tagging, LoadTag, CommitTag, LoadRename, CommitRename, LoadDeleteTag,
     CommitDeleteTag, LoadRetag, CommitRetag, Load, Done
<1>5. ASSUME NEW r \in Requests, Fail(r) PROVE overlap' = overlap
  BY <1>5 DEF Fail
<1>6. CASE UNCHANGED vars
  BY <1>6 DEF vars
<1>7. QED BY <1>1, <1>2, <1>3, <1>4, <1>5, <1>6 DEF Next

LEMMA AloneStep ==
  ASSUME TInv, Alone, [Next]_vars
  PROVE  Alone'
<1>1. overlap' = overlap
  BY OverlapStays
<1>2. CASE overlap
  BY <1>1, <1>2 DEF Alone
<1>3. CASE ~overlap
  <2>1. CASE inflight' = inflight
    BY <1>3, <2>1 DEF Alone
  <2>2. ASSUME NEW r \in Requests, NEW w, Become(r, w), Quiet \/ inflight[r] # Idle PROVE Alone'
    BY <1>3, <2>2, OnlyMeans DEF Only, Alone
  <2>3. QED BY <1>3, <2>1, <2>2, StepWorks
<1>4. QED BY <1>2, <1>3

LEMMA AloneInit == Init => Alone
<1>1. SUFFICES ASSUME Init PROVE \A r \in Requests : inflight[r] = Idle
  BY DEF Alone
<1>2. QED BY <1>1 DEF Init

-----------------------------------------------------------------------------
(* Files match rows                                                         *)

\* Pictured, without the requests.
RowsMatch ==
  /\ \A a \in DOMAIN attachments : media[attachments[a].media] = attachments[a].bytes
  /\ DOMAIN media = Attached(DOMAIN attachments)
  /\ Range(media) \subseteq files

LEMMA IdleFresh == PictureFresh(Idle) /\ Afloat(Idle) = {} /\ OwnerFresh(Idle) /\ NameFresh(Idle)
BY DEF PictureFresh, Afloat, OwnerFresh, NameFresh, Idle

\* All that is afloat is what one request has prepared, if the others are idle.
LEMMA OneAfloat ==
  ASSUME NEW r \in Requests, \A q \in Requests \ {r} : inflight[q] = Idle
  PROVE  AllAfloat = Afloat(inflight[r])
<1>1. \A q \in Requests : q # r => Afloat(inflight[q]) = {}
  BY IdleFresh
<1>2. \A c : c \in AllAfloat <=> \E q \in Requests : c \in Afloat(inflight[q])
  BY DEF AllAfloat
<1>3. \A c : c \in AllAfloat <=> c \in Afloat(inflight[r])
  BY <1>1, <1>2
<1>4. QED BY <1>3

LEMMA PicturedAfter ==
  ASSUME NEW r \in Requests, NEW w, Only(r, w), RowsMatch', PictureFresh(w)',
         ~failed' => files' \subseteq Range(media') \cup Afloat(w)
  PROVE  Pictured'
<1>1. \A q \in Requests \ {r} : inflight'[q] = Idle
  BY DEF Only
<1>2. inflight'[r] = w
  BY DEF Only
<1>3. (AllAfloat)' = Afloat(w)
  <2>1. \A q \in Requests : q # r => Afloat(inflight'[q]) = {}
    BY <1>1, IdleFresh
  <2>2. \A c : c \in AllAfloat' <=> \E q \in Requests : c \in Afloat(inflight'[q])
    BY DEF AllAfloat, Afloat
  <2>3. \A c : c \in AllAfloat' <=> c \in Afloat(w)
    BY <1>2, <2>1, <2>2
  <2>4. QED BY <2>3
<1>4. PictureFresh(Idle)'
  BY DEF PictureFresh, Idle
<1>5. \A q \in Requests : PictureFresh(inflight[q])'
  <2>1. SUFFICES ASSUME NEW q \in Requests PROVE PictureFresh(inflight[q])'
    OBVIOUS
  <2>2. inflight'[q] = Idle \/ inflight'[q] = w
    BY DEF Only
  <2>3. CASE inflight'[q] = Idle
    BY <1>4, <2>3 DEF PictureFresh
  <2>4. CASE inflight'[q] = w
    BY <2>4 DEF PictureFresh
  <2>5. QED BY <2>2, <2>3, <2>4
<1>6. QED BY <1>3, <1>5 DEF Pictured, RowsMatch

LEMMA RowsStay ==
  ASSUME RowsMatch, PicturesStay
  PROVE  RowsMatch'
BY DEF RowsMatch, PicturesStay, pictures, Attached, Range

\* Of work that is not at its unlink or its upload nothing is afloat.
LEMMA NothingAfloat ==
  ASSUME NEW w, w.stage \in {"idle", "write"} \/ (w.stage = "commit" /\ w.op # "upload")
  PROVE  Afloat(w) = {}
BY DEF Afloat

LEMMA LoadUploadPictured ==
  ASSUME TInv, Alone, ~overlap, Pictured, NEW r \in Requests, LoadUpload(r)
  PROVE  Pictured'
<1>1. PICK w : Load(r, w) /\ UploadWork(w) /\ WorkOK(w)
  BY LoadUploadMeans
<1>2. Become(r, w) /\ Quiet /\ PicturesStay /\ failed' = failed
  BY <1>1, LoadMeans DEF PicturesStay
<1>3. Only(r, w)
  BY <1>2, OnlyMeans
<1>4. AllAfloat = {}
  BY <1>2, OneAfloat, IdleFresh DEF Quiet
<1>5. Afloat(w) = {}
  <2>1. CASE w.stage = "write"
    BY <2>1, NothingAfloat
  <2>2. CASE w.stage = "commit"
    <3>1. w.media \in DOMAIN media
      BY <1>1, <2>2 DEF UploadWork, Of
    <3>2. w.media # Null
      BY <3>1, BelongingConstants DEF TInv, RowsNumbered, Ids
    <3>3. QED BY <2>2, <3>2 DEF Afloat
  <2>3. QED BY <1>1, <2>1, <2>2 DEF UploadWork
<1>6. media' = media /\ attachments' = attachments /\ files' = files
  BY <1>2 DEF PicturesStay, pictures
<1>7. PictureFresh(w)'
  <2>1. CASE w.stage = "write"
    <3>1. w.bytes \notin Range(media)
      BY <1>1, <2>1 DEF UploadWork, Of, Range
    <3>2. QED BY <1>6, <2>1, <3>1 DEF PictureFresh
  <2>2. CASE w.stage = "commit"
    <3>1. w.media \in DOMAIN media /\ media[w.media] = w.bytes
      BY <1>1, <2>2 DEF UploadWork, Of
    <3>2. w.media # Null
      BY <3>1, BelongingConstants DEF TInv, RowsNumbered, Ids
    <3>3. QED BY <1>1, <1>6, <2>2, <3>1, <3>2 DEF PictureFresh, UploadWork
  <2>3. QED BY <1>1, <2>1, <2>2 DEF UploadWork
<1>8. ~failed' => files' \subseteq Range(media') \cup Afloat(w)
  BY <1>2, <1>4, <1>6 DEF Pictured
<1>9. RowsMatch'
  BY <1>2, RowsStay DEF Pictured, RowsMatch
<1>10. QED BY <1>3, <1>7, <1>8, <1>9, PicturedAfter

LEMMA LoadingPictured ==
  ASSUME TInv, Alone, ~overlap, Pictured, NEW r \in Requests, Loading(r)
  PROVE  Pictured'
<1>1. PICK w : Load(r, w) /\ OtherWork(w) /\ WorkOK(w)
  BY LoadingMeans
<1>2. Become(r, w) /\ Quiet /\ PicturesStay /\ failed' = failed
  BY <1>1, LoadMeans DEF PicturesStay
<1>3. Only(r, w)
  BY <1>2, OnlyMeans
<1>4. AllAfloat = {}
  BY <1>2, OneAfloat, IdleFresh DEF Quiet
<1>5. media' = media /\ attachments' = attachments /\ files' = files
  BY <1>2 DEF PicturesStay, pictures
<1>6. w.stage = "commit" /\ w.op # "upload"
  BY <1>1 DEF OtherWork
<1>7. w.op \in {"detach", "delete owner"} =>
        w.attachments \subseteq DOMAIN attachments /\ w.media = Attached(w.attachments)
  BY <1>1 DEF OtherWork, AttachmentsOf
<1>8. PictureFresh(w)'
  BY <1>5, <1>6, <1>7 DEF PictureFresh, Attached
<1>9. ~failed' => files' \subseteq Range(media') \cup Afloat(w)
  BY <1>2, <1>4, <1>5 DEF Pictured
<1>10. RowsMatch'
  BY <1>2, RowsStay DEF Pictured, RowsMatch
<1>11. QED BY <1>3, <1>8, <1>9, <1>10, PicturedAfter

LEMMA WriteFilePictured ==
  ASSUME TInv, Alone, ~overlap, Pictured, NEW r \in Requests, WriteFile(r)
  PROVE  Pictured'
<1>1. PICK w : w = inflight[r]
  OBVIOUS
<1>2. PICK done : done = [w EXCEPT !.stage = "commit"]
  OBVIOUS
<1>3. /\ w.stage = "write" /\ files' = files \cup {w.bytes} /\ Become(r, done)
      /\ media' = media /\ attachments' = attachments /\ failed' = failed
  BY <1>1, <1>2 DEF WriteFile, pictures
<1>4. w = [stage |-> "write", op |-> "upload", owner |-> w.owner, bytes |-> w.bytes, media |-> Null]
  BY <1>1, <1>3 DEF TInv, Working, WorkOK
<1>5. done.stage = "commit" /\ done.op = "upload" /\ done.bytes = w.bytes /\ done.media = Null
  BY <1>2, <1>4
<1>6. inflight[r] # Idle
  BY <1>1, <1>3, NotIdle
<1>7. w.bytes \notin Range(media)
  BY <1>1, <1>3 DEF Pictured, PictureFresh
<1>8. AllAfloat = {}
  <2>1. Afloat(inflight[r]) = {}
    BY <1>1, <1>3, NothingAfloat
  <2>2. QED BY <1>6, <2>1, OthersIdle, OneAfloat
<1>9. Only(r, done)
  BY <1>3, <1>6, OnlyMeans
<1>10. PictureFresh(done)'
  BY <1>3, <1>5, <1>7 DEF PictureFresh
<1>11. Afloat(done) = {w.bytes}
  BY <1>5 DEF Afloat
<1>12. RowsMatch'
  BY <1>3 DEF Pictured, RowsMatch, Attached
<1>13. ~failed' => files' \subseteq Range(media') \cup Afloat(done)
  BY <1>3, <1>8, <1>11 DEF Pictured
<1>14. QED BY <1>9, <1>10, <1>12, <1>13, PicturedAfter

LEMMA CommitUploadPictured ==
  ASSUME TInv, Alone, ~overlap, Pictured, NEW r \in Requests, CommitUpload(r)
  PROVE  Pictured'
<1> DEFINE w == inflight[r]
           m == IF w.media = Null THEN NewId(DOMAIN media) ELSE w.media
           a == NewId(DOMAIN attachments)
           row == [media |-> m, owner |-> w.owner, bytes |-> w.bytes]
<1>1. /\ w.stage = "commit" /\ w.op = "upload"
      /\ a \in Ids \ DOMAIN attachments /\ m \in Ids
      /\ IF w.media = Null
         THEN /\ m \notin DOMAIN media /\ DOMAIN media' = DOMAIN media \cup {m}
              /\ media'[m] = w.bytes /\ \A i \in DOMAIN media : media'[i] = media[i]
         ELSE media' = media /\ m \in DOMAIN media
      /\ DOMAIN attachments' = DOMAIN attachments \cup {a}
      /\ attachments'[a] = row
      /\ \A i \in DOMAIN attachments : attachments'[i] = attachments[i]
      /\ Become(r, Idle)
      /\ files' = files /\ failed' = failed
  BY CommitUploadMeans
<1>2. w # Idle
  BY <1>1, NotIdle
<1>3. Only(r, Idle)
  BY <1>1, <1>2, OnlyMeans
<1>4. AllAfloat = Afloat(w)
  BY <1>2, OthersIdle, OneAfloat
<1>5. row.media = m /\ row.bytes = w.bytes
  OBVIOUS
<1>6. IF w.media = Null THEN w.bytes \in files \ Range(media)
      ELSE w.media \in DOMAIN media /\ media[w.media] = w.bytes
  BY <1>1 DEF Pictured, PictureFresh
<1>7. w.media # Null => m = w.media
  OBVIOUS
<1>8. Afloat(w) = IF w.media = Null THEN {w.bytes} ELSE {}
  BY <1>1 DEF Afloat
<1> HIDE DEF w, m, a, row
<1>9. /\ DOMAIN media' = DOMAIN media \cup {m} /\ media'[m] = w.bytes
      /\ \A i \in DOMAIN media : media'[i] = media[i]
  BY <1>1, <1>6, <1>7
<1>10. \A i \in DOMAIN attachments : attachments[i].media \in DOMAIN media
  BY DEF TInv, TypeOK
<1>11. \A i \in DOMAIN attachments' : media'[attachments'[i].media] = attachments'[i].bytes
  BY <1>1, <1>5, <1>9, <1>10 DEF Pictured
<1>12. DOMAIN media' = Attached(DOMAIN attachments)'
  BY <1>1, <1>5, <1>9 DEF Pictured, Attached
<1>13. Range(media') = Range(media) \cup {w.bytes}
  BY <1>9 DEF Range
<1>14. w.bytes \in files
  BY <1>6 DEF Pictured, Range
<1>15. RowsMatch'
  BY <1>1, <1>11, <1>12, <1>13, <1>14 DEF RowsMatch, Pictured
<1>16. ~failed' => files' \subseteq Range(media') \cup Afloat(Idle)
  BY <1>1, <1>4, <1>8, <1>13 DEF Pictured
<1>17. PictureFresh(Idle)'
  BY DEF PictureFresh, Idle
<1>18. QED BY <1>3, <1>15, <1>16, <1>17, PicturedAfter

\* Detaching takes exactly the media rows of which it takes the last attachment.
LEMMA DetachPictured ==
  ASSUME TInv, Alone, ~overlap, Pictured, NEW r \in Requests,
         inflight[r].stage = "commit", inflight[r].op \in {"detach", "delete owner"},
         Detach(inflight[r].attachments, inflight[r].media), ThenUnlink(r), files' = files
  PROVE  Pictured'
<1>1. PICK as, ms : as = inflight[r].attachments /\ ms = inflight[r].media
  OBVIOUS
<1>2. PICK w : /\ Become(r, w) /\ failed' = failed
               /\ \/ w = Idle /\ Gone = {}
                  \/ w.stage = "unlink" /\ w.bytes = Gone
  BY ThenUnlinkMeans
<1>3. inflight[r] # Idle
  BY NotIdle
<1>4. Only(r, w)
  BY <1>2, <1>3, OnlyMeans
<1>5. AllAfloat = {}
  <2>1. Afloat(inflight[r]) = {}
    BY NothingAfloat
  <2>2. QED BY <1>3, <2>1, OthersIdle, OneAfloat
<1>6. as \subseteq DOMAIN attachments /\ ms = Attached(as)
  BY <1>1 DEF Pictured, PictureFresh
<1>7. /\ DOMAIN attachments' = DOMAIN attachments \ as
      /\ \A a \in DOMAIN attachments' : attachments'[a] = attachments[a]
      /\ \A a \in DOMAIN attachments' : attachments'[a].media \in DOMAIN media'
      /\ DOMAIN media' = DOMAIN media \ Unreferenced(ms, attachments')
      /\ \A m \in DOMAIN media' : m \in DOMAIN media /\ media'[m] = media[m]
  BY <1>1, DetachMeans
<1>8. \A a \in DOMAIN attachments' : media'[attachments'[a].media] = attachments'[a].bytes
  BY <1>7 DEF Pictured
<1>9. DOMAIN media' = Attached(DOMAIN attachments)'
  <2>1. ASSUME NEW m \in DOMAIN media' PROVE \E a \in DOMAIN attachments' : attachments'[a].media = m
    <3>1. m \in DOMAIN media /\ m \notin Unreferenced(ms, attachments')
      BY <1>7
    <3>2. CASE m \in ms
      BY <3>1, <3>2 DEF Unreferenced
    <3>3. CASE m \notin ms
      <4>1. PICK a \in DOMAIN attachments : attachments[a].media = m
        BY <3>1 DEF Pictured, Attached
      <4>2. a \notin as
        BY <1>6, <3>3, <4>1 DEF Attached
      <4>3. QED BY <1>7, <4>1, <4>2
    <3>4. QED BY <3>2, <3>3
  <2>2. \A m \in DOMAIN media' : m \in Attached(DOMAIN attachments)'
    BY <2>1 DEF Attached
  <2>3. \A m \in Attached(DOMAIN attachments)' : m \in DOMAIN media'
    BY <1>7 DEF Attached
  <2>4. QED BY <2>2, <2>3
<1>10. Range(media') \subseteq Range(media) /\ Range(media) = Range(media') \cup Gone
  <2>1. \A m \in DOMAIN media : media[m] \in Range(media') \cup Gone
    BY <1>7 DEF Range, Gone
  <2>2. \A c \in Gone : c \in Range(media)
    BY DEF Range, Gone
  <2>3. \A c \in Range(media') : c \in Range(media)
    BY <1>7 DEF Range
  <2>4. \A c \in Range(media) : c \in Range(media') \cup Gone
    BY <2>1 DEF Range
  <2>5. QED BY <2>2, <2>3, <2>4
<1>11. Gone \cap Range(media') = {}
  <2>1. SUFFICES ASSUME NEW m \in DOMAIN media \ DOMAIN media', NEW n \in DOMAIN media',
                        media[m] = media'[n]
                 PROVE  FALSE
    BY DEF Gone, Range
  <2>2. media[m] = media[n] /\ n \in DOMAIN media
    BY <1>7, <2>1
  <2>3. QED BY <2>1, <2>2 DEF TInv, TypeOK, IsInjective
<1>12. RowsMatch'
  BY <1>8, <1>9, <1>10 DEF RowsMatch, Pictured
<1>13. PictureFresh(w)'
  <2>1. CASE w = Idle
    BY <2>1 DEF PictureFresh, Idle
  <2>2. CASE w.stage = "unlink" /\ w.bytes = Gone
    BY <1>11, <2>2 DEF PictureFresh
  <2>3. QED BY <1>2, <2>1, <2>2
<1>14. ~failed' => files' \subseteq Range(media') \cup Afloat(w)
  <2>1. Gone \subseteq Afloat(w)
    BY <1>2 DEF Afloat
  <2>2. QED BY <1>2, <1>5, <1>10, <2>1 DEF Pictured
<1>15. QED BY <1>4, <1>12, <1>13, <1>14, PicturedAfter

LEMMA UnlinkPictured ==
  ASSUME TInv, Alone, ~overlap, Pictured, NEW r \in Requests, Unlink(r)
  PROVE  Pictured'
<1>1. PICK w : w = inflight[r]
  OBVIOUS
<1>2. /\ w.stage = "unlink" /\ files' = files \ w.bytes /\ Become(r, Idle)
      /\ media' = media /\ attachments' = attachments /\ failed' = failed
  BY <1>1 DEF Unlink, Done, pictures
<1>3. inflight[r] # Idle
  BY <1>1, <1>2, NotIdle
<1>4. Only(r, Idle)
  BY <1>2, <1>3, OnlyMeans
<1>5. AllAfloat = w.bytes
  <2>1. AllAfloat = Afloat(inflight[r])
    BY <1>3, OthersIdle, OneAfloat
  <2>2. QED BY <1>1, <1>2, <2>1 DEF Afloat
<1>6. w.bytes \cap Range(media) = {}
  BY <1>1, <1>2 DEF Pictured, PictureFresh
<1>7. RowsMatch'
  BY <1>2, <1>6 DEF Pictured, RowsMatch, Attached
<1>8. ~failed' => files' \subseteq Range(media') \cup Afloat(Idle)
  BY <1>2, <1>5 DEF Pictured
<1>9. PictureFresh(Idle)'
  BY DEF PictureFresh, Idle
<1>10. QED BY <1>4, <1>7, <1>8, <1>9, PicturedAfter

\* Notes, barcodes and tags are no matter of files.
LabelCommit(r) ==
  \/ CommitNote(r) \/ CommitDeleteNote(r) \/ CommitBind(r)
  \/ CommitTag(r) \/ CommitRename(r) \/ CommitDeleteTag(r) \/ CommitRetag(r)

LEMMA LabelCommitMeans ==
  ASSUME NEW r \in Requests, LabelCommit(r)
  PROVE  /\ Done(r) /\ PicturesStay /\ owners' = owners
         /\ inflight[r].stage = "commit" /\ inflight[r].op \notin {"upload", "detach", "delete owner"}
BY DEF LabelCommit, CommitNote, CommitDeleteNote, CommitBind, CommitTag, CommitRename,
   CommitDeleteTag, CommitRetag, Ready, PicturesStay

LEMMA PicturedStep ==
  ASSUME TInv, Alone, Pictured, [Next]_vars
  PROVE  Pictured'
<1>1. SUFFICES ASSUME ~overlap' PROVE Pictured'
  BY DEF Pictured
<1>2. overlap' = overlap
  BY OverlapStays
<1>3. ~overlap
  BY <1>1, <1>2
<1>4. ASSUME NEW r \in Requests, CommitDetach(r) \/ CommitDeleteOwner(r) PROVE Pictured'
  <2>1. /\ inflight[r].stage = "commit" /\ inflight[r].op \in {"detach", "delete owner"}
        /\ Detach(inflight[r].attachments, inflight[r].media) /\ ThenUnlink(r) /\ files' = files
    BY <1>4 DEF CommitDetach, CommitDeleteOwner, Ready
  <2>2. QED BY <1>3, <2>1, DetachPictured
<1>5. ASSUME NEW r \in Requests, LabelCommit(r) PROVE Pictured'
  <2>1. Become(r, Idle) /\ PicturesStay /\ failed' = failed
    BY <1>5, LabelCommitMeans DEF Done
  <2>2. inflight[r] # Idle /\ Afloat(inflight[r]) = {}
    BY <1>5, LabelCommitMeans, NotIdle, NothingAfloat
  <2>3. AllAfloat = {}
    BY <1>3, <2>2, OthersIdle, OneAfloat
  <2>4. RowsMatch'
    BY <1>3, <2>1, RowsStay DEF Pictured, RowsMatch
  <2>5. ~failed' => files' \subseteq Range(media') \cup Afloat(Idle)
    BY <1>3, <2>1, <2>3 DEF Pictured, PicturesStay, pictures
  <2>6. PictureFresh(Idle)'
    BY DEF PictureFresh, Idle
  <2>7. QED BY <1>3, <2>1, <2>2, <2>4, <2>5, <2>6, OnlyMeans, PicturedAfter
<1>6. ASSUME NEW r \in Requests, Fail(r) PROVE Pictured'
  <2>1. Become(r, Idle) /\ PicturesStay /\ failed' = TRUE /\ inflight[r] # Idle
    BY <1>6 DEF Fail, PicturesStay
  <2>2. RowsMatch'
    BY <1>3, <2>1, RowsStay DEF Pictured, RowsMatch
  <2>3. PictureFresh(Idle)'
    BY DEF PictureFresh, Idle
  <2>4. QED BY <1>3, <2>1, <2>2, <2>3, OnlyMeans, PicturedAfter
<1>7. ASSUME PicturesStay, inflight' = inflight, failed' = failed PROVE Pictured'
  <2>1. media' = media /\ attachments' = attachments /\ files' = files
    BY <1>7 DEF PicturesStay, pictures
  <2>2. AllAfloat' = AllAfloat
    BY <1>7 DEF AllAfloat
  <2>3. \A q \in Requests : PictureFresh(inflight[q])'
    <3>1. SUFFICES ASSUME NEW q \in Requests PROVE PictureFresh(inflight[q])'
      OBVIOUS
    <3>2. PictureFresh(inflight[q]) /\ inflight'[q] = inflight[q]
      BY <1>3, <1>7 DEF Pictured
    <3>3. QED BY <2>1, <3>2 DEF PictureFresh, Attached
  <2>4. RowsMatch'
    BY <1>3, <1>7, RowsStay DEF Pictured, RowsMatch
  <2>5. ~failed' => files' \subseteq Range(media') \cup AllAfloat'
    BY <1>3, <1>7, <2>1, <2>2 DEF Pictured
  <2>6. QED BY <2>3, <2>4, <2>5 DEF Pictured, RowsMatch
<1>8. ASSUME NEW r \in Requests, CreateOwner(r) \/ Unbind(r) PROVE Pictured'
  BY <1>7, <1>8 DEF CreateOwner, Unbind, PicturesStay
<1>9. CASE UNCHANGED vars
  BY <1>7, <1>9 DEF vars, PicturesStay
<1>10. QED
  BY <1>3, <1>4, <1>5, <1>6, <1>8, <1>9, LoadUploadPictured, LoadingPictured, WriteFilePictured,
     CommitUploadPictured, UnlinkPictured
  DEF Next, Attaching, Owning, Noting, Tagging, Loading, LabelCommit

LEMMA PicturedInit == Init => Pictured
<1>1. SUFFICES ASSUME Init PROVE Pictured
  OBVIOUS
<1>2. /\ DOMAIN media = {} /\ DOMAIN attachments = {} /\ files = {}
      /\ \A r \in Requests : inflight[r] = Idle
  BY <1>1 DEF Init
<1>3. QED BY <1>2, IdleFresh DEF Pictured, Attached, Range

\* For requests one by one, however many, whatever fails and wherever the process
\* dies: every attachment shows the bytes uploaded for it and they are on disk; and
\* as long as nothing failed, nothing is on disk that no attachment needs.
THEOREM FilesAlwaysMatchRows == Spec => []FilesMatchRows
<1>1. ASSUME TInv, Pictured PROVE FilesMatchRows
  <2>1. BytesKept
    <3>1. SUFFICES ASSUME ~overlap, NEW a \in DOMAIN attachments
                   PROVE  /\ media[attachments[a].media] = attachments[a].bytes
                          /\ attachments[a].bytes \in files
      BY DEF BytesKept
    <3>2. media[attachments[a].media] = attachments[a].bytes /\ attachments[a].media \in DOMAIN media
      BY <1>1, <3>1 DEF Pictured, TInv, TypeOK
    <3>3. attachments[a].bytes \in Range(media)
      BY <3>2 DEF Range
    <3>4. QED BY <1>1, <3>1, <3>2, <3>3 DEF Pictured
  <2>2. NoLitter
    <3>1. SUFFICES ASSUME ~overlap, ~failed, Quiet
                   PROVE  files = Range(media) /\ DOMAIN media = Attached(DOMAIN attachments)
      BY DEF NoLitter
    <3>2. AllAfloat = {}
      BY <3>1, IdleFresh DEF Quiet, AllAfloat
    <3>3. QED BY <1>1, <3>1, <3>2 DEF Pictured
  <2>3. QED BY <2>1, <2>2 DEF FilesMatchRows
<1>2. TInv /\ [Next]_vars => TInv'
  BY TInvStep
<1>3. TInv /\ Alone /\ [Next]_vars => Alone'
  BY AloneStep
<1>4. TInv /\ Alone /\ Pictured /\ [Next]_vars => Pictured'
  BY PicturedStep
<1>5. QED BY TInvInit, AloneInit, PicturedInit, <1>1, <1>2, <1>3, <1>4, PTL DEF Spec

-----------------------------------------------------------------------------
(* Belongings have owners                                                   *)

\* Owned, without the requests.
OwnersExist ==
  /\ \A a \in DOMAIN attachments : attachments[a].owner \in owners
  /\ \A l \in links : l[2] \in owners
  /\ \A n \in DOMAIN notes : notes[n] \in owners

LEMMA OwnedAfter ==
  ASSUME NEW r \in Requests, NEW w, Only(r, w), OwnersExist', OwnerFresh(w)'
  PROVE  Owned'
<1>1. OwnerFresh(Idle)'
  BY DEF OwnerFresh, Idle
<1>2. \A q \in Requests : OwnerFresh(inflight[q])'
  <2>1. SUFFICES ASSUME NEW q \in Requests PROVE OwnerFresh(inflight[q])'
    OBVIOUS
  <2>2. inflight'[q] = Idle \/ inflight'[q] = w
    BY DEF Only
  <2>3. CASE inflight'[q] = Idle
    BY <1>1, <2>3 DEF OwnerFresh
  <2>4. CASE inflight'[q] = w
    BY <2>4 DEF OwnerFresh
  <2>5. QED BY <2>2, <2>3, <2>4
<1>3. QED BY <1>2 DEF Owned, OwnersExist

\* After a request that ends, only the rows matter.
LEMMA OwnedAfterEnd ==
  ASSUME TInv, Alone, ~overlap, NEW r \in Requests, Become(r, Idle), inflight[r] # Idle, OwnersExist'
  PROVE  Owned'
<1>1. OwnerFresh(Idle)'
  BY DEF OwnerFresh, Idle
<1>2. Only(r, Idle)
  BY OnlyMeans
<1>3. QED BY <1>1, <1>2, OwnedAfter

LEMMA OwnerFreshStays ==
  ASSUME NEW w, OwnerFresh(w),
         owners' = owners, attachments' = attachments, links' = links, notes' = notes
  PROVE  OwnerFresh(w)'
<1>1. AttachmentsOf(w.owner)' = AttachmentsOf(w.owner)
  BY Zenon DEF AttachmentsOf
<1>2. LinksOf(w.owner)' = LinksOf(w.owner)
  BY Zenon DEF LinksOf
<1>3. Of(notes, w.owner)' = Of(notes, w.owner)
  BY Zenon DEF Of
<1>4. QED BY <1>1, <1>2, <1>3 DEF OwnerFresh

LEMMA LoadOwned ==
  ASSUME TInv, Alone, ~overlap, Owned, NEW r \in Requests, LoadUpload(r) \/ Loading(r)
  PROVE  Owned'
<1>1. PICK w : Load(r, w) /\ WorkOK(w) /\ (UploadWork(w) \/ OtherWork(w))
  BY LoadUploadMeans, LoadingMeans
<1>2. /\ Become(r, w) /\ Quiet
      /\ owners' = owners /\ attachments' = attachments /\ links' = links /\ notes' = notes
  BY <1>1, LoadMeans DEF pictures, labels
<1>3. Only(r, w)
  BY <1>2, OnlyMeans
<1>4. OwnersExist'
  BY <1>2 DEF Owned, OwnersExist
<1>5. OwnerFresh(w)
  BY <1>1 DEF OwnerFresh, UploadWork, OtherWork
<1>6. OwnerFresh(w)'
  BY <1>2, <1>5, OwnerFreshStays
<1>7. QED BY <1>3, <1>4, <1>6, OwnedAfter

LEMMA WriteFileOwned ==
  ASSUME TInv, Alone, ~overlap, Owned, NEW r \in Requests, WriteFile(r)
  PROVE  Owned'
<1>1. PICK w : w = inflight[r]
  OBVIOUS
<1>2. PICK done : done = [w EXCEPT !.stage = "commit"]
  OBVIOUS
<1>3. /\ w.stage = "write" /\ Become(r, done)
      /\ owners' = owners /\ attachments' = attachments /\ links' = links /\ notes' = notes
  BY <1>1, <1>2 DEF WriteFile, pictures, labels
<1>4. w = [stage |-> "write", op |-> "upload", owner |-> w.owner, bytes |-> w.bytes, media |-> Null]
  BY <1>1, <1>3 DEF TInv, Working, WorkOK
<1>5. done.stage = "commit" /\ done.op = "upload" /\ done.owner = w.owner
  BY <1>2, <1>4
<1>6. inflight[r] # Idle
  BY <1>1, <1>3, NotIdle
<1>7. Only(r, done)
  BY <1>3, <1>6, OnlyMeans
<1>8. w.owner \in owners
  BY <1>1, <1>3 DEF Owned, OwnerFresh
<1>9. OwnerFresh(done)'
  BY <1>3, <1>5, <1>8 DEF OwnerFresh
<1>10. OwnersExist'
  BY <1>3 DEF Owned, OwnersExist
<1>11. QED BY <1>7, <1>9, <1>10, OwnedAfter

LEMMA CommitUploadOwned ==
  ASSUME TInv, Alone, ~overlap, Owned, NEW r \in Requests, CommitUpload(r)
  PROVE  Owned'
<1> DEFINE w == inflight[r]
           m == IF w.media = Null THEN NewId(DOMAIN media) ELSE w.media
           a == NewId(DOMAIN attachments)
           row == [media |-> m, owner |-> w.owner, bytes |-> w.bytes]
<1>1. /\ w.stage = "commit" /\ w.op = "upload"
      /\ DOMAIN attachments' = DOMAIN attachments \cup {a}
      /\ attachments'[a] = row
      /\ \A i \in DOMAIN attachments : attachments'[i] = attachments[i]
      /\ Become(r, Idle)
      /\ UNCHANGED <<owners, labels>>
  BY CommitUploadMeans
<1>2. w # Idle
  BY <1>1, NotIdle
<1>3. w.owner \in owners /\ row.owner = w.owner
  BY <1>1 DEF Owned, OwnerFresh
<1> HIDE DEF w, m, a, row
<1>4. OwnersExist'
  BY <1>1, <1>3 DEF Owned, OwnersExist, labels
<1>5. QED BY <1>1, <1>2, <1>4, OwnedAfterEnd DEF w

\* Of deleting an owner and detaching, the work after the commit is no owner's.
LEMMA AfterUnlink ==
  ASSUME TInv, Alone, ~overlap, NEW r \in Requests, inflight[r] # Idle, ThenUnlink(r), OwnersExist'
  PROVE  Owned'
<1>1. PICK w : Become(r, w) /\ (w = Idle \/ w.stage = "unlink")
  BY ThenUnlinkMeans
<1>2. w.stage \notin {"write", "commit"}
  BY <1>1 DEF Idle
<1>3. OwnerFresh(w)' /\ Only(r, w)
  BY <1>1, <1>2, OnlyMeans DEF OwnerFresh
<1>4. QED BY <1>3, OwnedAfter

LEMMA CommitDetachOwned ==
  ASSUME TInv, Alone, ~overlap, Owned, NEW r \in Requests, CommitDetach(r)
  PROVE  Owned'
<1>1. /\ inflight[r] # Idle /\ ThenUnlink(r)
      /\ Detach(inflight[r].attachments, inflight[r].media)
      /\ owners' = owners /\ links' = links /\ notes' = notes
  BY NotIdle DEF CommitDetach, Ready, labels
<1>2. \A a \in DOMAIN attachments' : a \in DOMAIN attachments /\ attachments'[a] = attachments[a]
  BY <1>1, DetachMeans
<1>3. OwnersExist'
  BY <1>1, <1>2 DEF Owned, OwnersExist
<1>4. QED BY <1>1, <1>3, AfterUnlink

\* The lists of what the owner has are complete when they are deleted.
LEMMA CommitDeleteOwnerOwned ==
  ASSUME TInv, Alone, ~overlap, Owned, NEW r \in Requests, CommitDeleteOwner(r)
  PROVE  Owned'
<1>1. PICK w : w = inflight[r]
  OBVIOUS
<1>2. /\ inflight[r] # Idle /\ ThenUnlink(r) /\ w.stage = "commit" /\ w.op = "delete owner"
      /\ Detach(w.attachments, w.media)
      /\ links' = links \ ListedLinks(w)
      /\ notes' = Restrict(notes, DOMAIN notes \ ListedNotes(w))
      /\ owners' = owners \ {w.owner}
  BY <1>1, NotIdle DEF CommitDeleteOwner, Ready
<1>3. /\ w.attachments = AttachmentsOf(w.owner)
      /\ ListedLinks(w) = LinksOf(w.owner)
      /\ ListedNotes(w) = Of(notes, w.owner)
  BY <1>1, <1>2 DEF Owned, OwnerFresh, ListedLinks, ListedNotes
<1>4. /\ DOMAIN attachments' = DOMAIN attachments \ w.attachments
      /\ \A a \in DOMAIN attachments' : attachments'[a] = attachments[a]
  BY <1>2, DetachMeans
<1>5. \A a \in DOMAIN attachments' : attachments'[a].owner \in owners'
  BY <1>2, <1>3, <1>4 DEF Owned, AttachmentsOf
<1>6. \A l \in links' : l[2] \in owners'
  BY <1>2, <1>3 DEF Owned, LinksOf
<1>7. \A n \in DOMAIN notes' : notes'[n] \in owners'
  BY <1>2, <1>3 DEF Owned, Of, Restrict
<1>8. OwnersExist'
  BY <1>5, <1>6, <1>7 DEF OwnersExist
<1>9. QED BY <1>2, <1>8, AfterUnlink

LEMMA LabelCommitOwned ==
  ASSUME TInv, Alone, ~overlap, Owned, NEW r \in Requests, LabelCommit(r)
  PROVE  Owned'
<1>1. /\ Become(r, Idle) /\ inflight[r] # Idle /\ inflight[r].stage = "commit"
      /\ owners' = owners /\ attachments' = attachments
  BY LabelCommitMeans, NotIdle DEF Done, PicturesStay, pictures
<1>2. (\A n \in DOMAIN notes' : notes'[n] \in owners') /\ (\A l \in links' : l[2] \in owners')
  <2>1. CASE CommitNote(r)
    <3>1. /\ inflight[r].owner \in owners /\ links' = links
          /\ notes' = Insert(notes, NewId(DOMAIN notes), inflight[r].owner)
      BY <2>1, <1>1 DEF CommitNote, Ready, Owned, OwnerFresh
    <3>2. QED BY <1>1, <3>1 DEF Insert, Owned
  <2>2. CASE CommitDeleteNote(r)
    BY <1>1, <2>2 DEF CommitDeleteNote, Restrict, Owned
  <2>3. CASE CommitBind(r) \/ CommitTag(r) \/ CommitRename(r)
    BY <1>1, <2>3 DEF CommitBind, CommitTag, CommitRename, Owned
  <2>4. CASE CommitDeleteTag(r)
    BY <1>1, <2>4 DEF CommitDeleteTag, Owned
  <2>5. CASE CommitRetag(r)
    <3>1. PICK w : w = inflight[r]
      OBVIOUS
    <3>2. w.owner \in owners /\ notes' = notes
      BY <1>1, <2>5, <3>1 DEF CommitRetag, Ready, Owned, OwnerFresh
    <3>3. PICK kept : links' = (links \cup (kept \X {w.owner})) \ (w.drop \X {w.owner})
      BY <2>5, <3>1 DEF CommitRetag
    <3>4. \A l \in links' : l \in links \/ l[2] = w.owner
      BY <3>3
    <3>5. QED BY <1>1, <3>2, <3>4 DEF Owned
  <2>6. QED BY <2>1, <2>2, <2>3, <2>4, <2>5 DEF LabelCommit
<1>3. OwnersExist'
  BY <1>1, <1>2 DEF Owned, OwnersExist
<1>4. QED BY <1>1, <1>3, OwnedAfterEnd

LEMMA OwnedStep ==
  ASSUME TInv, Alone, Owned, [Next]_vars
  PROVE  Owned'
<1>1. SUFFICES ASSUME ~overlap PROVE Owned'
  BY OverlapStays DEF Owned
<1>2. ASSUME NEW r \in Requests, Unlink(r) \/ Fail(r) PROVE Owned'
  <2>1. /\ Become(r, Idle) /\ inflight[r] # Idle
        /\ owners' = owners /\ attachments' = attachments /\ links' = links /\ notes' = notes
    BY <1>2, NotIdle DEF Unlink, Fail, Done, pictures, labels
  <2>2. OwnersExist'
    BY <1>1, <2>1 DEF Owned, OwnersExist
  <2>3. QED BY <1>1, <2>1, <2>2, OwnedAfterEnd
<1>3. ASSUME NEW r \in Requests, CreateOwner(r) PROVE Owned'
  <2>1. /\ Quiet /\ inflight' = inflight
        /\ owners \subseteq owners' /\ attachments' = attachments /\ links' = links /\ notes' = notes
    BY <1>1, <1>3 DEF CreateOwner, pictures, labels
  <2>2. \A q \in Requests : OwnerFresh(inflight[q])'
    <3>1. \A q \in Requests : inflight'[q] = Idle /\ Idle.stage = "idle"
      BY <2>1 DEF Quiet, Idle
    <3>2. QED BY <3>1 DEF OwnerFresh
  <2>3. QED BY <1>1, <2>1, <2>2 DEF Owned
<1>4. ASSUME owners' = owners, attachments' = attachments, links' = links, notes' = notes,
             inflight' = inflight
      PROVE  Owned'
  <2>1. \A q \in Requests : OwnerFresh(inflight[q])'
    <3>1. SUFFICES ASSUME NEW q \in Requests PROVE OwnerFresh(inflight[q])'
      OBVIOUS
    <3>2. PICK w : w = inflight[q]
      OBVIOUS
    <3>3. OwnerFresh(w)'
      BY <1>1, <1>4, <3>2, OwnerFreshStays DEF Owned
    <3>4. QED BY <1>4, <3>2, <3>3
  <2>2. QED BY <1>1, <1>4, <2>1 DEF Owned
<1>5. ASSUME NEW r \in Requests, Unbind(r) PROVE Owned'
  BY <1>4, <1>5 DEF Unbind, pictures
<1>6. CASE UNCHANGED vars
  BY <1>4, <1>6 DEF vars, pictures, labels
<1>7. QED
  BY <1>1, <1>2, <1>3, <1>5, <1>6, LoadOwned, WriteFileOwned, CommitUploadOwned, CommitDetachOwned,
     CommitDeleteOwnerOwned, LabelCommitOwned
  DEF Next, Attaching, Owning, Noting, Tagging, Loading, LabelCommit

\* For requests one by one, whatever fails: no attachment, tag link or note is left
\* behind when its owner is deleted, so a new owner that is given the id of a deleted
\* one starts bare.
THEOREM NothingOutlivesItsOwner == Spec => []BelongingsHaveOwners
<1>1. Init => Owned
  <2>1. SUFFICES ASSUME Init PROVE Owned
    OBVIOUS
  <2>2. /\ DOMAIN attachments = {} /\ DOMAIN notes = {} /\ links = {}
        /\ \A r \in Requests : inflight[r] = Idle
    BY <2>1 DEF Init
  <2>3. QED BY <2>2, IdleFresh DEF Owned
<1>2. TInv /\ [Next]_vars => TInv'
  BY TInvStep
<1>3. TInv /\ Alone /\ [Next]_vars => Alone'
  BY AloneStep
<1>4. TInv /\ Alone /\ Owned /\ [Next]_vars => Owned'
  BY OwnedStep
<1>5. Owned => BelongingsHaveOwners
  BY DEF Owned, BelongingsHaveOwners, Range
<1>6. QED BY TInvInit, AloneInit, <1>1, <1>2, <1>3, <1>4, <1>5, PTL DEF Spec

-----------------------------------------------------------------------------
(* Names differ                                                             *)

NamesApart == \A t, u \in DOMAIN tags : Folded(tags[t]) = Folded(tags[u]) => t = u

LEMMA NamedAfter ==
  ASSUME NEW r \in Requests, NEW w, Only(r, w), NamesApart', NameFresh(w)'
  PROVE  NamesHeld'
<1>1. NameFresh(Idle)'
  BY DEF NameFresh, Idle
<1>2. \A q \in Requests : NameFresh(inflight[q])'
  <2>1. SUFFICES ASSUME NEW q \in Requests PROVE NameFresh(inflight[q])'
    OBVIOUS
  <2>2. inflight'[q] = Idle \/ inflight'[q] = w
    BY DEF Only
  <2>3. CASE inflight'[q] = Idle
    BY <1>1, <2>3 DEF NameFresh
  <2>4. CASE inflight'[q] = w
    BY <2>4 DEF NameFresh
  <2>5. QED BY <2>2, <2>3, <2>4
<1>3. QED BY <1>2 DEF NamesHeld, NamesApart

\* While names are apart, the first tag of a name is the only one.
LEMMA NotTakenIsFree ==
  ASSUME TInv, NamesApart, NEW name, NEW t, ~Taken(name, t)
  PROVE  Free(name, t)
<1>1. SUFFICES ASSUME NEW u \in DOMAIN tags \ {t}, Folded(tags[u]) = Folded(name)
               PROVE FALSE
  BY DEF Free
<1>2. u \in Named(name) /\ Named(name) \subseteq Nat
  BY <1>1 DEF Named, TInv, RowsNumbered, Ids
<1>3. PICK first \in Named(name) : \A v \in Named(name) : first <= v
  BY <1>2, LeastExists
<1>4. first \in DOMAIN tags /\ Folded(tags[first]) = Folded(tags[u])
  BY <1>1, <1>3 DEF Named
<1>5. first = u
  BY <1>1, <1>4 DEF NamesApart
<1>6. QED BY <1>1, <1>3, <1>5 DEF Taken

LEMMA LoadNamed ==
  ASSUME TInv, Alone, ~overlap, NamesHeld, NEW r \in Requests, LoadUpload(r) \/ Loading(r)
  PROVE  NamesHeld'
<1>1. PICK w : Load(r, w) /\ WorkOK(w) /\ (UploadWork(w) \/ OtherWork(w))
  BY LoadUploadMeans, LoadingMeans
<1>2. Become(r, w) /\ Quiet /\ tags' = tags
  BY <1>1, LoadMeans DEF labels
<1>3. Only(r, w)
  BY <1>2, OnlyMeans
<1>4. NameFresh(w)
  <2>1. NamesApart
    BY DEF NamesHeld, NamesApart
  <2>2. QED BY <1>1, <2>1, NotTakenIsFree DEF NameFresh, UploadWork, OtherWork
<1>5. NameFresh(w)'
  BY <1>2, <1>4 DEF NameFresh, Free
<1>6. NamesApart'
  BY <1>2 DEF NamesHeld, NamesApart
<1>7. QED BY <1>3, <1>5, <1>6, NamedAfter

LEMMA EndNamed ==
  ASSUME TInv, Alone, ~overlap, NEW r \in Requests, inflight[r] # Idle, NEW w, Become(r, w),
         ~(w.stage = "commit" /\ w.op \in {"tag", "rename"}), NamesApart'
  PROVE  NamesHeld'
<1>1. NameFresh(w)'
  BY DEF NameFresh
<1>2. Only(r, w)
  BY OnlyMeans
<1>3. QED BY <1>1, <1>2, NamedAfter

LEMMA TagsApart ==
  ASSUME TInv, ~overlap, NamesHeld, NEW r \in Requests, CommitTag(r) \/ CommitRename(r) \/ CommitDeleteTag(r)
  PROVE  NamesApart'
<1>1. PICK w : w = inflight[r]
  OBVIOUS
<1>2. NamesApart
  BY DEF NamesHeld, NamesApart
<1>3. CASE CommitTag(r)
  <2>1. PICK t : t = NewId(DOMAIN tags)
    OBVIOUS
  <2>2. tags' = Insert(tags, t, w.name) /\ Free(w.name, Null)
    BY <1>1, <1>3, <2>1 DEF CommitTag, Ready, NamesHeld, NameFresh
  <2>3. t \notin DOMAIN tags
    BY <2>1, NewIdFresh DEF TInv, RowsNumbered
  <2>4. Null \notin DOMAIN tags
    BY BelongingConstants DEF TInv, RowsNumbered, Ids
  <2>5. /\ DOMAIN tags' = DOMAIN tags \cup {t} /\ tags'[t] = w.name
        /\ \A u \in DOMAIN tags : tags'[u] = tags[u]
    BY <2>2, <2>3 DEF Insert
  <2>6. \A u \in DOMAIN tags : Folded(tags[u]) # Folded(w.name)
    BY <2>2, <2>4 DEF Free
  <2>7. QED BY <1>2, <2>5, <2>6 DEF NamesApart
<1>4. CASE CommitRename(r)
  <2>1. /\ w.tag \in DOMAIN tags /\ tags' = [tags EXCEPT ![w.tag] = w.name]
        /\ Free(w.name, w.tag)
    BY <1>1, <1>4 DEF CommitRename, Ready, NamesHeld, NameFresh
  <2>2. /\ DOMAIN tags' = DOMAIN tags /\ tags'[w.tag] = w.name
        /\ \A u \in DOMAIN tags \ {w.tag} : tags'[u] = tags[u] /\ Folded(tags[u]) # Folded(w.name)
    BY <2>1 DEF Free
  <2>3. QED BY <1>2, <2>1, <2>2 DEF NamesApart
<1>5. CASE CommitDeleteTag(r)
  <2>1. tags' = Restrict(tags, DOMAIN tags \ {w.tag})
    BY <1>1, <1>5 DEF CommitDeleteTag
  <2>2. \A u \in DOMAIN tags' : u \in DOMAIN tags /\ tags'[u] = tags[u]
    BY <2>1 DEF Restrict
  <2>3. QED BY <1>2, <2>2 DEF NamesApart
<1>6. QED BY <1>3, <1>4, <1>5

LEMMA NamedStep ==
  ASSUME TInv, Alone, NamesHeld, [Next]_vars
  PROVE  NamesHeld'
<1>1. SUFFICES ASSUME ~overlap PROVE NamesHeld'
  BY OverlapStays DEF NamesHeld
<1>2. ASSUME tags' = tags PROVE NamesApart'
  BY <1>1, <1>2 DEF NamesHeld, NamesApart
<1>3. ASSUME NEW r \in Requests, LabelCommit(r) PROVE NamesHeld'
  <2>1. Become(r, Idle) /\ inflight[r] # Idle
    BY <1>3, LabelCommitMeans, NotIdle DEF Done
  <2>2. NamesApart'
    <3>1. CASE CommitTag(r) \/ CommitRename(r) \/ CommitDeleteTag(r)
      BY <1>1, <3>1, TagsApart
    <3>2. CASE CommitNote(r) \/ CommitDeleteNote(r) \/ CommitBind(r) \/ CommitRetag(r)
      BY <1>2, <3>2 DEF CommitNote, CommitDeleteNote, CommitBind, CommitRetag
    <3>3. QED BY <1>3, <3>1, <3>2 DEF LabelCommit
  <2>3. QED BY <1>1, <2>1, <2>2, EndNamed, IdleOK
<1>4. ASSUME NEW r \in Requests, CommitUpload(r) \/ Unlink(r) \/ Fail(r) PROVE NamesHeld'
  <2>1. Become(r, Idle) /\ inflight[r] # Idle /\ tags' = tags
    BY <1>4, NotIdle DEF CommitUpload, Ready, Unlink, Fail, Done, labels
  <2>2. QED BY <1>1, <1>2, <2>1, EndNamed, IdleOK
<1>5. ASSUME NEW r \in Requests, CommitDetach(r) \/ CommitDeleteOwner(r) PROVE NamesHeld'
  <2>1. ThenUnlink(r) /\ inflight[r] # Idle /\ tags' = tags
    BY <1>5, NotIdle DEF CommitDetach, CommitDeleteOwner, Ready, labels
  <2>2. PICK w : Become(r, w) /\ w.stage # "commit"
    BY <2>1, ThenUnlinkMeans, IdleOK
  <2>3. QED BY <1>1, <1>2, <2>1, <2>2, EndNamed
<1>6. ASSUME NEW r \in Requests, WriteFile(r) PROVE NamesHeld'
  <2>1. PICK done : done = [inflight[r] EXCEPT !.stage = "commit"]
    OBVIOUS
  <2>2. inflight[r].stage = "write" /\ Become(r, done) /\ tags' = tags
    BY <1>6, <2>1 DEF WriteFile, labels
  <2>3. PICK w : w = inflight[r]
    OBVIOUS
  <2>4. w = [stage |-> "write", op |-> "upload", owner |-> w.owner, bytes |-> w.bytes, media |-> Null]
    BY <2>2, <2>3 DEF TInv, Working, WorkOK
  <2>5. done.op = "upload"
    BY <2>1, <2>3, <2>4
  <2>6. QED BY <1>1, <1>2, <2>2, <2>5, NotIdle, EndNamed
<1>7. ASSUME tags' = tags, inflight' = inflight PROVE NamesHeld'
  BY <1>1, <1>7 DEF NamesHeld, NameFresh, Free
<1>8. ASSUME NEW r \in Requests, CreateOwner(r) \/ Unbind(r) PROVE NamesHeld'
  BY <1>7, <1>8 DEF CreateOwner, Unbind, labels
<1>9. CASE UNCHANGED vars
  BY <1>7, <1>9 DEF vars, labels
<1>10. QED
  BY <1>1, <1>3, <1>4, <1>5, <1>6, <1>8, <1>9, LoadNamed
  DEF Next, Attaching, Owning, Noting, Tagging, Loading, LabelCommit

\* For requests one by one, after any creations and renamings, no two tags have
\* names that differ only in the case of ASCII letters, although the unique constraint
\* compares names as they are spelled.
THEOREM NamesStayApart == Spec => []NamesDiffer
<1>1. Init => NamesHeld
  <2>1. SUFFICES ASSUME Init PROVE NamesHeld
    OBVIOUS
  <2>2. DOMAIN tags = {} /\ \A r \in Requests : inflight[r] = Idle
    BY <2>1 DEF Init
  <2>3. QED BY <2>2, IdleFresh DEF NamesHeld
<1>2. TInv /\ [Next]_vars => TInv'
  BY TInvStep
<1>3. TInv /\ Alone /\ [Next]_vars => Alone'
  BY AloneStep
<1>4. TInv /\ Alone /\ NamesHeld /\ [Next]_vars => NamesHeld'
  BY NamedStep
<1>5. NamesHeld => NamesDiffer
  BY DEF NamesHeld, NamesDiffer
<1>6. QED BY TInvInit, AloneInit, <1>1, <1>2, <1>3, <1>4, <1>5, PTL DEF Spec
=============================================================================

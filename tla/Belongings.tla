------------------------------ MODULE Belongings ------------------------------
(***************************************************************************)
(* What hangs on an owner (an item definition, a lot or a location): files *)
(* (attachments), tags, notes and barcodes.  The first three name their    *)
(* owner by type and id, without a foreign key: the services look the      *)
(* owner up first and clear its belongings when it is deleted.  The bytes  *)
(* of a file are kept once, under their hash, outside the database; the    *)
(* media_files row goes with its last attachment and the file is unlinked  *)
(* after that commit.                                                      *)
(*                                                                         *)
(* A request is what it reads before its first write (Load...) and what it *)
(* then writes in one transaction (Commit...), with the file operations in *)
(* steps of their own before and after.  It may fail at any point.         *)
(*                                                                         *)
(* Abstracted: owners are of one type and none is refused deletion, bytes  *)
(* are model values (after validation and down-scaling), a tag name is a   *)
(* word, the case of its ASCII letters and the case of its other letters,  *)
(* a tag link is its (tag, owner) pair.                                    *)
(***************************************************************************)
EXTENDS Integers, FiniteSets, FiniteSetsExt, Functions

CONSTANTS
  Contents,    \* what files hold
  Words,       \* tag names that differ in more than case ...
  Cases,       \* ... and ways to write their letters
  Codes,       \* barcodes
  Requests,    \* requests that may be in progress together
  Schedules,   \* of overlap: FALSE for requests one by one, TRUE for any order
  MaxId,       \* bound on the ids of every table
  MaxChanges,  \* bound on the requests
  Null

ASSUME BelongingConstants ==
  /\ Schedules \subseteq BOOLEAN
  /\ MaxId \in Nat \ {0} /\ MaxChanges \in Nat
  /\ Null \notin Nat

VARIABLES
  owners,       \* ids
  media,        \* media_files: id -> the bytes it is the hash of
  files,        \* the bytes that are on disk
  attachments,  \* id -> row, with the bytes that were uploaded
  tags,         \* id -> name
  links,        \* tag_links: pairs of a tag and an owner
  notes,        \* id -> owner
  barcodes,     \* code -> owner
  inflight,     \* per request, the work it has prepared
  failed,       \* whether a request has ended before its end
  changes,      \* how much of the bound is used
  overlap       \* whether requests overlap; chosen at the start

labels == <<tags, links, notes, barcodes>>
pictures == <<media, attachments>>
vars == <<owners, pictures, files, labels, inflight, failed, changes, overlap>>

Attachment == [media : Nat, owner : Nat, bytes : Contents]

\* SQLite numbers a row one above the highest id in use.
NewId(ids) == Max(ids \cup {0}) + 1

\* A row is added under an id that is not in use.
Insert(table, id, row) == [i \in DOMAIN table \cup {id} |-> IF i = id THEN row ELSE table[i]]

Of(table, o) == {i \in DOMAIN table : table[i] = o}
AttachmentsOf(o) == {a \in DOMAIN attachments : attachments[a].owner = o}
LinksOf(o) == {l \in links : l[2] = o}

\* A name as lower() of SQLite makes it: only ASCII letters change.
Folded(name) == <<name[1], name[3]>>

-----------------------------------------------------------------------------
(* Requests *)

Idle == [stage |-> "idle"]

Quiet == \A r \in Requests : inflight[r] = Idle

Become(r, work) == inflight' = [inflight EXCEPT ![r] = work]

\* A request comes, reads, and prepares its work.
Load(r, work) ==
  /\ changes < MaxChanges /\ changes' = changes + 1
  /\ inflight[r] = Idle
  /\ ~overlap => Quiet
  /\ Become(r, work)
  /\ UNCHANGED <<owners, pictures, files, labels, failed, overlap>>

\* It is at the commit of operation op.
Ready(r, op) == inflight[r].stage = "commit" /\ inflight[r].op = op

Done(r) == Become(r, Idle) /\ UNCHANGED <<failed, changes, overlap>>

\* It ends early: refused by a constraint, an error, or the process dies.
Fail(r) ==
  /\ inflight[r] # Idle
  /\ Become(r, Idle)
  /\ failed' = TRUE
  /\ UNCHANGED <<owners, pictures, files, labels, changes, overlap>>

(* Attachments *)

\* POST /attachments: the owner is looked up, then the hash.
LoadUpload(r) ==
  \E o \in owners, c \in Contents :
    LET known == Of(media, c)
        work(stage, m) == [stage |-> stage, op |-> "upload", owner |-> o, bytes |-> c, media |-> m]
    IN  Load(r, IF known = {} THEN work("write", Null) ELSE work("commit", CHOOSE m \in known : TRUE))

\* Unknown bytes are written under their hash, unless a file is there.
WriteFile(r) ==
  /\ inflight[r].stage = "write"
  /\ files' = files \cup {inflight[r].bytes}
  /\ Become(r, [inflight[r] EXCEPT !.stage = "commit"])
  /\ UNCHANGED <<owners, pictures, labels, failed, changes, overlap>>

UniqueHash(rows) == \A m, n \in DOMAIN rows : rows[m] = rows[n] => m = n

\* The media_files row, unless the hash was known, and the attachment.
CommitUpload(r) ==
  LET w == inflight[r]
      m == IF w.media = Null THEN NewId(DOMAIN media) ELSE w.media
      a == NewId(DOMAIN attachments)
  IN  /\ Ready(r, "upload")
      /\ {a, m} \subseteq 1 .. MaxId
      /\ media' = IF w.media = Null THEN Insert(media, m, w.bytes) ELSE media
      /\ m \in DOMAIN media' /\ UniqueHash(media')
      /\ attachments' = Insert(attachments, a, [media |-> m, owner |-> w.owner, bytes |-> w.bytes])
      /\ Done(r)
      /\ UNCHANGED <<owners, files, labels>>

\* Of the media rows ms those that the attachments left do not refer to.
Unreferenced(ms, left) ==
  {m \in ms \cap DOMAIN media : \A a \in DOMAIN left : left[a].media # m}

\* Delete the attachments that were loaded, then the media rows, as they were
\* loaded, of which they were the last.
Detach(as, ms) ==
  LET left == Restrict(attachments, DOMAIN attachments \ as)
  IN  /\ attachments' = left
      /\ media' = Restrict(media, DOMAIN media \ Unreferenced(ms, left))
      /\ \A a \in DOMAIN left : left[a].media \in DOMAIN media'

\* Mutant: the file is unlinked with any of its references.
ThenUnlink_Referenced(r) ==
  LET gone == {media[m] : m \in inflight[r].media \cap DOMAIN media}
  IN  /\ Become(r, IF gone = {} THEN Idle ELSE [stage |-> "unlink", bytes |-> gone])
      /\ UNCHANGED <<failed, changes, overlap>>

\* What is to be unlinked after the commit, if anything.
ThenUnlink(r) ==
  LET gone == {media[m] : m \in DOMAIN media \ DOMAIN media'}
  IN  /\ Become(r, IF gone = {} THEN Idle ELSE [stage |-> "unlink", bytes |-> gone])
      /\ UNCHANGED <<failed, changes, overlap>>

Attached(as) == {attachments[a].media : a \in as}

\* DELETE /attachments/{id}
LoadDetach(r) ==
  \E a \in DOMAIN attachments :
    Load(r, [stage |-> "commit", op |-> "detach", attachments |-> {a}, media |-> Attached({a})])

CommitDetach(r) ==
  /\ Ready(r, "detach")
  /\ Detach(inflight[r].attachments, inflight[r].media)
  /\ ThenUnlink(r)
  /\ UNCHANGED <<owners, files, labels>>

\* unlink_post_commit
Unlink(r) ==
  /\ inflight[r].stage = "unlink"
  /\ files' = files \ inflight[r].bytes
  /\ Done(r)
  /\ UNCHANGED <<owners, pictures, labels>>

(* Owners *)

\* POST of a definition, a lot or a location
CreateOwner(r) ==
  /\ changes < MaxChanges /\ changes' = changes + 1
  /\ inflight[r] = Idle
  /\ ~overlap => Quiet
  /\ NewId(owners) <= MaxId
  /\ owners' = owners \cup {NewId(owners)}
  /\ UNCHANGED <<pictures, files, labels, inflight, failed, overlap>>

\* DELETE of an owner: its attachments, links and notes are listed.
LoadDeleteOwner(r) ==
  \E o \in owners :
    Load(r, [stage |-> "commit", op |-> "delete owner", owner |-> o,
             attachments |-> AttachmentsOf(o), media |-> Attached(AttachmentsOf(o)),
             links |-> LinksOf(o), notes |-> Of(notes, o)])

\* Mutant: the notes are forgotten.
ListedNotes_None(w) == {}

\* A list read after the first write of the session is up to date.
ListedLinks(w) == IF w.attachments = {} THEN w.links ELSE LinksOf(w.owner)
ListedNotes(w) == IF w.attachments = {} /\ w.links = {} THEN w.notes ELSE Of(notes, w.owner)

\* Its barcodes go by the foreign key.
CommitDeleteOwner(r) ==
  LET w == inflight[r]
  IN  /\ Ready(r, "delete owner")
      /\ Detach(w.attachments, w.media)
      /\ links' = links \ ListedLinks(w)
      /\ notes' = Restrict(notes, DOMAIN notes \ ListedNotes(w))
      /\ barcodes' = Restrict(barcodes, DOMAIN barcodes \ Of(barcodes, w.owner))
      /\ owners' = owners \ {w.owner}
      /\ ThenUnlink(r)
      /\ UNCHANGED <<files, tags>>

(* Notes and barcodes *)

\* POST /notes
LoadNote(r) ==
  \E o \in owners : Load(r, [stage |-> "commit", op |-> "note", owner |-> o])

CommitNote(r) ==
  /\ Ready(r, "note")
  /\ NewId(DOMAIN notes) <= MaxId
  /\ notes' = Insert(notes, NewId(DOMAIN notes), inflight[r].owner)
  /\ Done(r)
  /\ UNCHANGED <<owners, pictures, files, tags, links, barcodes>>

\* DELETE /notes/{id}
LoadDeleteNote(r) ==
  \E n \in DOMAIN notes : Load(r, [stage |-> "commit", op |-> "delete note", note |-> n])

CommitDeleteNote(r) ==
  /\ Ready(r, "delete note")
  /\ notes' = Restrict(notes, DOMAIN notes \ {inflight[r].note})
  /\ Done(r)
  /\ UNCHANGED <<owners, pictures, files, tags, links, barcodes>>

\* POST /definitions/{id}/barcodes: a code that is bound is refused ...
LoadBind(r) ==
  \E o \in owners, c \in Codes \ DOMAIN barcodes :
    Load(r, [stage |-> "commit", op |-> "bind", owner |-> o, code |-> c])

\* ... and again by the unique and the foreign key.
Bindable(w) == w.code \notin DOMAIN barcodes /\ w.owner \in owners

CommitBind(r) ==
  /\ Ready(r, "bind")
  /\ Bindable(inflight[r])
  /\ barcodes' = Insert(barcodes, inflight[r].code, inflight[r].owner)
  /\ Done(r)
  /\ UNCHANGED <<owners, pictures, files, tags, links, notes>>

\* DELETE /barcodes/{id}
Unbind(r) ==
  \E c \in DOMAIN barcodes :
    /\ changes < MaxChanges /\ changes' = changes + 1
    /\ inflight[r] = Idle
    /\ ~overlap => Quiet
    /\ barcodes' = Restrict(barcodes, DOMAIN barcodes \ {c})
    /\ UNCHANGED <<owners, pictures, files, tags, links, notes, inflight, failed, overlap>>

(* Tags *)

\* A word, the case of its ASCII letters and the case of its other letters
Names == Words \X Cases \X Cases

Named(name) == {u \in DOMAIN tags : Folded(tags[u]) = Folded(name)}

\* Mutant: a name is looked up as it is spelled.
Taken_AsSpelled(name, t) == \E u \in DOMAIN tags \ {t} : tags[u] = name

\* The first tag that is found under this name is another than t.
Taken(name, t) == \E u \in Named(name) \ {t} : \A v \in Named(name) : u <= v

\* POST /tags
LoadTag(r) ==
  \E name \in Names :
    ~Taken(name, Null) /\ Load(r, [stage |-> "commit", op |-> "tag", name |-> name])

\* The unique constraint compares names as they are spelled.
CommitTag(r) ==
  /\ Ready(r, "tag")
  /\ NewId(DOMAIN tags) <= MaxId
  /\ inflight[r].name \notin Range(tags)
  /\ tags' = Insert(tags, NewId(DOMAIN tags), inflight[r].name)
  /\ Done(r)
  /\ UNCHANGED <<owners, pictures, files, links, notes, barcodes>>

\* PATCH /tags/{id}
LoadRename(r) ==
  \E t \in DOMAIN tags, name \in Names :
    /\ name # tags[t] /\ ~Taken(name, t)
    /\ Load(r, [stage |-> "commit", op |-> "rename", tag |-> t, name |-> name])

CommitRename(r) ==
  LET w == inflight[r]
  IN  /\ Ready(r, "rename")
      /\ w.tag \in DOMAIN tags
      /\ \A u \in DOMAIN tags \ {w.tag} : tags[u] # w.name
      /\ tags' = [tags EXCEPT ![w.tag] = w.name]
      /\ Done(r)
      /\ UNCHANGED <<owners, pictures, files, links, notes, barcodes>>

\* DELETE /tags/{id}
LoadDeleteTag(r) ==
  \E t \in DOMAIN tags : Load(r, [stage |-> "commit", op |-> "delete tag", tag |-> t])

\* Its links go by the foreign key.
CommitDeleteTag(r) ==
  LET t == inflight[r].tag
  IN  /\ Ready(r, "delete tag")
      /\ tags' = Restrict(tags, DOMAIN tags \ {t})
      /\ links' = {l \in links : l[1] # t}
      /\ Done(r)
      /\ UNCHANGED <<owners, pictures, files, notes, barcodes>>

\* PUT /tags/links: the owner and every tag wanted are looked up, and what is
\* to be added and dropped is worked out.
LoadRetag(r) ==
  \E o \in owners, wanted \in SUBSET DOMAIN tags :
    LET current == {l[1] : l \in LinksOf(o)}
    IN  /\ wanted # current
        /\ Load(r, [stage |-> "commit", op |-> "retag", owner |-> o,
                    add |-> wanted \ current, drop |-> current \ wanted])

\* Mutant: the link is made without its foreign key.
Linked_NoForeignKey(w, kept) == kept = w.add

\* Which links are made, in whatever order: one to a tag that is gone by now is
\* refused, and that rolls back those made before it in this request.
Linked(w, kept) ==
  kept \subseteq w.add \cap DOMAIN tags /\ (w.add \subseteq DOMAIN tags => kept = w.add)

CommitRetag(r) ==
  LET w == inflight[r]
  IN  /\ Ready(r, "retag")
      /\ \E kept \in SUBSET w.add :
           /\ Linked(w, kept)
           /\ links' = (links \cup (kept \X {w.owner})) \ (w.drop \X {w.owner})
      /\ Done(r)
      /\ UNCHANGED <<owners, pictures, files, tags, notes, barcodes>>

-----------------------------------------------------------------------------
Init ==
  /\ owners = {1}
  /\ media = <<>> /\ files = {} /\ attachments = <<>>
  /\ tags = <<>> /\ links = {} /\ notes = <<>> /\ barcodes = <<>>
  /\ inflight = [r \in Requests |-> Idle]
  /\ failed = FALSE /\ changes = 0
  /\ overlap \in Schedules

Attaching(r) ==
  LoadUpload(r) \/ WriteFile(r) \/ CommitUpload(r) \/ LoadDetach(r) \/ CommitDetach(r) \/ Unlink(r)

Owning(r) == CreateOwner(r) \/ LoadDeleteOwner(r) \/ CommitDeleteOwner(r)

Noting(r) ==
  \/ LoadNote(r) \/ CommitNote(r) \/ LoadDeleteNote(r) \/ CommitDeleteNote(r)
  \/ LoadBind(r) \/ CommitBind(r) \/ Unbind(r)

Tagging(r) ==
  \/ LoadTag(r) \/ CommitTag(r) \/ LoadRename(r) \/ CommitRename(r)
  \/ LoadDeleteTag(r) \/ CommitDeleteTag(r) \/ LoadRetag(r) \/ CommitRetag(r)

Next == \E r \in Requests : Attaching(r) \/ Owning(r) \/ Noting(r) \/ Tagging(r) \/ Fail(r)

Spec == Init /\ [][Next]_vars

-----------------------------------------------------------------------------
(* Properties *)

\* Whatever interleaves, the keys the database knows hold: an attachment has its
\* media row, a hash one row, a link its tag, and a barcode its definition.
TypeOK ==
  /\ owners \subseteq 1 .. MaxId /\ files \subseteq Contents
  /\ \A a \in DOMAIN attachments :
       attachments[a] \in Attachment /\ attachments[a].media \in DOMAIN media
  /\ IsInjective(media) /\ Range(media) \subseteq Contents
  /\ Range(tags) \subseteq Names
  /\ {l[1] : l \in links} \subseteq DOMAIN tags
  /\ Range(barcodes) \subseteq owners

\* An attachment shows the bytes that were uploaded for it, and they are on disk:
\* deleting one of several references, or an owner, takes no file from the others,
\* even if requests fail or the process dies.  For requests that do not overlap.
BytesKept ==
  ~overlap =>
    \A a \in DOMAIN attachments :
      media[attachments[a].media] = attachments[a].bytes /\ attachments[a].bytes \in files

\* Without failures nothing is left behind: between requests the files are those
\* of the media rows, and each row has an attachment.  For requests that do not
\* overlap.
NoLitter ==
  ~overlap /\ ~failed /\ Quiet =>
    /\ files = Range(media)
    /\ DOMAIN media = Attached(DOMAIN attachments)

\* Files, rows and references agree, in both directions.
FilesMatchRows == BytesKept /\ NoLitter

\* Nothing outlives its owner, so that a new owner, which may get the id of a
\* deleted one, starts bare.  For requests that do not overlap.
BelongingsHaveOwners ==
  ~overlap =>
    /\ {attachments[a].owner : a \in DOMAIN attachments} \subseteq owners
    /\ {l[2] : l \in links} \subseteq owners
    /\ Range(notes) \subseteq owners

\* No two tags have names that differ only in the case of ASCII letters, after any
\* creations and renamings.  For requests that do not overlap.
NamesDiffer ==
  ~overlap => \A t, u \in DOMAIN tags : Folded(tags[t]) = Folded(tags[u]) => t = u
=============================================================================

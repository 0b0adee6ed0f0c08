------------------------------ MODULE Accounts ------------------------------
(***************************************************************************)
(* Users, one-time links (invitations and password resets), sessions and    *)
(* the onboarding sentinel.                                                 *)
(*                                                                          *)
(* A request reads and decides, with a password hash in between that takes  *)
(* its time, and then writes and commits in one step under SQLite's writer  *)
(* lock.  A session that nears its expiry is refreshed when it is verified: *)
(* such a request holds the lock from there on.  Foreign keys, unique keys  *)
(* and the audit row, which names the acting user, are checked by the write *)
(* itself.                                                                  *)
(*                                                                          *)
(* Abstracted: hashes and cookies (a link is the row it belongs to, a       *)
(* session is its row), texts of the audit log, e-mails, and the role       *)
(* viewer, which is treated here as member is.                              *)
(***************************************************************************)
EXTENDS Integers, FiniteSets, FiniteSetsExt

CONSTANTS
  Emails,
  Passwords,
  SessionIds,   \* random: an id in use, or held by a request, is not drawn
  Requests,     \* the requests that may be in progress at once
  Schedules,    \* of overlap: FALSE for requests one by one, TRUE for any order
  SessionTtl, InviteTtl, ResetTtl,
  MaxUser,      \* bound on user ids
  MaxToken,     \* bound on token ids
  MaxTime,      \* bound on the clock
  MaxChanges,   \* bound on the requests
  Null

User == [email : Emails, role : {"admin", "member"}, active : BOOLEAN, password : Passwords]

ASSUME AccountConstants ==
  /\ Schedules \subseteq BOOLEAN
  /\ {SessionTtl, InviteTtl, ResetTtl} \subseteq Nat \ {0}
  /\ {MaxUser, MaxToken, MaxTime, MaxChanges} \subseteq Nat
  /\ Null \notin Nat \cup Emails \cup SessionIds \cup User

VARIABLES
  users,      \* id -> row
  tokens,     \* user_tokens: id -> row
  sessions,   \* id -> row, with the password it was opened with
  onboarded,  \* app_config has the sentinel onboarding_completed
  now,        \* the clock
  inflight,   \* per request, the work it has prepared
  changes,    \* how much of the bound is used
  overlap     \* whether requests overlap; chosen at the start

vars == <<users, tokens, sessions, onboarded, now, inflight, changes, overlap>>
rest == <<now, changes, overlap>>

\* An invitation has an e-mail and a role, a reset has a user.
Token == [purpose : {"invite", "reset"}, email : Emails \cup {Null},
          role : {"admin", "member", Null}, user : Nat \cup {Null},
          expires : Nat, consumed : BOOLEAN]

Session == [user : Nat, expires : Nat, secret : Passwords]

\* A request: the session it came with, if that was refreshed (and until when),
\* the user it is about as loaded and as wanted, and the tokens it found.
Idle == [kind |-> "idle", session |-> Null, actor |-> Null, locked |-> FALSE, until |-> 0,
         user |-> 0, old |-> Null, new |-> Null, tokens |-> {}, role |-> Null, email |-> Null]

-----------------------------------------------------------------------------
(* Queries *)

\* Mutant: consumed_at is not asked for.
Usable_Again(t) == now < tokens[t].expires

\* validate_invite and validate_reset, and the queries for pending tokens
Usable(t) == ~tokens[t].consumed /\ now < tokens[t].expires

PendingInvites(e) ==
  {t \in DOMAIN tokens : tokens[t].purpose = "invite" /\ tokens[t].email = e /\ Usable(t)}

PendingResets(u) ==
  {t \in DOMAIN tokens : tokens[t].purpose = "reset" /\ tokens[t].user = u /\ Usable(t)}

Known(e) == \E u \in DOMAIN users : users[u].email = e

IsAdmin(row) == row # Null /\ row.role = "admin" /\ row.active

ActiveAdmins == {u \in DOMAIN users : IsAdmin(users[u])}

\* Mutant: only the role is looked at.
LeavesAdmin_RoleOnly(old, new) ==
  IsAdmin(old) /\ (new = Null \/ new.role # "admin") => Cardinality(ActiveAdmins) # 1

\* _enforce_last_admin_guard
LeavesAdmin(old, new) ==
  IsAdmin(old) /\ ~IsAdmin(new) => Cardinality(ActiveAdmins) # 1

\* verify and get_current_user
Valid(s) == now < sessions[s].expires /\ users[sessions[s].user].active

\* Less than half of the lifetime is left.
Due(s) == 2 * (sessions[s].expires - now) < SessionTtl

NextId(table) == IF DOMAIN table = {} THEN 1 ELSE Max(DOMAIN table) + 1

Without(table, ids) == [i \in DOMAIN table \ ids |-> table[i]]

With(table, i, row) == [j \in DOMAIN table \cup {i} |-> IF j = i THEN row ELSE table[j]]

SessionsOf(u) == {s \in DOMAIN sessions : sessions[s].user = u}

-----------------------------------------------------------------------------
(* A request begins: everything it reads and decides before it writes *)

Quiet == \A r \in Requests : inflight[r] = Idle

\* Nobody but r is in the middle of a transaction.
Free(r) == \A q \in Requests \ {r} : ~inflight[q].locked

Begin(r, work) ==
  /\ inflight[r] = Idle
  /\ ~overlap => Quiet
  /\ changes < MaxChanges /\ changes' = changes + 1
  /\ inflight' = [inflight EXCEPT ![r] = work]
  /\ UNCHANGED <<users, tokens, sessions, onboarded, now, overlap>>

\* The same, for a request that comes with a session.
BeginAs(r, s, work) ==
  /\ Valid(s)
  /\ Due(s) => Free(r)
  /\ Begin(r, [work EXCEPT !.session = s, !.actor = sessions[s].user,
                           !.locked = Due(s), !.until = now + SessionTtl])

AdminSessions == {s \in DOMAIN sessions : Valid(s) /\ users[sessions[s].user].role = "admin"}

\* POST /auth/setup
LoadSetup(r) ==
  \E e \in Emails, p \in Passwords :
    /\ ~onboarded /\ DOMAIN users = {}
    /\ Begin(r, [Idle EXCEPT !.kind = "setup",
                   !.new = [email |-> e, role |-> "admin", active |-> TRUE, password |-> p]])

\* POST /auth/login, with the right password
LoadLogin(r) ==
  \E u \in DOMAIN users :
    /\ users[u].active
    /\ Begin(r, [Idle EXCEPT !.kind = "login", !.user = u, !.old = users[u]])

\* POST /invitations.  Two pending invitations make the look-up raise.
LoadInvite(r) ==
  \E s \in AdminSessions, e \in Emails, role \in {"admin", "member"} :
    /\ ~Known(e)
    /\ Cardinality(PendingInvites(e)) <= 1
    /\ BeginAs(r, s, [Idle EXCEPT !.kind = "invite", !.email = e, !.role = role,
                                  !.tokens = PendingInvites(e)])

\* DELETE /invitations/{id}
LoadRevoke(r) ==
  \E s \in AdminSessions, t \in DOMAIN tokens :
    /\ tokens[t].purpose = "invite"
    /\ BeginAs(r, s, [Idle EXCEPT !.kind = "revoke", !.tokens = {t}])

\* POST /users/{id}/reset-password
LoadIssueReset(r) ==
  \E s \in AdminSessions, u \in DOMAIN users :
    BeginAs(r, s, [Idle EXCEPT !.kind = "issue", !.user = u, !.tokens = PendingResets(u)])

\* PATCH /users/{id}
LoadUpdate(r) ==
  \E s \in AdminSessions, u \in DOMAIN users, role \in {"admin", "member"}, active \in BOOLEAN :
    LET new == [users[u] EXCEPT !.role = role, !.active = active]
    IN  /\ new # users[u]
        /\ LeavesAdmin(users[u], new)
        /\ BeginAs(r, s, [Idle EXCEPT !.kind = "update", !.user = u, !.old = users[u], !.new = new])

\* DELETE /users/{id}
LoadDelete(r) ==
  \E s \in AdminSessions, u \in DOMAIN users :
    /\ LeavesAdmin(users[u], Null)
    /\ BeginAs(r, s, [Idle EXCEPT !.kind = "delete", !.user = u])

\* POST /auth/change-password
LoadPassword(r) ==
  \E s \in DOMAIN sessions :
    LET u == sessions[s].user
    IN  \E p \in Passwords :
          BeginAs(r, s, [Idle EXCEPT !.kind = "password", !.user = u,
                                     !.new = [users[u] EXCEPT !.password = p]])

\* POST /invitations/accept
LoadAcceptInvite(r) ==
  \E t \in DOMAIN tokens, p \in Passwords :
    /\ tokens[t].purpose = "invite" /\ Usable(t)
    /\ ~Known(tokens[t].email)
    /\ Begin(r, [Idle EXCEPT !.kind = "join", !.tokens = {t},
                   !.new = [email |-> tokens[t].email, role |-> tokens[t].role,
                            active |-> TRUE, password |-> p]])

\* POST /password-reset/accept
LoadAcceptReset(r) ==
  \E t \in DOMAIN tokens, p \in Passwords :
    /\ tokens[t].purpose = "reset" /\ Usable(t)
    /\ Begin(r, [Idle EXCEPT !.kind = "renew", !.tokens = {t}, !.user = tokens[t].user,
                             !.new = [users[tokens[t].user] EXCEPT !.password = p]])

-----------------------------------------------------------------------------
(* ... and ends: everything it writes, in one transaction *)

\* The request of this kind is over.
End(r, kind) ==
  /\ inflight[r].kind = kind
  /\ Free(r)
  /\ inflight' = [inflight EXCEPT ![r] = Idle]
  /\ UNCHANGED rest

\* The sessions, with the one the request came with refreshed if it was due.
Refreshed(work) ==
  [s \in DOMAIN sessions |->
     IF work.locked /\ s = work.session THEN [sessions[s] EXCEPT !.expires = work.until]
     ELSE sessions[s]]

\* The audit row and created_by name the acting user.
Audited(work) == work.actor \in DOMAIN users

CommitSetup(r) ==
  LET id == NextId(users)
  IN  /\ End(r, "setup")
      /\ id <= MaxUser
      /\ ~onboarded /\ ~Known(inflight[r].new.email)
      /\ users' = With(users, id, inflight[r].new)
      /\ onboarded' = TRUE
      /\ UNCHANGED <<tokens, sessions>>

CommitLogin(r) ==
  LET work == inflight[r]
  IN  /\ End(r, "login")
      /\ work.user \in DOMAIN users
      /\ \E s \in SessionIds \ (DOMAIN sessions \cup {inflight[q].session : q \in Requests}) :
           sessions' = With(sessions, s, [user |-> work.user, expires |-> now + SessionTtl,
                                          secret |-> work.old.password])
      /\ UNCHANGED <<users, tokens, onboarded>>

\* The prior pending tokens are deleted first.
Replaced(ids) == Without(tokens, ids)

\* The new row of create_invite or issue_reset.
Issue(work, row) ==
  LET kept == Replaced(work.tokens)
  IN  /\ NextId(kept) <= MaxToken
      /\ Audited(work)
      /\ tokens' = With(kept, NextId(kept), row)
      /\ sessions' = Refreshed(work)
      /\ UNCHANGED <<users, onboarded>>

CommitInvite(r) ==
  /\ End(r, "invite")
  /\ Issue(inflight[r], [purpose |-> "invite", email |-> inflight[r].email, role |-> inflight[r].role,
                         user |-> Null, expires |-> now + InviteTtl, consumed |-> FALSE])

CommitRevoke(r) ==
  /\ End(r, "revoke")
  /\ Audited(inflight[r])
  /\ tokens' = Without(tokens, inflight[r].tokens)
  /\ sessions' = Refreshed(inflight[r])
  /\ UNCHANGED <<users, onboarded>>

CommitIssueReset(r) ==
  /\ End(r, "issue")
  /\ inflight[r].user \in DOMAIN users
  /\ Issue(inflight[r], [purpose |-> "reset", email |-> Null, role |-> Null,
                         user |-> inflight[r].user, expires |-> now + ResetTtl, consumed |-> FALSE])

\* A column is written only when its value differs from the one loaded.
CommitUpdate(r) ==
  LET work == inflight[r]
      Set(current, old, new) == IF new = old THEN current ELSE new
  IN  /\ End(r, "update")
      /\ work.user \in DOMAIN users
      /\ Audited(work)
      /\ users' = [users EXCEPT ![work.user].role = Set(@, work.old.role, work.new.role),
                                ![work.user].active = Set(@, work.old.active, work.new.active)]
      /\ sessions' = Refreshed(work)
      /\ UNCHANGED <<tokens, onboarded>>

\* Mutant: resets outlive their user.
ResetsOf_None(u) == {}

\* What the foreign key of user_tokens takes along.
ResetsOf(u) == {t \in DOMAIN tokens : tokens[t].user = u}

\* Sessions and resets of the user go with him; of invitations only created_by
\* is cleared.  Who deletes himself is not named in the audit row.
CommitDelete(r) ==
  LET work == inflight[r]
  IN  /\ End(r, "delete")
      /\ Audited(work) \/ work.actor = work.user
      /\ users' = Without(users, {work.user})
      /\ tokens' = Without(tokens, ResetsOf(work.user))
      /\ sessions' = [s \in DOMAIN sessions \ SessionsOf(work.user) |-> Refreshed(work)[s]]
      /\ UNCHANGED onboarded

\* The session of the request is kept, and is one of the new password's now.
CommitPassword(r) ==
  LET work == inflight[r]
      kept == DOMAIN sessions \ (SessionsOf(work.user) \ {work.session})
  IN  /\ End(r, "password")
      /\ work.user \in DOMAIN users
      /\ users' = [users EXCEPT ![work.user].password = work.new.password]
      /\ sessions' = [s \in kept |->
                        IF s = work.session
                        THEN [Refreshed(work)[s] EXCEPT !.secret = work.new.password]
                        ELSE sessions[s]]
      /\ UNCHANGED <<tokens, onboarded>>

\* mark_consumed; a token that is gone makes it fail.
Consume(work) ==
  /\ work.tokens \subseteq DOMAIN tokens
  /\ tokens' = [t \in DOMAIN tokens |->
                  IF t \in work.tokens THEN [tokens[t] EXCEPT !.consumed = TRUE] ELSE tokens[t]]

CommitAcceptInvite(r) ==
  LET id == NextId(users)
  IN  /\ End(r, "join")
      /\ id <= MaxUser
      /\ ~Known(inflight[r].new.email)
      /\ users' = With(users, id, inflight[r].new)
      /\ Consume(inflight[r])
      /\ UNCHANGED <<sessions, onboarded>>

\* Mutant: the sessions of the user stay.
Revoked_None(u) == sessions

\* revoke_all_for_user
Revoked(u) == Without(sessions, SessionsOf(u))

CommitAcceptReset(r) ==
  LET work == inflight[r]
  IN  /\ End(r, "renew")
      /\ work.user \in DOMAIN users
      /\ users' = [users EXCEPT ![work.user].password = work.new.password]
      /\ Consume(work)
      /\ sessions' = Revoked(work.user)
      /\ UNCHANGED onboarded

\* A refusal by a constraint, a lock timeout or an error: rolled back.
Fail(r) ==
  /\ inflight[r] # Idle
  /\ inflight' = [inflight EXCEPT ![r] = Idle]
  /\ UNCHANGED <<users, tokens, sessions, onboarded, rest>>

-----------------------------------------------------------------------------
(* Requests of one step, the clock and restarts *)

\* Any other request with a session that is due.
Refresh(s) ==
  /\ ~overlap => Quiet
  /\ \A q \in Requests : ~inflight[q].locked
  /\ Valid(s) /\ Due(s)
  /\ sessions' = [sessions EXCEPT ![s].expires = now + SessionTtl]
  /\ UNCHANGED <<users, tokens, onboarded, inflight, rest>>

\* POST /auth/logout
Logout(s) ==
  /\ ~overlap => Quiet
  /\ \A q \in Requests : ~inflight[q].locked
  /\ sessions' = Without(sessions, {s})
  /\ UNCHANGED <<users, tokens, onboarded, inflight, rest>>

Tick ==
  /\ now < MaxTime
  /\ now' = now + 1
  /\ UNCHANGED <<users, tokens, sessions, onboarded, inflight, changes, overlap>>

\* A restart ends what is in progress and purges what has expired.
Restart ==
  /\ inflight' = [r \in Requests |-> Idle]
  /\ sessions' = Without(sessions, {s \in DOMAIN sessions : sessions[s].expires < now})
  /\ tokens' = Without(tokens, {t \in DOMAIN tokens : tokens[t].expires < now})
  /\ UNCHANGED <<users, onboarded, rest>>

-----------------------------------------------------------------------------
Init ==
  /\ users = <<>> /\ tokens = <<>> /\ sessions = <<>>
  /\ onboarded = FALSE
  /\ now = 0
  /\ inflight = [r \in Requests |-> Idle]
  /\ changes = 0
  /\ overlap \in Schedules

Load(r) ==
  \/ LoadSetup(r) \/ LoadLogin(r) \/ LoadInvite(r) \/ LoadRevoke(r) \/ LoadIssueReset(r)
  \/ LoadUpdate(r) \/ LoadDelete(r) \/ LoadPassword(r)
  \/ LoadAcceptInvite(r) \/ LoadAcceptReset(r)

Commit(r) ==
  \/ CommitSetup(r) \/ CommitLogin(r) \/ CommitInvite(r) \/ CommitRevoke(r)
  \/ CommitIssueReset(r) \/ CommitUpdate(r) \/ CommitDelete(r) \/ CommitPassword(r)
  \/ CommitAcceptInvite(r) \/ CommitAcceptReset(r)

Next ==
  \/ \E r \in Requests : Load(r) \/ Commit(r) \/ Fail(r)
  \/ \E s \in DOMAIN sessions : Refresh(s) \/ Logout(s)
  \/ Tick
  \/ Restart

Spec == Init /\ [][Next]_vars

-----------------------------------------------------------------------------
(* Properties *)

\* Rows keep their types, e-mails are unique, and every session and every reset
\* belongs to a user, whatever interleaves.
TypeOK ==
  /\ \A u \in DOMAIN users : u \in 1 .. MaxUser /\ users[u] \in User
  /\ \A u, v \in DOMAIN users : users[u].email = users[v].email => u = v
  /\ \A t \in DOMAIN tokens :
       /\ t \in 1 .. MaxToken /\ tokens[t] \in Token
       /\ tokens[t].purpose = "reset" => tokens[t].user \in DOMAIN users
  /\ \A s \in DOMAIN sessions :
       s \in SessionIds /\ sessions[s] \in Session /\ sessions[s].user \in DOMAIN users

\* Once onboarded, the household never loses its last active administrator.
AdminRemains == onboarded => ActiveAdmins # {}

\* ... as long as requests do not overlap.
KeepsAdmin == ~overlap => AdminRemains

\* Requests that do not overlap leave at most one link pending for each purpose
\* and addressee, and no pending invitation is for somebody who has joined.
LinksAreUnique ==
  ~overlap =>
    /\ \A e \in Emails : Cardinality(PendingInvites(e)) <= 1
    /\ \A e \in Emails : Known(e) => PendingInvites(e) = {}
    /\ \A u \in DOMAIN users : Cardinality(PendingResets(u)) <= 1

\* Onboarding happens once, however set-ups race: after it an account appears
\* only in a step that finds a link in the table and spends it.  If requests do
\* not overlap, that link is an invitation not spent before, for the e-mail and
\* the role of the account.  (Ids are reused: with overlap, the link spent may be
\* one that replaced the link shown.)
JoinsByInvitation ==
  [][onboarded =>
       /\ onboarded'
       /\ \A u \in DOMAIN users' \ DOMAIN users :
            \E t \in DOMAIN tokens :
              /\ tokens'[t].consumed
              /\ ~overlap =>
                   /\ tokens[t].purpose = "invite" /\ ~tokens[t].consumed
                   /\ tokens[t].email = users'[u].email
                   /\ tokens[t].role = users'[u].role]_vars

\* When requests do not overlap, every session was opened with the password its
\* user has now, or is the one that changed it.
SessionsAreCurrent ==
  ~overlap => \A s \in DOMAIN sessions : sessions[s].secret = users[sessions[s].user].password

\* Of what a new link, account or password replaces nothing is of use any more.
SupersededIsUseless == LinksAreUnique /\ SessionsAreCurrent
=============================================================================

---------------------------- MODULE Accounts_proofs ----------------------------
(***************************************************************************)
(* Theorems about Accounts, for any number of users, links, sessions and    *)
(* requests: what the tables hold whatever interleaves, and what requests   *)
(* one by one never lose (an administrator) or leave behind (a link or a    *)
(* session that was replaced).                                              *)
(***************************************************************************)
EXTENDS MCAccounts, SequenceTheorems, FiniteSetTheorems, TLAPS

(* Types *)

Roles == {"admin", "member"}

UsersOK(us) ==
  /\ DOMAIN us \subseteq 1 .. MaxUser
  /\ \A u \in DOMAIN us : us[u] \in User
  /\ \A u, v \in DOMAIN us : us[u].email = us[v].email => u = v

TokensOK(ts, ids) ==
  /\ DOMAIN ts \subseteq 1 .. MaxToken
  /\ \A t \in DOMAIN ts :
       /\ ts[t] \in Token
       /\ ts[t].purpose = "invite" => ts[t].email \in Emails /\ ts[t].role \in Roles
       /\ ts[t].purpose = "reset" => ts[t].user \in ids

SessionsOK(ss, ids) ==
  /\ DOMAIN ss \subseteq SessionIds
  /\ \A s \in DOMAIN ss : ss[s] \in Session /\ ss[s].user \in ids

Kinds == {"setup", "login", "invite", "revoke", "issue", "update", "delete", "password",
          "join", "renew"}

Work == [kind : Kinds \cup {"idle"}, session : SessionIds \cup {Null}, actor : Nat \cup {Null},
         locked : BOOLEAN, until : Nat, user : Nat, old : User \cup {Null},
         new : User \cup {Null}, tokens : SUBSET Nat, role : Roles \cup {Null},
         email : Emails \cup {Null}]

\* What a request of each kind has to bring along.
WorkOK(work) ==
  /\ work \in Work
  /\ work.kind = "idle" => work = Idle
  /\ work.kind \in {"setup", "update", "password", "join", "renew"} => work.new \in User
  /\ work.kind \in {"login", "update"} => work.old \in User
  /\ work.kind = "invite" => work.email \in Emails /\ work.role \in Roles
  /\ work.kind = "join" => \E t \in Nat : work.tokens = {t}

\* Before the onboarding there is nothing but requests for it.
Early ==
  ~onboarded =>
    /\ DOMAIN users = {} /\ DOMAIN tokens = {} /\ DOMAIN sessions = {}
    /\ \A r \in Requests : inflight[r].kind \in {"idle", "setup"}

TInv ==
  /\ UsersOK(users) /\ TokensOK(tokens, DOMAIN users) /\ SessionsOK(sessions, DOMAIN users)
  /\ now \in Nat /\ onboarded \in BOOLEAN
  /\ DOMAIN inflight = Requests /\ \A r \in Requests : WorkOK(inflight[r])
  /\ Early

-----------------------------------------------------------------------------
(* Requests that begin *)

LEMMA ConstantFacts ==
  ASSUME AccountConstants
  PROVE  /\ MaxUser \in Nat /\ MaxToken \in Nat
         /\ SessionTtl \in Nat /\ InviteTtl \in Nat \ {0} /\ ResetTtl \in Nat \ {0}
         /\ Null \notin Nat /\ Null \notin Emails /\ Null \notin SessionIds /\ Null \notin User
BY DEF AccountConstants

LEMMA IdleWork == Idle \in Work /\ Idle.kind = "idle" /\ WorkOK(Idle)
BY DEF Idle, Work, WorkOK

LEMMA PendingAreTokens ==
  /\ \A e : PendingInvites(e) \subseteq DOMAIN tokens
  /\ \A u : PendingResets(u) \subseteq DOMAIN tokens
BY DEF PendingInvites, PendingResets

\* What requests one by one may count on when they write.
Prepared(work) ==
  /\ work.kind = "setup" => IsAdmin(work.new)
  /\ work.kind = "login" => work.user \in DOMAIN users /\ users[work.user] = work.old
  /\ work.kind = "update" =>
       /\ work.user \in DOMAIN users /\ users[work.user] = work.old
       /\ LeavesAdmin(work.old, work.new)
  /\ work.kind = "delete" =>
       work.user \in DOMAIN users /\ LeavesAdmin(users[work.user], Null)
  /\ work.kind = "password" =>
       work.session \in DOMAIN sessions /\ sessions[work.session].user = work.user
  /\ work.kind = "invite" => ~Known(work.email) /\ PendingInvites(work.email) \subseteq work.tokens
  /\ work.kind = "issue" => PendingResets(work.user) \subseteq work.tokens
  /\ work.kind = "join" =>
       /\ PendingInvites(work.new.email) \subseteq work.tokens
       /\ \E t \in DOMAIN tokens :
            /\ work.tokens = {t}
            /\ tokens[t].purpose = "invite" /\ ~tokens[t].consumed
            /\ tokens[t].email = work.new.email /\ tokens[t].role = work.new.role

\* At most one link is pending for each purpose and addressee.
OneLink ==
  /\ \A e \in Emails : \A s, t \in PendingInvites(e) : s = t
  /\ \A u \in Nat : \A s, t \in PendingResets(u) : s = t

\* A request with what it has loaded.
Begun(r, work) ==
  /\ inflight[r] = Idle /\ (~overlap => Quiet)
  /\ inflight' = [inflight EXCEPT ![r] = work]
  /\ work.kind \in Kinds /\ WorkOK(work) /\ (OneLink => Prepared(work))
  /\ ~onboarded => work.kind = "setup"
  /\ UNCHANGED <<users, tokens, sessions, onboarded, now, overlap>>

\* The session that a request comes with adds nothing to what it is about.
LEMMA BegunAs ==
  ASSUME AccountConstants, TInv, NEW r \in Requests, NEW s \in DOMAIN sessions,
         NEW plain, BeginAs(r, s, plain), WorkOK(plain), plain.kind \in Kinds,
         OneLink => Prepared([plain EXCEPT !.session = s])
  PROVE  \E work : Begun(r, work)
<1> DEFINE work == [plain EXCEPT !.session = s, !.actor = sessions[s].user,
                                 !.locked = Due(s), !.until = now + SessionTtl]
           some == [plain EXCEPT !.session = s]
<1>1. /\ sessions[s].user \in Nat /\ s \in SessionIds /\ Due(s) \in BOOLEAN
      /\ now + SessionTtl \in Nat /\ plain \in Work
  BY ConstantFacts DEF TInv, SessionsOK, Session, Due, WorkOK
<1>2. /\ work \in Work /\ some \in Work
      /\ work.kind = plain.kind /\ work.user = plain.user /\ work.old = plain.old
      /\ work.new = plain.new /\ work.tokens = plain.tokens /\ work.role = plain.role
      /\ work.email = plain.email /\ work.session = s
      /\ some.kind = plain.kind /\ some.user = plain.user /\ some.old = plain.old
      /\ some.new = plain.new /\ some.tokens = plain.tokens /\ some.role = plain.role
      /\ some.email = plain.email /\ some.session = s
  BY <1>1 DEF Work
<1>3. Begin(r, work)
  BY DEF BeginAs
<1>4. OneLink => Prepared(some)
  OBVIOUS
<1> HIDE DEF work, some
<1>5. WorkOK(work)
  BY <1>2 DEF WorkOK, Kinds
<1>6. OneLink => Prepared(work)
  BY <1>2, <1>4 DEF Prepared
<1>7. onboarded
  BY DEF TInv, Early
<1>8. Begun(r, work)
  BY <1>2, <1>3, <1>5, <1>6, <1>7 DEF Begun, Begin
<1>9. QED BY <1>8

LEMMA LoadMeans ==
  ASSUME AccountConstants, TInv, NEW r \in Requests, Load(r)
  PROVE  \E work : Begun(r, work)
<1>1. /\ \A u \in DOMAIN users : users[u] \in User /\ u \in Nat
      /\ \A t \in DOMAIN tokens : tokens[t] \in Token /\ t \in Nat
      /\ \A s \in DOMAIN sessions : sessions[s].user \in DOMAIN users
      /\ MaxUser \in Nat /\ MaxToken \in Nat /\ onboarded \in BOOLEAN
  BY ConstantFacts DEF TInv, UsersOK, TokensOK, SessionsOK
<1>2. /\ \A e : PendingInvites(e) \in SUBSET Nat
      /\ \A u : PendingResets(u) \in SUBSET Nat
  BY <1>1, PendingAreTokens
<1>3. ~onboarded => DOMAIN users = {} /\ DOMAIN tokens = {} /\ DOMAIN sessions = {}
  BY DEF TInv, Early
<1>4. CASE LoadSetup(r)
  <2>1. PICK e \in Emails, p \in Passwords :
          Begin(r, [Idle EXCEPT !.kind = "setup",
                     !.new = [email |-> e, role |-> "admin", active |-> TRUE, password |-> p]])
    BY <1>4 DEF LoadSetup
  <2> DEFINE row == [email |-> e, role |-> "admin", active |-> TRUE, password |-> p]
             work == [Idle EXCEPT !.kind = "setup", !.new = row]
  <2>2. row \in User /\ IsAdmin(row)
    <3>1. row \in User /\ row.role = "admin" /\ row.active
      BY DEF User
    <3> HIDE DEF row
    <3>2. QED BY <3>1, ConstantFacts DEF IsAdmin
  <2> HIDE DEF row
  <2>3. work \in Work /\ work.kind = "setup" /\ work.new = row
    BY <2>2 DEF Idle, Work, Kinds
  <2>4. Begin(r, work)
    BY <2>1 DEF row
  <2> HIDE DEF work
  <2>5. Begun(r, work)
    BY <2>2, <2>3, <2>4 DEF Begun, Begin, WorkOK, Prepared, Kinds
  <2>6. QED BY <2>5
<1>5. CASE LoadLogin(r)
  <2>1. PICK u \in DOMAIN users :
          Begin(r, [Idle EXCEPT !.kind = "login", !.user = u, !.old = users[u]])
    BY <1>5 DEF LoadLogin
  <2> DEFINE work == [Idle EXCEPT !.kind = "login", !.user = u, !.old = users[u]]
  <2>2. /\ work \in Work /\ work.kind = "login" /\ work.user = u /\ work.old = users[u]
        /\ users[u] \in User
    BY <1>1 DEF Idle, Work, Kinds
  <2>3. Begin(r, work)
    BY <2>1
  <2> HIDE DEF work
  <2>4. Begun(r, work)
    BY <1>3, <2>2, <2>3 DEF Begun, Begin, WorkOK, Prepared, Kinds
  <2>5. QED BY <2>4
<1>6. CASE LoadInvite(r)
  <2>1. PICK s \in AdminSessions, e \in Emails, role \in Roles :
          /\ ~Known(e)
          /\ BeginAs(r, s, [Idle EXCEPT !.kind = "invite", !.email = e, !.role = role,
                                        !.tokens = PendingInvites(e)])
    BY <1>6 DEF LoadInvite, Roles
  <2> DEFINE plain == [Idle EXCEPT !.kind = "invite", !.email = e, !.role = role,
                                   !.tokens = PendingInvites(e)]
             some == [plain EXCEPT !.session = s]
  <2>2. /\ plain \in Work /\ plain.kind = "invite" /\ plain.email = e /\ plain.role = role
        /\ some.kind = "invite" /\ some.email = e /\ some.tokens = PendingInvites(e)
    BY <1>2 DEF Idle, Work, Kinds
  <2>3. BeginAs(r, s, plain)
    BY <2>1
  <2> HIDE DEF plain
  <2>4. WorkOK(plain)
    BY <2>2 DEF WorkOK
  <2>5. Prepared(some)
    BY <2>1, <2>2 DEF Prepared
  <2>6. QED BY <2>2, <2>3, <2>4, <2>5, BegunAs DEF AdminSessions, Kinds
<1>7. CASE LoadRevoke(r)
  <2>1. PICK s \in AdminSessions, t \in DOMAIN tokens :
          BeginAs(r, s, [Idle EXCEPT !.kind = "revoke", !.tokens = {t}])
    BY <1>7 DEF LoadRevoke
  <2> DEFINE plain == [Idle EXCEPT !.kind = "revoke", !.tokens = {t}]
             some == [plain EXCEPT !.session = s]
  <2>2. plain \in Work /\ plain.kind = "revoke" /\ some.kind = "revoke"
    BY <1>1 DEF Idle, Work, Kinds
  <2>3. BeginAs(r, s, plain)
    BY <2>1
  <2> HIDE DEF plain
  <2>4. WorkOK(plain)
    BY <2>2 DEF WorkOK
  <2>5. Prepared(some)
    BY <2>2 DEF Prepared
  <2>6. QED BY <2>2, <2>3, <2>4, <2>5, BegunAs DEF AdminSessions, Kinds
<1>8. CASE LoadIssueReset(r)
  <2>1. PICK s \in AdminSessions, u \in DOMAIN users :
          BeginAs(r, s, [Idle EXCEPT !.kind = "issue", !.user = u, !.tokens = PendingResets(u)])
    BY <1>8 DEF LoadIssueReset
  <2> DEFINE plain == [Idle EXCEPT !.kind = "issue", !.user = u, !.tokens = PendingResets(u)]
             some == [plain EXCEPT !.session = s]
  <2>2. /\ plain \in Work /\ plain.kind = "issue"
        /\ some.kind = "issue" /\ some.user = u /\ some.tokens = PendingResets(u)
    BY <1>1, <1>2 DEF Idle, Work, Kinds
  <2>3. BeginAs(r, s, plain)
    BY <2>1
  <2> HIDE DEF plain
  <2>4. WorkOK(plain)
    BY <2>2 DEF WorkOK
  <2>5. Prepared(some)
    BY <2>2 DEF Prepared
  <2>6. QED BY <2>2, <2>3, <2>4, <2>5, BegunAs DEF AdminSessions, Kinds
<1>9. CASE LoadUpdate(r)
  <2>1. PICK s \in AdminSessions, u \in DOMAIN users, role \in Roles, active \in BOOLEAN :
          LET new == [users[u] EXCEPT !.role = role, !.active = active]
          IN  /\ LeavesAdmin(users[u], new)
              /\ BeginAs(r, s, [Idle EXCEPT !.kind = "update", !.user = u, !.old = users[u],
                                            !.new = new])
    BY <1>9 DEF LoadUpdate, Roles
  <2> DEFINE new == [users[u] EXCEPT !.role = role, !.active = active]
             plain == [Idle EXCEPT !.kind = "update", !.user = u, !.old = users[u], !.new = new]
             some == [plain EXCEPT !.session = s]
  <2>2. new \in User /\ users[u] \in User
    BY ZenonT(30), <1>1 DEF User, Roles
  <2>3. LeavesAdmin(users[u], new) /\ BeginAs(r, s, plain)
    BY <2>1
  <2> HIDE DEF new
  <2>4. /\ plain \in Work /\ plain.kind = "update" /\ plain.new = new /\ plain.old = users[u]
        /\ some.kind = "update" /\ some.user = u /\ some.old = users[u] /\ some.new = new
    BY <1>1, <2>2 DEF Idle, Work, Kinds
  <2> HIDE DEF plain
  <2>5. WorkOK(plain)
    BY <2>2, <2>4 DEF WorkOK
  <2>6. Prepared(some)
    BY <2>3, <2>4 DEF Prepared
  <2>7. QED BY <2>3, <2>4, <2>5, <2>6, BegunAs DEF AdminSessions, Kinds
<1>10. CASE LoadDelete(r)
  <2>1. PICK s \in AdminSessions, u \in DOMAIN users :
          /\ LeavesAdmin(users[u], Null)
          /\ BeginAs(r, s, [Idle EXCEPT !.kind = "delete", !.user = u])
    BY <1>10 DEF LoadDelete
  <2> DEFINE plain == [Idle EXCEPT !.kind = "delete", !.user = u]
             some == [plain EXCEPT !.session = s]
  <2>2. plain \in Work /\ plain.kind = "delete" /\ some.kind = "delete" /\ some.user = u
    BY <1>1 DEF Idle, Work, Kinds
  <2>3. BeginAs(r, s, plain)
    BY <2>1
  <2> HIDE DEF plain
  <2>4. WorkOK(plain)
    BY <2>2 DEF WorkOK
  <2>5. Prepared(some)
    BY <2>1, <2>2 DEF Prepared
  <2>6. QED BY <2>2, <2>3, <2>4, <2>5, BegunAs DEF AdminSessions, Kinds
<1>11. CASE LoadPassword(r)
  <2>1. PICK s \in DOMAIN sessions, p \in Passwords :
          LET u == sessions[s].user
          IN  BeginAs(r, s, [Idle EXCEPT !.kind = "password", !.user = u,
                                         !.new = [users[u] EXCEPT !.password = p]])
    BY <1>11 DEF LoadPassword
  <2> DEFINE u == sessions[s].user
             new == [users[u] EXCEPT !.password = p]
             plain == [Idle EXCEPT !.kind = "password", !.user = u, !.new = new]
             some == [plain EXCEPT !.session = s]
  <2>2. new \in User /\ u \in Nat
    BY <1>1 DEF User
  <2>3. BeginAs(r, s, plain)
    BY <2>1
  <2> HIDE DEF new
  <2>4. /\ plain \in Work /\ plain.kind = "password" /\ plain.new = new
        /\ some.kind = "password" /\ some.user = u /\ some.session = s
    BY <2>2 DEF Idle, Work, Kinds
  <2> HIDE DEF plain
  <2>5. WorkOK(plain)
    BY <2>2, <2>4 DEF WorkOK
  <2>6. Prepared(some)
    BY <2>4 DEF Prepared
  <2>7. QED BY <2>3, <2>4, <2>5, <2>6, BegunAs DEF Kinds
<1>12. CASE LoadAcceptInvite(r)
  <2>1. PICK t \in DOMAIN tokens, p \in Passwords :
          /\ tokens[t].purpose = "invite" /\ Usable(t)
          /\ Begin(r, [Idle EXCEPT !.kind = "join", !.tokens = {t},
                         !.new = [email |-> tokens[t].email, role |-> tokens[t].role,
                                  active |-> TRUE, password |-> p]])
    BY <1>12 DEF LoadAcceptInvite
  <2> DEFINE row == [email |-> tokens[t].email, role |-> tokens[t].role,
                     active |-> TRUE, password |-> p]
             work == [Idle EXCEPT !.kind = "join", !.tokens = {t}, !.new = row]
  <2>2. row \in User /\ row.email = tokens[t].email /\ row.role = tokens[t].role
    BY <2>1 DEF User, Roles, TInv, TokensOK
  <2>3. Begin(r, work)
    BY <2>1
  <2> HIDE DEF row
  <2>4. /\ work \in Work /\ work.kind = "join" /\ work.tokens = {t} /\ work.new = row
    BY <1>1, <2>2 DEF Idle, Work, Kinds
  <2> HIDE DEF work
  <2>5. WorkOK(work)
    BY <1>1, <2>2, <2>4 DEF WorkOK
  <2>6. t \in PendingInvites(row.email) /\ row.email \in Emails
    BY <2>1, <2>2 DEF PendingInvites, User
  <2>7. OneLink => Prepared(work)
    BY <2>1, <2>2, <2>4, <2>6 DEF OneLink, Prepared, Usable
  <2>8. Begun(r, work)
    BY <1>3, <2>3, <2>4, <2>5, <2>7 DEF Begun, Begin, Kinds
  <2>9. QED BY <2>8
<1>13. CASE LoadAcceptReset(r)
  <2>1. PICK t \in DOMAIN tokens, p \in Passwords :
          /\ tokens[t].purpose = "reset"
          /\ Begin(r, [Idle EXCEPT !.kind = "renew", !.tokens = {t}, !.user = tokens[t].user,
                                   !.new = [users[tokens[t].user] EXCEPT !.password = p]])
    BY <1>13 DEF LoadAcceptReset
  <2> DEFINE u == tokens[t].user
             new == [users[u] EXCEPT !.password = p]
             work == [Idle EXCEPT !.kind = "renew", !.tokens = {t}, !.user = u, !.new = new]
  <2>2. u \in DOMAIN users
    BY <2>1 DEF TInv, TokensOK
  <2>3. new \in User /\ u \in Nat
    BY <1>1, <2>2 DEF User
  <2>4. Begin(r, work)
    BY <2>1
  <2> HIDE DEF new, u
  <2>5. work \in Work /\ work.kind = "renew" /\ work.new = new
    BY <1>1, <2>3 DEF Idle, Work, Kinds
  <2> HIDE DEF work
  <2>6. WorkOK(work)
    BY <2>3, <2>5 DEF WorkOK
  <2>7. Begun(r, work)
    BY <1>3, <2>4, <2>5, <2>6 DEF Begun, Begin, Prepared, Kinds
  <2>8. QED BY <2>7
<1>14. QED
  BY <1>4, <1>5, <1>6, <1>7, <1>8, <1>9, <1>10, <1>11, <1>12, <1>13 DEF Load

-----------------------------------------------------------------------------
(* Requests that end *)

\* A non-empty set of naturals has a least element.
LEMMA LeastExists ==
  ASSUME NEW T, T \subseteq Nat, T # {}
  PROVE  \E i \in T : \A j \in T : i <= j
<1>1. PICK x \in T : \A y \in T : <<y, x>> \notin OpToRel(<, Nat)
  BY NatLessThanWellFounded, WFMin
<1>2. \A y \in T : ~(y < x)
  BY <1>1 DEF OpToRel
<1>3. QED
  BY <1>2

\* A bounded one has a greatest element, the least of its bounds.
LEMMA GreatestExists ==
  ASSUME NEW n \in Nat, NEW T, T \subseteq 0 .. n, T # {}
  PROVE  \E i \in T : \A j \in T : j <= i
<1> DEFINE Bounds == {m \in Nat : \A j \in T : j <= m}
<1>1. PICK m \in Bounds : \A k \in Bounds : m <= k
  <2>1. n \in Bounds
    OBVIOUS
  <2> HIDE DEF Bounds
  <2>2. Bounds \subseteq Nat
    BY DEF Bounds
  <2>3. QED BY <2>1, <2>2, LeastExists
<1>2. m \in T
  <2>1. SUFFICES ASSUME m \notin T PROVE FALSE
    OBVIOUS
  <2>2. \A j \in T : j \in Nat /\ j < m
    BY <2>1
  <2>3. \E j \in T : j \in Nat /\ j < m
    BY <2>2
  <2>4. m - 1 \in Nat /\ \A j \in T : j <= m - 1
    BY <2>2, <2>3
  <2>5. QED BY <1>1, <2>4
<1>3. QED BY <1>1, <1>2

LEMMA NextIdFresh ==
  ASSUME NEW entries, NEW n \in Nat, DOMAIN entries \subseteq 1 .. n
  PROVE  NextId(entries) \in Nat \ {0} /\ NextId(entries) \notin DOMAIN entries
<1>1. CASE DOMAIN entries = {}
  BY <1>1 DEF NextId
<1>2. CASE DOMAIN entries # {}
  <2>1. \E i \in DOMAIN entries : \A j \in DOMAIN entries : j <= i
    BY <1>2, GreatestExists
  <2>2. \E i \in DOMAIN entries : \A j \in DOMAIN entries : i >= j
    BY <2>1
  <2>3. Max(DOMAIN entries) \in DOMAIN entries /\ \A j \in DOMAIN entries : Max(DOMAIN entries) >= j
    BY <2>2 DEF Max
  <2>4. QED BY <1>2, <2>3 DEF NextId
<1>3. QED BY <1>1, <1>2

LEMMA EndMeans ==
  ASSUME TInv, NEW r \in Requests, NEW kind \in Kinds, End(r, kind)
  PROVE  /\ WorkOK(inflight[r]) /\ inflight[r].kind = kind
         /\ \A q \in Requests : inflight'[q] = IF q = r THEN Idle ELSE inflight[q]
         /\ DOMAIN inflight' = Requests
         /\ now' = now /\ overlap' = overlap
         /\ kind # "setup" => onboarded
BY DEF TInv, End, rest, Early, Kinds

LEMMA AfterEnd ==
  ASSUME TInv, NEW r \in Requests, NEW kind \in Kinds, End(r, kind), onboarded' = TRUE,
         UsersOK(users'), TokensOK(tokens', DOMAIN users'), SessionsOK(sessions', DOMAIN users')
  PROVE  TInv'
<1>1. now' \in Nat /\ DOMAIN inflight' = Requests /\ \A q \in Requests : WorkOK(inflight'[q])
  BY EndMeans, IdleWork DEF TInv
<1>2. QED BY <1>1 DEF TInv, Early

LEMMA RefreshedOK ==
  ASSUME TInv, NEW work, WorkOK(work)
  PROVE  /\ DOMAIN Refreshed(work) = DOMAIN sessions
         /\ SessionsOK(Refreshed(work), DOMAIN users)
         /\ \A s \in DOMAIN sessions : /\ Refreshed(work)[s].user = sessions[s].user
                                       /\ Refreshed(work)[s].secret = sessions[s].secret
BY DEF TInv, SessionsOK, Session, Refreshed, WorkOK, Work

\* A user who is added, and whose e-mail nobody has.
LEMMA WithUser ==
  ASSUME AccountConstants, TInv, NEW row \in User, ~Known(row.email), NextId(users) <= MaxUser,
         users' = With(users, NextId(users), row)
  PROVE  /\ NextId(users) \in Nat /\ NextId(users) \notin DOMAIN users
         /\ DOMAIN users' = DOMAIN users \cup {NextId(users)}
         /\ users'[NextId(users)] = row /\ \A u \in DOMAIN users : users'[u] = users[u]
         /\ UsersOK(users')
<1> DEFINE id == NextId(users)
<1>1. id \in 1 .. MaxUser /\ id \notin DOMAIN users
  BY ConstantFacts, NextIdFresh DEF TInv, UsersOK
<1>2. users' = With(users, id, row)
  OBVIOUS
<1> HIDE DEF id
<1>3. /\ DOMAIN users' = DOMAIN users \cup {id}
      /\ users'[id] = row /\ \A u \in DOMAIN users : users'[u] = users[u]
  BY <1>1, <1>2 DEF With
<1>4. UsersOK(users')
  BY <1>1, <1>3 DEF TInv, UsersOK, Known
<1>5. QED BY <1>1, <1>3, <1>4 DEF id

\* A user who stays, with another role, activation or password.
LEMMA SameUsers ==
  ASSUME TInv, DOMAIN users' = DOMAIN users,
         \A u \in DOMAIN users : users'[u] \in User /\ users'[u].email = users[u].email
  PROVE  UsersOK(users')
BY DEF TInv, UsersOK

LEMMA WithoutTokens ==
  ASSUME TInv, NEW ids, NEW gone, tokens' = Without(tokens, gone),
         \A t \in DOMAIN tokens' : tokens[t].purpose = "reset" => tokens[t].user \in ids
  PROVE  TokensOK(tokens', ids)
BY DEF TInv, TokensOK, Without

LEMMA WithoutSessions ==
  ASSUME TInv, NEW ids, NEW gone, sessions' = Without(sessions, gone),
         \A s \in DOMAIN sessions' : sessions[s].user \in ids
  PROVE  SessionsOK(sessions', ids)
BY DEF TInv, SessionsOK, Without

LEMMA Consumed ==
  ASSUME TInv, NEW work, Consume(work)
  PROVE  /\ work.tokens \subseteq DOMAIN tokens /\ DOMAIN tokens' = DOMAIN tokens
         /\ \A t \in DOMAIN tokens :
              /\ tokens'[t] \in Token
              /\ tokens'[t].purpose = tokens[t].purpose /\ tokens'[t].email = tokens[t].email
              /\ tokens'[t].role = tokens[t].role /\ tokens'[t].user = tokens[t].user
              /\ tokens'[t].expires = tokens[t].expires
              /\ tokens'[t].consumed = (tokens[t].consumed \/ t \in work.tokens)
<1>1. /\ work.tokens \subseteq DOMAIN tokens /\ DOMAIN tokens' = DOMAIN tokens
      /\ \A t \in DOMAIN tokens :
           tokens'[t] = IF t \in work.tokens THEN [tokens[t] EXCEPT !.consumed = TRUE] ELSE tokens[t]
  BY DEF Consume
<1>2. \A t \in DOMAIN tokens : tokens[t] \in Token
  BY DEF TInv, TokensOK
<1>3. ASSUME NEW t \in DOMAIN tokens
      PROVE  /\ tokens'[t] \in Token
             /\ tokens'[t].purpose = tokens[t].purpose /\ tokens'[t].email = tokens[t].email
             /\ tokens'[t].role = tokens[t].role /\ tokens'[t].user = tokens[t].user
             /\ tokens'[t].expires = tokens[t].expires
             /\ tokens'[t].consumed = (tokens[t].consumed \/ t \in work.tokens)
  <2>1. CASE t \in work.tokens
    BY <1>1, <1>2, <2>1 DEF Token
  <2>2. CASE t \notin work.tokens
    BY <1>1, <1>2, <2>2 DEF Token
  <2>3. QED BY <2>1, <2>2
<1>4. QED BY <1>1, <1>3

LEMMA ConsumedOK ==
  ASSUME TInv, NEW work, Consume(work), NEW ids, DOMAIN users \subseteq ids
  PROVE  TokensOK(tokens', ids)
BY Consumed DEF TInv, TokensOK

\* What a new link leaves, and what it adds.
LEMMA Issued ==
  ASSUME AccountConstants, TInv, NEW work, WorkOK(work), NEW row \in Token, Issue(work, row),
         row.purpose = "invite" => row.email \in Emails /\ row.role \in Roles,
         row.purpose = "reset" => row.user \in DOMAIN users
  PROVE  /\ UNCHANGED <<users, onboarded>> /\ sessions' = Refreshed(work)
         /\ TokensOK(tokens', DOMAIN users)
         /\ \E id \in DOMAIN tokens' :
              /\ tokens'[id] = row
              /\ \A t \in DOMAIN tokens' \ {id} :
                   t \in DOMAIN tokens \ work.tokens /\ tokens'[t] = tokens[t]
<1> DEFINE kept == Replaced(work.tokens)
           id == NextId(kept)
<1>1. /\ UNCHANGED <<users, onboarded>> /\ sessions' = Refreshed(work)
      /\ id <= MaxToken /\ tokens' = With(kept, id, row)
  BY DEF Issue
<1>2. /\ DOMAIN kept = DOMAIN tokens \ work.tokens
      /\ \A t \in DOMAIN kept : kept[t] = tokens[t]
  BY DEF Replaced, Without
<1> HIDE DEF kept
<1>3. DOMAIN kept \subseteq 1 .. MaxToken
  BY <1>2 DEF TInv, TokensOK
<1>4. id \in 1 .. MaxToken /\ id \notin DOMAIN kept
  BY <1>1, <1>3, ConstantFacts, NextIdFresh
<1> HIDE DEF id
<1>5. /\ DOMAIN tokens' = DOMAIN kept \cup {id} /\ tokens'[id] = row
      /\ \A t \in DOMAIN kept : tokens'[t] = kept[t]
  BY <1>1, <1>4 DEF With
<1>6. TokensOK(tokens', DOMAIN users)
  BY <1>2, <1>3, <1>4, <1>5 DEF TInv, TokensOK
<1>7. QED BY <1>1, <1>2, <1>5, <1>6

LEMMA TypesOfCommit ==
  ASSUME AccountConstants, TInv, NEW r \in Requests, Commit(r)
  PROVE  TInv'
<1> DEFINE work == inflight[r]
<1>1. /\ UsersOK(users) /\ TokensOK(tokens, DOMAIN users) /\ SessionsOK(sessions, DOMAIN users)
      /\ \A t \in DOMAIN tokens : tokens[t] \in Token
      /\ now \in Nat /\ WorkOK(work)
  BY DEF TInv, TokensOK
<1>2. /\ SessionTtl \in Nat /\ now + InviteTtl \in Nat /\ now + ResetTtl \in Nat
  BY <1>1, ConstantFacts
<1>3. CASE CommitSetup(r)
  <2>1. /\ End(r, "setup") /\ NextId(users) <= MaxUser
        /\ ~Known(work.new.email) /\ users' = With(users, NextId(users), work.new)
        /\ onboarded' = TRUE /\ UNCHANGED <<tokens, sessions>>
    BY <1>3 DEF CommitSetup
  <2>2. work.new \in User
    BY <2>1, EndMeans DEF WorkOK, Kinds
  <2>3. UsersOK(users') /\ DOMAIN users \subseteq DOMAIN users'
    BY <2>1, <2>2, WithUser
  <2>4. QED BY <1>1, <2>1, <2>3, AfterEnd DEF TokensOK, SessionsOK, Kinds
<1>4. CASE CommitLogin(r)
  <2>1. End(r, "login") /\ work.user \in DOMAIN users /\ UNCHANGED <<users, tokens, onboarded>>
    BY <1>4 DEF CommitLogin
  <2>2. PICK s \in SessionIds \ DOMAIN sessions :
          sessions' = With(sessions, s, [user |-> work.user, expires |-> now + SessionTtl,
                                         secret |-> work.old.password])
    BY <1>4 DEF CommitLogin
  <2> DEFINE row == [user |-> work.user, expires |-> now + SessionTtl, secret |-> work.old.password]
  <2>3. onboarded /\ work.old \in User /\ work.user \in Nat
    BY <2>1, EndMeans DEF WorkOK, Work, Kinds
  <2>4. row \in Session /\ row.user = work.user
    BY <1>1, <1>2, <2>3 DEF Session, User
  <2>5. sessions' = With(sessions, s, row)
    BY <2>2
  <2> HIDE DEF row
  <2>6. SessionsOK(sessions', DOMAIN users)
    BY <1>1, <2>1, <2>4, <2>5 DEF SessionsOK, With
  <2>7. QED BY <1>1, <2>1, <2>3, <2>6, AfterEnd DEF Kinds
<1>5. CASE CommitInvite(r)
  <2> DEFINE row == [purpose |-> "invite", email |-> work.email, role |-> work.role,
                     user |-> Null, expires |-> now + InviteTtl, consumed |-> FALSE]
  <2>1. End(r, "invite") /\ Issue(work, row)
    BY <1>5 DEF CommitInvite
  <2>2. onboarded /\ work.email \in Emails /\ work.role \in Roles
    BY <2>1, EndMeans DEF WorkOK, Kinds
  <2>3. /\ row \in Token /\ row.purpose = "invite" /\ row.email = work.email
        /\ row.role = work.role
    BY <1>2, <2>2 DEF Token, Roles
  <2> HIDE DEF row
  <2>4. /\ TokensOK(tokens', DOMAIN users) /\ sessions' = Refreshed(work)
        /\ UNCHANGED <<users, onboarded>>
    BY <1>1, <2>1, <2>2, <2>3, Issued
  <2>5. SessionsOK(sessions', DOMAIN users)
    BY <1>1, <2>4, RefreshedOK
  <2>6. QED BY <1>1, <2>1, <2>2, <2>4, <2>5, AfterEnd DEF Kinds
<1>6. CASE CommitRevoke(r)
  <2>1. /\ End(r, "revoke") /\ tokens' = Without(tokens, work.tokens)
        /\ sessions' = Refreshed(work) /\ UNCHANGED <<users, onboarded>>
    BY <1>6 DEF CommitRevoke
  <2>2. onboarded
    BY <2>1, EndMeans DEF Kinds
  <2>3. TokensOK(tokens', DOMAIN users)
    BY <1>1, <2>1, WithoutTokens DEF TokensOK, Without
  <2>4. QED BY <1>1, <2>1, <2>2, <2>3, RefreshedOK, AfterEnd DEF Kinds
<1>7. CASE CommitIssueReset(r)
  <2> DEFINE row == [purpose |-> "reset", email |-> Null, role |-> Null, user |-> work.user,
                     expires |-> now + ResetTtl, consumed |-> FALSE]
  <2>1. End(r, "issue") /\ work.user \in DOMAIN users /\ Issue(work, row)
    BY <1>7 DEF CommitIssueReset
  <2>2. onboarded /\ work.user \in Nat
    BY <2>1, EndMeans DEF WorkOK, Work, Kinds
  <2>3. row \in Token /\ row.purpose = "reset" /\ row.user = work.user
    BY <1>2, <2>2 DEF Token
  <2> HIDE DEF row
  <2>4. /\ TokensOK(tokens', DOMAIN users) /\ SessionsOK(sessions', DOMAIN users)
        /\ UNCHANGED <<users, onboarded>>
    BY <1>1, <2>1, <2>3, Issued, RefreshedOK
  <2>5. QED BY <1>1, <2>1, <2>2, <2>4, AfterEnd DEF Kinds
<1>8. CASE CommitUpdate(r)
  <2>1. /\ End(r, "update") /\ sessions' = Refreshed(work) /\ UNCHANGED <<tokens, onboarded>>
    BY <1>8 DEF CommitUpdate
  <2>2. onboarded /\ work.old \in User /\ work.new \in User
    BY <2>1, EndMeans DEF WorkOK, Kinds
  <2>3. PICK role \in Roles, active \in BOOLEAN :
          users' = [users EXCEPT ![work.user].role = role, ![work.user].active = active]
    <3> DEFINE row == users[work.user]
               role == IF work.new.role = work.old.role THEN row.role ELSE work.new.role
               active == IF work.new.active = work.old.active THEN row.active ELSE work.new.active
    <3>1. row \in User
      BY <1>1, <1>8 DEF CommitUpdate, UsersOK
    <3>2. role \in Roles /\ active \in BOOLEAN
      BY <2>2, <3>1 DEF User, Roles
    <3>3. users' = [users EXCEPT ![work.user].role = role, ![work.user].active = active]
      BY <1>8, <3>1 DEF CommitUpdate, User
    <3> HIDE DEF role, active
    <3>4. QED BY <3>2, <3>3
  <2>4. DOMAIN users' = DOMAIN users /\ UsersOK(users')
    BY SMTT(30), <1>1, <2>3, SameUsers DEF UsersOK, User, Roles
  <2>5. QED BY <1>1, <2>1, <2>2, <2>4, RefreshedOK, AfterEnd DEF Kinds
<1>9. CASE CommitDelete(r)
  <2>1. /\ End(r, "delete") /\ users' = Without(users, {work.user})
        /\ tokens' = Without(tokens, ResetsOf(work.user))
        /\ sessions' = [s \in DOMAIN sessions \ SessionsOf(work.user) |-> Refreshed(work)[s]]
        /\ UNCHANGED onboarded
    BY <1>9 DEF CommitDelete
  <2>2. onboarded
    BY <2>1, EndMeans DEF Kinds
  <2>3. UsersOK(users') /\ DOMAIN users' = DOMAIN users \ {work.user}
    BY <1>1, <2>1 DEF UsersOK, Without
  <2>4. TokensOK(tokens', DOMAIN users')
    BY <1>1, <2>1, <2>3, WithoutTokens DEF TokensOK, Without, ResetsOf
  <2>5. SessionsOK(sessions', DOMAIN users')
    BY <1>1, <2>1, <2>3, RefreshedOK DEF SessionsOK, SessionsOf
  <2>6. QED BY <2>1, <2>2, <2>3, <2>4, <2>5, AfterEnd DEF Kinds
<1>10. CASE CommitPassword(r)
  <2> DEFINE kept == DOMAIN sessions \ (SessionsOf(work.user) \ {work.session})
  <2>1. /\ End(r, "password") /\ UNCHANGED <<tokens, onboarded>>
        /\ users' = [users EXCEPT ![work.user].password = work.new.password]
        /\ sessions' = [s \in kept |->
                          IF s = work.session
                          THEN [Refreshed(work)[s] EXCEPT !.secret = work.new.password]
                          ELSE sessions[s]]
    BY <1>10 DEF CommitPassword
  <2>2. onboarded /\ work.new \in User
    BY <2>1, EndMeans DEF WorkOK, Kinds
  <2>3. DOMAIN users' = DOMAIN users /\ UsersOK(users')
    BY <1>1, <2>1, <2>2, SameUsers DEF UsersOK, User
  <2>4. \A s \in DOMAIN sessions :
          /\ Refreshed(work)[s] \in Session /\ Refreshed(work)[s].user \in DOMAIN users
    BY <1>1, RefreshedOK DEF SessionsOK
  <2>5. \A s \in DOMAIN sessions' : sessions'[s] \in Session /\ sessions'[s].user \in DOMAIN users
    BY <1>1, <2>1, <2>2, <2>4 DEF SessionsOK, Session, User
  <2>6. SessionsOK(sessions', DOMAIN users)
    BY <1>1, <2>1, <2>5 DEF SessionsOK
  <2>7. QED BY <1>1, <2>1, <2>2, <2>3, <2>6, AfterEnd DEF Kinds
<1>11. CASE CommitAcceptInvite(r)
  <2>1. /\ End(r, "join") /\ NextId(users) <= MaxUser
        /\ ~Known(work.new.email) /\ users' = With(users, NextId(users), work.new)
        /\ Consume(work) /\ UNCHANGED <<sessions, onboarded>>
    BY <1>11 DEF CommitAcceptInvite
  <2>2. onboarded /\ work.new \in User
    BY <2>1, EndMeans DEF WorkOK, Kinds
  <2>3. UsersOK(users') /\ DOMAIN users \subseteq DOMAIN users'
    BY <2>1, <2>2, WithUser
  <2>4. TokensOK(tokens', DOMAIN users')
    BY <2>1, <2>3, ConsumedOK
  <2>5. QED BY <1>1, <2>1, <2>2, <2>3, <2>4, AfterEnd DEF SessionsOK, Kinds
<1>12. CASE CommitAcceptReset(r)
  <2>1. /\ End(r, "renew") /\ UNCHANGED onboarded
        /\ users' = [users EXCEPT ![work.user].password = work.new.password]
        /\ Consume(work) /\ sessions' = Without(sessions, SessionsOf(work.user))
    BY <1>12 DEF CommitAcceptReset, Revoked
  <2>2. onboarded /\ work.new \in User
    BY <2>1, EndMeans DEF WorkOK, Kinds
  <2>3. DOMAIN users' = DOMAIN users /\ UsersOK(users')
    BY <1>1, <2>1, <2>2, SameUsers DEF UsersOK, User
  <2>4. TokensOK(tokens', DOMAIN users)
    BY <2>1, ConsumedOK
  <2>5. SessionsOK(sessions', DOMAIN users)
    BY <1>1, <2>1, WithoutSessions DEF SessionsOK, Without
  <2>6. QED BY <2>1, <2>2, <2>3, <2>4, <2>5, AfterEnd DEF Kinds
<1>13. QED
  BY <1>3, <1>4, <1>5, <1>6, <1>7, <1>8, <1>9, <1>10, <1>11, <1>12 DEF Commit

LEMMA TypesOfInit ==
  ASSUME Init
  PROVE  TInv
<1>1. DOMAIN users = {} /\ DOMAIN tokens = {} /\ DOMAIN sessions = {}
  BY DEF Init
<1>2. DOMAIN inflight = Requests /\ \A r \in Requests : inflight[r] = Idle
  BY DEF Init
<1>3. QED BY <1>1, <1>2, IdleWork DEF Init, TInv, UsersOK, TokensOK, SessionsOK, Early

LEMMA TypesOfNext ==
  ASSUME AccountConstants, TInv, [Next]_vars
  PROVE  TInv'
<1>1. CASE UNCHANGED vars
  BY <1>1 DEF vars, TInv, Early
<1>2. ASSUME NEW r \in Requests, Load(r) PROVE TInv'
  <2>1. PICK work : Begun(r, work)
    BY <1>2, LoadMeans
  <2>2. /\ DOMAIN inflight' = Requests
        /\ \A q \in Requests : inflight'[q] = IF q = r THEN work ELSE inflight[q]
    BY <2>1 DEF Begun, TInv
  <2>3. QED BY <2>1, <2>2 DEF Begun, TInv, Early
<1>3. ASSUME NEW r \in Requests, Fail(r) PROVE TInv'
  BY <1>3, IdleWork DEF Fail, rest, TInv, Early
<1>4. ASSUME NEW s \in DOMAIN sessions, Refresh(s) PROVE TInv'
  <2>1. SessionsOK(sessions', DOMAIN users) /\ DOMAIN sessions' = DOMAIN sessions
    BY <1>4, ConstantFacts DEF Refresh, TInv, SessionsOK, Session
  <2>2. QED BY <1>4, <2>1 DEF Refresh, rest, TInv, Early
<1>5. ASSUME NEW s \in DOMAIN sessions, Logout(s) PROVE TInv'
  <2>1. SessionsOK(sessions', DOMAIN users)
    BY <1>5, WithoutSessions DEF Logout, TInv, SessionsOK, Without
  <2>2. QED BY <1>5, <2>1 DEF Logout, rest, TInv, Early
<1>6. CASE Tick
  BY <1>6 DEF Tick, TInv, Early
<1>7. CASE Restart
  <2>1. SessionsOK(sessions', DOMAIN users) /\ DOMAIN sessions' \subseteq DOMAIN sessions
    BY <1>7, WithoutSessions DEF Restart, TInv, SessionsOK, Without
  <2>2. TokensOK(tokens', DOMAIN users) /\ DOMAIN tokens' \subseteq DOMAIN tokens
    BY <1>7, WithoutTokens DEF Restart, TInv, TokensOK, Without
  <2>3. QED BY <1>7, <2>1, <2>2, IdleWork DEF Restart, rest, TInv, Early
<1>8. QED BY <1>1, <1>2, <1>3, <1>4, <1>5, <1>6, <1>7, TypesOfCommit DEF Next

\* Rows keep their types, no two users have one e-mail, and every session and every
\* reset belongs to a user, whatever requests and restarts interleave.
THEOREM TypeCorrect ==
  ASSUME AccountConstants
  PROVE  Spec => []TypeOK
<1>1. TInv => TypeOK
  BY DEF TInv, UsersOK, TokensOK, SessionsOK, TypeOK
<1>2. QED BY <1>1, TypesOfInit, TypesOfNext, PTL DEF Spec

-----------------------------------------------------------------------------
(* Requests one by one *)

Alone ==
  \A r, q \in Requests : inflight[r].kind # "idle" /\ inflight[q].kind # "idle" => r = q

NoLinkForMembers == \A e \in Emails : Known(e) => PendingInvites(e) = {}

Secrets == \A s \in DOMAIN sessions : sessions[s].secret = users[sessions[s].user].password

\* What the tables hold between two requests.
InOrder == OneLink /\ NoLinkForMembers /\ Secrets /\ AdminRemains

Orderly == Alone /\ (\A r \in Requests : Prepared(inflight[r])) /\ InOrder

SInv == ~overlap => Orderly

\* No link becomes usable, or is for another.
FewerLinks ==
  \A t \in DOMAIN tokens' :
    /\ t \in DOMAIN tokens
    /\ tokens'[t].purpose = tokens[t].purpose /\ tokens'[t].email = tokens[t].email
    /\ tokens'[t].user = tokens[t].user
    /\ Usable(t)' => Usable(t)

LEMMA FewerPending ==
  ASSUME FewerLinks
  PROVE  /\ \A e : PendingInvites(e)' \subseteq PendingInvites(e)
         /\ \A u : PendingResets(u)' \subseteq PendingResets(u)
BY DEF FewerLinks, PendingInvites, PendingResets

LEMMA SameLinks ==
  ASSUME TInv, UNCHANGED tokens, now' = now \/ now' = now + 1
  PROVE  FewerLinks
BY DEF FewerLinks, Usable, TInv, TokensOK, Token

LEMMA WithoutLinks ==
  ASSUME NEW gone, tokens' = Without(tokens, gone), UNCHANGED now
  PROVE  FewerLinks
BY DEF FewerLinks, Usable, Without

LEMMA ConsumedLinks ==
  ASSUME TInv, NEW work, Consume(work), UNCHANGED now
  PROVE  /\ FewerLinks
         /\ \A t \in work.tokens : ~Usable(t)'
BY Consumed DEF FewerLinks, Usable

\* Fewer links keep the order of the links.
LEMMA LinksKept ==
  ASSUME OneLink, FewerLinks
  PROVE  OneLink'
BY FewerPending DEF OneLink

LEMMA NoneForMembers ==
  ASSUME NoLinkForMembers, FewerLinks, \A e \in Emails : Known(e)' => Known(e)
  PROVE  NoLinkForMembers'
BY FewerPending DEF NoLinkForMembers

\* Nobody stops being an administrator.
LEMMA AdminsStay ==
  ASSUME AdminRemains, onboarded' = onboarded,
         \A u \in DOMAIN users : IsAdmin(users[u]) => u \in DOMAIN users' /\ IsAdmin(users'[u])
  PROVE  AdminRemains'
BY DEF AdminRemains, ActiveAdmins

\* Somebody does, and was not the only one.
LEMMA AnotherAdmin ==
  ASSUME NEW u, u \in ActiveAdmins, Cardinality(ActiveAdmins) # 1
  PROVE  \E v \in ActiveAdmins : v # u
<1>1. Cardinality({u}) = 1
  BY FS_Singleton
<1>2. ActiveAdmins # {u}
  BY <1>1
<1>3. QED BY <1>2

\* Only links that lapse and sessions that end.
LEMMA OrderKept ==
  ASSUME InOrder, FewerLinks, UNCHANGED <<users, onboarded>>,
         \A s \in DOMAIN sessions' :
           /\ s \in DOMAIN sessions
           /\ sessions'[s].user = sessions[s].user /\ sessions'[s].secret = sessions[s].secret
  PROVE  InOrder'
<1>1. OneLink' /\ NoLinkForMembers'
  BY LinksKept, NoneForMembers DEF InOrder, Known
<1>2. Secrets'
  BY DEF InOrder, Secrets
<1>3. AdminRemains'
  BY DEF InOrder, AdminRemains, ActiveAdmins
<1>4. QED BY <1>1, <1>2, <1>3 DEF InOrder

LEMMA PreparedKept ==
  ASSUME NEW work, Prepared(work), UNCHANGED <<users, sessions, tokens>>, FewerLinks
  PROVE  Prepared(work)'
<1>1. /\ \A e : PendingInvites(e)' \subseteq PendingInvites(e)
      /\ \A u : PendingResets(u)' \subseteq PendingResets(u)
  BY FewerPending
<1>2. ActiveAdmins' = ActiveAdmins
  BY DEF ActiveAdmins
<1>3. QED BY <1>1, <1>2 DEF Prepared, LeavesAdmin, Known

LEMMA PreparedIdle ==
  ASSUME \A r \in Requests : inflight'[r] = Idle
  PROVE  Alone' /\ \A r \in Requests : Prepared(inflight[r])'
BY IdleWork DEF Alone, Prepared

\* A request that ends was the only one.
LEMMA EndsAlone ==
  ASSUME TInv, Orderly, NEW r \in Requests, NEW kind \in Kinds, End(r, kind)
  PROVE  /\ Prepared(inflight[r])
         /\ \A q \in Requests : inflight'[q] = Idle
<1>1. inflight[r].kind # "idle"
  BY EndMeans DEF Kinds
<1>2. \A q \in Requests \ {r} : inflight[q] = Idle
  BY <1>1 DEF Orderly, Alone, TInv, WorkOK
<1>3. QED BY <1>2, EndMeans DEF Orderly

LEMMA OrderOfCommit ==
  ASSUME AccountConstants, TInv, Orderly, NEW r \in Requests, Commit(r)
  PROVE  InOrder'
<1> DEFINE work == inflight[r]
<1>1. /\ UsersOK(users) /\ TokensOK(tokens, DOMAIN users) /\ SessionsOK(sessions, DOMAIN users)
      /\ \A u \in DOMAIN users : users[u] \in User /\ u \in Nat
      /\ WorkOK(work)
  BY ConstantFacts DEF TInv, UsersOK
<1>2. OneLink /\ NoLinkForMembers /\ Secrets /\ AdminRemains
  BY DEF Orderly, InOrder
<1>3. DOMAIN Refreshed(work) = DOMAIN sessions
      /\ \A s \in DOMAIN sessions : /\ Refreshed(work)[s].user = sessions[s].user
                                    /\ Refreshed(work)[s].secret = sessions[s].secret
  BY <1>1, RefreshedOK
<1>4. CASE CommitSetup(r)
  <2>1. /\ End(r, "setup") /\ NextId(users) <= MaxUser /\ ~onboarded
        /\ ~Known(work.new.email) /\ users' = With(users, NextId(users), work.new)
        /\ UNCHANGED <<tokens, sessions>>
    BY <1>4 DEF CommitSetup
  <2>2. work.new \in User /\ IsAdmin(work.new)
    BY <2>1, EndMeans, EndsAlone DEF WorkOK, Kinds, Prepared
  <2>3. DOMAIN tokens' = {} /\ DOMAIN sessions' = {}
    BY <2>1 DEF TInv, Early
  <2>4. OneLink' /\ NoLinkForMembers' /\ Secrets'
    BY <2>3 DEF OneLink, NoLinkForMembers, Secrets, PendingInvites, PendingResets
  <2>5. AdminRemains'
    BY <2>1, <2>2, WithUser DEF AdminRemains, ActiveAdmins
  <2>6. QED BY <2>4, <2>5 DEF InOrder
<1>5. CASE CommitLogin(r)
  <2>1. End(r, "login") /\ UNCHANGED <<users, tokens, onboarded>>
    BY <1>5 DEF CommitLogin
  <2>2. PICK s \in SessionIds \ DOMAIN sessions :
          sessions' = With(sessions, s, [user |-> work.user, expires |-> now + SessionTtl,
                                         secret |-> work.old.password])
    BY <1>5 DEF CommitLogin
  <2>3. users[work.user] = work.old
    BY <2>1, EndMeans, EndsAlone DEF Prepared, Kinds
  <2>4. FewerLinks
    BY <2>1, EndMeans, SameLinks DEF Kinds
  <2>5. OneLink' /\ NoLinkForMembers'
    BY <1>2, <2>1, <2>4, LinksKept, NoneForMembers DEF Known
  <2>6. Secrets'
    BY <1>2, <2>1, <2>2, <2>3 DEF Secrets, With
  <2>7. AdminRemains'
    BY <1>2, <2>1, AdminsStay
  <2>8. QED BY <2>5, <2>6, <2>7 DEF InOrder
<1>6. CASE CommitInvite(r)
  <2> DEFINE row == [purpose |-> "invite", email |-> work.email, role |-> work.role,
                     user |-> Null, expires |-> now + InviteTtl, consumed |-> FALSE]
  <2>1. End(r, "invite") /\ Issue(work, row)
    BY <1>6 DEF CommitInvite
  <2>2. /\ work.email \in Emails /\ work.role \in Roles /\ now' = now
        /\ ~Known(work.email) /\ PendingInvites(work.email) \subseteq work.tokens
    BY <2>1, EndMeans, EndsAlone DEF WorkOK, Prepared, Kinds
  <2>3. /\ row \in Token /\ row.purpose = "invite" /\ row.email = work.email
        /\ row.role = work.role
    BY <2>2, ConstantFacts DEF TInv, Token, Roles
  <2> HIDE DEF row
  <2>4. /\ sessions' = Refreshed(work) /\ UNCHANGED <<users, onboarded>>
        /\ \E id \in DOMAIN tokens' :
             /\ tokens'[id] = row
             /\ \A t \in DOMAIN tokens' \ {id} :
                  t \in DOMAIN tokens \ work.tokens /\ tokens'[t] = tokens[t]
    BY <1>1, <2>1, <2>2, <2>3, Issued
  <2>5. PICK id \in DOMAIN tokens' :
          /\ tokens'[id] = row
          /\ \A t \in DOMAIN tokens' \ {id} :
               t \in DOMAIN tokens \ work.tokens /\ tokens'[t] = tokens[t]
    BY <2>4
  <2>6. \A e \in Emails : \A t \in PendingInvites(e)' :
          IF t = id THEN e = work.email ELSE t \in PendingInvites(e) \ work.tokens
    BY <2>2, <2>3, <2>5 DEF PendingInvites, Usable
  <2>7. \A u \in Nat : PendingResets(u)' \subseteq PendingResets(u)
    BY <2>2, <2>3, <2>5 DEF PendingResets, Usable
  <2>8. OneLink'
    BY <1>2, <2>2, <2>6, <2>7 DEF OneLink
  <2>9. NoLinkForMembers'
    BY <1>2, <2>2, <2>4, <2>6 DEF NoLinkForMembers, Known
  <2>10. Secrets'
    BY <1>2, <1>3, <2>4 DEF Secrets
  <2>11. AdminRemains'
    BY <1>2, <2>4, AdminsStay
  <2>12. QED BY <2>8, <2>9, <2>10, <2>11 DEF InOrder
<1>7. CASE CommitRevoke(r)
  <2>1. /\ End(r, "revoke") /\ tokens' = Without(tokens, work.tokens)
        /\ sessions' = Refreshed(work) /\ UNCHANGED <<users, onboarded>>
    BY <1>7 DEF CommitRevoke
  <2>2. FewerLinks
    BY <2>1, EndMeans, WithoutLinks DEF Kinds
  <2>3. QED BY <1>3, <2>1, <2>2, OrderKept DEF Orderly
<1>8. CASE CommitIssueReset(r)
  <2> DEFINE row == [purpose |-> "reset", email |-> Null, role |-> Null, user |-> work.user,
                     expires |-> now + ResetTtl, consumed |-> FALSE]
  <2>1. End(r, "issue") /\ work.user \in DOMAIN users /\ Issue(work, row)
    BY <1>8 DEF CommitIssueReset
  <2>2. now' = now /\ PendingResets(work.user) \subseteq work.tokens
    BY <2>1, EndMeans, EndsAlone DEF Prepared, Kinds
  <2>3. row \in Token /\ row.purpose = "reset" /\ row.user = work.user
    BY <1>1, <2>1, ConstantFacts DEF TInv, Token
  <2> HIDE DEF row
  <2>4. /\ sessions' = Refreshed(work) /\ UNCHANGED <<users, onboarded>>
        /\ \E id \in DOMAIN tokens' :
             /\ tokens'[id] = row
             /\ \A t \in DOMAIN tokens' \ {id} :
                  t \in DOMAIN tokens \ work.tokens /\ tokens'[t] = tokens[t]
    BY <1>1, <2>1, <2>3, Issued
  <2>5. PICK id \in DOMAIN tokens' :
          /\ tokens'[id] = row
          /\ \A t \in DOMAIN tokens' \ {id} :
               t \in DOMAIN tokens \ work.tokens /\ tokens'[t] = tokens[t]
    BY <2>4
  <2>6. \A u \in Nat : \A t \in PendingResets(u)' :
          IF t = id THEN u = work.user ELSE t \in PendingResets(u) \ work.tokens
    BY <2>2, <2>3, <2>5 DEF PendingResets, Usable
  <2>7. \A e : PendingInvites(e)' \subseteq PendingInvites(e)
    BY <2>2, <2>3, <2>5 DEF PendingInvites, Usable
  <2>8. OneLink'
    BY <1>2, <2>2, <2>6, <2>7 DEF OneLink
  <2>9. NoLinkForMembers'
    BY <1>2, <2>4, <2>7 DEF NoLinkForMembers, Known
  <2>10. Secrets'
    BY <1>2, <1>3, <2>4 DEF Secrets
  <2>11. AdminRemains'
    BY <1>2, <2>4, AdminsStay
  <2>12. QED BY <2>8, <2>9, <2>10, <2>11 DEF InOrder
<1>9. CASE CommitUpdate(r)
  <2>1. /\ End(r, "update") /\ sessions' = Refreshed(work) /\ UNCHANGED <<tokens, onboarded>>
        /\ work.user \in DOMAIN users
    BY <1>9 DEF CommitUpdate
  <2>2. /\ work.old \in User /\ work.new \in User /\ now' = now
        /\ users[work.user] = work.old /\ LeavesAdmin(work.old, work.new)
    BY <2>1, EndMeans, EndsAlone DEF WorkOK, Prepared, Kinds
  <2>3. users' = [users EXCEPT ![work.user].role = work.new.role,
                               ![work.user].active = work.new.active]
    BY <1>9, <2>2 DEF CommitUpdate, User
  <2>4. /\ DOMAIN users' = DOMAIN users
        /\ \A u \in DOMAIN users : /\ users'[u].email = users[u].email
                                   /\ users'[u].password = users[u].password
                                   /\ u # work.user => users'[u] = users[u]
        /\ users'[work.user] \in User
        /\ users'[work.user].role = work.new.role /\ users'[work.user].active = work.new.active
    BY <1>1, <2>1, <2>2, <2>3 DEF User
  <2>5. FewerLinks
    BY <2>1, <2>2, SameLinks
  <2>6. OneLink' /\ NoLinkForMembers'
    BY <1>2, <2>4, <2>5, LinksKept, NoneForMembers DEF Known
  <2>7. Secrets'
    BY <1>1, <1>2, <1>3, <2>1, <2>4 DEF Secrets, SessionsOK
  <2>8. IsAdmin(users'[work.user]) <=> IsAdmin(work.new)
    BY <2>2, <2>4, ConstantFacts DEF IsAdmin
  <2>9. AdminRemains'
    <3>1. CASE IsAdmin(work.old) => IsAdmin(work.new)
      BY <1>2, <2>1, <2>2, <2>4, <2>8, <3>1, AdminsStay
    <3>2. CASE IsAdmin(work.old) /\ ~IsAdmin(work.new)
      <4>1. PICK v \in ActiveAdmins : v # work.user
        BY <2>1, <2>2, <3>2, AnotherAdmin DEF LeavesAdmin, ActiveAdmins
      <4>2. QED BY <2>4, <4>1 DEF AdminRemains, ActiveAdmins
    <3>3. QED BY <3>1, <3>2
  <2>10. QED BY <2>6, <2>7, <2>9 DEF InOrder
<1>10. CASE CommitDelete(r)
  <2>1. /\ End(r, "delete") /\ users' = Without(users, {work.user})
        /\ tokens' = Without(tokens, ResetsOf(work.user))
        /\ sessions' = [s \in DOMAIN sessions \ SessionsOf(work.user) |-> Refreshed(work)[s]]
        /\ UNCHANGED onboarded
    BY <1>10 DEF CommitDelete
  <2>2. now' = now /\ work.user \in DOMAIN users /\ LeavesAdmin(users[work.user], Null)
    BY <2>1, EndMeans, EndsAlone DEF Prepared, Kinds
  <2>3. /\ DOMAIN users' = DOMAIN users \ {work.user}
        /\ \A u \in DOMAIN users' : users'[u] = users[u]
    BY <2>1 DEF Without
  <2>4. FewerLinks
    BY <2>1, <2>2, WithoutLinks
  <2>5. OneLink' /\ NoLinkForMembers'
    BY <1>2, <2>3, <2>4, LinksKept, NoneForMembers DEF Known
  <2>6. Secrets'
    <3>1. SUFFICES ASSUME NEW s \in DOMAIN sessions'
                   PROVE  sessions'[s].secret = users'[sessions'[s].user].password
      BY DEF Secrets
    <3>2. /\ s \in DOMAIN sessions /\ sessions[s].user # work.user
          /\ sessions'[s].user = sessions[s].user /\ sessions'[s].secret = sessions[s].secret
      BY <1>3, <2>1 DEF SessionsOf
    <3>3. sessions[s].user \in DOMAIN users'
      BY <1>1, <2>3, <3>2 DEF SessionsOK
    <3>4. QED BY <1>2, <2>3, <3>2, <3>3 DEF Secrets
  <2>7. AdminRemains'
    <3>1. CASE ~IsAdmin(users[work.user])
      BY <1>2, <2>1, <2>3, <3>1, AdminsStay
    <3>2. CASE IsAdmin(users[work.user])
      <4>1. PICK v \in ActiveAdmins : v # work.user
        BY <2>2, <3>2, AnotherAdmin DEF LeavesAdmin, ActiveAdmins, IsAdmin
      <4>2. QED BY <2>3, <4>1 DEF AdminRemains, ActiveAdmins
    <3>3. QED BY <3>1, <3>2
  <2>8. QED BY <2>5, <2>6, <2>7 DEF InOrder
<1>11. CASE CommitPassword(r)
  <2> DEFINE kept == DOMAIN sessions \ (SessionsOf(work.user) \ {work.session})
  <2>1. /\ End(r, "password") /\ UNCHANGED <<tokens, onboarded>> /\ work.user \in DOMAIN users
        /\ users' = [users EXCEPT ![work.user].password = work.new.password]
        /\ sessions' = [s \in kept |->
                          IF s = work.session
                          THEN [Refreshed(work)[s] EXCEPT !.secret = work.new.password]
                          ELSE sessions[s]]
    BY <1>11 DEF CommitPassword
  <2>2. now' = now /\ work.session \in DOMAIN sessions /\ sessions[work.session].user = work.user
    BY <2>1, EndMeans, EndsAlone DEF Prepared, Kinds
  <2>3. /\ DOMAIN users' = DOMAIN users
        /\ \A u \in DOMAIN users : /\ users'[u].email = users[u].email
                                   /\ IsAdmin(users[u]) => IsAdmin(users'[u])
                                   /\ u # work.user => users'[u] = users[u]
        /\ users'[work.user].password = work.new.password
    <3>1. users'[work.user] = [users[work.user] EXCEPT !.password = work.new.password]
      BY <2>1
    <3>2. users'[work.user] \in [email : Emails, role : Roles, active : BOOLEAN,
                                 password : {work.new.password}]
      BY <1>1, <2>1, <3>1 DEF User, Roles
    <3>3. work.new \in User
      BY <2>1, EndMeans DEF WorkOK, Kinds
    <3>4. users'[work.user] \in User
      BY <3>2, <3>3 DEF User, Roles
    <3>5. /\ users'[work.user].email = users[work.user].email
          /\ users'[work.user].role = users[work.user].role
          /\ users'[work.user].active = users[work.user].active
          /\ users'[work.user].password = work.new.password
      BY <1>1, <2>1, <3>1 DEF User
    <3>6. QED BY <1>1, <2>1, <3>4, <3>5, ConstantFacts DEF IsAdmin
  <2>4. FewerLinks
    BY <2>1, <2>2, SameLinks
  <2>5. OneLink' /\ NoLinkForMembers'
    BY <1>2, <2>3, <2>4, LinksKept, NoneForMembers DEF Known
  <2>6. Secrets'
    <3>1. SUFFICES ASSUME NEW s \in kept
                   PROVE  sessions'[s].secret = users'[sessions'[s].user].password
      BY <2>1 DEF Secrets
    <3>2. CASE s = work.session
      <4>1. Refreshed(work)[s] \in Session /\ Refreshed(work)[s].user = work.user
        BY <1>1, <1>3, <2>2, <3>2, RefreshedOK DEF SessionsOK
      <4>2. sessions'[s] = [Refreshed(work)[s] EXCEPT !.secret = work.new.password]
        BY <2>1, <3>2
      <4>3. QED BY <2>3, <4>1, <4>2 DEF Session
    <3>3. CASE s # work.session
      <4>1. sessions'[s] = sessions[s] /\ sessions[s].user # work.user
        BY <2>1, <3>3 DEF SessionsOf
      <4>2. QED BY <1>1, <1>2, <2>3, <4>1 DEF Secrets, SessionsOK
    <3>4. QED BY <3>2, <3>3
  <2>7. AdminRemains'
    BY <1>2, <2>1, <2>3, AdminsStay
  <2>8. QED BY <2>5, <2>6, <2>7 DEF InOrder
<1>12. CASE CommitAcceptInvite(r)
  <2>1. /\ End(r, "join") /\ NextId(users) <= MaxUser
        /\ ~Known(work.new.email) /\ users' = With(users, NextId(users), work.new)
        /\ Consume(work) /\ UNCHANGED <<sessions, onboarded>>
    BY <1>12 DEF CommitAcceptInvite
  <2>2. /\ work.new \in User /\ now' = now
        /\ PendingInvites(work.new.email) \subseteq work.tokens
    BY <2>1, EndMeans, EndsAlone DEF WorkOK, Prepared, Kinds
  <2>3. PICK id \in Nat :
          /\ id \notin DOMAIN users /\ DOMAIN users' = DOMAIN users \cup {id}
          /\ users'[id] = work.new /\ \A u \in DOMAIN users : users'[u] = users[u]
    BY <2>1, <2>2, WithUser
  <2>4. FewerLinks /\ \A t \in work.tokens : ~Usable(t)'
    BY <2>1, <2>2, ConsumedLinks
  <2>5. OneLink'
    BY <1>2, <2>4, LinksKept
  <2>6. NoLinkForMembers'
    <3>1. SUFFICES ASSUME NEW e \in Emails, Known(e)', NEW t \in PendingInvites(e)'
                   PROVE  FALSE
      BY DEF NoLinkForMembers
    <3>2. t \in PendingInvites(e) /\ Usable(t)'
      BY <2>4, <3>1, FewerPending DEF PendingInvites
    <3>3. ~Known(e)
      BY <1>2, <3>2 DEF NoLinkForMembers
    <3>4. e = work.new.email
      BY <2>3, <3>1, <3>3 DEF Known
    <3>5. QED BY <2>2, <2>4, <3>2, <3>4
  <2>7. Secrets'
    BY <1>1, <1>2, <2>1, <2>3 DEF Secrets, SessionsOK
  <2>8. AdminRemains'
    BY <1>2, <2>1, <2>3, AdminsStay
  <2>9. QED BY <2>5, <2>6, <2>7, <2>8 DEF InOrder
<1>13. CASE CommitAcceptReset(r)
  <2>1. /\ End(r, "renew") /\ UNCHANGED onboarded /\ work.user \in DOMAIN users
        /\ users' = [users EXCEPT ![work.user].password = work.new.password]
        /\ Consume(work) /\ sessions' = Without(sessions, SessionsOf(work.user))
    BY <1>13 DEF CommitAcceptReset, Revoked
  <2>2. work.new \in User /\ now' = now
    BY <2>1, EndMeans DEF WorkOK, Kinds
  <2>3. /\ DOMAIN users' = DOMAIN users
        /\ \A u \in DOMAIN users : /\ users'[u].email = users[u].email
                                   /\ IsAdmin(users[u]) => IsAdmin(users'[u])
                                   /\ u # work.user => users'[u] = users[u]
    <3>1. users'[work.user] = [users[work.user] EXCEPT !.password = work.new.password]
      BY <2>1
    <3>2. /\ users'[work.user] \in User
          /\ users'[work.user].email = users[work.user].email
          /\ users'[work.user].role = users[work.user].role
          /\ users'[work.user].active = users[work.user].active
      BY <1>1, <2>1, <2>2, <3>1 DEF User
    <3>3. QED BY <1>1, <2>1, <3>2, ConstantFacts DEF IsAdmin
  <2>4. FewerLinks
    BY <2>1, <2>2, ConsumedLinks
  <2>5. OneLink' /\ NoLinkForMembers'
    BY <1>2, <2>3, <2>4, LinksKept, NoneForMembers DEF Known
  <2>6. Secrets'
    BY <1>1, <1>2, <2>1, <2>3 DEF Secrets, SessionsOK, SessionsOf, Without
  <2>7. AdminRemains'
    BY <1>2, <2>1, <2>3, AdminsStay
  <2>8. QED BY <2>5, <2>6, <2>7 DEF InOrder
<1>14. QED
  BY <1>4, <1>5, <1>6, <1>7, <1>8, <1>9, <1>10, <1>11, <1>12, <1>13 DEF Commit

LEMMA SerialOfInit ==
  ASSUME Init
  PROVE  SInv
<1>1. DOMAIN users = {} /\ DOMAIN tokens = {} /\ DOMAIN sessions = {} /\ ~onboarded
  BY DEF Init
<1>2. \A r \in Requests : inflight[r] = Idle
  BY DEF Init
<1>3. Alone /\ \A r \in Requests : Prepared(inflight[r])
  BY <1>2, IdleWork DEF Alone, Prepared
<1>4. InOrder
  BY <1>1 DEF InOrder, OneLink, NoLinkForMembers, Secrets, AdminRemains, PendingInvites, PendingResets
<1>5. QED BY <1>3, <1>4 DEF SInv, Orderly

LEMMA SerialOfNext ==
  ASSUME AccountConstants, TInv, SInv, [Next]_vars
  PROVE  SInv'
<1>1. CASE UNCHANGED vars
  <2>1. now \in Nat /\ FewerLinks
    BY <1>1, SameLinks DEF vars, TInv
  <2>2. Orderly => InOrder'
    BY <1>1, <2>1, OrderKept DEF vars, Orderly
  <2>3. ASSUME Orderly PROVE Alone' /\ \A r \in Requests : Prepared(inflight[r])'
    BY <1>1, <2>1, <2>3, PreparedKept DEF vars, Orderly, Alone
  <2>4. QED BY <1>1, <2>2, <2>3 DEF vars, SInv, Orderly
<1>2. CASE Next
  <2>1. overlap' = overlap
    BY <1>2, LoadMeans, EndMeans DEF Next, Begun, Commit, CommitSetup, CommitLogin, CommitInvite,
       CommitRevoke, CommitIssueReset, CommitUpdate, CommitDelete, CommitPassword,
       CommitAcceptInvite, CommitAcceptReset, End, rest, Fail, Refresh, Logout, Tick, Restart
  <2>2. SUFFICES ASSUME ~overlap, Orderly PROVE Orderly'
    BY <2>1 DEF SInv
  <2>3. InOrder
    BY <2>2 DEF Orderly
  <2>4. ASSUME NEW r \in Requests, Load(r) PROVE Orderly'
    <3>1. PICK work : Begun(r, work)
      BY <2>4, LoadMeans
    <3>2. /\ UNCHANGED <<users, tokens, sessions, onboarded, now>>
          /\ \A q \in Requests : inflight[q] = Idle
          /\ \A q \in Requests : inflight'[q] = IF q = r THEN work ELSE Idle
          /\ Prepared(work)
      BY <2>2, <2>3, <3>1 DEF Begun, Quiet, InOrder, TInv
    <3>3. FewerLinks
      BY <3>2, SameLinks
    <3>4. InOrder'
      BY <2>3, <3>2, <3>3, OrderKept
    <3>5. Prepared(work)'
      BY <3>2, <3>3, PreparedKept
    <3>6. Prepared(Idle)'
      BY IdleWork DEF Prepared
    <3>7. \A q \in Requests : Prepared(inflight[q])'
      BY <3>2, <3>5, <3>6
    <3>8. Alone'
      BY <3>2, IdleWork DEF Alone
    <3>9. QED BY <3>4, <3>7, <3>8 DEF Orderly
  <2>5. ASSUME NEW r \in Requests, Commit(r) PROVE Orderly'
    <3>1. \A q \in Requests : inflight'[q] = Idle
      BY <2>2, <2>5, EndsAlone DEF Commit, CommitSetup, CommitLogin, CommitInvite, CommitRevoke,
         CommitIssueReset, CommitUpdate, CommitDelete, CommitPassword, CommitAcceptInvite,
         CommitAcceptReset, Kinds
    <3>2. QED BY <2>2, <2>5, <3>1, OrderOfCommit, PreparedIdle DEF Orderly
  <2>6. ASSUME NEW r \in Requests, Fail(r) PROVE Orderly'
    <3>1. inflight[r].kind # "idle"
      BY <2>6 DEF Fail, TInv, WorkOK
    <3>2. \A q \in Requests \ {r} : inflight[q] = Idle
      BY <2>2, <3>1 DEF Orderly, Alone, TInv, WorkOK
    <3>3. \A q \in Requests : inflight'[q] = Idle
      BY <2>6, <3>2 DEF Fail, TInv
    <3>4. FewerLinks
      BY <2>6, SameLinks DEF Fail, rest
    <3>5. InOrder'
      BY <2>3, <2>6, <3>4, OrderKept DEF Fail
    <3>6. QED BY <3>3, <3>5, PreparedIdle DEF Orderly
  <2>7. ASSUME NEW s \in DOMAIN sessions, Refresh(s) PROVE Orderly'
    <3>1. /\ UNCHANGED <<users, tokens, onboarded, now>>
          /\ \A q \in Requests : inflight'[q] = Idle
          /\ sessions' = [sessions EXCEPT ![s].expires = now + SessionTtl]
      BY <2>2, <2>7 DEF Refresh, Quiet, rest
    <3>2. FewerLinks
      BY <3>1, SameLinks
    <3>3. \A x \in DOMAIN sessions : sessions[x] \in Session
      BY DEF TInv, SessionsOK
    <3>4. /\ DOMAIN sessions' = DOMAIN sessions
          /\ \A x \in DOMAIN sessions : /\ sessions'[x].user = sessions[x].user
                                        /\ sessions'[x].secret = sessions[x].secret
      BY <3>1, <3>3 DEF Session
    <3>5. InOrder'
      BY <2>3, <3>1, <3>2, <3>4, OrderKept
    <3>6. QED BY <3>1, <3>5, PreparedIdle DEF Orderly
  <2>8. ASSUME NEW s \in DOMAIN sessions, Logout(s) PROVE Orderly'
    <3>1. /\ UNCHANGED <<users, tokens, onboarded, now>>
          /\ \A q \in Requests : inflight'[q] = Idle
          /\ sessions' = Without(sessions, {s})
      BY <2>2, <2>8 DEF Logout, Quiet, rest
    <3>2. FewerLinks
      BY <3>1, SameLinks
    <3>3. InOrder'
      BY <2>3, <3>1, <3>2, OrderKept DEF Without
    <3>4. QED BY <3>1, <3>3, PreparedIdle DEF Orderly
  <2>9. ASSUME Tick PROVE Orderly'
    <3>1. UNCHANGED <<users, tokens, sessions, onboarded, inflight>> /\ now' = now + 1
      BY <2>9 DEF Tick
    <3>2. FewerLinks
      BY <3>1, SameLinks
    <3>3. InOrder'
      BY <2>3, <3>1, <3>2, OrderKept
    <3>4. Alone' /\ \A q \in Requests : Prepared(inflight[q])'
      BY <2>2, <3>1, <3>2, PreparedKept DEF Orderly, Alone
    <3>5. QED BY <3>3, <3>4 DEF Orderly
  <2>10. ASSUME Restart PROVE Orderly'
    <3> DEFINE late == {t \in DOMAIN tokens : tokens[t].expires < now}
    <3>1. /\ UNCHANGED <<users, onboarded, now>>
          /\ \A q \in Requests : inflight'[q] = Idle
          /\ tokens' = Without(tokens, late)
          /\ \A s \in DOMAIN sessions' : s \in DOMAIN sessions /\ sessions'[s] = sessions[s]
      BY <2>10 DEF Restart, rest, Without
    <3>2. FewerLinks
      BY <3>1, WithoutLinks
    <3>3. InOrder'
      BY <2>3, <3>1, <3>2, OrderKept
    <3>4. QED BY <3>1, <3>3, PreparedIdle DEF Orderly
  <2>11. QED
    BY <1>2, <2>4, <2>5, <2>6, <2>7, <2>8, <2>9, <2>10 DEF Next
<1>3. QED BY <1>1, <1>2

LEMMA Serially ==
  ASSUME AccountConstants
  PROVE  Spec => [](TInv /\ SInv)
<1>1. Init => TInv /\ SInv
  BY TypesOfInit, SerialOfInit
<1>2. TInv /\ SInv /\ [Next]_vars => TInv' /\ SInv'
  BY TypesOfNext, SerialOfNext
<1>3. QED BY <1>1, <1>2, PTL DEF Spec

\* The household never loses its last active administrator, whatever requests,
\* errors and restarts follow each other, as long as requests do not overlap.
THEOREM NeverWithoutAdmin ==
  ASSUME AccountConstants
  PROVE  Spec => []KeepsAdmin
<1>1. SInv => KeepsAdmin
  BY DEF SInv, Orderly, InOrder, KeepsAdmin
<1>2. QED BY <1>1, Serially, PTL

LEMMA AtMostOne ==
  ASSUME NEW S, \A s, t \in S : s = t
  PROVE  Cardinality(S) <= 1
<1>1. CASE S = {}
  BY <1>1, FS_EmptySet
<1>2. CASE S # {}
  <2>1. PICK s \in S : S = {s}
    BY <1>2
  <2>2. QED BY SMTT(30), <2>1, FS_Singleton
<1>3. QED BY <1>1, <1>2

\* A new link takes the place of the one before, nobody who has joined is still
\* invited, and a session lasts no longer than the password it was opened with:
\* for requests one by one.
THEOREM NothingOutlived ==
  ASSUME AccountConstants
  PROVE  Spec => []SupersededIsUseless
<1>1. TInv /\ SInv => SupersededIsUseless
  <2> SUFFICES ASSUME TInv, Orderly
               PROVE  /\ \A e \in Emails : Cardinality(PendingInvites(e)) <= 1
                      /\ \A e \in Emails : Known(e) => PendingInvites(e) = {}
                      /\ \A u \in DOMAIN users : Cardinality(PendingResets(u)) <= 1
                      /\ \A s \in DOMAIN sessions :
                           sessions[s].secret = users[sessions[s].user].password
    BY DEF SInv, SupersededIsUseless, LinksAreUnique, SessionsAreCurrent
  <2>1. OneLink /\ NoLinkForMembers /\ Secrets
    BY DEF Orderly, InOrder
  <2>2. DOMAIN users \subseteq Nat
    BY ConstantFacts DEF TInv, UsersOK
  <2>3. \A e \in Emails : Cardinality(PendingInvites(e)) <= 1
    BY <2>1, AtMostOne DEF OneLink
  <2>4. \A u \in DOMAIN users : Cardinality(PendingResets(u)) <= 1
    BY <2>1, <2>2, AtMostOne DEF OneLink
  <2>5. QED BY <2>1, <2>3, <2>4 DEF NoLinkForMembers, Secrets
<1>2. QED BY <1>1, Serially, PTL

\* However set-ups race, an account appears after the onboarding only in a step
\* that spends a link; for requests one by one that link is a fresh invitation for
\* its e-mail and role.
THEOREM JoinsOnlyByLink ==
  ASSUME AccountConstants
  PROVE  Spec => JoinsByInvitation
<1> DEFINE Joins ==
      onboarded =>
        /\ onboarded'
        /\ \A u \in DOMAIN users' \ DOMAIN users :
             \E t \in DOMAIN tokens :
               /\ tokens'[t].consumed
               /\ ~overlap =>
                    /\ tokens[t].purpose = "invite" /\ ~tokens[t].consumed
                    /\ tokens[t].email = users'[u].email
                    /\ tokens[t].role = users'[u].role
<1>1. ASSUME AccountConstants, TInv, SInv, Next, onboarded
      PROVE  Joins
  <2>1. CASE \E r \in Requests : CommitAcceptInvite(r)
    <3>1. PICK r \in Requests : CommitAcceptInvite(r)
      BY <2>1
    <3> DEFINE work == inflight[r]
    <3>2. /\ End(r, "join") /\ NextId(users) <= MaxUser /\ ~Known(work.new.email)
          /\ users' = With(users, NextId(users), work.new)
          /\ Consume(work) /\ UNCHANGED onboarded
      BY <3>1 DEF CommitAcceptInvite
    <3>3. WorkOK(work) /\ work.kind = "join"
      BY <1>1, <3>2, EndMeans DEF Kinds
    <3>4. work.new \in User /\ \E t \in Nat : work.tokens = {t}
      BY <3>3 DEF WorkOK
    <3>5. \A u \in DOMAIN users' \ DOMAIN users : users'[u] = work.new
      BY <1>1, <3>2, <3>4, WithUser
    <3>6. PICK t \in DOMAIN tokens : work.tokens = {t} /\ tokens'[t].consumed
      BY <1>1, <3>2, <3>4, Consumed
    <3>7. ~overlap => /\ tokens[t].purpose = "invite" /\ ~tokens[t].consumed
                      /\ tokens[t].email = work.new.email /\ tokens[t].role = work.new.role
      BY <1>1, <3>3, <3>6 DEF SInv, Orderly, Prepared
    <3>8. QED BY <1>1, <3>2, <3>5, <3>6, <3>7
  <2>2. CASE ~\E r \in Requests : CommitAcceptInvite(r)
    <3>1. onboarded' /\ DOMAIN users' \subseteq DOMAIN users
      <4>1. ASSUME NEW r \in Requests, Load(r) PROVE onboarded' /\ users' = users
        BY <1>1, <4>1, LoadMeans DEF Begun
      <4>2. ASSUME NEW r \in Requests, Commit(r) PROVE onboarded' /\ DOMAIN users' \subseteq DOMAIN users
        BY <1>1, <2>2, <4>2 DEF Commit, CommitSetup, CommitLogin, CommitInvite, Issue, CommitRevoke,
           CommitIssueReset, CommitUpdate, CommitDelete, Without, CommitPassword, CommitAcceptReset
      <4>3. QED
        BY <1>1, <4>1, <4>2 DEF Next, Fail, Refresh, Logout, Tick, Restart
    <3>2. QED BY <3>1
  <2>3. QED BY <2>1, <2>2
<1>2. TInv /\ SInv /\ [Next]_vars => [Joins]_vars
  BY <1>1
<1>3. QED BY <1>2, Serially, PTL DEF Spec, JoinsByInvitation

-----------------------------------------------------------------------------
(* The settings *)

\* What a setting may have been asked to be, and the texts its row may hold.
Written(k) == IF k = "from_name" THEN Store!Values(k) ELSE Store!Values(k) \ {Null}

Made(k) == IF k = "integration_token" THEN Tokens ELSE {}

Texts(k) ==
  IF k = "use_tls" THEN {"true"} ELSE {Store!Encode(v) : v \in Written(k)} \cup Made(k)

DraftOK(draft) ==
  \/ draft = Store!Idle
  \/ /\ draft.kind = "patch"
     /\ DOMAIN draft.rows \subseteq Store!Settings
     /\ \A k \in DOMAIN draft.rows : draft.rows[k] \in Written(k)
     /\ \A k \in Store!Settings :
          /\ k \in DOMAIN draft.rows <=> k \in DOMAIN draft.patch /\ Store!Asks(k, draft.patch[k])
          /\ k \in DOMAIN draft.rows => draft.rows[k] = draft.patch[k]
  \/ /\ draft.kind = "token"
     /\ DOMAIN draft.rows = {"integration_token"}
     /\ draft.rows["integration_token"] \in Tokens

StoreTypes ==
  /\ DOMAIN table \subseteq Store!Settings \cup {"use_tls"}
  /\ \A k \in DOMAIN table : table[k] \in Texts(k)
  /\ DOMAIN drafts = Requests /\ \A r \in Requests : DraftOK(drafts[r])
  /\ DOMAIN asked = Store!Settings
  /\ \A k \in Store!Settings : asked[k] = {} \/ \E v \in Written(k) : asked[k] = {v}
  /\ overlap \in BOOLEAN

\* The rows a draft saw are the rows there are.
Current(draft) ==
  /\ draft.kind = "patch" =>
       \A k \in DOMAIN draft.rows :
         /\ k \in DOMAIN draft.seen <=> k \in DOMAIN table
         /\ k \in DOMAIN draft.seen => draft.seen[k] = table[k]
  /\ draft.kind = "token" => Store!Read("integration_token") = Null

\* A row stands for what was named last; a token may have been made up where
\* none was named.
Held(k) ==
  /\ asked[k] = {} => k \notin DOMAIN table \/ table[k] \in Made(k)
  /\ \A v \in asked[k] :
       /\ k \in DOMAIN table
       /\ table[k] = Store!Encode(v) \/ (v = "" /\ table[k] \in Made(k))

OneByOne ==
  /\ \A r, q \in Requests : drafts[r] # Store!Idle /\ drafts[q] # Store!Idle => r = q
  /\ \A r \in Requests : Current(drafts[r])
  /\ \A k \in Store!Settings : Held(k)

StoreInv == StoreTypes /\ (~overlap => OneByOne)

LEMMA WrittenMeans ==
  ASSUME NEW k \in Store!Settings, NEW v \in Written(k)
  PROVE  /\ v # "raises" /\ Store!Encode(v) \in Texts(k)
         /\ k = "lead_days" => v \in {"0", "5"} /\ Store!Encode(v) = v
         /\ k \in {"auto_add", "http_enabled"} =>
              \/ v = "True" /\ Store!Encode(v) = "true"
              \/ v = "False" /\ Store!Encode(v) = "false"
         /\ k = "encryption" => v \in {"none", "starttls"} /\ Store!Encode(v) = v
         /\ k \in {"topic_prefix", "integration_token"} =>
              v \in {"", "word"} /\ Store!Encode(v) = v
         /\ k = "from_name" =>
              \/ v \in {Null, ""} /\ Store!Encode(v) = ""
              \/ v = "word" /\ Store!Encode(v) = "word"
BY SettingsConstants
   DEF Written, Texts, Store!Values, Store!Encode, Store!Settings

LEMMA TextsMean ==
  ASSUME NEW k \in Store!Settings, NEW text \in Texts(k)
  PROVE  \/ text \in Made(k)
         \/ \E v \in Written(k) : text = Store!Encode(v)
BY DEF Texts, Store!Settings

LEMMA TextOfToken ==
  ASSUME StoreTypes, "integration_token" \in DOMAIN table
  PROVE  LET text == table["integration_token"]
         IN  /\ text \in Tokens \cup {"", "word"}
             /\ Store!Read("integration_token") = (IF text = "" THEN Null ELSE text)
<1>1. "integration_token" \in Store!Settings
  BY DEF Store!Settings
<1>2. table["integration_token"] \in Texts("integration_token")
  BY DEF StoreTypes
<1>3. table["integration_token"] \in Tokens \cup {"", "word"}
  <2>1. CASE table["integration_token"] \in Made("integration_token")
    BY <2>1 DEF Made
  <2>2. ASSUME NEW v \in Written("integration_token"),
               table["integration_token"] = Store!Encode(v)
        PROVE  table["integration_token"] \in {"", "word"}
    BY ZenonT(30), <1>1, <2>2, WrittenMeans
  <2> QED
    BY <1>1, <1>2, <2>1, <2>2, TextsMean
<1> QED
  BY <1>3 DEF Store!Read, Store!Decode, Store!Default

LEMMA StoreOfInit ==
  ASSUME Store!Init
  PROVE  StoreInv
<1>1. /\ \A r \in Requests : drafts[r] = Store!Idle
      /\ \A k \in Store!Settings : asked[k] = {}
      /\ DOMAIN drafts = Requests /\ DOMAIN asked = Store!Settings /\ overlap \in BOOLEAN
  BY DEF Store!Init
<1>2. DOMAIN table \subseteq {"use_tls"} /\ \A k \in DOMAIN table : table[k] \in Texts(k)
  BY DEF Store!Init, Texts
<1>3. "use_tls" \notin Store!Settings
  BY DEF Store!Settings
<1>4. StoreTypes
  BY <1>1, <1>2 DEF StoreTypes, DraftOK
<1>5. \A r \in Requests : Current(drafts[r])
  BY <1>1 DEF Current, Store!Idle
<1>6. \A k \in Store!Settings : Held(k)
  BY <1>1, <1>2, <1>3 DEF Held
<1>7. \A r, q \in Requests : drafts[r] # Store!Idle /\ drafts[q] # Store!Idle => r = q
  BY <1>1
<1> QED
  BY <1>4, <1>5, <1>6, <1>7 DEF StoreInv, OneByOne

\* A request begins: alone, if requests do not overlap.
LEMMA StoreOfBegin ==
  ASSUME StoreInv, NEW r \in Requests, NEW draft, NEW size, Store!Begin(r, draft, size),
         DraftOK(draft), Current(draft)
  PROVE  StoreInv'
<1>1. drafts' = [drafts EXCEPT ![r] = draft] /\ UNCHANGED <<table, asked, overlap>>
  BY DEF Store!Begin
<1>2. StoreTypes'
  BY <1>1 DEF StoreInv, StoreTypes, DraftOK
<1>3. ASSUME ~overlap' PROVE OneByOne'
  <2>1. OneByOne /\ \A q \in Requests : drafts[q] = Store!Idle
    BY <1>1, <1>3 DEF StoreInv, Store!Begin, Store!Quiet
  <2>2. \A q \in Requests : drafts'[q] = IF q = r THEN draft ELSE Store!Idle
    BY <1>1, <2>1 DEF StoreInv, StoreTypes
  <2>3. Current(draft)' /\ Current(Store!Idle)'
    BY <1>1 DEF Current, Store!Idle, Store!Read, Store!Encryption
  <2>4. \A q \in Requests : Current(drafts[q])'
    BY <2>2, <2>3
  <2>5. \A k \in Store!Settings : Held(k)'
    BY <1>1, <2>1 DEF OneByOne, Held
  <2> QED
    BY <2>2, <2>4, <2>5 DEF OneByOne
<1> QED
  BY <1>2, <1>3 DEF StoreInv

\* A request is over: its draft is gone.
LEMMA StoreOfEnd ==
  ASSUME StoreInv, NEW r \in Requests, drafts' = [drafts EXCEPT ![r] = Store!Idle],
         DOMAIN table' \subseteq Store!Settings \cup {"use_tls"},
         \A k \in DOMAIN table' : table'[k] \in Texts(k),
         DOMAIN asked' = Store!Settings,
         \A k \in Store!Settings : asked'[k] = {} \/ \E v \in Written(k) : asked'[k] = {v},
         overlap' = overlap, drafts[r] # Store!Idle,
         ~overlap => \A k \in Store!Settings : Held(k)'
  PROVE  StoreInv'
<1>1. StoreTypes'
  BY DEF StoreInv, StoreTypes, DraftOK, Texts, Written, Made
<1>2. ASSUME ~overlap' PROVE OneByOne'
  <2>1. \A q \in Requests : drafts'[q] = Store!Idle
    BY <1>2 DEF StoreInv, StoreTypes, OneByOne
  <2>2. Current(Store!Idle)'
    BY DEF Current, Store!Idle
  <2> QED
    BY <1>2, <2>1, <2>2 DEF OneByOne
<1> QED
  BY <1>1, <1>2 DEF StoreInv

LEMMA StoreOfLoadPatch ==
  ASSUME StoreInv, NEW r \in Requests, Store!LoadPatch(r)
  PROVE  StoreInv'
<1>1. PICK K \in UNION {Store!kSubset(n, Store!Settings) : n \in 1 .. MaxNamed} :
        \E patch \in {f \in [K -> UNION {Store!Values(k) : k \in K}] :
                        \A k \in K : f[k] \in Store!Values(k)} :
          LET set == {k \in K : Store!Set(k, patch[k])}
          IN  Store!Begin(r, [kind |-> "patch", patch |-> patch, rows |-> [k \in set |-> patch[k]],
                              seen |-> Store!Restrict(table, set \cap DOMAIN table)], Store!Cardinality(K))
  BY DEF Store!LoadPatch
<1>2. PICK patch \in {f \in [K -> UNION {Store!Values(k) : k \in K}] :
                        \A k \in K : f[k] \in Store!Values(k)} :
        LET set == {k \in K : Store!Set(k, patch[k])}
        IN  Store!Begin(r, [kind |-> "patch", patch |-> patch, rows |-> [k \in set |-> patch[k]],
                            seen |-> Store!Restrict(table, set \cap DOMAIN table)], Store!Cardinality(K))
  BY <1>1
<1> DEFINE set == {k \in K : Store!Set(k, patch[k])}
           draft == [kind |-> "patch", patch |-> patch, rows |-> [k \in set |-> patch[k]],
                     seen |-> Store!Restrict(table, set \cap DOMAIN table)]
<1>3. K \subseteq Store!Settings
  BY DEF Store!kSubset
<1>4. \A k \in set : k \in Store!Settings /\ patch[k] \in Written(k)
  BY <1>3 DEF Store!Set, Written
<1>5. DraftOK(draft)
  BY <1>4 DEF DraftOK, Store!Set, Store!Asks
<1>6. Current(draft)
  BY DEF Current, Store!Restrict
<1> QED
  BY <1>2, <1>5, <1>6, StoreOfBegin

LEMMA StoreOfCommitPatch ==
  ASSUME StoreInv, NEW r \in Requests, Store!CommitPatch(r)
  PROVE  StoreInv'
<1> DEFINE draft == drafts[r]
           named == DOMAIN draft.rows
           kept(k) == k \in DOMAIN draft.seen /\ draft.seen[k] = Store!Encode(draft.rows[k])
<1>1. /\ draft.kind = "patch"
      /\ named \cap DOMAIN table = DOMAIN draft.seen
      /\ DOMAIN table' = DOMAIN table \cup named
      /\ \A k \in DOMAIN table \ named : table'[k] = table[k]
      /\ \A k \in named : table'[k] = IF kept(k) THEN table[k] ELSE Store!Encode(draft.rows[k])
      /\ asked' = [k \in Store!Settings |->
                     IF k \in DOMAIN draft.patch /\ Store!Asks(k, draft.patch[k])
                     THEN {draft.patch[k]} ELSE asked[k]]
      /\ drafts' = [drafts EXCEPT ![r] = Store!Idle]
      /\ overlap' = overlap
  BY DEF Store!CommitPatch
<1>2. /\ named \subseteq Store!Settings /\ \A k \in named : draft.rows[k] \in Written(k)
      /\ \A k \in Store!Settings :
           /\ k \in named <=> k \in DOMAIN draft.patch /\ Store!Asks(k, draft.patch[k])
           /\ k \in named => draft.rows[k] = draft.patch[k]
  <2>1. DraftOK(draft) /\ draft.kind = "patch"
    BY <1>1 DEF StoreInv, StoreTypes
  <2> QED
    BY <2>1 DEF DraftOK, Store!Idle
<1>2a. \A k \in Store!Settings : asked'[k] = IF k \in named THEN {draft.rows[k]} ELSE asked[k]
  BY <1>1, <1>2
<1>3. draft # Store!Idle
  BY <1>1 DEF Store!Idle
<1>4. DOMAIN table' \subseteq Store!Settings \cup {"use_tls"}
  BY <1>1, <1>2 DEF StoreInv, StoreTypes
<1>5. \A k \in DOMAIN table' : table'[k] \in Texts(k)
  <2>1. \A k \in named : Store!Encode(draft.rows[k]) \in Texts(k)
    BY <1>2, WrittenMeans
  <2>2. \A k \in DOMAIN table : table[k] \in Texts(k)
    BY DEF StoreInv, StoreTypes
  <2> QED
    BY <1>1, <2>1, <2>2
<1>6. \A k \in Store!Settings : asked'[k] = {} \/ \E v \in Written(k) : asked'[k] = {v}
  BY <1>1, <1>2, <1>2a DEF StoreInv, StoreTypes
<1>7. ASSUME ~overlap PROVE \A k \in Store!Settings : Held(k)'
  <2>1. OneByOne
    BY <1>7 DEF StoreInv
  <2>2. \A k \in named : table'[k] = Store!Encode(draft.rows[k])
    BY <1>1, <2>1 DEF OneByOne, Current
  <2>3. ASSUME NEW k \in named PROVE Held(k)'
    <3>1. asked'[k] = {draft.rows[k]}
      BY <1>2, <1>2a
    <3>2. k \in DOMAIN table' /\ table'[k] = Store!Encode(draft.rows[k])
      BY <1>1, <2>2
    <3> QED
      BY <3>1, <3>2 DEF Held
  <2>4. ASSUME NEW k \in Store!Settings \ named PROVE Held(k)'
    <3>1. /\ k \in DOMAIN table' <=> k \in DOMAIN table
          /\ k \in DOMAIN table => table'[k] = table[k]
          /\ asked'[k] = asked[k]
      BY <1>1, <1>2a, <2>4
    <3> QED
      BY <2>1, <3>1 DEF OneByOne, Held, Made
  <2> QED
    BY <2>3, <2>4
<1> QED
  BY <1>1, <1>3, <1>4, <1>5, <1>6, <1>7, StoreOfEnd

LEMMA StoreOfLoadToken ==
  ASSUME StoreInv, NEW r \in Requests, Store!LoadToken(r)
  PROVE  StoreInv'
<1>1. Store!Read("integration_token") = Null
  BY DEF Store!LoadToken
<1>2. PICK t \in Tokens :
        Store!Begin(r, [Store!Idle EXCEPT !.kind = "token",
                                          !.rows = [k \in {"integration_token"} |-> t]], 1)
  BY DEF Store!LoadToken
<1> DEFINE draft == [Store!Idle EXCEPT !.kind = "token",
                                       !.rows = [k \in {"integration_token"} |-> t]]
<1>3. draft.kind = "token" /\ draft.rows = [k \in {"integration_token"} |-> t]
  BY DEF Store!Idle
<1>4. DraftOK(draft) /\ Current(draft)
  BY <1>1, <1>3 DEF DraftOK, Current
<1> QED
  BY <1>2, <1>4, StoreOfBegin

LEMMA StoreOfCommitToken ==
  ASSUME StoreInv, NEW r \in Requests, Store!CommitToken(r)
  PROVE  StoreInv'
<1> DEFINE key == "integration_token"
           made == drafts[r].rows[key]
<1>1. /\ drafts[r].kind = "token"
      /\ DOMAIN table' = DOMAIN table \cup {key}
      /\ table'[key] = made
      /\ \A k \in DOMAIN table \ {key} : table'[k] = table[k]
      /\ drafts' = [drafts EXCEPT ![r] = Store!Idle]
      /\ asked' = asked /\ overlap' = overlap
  BY DEF Store!CommitToken
<1>2. drafts[r] # Store!Idle /\ made \in Tokens
  BY <1>1 DEF StoreInv, StoreTypes, DraftOK, Store!Idle
<1>3. key \in Store!Settings /\ Made(key) = Tokens /\ made \in Texts(key)
  BY <1>2 DEF Store!Settings, Made, Texts
<1>4. /\ DOMAIN table' \subseteq Store!Settings \cup {"use_tls"}
      /\ \A k \in DOMAIN table' : table'[k] \in Texts(k)
      /\ DOMAIN asked' = Store!Settings
      /\ \A k \in Store!Settings : asked'[k] = {} \/ \E v \in Written(k) : asked'[k] = {v}
  BY <1>1, <1>3 DEF StoreInv, StoreTypes
<1>5. ASSUME ~overlap PROVE \A k \in Store!Settings : Held(k)'
  <2>1. OneByOne /\ StoreTypes
    BY <1>5 DEF StoreInv
  <2>2. Store!Read(key) = Null
    BY <1>1, <2>1 DEF OneByOne, Current
  <2>3. key \in DOMAIN table => table[key] = ""
    BY <2>1, <2>2, TextOfToken, SettingsConstants
  <2>4. \A v \in asked[key] : v = ""
    <3> SUFFICES ASSUME NEW v \in asked[key] PROVE v = ""
      OBVIOUS
    <3>1. v \in Written(key)
      BY <1>3, <2>1 DEF StoreTypes
    <3>2. v \in {"", "word"} /\ Store!Encode(v) = v
      BY <1>3, <3>1, WrittenMeans
    <3> QED
      BY <1>3, <2>1, <2>3, <3>2 DEF OneByOne, Held
  <2>5. Held(key)'
    BY <1>1, <1>2, <1>3, <2>4 DEF Held, Made
  <2>6. ASSUME NEW k \in Store!Settings \ {key} PROVE Held(k)'
    <3>1. /\ k \in DOMAIN table' <=> k \in DOMAIN table
          /\ k \in DOMAIN table => table'[k] = table[k]
          /\ asked'[k] = asked[k]
      BY <1>1, <2>6
    <3> QED
      BY <2>1, <3>1 DEF OneByOne, Held, Made
  <2> QED
    BY <2>5, <2>6
<1> QED
  BY <1>1, <1>2, <1>4, <1>5, StoreOfEnd

LEMMA StoreOfFail ==
  ASSUME StoreInv, NEW r \in Requests, Store!Fail(r)
  PROVE  StoreInv'
<1>1. /\ drafts[r] # Store!Idle /\ drafts' = [drafts EXCEPT ![r] = Store!Idle]
      /\ UNCHANGED <<table, asked, overlap>>
  BY DEF Store!Fail
<1>2. ~overlap => \A k \in Store!Settings : Held(k)'
  BY <1>1 DEF StoreInv, OneByOne, Held, Made
<1> QED
  BY <1>1, <1>2, StoreOfEnd DEF StoreInv, StoreTypes

\* What the other two parts do is nothing to the accounts.
LEMMA StepsOfAccounts ==
  ASSUME [PartsNext]_<<part, vars, limiterVars, storeVars>>
  PROVE  [Next]_vars
<1>1. Store!Next => overlap' = overlap
  BY DEF Store!Next, Store!LoadPatch, Store!CommitPatch, Store!LoadToken, Store!CommitToken,
     Store!Fail, Store!Begin
<1> QED
  BY <1>1 DEF PartsNext, vars

LEMMA AccountsInParts ==
  ASSUME AccountConstants
  PROVE  PartsSpec => [](TInv /\ SInv)
<1>1. PartsInit => TInv /\ SInv
  BY TypesOfInit, SerialOfInit DEF PartsInit
<1>2. TInv /\ SInv /\ [PartsNext]_<<part, vars, limiterVars, storeVars>> => TInv' /\ SInv'
  BY StepsOfAccounts, TypesOfNext, SerialOfNext
<1> QED
  BY <1>1, <1>2, PTL DEF PartsSpec

LEMMA StoreOfNext ==
  ASSUME AccountConstants, TInv, StoreInv, [PartsNext]_<<part, vars, limiterVars, storeVars>>
  PROVE  StoreInv'
<1>1. ASSUME Store!Next PROVE StoreInv'
  BY <1>1, StoreOfLoadPatch, StoreOfCommitPatch, StoreOfLoadToken, StoreOfCommitToken,
     StoreOfFail DEF Store!Next
<1>2. ASSUME UNCHANGED <<table, drafts, asked, overlap>> PROVE StoreInv'
  <2>1. StoreTypes'
    BY <1>2 DEF StoreInv, StoreTypes, DraftOK, Texts, Written, Made
  <2>2. OneByOne => OneByOne'
    BY ZenonT(30), <1>2 DEF OneByOne, Current, Held, Made, Store!Read, Store!Encryption
  <2> QED
    BY <1>2, <2>1, <2>2 DEF StoreInv
<1>3. ASSUME Next PROVE overlap' = overlap
  BY <1>3, LoadMeans, EndMeans DEF Next, Begun, Commit, CommitSetup, CommitLogin, CommitInvite,
     CommitRevoke, CommitIssueReset, CommitUpdate, CommitDelete, CommitPassword,
     CommitAcceptInvite, CommitAcceptReset, End, rest, Fail, Refresh, Logout, Tick, Restart
<1>4. CASE UNCHANGED <<part, vars, limiterVars, storeVars>>
  BY <1>2, <1>4 DEF vars, storeVars
<1>5. CASE PartsNext
  <2>1. CASE Next /\ UNCHANGED <<part, limiterVars, storeVars>>
    BY <1>2, <1>3, <2>1 DEF storeVars
  <2>2. CASE UNCHANGED <<part, vars, storeVars>>
    BY <1>2, <2>2 DEF vars, storeVars
  <2> QED
    BY <1>1, <1>5, <2>1, <2>2 DEF PartsNext
<1> QED
  BY <1>4, <1>5

LEMMA Only ==
  ASSUME NEW S, NEW x, S = {x}
  PROVE  (CHOOSE v \in S : TRUE) = x
OBVIOUS

LEMMA NamedMeans ==
  ASSUME NEW k \in Store!Settings, NEW x, asked[k] = {x}
  PROVE  Store!Meant(k) =
           IF Store!Default(k) = Null /\ x \in {"", Null} THEN Null ELSE x
<1>1. asked[k] # {} /\ (asked[k] \subseteq {"", Null} <=> x \in {"", Null})
  OBVIOUS
<1>2. (CHOOSE v \in asked[k] : TRUE) = x
  BY Only
<1> QED
  BY <1>1, <1>2 DEF Store!Meant

\* What a text stands for.
LEMMA DecodeMeans ==
  ASSUME NEW k \in Store!Settings \ {"encryption"}, NEW v \in Written(k)
  PROVE  Store!Decode(k, Store!Encode(v)) =
           IF Store!Default(k) = Null /\ v \in {"", Null} THEN Null ELSE v
<1> DEFINE text == Store!Encode(v)
<1>1. Store!Default(k) = Null <=> k \in {"from_name", "integration_token"}
  BY SettingsConstants DEF Store!Default, Store!Settings
<1>2. CASE k = "lead_days"
  BY <1>1, <1>2, WrittenMeans DEF Store!Decode
<1>3. CASE k \in {"auto_add", "http_enabled"}
  <2>1. Store!Default(k) # Null
    BY <1>1, <1>3
  <2>2. Store!Decode(k, text) = IF text = "true" THEN "True" ELSE "False"
    BY <1>3 DEF Store!Decode
  <2>3. (v = "True" /\ text = "true") \/ (v = "False" /\ text = "false")
    BY <1>3, WrittenMeans
  <2> QED
    BY <2>1, <2>2, <2>3
<1>4. CASE k \in {"topic_prefix", "integration_token"}
  <2>1. Store!Decode(k, text) = IF Store!Default(k) = Null /\ text = "" THEN Null ELSE text
    BY <1>4 DEF Store!Decode
  <2>2. text = v /\ v \in {"", "word"}
    BY <1>4, WrittenMeans
  <2> QED
    BY <2>1, <2>2, SettingsConstants
<1>5. CASE k = "from_name"
  <2>1. Store!Decode(k, text) = IF text = "" THEN Null ELSE text
    BY <1>1, <1>5 DEF Store!Decode
  <2>2. (v \in {Null, ""} /\ text = "") \/ (v = "word" /\ text = "word")
    BY <1>5, WrittenMeans
  <2> QED
    BY <1>1, <1>5, <2>1, <2>2, SettingsConstants
<1> QED
  BY <1>2, <1>3, <1>4, <1>5 DEF Store!Settings

\* What is read of a setting other than the token is what was named last.
LEMMA ReadMeans ==
  ASSUME StoreTypes, NEW k \in Store!Settings \ {"integration_token"}, Held(k)
  PROVE  Store!Read(k) = Store!Meant(k)
<1>1. Made(k) = {}
  BY DEF Made
<1>2. CASE asked[k] = {}
  <2>1. k \notin DOMAIN table
    BY <1>1, <1>2 DEF Held
  <2>2. "use_tls" \in DOMAIN table => table["use_tls"] = "true"
    BY DEF StoreTypes, Texts
  <2> QED
    BY <1>2, <2>1, <2>2 DEF Store!Read, Store!Encryption, Store!Meant, Store!Default
<1>3. ASSUME NEW x \in Written(k), asked[k] = {x} PROVE Store!Read(k) = Store!Meant(k)
  <2>1. k \in DOMAIN table /\ table[k] = Store!Encode(x)
    BY <1>1, <1>3 DEF Held
  <2>2. Store!Read(k) = IF k = "encryption" THEN Store!Encode(x)
                        ELSE Store!Decode(k, Store!Encode(x))
    BY <2>1 DEF Store!Read, Store!Encryption
  <2>3. Store!Meant(k) = IF Store!Default(k) = Null /\ x \in {"", Null} THEN Null ELSE x
    BY <1>3, NamedMeans
  <2>4. CASE k = "encryption"
    <3>1. x \in {"none", "starttls"} /\ Store!Encode(x) = x
      BY <2>4, WrittenMeans
    <3> QED
      BY <2>2, <2>3, <2>4, <3>1, SettingsConstants DEF Store!Default
  <2> QED
    BY <2>2, <2>3, <2>4, DecodeMeans
<1> QED
  BY <1>2, <1>3 DEF StoreTypes

\* Of the settings other than the token only a text with a default can be empty.
LEMMA OnlyThePrefixIsEmpty ==
  ASSUME StoreTypes, NEW k \in Store!Settings \ {"integration_token"}, Store!Meant(k) = ""
  PROVE  k = "topic_prefix"
<1>1. CASE asked[k] = {}
  BY <1>1, SettingsConstants DEF Store!Meant, Store!Default
<1>2. ASSUME NEW x \in Written(k), asked[k] = {x} PROVE k = "topic_prefix"
  <2>1. x = "" /\ Store!Default(k) # Null
    BY <1>2, NamedMeans, SettingsConstants
  <2>2. k # "from_name"
    BY <2>1 DEF Store!Default
  <2> QED
    BY <1>2, <2>1, <2>2, WrittenMeans DEF Store!Settings
<1> QED
  BY <1>1, <1>2 DEF StoreTypes

LEMMA Readable ==
  ASSUME StoreTypes, NEW k \in Store!Settings
  PROVE  Store!Read(k) # "raises"
<1>1. Store!Default(k) # "raises"
  BY SettingsConstants DEF Store!Default
<1>2. CASE k \notin DOMAIN table /\ k # "encryption"
  BY <1>1, <1>2 DEF Store!Read
<1>3. CASE k = "integration_token"
  BY <1>1, <1>2, <1>3, TextOfToken, SettingsConstants
<1>4. CASE k = "encryption" /\ k \notin DOMAIN table
  BY <1>4 DEF Store!Read, Store!Encryption
<1>5. CASE k \in DOMAIN table /\ k # "integration_token"
  <2>1. PICK v \in Written(k) : table[k] = Store!Encode(v)
    BY <1>5, TextsMean DEF StoreTypes, Made
  <2>2. Store!Read(k) = IF k = "encryption" THEN Store!Encode(v)
                        ELSE Store!Decode(k, Store!Encode(v))
    BY <1>5, <2>1 DEF Store!Read, Store!Encryption
  <2>3. v # "raises" /\ (k = "encryption" => Store!Encode(v) = v)
    BY <2>1, WrittenMeans
  <2> QED
    BY <2>2, <2>3, DecodeMeans, SettingsConstants
<1> QED
  BY <1>2, <1>3, <1>4, <1>5

\* A token that was named is the one that admits; one that was made up admits
\* only where none is named.
LEMMA TokenMeans ==
  ASSUME StoreTypes, Held("integration_token")
  PROVE  LET named == Store!Meant("integration_token")
         IN  /\ named # Null => Store!Admitted(named)
             /\ \A t \in Tokens \cup {"word"} : Store!Admitted(t) => named \in {t} \cup {Null}
             /\ named = Null => ~Store!Admitted("word")
             /\ Store!Shown("integration_token") =
                  \E t \in Tokens \cup {"word"} : Store!Admitted(t)
<1> DEFINE key == "integration_token"
           read == Store!Read(key)
           named == Store!Meant(key)
<1>1. key \in Store!Settings /\ Made(key) = Tokens /\ Store!Default(key) = Null
  BY DEF Store!Settings, Made, Store!Default
<1>2. \/ key \notin DOMAIN table /\ read = Null
      \/ key \in DOMAIN table /\ table[key] = "" /\ read = Null
      \/ key \in DOMAIN table /\ table[key] = "word" /\ read = "word"
      \/ key \in DOMAIN table /\ table[key] \in Tokens /\ read = table[key]
  BY <1>1, TextOfToken, SettingsConstants DEF Store!Read
<1>3. \/ named = Null /\ read \in Tokens \cup {Null}
      \/ named = "word" /\ read = "word"
  <2>1. CASE asked[key] = {}
    BY <1>1, <1>2, <2>1, SettingsConstants DEF Held, Store!Meant
  <2>2. ASSUME NEW v \in Written(key), asked[key] = {v}
        PROVE  \/ named = Null /\ read \in Tokens \cup {Null}
               \/ named = "word" /\ read = "word"
    <3>1. named = IF v \in {"", Null} THEN Null ELSE v
      BY <1>1, <2>2, NamedMeans
    <3>2. v \in {"", "word"} /\ Store!Encode(v) = v
      BY <1>1, WrittenMeans
    <3>3. key \in DOMAIN table /\ (table[key] = v \/ (v = "" /\ table[key] \in Tokens))
      BY <1>1, <2>2, <3>2 DEF Held
    <3> QED
      BY <1>2, <3>1, <3>2, <3>3, SettingsConstants
  <2> QED
    BY <1>1, <2>1, <2>2 DEF StoreTypes
<1>4. \A t \in Tokens \cup {"word"} : Store!Admitted(t) <=> read = t
  BY SettingsConstants DEF Store!Admitted
<1>5. Store!Shown(key) = (read # Null)
  BY DEF Store!Shown, Store!Secret
<1> QED
  BY <1>2, <1>3, <1>4, <1>5, SettingsConstants

\* Every row can be read, however requests interleave.  If they do not overlap,
\* the page shows what was last asked of a setting, zero, false and empty texts
\* included, or else its default; whoever uses it gets the same, or the default
\* for an empty text; and the token that admits is the one asked for, if one is.
THEOREM SettingsAreRemembered ==
  ASSUME AccountConstants
  PROVE  PartsSpec => []SettingsRemembered
<1>1. PartsInit => StoreInv
  BY StoreOfInit DEF PartsInit
<1>2. /\ TInv /\ StoreInv /\ [PartsNext]_<<part, vars, limiterVars, storeVars>>
      => StoreInv'
  BY StoreOfNext
<1>3. StoreInv => SettingsRemembered
  <2> SUFFICES ASSUME StoreInv PROVE Store!SettingsRemembered
    BY DEF SettingsRemembered
  <2>1. \A k \in Store!Settings : Store!Read(k) # "raises"
    BY Readable DEF StoreInv
  <2>2. ASSUME ~overlap
        PROVE  \A k \in Store!Settings \ Store!Secret :
                 /\ Store!Shown(k) = Store!Meant(k)
                 /\ Store!Used(k) = IF Store!Meant(k) = "" THEN Store!Default(k)
                                    ELSE Store!Meant(k)
    <3>1. SUFFICES ASSUME NEW k \in Store!Settings \ Store!Secret
                   PROVE  /\ Store!Shown(k) = Store!Meant(k)
                          /\ Store!Used(k) = IF Store!Meant(k) = "" THEN Store!Default(k)
                                             ELSE Store!Meant(k)
      OBVIOUS
    <3>2. StoreTypes /\ Held(k) /\ k \in Store!Settings \ {"integration_token"}
      BY <2>2 DEF StoreInv, OneByOne, Store!Secret
    <3>3. Store!Shown(k) = Store!Read(k) /\ Store!Read(k) = Store!Meant(k)
      BY <3>2, ReadMeans DEF Store!Shown, Store!Secret
    <3>4. Store!Meant(k) = "" => k = "topic_prefix"
      BY <3>2, OnlyThePrefixIsEmpty
    <3> QED
      BY <3>3, <3>4 DEF Store!Used
  <2>3. ~overlap => Held("integration_token") /\ StoreTypes
    BY DEF StoreInv, OneByOne, Store!Settings
  <2> QED
    BY <2>1, <2>2, <2>3, TokenMeans DEF Store!SettingsRemembered
<1> QED
  BY <1>1, <1>2, <1>3, AccountsInParts, PTL DEF PartsSpec

-----------------------------------------------------------------------------
(* The limiter *)

\* Induction over the naturals, for a set.
LEMMA NatSetInduction ==
  ASSUME NEW S, 0 \in S, \A n \in Nat : n \in S => n + 1 \in S
  PROVE  Nat \subseteq S
<1> SUFFICES ASSUME Nat \ S # {} PROVE FALSE
  OBVIOUS
<1>1. PICK x \in Nat \ S : \A y \in Nat \ S : x <= y
  <2>1. Nat \ S \subseteq Nat
    OBVIOUS
  <2> QED
    BY ONLY <2>1, Nat \ S # {}, LeastExists
<1>2. x - 1 \in Nat /\ x - 1 < x
  OBVIOUS
<1>3. x - 1 \in S
  BY <1>1, <1>2
<1> QED
  BY <1>2, <1>3

\* The values, up to n only, of what starts with base and goes on by step.
UpTo(step, base, n, g) ==
  g \in [0 .. n -> Nat] /\ g[0] = base /\ \A k \in 1 .. n : g[k] = step[g[k - 1]]

LEMMA UpToExists ==
  ASSUME NEW step \in [Nat -> Nat], NEW base \in Nat
  PROVE  \A n \in Nat : \E g : UpTo(step, base, n, g)
<1> DEFINE S == {n \in Nat : \E g : UpTo(step, base, n, g)}
<1>1. 0 \in S
  <2>1. UpTo(step, base, 0, [k \in 0 .. 0 |-> base])
    BY DEF UpTo
  <2> QED
    BY <2>1
<1>2. ASSUME NEW n \in Nat, n \in S PROVE n + 1 \in S
  <2>1. PICK g : UpTo(step, base, n, g)
    BY <1>2
  <2>2. PICK next \in Nat : next = step[g[n]]
    BY <2>1 DEF UpTo
  <2> DEFINE h == [k \in 0 .. n + 1 |-> IF k = n + 1 THEN next ELSE g[k]]
  <2> HIDE DEF h
  <2>3. h \in [0 .. n + 1 -> Nat] /\ h[0] = base
    <3>1. g \in [0 .. n -> Nat] /\ g[0] = base
      BY <2>1 DEF UpTo
    <3>2. h \in [0 .. n + 1 -> Nat]
      BY SMTT(30), <3>1 DEF h
    <3>3. h[0] = g[0]
      BY DEF h
    <3> QED
      BY <3>1, <3>2, <3>3
  <2>4. ASSUME NEW k \in 1 .. n + 1 PROVE h[k] = step[h[k - 1]]
    <3>1. k - 1 \in 0 .. n /\ h[k - 1] = g[k - 1]
      BY DEF h
    <3>2. CASE k = n + 1
      <4>1. h[k] = next /\ k - 1 = n
        BY <3>2 DEF h
      <4> QED
        BY <2>2, <3>1, <4>1
    <3>3. CASE k \in 1 .. n
      <4>1. h[k] = g[k]
        BY <3>3 DEF h
      <4>2. g[k] = step[g[k - 1]]
        BY <2>1, <3>3 DEF UpTo
      <4> QED
        BY <3>1, <4>1, <4>2
    <3> QED
      BY <3>2, <3>3
  <2>5. UpTo(step, base, n + 1, h)
    BY <2>3, <2>4 DEF UpTo
  <2> QED
    BY <2>5
<1> HIDE DEF S
<1>3. Nat \subseteq S
  BY <1>1, <1>2, NatSetInduction
<1> QED
  BY <1>3 DEF S

LEMMA UpToUnique ==
  ASSUME NEW step, NEW base, NEW n \in Nat, NEW m \in Nat, n <= m, NEW g, NEW h,
         UpTo(step, base, n, g), UpTo(step, base, m, h)
  PROVE  \A k \in 0 .. n : g[k] = h[k]
<1> DEFINE S == {i \in Nat : i \in 0 .. n => g[i] = h[i]}
<1>1. 0 \in S
  BY DEF UpTo
<1>2. ASSUME NEW i \in Nat, i \in S PROVE i + 1 \in S
  <2> SUFFICES ASSUME i + 1 \in 0 .. n PROVE g[i + 1] = h[i + 1]
    OBVIOUS
  <2>1. i + 1 \in 1 .. n /\ i + 1 \in 1 .. m /\ i \in 0 .. n /\ (i + 1) - 1 = i
    OBVIOUS
  <2>2. g[i + 1] = step[g[i]] /\ h[i + 1] = step[h[i]]
    BY <2>1 DEF UpTo
  <2> QED
    BY <1>2, <2>1, <2>2
<1> HIDE DEF S
<1>3. Nat \subseteq S
  BY <1>1, <1>2, NatSetInduction
<1> QED
  BY <1>3 DEF S

Obeys(step, base, f) ==
  f \in [Nat -> Nat] /\ \A n \in Nat : f[n] = IF n = 0 THEN base ELSE step[f[n - 1]]

\* What is defined by recursion over the naturals exists.
LEMMA RecursionExists ==
  ASSUME NEW step \in [Nat -> Nat], NEW base \in Nat
  PROVE  \E f : Obeys(step, base, f)
<1> DEFINE some(n) == CHOOSE g : UpTo(step, base, n, g)
           f == [n \in Nat |-> some(n)[n]]
<1>1. \A n \in Nat : UpTo(step, base, n, some(n))
  BY UpToExists
<1> HIDE DEF some
<1>2. f \in [Nat -> Nat]
  <2>1. ASSUME NEW n \in Nat PROVE some(n)[n] \in Nat
    BY <1>1 DEF UpTo
  <2> QED
    BY <2>1
<1>3. f[0] = base
  BY <1>1 DEF UpTo
<1>4. ASSUME NEW n \in Nat \ {0} PROVE f[n] = step[f[n - 1]]
  <2>1. n - 1 \in Nat /\ n - 1 <= n /\ n \in 1 .. n /\ n - 1 \in 0 .. n - 1
    OBVIOUS
  <2>2. some(n)[n] = step[some(n)[n - 1]]
    BY <1>1, <2>1 DEF UpTo
  <2>3. some(n - 1)[n - 1] = some(n)[n - 1]
    BY <1>1, <2>1, UpToUnique
  <2> QED
    BY <2>1, <2>2, <2>3
<1> HIDE DEF f
<1>5. Obeys(step, base, f)
  BY <1>2, <1>3, <1>4 DEF Obeys
<1> QED
  BY <1>5

\* The least of a set of naturals.
LEMMA MinMeans ==
  ASSUME NEW T, T \subseteq Nat, T # {}
  PROVE  Limiter!Min(T) \in T /\ \A j \in T : Limiter!Min(T) <= j
BY LeastExists DEF Limiter!Min

LEMMA LesserOfTwo ==
  ASSUME NEW a \in Nat, NEW b \in Nat
  PROVE  Limiter!Min({a, b}) = IF a <= b THEN a ELSE b
<1>1. {a, b} \subseteq Nat /\ {a, b} # {}
  OBVIOUS
<1> QED
  BY <1>1, MinMeans

LEMMA PowersGrow ==
  /\ Limiter!Doubled \in [Nat -> Nat]
  /\ \A n, m \in Nat : n <= m => Limiter!Doubled[n] <= Limiter!Doubled[m]
<1> DEFINE D == Limiter!Doubled
           twice == [x \in Nat |-> 2 * x]
<1>1. twice \in [Nat -> Nat]
  OBVIOUS
<1>2. PICK f : Obeys(twice, 1, f)
  <2> HIDE DEF twice
  <2> QED
    BY <1>1, RecursionExists
<1>3. \A n \in Nat : f[n] = IF n = 0 THEN 1 ELSE 2 * f[n - 1]
  <2> SUFFICES ASSUME NEW n \in Nat PROVE f[n] = IF n = 0 THEN 1 ELSE 2 * f[n - 1]
    OBVIOUS
  <2>1. f \in [Nat -> Nat] /\ f[n] = IF n = 0 THEN 1 ELSE twice[f[n - 1]]
    BY <1>2 DEF Obeys
  <2>2. n # 0 => f[n - 1] \in Nat
    BY <2>1
  <2> QED
    BY <2>1, <2>2
<1>4. f = [n \in Nat |-> IF n = 0 THEN 1 ELSE 2 * f[n - 1]]
  BY <1>2, <1>3 DEF Obeys
<1>5. D = [n \in Nat |-> IF n = 0 THEN 1 ELSE 2 * D[n - 1]]
  BY <1>4 DEF Limiter!Doubled
<1> HIDE DEF D, twice
<1>6. \A n \in Nat : D[n] \in Nat
  <2> DEFINE S == {n \in Nat : D[n] \in Nat}
  <2>1. 0 \in S
    BY <1>5
  <2>2. ASSUME NEW n \in Nat, n \in S PROVE n + 1 \in S
    <3>1. n + 1 \in Nat /\ n + 1 # 0 /\ (n + 1) - 1 = n
      OBVIOUS
    <3>2. D[n + 1] = 2 * D[n]
      BY <1>5, <3>1
    <3> QED
      BY <2>2, <3>2
  <2> HIDE DEF S
  <2>3. Nat \subseteq S
    BY <2>1, <2>2, NatSetInduction
  <2> QED
    BY <2>3 DEF S
<1>7. ASSUME NEW n \in Nat PROVE \A m \in Nat : n <= m => D[n] <= D[m]
  <2> DEFINE S == {m \in Nat : n <= m => D[n] <= D[m]}
  <2>1. 0 \in S
    BY <1>6
  <2>2. ASSUME NEW m \in Nat, m \in S PROVE m + 1 \in S
    <3>1. m + 1 \in Nat /\ m + 1 # 0 /\ (m + 1) - 1 = m
      OBVIOUS
    <3>2. D[m + 1] = 2 * D[m] /\ D[m] \in Nat /\ D[n] \in Nat
      BY <1>5, <1>6, <3>1
    <3>3. CASE n <= m
      BY <2>2, <3>2, <3>3
    <3>4. CASE n = m + 1
      BY <3>2, <3>4
    <3> QED
      BY <3>3, <3>4
  <2> HIDE DEF S
  <2>3. Nat \subseteq S
    BY <2>1, <2>2, NatSetInduction
  <2> QED
    BY <2>3 DEF S
<1>8. D \in [Nat -> Nat]
  BY <1>5, <1>6
<1> QED
  BY <1>7, <1>8 DEF D

LEMMA TimesGrow ==
  ASSUME NEW c \in Nat, NEW a \in Nat, NEW b \in Nat, a <= b
  PROVE  c * a \in Nat /\ c * b \in Nat /\ c * a <= c * b
OBVIOUS

\* A lockout is no shorter than the one before.
LEMMA LockoutsGrow ==
  ASSUME NEW n \in Nat \ {0}, NEW m \in Nat \ {0}, n <= m
  PROVE  /\ Limiter!Lockout(n) \in Nat /\ Limiter!Lockout(m) \in Nat
         /\ Limiter!Lockout(n) <= Limiter!Lockout(m)
<1> DEFINE x == Limiter!Doubled[n - 1]
           y == Limiter!Doubled[m - 1]
<1>1. n - 1 \in Nat /\ m - 1 \in Nat /\ n - 1 <= m - 1
  OBVIOUS
<1>2. x \in Nat /\ y \in Nat /\ x <= y
  BY <1>1, PowersGrow
<1> HIDE DEF x, y
<1>3. BaseLockout \in Nat /\ Cap \in Nat
  BY LimiterConstants
<1>4. BaseLockout * x \in Nat /\ BaseLockout * y \in Nat /\ BaseLockout * x <= BaseLockout * y
  BY <1>2, <1>3, TimesGrow
<1>5. /\ Limiter!Lockout(n) = IF BaseLockout * x <= Cap THEN BaseLockout * x ELSE Cap
      /\ Limiter!Lockout(m) = IF BaseLockout * y <= Cap THEN BaseLockout * y ELSE Cap
  BY <1>3, <1>4, LesserOfTwo DEF Limiter!Lockout, x, y
<1> QED
  BY <1>3, <1>4, <1>5

\* What is left of the times from the a-th on.
Suffix(failures, times, a) ==
  /\ a \in 1 .. Len(times) + 1
  /\ Len(failures) = Len(times) + 1 - a
  /\ \A i \in 1 .. Len(failures) : failures[i] = times[a + i - 1]

\* The failures that ended the batches so far, and the one from which on they
\* are still counted.
Story(times, slot, t, e, a) ==
  LET v == slot.violations
  IN  /\ e \in [0 .. v -> 0 .. Len(times)] /\ e[0] = 0
      /\ \A m \in 0 .. v : m <= e[m] /\ e[m] <= e[v]
      /\ \A m \in 1 .. v : /\ e[m] \in Limiter!Closing(times, e[m - 1])
                           /\ \A j \in Limiter!Closing(times, e[m - 1]) : e[m] <= j
      /\ Limiter!Closing(times, e[v]) = {}
      /\ Suffix(slot.failures, times, a) /\ Len(slot.failures) < Threshold
      /\ a > e[v] /\ \A i \in e[v] + 1 .. a - 1 : t - times[i] >= Window
      /\ slot.until = IF v = 0 THEN 0 ELSE times[e[v]] + Limiter!Lockout(v)

Chronicle(times, t) ==
  \A i, j \in 1 .. Len(times) : i <= j => times[i] <= times[j] /\ times[j] <= t

Within(slot) == slot.violations <= MaxDoublings + 1

LimiterInv ==
  /\ slots \in [Keys -> Limiter!Slot] /\ clock \in Nat
  /\ attempts \in [Requests -> Keys \cup {Null}] /\ log \in [Keys -> Seq(Nat)]
  /\ \A k \in Keys : Chronicle(log[k], clock)
  /\ \A k \in Keys : Within(slots[k]) => \E e, a : Story(log[k], slots[k], clock, e, a)

\* Which failures a new one is counted with.
LEMMA RecentMeans ==
  ASSUME clock \in Nat, NEW times \in Seq(Nat), NEW failures \in Seq(Nat), NEW a,
         Suffix(failures, times, a)
  PROVE  LET kept == Append(Limiter!Recent(failures), clock)
             now2 == Append(times, clock)
         IN  /\ kept \in Seq(Nat)
             /\ \E b \in a .. Len(times) + 1 :
                  /\ Suffix(kept, now2, b)
                  /\ \A i \in a .. b - 1 : clock - times[i] >= Window
                  /\ clock - now2[b] < Window
<1> DEFINE n == Len(failures)
           L == Len(times)
           young == {i \in DOMAIN failures : clock - failures[i] < Window} \cup {n + 1}
           c == Limiter!Min(young)
           b == a + c - 1
           recent == Limiter!Recent(failures)
           kept == Append(recent, clock)
           after == Append(times, clock)
<1>1. n \in Nat /\ L \in Nat /\ a \in 1 .. L + 1 /\ n = L + 1 - a /\ DOMAIN failures = 1 .. n
  BY DEF Suffix
<1>2. young \subseteq 1 .. n + 1 /\ n + 1 \in young
  BY <1>1
<1>3. c \in young /\ \A j \in young : c <= j
  <2>1. young \subseteq Nat /\ young # {}
    BY <1>1, <1>2
  <2> HIDE DEF young
  <2> QED
    BY <2>1, MinMeans
<1>4. c \in 1 .. n + 1 /\ b \in a .. L + 1
  <2> HIDE DEF c, young, n, L
  <2> QED
    BY <1>1, <1>2, <1>3
<1>5. recent = SubSeq(failures, c, n)
  BY DEF Limiter!Recent
<1>6. /\ recent \in Seq(Nat) /\ Len(recent) = n + 1 - c
      /\ \A i \in 1 .. n + 1 - c : recent[i] = failures[c + i - 1]
  <2>1. \A i \in c .. n : failures[i] \in Nat
    <3> HIDE DEF c
    <3>1. \A i \in c .. n : i \in 1 .. n
      BY <1>1, <1>4
    <3> QED
      BY <3>1
  <2>2. c \in Int /\ n \in Int /\ n - c + 1 = n + 1 - c /\ (~(c <= n) => n + 1 - c = 0)
    <3> HIDE DEF c, n
    <3> QED
      BY <1>1, <1>4
  <2> HIDE DEF c, recent, n
  <2> QED
    BY <1>5, <2>1, <2>2, SubSeqProperties
<1>7. after \in Seq(Nat) /\ Len(after) = L + 1 /\ after[L + 1] = clock
      /\ \A i \in 1 .. L : after[i] = times[i]
  OBVIOUS
<1>8. kept \in Seq(Nat) /\ Len(kept) = n + 2 - c /\ kept[n + 2 - c] = clock
      /\ \A i \in 1 .. n + 1 - c : kept[i] = failures[c + i - 1]
  <2> HIDE DEF c, recent, n
  <2>1. /\ kept \in Seq(Nat) /\ Len(kept) = Len(recent) + 1 /\ kept[Len(recent) + 1] = clock
        /\ \A i \in 1 .. Len(recent) : kept[i] = recent[i]
    BY <1>6, AppendProperties
  <2>2. Len(recent) + 1 = n + 2 - c
    BY SMTT(30), <1>1, <1>4, <1>6
  <2> QED
    BY <1>6, <2>1, <2>2
<1>9. \A i \in 1 .. n : failures[i] = times[a + i - 1]
  BY DEF Suffix
<1> HIDE DEF c, young, recent, kept, after, n, L
<1>10. Suffix(kept, after, b)
  <2>1. b \in 1 .. Len(after) + 1 /\ Len(kept) = Len(after) + 1 - b
    BY <1>1, <1>4, <1>7, <1>8
  <2>2. ASSUME NEW i \in 1 .. Len(kept) PROVE kept[i] = after[b + i - 1]
    <3>1. CASE i = Len(kept)
      BY SMTT(30), <1>1, <1>4, <1>7, <1>8, <3>1
    <3>2. CASE i \in 1 .. n + 1 - c
      <4>1. c + i - 1 \in 1 .. n /\ a + (c + i - 1) - 1 = b + i - 1 /\ b + i - 1 \in 1 .. L
        BY <1>1, <1>4, <3>2
      <4>2. kept[i] = times[b + i - 1]
        BY <1>8, <1>9, <3>2, <4>1
      <4> QED
        BY <1>7, <4>1, <4>2
    <3> QED
      BY <1>1, <1>4, <1>8, <3>1, <3>2
  <2> QED
    BY <2>1, <2>2 DEF Suffix
<1>11. ASSUME NEW i \in a .. b - 1 PROVE clock - times[i] >= Window
  <2>1. i - a + 1 \in 1 .. n /\ i - a + 1 < c /\ a + (i - a + 1) - 1 = i /\ i \in 1 .. L
    BY <1>1, <1>4
  <2>2. i - a + 1 \notin young
    BY <1>3, <2>1, <1>4
  <2>3. ~(clock - failures[i - a + 1] < Window)
    BY <1>1, <2>1, <2>2 DEF young
  <2>4. failures[i - a + 1] = times[i] /\ times[i] \in Nat
    BY <1>9, <2>1 DEF L
  <2> QED
    BY <2>3, <2>4, LimiterConstants
<1>12. clock - after[b] < Window
  <2>1. CASE c = n + 1
    <3>1. b = L + 1 /\ clock - clock = 0 /\ 0 < Window
      BY <1>1, <2>1, LimiterConstants
    <3> QED
      BY <1>7, <3>1
  <2>2. CASE c \in 1 .. n
    <3>1. clock - failures[c] < Window
      BY <1>1, <1>3, <2>2 DEF young
    <3>2. failures[c] = times[b] /\ b \in 1 .. L
      BY <1>1, <1>4, <1>9, <2>2
    <3> QED
      BY <1>7, <3>1, <3>2
  <2> QED
    BY <1>1, <1>4, <2>1, <2>2
<1> QED
  BY <1>4, <1>8, <1>10, <1>11, <1>12 DEF kept, recent, after, L

\* Where another failure can close a batch.
LEMMA ClosingAfter ==
  ASSUME NEW times \in Seq(Nat), NEW t \in Nat, NEW i \in Nat
  PROVE  LET old == Limiter!Closing(times, i)
             new == Limiter!Closing(Append(times, t), i)
         IN  /\ old \subseteq new /\ new \subseteq old \cup {Len(times) + 1}
             /\ old \subseteq 1 .. Len(times)
             /\ Len(times) + 1 \in new <=>
                  /\ Len(times) + 1 >= i + Threshold
                  /\ t - Append(times, t)[Len(times) + 2 - Threshold] < Window
<1> DEFINE after == Append(times, t)
<1>1. Threshold \in Nat \ {0} /\ Len(times) \in Nat
  BY LimiterConstants
<1>2. after \in Seq(Nat) /\ Len(after) = Len(times) + 1 /\ after[Len(times) + 1] = t
      /\ \A j \in 1 .. Len(times) : after[j] = times[j]
  OBVIOUS
<1> HIDE DEF after
<1>3. ASSUME NEW j \in i + Threshold .. Len(times)
      PROVE  j \in 1 .. Len(times) /\ after[j] = times[j]
             /\ after[j - Threshold + 1] = times[j - Threshold + 1]
  <2>1. j \in 1 .. Len(times) /\ j - Threshold + 1 \in 1 .. Len(times)
    BY <1>1
  <2> QED
    BY <1>2, <2>1
<1>4. Limiter!Closing(times, i) \subseteq Limiter!Closing(after, i)
  <2> SUFFICES ASSUME NEW j \in Limiter!Closing(times, i) PROVE j \in Limiter!Closing(after, i)
    OBVIOUS
  <2>1. j \in i + Threshold .. Len(times) /\ times[j] - times[j - Threshold + 1] < Window
    BY DEF Limiter!Closing
  <2>2. after[j] - after[j - Threshold + 1] < Window /\ j \in i + Threshold .. Len(after)
    BY <1>1, <1>2, <1>3, <2>1
  <2> QED
    BY <2>2 DEF Limiter!Closing
<1>5. Limiter!Closing(after, i) \subseteq Limiter!Closing(times, i) \cup {Len(times) + 1}
  <2> SUFFICES ASSUME NEW j \in Limiter!Closing(after, i), j # Len(times) + 1
               PROVE  j \in Limiter!Closing(times, i)
    OBVIOUS
  <2>1. j \in i + Threshold .. Len(after) /\ after[j] - after[j - Threshold + 1] < Window
    BY DEF Limiter!Closing
  <2>2. j \in i + Threshold .. Len(times)
    BY <1>1, <1>2, <2>1
  <2>3. times[j] - times[j - Threshold + 1] < Window
    BY <1>3, <2>1, <2>2
  <2> QED
    BY <2>2, <2>3 DEF Limiter!Closing
<1>6. Limiter!Closing(times, i) \subseteq 1 .. Len(times)
  BY <1>3 DEF Limiter!Closing
<1>7. Len(times) + 1 \in Limiter!Closing(after, i) <=>
        /\ Len(times) + 1 >= i + Threshold
        /\ t - after[Len(times) + 2 - Threshold] < Window
  <2>1. (Len(times) + 1) - Threshold + 1 = Len(times) + 2 - Threshold
    BY <1>1
  <2> QED
    BY <1>1, <1>2, <2>1 DEF Limiter!Closing
<1> QED
  BY <1>4, <1>5, <1>6, <1>7 DEF after

\* A failure within a lockout's measure, or one that begins the next lockout.
LEMMA StoryGoesOn ==
  ASSUME clock \in Nat, NEW times \in Seq(Nat), NEW slot \in Limiter!Slot, NEW e, NEW a,
         Story(times, slot, clock, e, a), Within(Limiter!Registered(slot))
  PROVE  \E f, b : Story(Append(times, clock), Limiter!Registered(slot), clock, f, b)
<1> DEFINE v == slot.violations
           L == Len(times)
           after == Append(times, clock)
           kept == Append(Limiter!Recent(slot.failures), clock)
           result == Limiter!Registered(slot)
<1>1. /\ v \in Nat /\ L \in Nat /\ slot.failures \in Seq(Nat) /\ Threshold \in Nat \ {0}
      /\ v \in 0 .. v
  BY LimiterConstants DEF Limiter!Slot
<1>2. /\ e \in [0 .. v -> 0 .. L] /\ e[0] = 0
      /\ \A m \in 0 .. v : m <= e[m] /\ e[m] <= e[v]
      /\ \A m \in 1 .. v : /\ e[m] \in Limiter!Closing(times, e[m - 1])
                           /\ \A j \in Limiter!Closing(times, e[m - 1]) : e[m] <= j
      /\ Limiter!Closing(times, e[v]) = {}
      /\ Suffix(slot.failures, times, a) /\ Len(slot.failures) < Threshold
      /\ a > e[v] /\ \A i \in e[v] + 1 .. a - 1 : clock - times[i] >= Window
      /\ slot.until = IF v = 0 THEN 0 ELSE times[e[v]] + Limiter!Lockout(v)
  BY DEF Story
<1>3. \A m \in 0 .. v : e[m] \in 0 .. L
  BY <1>2
<1>4. a \in 1 .. L + 1 /\ Len(slot.failures) = L + 1 - a
  BY <1>2 DEF Suffix
<1>5. kept \in Seq(Nat)
  BY <1>1, <1>2, RecentMeans
<1>6. PICK b \in a .. L + 1 : /\ Suffix(kept, after, b)
                              /\ \A i \in a .. b - 1 : clock - times[i] >= Window
                              /\ clock - after[b] < Window
  BY <1>1, <1>2, RecentMeans
<1>7. after \in Seq(Nat) /\ Len(after) = L + 1 /\ after[L + 1] = clock
      /\ \A i \in 1 .. L : after[i] = times[i]
  OBVIOUS
<1>8. Len(kept) \in Nat /\ Len(kept) = L + 2 - b
  <2>1. Len(kept) = Len(after) + 1 - b
    BY <1>6 DEF Suffix
  <2> HIDE DEF kept, after, L
  <2> QED
    BY <1>1, <1>4, <1>6, <1>7, <2>1
<1>9. ASSUME NEW i \in 0 .. L
      PROVE  LET old == Limiter!Closing(times, i)
                 new == Limiter!Closing(after, i)
             IN  /\ old \subseteq new /\ new \subseteq old \cup {L + 1} /\ old \subseteq 1 .. L
                 /\ L + 1 \in new <=>
                      L + 1 >= i + Threshold /\ clock - after[L + 2 - Threshold] < Window
  <2>1. i \in Nat
    BY <1>1
  <2> HIDE DEF after
  <2> QED
    BY <2>1, ClosingAfter DEF after
<1> HIDE DEF v, L, after, kept, result
<1>10. ASSUME NEW m \in 1 .. v
       PROVE  /\ e[m] \in Limiter!Closing(after, e[m - 1])
              /\ \A j \in Limiter!Closing(after, e[m - 1]) : e[m] <= j
  <2>1. m - 1 \in 0 .. v /\ m \in 0 .. v
    BY <1>1
  <2>2. e[m - 1] \in 0 .. L /\ e[m] \in 0 .. L
    BY <1>3, <2>1
  <2> QED
    BY <1>1, <1>2, <1>9, <2>2
<1>11. \A i \in e[v] + 1 .. b - 1 : i \in 1 .. L /\ clock - times[i] >= Window
  BY <1>1, <1>2, <1>3, <1>4, <1>6
<1>12. CASE Len(kept) < Threshold
  <2>1. result = [slot EXCEPT !.failures = kept]
    BY <1>12 DEF result, Limiter!Registered, kept
  <2>2. result.violations = v /\ result.failures = kept /\ result.until = slot.until
    BY <2>1 DEF Limiter!Slot, v
  <2>3. Limiter!Closing(after, e[v]) = {}
    <3>1. L + 1 \notin Limiter!Closing(after, e[v])
      <4> SUFFICES ASSUME L + 1 >= e[v] + Threshold
                   PROVE  ~(clock - after[L + 2 - Threshold] < Window)
        BY <1>1, <1>3, <1>9
      <4>1. L + 2 - Threshold \in e[v] + 1 .. b - 1
        BY <1>1, <1>3, <1>6, <1>8, <1>12
      <4>2. L + 2 - Threshold \in 1 .. L /\ clock - times[L + 2 - Threshold] >= Window
        BY <1>11, <4>1
      <4>3. after[L + 2 - Threshold] \in Nat /\ times[L + 2 - Threshold] = after[L + 2 - Threshold]
        BY SMTT(30), <1>1, <1>7, <4>2
      <4> QED
        BY <4>2, <4>3, LimiterConstants
    <3> QED
      BY <1>1, <1>2, <1>3, <1>9, <3>1
  <2>4. e \in [0 .. v -> 0 .. Len(after)]
    BY <1>1, <1>2, <1>7
  <2>5. b > e[v] /\ \A i \in e[v] + 1 .. b - 1 : clock - after[i] >= Window
    <3>1. b > e[v]
      BY <1>1, <1>2, <1>3, <1>4, <1>6
    <3> QED
      BY <1>7, <1>11, <3>1
  <2>6. v # 0 => after[e[v]] = times[e[v]]
    BY SMTT(30), <1>1, <1>2, <1>3, <1>7
  <2>7. Story(after, result, clock, e, b)
    BY <1>2, <1>6, <1>10, <1>12, <2>2, <2>3, <2>4, <2>5, <2>6 DEF Story
  <2> QED
    BY <2>7 DEF after, result
<1>13. CASE ~(Len(kept) < Threshold)
  <2> DEFINE f == [m \in 0 .. v + 1 |-> IF m = v + 1 THEN L + 1 ELSE e[m]]
  <2>1. result = [failures |-> <<>>, violations |-> v + 1,
                  until |-> clock + Limiter!Lockout(v + 1)]
    <3>1. ~(v > MaxDoublings)
      <4> SUFFICES ASSUME v > MaxDoublings PROVE FALSE
        OBVIOUS
      <4>1. result = [slot EXCEPT !.failures = kept, !.violations = v + 1]
        BY <1>1, <1>13 DEF result, Limiter!Registered, kept, v
      <4>2. result.violations = v + 1
        BY <4>1 DEF Limiter!Slot
      <4> QED
        BY <1>1, <4>2, LimiterConstants DEF Within, result
    <3> QED
      BY <1>1, <1>13, <3>1 DEF result, Limiter!Registered, kept, v
  <2>2. b = L + 2 - Threshold
    BY <1>1, <1>2, <1>4, <1>6, <1>8, <1>13
  <2>3. L + 1 \in Limiter!Closing(after, e[v])
    <3>1. e[v] \in 0 .. L /\ L + 1 >= e[v] + Threshold
      BY <1>1, <1>2, <1>3, <1>4, <1>6, <2>2
    <3> QED
      BY <1>6, <1>9, <2>2, <3>1
  <2>4. Limiter!Closing(after, e[v]) = {L + 1}
    BY <1>1, <1>2, <1>3, <1>9, <2>3
  <2>5. Limiter!Closing(after, L + 1) = {}
    BY <1>1, <1>7 DEF Limiter!Closing
  <2>6. f \in [0 .. v + 1 -> 0 .. Len(after)] /\ f[0] = 0 /\ f[v + 1] = L + 1
        /\ \A m \in 0 .. v : f[m] = e[m]
    BY <1>1, <1>2, <1>3, <1>7
  <2> HIDE DEF f
  <2>7. ASSUME NEW m \in 0 .. v + 1 PROVE m <= f[m] /\ f[m] <= f[v + 1]
    <3>1. CASE m = v + 1
      <4>1. v <= e[v] /\ L + 1 >= e[v] + Threshold
        BY <1>1, <1>2, <1>3, <1>4, <1>6, <2>2
      <4> QED
        BY SMTT(30), <1>1, <1>3, <2>6, <3>1, <4>1
    <3>2. CASE m \in 0 .. v
      BY SMTT(30), <1>1, <1>2, <1>3, <2>6, <3>2
    <3> QED
      BY <1>1, <3>1, <3>2
  <2>8. ASSUME NEW m \in 1 .. v + 1
        PROVE  /\ f[m] \in Limiter!Closing(after, f[m - 1])
               /\ \A j \in Limiter!Closing(after, f[m - 1]) : f[m] <= j
    <3>1. CASE m = v + 1
      BY <1>1, <2>4, <2>6, <3>1
    <3>2. CASE m \in 1 .. v
      <4>1. f[m] = e[m] /\ f[m - 1] = e[m - 1]
        BY <1>1, <2>6, <3>2
      <4> QED
        BY <1>10, <3>2, <4>1
    <3> QED
      BY <1>1, <3>1, <3>2
  <2>9. Suffix(<<>>, after, L + 2)
    BY <1>1, <1>7 DEF Suffix
  <2>10. result.violations = v + 1 /\ result.failures = <<>>
         /\ result.until = after[L + 1] + Limiter!Lockout(v + 1)
    BY <1>7, <2>1
  <2>11. L + 2 > f[v + 1] /\ f[v + 1] + 1 .. (L + 2) - 1 = {} /\ v + 1 # 0 /\ Len(<<>>) < Threshold
    BY <1>1, <2>6
  <2>12. Story(after, result, clock, f, L + 2)
    BY <2>5, <2>6, <2>7, <2>8, <2>9, <2>10, <2>11 DEF Story
  <2> QED
    BY <2>12 DEF after, result
<1> QED
  BY <1>12, <1>13

\* The batches of the story are those of the log.
LEMMA EndsMeans ==
  ASSUME NEW times \in Seq(Nat), NEW slot \in Limiter!Slot, NEW t, NEW e, NEW a,
         Story(times, slot, t, e, a)
  PROVE  \A m \in 1 .. Len(times) :
           Limiter!Ends(times)[m] = IF m <= slot.violations THEN e[m] ELSE Len(times) + 1
<1> DEFINE v == slot.violations
           L == Len(times)
           least(i) == Limiter!Min(Limiter!Closing(times, i) \cup {L + 1})
           step == [i \in Nat |-> least(i)]
<1>1. v \in Nat /\ L \in Nat /\ Threshold \in Nat \ {0}
  BY LimiterConstants DEF Limiter!Slot
<1>2. ASSUME NEW i \in Nat
      PROVE  /\ least(i) \in Limiter!Closing(times, i) \cup {L + 1}
             /\ least(i) \in Nat
             /\ \A j \in Limiter!Closing(times, i) \cup {L + 1} : least(i) <= j
  <2> DEFINE T == Limiter!Closing(times, i) \cup {L + 1}
  <2>1. T \subseteq Nat /\ T # {}
    BY <1>1 DEF Limiter!Closing
  <2> HIDE DEF T
  <2>2. Limiter!Min(T) \in T /\ \A j \in T : Limiter!Min(T) <= j
    BY <2>1, MinMeans
  <2> QED
    BY <2>1, <2>2 DEF T
<1> HIDE DEF least
<1>3. step \in [Nat -> Nat] /\ \A i \in Nat : step[i] = least(i)
  BY <1>2
<1>4. PICK f : Obeys(step, 0, f)
  <2> HIDE DEF step
  <2> QED
    BY <1>3, RecursionExists
<1>5. f = [m \in Nat |-> IF m = 0 THEN 0 ELSE least(f[m - 1])]
  <2>1. f \in [Nat -> Nat] /\ \A m \in Nat : f[m] = IF m = 0 THEN 0 ELSE step[f[m - 1]]
    BY <1>4 DEF Obeys
  <2> HIDE DEF step
  <2>2. ASSUME NEW m \in Nat PROVE f[m] = IF m = 0 THEN 0 ELSE least(f[m - 1])
    <3>1. m # 0 => f[m - 1] \in Nat
      BY <2>1
    <3> QED
      BY <1>3, <2>1, <3>1
  <2> QED
    BY <2>1, <2>2
<1>6. PICK end : /\ end = [m \in Nat |-> IF m = 0 THEN 0 ELSE least(end[m - 1])]
                 /\ Limiter!Ends(times) = [m \in 1 .. L |-> end[m]]
  BY <1>5 DEF Limiter!Ends, least
<1>7. /\ e \in [0 .. v -> 0 .. L] /\ e[0] = 0
      /\ \A m \in 1 .. v : /\ e[m] \in Limiter!Closing(times, e[m - 1])
                           /\ \A j \in Limiter!Closing(times, e[m - 1]) : e[m] <= j
      /\ Limiter!Closing(times, e[v]) = {}
  BY DEF Story
<1> DEFINE S == {m \in Nat : end[m] = IF m <= v THEN e[m] ELSE L + 1}
<1>8. 0 \in S
  BY <1>1, <1>6, <1>7
<1>9. ASSUME NEW m \in Nat, m \in S PROVE m + 1 \in S
  <2>1. end[m] = IF m <= v THEN e[m] ELSE L + 1
    BY <1>9
  <2>2. end[m + 1] = least(end[m])
    <3>1. m + 1 \in Nat /\ m + 1 # 0 /\ (m + 1) - 1 = m
      OBVIOUS
    <3> QED
      BY <1>6, <3>1
  <2>3. CASE m + 1 <= v
    <3>1. m + 1 \in 1 .. v /\ (m + 1) - 1 = m /\ m \in 0 .. v /\ m + 1 \in 0 .. v /\ m <= v
      BY <1>1, <2>3
    <3>2. e[m] \in 0 .. L /\ e[m + 1] \in 0 .. L
      BY <1>7, <3>1
    <3>3. /\ e[m + 1] \in Limiter!Closing(times, e[m])
          /\ \A j \in Limiter!Closing(times, e[m]) : e[m + 1] <= j
      BY <1>7, <3>1
    <3>4. /\ least(e[m]) \in Limiter!Closing(times, e[m]) \cup {L + 1}
          /\ least(e[m]) \in Nat /\ least(e[m]) <= e[m + 1]
      <4>1. e[m] \in Nat
        BY <1>1, <3>2
      <4> QED
        BY <1>2, <3>3, <4>1
    <3>5. least(e[m]) = e[m + 1]
      BY <1>1, <3>2, <3>3, <3>4
    <3>6. end[m + 1] = e[m + 1]
      BY <2>1, <2>2, <3>1, <3>5
    <3> QED
      BY <2>3, <3>6
  <2>4. CASE ~(m + 1 <= v)
    <3>1. end[m] \in Nat /\ Limiter!Closing(times, end[m]) = {}
      <4>1. CASE m = v
        <5>1. end[m] = e[v] /\ v \in 0 .. v
          BY <1>1, <2>1, <4>1
        <5> QED
          BY <1>1, <1>7, <5>1
      <4>2. CASE m > v
        <5>1. end[m] = L + 1
          BY <1>1, <2>1, <4>2
        <5>2. Limiter!Closing(times, L + 1) = {}
          BY <1>1 DEF Limiter!Closing
        <5> QED
          BY <1>1, <5>1, <5>2
      <4> QED
        BY <1>1, <2>4, <4>1, <4>2
    <3>2. least(end[m]) = L + 1
      BY <1>2, <3>1
    <3> QED
      BY <2>2, <2>4, <3>2
  <2> QED
    BY <2>3, <2>4
<1> HIDE DEF S
<1>10. Nat \subseteq S
  BY <1>8, <1>9, NatSetInduction
<1>11. ASSUME NEW m \in 1 .. L PROVE Limiter!Ends(times)[m] = IF m <= v THEN e[m] ELSE L + 1
  <2>1. m \in Nat /\ m \in S
    BY <1>1, <1>10
  <2> QED
    BY <1>6, <2>1 DEF S
<1> QED
  BY <1>11

\* Until when a key is locked is until when its last batch locks it.
LEMMA StoryLocks ==
  ASSUME NEW times \in Seq(Nat), NEW slot \in Limiter!Slot, NEW t \in Nat, NEW e, NEW a,
         Story(times, slot, t, e, a), Chronicle(times, t)
  PROVE  slot.until > t <=>
           \E m \in DOMAIN times :
             /\ Limiter!Ends(times)[m] <= Len(times)
             /\ t < times[Limiter!Ends(times)[m]] + Limiter!Lockout(m)
<1> DEFINE v == slot.violations
           L == Len(times)
           end(m) == Limiter!Ends(times)[m]
<1>1. v \in Nat /\ L \in Nat /\ DOMAIN times = 1 .. L
  BY DEF Limiter!Slot
<1>2. /\ e \in [0 .. v -> 0 .. L]
      /\ \A m \in 0 .. v : m <= e[m] /\ e[m] <= e[v]
      /\ slot.until = IF v = 0 THEN 0 ELSE times[e[v]] + Limiter!Lockout(v)
  BY DEF Story
<1>3. \A m \in 1 .. L : end(m) = IF m <= v THEN e[m] ELSE L + 1
  BY EndsMeans
<1> HIDE DEF v, L, end
<1>4. ASSUME NEW m \in 1 .. v PROVE e[m] \in 1 .. L /\ e[m] <= e[v]
  <2>1. m \in 0 .. v
    BY <1>1
  <2>2. e[m] \in 0 .. L /\ m <= e[m] /\ e[m] <= e[v]
    BY <1>2, <2>1
  <2> QED
    BY <1>1, <2>2
<1>5. ASSUME slot.until > t
      PROVE  \E m \in 1 .. L : end(m) <= L /\ t < times[end(m)] + Limiter!Lockout(m)
  <2>1. v \in 1 .. v
    BY <1>1, <1>2, <1>5
  <2>2. v \in 1 .. L /\ e[v] \in 1 .. L
    BY <1>1, <1>2, <1>4, <2>1
  <2>3. end(v) = e[v]
    BY <1>1, <1>3, <2>2
  <2>4. times[e[v]] \in Nat /\ Limiter!Lockout(v) \in Nat
    BY <1>1, <2>1, <2>2, LockoutsGrow DEF L
  <2>5. t < times[end(v)] + Limiter!Lockout(v)
    BY <1>2, <1>5, <2>1, <2>3, <2>4
  <2> QED
    BY <1>1, <2>2, <2>3, <2>5
<1>6. ASSUME NEW m \in 1 .. L, end(m) <= L, t < times[end(m)] + Limiter!Lockout(m)
      PROVE  slot.until > t
  <2>1. m <= v /\ end(m) = e[m]
    BY <1>1, <1>3, <1>6
  <2>2. e[m] \in 1 .. L /\ e[v] \in 1 .. L /\ e[m] <= e[v] /\ v # 0
    BY <1>1, <1>4, <2>1
  <2>3. times[e[m]] \in Nat /\ times[e[v]] \in Nat /\ times[e[m]] <= times[e[v]]
    BY SMTT(30), <1>1, <2>2 DEF Chronicle, L
  <2>4. /\ Limiter!Lockout(m) \in Nat /\ Limiter!Lockout(v) \in Nat
        /\ Limiter!Lockout(m) <= Limiter!Lockout(v)
    BY <1>1, <2>1, <2>2, LockoutsGrow
  <2> QED
    BY SMTT(30), <1>2, <1>6, <2>1, <2>2, <2>3, <2>4
<1> QED
  BY <1>1, <1>5, <1>6 DEF L, end

LEMMA FreshStory ==
  ASSUME NEW t \in Nat
  PROVE  /\ Limiter!Fresh \in Limiter!Slot /\ <<>> \in Seq(Nat)
         /\ Chronicle(<<>>, t) /\ \E e, a : Story(<<>>, Limiter!Fresh, t, e, a)
<1> DEFINE e == [m \in 0 .. 0 |-> 0]
<1>1. Threshold \in Nat \ {0} /\ Len(<<>>) = 0
  BY LimiterConstants
<1>2. Limiter!Fresh.failures = <<>> /\ Limiter!Fresh.violations = 0 /\ Limiter!Fresh.until = 0
  BY DEF Limiter!Fresh
<1>3. e \in [0 .. 0 -> 0 .. 0] /\ e[0] = 0
  OBVIOUS
<1> HIDE DEF e
<1>4. Limiter!Closing(<<>>, 0) = {}
  BY <1>1 DEF Limiter!Closing
<1>5. Suffix(<<>>, <<>>, 1)
  BY <1>1 DEF Suffix
<1>6. Story(<<>>, Limiter!Fresh, t, e, 1)
  BY <1>1, <1>2, <1>3, <1>4, <1>5 DEF Story
<1>7. Limiter!Fresh \in Limiter!Slot
  BY DEF Limiter!Fresh, Limiter!Slot
<1>8. Chronicle(<<>>, t)
  BY <1>1 DEF Chronicle
<1> QED
  BY <1>6, <1>7, <1>8

LEMMA LimiterOfInit ==
  ASSUME Limiter!Init
  PROVE  LimiterInv
<1>1. /\ slots = [k \in Keys |-> Limiter!Fresh] /\ clock = 0
      /\ attempts = [r \in Requests |-> Null] /\ log = [k \in Keys |-> <<>>]
  BY DEF Limiter!Init
<1> QED
  BY <1>1, FreshStory DEF LimiterInv

\* Time passes: nothing that is out of the window comes back.
LEMMA StoryAges ==
  ASSUME NEW times \in Seq(Nat), NEW slot \in Limiter!Slot, NEW t \in Nat, NEW e, NEW a,
         Story(times, slot, t, e, a), NEW later \in Nat, t <= later
  PROVE  Story(times, slot, later, e, a)
<1> DEFINE v == slot.violations
<1>1. v \in Nat /\ Len(times) \in Nat /\ Window \in Nat
  BY LimiterConstants DEF Limiter!Slot
<1>2. /\ e \in [0 .. v -> 0 .. Len(times)] /\ a \in 1 .. Len(times) + 1
      /\ \A i \in e[v] + 1 .. a - 1 : t - times[i] >= Window
  BY DEF Story, Suffix
<1>3. \A i \in e[v] + 1 .. a - 1 : later - times[i] >= Window
  <2> SUFFICES ASSUME NEW i \in e[v] + 1 .. a - 1 PROVE later - times[i] >= Window
    OBVIOUS
  <2>1. e[v] \in 0 .. Len(times)
    BY <1>1, <1>2
  <2>2. times[i] \in Nat
    BY SMTT(30), <1>1, <1>2, <2>1
  <2> QED
    BY <1>1, <1>2, <2>2
<1>4. /\ e[0] = 0
      /\ \A m \in 0 .. v : m <= e[m] /\ e[m] <= e[v]
      /\ \A m \in 1 .. v : /\ e[m] \in Limiter!Closing(times, e[m - 1])
                           /\ \A j \in Limiter!Closing(times, e[m - 1]) : e[m] <= j
      /\ Limiter!Closing(times, e[v]) = {}
      /\ Suffix(slot.failures, times, a) /\ Len(slot.failures) < Threshold /\ a > e[v]
      /\ slot.until = IF v = 0 THEN 0 ELSE times[e[v]] + Limiter!Lockout(v)
  BY DEF Story
<1> QED
  BY <1>2, <1>3, <1>4 DEF Story

LEMMA LimiterOfReject ==
  ASSUME LimiterInv, NEW r \in Requests, Limiter!Reject(r)
  PROVE  LimiterInv'
<1> DEFINE k == attempts[r]
           times == log[k]
           slot == slots[k]
           result == Limiter!Registered(slot)
           after == Append(times, clock)
<1>1. /\ slots \in [Keys -> Limiter!Slot] /\ clock \in Nat
      /\ attempts \in [Requests -> Keys \cup {Null}] /\ log \in [Keys -> Seq(Nat)]
      /\ \A q \in Keys : Chronicle(log[q], clock)
      /\ \A q \in Keys : Within(slots[q]) => \E e, a : Story(log[q], slots[q], clock, e, a)
  BY DEF LimiterInv
<1>2. /\ k # Null /\ slots' = [slots EXCEPT ![k] = result] /\ log' = [log EXCEPT ![k] = after]
      /\ attempts' = [attempts EXCEPT ![r] = Null] /\ clock' = clock
  BY DEF Limiter!Reject
<1>3. k \in Keys /\ times \in Seq(Nat) /\ slot \in Limiter!Slot
  BY <1>1, <1>2
<1>4. result \in Limiter!Slot /\ result.violations >= slot.violations
  <2> DEFINE kept == Append(Limiter!Recent(slot.failures), clock)
  <2>1. slot.failures \in Seq(Nat) /\ slot.violations \in Nat
    BY <1>3 DEF Limiter!Slot
  <2>2. kept \in Seq(Nat)
    <3>1. Suffix(slot.failures, slot.failures, 1)
      BY <2>1 DEF Suffix
    <3> QED
      BY <1>1, <2>1, <3>1, RecentMeans
  <2>3. slot.violations + 1 \in Nat \ {0} /\ Limiter!Lockout(slot.violations + 1) \in Nat
    BY <2>1, LockoutsGrow
  <2>4. \/ result = [slot EXCEPT !.failures = kept]
        \/ result = [slot EXCEPT !.failures = kept, !.violations = slot.violations + 1]
        \/ result = [failures |-> <<>>, violations |-> slot.violations + 1,
                     until |-> clock + Limiter!Lockout(slot.violations + 1)]
    BY DEF Limiter!Registered
  <2> DEFINE n == slot.violations + 1
             lockout == Limiter!Lockout(n)
  <2>5. clock + lockout \in Nat /\ <<>> \in Seq(Nat) /\ n \in Nat /\ n >= slot.violations
    BY <1>1, <2>1, <2>3
  <2> HIDE DEF kept, result, slot, lockout, n
  <2>6. CASE result = [slot EXCEPT !.failures = kept]
    <3>1. result \in Limiter!Slot
      BY <1>3, <2>2, <2>6 DEF Limiter!Slot
    <3>2. result.violations = slot.violations
      BY <1>3, <2>6 DEF Limiter!Slot
    <3> QED
      BY <2>1, <3>1, <3>2
  <2>7. CASE result = [slot EXCEPT !.failures = kept, !.violations = n]
    <3>1. result \in Limiter!Slot
      BY <1>3, <2>2, <2>5, <2>7 DEF Limiter!Slot
    <3>2. result.violations = n
      BY <1>3, <2>7 DEF Limiter!Slot
    <3> QED
      BY <2>5, <3>1, <3>2
  <2>8. CASE result = [failures |-> <<>>, violations |-> n, until |-> clock + lockout]
    BY <2>5, <2>8 DEF Limiter!Slot
  <2> QED
    BY <2>4, <2>6, <2>7, <2>8 DEF lockout, n
<1>5. after \in Seq(Nat) /\ Chronicle(after, clock)
  <2>1. Chronicle(times, clock)
    BY <1>1, <1>3
  <2>2. after \in Seq(Nat) /\ Len(after) = Len(times) + 1 /\ after[Len(times) + 1] = clock
        /\ \A i \in 1 .. Len(times) : after[i] = times[i] /\ times[i] \in Nat
        /\ Len(times) \in Nat /\ clock \in Nat
    BY <1>1, <1>3
  <2> HIDE DEF after, times
  <2>3. ASSUME NEW i \in 1 .. Len(after), NEW j \in 1 .. Len(after), i <= j
        PROVE  after[i] <= after[j] /\ after[j] <= clock
    <3>1. CASE j = Len(times) + 1
      <4>1. after[j] = clock
        BY <2>2, <3>1
      <4>2. i = Len(times) + 1 \/ i \in 1 .. Len(times)
        BY <2>2
      <4>3. i \in 1 .. Len(times) => times[i] <= clock
        BY <2>1, <2>2 DEF Chronicle
      <4> QED
        BY <2>2, <4>1, <4>2, <4>3
    <3>2. CASE j \in 1 .. Len(times)
      <4>1. i \in 1 .. Len(times) /\ times[i] <= times[j] /\ times[j] <= clock
        BY <2>1, <2>2, <2>3, <3>2 DEF Chronicle
      <4> QED
        BY <2>2, <3>2, <4>1
    <3> QED
      BY <2>2, <3>1, <3>2
  <2> QED
    BY <2>2, <2>3 DEF Chronicle
<1>6. Within(result) => \E e, a : Story(after, result, clock, e, a)
  <2> SUFFICES ASSUME Within(result) PROVE \E e, a : Story(after, result, clock, e, a)
    OBVIOUS
  <2>1. Within(slot)
    <3>1. slot.violations \in Nat /\ result.violations \in Nat /\ MaxDoublings \in Nat
      BY <1>3, <1>4, LimiterConstants DEF Limiter!Slot
    <3> HIDE DEF slot, result
    <3> QED
      BY <1>4, <3>1 DEF Within
  <2>2. PICK e, a : Story(times, slot, clock, e, a)
    BY <1>1, <1>3, <2>1
  <2> QED
    BY <1>1, <1>3, <2>2, StoryGoesOn
<1> HIDE DEF k, times, slot, result, after
<1>7. \A q \in Keys : /\ log'[q] = IF q = k THEN after ELSE log[q]
                      /\ slots'[q] = IF q = k THEN result ELSE slots[q]
  BY <1>1, <1>2, <1>3
<1>8. /\ slots' \in [Keys -> Limiter!Slot] /\ clock' \in Nat
      /\ attempts' \in [Requests -> Keys \cup {Null}] /\ log' \in [Keys -> Seq(Nat)]
  BY <1>1, <1>2, <1>4, <1>5
<1>9. \A q \in Keys : Chronicle(log'[q], clock')
  BY <1>1, <1>2, <1>5, <1>7
<1>10. \A q \in Keys : Within(slots'[q]) => \E e, a : Story(log'[q], slots'[q], clock', e, a)
  BY <1>1, <1>2, <1>6, <1>7
<1> QED
  BY <1>8, <1>9, <1>10 DEF LimiterInv, Chronicle, Within, Story, Suffix

LEMMA LimiterOfNext ==
  ASSUME LimiterInv, [PartsNext]_<<part, vars, limiterVars, storeVars>>
  PROVE  LimiterInv'
<1>1. /\ slots \in [Keys -> Limiter!Slot] /\ clock \in Nat
      /\ attempts \in [Requests -> Keys \cup {Null}] /\ log \in [Keys -> Seq(Nat)]
      /\ \A k \in Keys : Chronicle(log[k], clock)
      /\ \A k \in Keys : Within(slots[k]) => \E e, a : Story(log[k], slots[k], clock, e, a)
  BY DEF LimiterInv
<1>2. ASSUME UNCHANGED <<slots, clock, log>>, attempts' \in [Requests -> Keys \cup {Null}]
      PROVE  LimiterInv'
  BY <1>1, <1>2 DEF LimiterInv
<1>3. ASSUME NEW r \in Requests, Limiter!Leave(r) \/ \E k \in Keys : Limiter!Admit(r, k)
      PROVE  LimiterInv'
  BY <1>1, <1>2, <1>3 DEF Limiter!Leave, Limiter!Admit
<1>4. ASSUME NEW r \in Requests, Limiter!Accept(r) PROVE LimiterInv'
  <2>1. /\ attempts[r] # Null /\ slots' = [slots EXCEPT ![attempts[r]] = Limiter!Fresh]
        /\ log' = [log EXCEPT ![attempts[r]] = <<>>]
        /\ attempts' = [attempts EXCEPT ![r] = Null] /\ clock' = clock
    BY <1>4 DEF Limiter!Accept
  <2>2. \A k \in Keys : \/ log'[k] = log[k] /\ slots'[k] = slots[k]
                        \/ log'[k] = <<>> /\ slots'[k] = Limiter!Fresh
    BY <1>1, <2>1
  <2>3. /\ slots' \in [Keys -> Limiter!Slot] /\ attempts' \in [Requests -> Keys \cup {Null}]
        /\ log' \in [Keys -> Seq(Nat)] /\ clock' = clock
    BY <1>1, <2>1, FreshStory
  <2> QED
    BY <1>1, <2>2, <2>3, FreshStory DEF LimiterInv
<1>5. ASSUME Limiter!Elapse PROVE LimiterInv'
  <2>1. clock' = clock + 1 /\ UNCHANGED <<slots, attempts, log>>
    BY <1>5 DEF Limiter!Elapse
  <2>2. ASSUME NEW k \in Keys PROVE Chronicle(log[k], clock + 1)
    <3>1. \A i \in 1 .. Len(log[k]) : log[k][i] \in Nat
      BY <1>1
    <3> QED
      BY <1>1, <3>1 DEF Chronicle
  <2>3. \A k \in Keys : Within(slots[k]) => \E e, a : Story(log[k], slots[k], clock + 1, e, a)
    <3> SUFFICES ASSUME NEW k \in Keys, Within(slots[k])
                 PROVE  \E e, a : Story(log[k], slots[k], clock + 1, e, a)
      OBVIOUS
    <3>1. log[k] \in Seq(Nat) /\ slots[k] \in Limiter!Slot
      BY <1>1
    <3>2. PICK e, a : Story(log[k], slots[k], clock, e, a)
      BY <1>1
    <3>3. clock + 1 \in Nat /\ clock <= clock + 1
      BY <1>1
    <3> QED
      BY <1>1, <3>1, <3>2, <3>3, StoryAges
  <2> QED
    BY <1>1, <2>1, <2>2, <2>3 DEF LimiterInv
<1>6. ASSUME Limiter!Restart PROVE LimiterInv'
  <2>1. /\ slots' = [k \in Keys |-> Limiter!Fresh] /\ log' = [k \in Keys |-> <<>>]
        /\ attempts' = [r \in Requests |-> Null] /\ clock' = clock
    BY <1>6 DEF Limiter!Restart
  <2> QED
    BY <1>1, <2>1, FreshStory DEF LimiterInv
<1>7. CASE Limiter!Next
  BY <1>3, <1>4, <1>5, <1>6, <1>7, LimiterOfReject DEF Limiter!Next
<1>8. CASE UNCHANGED limiterVars
  BY <1>1, <1>2, <1>8 DEF limiterVars
<1> QED
  BY <1>7, <1>8 DEF PartsNext

\* The m-th batch of failures with no success in between is followed by a lockout
\* of the base time doubled m - 1 times, up to the cap, and nothing else locks,
\* whichever attempts were under way together.
THEOREM LockedByBatches ==
  PartsSpec => []LockoutsHold
<1>1. PartsInit => LimiterInv
  BY LimiterOfInit DEF PartsInit
<1>2. LimiterInv /\ [PartsNext]_<<part, vars, limiterVars, storeVars>> => LimiterInv'
  BY LimiterOfNext
<1>3. LimiterInv => LockoutsHold
  <2> SUFFICES ASSUME LimiterInv, NEW k \in Keys, Within(slots[k])
               PROVE  slots[k].until > clock <=>
                        \E m \in DOMAIN log[k] :
                          /\ Limiter!Ends(log[k])[m] <= Len(log[k])
                          /\ clock < log[k][Limiter!Ends(log[k])[m]] + Limiter!Lockout(m)
    BY DEF LockoutsHold, Limiter!LockoutsHold, Limiter!Locked, Limiter!Lockout, Within
  <2>1. /\ log[k] \in Seq(Nat) /\ slots[k] \in Limiter!Slot /\ clock \in Nat
        /\ Chronicle(log[k], clock)
    BY DEF LimiterInv
  <2>2. PICK e, a : Story(log[k], slots[k], clock, e, a)
    BY DEF LimiterInv
  <2> QED
    BY <2>1, <2>2, StoryLocks
<1> QED
  BY <1>1, <1>2, <1>3, PTL DEF PartsSpec
=============================================================================

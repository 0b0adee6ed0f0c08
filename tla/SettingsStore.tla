--------------------------- MODULE SettingsStore ---------------------------
(***************************************************************************)
(* The settings: a table of texts that holds what a user has set, defaults  *)
(* in the code for the rest, and the integration token, which looking at    *)
(* the settings makes when the HTTP channel is on and there is none.        *)
(*                                                                          *)
(* A request reads the rows it is about to set, one query each, and writes  *)
(* and commits them in one step: a row it saw is updated if its text        *)
(* differs from what it saw, one it did not see is inserted.                *)
(*                                                                          *)
(* One setting of each kind stands for all of its kind.  Values of the      *)
(* program and texts of the table are both strings here; no value is Null.  *)
(* Validation (ranges, HH:MM) is by the request's schema and left out.      *)
(***************************************************************************)
EXTENDS FiniteSets, FiniteSetsExt, Functions

CONSTANTS
  Requests,  \* the requests that may be in progress at once
  Tokens,    \* what token_urlsafe yields: a token in use is not drawn again
  MaxNamed,  \* bound on the settings one PATCH names
  MaxSaves,  \* bound on the settings named by all requests together
  Null

VARIABLES
  table,   \* settings: key -> text
  drafts,  \* per request, what it was sent, what it will write and the rows it saw
  asked,   \* per key, the last value a PATCH asked for, if any
  saves,   \* how much of the bound is used
  overlap  \* whether requests overlap; chosen at the start

vars == <<table, drafts, asked, saves, overlap>>

Settings == {"lead_days", "auto_add", "http_enabled", "topic_prefix", "from_name",
             "integration_token", "encryption"}

\* _DEFAULTS
Default(k) ==
  IF k = "lead_days" THEN "3" ELSE IF k = "auto_add" THEN "True"
  ELSE IF k = "http_enabled" THEN "False" ELSE IF k = "topic_prefix" THEN "omniventory"
  ELSE IF k = "encryption" THEN "none" ELSE Null

Secret == {"integration_token"}

\* What a PATCH may name a setting with; Null is JSON's null.
Values(k) ==
  {Null} \cup (IF k = "lead_days" THEN {"0", "5"}
                ELSE IF k \in {"auto_add", "http_enabled"} THEN {"True", "False"}
                ELSE IF k = "encryption" THEN {"none", "starttls"}
                ELSE {"", "word"})

-----------------------------------------------------------------------------
(* Texts *)

\* _encode
Encode(v) ==
  IF v = Null THEN "" ELSE IF v = "True" THEN "true" ELSE IF v = "False" THEN "false" ELSE v

\* Mutant: a text that Python takes for false counts as absent.
Decode_Truthy(k, text) ==
  IF text \in {"", "0", "false"} THEN Default(k)
  ELSE IF text = "true" THEN "True" ELSE text

\* _decode, by the type of the default.  int("") raises.
Decode(k, text) ==
  IF k \in {"auto_add", "http_enabled"} THEN (IF text = "true" THEN "True" ELSE "False")
  ELSE IF k = "lead_days" THEN (IF text = "" THEN "raises" ELSE text)
  ELSE IF Default(k) = Null /\ text = "" THEN Null
  ELSE text

\* _email_encryption: the row of use_tls is of an older version.
Encryption ==
  IF "encryption" \in DOMAIN table THEN table["encryption"]
  ELSE IF "use_tls" \in DOMAIN table /\ table["use_tls"] = "true" THEN "starttls"
  ELSE "none"

\* _get_value
Read(k) ==
  IF k = "encryption" THEN Encryption
  ELSE IF k \in DOMAIN table THEN Decode(k, table[k])
  ELSE Default(k)

\* What the channels and the scans are configured with: they have no use for an
\* empty prefix.
Used(k) == IF k = "topic_prefix" /\ Read(k) = "" THEN Default(k) ELSE Read(k)

\* GET /settings shows of a secret whether it is set.
Shown(k) == IF k \in Secret THEN Read(k) # Null ELSE Read(k)

\* _verify_integration_token
Admitted(t) == t # "" /\ Read("integration_token") = t

-----------------------------------------------------------------------------
(* Requests *)

Idle == [kind |-> "idle", patch |-> <<>>, rows |-> <<>>, seen |-> <<>>]

Quiet == \A r \in Requests : drafts[r] = Idle

Begin(r, draft, size) ==
  /\ drafts[r] = Idle
  /\ ~overlap => Quiet
  /\ saves + size <= MaxSaves /\ saves' = saves + size
  /\ drafts' = [drafts EXCEPT ![r] = draft]
  /\ UNCHANGED <<table, asked, overlap>>

\* Whether the handlers write it: null leaves all but from_name as it is.
Set(k, v) == v # Null \/ k = "from_name"

\* PATCH /settings
LoadPatch(r) ==
  \E K \in UNION {kSubset(n, Settings) : n \in 1 .. MaxNamed} :
    \E patch \in {f \in [K -> UNION {Values(k) : k \in K}] : \A k \in K : f[k] \in Values(k)} :
      LET set == {k \in K : Set(k, patch[k])}
      IN  Begin(r, [kind |-> "patch", patch |-> patch, rows |-> [k \in set |-> patch[k]],
                    seen |-> Restrict(table, set \cap DOMAIN table)], Cardinality(K))

\* For `asked` alone: what a PATCH that names k with v asks of k.  Null asks to
\* clear a sender's name; of any other setting, a secret too, it asks nothing.
Asks(k, v) == v = Null => k = "from_name"

\* A row that was seen, with the text it had, is left as it is by now.
CommitPatch(r) ==
  LET draft == drafts[r]
      new(k) == IF k \in DOMAIN draft.seen /\ draft.seen[k] = Encode(draft.rows[k])
                THEN table[k] ELSE Encode(draft.rows[k])
  IN  /\ draft.kind = "patch"
      /\ DOMAIN draft.rows \cap DOMAIN table = DOMAIN draft.seen
      /\ table' = [k \in DOMAIN table \cup DOMAIN draft.rows |->
                     IF k \in DOMAIN draft.rows THEN new(k) ELSE table[k]]
      /\ asked' = [k \in Settings |->
                     IF k \in DOMAIN draft.patch /\ Asks(k, draft.patch[k]) THEN {draft.patch[k]}
                     ELSE asked[k]]
      /\ drafts' = [drafts EXCEPT ![r] = Idle]
      /\ UNCHANGED <<saves, overlap>>

\* GET /settings, when it finds the channel enabled and no token
LoadToken(r) ==
  /\ Read("http_enabled") = "True" /\ Read("integration_token") = Null
  /\ \E t \in Tokens \ UNION {Range(drafts[q].rows) : q \in Requests} :
       /\ ~Admitted(t)
       /\ Begin(r, [Idle EXCEPT !.kind = "token", !.rows = [k \in {"integration_token"} |-> t]], 1)

\* The look-up before the write comes after the one that found no token: a row
\* that has appeared is overwritten, unless it came after both (Fail).
CommitToken(r) ==
  /\ drafts[r].kind = "token"
  /\ table' = [k \in DOMAIN table \cup {"integration_token"} |->
                 IF k = "integration_token" THEN drafts[r].rows[k] ELSE table[k]]
  /\ drafts' = [drafts EXCEPT ![r] = Idle]
  /\ UNCHANGED <<asked, saves, overlap>>

\* An insert of a key that has appeared, or any error: rolled back.
Fail(r) ==
  /\ drafts[r] # Idle
  /\ drafts' = [drafts EXCEPT ![r] = Idle]
  /\ UNCHANGED <<table, asked, saves, overlap>>

-----------------------------------------------------------------------------
Init ==
  /\ table \in {<<>>} \cup [{"use_tls"} -> {"true"}]
  /\ drafts = [r \in Requests |-> Idle]
  /\ asked = [k \in Settings |-> {}]
  /\ saves = 0
  /\ overlap \in BOOLEAN

Next ==
  \E r \in Requests :
    \/ LoadPatch(r) \/ CommitPatch(r)
    \/ LoadToken(r) \/ CommitToken(r)
    \/ Fail(r)

-----------------------------------------------------------------------------
(* Properties *)

\* What was asked for last is meant: "" clears what may be absent.
Meant(k) ==
  IF asked[k] # {} THEN IF Default(k) = Null /\ asked[k] \subseteq {"", Null} THEN Null
                        ELSE CHOOSE v \in asked[k] : TRUE
  ELSE IF k = "encryption" /\ "use_tls" \in DOMAIN table /\ table["use_tls"] = "true"
  THEN "starttls" ELSE Default(k)

\* However requests interleave, every row can be read.  If they do not overlap, the
\* page shows what was last asked of a setting, zero, false and empty texts
\* included, or else its default (for the encryption, what the row of the older
\* version says), or of a secret that there is one; whoever uses the setting gets
\* the same, or the default for an empty text.  A token that was asked for is the
\* one that admits, a null since then changes nothing, and one that was made up
\* admits only where none is asked for.
SettingsRemembered ==
  /\ \A k \in Settings : Read(k) # "raises"
  /\ ~overlap =>
       /\ \A k \in Settings \ Secret :
            /\ Shown(k) = Meant(k)
            /\ Used(k) = IF Meant(k) = "" THEN Default(k) ELSE Meant(k)
       /\ LET named == Meant("integration_token")
          IN  /\ named # Null => Admitted(named)
              /\ \A t \in Tokens \cup {"word"} : Admitted(t) => named \in {t} \cup {Null}
              /\ named = Null => ~Admitted("word")
              /\ Shown("integration_token") = \E t \in Tokens \cup {"word"} : Admitted(t)
=============================================================================

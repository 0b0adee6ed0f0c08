----------------------------- MODULE MCAccounts -----------------------------
(***************************************************************************)
(* Three parts of the system that share no state, for TLC in one run: the   *)
(* accounts, the limiter in front of them, and the settings.  A behaviour   *)
(* is a behaviour of one of them, while the other two stay as they began.   *)
(***************************************************************************)
EXTENDS Accounts, TLC

CONSTANTS
  Keys, Threshold, Window, BaseLockout, Cap,
  MaxDoublings, MaxClock, MaxFailures,  \* RateLimit
  Tokens, MaxNamed, MaxSaves            \* SettingsStore

\* No value, text or word of the settings is Null, and a token that is made up,
\* 43 characters long, is none of them.
ASSUME SettingsConstants ==
  LET words == {"0", "3", "5", "True", "False", "true", "false", "none", "starttls",
                "omniventory", "word", "", "raises"}
  IN  Null \notin words /\ Tokens \cap (words \cup {Null}) = {}

ASSUME LimiterConstants ==
  /\ {Threshold, Window} \subseteq Nat \ {0}
  /\ {BaseLockout, Cap, MaxDoublings} \subseteq Nat
  /\ Null \notin Keys

VARIABLES
  part,                         \* the part that runs
  slots, clock, attempts, log,  \* RateLimit
  table, drafts, asked, saves   \* SettingsStore

Limiter == INSTANCE RateLimit
Store == INSTANCE SettingsStore

limiterVars == <<slots, clock, attempts, log>>
storeVars == <<table, drafts, asked, saves>>

\* Passwords, sessions and requests are interchangeable.
Alike == Permutations(Passwords) \cup Permutations(SessionIds) \cup Permutations(Requests)
              \cup Permutations(Emails)

PartsInit ==
  /\ part \in {"accounts", "limiter", "settings"}
  /\ Init /\ Limiter!Init /\ Store!Init
  /\ part = "settings" \/ table = <<>>
  /\ part = "limiter" => overlap

PartsNext ==
  \/ part = "accounts" /\ Next /\ UNCHANGED <<part, limiterVars, storeVars>>
  \/ part = "limiter" /\ Limiter!Next /\ UNCHANGED <<part, vars, storeVars>>
  \/ part = "settings" /\ Store!Next
       /\ UNCHANGED <<part, users, tokens, sessions, onboarded, now, inflight, changes, limiterVars>>

PartsSpec == PartsInit /\ [][PartsNext]_<<part, vars, limiterVars, storeVars>>

\* RateLimit's property
LockoutsHold == Limiter!LockoutsHold

\* SettingsStore's property
SettingsRemembered == Store!SettingsRemembered
=============================================================================

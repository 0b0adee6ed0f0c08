----------------------------- MODULE RateLimit -----------------------------
(***************************************************************************)
(* The limiter of failed attempts (core/rate_limit.py) and the way a        *)
(* request passes it: checked before the handler runs, told of a failure or *)
(* of the success when it is over.  The limiter's lock covers each call,    *)
(* not the time between them, in which a password is hashed: attempts       *)
(* admitted together fail together.                                         *)
(*                                                                          *)
(* A key is a scope (login, setup, change_password, ...) with the client's  *)
(* address and, where the user is known, his id.                            *)
(***************************************************************************)
EXTENDS Integers, Sequences, FiniteSetsExt

CONSTANTS
  Keys,
  Requests,      \* the requests that may be in progress at once
  Threshold,     \* _THRESHOLD
  Window,        \* _WINDOW
  BaseLockout,   \* _BASE_LOCKOUT
  Cap,           \* _CAP
  MaxDoublings,  \* the largest power of two that still makes a float
  MaxClock,      \* bound on the clock
  MaxFailures,   \* bound on the failures in a row
  Null

VARIABLES
  slots,     \* _state: per key, failures, violations and lockout_until
  clock,     \* time.monotonic()
  attempts,  \* per request, the key it has been admitted for
  log        \* per key, when it failed since it last succeeded

vars == <<slots, clock, attempts, log>>

Slot == [failures : Seq(Nat), violations : Nat, until : Nat]

Fresh == [failures |-> <<>>, violations |-> 0, until |-> 0]

-----------------------------------------------------------------------------
(* The limiter *)

Locked(k) == slots[k].until > clock

\* Powers of two
Doubled[n \in Nat] == IF n = 0 THEN 1 ELSE 2 * Doubled[n - 1]

Lockout(violations) == Min({BaseLockout * Doubled[violations - 1], Cap})

\* The failures inside the window.  They are in the order of their times.
Recent(failures) ==
  SubSeq(failures, Min({i \in DOMAIN failures : clock - failures[i] < Window}
                         \cup {Len(failures) + 1}), Len(failures))

\* Mutant: each lockout starts the count of lockouts again.
Registered_Forgets(slot) ==
  LET kept == Append(Recent(slot.failures), clock)
  IN  IF Len(kept) < Threshold THEN [slot EXCEPT !.failures = kept]
      ELSE [failures |-> <<>>, violations |-> 0, until |-> clock + Lockout(1)]

\* register_failure.  Past the floats it raises before it has locked anything.
Registered(slot) ==
  LET kept == Append(Recent(slot.failures), clock)
      n    == slot.violations + 1
  IN  IF Len(kept) < Threshold THEN [slot EXCEPT !.failures = kept]
      ELSE IF n - 1 > MaxDoublings THEN [slot EXCEPT !.failures = kept, !.violations = n]
      ELSE [failures |-> <<>>, violations |-> n, until |-> clock + Lockout(n)]

-----------------------------------------------------------------------------
(* Attempts *)

\* auth_rate_limit, when it does not raise
Admit(r, k) ==
  /\ attempts[r] = Null
  /\ ~Locked(k)
  /\ Len(log[k]) < MaxFailures
  /\ attempts' = [attempts EXCEPT ![r] = k]
  /\ UNCHANGED <<slots, clock, log>>

\* A wrong password, a link that is not usable, a set-up that is over.
Reject(r) ==
  LET k == attempts[r]
  IN  /\ k # Null
      /\ slots' = [slots EXCEPT ![k] = Registered(@)]
      /\ log' = [log EXCEPT ![k] = Append(@, clock)]
      /\ attempts' = [attempts EXCEPT ![r] = Null]
      /\ UNCHANGED clock

Accept(r) ==
  LET k == attempts[r]
  IN  /\ k # Null
      /\ slots' = [slots EXCEPT ![k] = Fresh]
      /\ log' = [log EXCEPT ![k] = <<>>]
      /\ attempts' = [attempts EXCEPT ![r] = Null]
      /\ UNCHANGED clock

\* A disabled account or an error: the limiter is not told.
Leave(r) ==
  /\ attempts[r] # Null
  /\ attempts' = [attempts EXCEPT ![r] = Null]
  /\ UNCHANGED <<slots, clock, log>>

Elapse ==
  /\ clock < MaxClock
  /\ clock' = clock + 1
  /\ UNCHANGED <<slots, attempts, log>>

\* The state lives in the process.
Restart ==
  /\ slots' = [k \in Keys |-> Fresh]
  /\ log' = [k \in Keys |-> <<>>]
  /\ attempts' = [r \in Requests |-> Null]
  /\ UNCHANGED clock

-----------------------------------------------------------------------------
Init ==
  /\ slots = [k \in Keys |-> Fresh]
  /\ clock = 0
  /\ attempts = [r \in Requests |-> Null]
  /\ log = [k \in Keys |-> <<>>]

Next ==
  \/ \E r \in Requests :
       \/ \E k \in Keys : Admit(r, k)
       \/ Reject(r) \/ Accept(r) \/ Leave(r)
  \/ Elapse
  \/ Restart

-----------------------------------------------------------------------------
(* Properties *)

\* The failures after the i-th that stand with Threshold - 1 others within a
\* window and after the i-th.
Closing(times, i) ==
  {j \in i + Threshold .. Len(times) : times[j] - times[j - Threshold + 1] < Window}

\* Which of the failures ends the m-th batch: the first such one after the batch before.
Ends(times) ==
  LET end[m \in Nat] ==
        IF m = 0 THEN 0 ELSE Min(Closing(times, end[m - 1]) \cup {Len(times) + 1})
  IN  [m \in 1 .. Len(times) |-> end[m]]

\* The m-th batch of failures with no success in between is followed by a lockout
\* of the base time doubled m - 1 times, up to the cap, and nothing else locks,
\* whichever attempts were under way together.
LockoutsHold ==
  \A k \in Keys :
    slots[k].violations <= MaxDoublings + 1 =>
      (Locked(k) <=>
         \E m \in DOMAIN log[k] :
           LET end == Ends(log[k])[m]
           IN  /\ end <= Len(log[k])
               /\ clock < log[k][end] + Min({BaseLockout * Doubled[m - 1], Cap}))
=============================================================================

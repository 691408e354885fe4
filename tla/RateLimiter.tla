---------------------------- MODULE RateLimiter ----------------------------
(***************************************************************************)
(* The shared token bucket of src/ratelimit.go and the middleware around   *)
(* it.  Requests of several clients meet in one bucket; each call of allow *)
(* holds the mutex from the clock reading to the decision and the          *)
(* Retry-After hint, so it is one step.                                    *)
(*                                                                         *)
(* Time is counted in ticks, Sec of them to a second and Interval of them  *)
(* to a token.  The float pool is modelled exactly, in units of which a    *)
(* token has Interval and a tick refills one; float rounding is abstracted. *)
(* The clock may step back: production reads it under the lock, where it   *)
(* cannot, but allowLocked is to be total (its comment, ratelimit.go:170). *)
(***************************************************************************)
EXTENDS Integers

CONSTANTS
  Client,        \* who sends requests; the bucket does not tell them apart
  Burst,         \* tokens the bucket holds, and the initial fill
  Interval,      \* ticks to accrue one token
  Sec,           \* ticks to a second
  MaxTime,       \* bound on the clock
  MaxForward     \* bound on the ticks in one window

ASSUME RateAssumption ==
  /\ Burst \in Int /\ Interval \in Int
  /\ Sec \in Nat /\ Sec > 0
  /\ MaxTime \in Nat /\ MaxForward \in Nat

VARIABLES
  now,           \* the clock
  fresh,         \* b.last.IsZero(): nothing has asked the bucket yet
  last,          \* b.last
  tokens,        \* b.tokens, in units
  hint,          \* hint[c]: the Retry-After of c's last denial, 0 once a token
                 \* was drawn or the clock stepped back since
  retryAt,       \* history: when that hint is over
  drawn,         \* history: units drawn since the window was opened
  forward        \* history: ticks that passed since the window was opened

bucketVars == <<fresh, last, tokens>>
windowVars == <<drawn, forward>>
clientVars == <<hint, retryAt>>
vars == <<now, bucketVars, clientVars, windowVars>>

(* A non-positive burst or interval switches the limiter off.              *)
Limited == Burst > 0 /\ Interval > 0
Capacity == IF Limited THEN Burst * Interval ELSE 0

TypeOK ==
  /\ now \in Nat
  /\ fresh \in BOOLEAN
  /\ last \in Nat
  /\ tokens \in 0..Capacity
  /\ hint \in [Client -> Nat]
  /\ retryAt \in [Client -> Nat]
  /\ drawn \in Nat
  /\ forward \in Nat

Init ==
  /\ now = 0
  /\ fresh = TRUE /\ last = 0 /\ tokens = 0
  /\ hint = [c \in Client |-> 0]
  /\ retryAt = [c \in Client |-> 0]
  /\ drawn = 0 /\ forward = 0

-----------------------------------------------------------------------------
(* The arithmetic of the bucket.                                           *)

Min2(a, b) == IF a < b THEN a ELSE b

(* Units since the last call; a clock behind it counts as no time.         *)
Elapsed == IF now < last THEN 0 ELSE now - last

RefilledUncapped == IF fresh THEN Capacity ELSE tokens + Elapsed    \* mutant
(* The pool allowLocked decides on: full at the first call, else refilled  *)
(* and capped at burst.                                                    *)
Refilled == IF fresh THEN Capacity ELSE Min2(Capacity, tokens + Elapsed)

Ceil(a, b) == (a + b - 1) \div b

RetryAfterFull == IF Ceil(Interval, Sec) < 1 THEN 1 ELSE Ceil(Interval, Sec)  \* mutant
(* retryAfterSecondsLocked: whole seconds for the missing part of a token, *)
(* at least one.                                                           *)
RetryAfter == LET deficit == Interval - Refilled
              IN IF deficit <= 0 \/ Ceil(deficit, Sec) < 1 THEN 1
                 ELSE Ceil(deficit, Sec)

-----------------------------------------------------------------------------
ForgetHints ==
  /\ hint' = [c \in Client |-> 0]
  /\ retryAt' = [c \in Client |-> 0]

AdmitFree(c) ==          \* mutant: admits without taking the token
  /\ Refilled >= Interval
  /\ tokens' = Refilled
  /\ fresh' = FALSE /\ last' = now
  /\ drawn' = drawn + Interval
  /\ ForgetHints
  /\ UNCHANGED <<now, forward>>

(* A limited request finds a token, takes it and reaches the handler.      *)
Admit(c) ==
  /\ Refilled >= Interval
  /\ tokens' = Refilled - Interval
  /\ fresh' = FALSE /\ last' = now
  /\ drawn' = drawn + Interval
  /\ ForgetHints
  /\ UNCHANGED <<now, forward>>

DenyKeepsAnchor(c) ==    \* mutant: a clock behind the anchor leaves it alone
  /\ Refilled < Interval
  /\ tokens' = Refilled
  /\ fresh' = FALSE /\ last' = IF now < last THEN last ELSE now
  /\ hint' = [hint EXCEPT ![c] = RetryAfter]
  /\ retryAt' = [retryAt EXCEPT ![c] = now + Sec * RetryAfter]
  /\ UNCHANGED <<now, windowVars>>

(* It finds none and is answered 429 with the hint; the refill and the     *)
(* clock reading stay.                                                     *)
Deny(c) ==
  /\ Refilled < Interval
  /\ tokens' = Refilled
  /\ fresh' = FALSE /\ last' = now
  /\ hint' = [hint EXCEPT ![c] = RetryAfter]
  /\ retryAt' = [retryAt EXCEPT ![c] = now + Sec * RetryAfter]
  /\ UNCHANGED <<now, windowVars>>

(* A request the when predicate picks, or any request without one.         *)
LimitedRequest(c) == Limited /\ (Admit(c) \/ Deny(c))

(* A request the predicate passes over, or any request of a limiter that   *)
(* is off: it reaches the handler and the bucket does not change.          *)
Bypass(c) ==
  /\ c \in Client
  /\ UNCHANGED vars

-----------------------------------------------------------------------------
Tick ==
  /\ now < MaxTime /\ forward < MaxForward
  /\ now' = now + 1
  /\ forward' = forward + 1
  /\ UNCHANGED <<bucketVars, clientVars, drawn>>

ClockStepsBack ==
  /\ \E t \in 0..(now - 1) : now' = t
  /\ ForgetHints
  /\ UNCHANGED <<bucketVars, windowVars>>

(* An observer starts counting at any moment.                              *)
OpenWindow ==
  /\ drawn' = 0 /\ forward' = 0
  /\ UNCHANGED <<now, bucketVars, clientVars>>

Next ==
  \/ \E c \in Client : LimitedRequest(c) \/ Bypass(c)
  \/ Tick \/ ClockStepsBack \/ OpenWindow

Spec == Init /\ [][Next]_vars

-----------------------------------------------------------------------------
(* In any window of time the bucket admits no more than its burst and what *)
(* accrued in the window, whoever asks and however the requests interleave *)
(* (tokenBucket; "it bounds the AGGREGATE rate of the wrapped route").     *)
AggregateBound == drawn <= Capacity + forward

(* A denied client that waits its hint is admitted, unless somebody else   *)
(* drew a token or the clock stepped back in the meantime.  This also says *)
(* that the refill resumes at once after a step back.                      *)
HintSuffices ==
  \A c \in Client :
    hint[c] > 0 /\ now >= retryAt[c] => Refilled >= Interval

(* The hint scales with the deficit: nobody told to wait more than a       *)
(* second would have been admitted a second earlier.                       *)
HintIsTight ==
  \A c \in Client :
    hint[c] > 1 /\ now <= retryAt[c] - Sec => Refilled < Interval

=============================================================================

------------------------- MODULE RateLimiter_proof -------------------------
(***************************************************************************)
(* Proofs about RateLimiter, for every burst, interval, clock resolution   *)
(* and set of clients, and for clocks that step back.                      *)
(*                                                                         *)
(* AggregateBound is not inductive: an observer that opens a window sees   *)
(* draws against tokens that accrued before it.  Budget adds what is still *)
(* in the pool and what the next call will credit to it.                   *)
(***************************************************************************)
EXTENDS RateLimiter, TLAPS

(* What was drawn, what is left and what the next call refills fit in the  *)
(* capacity and the time that passed, from the first draw of the window on. *)
Budget ==
  /\ fresh => drawn = 0
  /\ drawn = 0 \/ drawn + tokens + Elapsed <= Capacity + forward

(* The hint of a standing promise covers what its client lacks.            *)
Promised ==
  \A c \in Client :
    hint[c] > 0 => Limited /\ ~fresh /\ last <= now /\ tokens + (retryAt[c] - last) >= Interval

IInv == TypeOK /\ Budget /\ Promised

LEMMA CapacityNat ==
  /\ Capacity \in Nat
  /\ Limited => Interval \in Nat /\ Interval <= Capacity
<1>1. CASE Limited
  <2>1. Burst \in Nat /\ Interval \in Nat /\ Burst >= 1 /\ Interval >= 1
    BY <1>1, RateAssumption DEF Limited
  <2>2. Burst * Interval \in Nat /\ Burst * Interval >= Interval
    BY <2>1
  <2> QED BY <1>1, <2>1, <2>2 DEF Capacity
<1>2. CASE ~Limited
  BY <1>2 DEF Capacity
<1> QED BY <1>1, <1>2

LEMMA CeilCovers ==
  ASSUME NEW x \in Nat
  PROVE  Ceil(x, Sec) \in Nat /\ Sec * Ceil(x, Sec) >= x
<1> DEFINE q == (x + Sec - 1) \div Sec
<1>0. Sec \in Nat /\ Sec > 0
  BY RateAssumption
<1>1. q \in Int /\ q >= 0 /\ Sec * q + ((x + Sec - 1) % Sec) = x + Sec - 1
  BY <1>0
<1>2. (x + Sec - 1) % Sec \in 0..(Sec - 1)
  BY <1>0
<1>3. Sec * q \in Int
  BY <1>0, <1>1
<1>4. Sec * q >= x
  BY <1>0, <1>1, <1>2, <1>3
<1> QED BY <1>1, <1>4 DEF Ceil

LEMMA RefilledRange ==
  ASSUME TypeOK
  PROVE  Refilled \in 0..Capacity /\ Elapsed \in Nat
BY CapacityNat DEF TypeOK, Refilled, Elapsed, Min2

LEMMA RetryAfterCovers ==
  ASSUME TypeOK, Limited, Refilled < Interval
  PROVE  RetryAfter \in Nat /\ RetryAfter >= 1 /\ Refilled + Sec * RetryAfter >= Interval
<1> DEFINE d == Interval - Refilled
<1>1. d \in Nat /\ d > 0 /\ Refilled \in Nat /\ Interval \in Nat
  BY RefilledRange, CapacityNat
<1>2. Ceil(d, Sec) \in Nat /\ Sec * Ceil(d, Sec) >= d
  BY <1>1, CeilCovers
<1>3. Sec \in Nat /\ Sec > 0
  BY RateAssumption
<1>4. Ceil(d, Sec) >= 1
  BY <1>1, <1>2, <1>3
<1>5. RetryAfter = Ceil(d, Sec)
  BY <1>1, <1>2, <1>4 DEF RetryAfter
<1>6. Sec * Ceil(d, Sec) \in Nat
  BY <1>2, <1>3
<1> HIDE DEF d
<1>7. Refilled + Sec * Ceil(d, Sec) >= Refilled + d
  BY <1>1, <1>2, <1>6
<1>8. Refilled + d = Interval
  BY <1>1 DEF d
<1> QED BY <1>1, <1>2, <1>4, <1>5, <1>7, <1>8

-----------------------------------------------------------------------------
LEMMA InitIInv == Init => IInv
BY CapacityNat DEF Init, IInv, TypeOK, Budget, Promised

(* An admission moves Interval units from the pool to the observer's count. *)
LEMMA AdmitStep ==
  ASSUME IInv, Limited, NEW c \in Client, Admit(c)
  PROVE  IInv'
<1> USE DEF IInv
<1>1. /\ Refilled \in 0..Capacity /\ Elapsed \in Nat /\ Capacity \in Nat
      /\ Interval \in Nat
  BY RefilledRange, CapacityNat
<1>4. Capacity' = Capacity
  BY DEF Capacity, Limited
<1>2. TypeOK'
  <2>1. tokens' \in 0..Capacity'
    BY <1>1, <1>4 DEF Admit
  <2>2. hint' \in [Client -> Nat] /\ retryAt' \in [Client -> Nat]
    BY DEF Admit, ForgetHints
  <2>3. drawn' \in Nat
    BY <1>1 DEF Admit, TypeOK
  <2> QED BY <2>1, <2>2, <2>3 DEF TypeOK, Admit
<1>3. Elapsed' = 0
  BY DEF Admit, Elapsed, TypeOK
<1>5. drawn + Refilled <= Capacity + forward
  <2>1. CASE drawn = 0
    BY <2>1, <1>1 DEF TypeOK
  <2>2. CASE drawn # 0
    <3>1. ~fresh /\ drawn + tokens + Elapsed <= Capacity + forward
      BY <2>2 DEF Budget
    <3>2. Refilled <= tokens + Elapsed
      BY <3>1, <1>1 DEF Refilled, Min2, TypeOK
    <3> QED BY <3>1, <3>2, <1>1 DEF TypeOK
  <2> QED BY <2>1, <2>2
<1>6. Budget'
  BY <1>1, <1>3, <1>4, <1>5 DEF Budget, Admit, TypeOK
<1>7. Promised'
  BY DEF Promised, Admit, ForgetHints
<1> QED BY <1>2, <1>6, <1>7

(* A denial keeps the sum, anchors it at the current time, and its hint    *)
(* covers the deficit.  No other promise was due, or this client would     *)
(* have found its token.                                                   *)
LEMMA DenyStep ==
  ASSUME IInv, Limited, NEW c \in Client, Deny(c)
  PROVE  IInv'
<1> USE DEF IInv
<1>1. /\ Refilled \in 0..Capacity /\ Elapsed \in Nat /\ Capacity \in Nat
      /\ Interval \in Nat /\ Interval <= Capacity
  BY RefilledRange, CapacityNat
<1>2. /\ RetryAfter \in Nat /\ RetryAfter >= 1
      /\ Refilled + Sec * RetryAfter >= Interval
  BY RetryAfterCovers DEF Deny
<1>3. Sec * RetryAfter \in Nat
  BY <1>2, RateAssumption
<1>4. Capacity' = Capacity
  BY DEF Capacity, Limited
<1>5. TypeOK'
  <2>1. tokens' \in 0..Capacity'
    BY <1>1, <1>4 DEF Deny
  <2>2. now + Sec * RetryAfter \in Nat
    BY <1>3 DEF TypeOK
  <2>3. hint' \in [Client -> Nat] /\ retryAt' \in [Client -> Nat]
    BY <1>2, <2>2 DEF Deny, TypeOK
  <2> QED BY <2>1, <2>3 DEF TypeOK, Deny, windowVars
<1>6. Elapsed' = 0
  BY DEF Deny, Elapsed, TypeOK, windowVars
<1>7. ~fresh /\ Refilled = tokens + Elapsed
  BY <1>1 DEF Refilled, Min2, TypeOK, Deny
<1>8. Budget'
  BY <1>1, <1>4, <1>6, <1>7 DEF Budget, Deny, TypeOK, windowVars
<1>9. Promised'
  <2> SUFFICES ASSUME NEW d \in Client, hint'[d] > 0
               PROVE  Limited' /\ ~fresh' /\ last' <= now' /\ tokens' + (retryAt'[d] - last') >= Interval
    BY DEF Promised
  <2>1. Limited' /\ ~fresh' /\ last' = now /\ now' = now /\ tokens' = Refilled /\ now \in Nat
    BY DEF Deny, TypeOK, Limited, windowVars
  <2>2. CASE d = c
    <3>1. retryAt'[d] = now + Sec * RetryAfter
      BY <2>2 DEF Deny, TypeOK
    <3> QED BY <3>1, <2>1, <1>1, <1>2, <1>3
  <2>3. CASE d # c
    <3>1. hint[d] > 0 /\ retryAt'[d] = retryAt[d] /\ retryAt[d] \in Nat
      BY <2>3 DEF Deny, TypeOK
    <3>2. last <= now /\ tokens + (retryAt[d] - last) >= Interval
      BY <3>1 DEF Promised
    <3>3. Elapsed = now - last
      BY <3>2 DEF Elapsed, TypeOK
    <3> QED BY <2>1, <3>1, <3>2, <3>3, <1>1, <1>7 DEF TypeOK
  <2> QED BY <2>2, <2>3
<1> QED BY <1>5, <1>8, <1>9

LEMMA NextIInv == IInv /\ [Next]_vars => IInv'
<1> SUFFICES ASSUME IInv, [Next]_vars PROVE IInv'
  OBVIOUS
<1> USE DEF IInv
<1>0. Capacity \in Nat /\ Capacity' = Capacity
  BY CapacityNat DEF Capacity, Limited
<1>1. ASSUME NEW c \in Client, LimitedRequest(c) PROVE IInv'
  BY <1>1, AdmitStep, DenyStep DEF LimitedRequest
<1>2. ASSUME NEW c \in Client, Bypass(c) PROVE IInv'
  BY <1>2, <1>0 DEF Bypass, vars, bucketVars, clientVars, windowVars, TypeOK,
     Budget, Elapsed, Promised, Limited
<1>3. CASE Tick
  BY <1>3, <1>0 DEF Tick, bucketVars, clientVars, TypeOK, Budget, Elapsed, Promised, Limited
<1>4. CASE ClockStepsBack
  BY <1>4, <1>0 DEF ClockStepsBack, ForgetHints, bucketVars, windowVars, TypeOK,
     Budget, Elapsed, Promised, Limited
<1>5. CASE OpenWindow
  BY <1>5, <1>0 DEF OpenWindow, bucketVars, clientVars, TypeOK, Budget, Elapsed,
     Promised, Limited
<1>6. CASE UNCHANGED vars
  BY <1>6, <1>0 DEF vars, bucketVars, clientVars, windowVars, TypeOK, Budget,
     Elapsed, Promised, Limited
<1> QED BY <1>1, <1>2, <1>3, <1>4, <1>5, <1>6 DEF Next

LEMMA IInvHolds == Spec => []IInv
BY InitIInv, NextIInv, PTL DEF Spec

(* The pool stays between empty and burst, whatever the clock does         *)
(* (allowLocked: "the pool can never go negative").                        *)
THEOREM TypeCorrect == Spec => []TypeOK
<1>1. IInv => TypeOK
  BY DEF IInv
<1> QED BY IInvHolds, <1>1, PTL

(* The aggregate rate bound of RateLimiter, over every window.             *)
THEOREM RateIsBounded == Spec => []AggregateBound
<1>1. IInv => AggregateBound
  BY CapacityNat, RefilledRange DEF IInv, Budget, AggregateBound, TypeOK
<1> QED BY IInvHolds, <1>1, PTL

(* The Retry-After hint of retryAfterSecondsLocked is enough.              *)
THEOREM HintIsHonoured == Spec => []HintSuffices
<1>1. IInv => HintSuffices
  BY CapacityNat DEF IInv, Promised, HintSuffices, TypeOK, Refilled, Elapsed, Min2
<1> QED BY IInvHolds, <1>1, PTL

-----------------------------------------------------------------------------
(* A hint of more than a second is no longer than it has to be: a second   *)
(* before it is over the pool still lacks part of a token.                 *)
Tight ==
  \A c \in Client : hint[c] > 1 => tokens + (retryAt[c] - Sec - last) < Interval

LEMMA CeilIsLeast ==
  ASSUME NEW x \in Nat
  PROVE  Sec * Ceil(x, Sec) < x + Sec
<1> DEFINE q == (x + Sec - 1) \div Sec
<1>0. Sec \in Nat /\ Sec > 0
  BY RateAssumption
<1>1. q \in Int /\ Sec * q + ((x + Sec - 1) % Sec) = x + Sec - 1
  BY <1>0
<1>2. (x + Sec - 1) % Sec \in 0..(Sec - 1)
  BY <1>0
<1>3. Sec * q \in Int
  BY <1>0, <1>1
<1> QED BY <1>0, <1>1, <1>2, <1>3 DEF Ceil

LEMMA RetryAfterTight ==
  ASSUME TypeOK, Limited, Refilled < Interval, RetryAfter > 1
  PROVE  Refilled + Sec * RetryAfter - Sec < Interval
<1>1. Interval - Refilled \in Nat /\ Refilled \in Nat /\ Interval \in Nat
  BY RefilledRange, CapacityNat
<1>2. RetryAfter = Ceil(Interval - Refilled, Sec)
  BY <1>1 DEF RetryAfter
<1>3. Sec * RetryAfter < (Interval - Refilled) + Sec
  BY <1>1, <1>2, CeilIsLeast
<1>4. Sec * RetryAfter \in Int /\ Sec \in Nat
  BY RetryAfterCovers, RateAssumption
<1> QED BY <1>1, <1>3, <1>4

(* Another client's denial moves the pool and its anchor together.         *)
LEMMA DenyTight ==
  ASSUME IInv, Tight, Limited, NEW c \in Client, Deny(c)
  PROVE  Tight'
<1> USE DEF IInv
<1> SUFFICES ASSUME NEW d \in Client, hint'[d] > 1
             PROVE  tokens' + (retryAt'[d] - Sec - last') < Interval
  BY DEF Tight
<1>1. /\ Refilled \in Nat /\ Elapsed \in Nat /\ Interval \in Nat
      /\ Interval <= Capacity /\ Capacity \in Nat /\ Sec \in Nat
  BY RefilledRange, CapacityNat, RateAssumption
<1>2. tokens' = Refilled /\ last' = now /\ now \in Nat
  BY DEF Deny, TypeOK
<1>3. CASE d = c
  <2>1. RetryAfter > 1 /\ retryAt'[d] = now + Sec * RetryAfter
    BY <1>3 DEF Deny, TypeOK
  <2>2. Refilled + Sec * RetryAfter - Sec < Interval /\ Sec * RetryAfter \in Int
    BY <1>1, <2>1, RetryAfterTight, RetryAfterCovers DEF Deny
  <2> QED BY <1>1, <1>2, <2>1, <2>2
<1>4. CASE d # c
  <2>1. hint[d] > 1 /\ retryAt'[d] = retryAt[d] /\ retryAt[d] \in Nat
    BY <1>4 DEF Deny, TypeOK
  <2>2. ~fresh /\ last <= now /\ tokens + (retryAt[d] - Sec - last) < Interval
    BY <2>1 DEF Promised, Tight, TypeOK
  <2>3. Refilled <= tokens + (now - last)
    BY <1>1, <2>2 DEF Refilled, Elapsed, Min2, TypeOK
  <2> QED BY <1>1, <1>2, <2>1, <2>2, <2>3 DEF TypeOK
<1> QED BY <1>3, <1>4

LEMMA NextTight == IInv /\ Tight /\ [Next]_vars => Tight'
<1> SUFFICES ASSUME IInv, Tight, [Next]_vars PROVE Tight'
  OBVIOUS
<1>1. ASSUME NEW c \in Client, Limited, Admit(c) PROVE Tight'
  BY <1>1 DEF Admit, ForgetHints, Tight
<1>2. ASSUME NEW c \in Client, Limited, Deny(c) PROVE Tight'
  BY <1>2, DenyTight
<1>3. CASE ClockStepsBack
  BY <1>3 DEF ClockStepsBack, ForgetHints, Tight
<1>4. CASE UNCHANGED <<tokens, last, hint, retryAt>>
  BY <1>4 DEF Tight
<1> QED BY <1>1, <1>2, <1>3, <1>4
        DEF Next, LimitedRequest, Bypass, Tick, OpenWindow, vars, bucketVars, clientVars

(* The Retry-After hint of retryAfterSecondsLocked is no longer than the   *)
(* deficit asks for, to the second.                                        *)
THEOREM HintScales == Spec => []HintIsTight
<1>1. Init => Tight
  BY DEF Init, Tight
<1>2. IInv /\ Tight => HintIsTight
  <2> SUFFICES ASSUME IInv, Tight, NEW c \in Client, hint[c] > 1, now <= retryAt[c] - Sec
               PROVE  Refilled < Interval
    BY DEF HintIsTight
  <2>1. /\ Limited /\ ~fresh /\ last <= now
        /\ tokens + (retryAt[c] - Sec - last) < Interval
    BY DEF IInv, Promised, Tight, TypeOK
  <2>2. Interval \in Nat /\ Capacity \in Nat /\ Interval <= Capacity /\ Sec \in Nat
    BY <2>1, CapacityNat, RateAssumption
  <2>3. Refilled <= tokens + (now - last) /\ Refilled \in Nat
    BY <2>1, <2>2, RefilledRange DEF IInv, TypeOK, Refilled, Elapsed, Min2
  <2> QED BY <2>1, <2>2, <2>3 DEF IInv, TypeOK
<1> QED BY <1>1, <1>2, IInvHolds, NextTight, PTL DEF Spec
=============================================================================

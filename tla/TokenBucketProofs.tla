------------------------- MODULE TokenBucketProofs -------------------------
(***************************************************************************)
(* TokenBucket, for every number of backends, buckets, rates and entries:  *)
(* type correctness, the lock discipline, the bound on the counters, no    *)
(* starvation by rejected calls and, for callers that agree on one rate    *)
(* and a conversion that saturates, the rate limit itself.                 *)
(***************************************************************************)
EXTENDS TokenBucket, TLAPS

InCall == {"wait"} \union Holding

(* The locals of a call under way: a positive rate, a clock reading that   *)
(* is not from the future.                                                 *)
CallOK == \A b \in Backends : pc[b] \in InCall => rate[b] \in PositiveRates

TypeInv == TypeOK /\ CallOK

----------------------------------------------------------------------------
(* What the arithmetic of the bucket returns. *)

(* Division truncates towards zero on the naturals. *)
LEMMA DivFacts ==
    ASSUME NEW x \in Nat, NEW n \in Nat \ {0}
    PROVE  /\ x \div n \in Nat
           /\ (x \div n) * n <= x
           /\ x \div n = 0 => x < n
BY SMT

(* A token weighs a positive number of units. *)
LEMMA ScalePositive == Scale \in Nat \ {0}
BY UnitAssumption, SMT DEF Scale

(* bucket_max_size is at least one token and fits Size. *)
LEMMA BucketMaxFacts ==
    ASSUME NEW r \in Rates
    PROVE  BucketMax(r) \in 1 .. SizeMod - 1
<1>1. r \in Nat /\ 2 * r \in Nat
  BY RateAssumption
<1>2. (2 * r) \div RateUnit \in Nat
  BY <1>1, UnitAssumption, DivFacts
<1>3. BucketMax(r) \in Nat /\ BucketMax(r) >= 1
  BY <1>2 DEF BucketMax
<1>. QED
  BY <1>3, SizeAssumption

(* The conversion of the refilled counter: a natural number; zero only if  *)
(* less than one token is there; never more than there is when the         *)
(* conversion saturates.                                                   *)
LEMMA ToSizeFacts ==
    ASSUME NEW x \in Int
    PROVE  /\ ToSize(x) \in Nat
           /\ ToSize(x) = 0 => x < Scale
           /\ (~Wraps /\ ToSize(x) > 0) => ToSize(x) * Scale <= x
<1>. DEFINE S == Scale
<1>1. S \in Nat \ {0}
  BY ScalePositive
<1>. HIDE DEF S
<1>2. CASE x >= 0
  <2>1. ToSize(x) = x \div S
    BY <1>1, <1>2 DEF ToSize, S
  <2>. QED
    BY <1>1, <1>2, <2>1, DivFacts DEF S
<1>3. CASE x < 0 /\ x > -S
  BY <1>1, <1>3 DEF ToSize, S
<1>4. CASE x <= -S
  <2>1. (-x) \div S \in Nat
    BY <1>1, <1>4, DivFacts
  <2>2. (SizeMod - ((-x) \div S)) % SizeMod \in Nat
    BY <2>1, SizeAssumption
  <2>. QED
    BY <1>1, <1>4, <2>2, WrapsAssumption DEF ToSize, S
<1>. QED
  BY <1>1, <1>2, <1>3, <1>4

(* The cut counter of a positive one: between one token and the maximum,   *)
(* and never more than before.                                             *)
LEMMA LimitedFacts ==
    ASSUME NEW n \in Nat, n > 0, NEW r \in Rates
    PROVE  /\ Limited(n, r) \in Nat
           /\ Limited(n, r) - 1 \in 0 .. SizeMod - 1
           /\ Limited(n, r) - 1 < BucketMax(r)
           /\ Limited(n, r) <= n
BY BucketMaxFacts, SizeAssumption DEF Limited

(* The value converted by a call. *)
Refill(b) == tokens[key[b]] * Scale + rate[b] * (now[b] - updated_at[key[b]])

(* A call works on a positive rate; what it stores is the converted value. *)
LEMMA RefillFacts ==
    ASSUME TypeInv, NEW b \in Backends, pc[b] \in InCall
    PROVE  /\ rate[b] \in PositiveRates /\ rate[b] \in Rates /\ rate[b] \in Nat
           /\ key[b] \in Keys
           /\ Refill(b) \in Int
           /\ Refilled(b) = ToSize(Refill(b))
           /\ Refilled(b) \in Nat
<1>1. rate[b] \in PositiveRates /\ rate[b] \in Rates /\ rate[b] \in Nat
  BY RateAssumption DEF TypeInv, CallOK, PositiveRates
<1>2. key[b] \in Keys
  BY DEF TypeInv, TypeOK
<1>3. /\ tokens[key[b]] \in Nat /\ updated_at[key[b]] \in Nat
      /\ now[b] \in Nat
  BY <1>2, SizeAssumption DEF TypeInv, TypeOK
<1>4. Refill(b) \in Int
  BY <1>1, <1>3, ScalePositive DEF Refill
<1>5. Refilled(b) = ToSize(Refill(b))
  BY DEF Refilled, Refill
<1>. QED
  BY <1>1, <1>2, <1>4, <1>5, ToSizeFacts

----------------------------------------------------------------------------
(* TypeInv is inductive. *)
LEMMA TypeInvariance == Spec => []TypeInv
<1>1. Init => TypeInv
  BY SizeAssumption DEF Init, TypeInv, TypeOK, CallOK, InCall, Holding
<1>2. TypeInv /\ [Next]_vars => TypeInv'
  <2>. SUFFICES ASSUME TypeInv, [Next]_vars
                PROVE  TypeInv'
    OBVIOUS
  <2>. USE DEF TypeInv, CallOK, InCall, Holding
  <2>1. ASSUME NEW b \in Backends, NEW r, EarlyReturn(b, r)
        PROVE  TypeInv'
    BY <2>1 DEF TypeOK, EarlyReturn, shared, locals, window
  <2>2. ASSUME NEW b \in Backends, NEW k \in Keys, NEW r \in PositiveRates,
               Enter(b, k, r)
        PROVE  TypeInv'
    BY <2>2 DEF TypeOK, Enter, shared, window, PositiveRates
  <2>3. ASSUME NEW b \in Backends, Acquire(b)
        PROVE  TypeInv'
    BY <2>3 DEF TypeOK, Acquire, shared, locals, window
  <2>4. ASSUME NEW b \in Backends, NewEntry(b)
        PROVE  TypeInv'
    <3>1. key[b] \in Keys /\ rate[b] \in Rates /\ now[b] \in Nat
      BY <2>4 DEF TypeOK, NewEntry, PositiveRates
    <3>2. BucketMax(rate[b]) - 1 \in 0 .. SizeMod - 1
      BY <3>1, BucketMaxFacts, SizeAssumption
    <3>. QED
      BY <2>4, <3>1, <3>2 DEF TypeOK, NewEntry, locals, RecordPass
  <2>5. ASSUME NEW b \in Backends, HashFull(b)
        PROVE  TypeInv'
    BY <2>5 DEF TypeOK, HashFull, shared, locals, window
  <2>6. ASSUME NEW b \in Backends, Pass(b)
        PROVE  TypeInv'
    <3>1. pc[b] \in InCall /\ Refilled(b) > 0
      BY <2>6 DEF Pass
    <3>2. key[b] \in Keys /\ rate[b] \in Rates /\ Refilled(b) \in Nat
      BY <3>1, RefillFacts
    <3>3. Limited(Refilled(b), rate[b]) - 1 \in 0 .. SizeMod - 1
      BY <3>1, <3>2, LimitedFacts
    <3>4. now[b] \in Nat
      BY DEF TypeOK
    <3>. QED
      BY <2>6, <3>2, <3>3, <3>4 DEF TypeOK, Pass, locals, RecordPass
  <2>7. ASSUME NEW b \in Backends, Reject(b)
        PROVE  TypeInv'
    <3>1. Refilled(b) \in 0 .. SizeMod - 1
      BY <2>7, SizeAssumption DEF Reject
    <3>. QED
      BY <2>7, <3>1 DEF TypeOK, Reject, locals, window
  <2>8. ASSUME NEW b \in Backends, Return(b) \/ Release(b) \/ AbortTransaction(b)
        PROVE  TypeInv'
    BY <2>8 DEF TypeOK, Return, Release, AbortTransaction, Leave, shared, window
  <2>9. CASE Tick
    BY <2>9 DEF TypeOK, Tick, shared, locals, window
  <2>10. CASE CrashRestart
    BY <2>10, SizeAssumption DEF TypeOK, CrashRestart
  <2>11. ASSUME NEW k \in Keys, ObserveFrom(k)
         PROVE  TypeInv'
    BY <2>11 DEF TypeOK, ObserveFrom, shared, locals
  <2>12. CASE UNCHANGED vars
    BY <2>12 DEF TypeOK, vars
  <2>. QED
    BY <2>1, <2>2, <2>3, <2>4, <2>5, <2>6, <2>7, <2>8, <2>9, <2>10, <2>11,
       <2>12 DEF Next, Locked
<1>. QED
  BY <1>1, <1>2, PTL DEF Spec

(* Type correctness of tbf_rate_check's shared and local state. *)
THEOREM TypeCorrect == Spec => []TypeOK
BY TypeInvariance, PTL DEF TypeInv

----------------------------------------------------------------------------
(* LockHeldByHolder is inductive given the types: only Acquire takes the   *)
(* lock, and every path out of the critical section, the transaction abort *)
(* included, drops it.                                                     *)
LEMMA LockStep == TypeInv /\ LockHeldByHolder /\ [Next]_vars => LockHeldByHolder'
<1>. SUFFICES ASSUME TypeInv, LockHeldByHolder, [Next]_vars
              PROVE  LockHeldByHolder'
  OBVIOUS
<1>. USE BackendAssumption DEF TypeInv, TypeOK, LockHeldByHolder, Holding
<1>1. ASSUME NEW b \in Backends, NEW r, EarlyReturn(b, r)
      PROVE  LockHeldByHolder'
  BY <1>1 DEF EarlyReturn
<1>2. ASSUME NEW b \in Backends, NEW k \in Keys, NEW r \in PositiveRates,
             Enter(b, k, r)
      PROVE  LockHeldByHolder'
  BY <1>2 DEF Enter
<1>3. ASSUME NEW b \in Backends, Acquire(b)
      PROVE  LockHeldByHolder'
  BY <1>3 DEF Acquire
<1>4. ASSUME NEW b \in Backends, Locked(b)
      PROVE  LockHeldByHolder'
  BY <1>4 DEF Locked, NewEntry, HashFull, Pass, Reject
<1>5. ASSUME NEW b \in Backends, Return(b)
      PROVE  LockHeldByHolder'
  BY <1>5 DEF Return, Leave
<1>6. ASSUME NEW b \in Backends, Release(b) \/ AbortTransaction(b)
      PROVE  LockHeldByHolder'
  BY <1>6 DEF Release, AbortTransaction, Leave
<1>7. CASE Tick
  BY <1>7 DEF Tick
<1>8. CASE CrashRestart
  BY <1>8 DEF CrashRestart
<1>9. ASSUME NEW k \in Keys, ObserveFrom(k)
      PROVE  LockHeldByHolder'
  BY <1>9 DEF ObserveFrom
<1>10. CASE UNCHANGED vars
  BY <1>10 DEF vars
<1>. QED
  BY <1>1, <1>2, <1>3, <1>4, <1>5, <1>6, <1>7, <1>8, <1>9, <1>10 DEF Next

(* At most one backend is inside the critical section of tbf_rate_check,   *)
(* and it is the one holding tbf->lock.                                    *)
THEOREM LockDiscipline == Spec => []LockHeldByHolder
<1>1. Init => LockHeldByHolder
  BY BackendAssumption DEF Init, LockHeldByHolder, Holding
<1>. QED
  BY <1>1, LockStep, TypeInvariance, PTL DEF Spec

----------------------------------------------------------------------------
(* What the steps of a call do to the table, said once for the proofs      *)
(* below: a pass, first or later, or a rejection by the holder of the      *)
(* lock; a restart; or nothing.                                            *)
TableKept == UNCHANGED <<tbf_hash, updated_at, tokens, lastPass>>

(* The steps of the specification, as seen by the table. *)
LEMMA TableSteps ==
    ASSUME [Next]_vars
    PROVE  \/ \E b \in Backends : NewEntry(b) \/ Pass(b) \/ Reject(b)
           \/ CrashRestart
           \/ TableKept
BY DEF Next, Locked, EarlyReturn, Enter, Acquire, HashFull, Return, Release,
       AbortTransaction, Leave, Tick, ObserveFrom, TableKept, shared, locals,
       window, vars

(* The counters stay below the largest bucket in use: a pass cuts the      *)
(* counter before it takes a token, a rejection stores zero.               *)
LEMMA TokensStep == TypeInv /\ TokensBounded /\ [Next]_vars => TokensBounded'
<1>. SUFFICES ASSUME TypeInv, TokensBounded, [Next]_vars
              PROVE  TokensBounded'
  OBVIOUS
<1>1. ASSUME NEW b \in Backends, NewEntry(b)
      PROVE  TokensBounded'
  <2>1. rate[b] \in PositiveRates /\ key[b] \in Keys
    BY <1>1, RefillFacts DEF NewEntry, InCall, Holding
  <2>2. BucketMax(rate[b]) - 1 < BucketMax(rate[b])
    BY <2>1, BucketMaxFacts DEF PositiveRates
  <2>. QED
    BY <1>1, <2>1, <2>2 DEF NewEntry, TokensBounded, TypeInv, TypeOK
<1>2. ASSUME NEW b \in Backends, Pass(b)
      PROVE  TokensBounded'
  <2>1. pc[b] \in InCall /\ Refilled(b) > 0
    BY <1>2 DEF Pass, InCall, Holding
  <2>2. /\ rate[b] \in PositiveRates /\ rate[b] \in Rates
        /\ key[b] \in Keys /\ Refilled(b) \in Nat
    BY <2>1, RefillFacts
  <2>3. Limited(Refilled(b), rate[b]) - 1 < BucketMax(rate[b])
    BY <2>1, <2>2, LimitedFacts
  <2>. QED
    BY <1>2, <2>2, <2>3 DEF Pass, TokensBounded, TypeInv, TypeOK
<1>3. ASSUME NEW b \in Backends, Reject(b)
      PROVE  TokensBounded'
  <2>1. rate[b] \in PositiveRates /\ key[b] \in Keys
    BY <1>3, RefillFacts DEF Reject, InCall, Holding
  <2>2. 0 < BucketMax(rate[b])
    BY <2>1, BucketMaxFacts DEF PositiveRates
  <2>. QED
    BY <1>3, <2>1, <2>2 DEF Reject, TokensBounded, TypeInv, TypeOK
<1>4. CASE CrashRestart
  BY <1>4 DEF CrashRestart, TokensBounded
<1>5. CASE TableKept
  BY <1>5 DEF TableKept, TokensBounded
<1>. QED
  BY <1>1, <1>2, <1>3, <1>4, <1>5, TableSteps

(* No order of clock readings, mix of rates or wrap of the conversion puts *)
(* more tokens into an entry than a call leaves in a full bucket.          *)
THEOREM TokensAreBounded == Spec => []TokensBounded
<1>1. Init => TokensBounded
  BY DEF Init, TokensBounded
<1>. QED
  BY <1>1, TokensStep, TypeInvariance, PTL DEF Spec

----------------------------------------------------------------------------
(* updated_at of an entry is the clock reading of its last pass. *)
PassTimes == \A k \in tbf_hash : updated_at[k] = lastPass[k]

(* A pass stamps the entry with its clock reading, a rejection does not    *)
(* touch the stamp.                                                        *)
LEMMA PassTimesStep == TypeInv /\ PassTimes /\ [Next]_vars => PassTimes'
<1>. SUFFICES ASSUME TypeInv, PassTimes, [Next]_vars
              PROVE  PassTimes'
  OBVIOUS
<1>. USE DEF TypeInv, TypeOK, PassTimes
<1>1. ASSUME NEW b \in Backends, NewEntry(b) \/ Pass(b)
      PROVE  PassTimes'
  BY <1>1 DEF NewEntry, Pass, RecordPass
<1>2. ASSUME NEW b \in Backends, Reject(b)
      PROVE  PassTimes'
  BY <1>2 DEF Reject, window
<1>3. CASE CrashRestart
  BY <1>3 DEF CrashRestart
<1>4. CASE TableKept
  BY <1>4 DEF TableKept
<1>. QED
  BY <1>1, <1>2, <1>3, <1>4, TableSteps

(* A product with a natural only adds to the refilled counter. *)
LEMMA RefillLowerBound ==
    ASSUME TypeInv, NEW b \in Backends, pc[b] \in InCall
    PROVE  rate[b] * (now[b] - updated_at[key[b]]) <= Refill(b)
<1>1. /\ tokens[key[b]] \in Nat /\ rate[b] \in Nat
      /\ now[b] \in Nat /\ updated_at[key[b]] \in Nat
  BY RefillFacts, SizeAssumption DEF TypeInv, TypeOK
<1>2. tokens[key[b]] * Scale \in Nat
  BY <1>1, ScalePositive
<1>3. rate[b] * (now[b] - updated_at[key[b]]) \in Int
  BY <1>1
<1>. QED
  BY <1>2, <1>3 DEF Refill

(* While a rejecting call still holds the lock nobody else can stamp the   *)
(* entry, so what held of the last pass when it decided still holds.       *)
LEMMA NoStarvationStep ==
    /\ TypeInv /\ LockHeldByHolder /\ PassTimes /\ NoStarvation /\ [Next]_vars
    => NoStarvation'
<1>. SUFFICES ASSUME TypeInv, LockHeldByHolder, PassTimes, NoStarvation,
                     [Next]_vars
              PROVE  NoStarvation'
  OBVIOUS
<1>. SUFFICES ASSUME NEW b \in Backends, pc'[b] = "release", ret'[b] = "false"
              PROVE  (rate[b] * (now[b] - lastPass[key[b]]) < Scale)'
  BY DEF NoStarvation
<1>. USE DEF TypeInv, TypeOK
<1>1. CASE Reject(b)
  <2>1. pc[b] \in InCall /\ key[b] \in tbf_hash /\ Refilled(b) = 0
    BY <1>1 DEF Reject, InCall, Holding
  <2>2. Refill(b) \in Int /\ Refill(b) < Scale
    BY <2>1, RefillFacts, ToSizeFacts
  <2>3. rate[b] * (now[b] - updated_at[key[b]]) <= Refill(b)
    BY <2>1, RefillLowerBound
  <2>4. updated_at[key[b]] = lastPass[key[b]]
    BY <2>1 DEF PassTimes
  <2>5. rate[b] * (now[b] - updated_at[key[b]]) \in Int
    BY <2>1, RefillFacts
  <2>6. UNCHANGED <<rate, now, key, lastPass>>
    BY <1>1 DEF Reject, locals, window
  <2>. QED
    BY <2>2, <2>3, <2>4, <2>5, <2>6, ScalePositive
<1>2. CASE ~Reject(b)
  <2>1. pc[b] = "release" /\ ret[b] = "false" /\ UNCHANGED <<rate[b], now[b], key[b]>>
    BY <1>2 DEF Next, Locked, EarlyReturn, Enter, Acquire, NewEntry, HashFull,
                Pass, Reject, Return, Release, AbortTransaction, Leave, Tick,
                CrashRestart, ObserveFrom, locals, vars
  <2>2. \A c \in Backends : ~NewEntry(c) /\ ~Pass(c)
    BY <2>1 DEF LockHeldByHolder, Holding, NewEntry, Pass
  <2>3. ~CrashRestart
    BY DEF CrashRestart
  <2>4. UNCHANGED lastPass
    BY <2>2, <2>3, TableSteps DEF TableKept, Reject, window
  <2>. QED
    BY <2>1, <2>4 DEF NoStarvation, Scale
<1>. QED
  BY <1>1, <1>2

(* A call is rejected only within one token's time of the last pass: no    *)
(* number of rejected calls delays the next token.                         *)
THEOREM NeverStarved == Spec => []NoStarvation
<1>1. Init => PassTimes /\ NoStarvation
  BY DEF Init, PassTimes, NoStarvation
<1>. QED
  BY <1>1, PassTimesStep, NoStarvationStep, LockDiscipline, TypeInvariance,
     PTL DEF Spec

----------------------------------------------------------------------------
(* Callers agree on the rate of each bucket: the calls under way on an     *)
(* entry ask for its rate.                                                 *)
Agreed(RateOf) == \A b \in Backends : pc[b] \in InCall => rate[b] = RateOf[key[b]]

(* There is one rate for all buckets. *)
OneRate == \A r, s \in PositiveRates : r = s

(* Conformance, of every entry to its own rate. *)
KeepsTo(RateOf) ==
    \A k \in Keys :
        granted[k] > 0 => Conforms(granted[k], RateOf[k], clock - opened[k])

(* No clock reading is from the future, and an observed pass is of an      *)
(* entry of the table.                                                     *)
ClockOK ==
    /\ \A b \in Backends : now[b] <= clock
    /\ \A k \in Keys : updated_at[k] <= clock
    /\ \A k \in Keys : granted[k] > 0 => k \in tbf_hash

(* Conformance is not inductive: it says nothing of the tokens left.  What *)
(* is preserved is that passes and tokens together stay within the budget  *)
(* up to the bucket's own update time.                                     *)
Budget(k, r) ==
    (granted[k] + tokens[k]) * Scale
        <= BucketMax(r) * Scale + r * (updated_at[k] - opened[k])

BudgetKept(RateOf) ==
    \A k \in Keys : granted[k] > 0 => Budget(k, RateOf[k])

(* Clock readings are taken from the clock, which only moves forward. *)
LEMMA ClockStep == TypeInv /\ ClockOK /\ [Next]_vars => ClockOK'
<1>. SUFFICES ASSUME TypeInv, ClockOK, [Next]_vars
              PROVE  ClockOK'
  OBVIOUS
<1>. USE DEF TypeInv, TypeOK, ClockOK
<1>1. ASSUME NEW b \in Backends, NEW r, EarlyReturn(b, r)
      PROVE  ClockOK'
  BY <1>1 DEF EarlyReturn, shared, locals, window
<1>2. ASSUME NEW b \in Backends, NEW k \in Keys, NEW r \in PositiveRates,
             Enter(b, k, r)
      PROVE  ClockOK'
  BY <1>2 DEF Enter, shared, window
<1>3. ASSUME NEW b \in Backends, Acquire(b) \/ HashFull(b)
      PROVE  ClockOK'
  BY <1>3 DEF Acquire, HashFull, shared, locals, window
<1>4. ASSUME NEW b \in Backends, NewEntry(b)
      PROVE  ClockOK'
  BY <1>4 DEF NewEntry, locals, RecordPass
<1>5. ASSUME NEW b \in Backends, Pass(b)
      PROVE  ClockOK'
  BY <1>5 DEF Pass, locals, RecordPass
<1>6. ASSUME NEW b \in Backends, Reject(b)
      PROVE  ClockOK'
  BY <1>6 DEF Reject, locals, window
<1>7. ASSUME NEW b \in Backends, Return(b) \/ Release(b) \/ AbortTransaction(b)
      PROVE  ClockOK'
  BY <1>7 DEF Return, Release, AbortTransaction, Leave, shared, window
<1>8. CASE Tick
  BY <1>8 DEF Tick, shared, locals, window
<1>9. CASE CrashRestart
  BY <1>9 DEF CrashRestart
<1>10. ASSUME NEW k \in Keys, ObserveFrom(k)
       PROVE  ClockOK'
  BY <1>10 DEF ObserveFrom, shared, locals
<1>11. CASE UNCHANGED vars
  BY <1>11 DEF vars
<1>. QED
  BY <1>1, <1>2, <1>3, <1>4, <1>5, <1>6, <1>7, <1>8, <1>9, <1>10, <1>11
     DEF Next, Locked

(* The arithmetic of one more pass: a pass spends a token that was there   *)
(* or that the time since the last update has earned.                      *)
LEMMA PassArithmetic ==
    ASSUME NEW S \in Nat, NEW g \in Nat, NEW t \in Nat, NEW B \in Nat,
           NEW r \in Nat, NEW n \in Nat, NEW u \in Nat, NEW o \in Nat,
           NEW full \in Nat, NEW cut \in Nat,
           (g + t) * S <= B * S + r * (u - o),
           full * S <= t * S + r * (n - u),
           cut <= full
    PROVE  (g + cut) * S <= B * S + r * (n - o)
<1>1. (g + t) * S = g * S + t * S /\ (g + cut) * S = g * S + cut * S
  BY SMT
<1>2. r * (u - o) = r * u - r * o /\ r * (n - u) = r * n - r * u
      /\ r * (n - o) = r * n - r * o
  BY SMT
<1>3. cut * S <= full * S
  BY SMT
<1>4. /\ g * S \in Int /\ t * S \in Int /\ cut * S \in Int /\ full * S \in Int
      /\ B * S \in Int /\ r * u \in Int /\ r * o \in Int /\ r * n \in Int
  OBVIOUS
<1>. DEFINE gS == g * S  tS == t * S  cS == cut * S  fS == full * S
            bS == B * S  ru == r * u  ro == r * o  rn == r * n
<1>5. /\ gS + tS <= bS + (ru - ro)
      /\ fS <= tS + (rn - ru)
      /\ cS <= fS
  BY <1>1, <1>2, <1>3
<1>6. /\ gS \in Int /\ tS \in Int /\ cS \in Int /\ fS \in Int
      /\ bS \in Int /\ ru \in Int /\ ro \in Int /\ rn \in Int
  BY <1>4
<1>. HIDE DEF gS, tS, cS, fS, bS, ru, ro, rn
<1>7. gS + cS <= bS + (rn - ro)
  BY <1>5, <1>6
<1>. QED
  BY <1>1, <1>2, <1>7 DEF gS, cS, bS, rn, ro

(* The first pass of a window leaves at most a full bucket minus its own   *)
(* token.                                                                  *)
LEMMA FirstPassArithmetic ==
    ASSUME NEW S \in Nat, NEW left \in Nat, NEW B \in Nat, NEW r \in Nat,
           NEW n \in Nat, left < B
    PROVE  (0 + 1 + left) * S <= B * S + r * (n - n)
<1>1. 1 + left <= B
  OBVIOUS
<1>2. (1 + left) * S <= B * S
  BY <1>1, SMT
<1>3. r * (n - n) = 0
  BY SMT
<1>. QED
  BY <1>2, <1>3

(* The budget survives every step when the conversion saturates and the    *)
(* callers agree on the rate.  A call whose clock reading is older than    *)
(* the bucket's update time takes tokens away and moves the update time    *)
(* back by as much as it took.                                             *)
LEMMA BudgetStep ==
    ASSUME ~Wraps, NEW RateOf \in [Keys -> PositiveRates]
    PROVE  /\ TypeInv /\ ClockOK /\ Agreed(RateOf) /\ BudgetKept(RateOf) /\ [Next]_vars
           => BudgetKept(RateOf)'
<1>. SUFFICES ASSUME TypeInv, ClockOK, Agreed(RateOf), BudgetKept(RateOf), [Next]_vars,
                     NEW k \in Keys, granted'[k] > 0
              PROVE  Budget(k, RateOf[k])'
  BY DEF BudgetKept
<1>. DEFINE r == RateOf[k]
<1>budget. r \in PositiveRates /\ (granted[k] > 0 => Budget(k, r))
  BY DEF BudgetKept
<1>asked. \A b \in Backends : pc[b] \in InCall /\ key[b] = k => rate[b] = r
  BY DEF Agreed
<1>. SUFFICES Budget(k, r)'
  OBVIOUS
<1>. HIDE DEF r
<1>1. /\ r \in Rates /\ r \in Nat /\ Scale \in Nat
      /\ BucketMax(r) \in Nat /\ BucketMax(r) > 0
  BY <1>budget, RateAssumption, ScalePositive, BucketMaxFacts DEF PositiveRates
<1>2. /\ granted[k] \in Nat /\ tokens[k] \in Nat
      /\ updated_at[k] \in Nat /\ opened[k] \in Nat
  BY SizeAssumption DEF TypeInv, TypeOK
<1>3. ASSUME NEW b \in Backends, NewEntry(b), key[b] = k
      PROVE  Budget(k, r)'
  <2>1. rate[b] = r /\ now[b] \in Nat
    BY <1>asked, <1>3 DEF NewEntry, InCall, Holding, TypeInv, TypeOK
  <2>2. granted[k] = 0
    BY <1>2, <1>3 DEF ClockOK, NewEntry
  <2>3. /\ granted'[k] = 1 /\ tokens'[k] = BucketMax(r) - 1
        /\ updated_at'[k] = now[b] /\ opened'[k] = now[b]
    BY <1>3, <2>1, <2>2 DEF NewEntry, RecordPass, TypeInv, TypeOK
  <2>4. (0 + 1 + (BucketMax(r) - 1)) * Scale
          <= BucketMax(r) * Scale + r * (now[b] - now[b])
    BY <1>1, <2>1, FirstPassArithmetic
  <2>. QED
    BY <2>3, <2>4 DEF Budget, Scale, BucketMax
<1>4. ASSUME NEW b \in Backends, Pass(b), key[b] = k
      PROVE  Budget(k, r)'
  <2>1. pc[b] \in InCall /\ Refilled(b) > 0
    BY <1>4 DEF Pass, InCall, Holding
  <2>2. /\ rate[b] \in PositiveRates /\ Refilled(b) \in Nat
        /\ Refilled(b) = ToSize(Refill(b)) /\ Refill(b) \in Int
    BY <2>1, RefillFacts
  <2>3. rate[b] = r /\ now[b] \in Nat
    BY <1>asked, <1>4, <2>1 DEF TypeInv, TypeOK
  <2>. DEFINE cut == Limited(Refilled(b), r)
  <2>4. cut \in Nat /\ cut - 1 \in Nat /\ cut - 1 < BucketMax(r) /\ cut <= Refilled(b)
    BY <1>1, <2>1, <2>2, LimitedFacts
  <2>5. Refilled(b) * Scale <= tokens[k] * Scale + r * (now[b] - updated_at[k])
    BY <1>4, <2>1, <2>2, <2>3, ToSizeFacts DEF Refill
  <2>6. /\ granted'[k] = granted[k] + 1 /\ tokens'[k] = cut - 1
        /\ updated_at'[k] = now[b]
    BY <1>4, <2>3 DEF Pass, RecordPass, TypeInv, TypeOK
  <2>. HIDE DEF cut
  <2>7. CASE granted[k] = 0
    <3>1. opened'[k] = now[b]
      BY <1>4, <2>7 DEF Pass, RecordPass, TypeInv, TypeOK
    <3>2. (0 + 1 + (cut - 1)) * Scale
            <= BucketMax(r) * Scale + r * (now[b] - now[b])
      BY <1>1, <2>3, <2>4, FirstPassArithmetic
    <3>. QED
      BY <2>6, <2>7, <3>1, <3>2 DEF Budget, Scale, BucketMax
  <2>8. CASE granted[k] > 0
    <3>1. opened'[k] = opened[k]
      BY <1>2, <1>4, <2>8 DEF Pass, RecordPass, TypeInv, TypeOK
    <3>2. (granted[k] + tokens[k]) * Scale
            <= BucketMax(r) * Scale + r * (updated_at[k] - opened[k])
      BY <1>budget, <2>8 DEF Budget
    <3>3. (granted[k] + cut) * Scale
            <= BucketMax(r) * Scale + r * (now[b] - opened[k])
      BY <1>1, <1>2, <2>2, <2>3, <2>4, <2>5, <3>2, PassArithmetic
    <3>4. (granted[k] + 1) + (cut - 1) = granted[k] + cut
      BY <1>2, <2>4
    <3>5. granted'[k] + tokens'[k] = granted[k] + cut
      BY <2>6, <3>4
    <3>. QED
      BY <2>6, <3>1, <3>3, <3>5 DEF Budget, Scale, BucketMax
  <2>. QED
    BY <1>2, <2>7, <2>8
<1>5. ASSUME NEW b \in Backends, Reject(b), key[b] = k
      PROVE  Budget(k, r)'
  <2>1. /\ granted'[k] = granted[k] /\ tokens'[k] = 0
        /\ updated_at'[k] = updated_at[k] /\ opened'[k] = opened[k]
    BY <1>5 DEF Reject, window, TypeInv, TypeOK
  <2>2. (granted[k] + tokens[k]) * Scale
          <= BucketMax(r) * Scale + r * (updated_at[k] - opened[k])
    BY <1>budget, <2>1 DEF Budget
  <2>3. granted[k] + 0 <= granted[k] + tokens[k]
    BY <1>2
  <2>4. (granted[k] + 0) * Scale <= (granted[k] + tokens[k]) * Scale
    BY <1>1, <1>2, <2>3
  <2>5. /\ (granted[k] + 0) * Scale \in Int
        /\ (granted[k] + tokens[k]) * Scale \in Int
        /\ BucketMax(r) * Scale + r * (updated_at[k] - opened[k]) \in Int
    BY <1>1, <1>2
  <2>6. (granted[k] + 0) * Scale
          <= BucketMax(r) * Scale + r * (updated_at[k] - opened[k])
    BY <2>2, <2>4, <2>5
  <2>. QED
    BY <2>1, <2>6 DEF Budget, Scale, BucketMax
<1>6. CASE /\ granted'[k] = granted[k] /\ tokens'[k] = tokens[k]
           /\ updated_at'[k] = updated_at[k] /\ opened'[k] = opened[k]
  BY <1>budget, <1>6 DEF Budget, Scale, BucketMax
<1>7. ASSUME NEW b \in Backends, NewEntry(b) \/ Pass(b) \/ Reject(b), key[b] # k
      PROVE  /\ granted'[k] = granted[k] /\ tokens'[k] = tokens[k]
             /\ updated_at'[k] = updated_at[k] /\ opened'[k] = opened[k]
  BY <1>7 DEF NewEntry, Pass, Reject, RecordPass, window, TypeInv, TypeOK
<1>8. ASSUME NEW j \in Keys, ObserveFrom(j)
      PROVE  /\ granted'[k] = granted[k] /\ tokens'[k] = tokens[k]
             /\ updated_at'[k] = updated_at[k] /\ opened'[k] = opened[k]
  BY <1>8 DEF ObserveFrom, shared, TypeInv, TypeOK
<1>9. ~CrashRestart
  BY DEF CrashRestart
<1>10. ASSUME TableKept, \A j \in Keys : ~ObserveFrom(j),
              \A b \in Backends : ~NewEntry(b) /\ ~Pass(b)
       PROVE  UNCHANGED <<granted, opened, tokens, updated_at>>
  BY <1>9, <1>10 DEF Next, Locked, EarlyReturn, Enter, Acquire,
         HashFull, Reject, Return, Release, AbortTransaction, Leave, Tick,
         TableKept, shared, locals, window, vars
<1>. QED
  BY <1>3, <1>4, <1>5, <1>6, <1>7, <1>8, <1>9, <1>10, TableSteps

(* Within the budget an entry keeps to its rate: the tokens left and the   *)
(* time since its last pass only add to what is allowed.                   *)
LEMMA BudgetSuffices ==
    ASSUME NEW RateOf \in [Keys -> PositiveRates]
    PROVE  TypeInv /\ ClockOK /\ BudgetKept(RateOf) => KeepsTo(RateOf)
<1>. SUFFICES ASSUME TypeInv, ClockOK, BudgetKept(RateOf),
                     NEW k \in Keys, granted[k] > 0
              PROVE  granted[k] * Scale
                       <= BucketMax(RateOf[k]) * Scale + RateOf[k] * (clock - opened[k])
  BY DEF KeepsTo, Conforms
<1>. DEFINE r == RateOf[k]
<1>budget. r \in PositiveRates /\ Budget(k, r)
  BY DEF BudgetKept
<1>. HIDE DEF r
<1>1. /\ r \in Nat /\ Scale \in Nat /\ BucketMax(r) \in Nat
  BY <1>budget, RateAssumption, ScalePositive, BucketMaxFacts DEF PositiveRates
<1>2. /\ granted[k] \in Nat /\ tokens[k] \in Nat /\ updated_at[k] \in Nat
      /\ opened[k] \in Nat /\ clock \in Nat /\ updated_at[k] <= clock
  BY SizeAssumption DEF TypeInv, TypeOK, ClockOK
<1>3. (granted[k] + tokens[k]) * Scale
        <= BucketMax(r) * Scale + r * (updated_at[k] - opened[k])
  BY <1>budget DEF Budget
<1>4. 0 * Scale <= tokens[k] * Scale + r * (clock - updated_at[k])
  <2>1. tokens[k] * Scale \in Nat
    BY <1>1, <1>2
  <2>2. clock - updated_at[k] \in Nat
    BY <1>2
  <2>3. r * (clock - updated_at[k]) \in Nat
    BY <1>1, <2>2
  <2>. QED
    BY <1>1, <2>1, <2>3
<1>5. (granted[k] + 0) * Scale
        <= BucketMax(r) * Scale + r * (clock - opened[k])
  BY <1>1, <1>2, <1>3, <1>4, PassArithmetic
<1>. QED
  BY <1>2, <1>5 DEF r

(* The rate limit: however the calls of any number of backends interleave  *)
(* and in whatever order their clock readings arrive, the passes of an     *)
(* entry from any pass on number at most its burst plus what its rate      *)
(* allows in the time since, provided the callers agree on the rate of     *)
(* each bucket and the conversion to Size saturates (the tbf_refill run    *)
(* shows what happens when it wraps).                                      *)
THEOREM RateLimitOfEach ==
    ASSUME ~Wraps, NEW RateOf \in [Keys -> PositiveRates]
    PROVE  Spec /\ []Agreed(RateOf) => []KeepsTo(RateOf)
<1>1. Init => ClockOK /\ BudgetKept(RateOf)
  BY DEF Init, ClockOK, BudgetKept
<1>2. /\ TypeInv /\ ClockOK /\ Agreed(RateOf) /\ BudgetKept(RateOf) /\ [Next]_vars
      => BudgetKept(RateOf)'
  BY BudgetStep
<1>3. TypeInv /\ ClockOK /\ BudgetKept(RateOf) => KeepsTo(RateOf)
  BY BudgetSuffices
<1>. QED
  BY <1>1, <1>2, <1>3, ClockStep, TypeInvariance, PTL DEF Spec

(* Callers that know a single rate agree on it for every bucket.           *)
THEOREM RateLimit ==
    ASSUME OneRate, ~Wraps
    PROVE  Spec => []Conformance
<1>1. CASE PositiveRates = {}
  <2>1. TypeInv => Conformance
    BY <1>1 DEF Conformance
  <2>. QED
    BY <2>1, TypeInvariance, PTL
<1>2. ASSUME NEW r \in PositiveRates
      PROVE  Spec => []Conformance
  <2>. DEFINE RateOf == [k \in Keys |-> r]
  <2>1. RateOf \in [Keys -> PositiveRates]
    OBVIOUS
  <2>2. TypeInv => Agreed(RateOf)
    BY <1>2 DEF TypeInv, TypeOK, CallOK, OneRate, Agreed
  <2>3. KeepsTo(RateOf) => Conformance
    BY <1>2 DEF KeepsTo, Conformance, OneRate
  <2>. HIDE DEF RateOf
  <2>4. Init => ClockOK /\ BudgetKept(RateOf)
    BY DEF Init, ClockOK, BudgetKept
  <2>5. /\ TypeInv /\ ClockOK /\ Agreed(RateOf) /\ BudgetKept(RateOf) /\ [Next]_vars
        => BudgetKept(RateOf)'
    BY <2>1, BudgetStep
  <2>6. TypeInv /\ ClockOK /\ BudgetKept(RateOf) => KeepsTo(RateOf)
    BY <2>1, BudgetSuffices
  <2>. QED
    BY <2>2, <2>3, <2>4, <2>5, <2>6, ClockStep, TypeInvariance, PTL DEF Spec
<1>. QED
  BY <1>1, <1>2

----------------------------------------------------------------------------
(* A clock reading that is not later than the update time adds nothing,    *)
(* and one that is older takes tokens away.                                *)
LEMMA NoTimeNoTokens ==
    ASSUME NEW S \in Nat \ {0}, NEW full \in Nat, NEW t \in Nat, NEW r \in Nat,
           NEW n \in Nat, NEW u \in Nat, n <= u,
           full * S <= t * S + r * (n - u)
    PROVE  full <= t
<1>1. PICK d \in Nat : u = n + d
  <2>1. u - n \in Nat /\ u = n + (u - n)
    OBVIOUS
  <2>. QED
    BY <2>1
<1>2. r * d \in Nat /\ r * (n - u) = -(r * d)
  <2>1. n - u = -d
    BY <1>1
  <2>. QED
    BY <1>1, <2>1
<1>3. full * S \in Nat /\ t * S \in Nat
  OBVIOUS
<1>4. full * S <= t * S
  BY <1>2, <1>3
<1>5. ASSUME full > t
      PROVE  full * S > t * S
  <2>1. PICK e \in Nat : full = t + 1 + e
    <3>1. full - t - 1 \in Nat /\ full = t + 1 + (full - t - 1)
      BY <1>5
    <3>. QED
      BY <3>1
  <2>2. full * S = t * S + S + e * S
    BY <2>1, SMT
  <2>3. e * S \in Nat
    BY <2>1
  <2>. QED
    BY <1>3, <2>2, <2>3
<1>. QED
  BY <1>3, <1>4, <1>5

(* Tokens come from time: when the conversion saturates, a call leaves a   *)
(* known bucket fuller than it found it only by moving its update time     *)
(* forward, for any mix of rates and any order of the clock readings (the  *)
(* tbf_refill run shows that it fails when the conversion wraps).          *)
THEOREM TokensComeFromTime ==
    ASSUME ~Wraps
    PROVE  Spec => AddedByTimeDiff
<1>1. ASSUME TypeInv, [Next]_vars,
             NEW k \in tbf_hash \intersect tbf_hash', tokens'[k] > tokens[k]
      PROVE  updated_at'[k] > updated_at[k]
  <2>. USE <1>1
  <2>1. /\ k \in Keys /\ tokens[k] \in Nat /\ updated_at[k] \in Nat
    BY SizeAssumption DEF TypeInv, TypeOK
  <2>2. ASSUME NEW b \in Backends, Pass(b), key[b] = k
        PROVE  updated_at'[k] > updated_at[k]
    <3>1. pc[b] \in InCall /\ Refilled(b) > 0
      BY <2>2 DEF Pass, InCall, Holding
    <3>2. /\ rate[b] \in Rates /\ rate[b] \in Nat /\ Refilled(b) \in Nat
          /\ Refilled(b) = ToSize(Refill(b)) /\ Refill(b) \in Int
          /\ now[b] \in Nat
      BY <3>1, RefillFacts DEF TypeInv, TypeOK
    <3>3. Refilled(b) * Scale <= tokens[k] * Scale + rate[b] * (now[b] - updated_at[k])
      BY <2>2, <3>1, <3>2, ToSizeFacts DEF Refill
    <3>4. /\ tokens'[k] = Limited(Refilled(b), rate[b]) - 1
          /\ updated_at'[k] = now[b]
      BY <2>1, <2>2 DEF Pass, TypeInv, TypeOK
    <3>5. /\ Limited(Refilled(b), rate[b]) \in Nat
          /\ Limited(Refilled(b), rate[b]) <= Refilled(b)
      BY <3>1, <3>2, LimitedFacts
    <3>6. Refilled(b) > tokens[k]
      BY <2>1, <3>2, <3>4, <3>5
    <3>7. CASE now[b] <= updated_at[k]
      BY <2>1, <3>2, <3>3, <3>6, <3>7, NoTimeNoTokens, ScalePositive
    <3>. QED
      BY <2>1, <3>2, <3>4, <3>7
  <2>3. ASSUME NEW b \in Backends, NewEntry(b) \/ Reject(b) \/ key[b] # k,
               NewEntry(b) \/ Pass(b) \/ Reject(b)
        PROVE  tokens'[k] <= tokens[k]
    BY <2>1, <2>3 DEF NewEntry, Pass, Reject, TypeInv, TypeOK
  <2>4. ~CrashRestart
    BY DEF CrashRestart
  <2>5. ~TableKept
    BY <2>1 DEF TableKept
  <2>6. PICK b \in Backends : NewEntry(b) \/ Pass(b) \/ Reject(b)
    BY <2>4, <2>5, TableSteps
  <2>7. tokens'[k] \in Int
    BY <2>1, <2>6, RefillFacts, LimitedFacts, BucketMaxFacts
       DEF NewEntry, Pass, Reject, TypeInv, TypeOK, InCall, Holding
  <2>. QED
    BY <2>1, <2>2, <2>3, <2>6, <2>7
<1>2. TypeInv /\ [Next]_vars =>
        [\A k \in tbf_hash \intersect tbf_hash' :
            tokens'[k] > tokens[k] => updated_at'[k] > updated_at[k]]_vars
  BY <1>1
<1>. QED
  BY <1>2, TypeInvariance, PTL DEF Spec, AddedByTimeDiff
----------------------------------------------------------------------------
(* The padding of the hash key always holds the same bytes, as it would if *)
(* the key were cleared before its fields are set.                         *)
PaddingCleared == \E p : Paddings = {p}

(* The passes of a bucket with a single entry are those of the entry. *)
LEMMA SumOfOne ==
    ASSUME NEW k \in Keys, granted[k] \in Nat
    PROVE  MapThenSumSet(LAMBDA j : granted[j], {k}) = granted[k]
<1>. DEFINE Body(f, s) == IF s = {} THEN 0
                          ELSE granted[CHOOSE x \in s : TRUE]
                                 + f[s \ {CHOOSE x \in s : TRUE}]
            iter[s \in SUBSET {k}] == Body(iter, s)
            sum == [s \in SUBSET {k} |-> IF s = {} THEN 0 ELSE granted[k]]
<1>1. MapThenSumSet(LAMBDA j : granted[j], {k}) = iter[{k}]
  BY DEF MapThenSumSet, MapThenFoldSet
<1>2. sum = [s \in SUBSET {k} |-> Body(sum, s)]
  <2>1. ASSUME NEW s \in SUBSET {k}, s # {}
        PROVE  s = {k} /\ (CHOOSE x \in s : TRUE) = k /\ s \ {k} = {}
    BY <2>1
  <2>2. ASSUME NEW s \in SUBSET {k}
        PROVE  sum[s] = Body(sum, s)
    BY <2>1
  <2>. QED
    BY <2>2
<1>3. iter = [s \in SUBSET {k} |-> Body(iter, s)]
  <2>. HIDE DEF sum
  <2>. QED
    BY <1>2, Zenon
<1>. HIDE DEF iter
<1>4. iter[{k}] = granted[k]
  <2>1. iter[{k}] = Body(iter, {k}) /\ iter[{}] = Body(iter, {})
    BY <1>3, Zenon DEF Body
  <2>2. (CHOOSE x \in {k} : TRUE) = k /\ {k} \ {k} = {}
    OBVIOUS
  <2>3. iter[{}] = 0
    BY <2>1
  <2>. QED
    BY <2>1, <2>2, <2>3
<1>. QED
  BY <1>1, <1>4, Zenon

(* The padding is all that lets a bucket exceed its rate: with the key     *)
(* cleared a (namespace_id, bucket_id) has one entry, and its passes keep  *)
(* to the burst and the rate (the tbf_padding run shows that they do not   *)
(* when two contents of the padding occur).                                *)
THEOREM BucketRateLimit ==
    ASSUME OneRate, ~Wraps, PaddingCleared
    PROVE  Spec => []BucketConformance
<1>1. TypeInv /\ Conformance => BucketConformance
  <2>. SUFFICES ASSUME TypeInv, Conformance,
                       NEW bk \in Buckets, NEW r \in PositiveRates
                PROVE  LET live == {k \in {bk} \X Paddings : granted[k] > 0}
                       IN  live # {} =>
                             Conforms(MapThenSumSet(LAMBDA k : granted[k], live),
                                      r, clock - Min({opened[k] : k \in live}))
    BY Zenon DEF BucketConformance
  <2>. DEFINE live == {k \in {bk} \X Paddings : granted[k] > 0}
  <2>. SUFFICES ASSUME live # {}
                PROVE  Conforms(MapThenSumSet(LAMBDA k : granted[k], live), r,
                                clock - Min({opened[k] : k \in live}))
    BY Zenon
  <2>1. PICK p : Paddings = {p}
    BY DEF PaddingCleared
  <2>. DEFINE k == <<bk, p>>
  <2>2. live = {k} /\ k \in Keys /\ granted[k] > 0
    BY <2>1 DEF Keys
  <2>. HIDE DEF live, k
  <2>3. granted[k] \in Nat /\ opened[k] \in Nat
    BY <2>2 DEF TypeInv, TypeOK
  <2>4. MapThenSumSet(LAMBDA j : granted[j], live) = granted[k]
    BY <2>2, <2>3, SumOfOne, Zenon
  <2>5. Min({opened[j] : j \in live}) = opened[k]
    <3>1. {opened[j] : j \in live} = {opened[k]}
      BY <2>2
    <3>2. Min({opened[k]}) = opened[k]
      BY <2>3 DEF Min
    <3>. QED
      BY <3>1, <3>2, Zenon
  <2>6. Conforms(granted[k], r, clock - opened[k])
    BY <2>2 DEF Conformance
  <2>. QED
    BY <2>4, <2>5, <2>6, Zenon
<1>. QED
  BY <1>1, TypeInvariance, RateLimit, PTL
============================================================================

---------------------------- MODULE TokenBucket ----------------------------
(***************************************************************************)
(* The shared-memory rate limiter tbf_rate_check(namespace_id, bucket_id,  *)
(* rate) of f_tbf_rate_check.c: a hash table of token buckets in shared    *)
(* memory, one LWLock around it, and any number of backends calling it.    *)
(*                                                                         *)
(* A call reads its arguments and the clock BEFORE it takes the lock, so   *)
(* the readings `now` reach the table in any order.  All arithmetic is     *)
(* exact: a rate r stands for r/RateUnit tokens per second, the clock      *)
(* counts 1/TicksPerSec seconds, and a token weighs Scale units.           *)
(***************************************************************************)
EXTENDS Integers, FiniteSets, FiniteSetsExt

CONSTANTS
    Backends,       \* backend processes
    NoBackend,      \* the lock is free
    Buckets,        \* (namespace_id, bucket_id) pairs
    Paddings,       \* contents of the 4 unset padding bytes of tbfHashKey
    Rates,          \* values of the rate argument, in 1/RateUnit tokens per second
    NullArg,        \* an SQL NULL argument
    RateUnit,
    TicksPerSec,
    MaxEntries,     \* tbf_hash_max
    SizeMod,        \* 2^64, the range of Size
    Wraps,          \* does a negative double wrap when converted to Size?
    MaxClock,       \* bound: the clock stops here
    MaxGrants       \* bound: no call is started on an entry granted so often

Scale == RateUnit * TicksPerSec

Keys == Buckets \X Paddings

(* A rate of the call for which the bucket arithmetic is done. *)
PositiveRates == Rates \ {0}

(* bucket_max_size = rate*2, at least 1. *)
BucketMax(r) == IF (2 * r) \div RateUnit < 1 THEN 1 ELSE (2 * r) \div RateUnit

ASSUME BackendAssumption == NoBackend \notin Backends
ASSUME RateAssumption == Rates \subseteq Nat /\ NullArg \notin Nat
ASSUME UnitAssumption == RateUnit \in Nat \ {0} /\ TicksPerSec \in Nat \ {0}
ASSUME EntriesAssumption == MaxEntries \in Nat
ASSUME SizeAssumption == /\ SizeMod \in Nat \ {0}
                         /\ \A r \in Rates : BucketMax(r) < SizeMod
ASSUME WrapsAssumption == Wraps \in BOOLEAN
ASSUME BoundAssumption == MaxClock \in Nat /\ MaxGrants \in Nat

VARIABLES
    tbf,            \* has this server attached the shared state (tbf # NULL)?
    tbf_hash,       \* keys present in the table
    updated_at,     \* entry->updated_at, for every key
    tokens,         \* entry->tokens, for every key
    lock,           \* holder of tbf->lock
    clock,          \* the monotonic clock
    pc,             \* where each backend is in tbf_rate_check
    key, rate, now, \* its locals
    ret,            \* what its call under way is going to return
    granted,        \* history: passes of an entry in the observed window
    opened,         \* history: clock reading of the window's first pass
    lastPass        \* history: clock reading of the entry's last pass

shared == <<tbf, tbf_hash, updated_at, tokens>>
locals == <<key, rate, now>>
window == <<granted, opened, lastPass>>
vars == <<tbf, tbf_hash, updated_at, tokens, lock, clock, pc, key, rate, now,
          ret, granted, opened, lastPass>>

Holding == {"locked", "release", "abort"}

----------------------------------------------------------------------------
(* The C conversion to Size of the double x/Scale.  A value in (-1, 0)     *)
(* truncates to 0; below that it is undefined behaviour, and the builds    *)
(* disagree: x86-64 wraps modulo 2^64, aarch64 saturates at 0.             *)
ToSize(x) ==
    IF x > -Scale
      THEN IF x < 0 THEN 0 ELSE x \div Scale
      ELSE IF Wraps THEN (SizeMod - ((-x) \div Scale)) % SizeMod ELSE 0

(* entry->tokens after `entry->tokens += rate*diff`. *)
Refilled(b) ==
    ToSize(tokens[key[b]] * Scale + rate[b] * (now[b] - updated_at[key[b]]))

(* A bucket whose counter is cut at bucket_max_size. *)
Limited(n, r) == IF n > BucketMax(r) THEN BucketMax(r) ELSE n

Init ==
    /\ tbf \in BOOLEAN
    /\ tbf_hash = {}
    /\ updated_at = [k \in Keys |-> 0]
    /\ tokens = [k \in Keys |-> 0]
    /\ lock = NoBackend
    /\ clock = 0
    /\ pc = [b \in Backends |-> "idle"]
    /\ key \in [Backends -> Keys]
    /\ rate = [b \in Backends |-> 0]
    /\ now = [b \in Backends |-> 0]
    /\ ret = [b \in Backends |-> "none"]
    /\ granted = [k \in Keys |-> 0]
    /\ opened = [k \in Keys |-> 0]
    /\ lastPass = [k \in Keys |-> 0]

(* The returns that never touch the table: shared state not attached, a    *)
(* NULL argument, and the zero rate.                                       *)
EarlyReturn(b, r) ==
    /\ pc[b] = "idle"
    /\ pc' = [pc EXCEPT ![b] = "return"]
    /\ \/ (~tbf \/ r = NullArg) /\ ret' = [ret EXCEPT ![b] = "true"]
       \/ tbf /\ r = 0 /\ ret' = [ret EXCEPT ![b] = "false"]
    /\ UNCHANGED <<shared, lock, clock, locals, window>>

(* The key is filled field by field, so its padding is whatever the stack  *)
(* held; the clock is read here, the lock requested afterwards.            *)
Enter(b, k, r) ==
    /\ pc[b] = "idle" /\ tbf
    /\ granted[k] < MaxGrants
    /\ pc' = [pc EXCEPT ![b] = "wait"]
    /\ key' = [key EXCEPT ![b] = k]
    /\ rate' = [rate EXCEPT ![b] = r]
    /\ now' = [now EXCEPT ![b] = clock]
    /\ UNCHANGED <<shared, lock, clock, ret, window>>

(* LWLockAcquire(tbf->lock, LW_EXCLUSIVE). *)
Acquire(b) ==
    /\ pc[b] = "wait"
    /\ lock = NoBackend
    /\ lock' = b
    /\ pc' = [pc EXCEPT ![b] = "locked"]
    /\ UNCHANGED <<shared, clock, locals, ret, window>>

(* The history of an entry's passes: the first one opens the window. *)
RecordPass(b) ==
    /\ granted' = [granted EXCEPT ![key[b]] = @ + 1]
    /\ opened' = IF granted[key[b]] = 0
                   THEN [opened EXCEPT ![key[b]] = now[b]]
                   ELSE opened
    /\ lastPass' = [lastPass EXCEPT ![key[b]] = now[b]]

(* HASH_ENTER of an absent key: the initial call always passes. *)
NewEntry(b) ==
    /\ pc[b] = "locked"
    /\ key[b] \notin tbf_hash
    /\ Cardinality(tbf_hash) < MaxEntries
    /\ tbf_hash' = tbf_hash \union {key[b]}
    /\ updated_at' = [updated_at EXCEPT ![key[b]] = now[b]]
    /\ tokens' = [tokens EXCEPT ![key[b]] = BucketMax(rate[b]) - 1]
    /\ ret' = [ret EXCEPT ![b] = "true"]
    /\ pc' = [pc EXCEPT ![b] = "release"]
    /\ RecordPass(b)
    /\ UNCHANGED <<tbf, lock, clock, locals>>

(* HASH_ENTER into a full table raises ERROR with the lock held. *)
HashFull(b) ==
    /\ pc[b] = "locked"
    /\ key[b] \notin tbf_hash
    /\ Cardinality(tbf_hash) >= MaxEntries
    /\ ret' = [ret EXCEPT ![b] = "error"]
    /\ pc' = [pc EXCEPT ![b] = "abort"]
    /\ UNCHANGED <<shared, lock, clock, locals, window>>

(* Fault: a signed counter and no test for a token. *)
PassSigned(b) ==
    /\ pc[b] = "locked"
    /\ key[b] \in tbf_hash
    /\ updated_at' = [updated_at EXCEPT ![key[b]] = now[b]]
    /\ tokens' = [tokens EXCEPT ![key[b]] = Limited(Refilled(b), rate[b]) - 1]
    /\ ret' = [ret EXCEPT ![b] = "true"]
    /\ pc' = [pc EXCEPT ![b] = "release"]
    /\ RecordPass(b)
    /\ UNCHANGED <<tbf, tbf_hash, lock, clock, locals>>

(* Fault: the counter is not cut at bucket_max_size. *)
PassWithoutLimit(b) ==
    /\ pc[b] = "locked"
    /\ key[b] \in tbf_hash
    /\ Refilled(b) > 0
    /\ updated_at' = [updated_at EXCEPT ![key[b]] = now[b]]
    /\ tokens' = [tokens EXCEPT ![key[b]] = Refilled(b) - 1]
    /\ ret' = [ret EXCEPT ![b] = "true"]
    /\ pc' = [pc EXCEPT ![b] = "release"]
    /\ RecordPass(b)
    /\ UNCHANGED <<tbf, tbf_hash, lock, clock, locals>>

(* Fault: a pass does not move the update time. *)
PassKeepsTime(b) ==
    /\ pc[b] = "locked"
    /\ key[b] \in tbf_hash
    /\ Refilled(b) > 0
    /\ tokens' = [tokens EXCEPT ![key[b]] = Limited(Refilled(b), rate[b]) - 1]
    /\ ret' = [ret EXCEPT ![b] = "true"]
    /\ pc' = [pc EXCEPT ![b] = "release"]
    /\ RecordPass(b)
    /\ UNCHANGED <<tbf, tbf_hash, updated_at, lock, clock, locals>>

(* A known bucket with a token left: refill, cut, take one. *)
Pass(b) ==
    /\ pc[b] = "locked"
    /\ key[b] \in tbf_hash
    /\ Refilled(b) > 0
    /\ updated_at' = [updated_at EXCEPT ![key[b]] = now[b]]
    /\ tokens' = [tokens EXCEPT ![key[b]] = Limited(Refilled(b), rate[b]) - 1]
    /\ ret' = [ret EXCEPT ![b] = "true"]
    /\ pc' = [pc EXCEPT ![b] = "release"]
    /\ RecordPass(b)
    /\ UNCHANGED <<tbf, tbf_hash, lock, clock, locals>>

(* Fault: a rejection moves the update time. *)
RejectStampsTime(b) ==
    /\ pc[b] = "locked"
    /\ key[b] \in tbf_hash
    /\ Refilled(b) = 0
    /\ updated_at' = [updated_at EXCEPT ![key[b]] = now[b]]
    /\ tokens' = [tokens EXCEPT ![key[b]] = Refilled(b)]
    /\ ret' = [ret EXCEPT ![b] = "false"]
    /\ pc' = [pc EXCEPT ![b] = "release"]
    /\ UNCHANGED <<tbf, tbf_hash, lock, clock, locals, window>>

(* Fault: a rejection returns without LWLockRelease. *)
RejectKeepsLock(b) ==
    /\ pc[b] = "locked"
    /\ key[b] \in tbf_hash
    /\ Refilled(b) = 0
    /\ tokens' = [tokens EXCEPT ![key[b]] = Refilled(b)]
    /\ ret' = [ret EXCEPT ![b] = "false"]
    /\ pc' = [pc EXCEPT ![b] = "idle"]
    /\ UNCHANGED <<tbf, tbf_hash, updated_at, lock, clock, locals, window>>

(* No whole token: the counter was stored, updated_at keeps the last pass. *)
Reject(b) ==
    /\ pc[b] = "locked"
    /\ key[b] \in tbf_hash
    /\ Refilled(b) = 0
    /\ tokens' = [tokens EXCEPT ![key[b]] = Refilled(b)]
    /\ ret' = [ret EXCEPT ![b] = "false"]
    /\ pc' = [pc EXCEPT ![b] = "release"]
    /\ UNCHANGED <<tbf, tbf_hash, updated_at, lock, clock, locals, window>>

(* The call is over: its locals are gone with its stack frame. *)
Leave(b) ==
    /\ pc' = [pc EXCEPT ![b] = "idle"]
    /\ rate' = [rate EXCEPT ![b] = 0]
    /\ now' = [now EXCEPT ![b] = 0]
    /\ ret' = [ret EXCEPT ![b] = "none"]
    /\ UNCHANGED <<shared, clock, key, window>>

(* PG_RETURN_BOOL on a path that took no lock. *)
Return(b) ==
    /\ pc[b] = "return"
    /\ Leave(b)
    /\ UNCHANGED lock

(* LWLockRelease and return. *)
Release(b) ==
    /\ pc[b] = "release"
    /\ lock' = NoBackend
    /\ Leave(b)

(* PostgreSQL's transaction abort drops every LWLock the backend holds. *)
AbortTransaction(b) ==
    /\ pc[b] = "abort"
    /\ lock' = NoBackend
    /\ Leave(b)

Tick ==
    /\ clock < MaxClock
    /\ clock' = clock + 1
    /\ UNCHANGED <<shared, lock, pc, locals, ret, window>>

(* A crash of any backend makes the postmaster kill them all and run       *)
(* tbf_shmem_startup again on fresh shared memory.                         *)
CrashRestart ==
    /\ tbf
    /\ tbf_hash' = {}
    /\ updated_at' = [k \in Keys |-> 0]
    /\ tokens' = [k \in Keys |-> 0]
    /\ lock' = NoBackend
    /\ pc' = [b \in Backends |-> "idle"]
    /\ rate' = [b \in Backends |-> 0]
    /\ now' = [b \in Backends |-> 0]
    /\ ret' = [b \in Backends |-> "none"]
    /\ granted' = [k \in Keys |-> 0]
    /\ opened' = [k \in Keys |-> 0]
    /\ lastPass' = [k \in Keys |-> 0]
    /\ UNCHANGED <<tbf, clock, key>>

(* History only: start observing an entry afresh, at any moment. *)
ObserveFrom(k) ==
    /\ granted[k] > 0
    /\ granted' = [granted EXCEPT ![k] = 0]
    /\ opened' = [opened EXCEPT ![k] = 0]
    /\ UNCHANGED <<shared, lock, clock, pc, locals, ret, lastPass>>

Locked(b) == NewEntry(b) \/ HashFull(b) \/ Pass(b) \/ Reject(b)

Next ==
    \/ \E b \in Backends :
          \/ \E r \in Rates \union {NullArg} : EarlyReturn(b, r)
          \/ \E k \in Keys, r \in PositiveRates : Enter(b, k, r)
          \/ Acquire(b)
          \/ Locked(b)
          \/ Return(b)
          \/ Release(b)
          \/ AbortTransaction(b)
    \/ Tick
    \/ CrashRestart
    \/ \E k \in Keys : ObserveFrom(k)

Spec == Init /\ [][Next]_vars

(* A backend inside the critical section keeps running: nothing in it      *)
(* waits.  No fairness is assumed of callers, of the clock or of the lock. *)
FairSpec ==
    Spec /\ \A b \in Backends :
               WF_vars(Locked(b) \/ Release(b) \/ AbortTransaction(b))

----------------------------------------------------------------------------
(* Type correctness of the shared table, the lock and the callers' locals. *)
TypeOK ==
    /\ tbf \in BOOLEAN
    /\ tbf_hash \subseteq Keys
    /\ updated_at \in [Keys -> Nat]
    /\ tokens \in [Keys -> 0 .. SizeMod - 1]
    /\ lock \in Backends \union {NoBackend}
    /\ clock \in Nat
    /\ pc \in [Backends -> {"idle", "wait", "return"} \union Holding]
    /\ key \in [Backends -> Keys]
    /\ rate \in [Backends -> Rates \union {0}]
    /\ now \in [Backends -> Nat]
    /\ ret \in [Backends -> {"none", "true", "false", "error"}]
    /\ granted \in [Keys -> Nat]
    /\ opened \in [Keys -> Nat]
    /\ lastPass \in [Keys -> Nat]

(* Only the holder of tbf->lock is between LWLockAcquire and the release,  *)
(* whichever of the normal path and the ERROR path it takes.               *)
LockHeldByHolder == \A b \in Backends : (lock = b) <=> (pc[b] \in Holding)

(* The counter of a bucket never exceeds what one of the rates in use      *)
(* allows after a call took its token, whatever the order in which the     *)
(* clock readings arrive and whatever the conversion to Size does          *)
(* (f_tbf_rate_check.c:203-217).                                           *)
TokensBounded ==
    \A k \in tbf_hash : \E r \in PositiveRates : tokens[k] < BucketMax(r)

(* The rate limit itself: from any pass of an entry on, the passes number  *)
(* at most the burst BucketMax(rate) plus what the rate allows since the   *)
(* clock reading of that first pass (f_tbf_rate_check.c:178-217).          *)
Conforms(n, r, elapsed) == n * Scale <= BucketMax(r) * Scale + r * elapsed

Conformance ==
    \A k \in Keys, r \in PositiveRates :
        granted[k] > 0 => Conforms(granted[k], r, clock - opened[k])

(* Callers that keep retrying cannot starve a bucket: a rejection never    *)
(* postpones the next token, so a call is only rejected when its own clock *)
(* reading is less than one token's time after that of the entry's last    *)
(* pass (updated_at is left alone at f_tbf_rate_check.c:218-220).          *)
NoStarvation ==
    \A b \in Backends :
        (pc[b] = "release" /\ ret[b] = "false")
            => rate[b] * (now[b] - lastPass[key[b]]) < Scale

(* A limiter of buckets, not of table entries: the passes of one           *)
(* (namespace_id, bucket_id), over all its entries, keep to the burst and  *)
(* the rate since the first of them ("actual tokens count within the       *)
(* bucket", f_tbf_rate_check.c:36).                                        *)
BucketConformance ==
    \A bk \in Buckets, r \in PositiveRates :
        LET live == {k \in {bk} \X Paddings : granted[k] > 0}
        IN  live # {} =>
              Conforms(MapThenSumSet(LAMBDA k : granted[k], live), r,
                       clock - Min({opened[k] : k \in live}))

(* Tokens come from time: a call leaves a known bucket fuller than it      *)
(* found it only if it moved the bucket's update time forward ("add tokens *)
(* using update time diff", f_tbf_rate_check.c:204).                       *)
AddedByTimeDiff ==
    [][\A k \in tbf_hash \intersect tbf_hash' :
          tokens'[k] > tokens[k] => updated_at'[k] > updated_at[k]]_vars

(* Whoever takes the lock gives it up again, on the ERROR path too. *)
LockReleased == \A b \in Backends : lock = b ~> lock # b
============================================================================

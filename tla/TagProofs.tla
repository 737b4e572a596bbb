----------------------------- MODULE TagProofs -----------------------------
(***************************************************************************)
(* Theorems about the tag functions, for arrays of any length over any     *)
(* tags: tag_compare returns what the sets of values call for, and         *)
(* tag_action the values its operation calls for, in the order of its      *)
(* arguments.  First the lemmas on arrays of distinct values.              *)
(***************************************************************************)
EXTENDS TagCompare, TagAction, FiniteSetTheorems, WellFoundedInduction, TLAPS

(* No value is stored twice. *)
Distinct(s) == \A j, k \in 1..Len(s) : s[j] = s[k] => j = k

(* The values among the first n elements. *)
ValuesUpTo(s, n) == {s[k] : k \in 1..n} \ {Null}

(* An element that is stored adds its value, if it is one, and nothing     *)
(* else, and never a second time.                                          *)
LEMMA StoredFacts ==
    ASSUME NEW s \in Seq(Tags), Distinct(s), NEW v \in Tags \union {Null}
    PROVE  /\ Stored(s, v) \in Seq(Tags)
           /\ Distinct(Stored(s, v))
           /\ Entries(Stored(s, v)) = Entries(s) \union ({v} \ {Null})
<1>1. CASE v = Null
  BY <1>1, Zenon DEF Stored
<1>2. CASE v # Null /\ set_contains_value(s, v)
  <2>1. v \in Entries(s)
    BY <1>2, Zenon DEF set_contains_value, Entries
  <2>. QED
    BY <1>2, <2>1, Zenon DEF Stored
<1>3. CASE v # Null /\ ~set_contains_value(s, v)
  <2>. DEFINE t == Append(s, v)
  <2>1. Stored(s, v) = t
    BY <1>3 DEF Stored
  <2>2. v \in Tags /\ t \in Seq(Tags) /\ Len(s) \in Nat /\ Len(t) = Len(s) + 1
    BY <1>3
  <2>3. /\ \A k \in 1..Len(s) : t[k] = s[k]
        /\ t[Len(s) + 1] = v
    BY <2>2
  <2>4. \A k \in 1..Len(s) : s[k] # v
    BY <1>3 DEF set_contains_value
  <2>. HIDE DEF t
  <2>5. 1..Len(t) = (1..Len(s)) \union {Len(s) + 1}
    BY <2>2
  <2>6. Distinct(t)
    <3>. SUFFICES ASSUME NEW j \in 1..Len(t), NEW k \in 1..Len(t), t[j] = t[k]
                  PROVE  j = k
      BY DEF Distinct
    <3>1. CASE j \in 1..Len(s) /\ k \in 1..Len(s)
      BY <3>1, <2>3 DEF Distinct
    <3>2. CASE j = Len(s) + 1 \/ k = Len(s) + 1
      BY <3>2, <2>3, <2>4, <2>5
    <3>. QED
      BY <3>1, <3>2, <2>5
  <2>7. Entries(t) = Entries(s) \union {v}
    <3>1. ASSUME NEW x \in Entries(t)
          PROVE  x \in Entries(s) \union {v}
      <4>1. PICK k \in 1..Len(t) : x = t[k]
        BY <3>1 DEF Entries
      <4>. QED
        BY <4>1, <2>3, <2>5 DEF Entries
    <3>2. ASSUME NEW x \in Entries(s)
          PROVE  x \in Entries(t)
      <4>1. PICK k \in 1..Len(s) : x = s[k]
        BY <3>2 DEF Entries
      <4>2. k \in 1..Len(t) /\ x = t[k]
        BY <4>1, <2>3, <2>5
      <4>. QED
        BY <4>2 DEF Entries
    <3>3. v \in Entries(t)
      <4>1. Len(s) + 1 \in 1..Len(t) /\ v = t[Len(s) + 1]
        BY <2>3, <2>5
      <4>. QED
        BY <4>1 DEF Entries
    <3>. QED
      BY <3>1, <3>2, <3>3, Zenon
  <2>. QED
    BY <1>3, <2>1, <2>2, <2>6, <2>7
<1>. QED
  BY <1>1, <1>2, <1>3

(* Membership of the C array is membership of the set of its entries. *)
LEMMA ContainsFacts ==
    ASSUME NEW s, NEW v
    PROVE  set_contains_value(s, v) <=> v \in Entries(s)
BY Zenon DEF set_contains_value, Entries

(* The values read so far, when one more element is read. *)
LEMMA PrefixFacts ==
    ASSUME NEW s \in SqlArrays
    PROVE  /\ ValuesUpTo(s, 0) = {}
           /\ ValuesUpTo(s, Len(s)) = Values(s)
           /\ \A n \in Nat : n < Len(s) =>
                /\ s[n + 1] \in Tags \union {Null}
                /\ ValuesUpTo(s, n + 1) = ValuesUpTo(s, n) \union ({s[n + 1]} \ {Null})
<1>1. ValuesUpTo(s, 0) = {}
  BY DEF ValuesUpTo
<1>2. ValuesUpTo(s, Len(s)) = Values(s)
  BY DEF ValuesUpTo, Values, Entries
<1>3. ASSUME NEW n \in Nat, n < Len(s)
      PROVE  /\ s[n + 1] \in Tags \union {Null}
             /\ ValuesUpTo(s, n + 1) = ValuesUpTo(s, n) \union ({s[n + 1]} \ {Null})
  <2>1. n + 1 \in 1..Len(s) /\ 1..(n + 1) = (1..n) \union {n + 1}
    BY <1>3 DEF SqlArrays
  <2>2. s[n + 1] \in Tags \union {Null}
    BY <2>1 DEF SqlArrays
  <2>3. {s[k] : k \in 1..(n + 1)} = {s[k] : k \in 1..n} \union {s[n + 1]}
    BY <2>1, Zenon
  <2>. QED
    BY <2>2, <2>3 DEF ValuesUpTo
<1>. QED
  BY <1>1, <1>2, <1>3

(* An array of distinct values is as long as its set of values is large. *)
LEMMA DistinctCardinality ==
    ASSUME NEW s \in Seq(Tags), Distinct(s)
    PROVE  /\ IsFiniteSet(Entries(s))
           /\ Cardinality(Entries(s)) = Len(s)
<1>1. Len(s) \in Nat /\ s \in [1..Len(s) -> Entries(s)]
  <2>1. Len(s) \in Nat /\ DOMAIN s = 1..Len(s) /\ s = [k \in 1..Len(s) |-> s[k]]
    BY SMT
  <2>2. \A k \in 1..Len(s) : s[k] \in Entries(s)
    BY Zenon DEF Entries
  <2>. QED
    BY <2>1, <2>2
<1>2. s \in Injection(1..Len(s), Entries(s))
  BY <1>1 DEF Distinct, Injection, IsInjective
<1>3. s \in Surjection(1..Len(s), Entries(s))
  <2>1. \A x \in Entries(s) : \E k \in 1..Len(s) : s[k] = x
    BY Zenon DEF Entries
  <2>. QED
    BY <1>1, <2>1 DEF Surjection
<1>4. ExistsBijection(1..Len(s), Entries(s))
  BY <1>2, <1>3 DEF ExistsBijection, Bijection
<1>. QED
  BY <1>1, <1>4, FS_CountingElements, FS_NatBijection

(* Of two arrays of distinct values, one with only values of the other:    *)
(* it is not longer, and as long only if it has them all.                  *)
LEMMA SubsetLength ==
    ASSUME NEW s \in Seq(Tags), NEW t \in Seq(Tags), Distinct(s), Distinct(t),
           Entries(t) \subseteq Entries(s)
    PROVE  /\ Len(t) <= Len(s)
           /\ Len(s) = Len(t) <=> Entries(s) = Entries(t)
<1>1. /\ IsFiniteSet(Entries(s)) /\ Cardinality(Entries(s)) = Len(s)
      /\ Cardinality(Entries(t)) = Len(t)
  BY DistinctCardinality
<1>2. /\ Cardinality(Entries(t)) <= Cardinality(Entries(s))
      /\ Cardinality(Entries(s)) = Cardinality(Entries(t)) => Entries(s) = Entries(t)
  BY <1>1, FS_Subset
<1>. QED
  BY <1>1, <1>2

----------------------------------------------------------------------------
(* tag_compare. *)
CompareTypeOK ==
    /\ args \in [a : Arrays \union {Null}, b : Arrays \union {Null}, mode : Modes]
    /\ pc \in {"tag_compare", "scan_a", "scan_b", "compare", "mutual", "compared", "error"}
    /\ it \in Nat /\ d \in Nat
    /\ aset \in Seq(Tags) /\ bset \in Seq(Tags)
    /\ a_has_null \in BOOLEAN
    /\ ret \in 0..3

(* A call in its loops has two arrays that are not empty, and a known mode. *)
CompareInLoops ==
    pc \in {"scan_a", "scan_b", "compare", "mutual"} =>
        /\ a # Null /\ b # Null /\ a # <<>> /\ b # <<>>
        /\ match_mode \in {MATCH_MODE_B_IN_A, MATCH_MODE_MUTUAL, MATCH_MODE_INTERSECTION}

CompareNothingStored ==
    pc = "tag_compare" => aset = <<>> /\ bset = <<>> /\ it = 0 /\ ~a_has_null

(* aset has the values read so far. *)
CompareAsetSoFar ==
    pc = "scan_a" =>
        /\ it <= Len(a) /\ bset = <<>>
        /\ Entries(aset) = ValuesUpTo(a, it)
        /\ a_has_null <=> \E k \in 1..it : a[k] = Null

AsetComplete ==
    pc \in {"scan_b", "compare", "mutual"} =>
        /\ Entries(aset) = Values(a)
        /\ a_has_null <=> Null \in Entries(a)

(* What ret is for a set of values of b that has been looked at. *)
RetFor(V) ==
    IF V \subseteq Values(a) THEN RET_MATCHED_WITHOUT_NULL
    ELSE IF a_has_null THEN RET_MATCHED_WITH_NULL ELSE RET_NOT_MATCHED

(* bset has the values read so far, and a missing one is among them only   *)
(* if it does not settle the outcome.                                      *)
CompareBsetSoFar ==
    pc = "scan_b" =>
        /\ it <= Len(b)
        /\ Entries(bset) = ValuesUpTo(b, it)
        /\ ret = RetFor(ValuesUpTo(b, it))
        /\ match_mode = MATCH_MODE_INTERSECTION =>
              ValuesUpTo(b, it) \intersect Values(a) = {}
        /\ match_mode = MATCH_MODE_B_IN_A => ret = RET_MATCHED_WITHOUT_NULL
        /\ match_mode = MATCH_MODE_MUTUAL => ret # RET_NOT_MATCHED

(* bset need not be complete, but it is where it is looked at again. *)
BsetComplete ==
    pc = "compare" =>
        /\ ret = RetFor(Values(b))
        /\ match_mode = MATCH_MODE_INTERSECTION => Values(b) \intersect Values(a) = {}
        /\ (\/ ret = RET_MATCHED_WITHOUT_NULL
            \/ match_mode = MATCH_MODE_MUTUAL /\ ret = RET_MATCHED_WITH_NULL) =>
              Entries(bset) = Values(b)

(* The entries of aset passed over by the last loop are in bset. *)
MutualSoFar ==
    pc = "mutual" =>
        /\ match_mode = MATCH_MODE_MUTUAL
        /\ d \in 1..Len(aset)
        /\ ret = Covered
        /\ ret # RET_NOT_MATCHED => Entries(bset) = Values(b)
        /\ \A k \in (d + 1)..Len(aset) : aset[k] \in Entries(bset)

CompareInv ==
    /\ CompareTypeOK
    /\ Distinct(aset) /\ Distinct(bset)
    /\ CompareInLoops /\ CompareNothingStored /\ CompareAsetSoFar /\ AsetComplete
    /\ CompareBsetSoFar /\ BsetComplete /\ MutualSoFar
    /\ VerdictMatchesSets

----------------------------------------------------------------------------
(* What is said of the arguments stays as long as they do. *)
LEMMA CompareSameArguments ==
    ASSUME args' = args
    PROVE  /\ a' = a /\ b' = b /\ match_mode' = match_mode
           /\ Covered' = Covered /\ Expected' = Expected
<1>1. a' = a /\ b' = b /\ match_mode' = match_mode
  BY DEF a, b, match_mode
<1>2. Covered' = Covered
  BY <1>1 DEF Covered, RET_NOT_MATCHED, RET_MATCHED_WITH_NULL,
              RET_MATCHED_WITHOUT_NULL, RET_MATCHED_EXACTLY
<1>. QED
  BY <1>1, <1>2 DEF Expected

(* Arrays are sequences of tags and NULLs. *)
LEMMA CompareArgumentArrays ==
    ASSUME CompareTypeOK
    PROVE  /\ a # Null => a \in SqlArrays
           /\ b # Null => b \in SqlArrays
BY ArraysAssumption DEF CompareTypeOK, a, b

LEMMA CompareInitInv == CompareInit => CompareInv
<1>. SUFFICES ASSUME CompareInit PROVE CompareInv
  OBVIOUS
<1>1. CompareTypeOK
  <2>1. a_has_null \in BOOLEAN
    BY Zenon DEF CompareInit
  <2>2. <<>> \in Seq(Tags)
    OBVIOUS
  <2>. QED
    BY <2>1, <2>2 DEF CompareInit, CompareTypeOK, RET_NOT_MATCHED
<1>2. Distinct(aset) /\ Distinct(bset)
  BY DEF CompareInit, Distinct
<1>. QED
  BY <1>1, <1>2 DEF CompareInit, CompareInv, CompareInLoops, CompareNothingStored,
      CompareAsetSoFar, AsetComplete,
                    CompareBsetSoFar, BsetComplete, MutualSoFar, VerdictMatchesSets

(* The steps before the loops. *)
LEMMA CompareEnterStep ==
    ASSUME CompareInv, NullArgument \/ UnknownMode \/ EnterCompare
    PROVE  CompareInv'
<1>1. args' = args /\ UNCHANGED <<it, aset, bset, a_has_null, d>> /\ pc = "tag_compare"
  BY DEF NullArgument, UnknownMode, EnterCompare
<1>2. /\ a' = a /\ b' = b /\ match_mode' = match_mode
      /\ Covered' = Covered /\ Expected' = Expected
  BY <1>1, CompareSameArguments
<1>3. /\ CompareTypeOK /\ Distinct(aset) /\ Distinct(bset)
      /\ aset = <<>> /\ bset = <<>> /\ it = 0 /\ ~a_has_null
  BY <1>1 DEF CompareInv, CompareNothingStored
<1>4. Distinct(aset)' /\ Distinct(bset)'
  BY <1>1, <1>3 DEF Distinct
<1>5. CASE NullArgument
  <2>1. pc' = "compared" /\ ret' = RET_NOT_MATCHED /\ Expected = RET_NOT_MATCHED
    BY <1>5 DEF NullArgument, ReturnCode, Expected
  <2>2. CompareTypeOK'
    BY <1>1, <1>3, <2>1 DEF CompareTypeOK, RET_NOT_MATCHED
  <2>. QED
    BY <1>2, <1>4, <2>1, <2>2
       DEF CompareInv, CompareInLoops, CompareNothingStored, CompareAsetSoFar, AsetComplete,
           CompareBsetSoFar, BsetComplete, MutualSoFar, VerdictMatchesSets
<1>6. CASE UnknownMode
  <2>1. pc' = "error" /\ ret' = ret
    BY <1>6 DEF UnknownMode
  <2>2. CompareTypeOK'
    BY <1>1, <1>3, <2>1 DEF CompareTypeOK
  <2>. QED
    BY <1>4, <2>1, <2>2
       DEF CompareInv, CompareInLoops, CompareNothingStored, CompareAsetSoFar, AsetComplete,
           CompareBsetSoFar, BsetComplete, MutualSoFar, VerdictMatchesSets
<1>7. CASE EnterCompare
  <2>1. a \in SqlArrays /\ b \in SqlArrays /\ a # Null /\ b # Null
    BY <1>3, <1>7, CompareArgumentArrays DEF EnterCompare
  <2>2. /\ Len(a) = 0 <=> a = <<>>
        /\ Len(b) = 0 <=> b = <<>>
        /\ Len(a) \in Nat /\ Len(b) \in Nat
    BY <2>1 DEF SqlArrays
  <2>3. CASE Len(a) = 0 \/ Len(b) = 0
    <3>1. pc' = "compared" /\ ret' = Expected
      BY <1>7, <2>1, <2>2, <2>3 DEF EnterCompare, ReturnCode, Expected
    <3>2. CompareTypeOK'
      <4>1. ret' \in 0..3
        BY <1>7, <2>3 DEF EnterCompare, ReturnCode, RET_MATCHED_EXACTLY, RET_NOT_MATCHED
      <4>. QED
        BY <1>1, <1>3, <3>1, <4>1 DEF CompareTypeOK
    <3>. QED
      BY <1>2, <1>4, <3>1, <3>2
         DEF CompareInv, CompareInLoops, CompareNothingStored, CompareAsetSoFar,
             AsetComplete,
             CompareBsetSoFar, BsetComplete, MutualSoFar, VerdictMatchesSets
  <2>4. CASE Len(a) # 0 /\ Len(b) # 0
    <3>1. pc' = "scan_a" /\ ret' = ret
      BY <1>7, <2>4 DEF EnterCompare
    <3>2. CompareTypeOK'
      BY <1>1, <1>3, <3>1 DEF CompareTypeOK
    <3>3. CompareInLoops'
      BY <1>2, <1>7, <2>1, <2>2, <2>4 DEF CompareInLoops, EnterCompare
    <3>4. CompareAsetSoFar'
      <4>1. Entries(aset) = {}
        BY <1>3 DEF Entries
      <4>2. it' = 0 /\ bset' = <<>> /\ aset' = aset /\ a' = a /\ ~a_has_null'
        BY <1>1, <1>2, <1>3
      <4>3. ValuesUpTo(a, 0) = {} /\ ~(\E k \in 1..0 : a[k] = Null)
        BY <2>1, PrefixFacts
      <4>4. it' <= Len(a')
        BY <4>2, <2>2
      <4>5. Entries(aset') = ValuesUpTo(a', it') /\ ~(\E k \in 1..it' : a'[k] = Null)
        BY <4>1, <4>2, <4>3, Zenon
      <4>. QED
        BY <4>2, <4>4, <4>5 DEF CompareAsetSoFar
    <3>. QED
      BY <1>4, <3>1, <3>2, <3>3, <3>4
         DEF CompareInv, CompareNothingStored, AsetComplete,
             CompareBsetSoFar, BsetComplete, MutualSoFar, VerdictMatchesSets
  <2>. QED
    BY <2>3, <2>4
<1>. QED
  BY <1>5, <1>6, <1>7

(* The first loop. *)
LEMMA CompareScanAStep ==
    ASSUME CompareInv, ScanA \/ ScanADone
    PROVE  CompareInv'
<1>1. args' = args /\ UNCHANGED <<bset, d>> /\ pc = "scan_a"
  BY DEF ScanA, ScanADone
<1>2. a' = a /\ b' = b /\ match_mode' = match_mode
  BY <1>1, CompareSameArguments
<1>3. /\ CompareTypeOK /\ Distinct(aset) /\ Distinct(bset) /\ CompareInLoops
      /\ a # Null /\ b # Null
      /\ it <= Len(a) /\ bset = <<>>
      /\ Entries(aset) = ValuesUpTo(a, it)
      /\ a_has_null <=> \E k \in 1..it : a[k] = Null
  BY <1>1 DEF CompareInv, CompareInLoops, CompareAsetSoFar
<1>4. a \in SqlArrays /\ b \in SqlArrays /\ Len(a) \in Nat /\ Len(b) \in Nat /\ it \in Nat
  <2>1. a \in SqlArrays /\ b \in SqlArrays
    BY <1>3, CompareArgumentArrays
  <2>. QED
    BY <2>1, <1>3 DEF SqlArrays, CompareTypeOK
<1>5. Distinct(bset)'
  BY <1>1, <1>3 DEF Distinct
<1>6. CASE ScanA
  <2>1. /\ it' = it + 1 /\ it < Len(a) /\ pc' = "scan_a" /\ ret' = ret
        /\ aset' = Stored(aset, a[it + 1])
        /\ a_has_null' = (a_has_null \/ a[it + 1] = Null)
    BY <1>1, <1>6 DEF ScanA
  <2>2. /\ a[it + 1] \in Tags \union {Null}
        /\ ValuesUpTo(a, it + 1) = ValuesUpTo(a, it) \union ({a[it + 1]} \ {Null})
    BY <1>4, <2>1, PrefixFacts
  <2>3. /\ aset' \in Seq(Tags) /\ Distinct(aset')
        /\ Entries(aset') = Entries(aset) \union ({a[it + 1]} \ {Null})
    BY <1>3, <2>1, <2>2, StoredFacts DEF CompareTypeOK
  <2>4. a_has_null' <=> \E k \in 1..(it + 1) : a[k] = Null
    <3>1. 1..(it + 1) = (1..it) \union {it + 1}
      BY <1>4
    <3>. QED
      BY <1>3, <2>1, <3>1, Zenon
  <2>5. CompareAsetSoFar'
    BY <1>1, <1>2, <1>3, <1>4, <2>1, <2>2, <2>3, <2>4 DEF CompareAsetSoFar
  <2>6. CompareTypeOK'
    <3>1. a_has_null' \in BOOLEAN
      BY <2>1
    <3>. QED
      BY <1>1, <1>3, <2>1, <2>3, <3>1 DEF CompareTypeOK
  <2>7. CompareInLoops'
    BY <1>1, <1>2, <1>3, <2>1 DEF CompareInLoops
  <2>. QED
    BY <1>5, <2>1, <2>3, <2>5, <2>6, <2>7
       DEF CompareInv, CompareNothingStored, AsetComplete,
           CompareBsetSoFar, BsetComplete, MutualSoFar, VerdictMatchesSets
<1>7. CASE ScanADone
  <2>1. /\ it' = 0 /\ it = Len(a) /\ pc' = "scan_b" /\ ret' = RET_MATCHED_WITHOUT_NULL
        /\ aset' = aset /\ a_has_null' = a_has_null
    BY <1>1, <1>7 DEF ScanADone
  <2>2. Entries(aset) = Values(a)
    BY <1>3, <1>4, <2>1, PrefixFacts
  <2>3. a_has_null <=> Null \in Entries(a)
    BY <1>3, <2>1, Zenon DEF Entries
  <2>4. AsetComplete'
    BY <1>2, <2>1, <2>2, <2>3 DEF AsetComplete
  <2>5. CompareBsetSoFar'
    <3>1. ValuesUpTo(b, 0) = {} /\ Entries(bset) = {}
      BY <1>3, <1>4, PrefixFacts DEF Entries
    <3>2. /\ ValuesUpTo(b', it') = {} /\ Entries(bset') = {} /\ it' <= Len(b')
          /\ RetFor({})' = RET_MATCHED_WITHOUT_NULL
      BY <1>1, <1>2, <1>4, <2>1, <3>1 DEF RetFor
    <3>. QED
      BY <2>1, <3>2 DEF CompareBsetSoFar, RetFor, RET_MATCHED_WITHOUT_NULL, RET_NOT_MATCHED
  <2>6. CompareTypeOK'
    BY <1>1, <1>3, <2>1 DEF CompareTypeOK, RET_MATCHED_WITHOUT_NULL
  <2>7. CompareInLoops'
    BY <1>1, <1>2, <1>3, <2>1 DEF CompareInLoops
  <2>8. Distinct(aset')
    BY <1>3, <2>1 DEF Distinct
  <2>. QED
    BY <1>5, <2>1, <2>4, <2>5, <2>6, <2>7, <2>8
       DEF CompareInv, CompareNothingStored, CompareAsetSoFar, BsetComplete, MutualSoFar,
           VerdictMatchesSets
<1>. QED
  BY <1>6, <1>7

(* The second loop. *)
LEMMA CompareScanBStep ==
    ASSUME CompareInv, ScanBFound \/ ScanBMissing \/ ScanBDone
    PROVE  CompareInv'
<1>1. args' = args /\ UNCHANGED <<aset, a_has_null, d>> /\ pc = "scan_b"
  BY DEF ScanBFound, ScanBMissing, ScanBDone
<1>2. /\ a' = a /\ b' = b /\ match_mode' = match_mode
      /\ Covered' = Covered /\ Expected' = Expected
  BY <1>1, CompareSameArguments
<1>3. /\ CompareTypeOK /\ Distinct(aset) /\ Distinct(bset) /\ CompareInLoops
      /\ a # Null /\ b # Null /\ a # <<>> /\ b # <<>>
      /\ match_mode \in {MATCH_MODE_B_IN_A, MATCH_MODE_MUTUAL, MATCH_MODE_INTERSECTION}
      /\ Entries(aset) = Values(a) /\ (a_has_null <=> Null \in Entries(a))
      /\ it <= Len(b)
      /\ Entries(bset) = ValuesUpTo(b, it)
      /\ ret = RetFor(ValuesUpTo(b, it))
      /\ match_mode = MATCH_MODE_INTERSECTION =>
            ValuesUpTo(b, it) \intersect Values(a) = {}
      /\ match_mode = MATCH_MODE_B_IN_A => ret = RET_MATCHED_WITHOUT_NULL
      /\ match_mode = MATCH_MODE_MUTUAL => ret # RET_NOT_MATCHED
  BY <1>1 DEF CompareInv, CompareInLoops, AsetComplete, CompareBsetSoFar
<1>4. b \in SqlArrays /\ Len(b) \in Nat /\ it \in Nat
  <2>1. b \in SqlArrays
    BY <1>3, CompareArgumentArrays
  <2>. QED
    BY <2>1, <1>3 DEF SqlArrays, CompareTypeOK
<1>5. /\ Distinct(aset') /\ aset' \in Seq(Tags) /\ d' \in Nat /\ a_has_null' \in BOOLEAN
      /\ args' \in [a : Arrays \union {Null}, b : Arrays \union {Null}, mode : Modes]
  BY <1>1, <1>3 DEF CompareTypeOK
<1>6. Entries(aset') = Values(a') /\ (a_has_null' <=> Null \in Entries(a'))
  BY <1>1, <1>2, <1>3
<1>7. \A V : RetFor(V)' = RetFor(V) /\ RetFor(V) \in 0..3
  BY <1>1, <1>2 DEF RetFor, RET_MATCHED_WITHOUT_NULL, RET_MATCHED_WITH_NULL, RET_NOT_MATCHED
<1>8. ASSUME it < Len(b)
      PROVE  /\ b[it + 1] \in Tags \union {Null} /\ it + 1 <= Len(b) /\ it + 1 \in Nat
             /\ ValuesUpTo(b, it + 1) = ValuesUpTo(b, it) \union ({b[it + 1]} \ {Null})
             /\ Stored(bset, b[it + 1]) \in Seq(Tags)
             /\ Distinct(Stored(bset, b[it + 1]))
             /\ Entries(Stored(bset, b[it + 1])) = ValuesUpTo(b, it + 1)
             /\ ValuesUpTo(b, it + 1) \subseteq Values(b)
  <2>1. /\ b[it + 1] \in Tags \union {Null}
        /\ ValuesUpTo(b, it + 1) = ValuesUpTo(b, it) \union ({b[it + 1]} \ {Null})
    BY <1>4, <1>8, PrefixFacts
  <2>2. /\ Stored(bset, b[it + 1]) \in Seq(Tags)
        /\ Distinct(Stored(bset, b[it + 1]))
        /\ Entries(Stored(bset, b[it + 1])) = Entries(bset) \union ({b[it + 1]} \ {Null})
    BY <1>3, <2>1, StoredFacts DEF CompareTypeOK
  <2>3. it + 1 <= Len(b) /\ it + 1 \in Nat /\ 1..(it + 1) \subseteq 1..Len(b)
    BY <1>4, <1>8
  <2>4. ValuesUpTo(b, it + 1) \subseteq Values(b)
    BY <2>3, Zenon DEF ValuesUpTo, Values, Entries
  <2>. QED
    BY <1>3, <2>1, <2>2, <2>3, <2>4
<1>9. CASE ScanBFound
  <2>. DEFINE v == b[it + 1]
  <2>1. it < Len(b) /\ it' = it + 1 /\ (v = Null \/ set_contains_value(aset, v))
    BY <1>9 DEF ScanBFound
  <2>2. v = Null \/ v \in Values(a)
    BY <1>3, <2>1, ContainsFacts
  <2>3. CASE v # Null /\ match_mode = MATCH_MODE_INTERSECTION
    <3>1. pc' = "compared" /\ ret' = RET_MATCHED_EXACTLY /\ bset' = bset
      BY <1>9, <2>3 DEF ScanBFound, ReturnCode
    <3>2. v \in Values(a) /\ v \in Values(b)
      BY <2>1, <2>2, <2>3, <1>8
    <3>3. Expected = RET_MATCHED_EXACTLY
      BY <1>3, <2>3, <3>2
         DEF Expected, MATCH_MODE_INTERSECTION, MATCH_MODE_MUTUAL
    <3>4. CompareTypeOK'
      BY <1>3, <1>5, <1>4, <2>1, <3>1 DEF CompareTypeOK, RET_MATCHED_EXACTLY
    <3>. QED
      BY <1>2, <1>3, <1>5, <3>1, <3>3, <3>4
         DEF CompareInv, CompareInLoops, CompareNothingStored, CompareAsetSoFar,
             AsetComplete,
             CompareBsetSoFar, BsetComplete, MutualSoFar, VerdictMatchesSets
  <2>4. CASE v = Null \/ match_mode # MATCH_MODE_INTERSECTION
    <3>1. pc' = "scan_b" /\ ret' = ret /\ bset' = Stored(bset, v)
      BY <1>1, <1>9, <2>4 DEF ScanBFound
    <3>2. RetFor(ValuesUpTo(b, it + 1)) = RetFor(ValuesUpTo(b, it))
      BY <1>8, <2>1, <2>2 DEF RetFor
    <3>3. match_mode = MATCH_MODE_INTERSECTION =>
             ValuesUpTo(b, it + 1) \intersect Values(a) = {}
      BY <1>3, <1>8, <2>1, <2>4
    <3>4. Entries(bset') = ValuesUpTo(b, it + 1)
      BY <1>8, <2>1, <3>1
    <3>5. CompareBsetSoFar'
      BY <1>2, <1>3, <1>7, <1>8, <2>1, <3>1, <3>2, <3>3, <3>4 DEF CompareBsetSoFar
    <3>6. CompareTypeOK'
      BY <1>3, <1>5, <1>8, <2>1, <3>1 DEF CompareTypeOK
    <3>7. CompareInLoops' /\ AsetComplete' /\ Distinct(bset')
      BY <1>2, <1>3, <1>6, <1>8, <2>1, <3>1 DEF CompareInLoops, AsetComplete
    <3>. QED
      BY <1>5, <3>1, <3>5, <3>6, <3>7
         DEF CompareInv, CompareNothingStored, CompareAsetSoFar, BsetComplete,
             MutualSoFar, VerdictMatchesSets
  <2>. QED
    BY <2>3, <2>4
<1>10. CASE ScanBMissing
  <2>. DEFINE v == b[it + 1]
              leave == IF a_has_null THEN match_mode = MATCH_MODE_B_IN_A
                       ELSE match_mode # MATCH_MODE_INTERSECTION
  <2>1. /\ it < Len(b) /\ it' = it + 1 /\ v # Null /\ ~set_contains_value(aset, v)
        /\ ret' = IF a_has_null THEN RET_MATCHED_WITH_NULL ELSE RET_NOT_MATCHED
    BY <1>10 DEF ScanBMissing
  <2>2. v \notin Values(a) /\ v \in ValuesUpTo(b, it + 1) /\ v \in Values(b)
    BY <1>3, <1>8, <2>1, ContainsFacts
  <2>3. ret' = RetFor(ValuesUpTo(b, it + 1)) /\ ret' = RetFor(Values(b))
    BY <2>1, <2>2 DEF RetFor
  <2>4. match_mode = MATCH_MODE_INTERSECTION =>
           ValuesUpTo(b, it + 1) \intersect Values(a) = {}
    BY <1>3, <1>8, <2>1, <2>2
  <2>5. CASE leave
    <3>1. pc' = "compare" /\ bset' = bset
      BY <1>10, <2>5 DEF ScanBMissing
    <3>2. match_mode # MATCH_MODE_INTERSECTION
      BY <2>5 DEF MATCH_MODE_B_IN_A, MATCH_MODE_INTERSECTION
    <3>3. /\ ret' # RET_MATCHED_WITHOUT_NULL
          /\ ~(match_mode = MATCH_MODE_MUTUAL /\ ret' = RET_MATCHED_WITH_NULL)
      BY <2>1, <2>5 DEF RET_MATCHED_WITH_NULL, RET_MATCHED_WITHOUT_NULL, RET_NOT_MATCHED,
                        MATCH_MODE_B_IN_A, MATCH_MODE_MUTUAL
    <3>4. BsetComplete'
      BY <1>2, <1>7, <2>3, <3>2, <3>3 DEF BsetComplete
    <3>5. CompareTypeOK'
      BY <1>3, <1>5, <1>7, <1>8, <2>1, <2>3, <3>1 DEF CompareTypeOK
    <3>6. CompareInLoops' /\ AsetComplete'
      BY <1>2, <1>3, <1>6, <3>1 DEF CompareInLoops, AsetComplete
    <3>. QED
      BY <1>3, <1>5, <3>1, <3>4, <3>5, <3>6
         DEF CompareInv, CompareNothingStored, CompareAsetSoFar, CompareBsetSoFar,
             MutualSoFar, VerdictMatchesSets
  <2>6. CASE ~leave
    <3>1. pc' = "scan_b" /\ bset' = Stored(bset, v)
      BY <1>1, <1>10, <2>6 DEF ScanBMissing
    <3>2. /\ match_mode # MATCH_MODE_B_IN_A
          /\ match_mode = MATCH_MODE_MUTUAL => ret' # RET_NOT_MATCHED
      BY <1>3, <2>1, <2>6 DEF RET_MATCHED_WITH_NULL, RET_NOT_MATCHED,
              MATCH_MODE_B_IN_A, MATCH_MODE_MUTUAL, MATCH_MODE_INTERSECTION
    <3>3. Entries(bset') = ValuesUpTo(b, it + 1)
      BY <1>8, <2>1, <3>1
    <3>4. CompareBsetSoFar'
      BY <1>2, <1>7, <1>8, <2>1, <2>3, <2>4, <3>2, <3>3 DEF CompareBsetSoFar
    <3>5. CompareTypeOK'
      BY <1>3, <1>5, <1>7, <1>8, <2>1, <2>3, <3>1 DEF CompareTypeOK
    <3>6. CompareInLoops' /\ AsetComplete' /\ Distinct(bset')
      BY <1>2, <1>3, <1>6, <1>8, <2>1, <3>1 DEF CompareInLoops, AsetComplete
    <3>. QED
      BY <1>5, <3>1, <3>4, <3>5, <3>6
         DEF CompareInv, CompareNothingStored, CompareAsetSoFar, BsetComplete,
             MutualSoFar, VerdictMatchesSets
  <2>. QED
    BY <2>5, <2>6
<1>11. CASE ScanBDone
  <2>1. pc' = "compare" /\ it = Len(b) /\ it' = it /\ bset' = bset /\ ret' = ret
    BY <1>11 DEF ScanBDone
  <2>2. ValuesUpTo(b, it) = Values(b)
    BY <1>4, <2>1, PrefixFacts
  <2>3. BsetComplete'
    BY <1>2, <1>3, <1>7, <2>1, <2>2 DEF BsetComplete
  <2>4. CompareTypeOK'
    BY <1>3, <1>5, <2>1 DEF CompareTypeOK
  <2>5. CompareInLoops' /\ AsetComplete'
    BY <1>2, <1>3, <1>6, <2>1 DEF CompareInLoops, AsetComplete
  <2>. QED
    BY <1>3, <1>5, <2>1, <2>3, <2>4, <2>5
       DEF CompareInv, CompareNothingStored, CompareAsetSoFar, CompareBsetSoFar,
           MutualSoFar, VerdictMatchesSets
<1>. QED
  BY <1>9, <1>10, <1>11

(* The comparison of the lengths. *)
LEMMA CompareStep ==
    ASSUME CompareInv, CompareLengths
    PROVE  CompareInv'
<1>1. args' = args /\ UNCHANGED <<it, aset, bset, a_has_null>> /\ pc = "compare"
  BY DEF CompareLengths
<1>2. /\ a' = a /\ b' = b /\ match_mode' = match_mode
      /\ Covered' = Covered /\ Expected' = Expected
  BY <1>1, CompareSameArguments
<1>3. /\ CompareTypeOK /\ Distinct(aset) /\ Distinct(bset)
      /\ a # Null /\ b # Null /\ a # <<>> /\ b # <<>>
      /\ match_mode \in {MATCH_MODE_B_IN_A, MATCH_MODE_MUTUAL, MATCH_MODE_INTERSECTION}
      /\ Entries(aset) = Values(a) /\ (a_has_null <=> Null \in Entries(a))
      /\ ret = RetFor(Values(b))
      /\ match_mode = MATCH_MODE_INTERSECTION => Values(b) \intersect Values(a) = {}
      /\ (\/ ret = RET_MATCHED_WITHOUT_NULL
          \/ match_mode = MATCH_MODE_MUTUAL /\ ret = RET_MATCHED_WITH_NULL) =>
            Entries(bset) = Values(b)
  BY <1>1 DEF CompareInv, CompareInLoops, AsetComplete, BsetComplete
<1>4. ret' = IF ret = RET_MATCHED_WITHOUT_NULL /\ Len(aset) = Len(bset)
             THEN RET_MATCHED_EXACTLY ELSE ret
  BY DEF CompareLengths
<1>5. ret' = Covered
  <2>1. CASE ret = RET_MATCHED_WITHOUT_NULL
    <3>1. Values(b) \subseteq Values(a) /\ Entries(bset) = Values(b)
      BY <1>3, <2>1 DEF RetFor, RET_MATCHED_WITHOUT_NULL, RET_MATCHED_WITH_NULL,
                        RET_NOT_MATCHED
    <3>2. Len(aset) = Len(bset) <=> Values(a) = Values(b)
      BY <1>3, <3>1, SubsetLength DEF CompareTypeOK
    <3>. QED
      BY <1>4, <2>1, <3>1, <3>2 DEF Covered
  <2>2. CASE ret # RET_MATCHED_WITHOUT_NULL
    BY <1>3, <1>4, <2>2 DEF RetFor, Covered
  <2>. QED
    BY <2>1, <2>2
<1>6. /\ Distinct(aset') /\ Distinct(bset')
      /\ Entries(aset') = Values(a') /\ (a_has_null' <=> Null \in Entries(a'))
  BY <1>1, <1>2, <1>3
<1>7. Covered \in 0..3
  BY DEF Covered, RET_NOT_MATCHED, RET_MATCHED_WITH_NULL,
         RET_MATCHED_WITHOUT_NULL, RET_MATCHED_EXACTLY
<1>8. Len(aset) \in Nat
  BY <1>3 DEF CompareTypeOK
<1>9. CASE match_mode = MATCH_MODE_MUTUAL /\ Len(aset) > 0
  <2>1. pc' = "mutual" /\ d' = Len(aset)
    BY <1>9 DEF CompareLengths
  <2>2. ret' # RET_NOT_MATCHED => Entries(bset') = Values(b')
    BY <1>1, <1>2, <1>3, <1>4, <1>9
       DEF RetFor, RET_NOT_MATCHED, RET_MATCHED_WITH_NULL
  <2>3. d' \in 1..Len(aset') /\ (d' + 1)..Len(aset') = {}
    BY <1>1, <1>8, <1>9, <2>1
  <2>4. MutualSoFar'
    BY <1>2, <1>5, <1>9, <2>2, <2>3 DEF MutualSoFar
  <2>5. CompareTypeOK'
    BY <1>1, <1>3, <1>5, <1>7, <1>8, <2>1 DEF CompareTypeOK
  <2>. QED
    BY <1>2, <1>3, <1>6, <2>1, <2>4, <2>5
       DEF CompareInv, CompareInLoops, CompareNothingStored, CompareAsetSoFar, AsetComplete,
           CompareBsetSoFar, BsetComplete, VerdictMatchesSets
<1>10. CASE ~(match_mode = MATCH_MODE_MUTUAL /\ Len(aset) > 0)
  <2>1. pc' = "compared" /\ d' = d
    BY <1>10 DEF CompareLengths
  <2>2. match_mode = MATCH_MODE_MUTUAL => Values(a) = {}
    <3>1. Len(aset) = 0 => Entries(aset) = {}
      BY DEF Entries
    <3>. QED
      BY <1>3, <1>8, <1>10, <3>1
  <2>3. Expected = Covered
    BY <1>3, <2>2 DEF Expected
  <2>4. CompareTypeOK'
    BY <1>1, <1>3, <1>5, <1>7, <2>1 DEF CompareTypeOK
  <2>. QED
    BY <1>2, <1>5, <1>6, <2>1, <2>3, <2>4
       DEF CompareInv, CompareInLoops, CompareNothingStored, CompareAsetSoFar, AsetComplete,
           CompareBsetSoFar, BsetComplete, MutualSoFar, VerdictMatchesSets
<1>. QED
  BY <1>9, <1>10

(* The last loop. *)
LEMMA MutualStep ==
    ASSUME CompareInv, Mutual
    PROVE  CompareInv'
<1>1. args' = args /\ UNCHANGED <<it, aset, bset, a_has_null>> /\ pc = "mutual"
  BY DEF Mutual
<1>2. /\ a' = a /\ b' = b /\ match_mode' = match_mode
      /\ Covered' = Covered /\ Expected' = Expected
  BY <1>1, CompareSameArguments
<1>3. /\ CompareTypeOK /\ Distinct(aset) /\ Distinct(bset)
      /\ a # Null /\ b # Null /\ a # <<>> /\ b # <<>>
      /\ match_mode = MATCH_MODE_MUTUAL
      /\ Entries(aset) = Values(a) /\ (a_has_null <=> Null \in Entries(a))
      /\ d \in 1..Len(aset) /\ ret = Covered
      /\ ret # RET_NOT_MATCHED => Entries(bset) = Values(b)
      /\ \A k \in (d + 1)..Len(aset) : aset[k] \in Entries(bset)
  BY <1>1 DEF CompareInv, CompareInLoops, AsetComplete, MutualSoFar
<1>4. /\ Distinct(aset') /\ Distinct(bset')
      /\ Entries(aset') = Values(a') /\ (a_has_null' <=> Null \in Entries(a'))
  BY <1>1, <1>2, <1>3
<1>5. Len(aset) \in Nat /\ d \in Nat
  BY <1>3 DEF CompareTypeOK
<1>6. Expected = IF Values(a) \subseteq Values(b) THEN Covered ELSE RET_NOT_MATCHED
  BY <1>3 DEF Expected, MATCH_MODE_MUTUAL, MATCH_MODE_INTERSECTION
<1>7. CASE set_contains_value(bset, aset[d])
  <2>1. d' = d - 1 /\ ret' = ret /\ pc' = IF d > 1 THEN "mutual" ELSE "compared"
    BY <1>7 DEF Mutual
  <2>2. \A k \in d..Len(aset) : aset[k] \in Entries(bset)
    <3>1. aset[d] \in Entries(bset)
      BY <1>7, ContainsFacts
    <3>2. d..Len(aset) = {d} \union ((d + 1)..Len(aset))
      BY <1>3, <1>5
    <3>. QED
      BY <1>3, <3>1, <3>2
  <2>3. CompareTypeOK'
    <3>1. d' \in Nat
      BY <1>3, <1>5, <2>1
    <3>. QED
      BY <1>1, <1>3, <2>1, <3>1 DEF CompareTypeOK
  <2>4. CASE d > 1
    <3>1. pc' = "mutual"
      BY <2>1, <2>4
    <3>2. d' \in 1..Len(aset') /\ (d' + 1)..Len(aset') = d..Len(aset)
      BY <1>1, <1>3, <1>5, <2>1, <2>4
    <3>3. \A k \in (d' + 1)..Len(aset') : aset'[k] \in Entries(bset')
      BY <1>1, <2>2, <3>2, Zenon
    <3>4. MutualSoFar'
      BY <1>1, <1>2, <1>3, <2>1, <3>2, <3>3 DEF MutualSoFar
    <3>5. CompareInLoops'
      BY <1>2, <1>3 DEF CompareInLoops
    <3>. QED
      BY <1>4, <2>3, <3>1, <3>4, <3>5
         DEF CompareInv, CompareNothingStored, CompareAsetSoFar, AsetComplete,
             CompareBsetSoFar, BsetComplete, VerdictMatchesSets
  <2>5. CASE d = 1
    <3>1. pc' = "compared"
      BY <2>1, <2>5
    <3>2. Values(a) \subseteq Entries(bset)
      <4>1. \A k \in 1..Len(aset) : aset[k] \in Entries(bset)
        BY <2>2, <2>5
      <4>2. Entries(aset) \subseteq Entries(bset)
        BY <4>1, Zenon DEF Entries
      <4>. QED
        BY <1>3, <4>2
    <3>3. ret' = Expected
      BY <1>3, <1>6, <2>1, <3>2
    <3>. QED
      BY <1>2, <1>4, <2>3, <3>1, <3>3
         DEF CompareInv, CompareInLoops, CompareNothingStored, CompareAsetSoFar,
             AsetComplete,
             CompareBsetSoFar, BsetComplete, MutualSoFar, VerdictMatchesSets
  <2>. QED
    BY <1>3, <1>5, <2>4, <2>5
<1>8. CASE ~set_contains_value(bset, aset[d])
  <2>1. pc' = "compared" /\ ret' = RET_NOT_MATCHED /\ d' = d
    BY <1>8 DEF Mutual, ReturnCode
  <2>2. aset[d] \notin Entries(bset) /\ aset[d] \in Values(a)
    <3>1. aset[d] \in Entries(aset)
      BY <1>3, Zenon DEF Entries
    <3>. QED
      BY <1>3, <1>8, <3>1, ContainsFacts
  <2>3. Expected = RET_NOT_MATCHED
    BY <1>3, <1>6, <2>2
  <2>4. CompareTypeOK'
    BY <1>1, <1>3, <2>1 DEF CompareTypeOK, RET_NOT_MATCHED
  <2>. QED
    BY <1>2, <1>4, <2>1, <2>3, <2>4
       DEF CompareInv, CompareInLoops, CompareNothingStored, CompareAsetSoFar, AsetComplete,
           CompareBsetSoFar, BsetComplete, MutualSoFar, VerdictMatchesSets
<1>. QED
  BY <1>7, <1>8

(* Nothing changes. *)
LEMMA CompareStutterStep ==
    ASSUME CompareInv, UNCHANGED compareVars
    PROVE  CompareInv'
<1>1. UNCHANGED <<args, pc, it, aset, bset, a_has_null, d, ret>>
  BY DEF compareVars
<1>2. /\ a' = a /\ b' = b /\ match_mode' = match_mode
      /\ Covered' = Covered /\ Expected' = Expected
  BY <1>1, CompareSameArguments
<1>3. CompareTypeOK' /\ Distinct(aset') /\ Distinct(bset')
  BY <1>1 DEF CompareInv, CompareTypeOK
<1>4. \A V : RetFor(V)' = RetFor(V)
  BY <1>1, <1>2 DEF RetFor
<1>5. CompareInLoops' /\ CompareNothingStored' /\ CompareAsetSoFar' /\ AsetComplete'
  BY <1>1, <1>2 DEF CompareInv, CompareInLoops, CompareNothingStored, CompareAsetSoFar,
      AsetComplete
<1>6. CompareBsetSoFar' /\ BsetComplete'
  BY <1>1, <1>2, <1>4 DEF CompareInv, CompareBsetSoFar, BsetComplete
<1>7. MutualSoFar' /\ VerdictMatchesSets'
  BY <1>1, <1>2 DEF CompareInv, MutualSoFar, VerdictMatchesSets
<1>. QED
  BY <1>3, <1>5, <1>6, <1>7 DEF CompareInv

(* For arrays of any length, over any tags, tag_compare returns what the   *)
(* two sets of values, a NULL in a and the mode call for; leaving a loop   *)
(* early never changes the result.                                         *)
THEOREM VerdictIsRight == CompareSpec => []VerdictMatchesSets
<1>1. CompareInit => CompareInv
  BY CompareInitInv
<1>2. CompareInv /\ [CompareNext]_compareVars => CompareInv'
  BY CompareEnterStep, CompareScanAStep, CompareScanBStep, CompareStep, MutualStep,
      CompareStutterStep DEF CompareNext
<1>3. CompareInv => VerdictMatchesSets
  BY DEF CompareInv
<1>. QED
  BY <1>1, <1>2, <1>3, PTL DEF CompareSpec

----------------------------------------------------------------------------
(* tag_action. *)
ActionTypeOK ==
    /\ args \in [op : Ops, a : Arrays \union {Null}, b : Arrays \union {Null}]
    /\ pc \in {"tag_action", "fill_a", "fill_b", "remove", "append", "intersect",
               "overrun", "returned", "error"}
    /\ it \in Nat
    /\ aset \in Seq(Tags) /\ bset \in Seq(Tags) /\ rset \in Seq(Tags)

AllDistinct == Distinct(aset) /\ Distinct(bset) /\ Distinct(rset)

(* A call in its loops has two arrays. *)
ActionInLoops ==
    pc \in {"fill_a", "fill_b", "remove", "append", "intersect"} => a # Null /\ b # Null

(* The loops in the order of the code: what each set has so far. *)
ActionNothingStored == pc = "tag_action" => aset = <<>> /\ bset = <<>> /\ rset = <<>> /\ it = 0

ActionAsetSoFar ==
    pc = "fill_a" =>
        /\ op \in {OP_REMOVE, OP_APPEND, OP_INTERSECTION}
        /\ it <= Len(a) /\ bset = <<>> /\ rset = <<>>
        /\ Entries(aset) = ValuesUpTo(a, it)

ActionBsetSoFar ==
    pc = "fill_b" =>
        /\ op = OP_REMOVE
        /\ it <= Len(b) /\ rset = <<>>
        /\ Entries(aset) = Values(a)
        /\ Entries(bset) = ValuesUpTo(b, it)

RemovedSoFar ==
    pc = "remove" =>
        /\ op = OP_REMOVE
        /\ it <= Len(aset)
        /\ Entries(aset) = Values(a) /\ Entries(bset) = Values(b)
        /\ Entries(rset) = ValuesUpTo(aset, it) \ Values(b)

AppendedSoFar ==
    pc = "append" =>
        /\ op = OP_APPEND
        /\ it <= Len(b) /\ rset = <<>>
        /\ Entries(aset) = Values(a) \union ValuesUpTo(b, it)

CommonSoFar ==
    pc = "intersect" =>
        /\ op = OP_INTERSECTION
        /\ it <= Len(b)
        /\ Entries(aset) = Values(a)
        /\ Entries(rset) = Values(a) \intersect ValuesUpTo(b, it)

ActionInv ==
    /\ ActionTypeOK /\ AllDistinct /\ ActionInLoops
    /\ ActionNothingStored /\ ActionAsetSoFar /\ ActionBsetSoFar
    /\ RemovedSoFar /\ AppendedSoFar /\ CommonSoFar
    /\ Entries(rset) \subseteq Entries(aset)
    /\ ResultIsSetOperation

----------------------------------------------------------------------------
(* What is said of the arguments stays as long as they do. *)
LEMMA ActionSameArguments ==
    ASSUME args' = args
    PROVE  /\ op' = op /\ a' = a /\ b' = b
           /\ Combining' = Combining /\ ExpectedValues' = ExpectedValues
<1>1. op' = op /\ a' = a /\ b' = b
  BY DEF op, a, b
<1>. QED
  BY <1>1 DEF Combining, ExpectedValues

(* Arrays are sequences of tags and NULLs. *)
LEMMA ActionArgumentArrays ==
    ASSUME ActionTypeOK
    PROVE  /\ a # Null => a \in SqlArrays
           /\ b # Null => b \in SqlArrays
BY ArraysAssumption DEF ActionTypeOK, a, b

(* Nothing is in an array without elements. *)
LEMMA EmptyFacts == Entries(<<>>) = {} /\ Distinct(<<>>) /\ <<>> \in Seq(Tags)
BY DEF Entries, Distinct

LEMMA ActionInitInv == ActionInit => ActionInv
<1>. SUFFICES ASSUME ActionInit PROVE ActionInv
  OBVIOUS
<1>1. ActionTypeOK /\ AllDistinct /\ Entries(rset) \subseteq Entries(aset)
  BY EmptyFacts DEF ActionInit, ActionTypeOK, AllDistinct
<1>. QED
  BY <1>1 DEF ActionInit, ActionInv, ActionInLoops, ActionNothingStored, ActionAsetSoFar,
      ActionBsetSoFar,
              RemovedSoFar, AppendedSoFar, CommonSoFar, ResultIsSetOperation

(* A return from a combining operation, with what it returns. *)
LEMMA ReturnFacts ==
    ASSUME ActionInv, pc' = "returned", args' = args, it' \in Nat,
           aset' = aset, bset' = bset, rset' = rset,
           Combining => Entries(result') = ExpectedValues /\ Distinct(result')
    PROVE  ActionInv'
<1>1. Combining' = Combining /\ ExpectedValues' = ExpectedValues
  BY ActionSameArguments
<1>2. /\ ActionTypeOK' /\ AllDistinct' /\ Entries(rset') \subseteq Entries(aset')
  BY DEF ActionInv, ActionTypeOK, AllDistinct
<1>3. ResultIsSetOperation'
  BY <1>1 DEF ResultIsSetOperation, Distinct
<1>. QED
  BY <1>2, <1>3 DEF ActionInv, ActionInLoops, ActionNothingStored, ActionAsetSoFar,
      ActionBsetSoFar,
                    RemovedSoFar, AppendedSoFar, CommonSoFar

(* The steps before the loops. *)
LEMMA ActionEnterStep ==
    ASSUME ActionInv, ReturnArgument \/ UnknownOperation \/ EnterAction
    PROVE  ActionInv'
<1>1. args' = args /\ UNCHANGED <<it, aset, bset, rset>> /\ pc = "tag_action"
  BY DEF ReturnArgument, UnknownOperation, EnterAction
<1>2. op' = op /\ a' = a /\ b' = b
  BY <1>1, ActionSameArguments
<1>3. /\ ActionTypeOK /\ AllDistinct /\ Entries(rset) \subseteq Entries(aset)
      /\ aset = <<>> /\ bset = <<>> /\ rset = <<>> /\ it = 0
  BY <1>1 DEF ActionInv, ActionNothingStored
<1>4. AllDistinct' /\ Entries(rset') \subseteq Entries(aset')
  BY <1>1, <1>3 DEF AllDistinct
<1>5. CASE ReturnArgument
  <2>1. pc' = "returned" /\ it' \in Nat
    BY <1>1, <1>3, <1>5 DEF ReturnArgument, ReturnArray
  <2>2. ~Combining
    BY <1>5, OpsAssumption
       DEF ReturnArgument, Combining, OP_CLEAR, OP_REMOVE, OP_APPEND, OP_INTERSECTION,
           OP_REPLACE
  <2>. QED
    BY <1>1, <2>1, <2>2, ReturnFacts
<1>6. CASE UnknownOperation
  <2>1. pc' = "error"
    BY <1>6 DEF UnknownOperation
  <2>2. ActionTypeOK'
    BY <1>1, <1>3, <2>1 DEF ActionTypeOK
  <2>. QED
    BY <1>4, <2>1, <2>2
       DEF ActionInv, ActionInLoops, ActionNothingStored, ActionAsetSoFar, ActionBsetSoFar,
           RemovedSoFar, AppendedSoFar, CommonSoFar, ResultIsSetOperation
<1>7. CASE EnterAction
  <2>1. /\ pc' = "fill_a" /\ a # Null /\ b # Null
        /\ op \in {OP_REMOVE, OP_APPEND, OP_INTERSECTION}
    BY <1>7 DEF EnterAction
  <2>2. a \in SqlArrays /\ Len(a) \in Nat
    BY <1>3, <2>1, ActionArgumentArrays DEF SqlArrays
  <2>3. Entries(aset') = ValuesUpTo(a', it') /\ it' = 0 /\ it' <= Len(a')
    <3>1. Entries(<<>>) = ValuesUpTo(a, 0) /\ 0 <= Len(a)
      <4>1. Entries(<<>>) = {}
        BY EmptyFacts
      <4>2. ValuesUpTo(a, 0) = {}
        BY <2>2, PrefixFacts
      <4>. QED
        BY <2>2, <4>1, <4>2
    <3>. QED
      BY <1>1, <1>2, <1>3, <3>1
  <2>4. ActionAsetSoFar' /\ ActionInLoops'
    BY <1>1, <1>2, <1>3, <2>1, <2>3 DEF ActionAsetSoFar, ActionInLoops
  <2>5. ActionTypeOK'
    BY <1>1, <1>3, <2>1 DEF ActionTypeOK
  <2>. QED
    BY <1>4, <2>1, <2>4, <2>5
       DEF ActionInv, ActionNothingStored, ActionBsetSoFar,
           RemovedSoFar, AppendedSoFar, CommonSoFar, ResultIsSetOperation
<1>. QED
  BY <1>5, <1>6, <1>7

(* The loop over a, which every combining operation begins with. *)
LEMMA ActionScanAStep ==
    ASSUME ActionInv, FillA \/ FillADone
    PROVE  ActionInv'
<1>1. args' = args /\ UNCHANGED <<bset, rset>> /\ pc = "fill_a"
  BY DEF FillA, FillADone
<1>2. op' = op /\ a' = a /\ b' = b
  BY <1>1, ActionSameArguments
<1>3. /\ ActionTypeOK /\ AllDistinct /\ a # Null /\ b # Null
      /\ op \in {OP_REMOVE, OP_APPEND, OP_INTERSECTION}
      /\ it <= Len(a) /\ bset = <<>> /\ rset = <<>>
      /\ Entries(aset) = ValuesUpTo(a, it)
  BY <1>1 DEF ActionInv, ActionInLoops, ActionAsetSoFar
<1>4. a \in SqlArrays /\ b \in SqlArrays /\ Len(a) \in Nat /\ Len(b) \in Nat /\ it \in Nat
  <2>1. a \in SqlArrays /\ b \in SqlArrays
    BY <1>3, ActionArgumentArrays
  <2>. QED
    BY <1>3, <2>1 DEF SqlArrays, ActionTypeOK
<1>5. Entries(rset') = {} /\ Entries(bset') = {}
  BY <1>1, <1>3, EmptyFacts
<1>6. CASE FillA
  <2>1. /\ it < Len(a) /\ it' = it + 1 /\ pc' = "fill_a"
        /\ aset' = Stored(aset, a[it + 1])
    BY <1>1, <1>6 DEF FillA
  <2>2. /\ a[it + 1] \in Tags \union {Null}
        /\ ValuesUpTo(a, it + 1) = ValuesUpTo(a, it) \union ({a[it + 1]} \ {Null})
    BY <1>4, <2>1, PrefixFacts
  <2>3. /\ aset' \in Seq(Tags) /\ Distinct(aset')
        /\ Entries(aset') = ValuesUpTo(a, it + 1)
    BY <1>3, <2>1, <2>2, StoredFacts DEF ActionTypeOK, AllDistinct
  <2>4. ActionAsetSoFar' /\ ActionInLoops'
    BY <1>1, <1>2, <1>3, <1>4, <2>1, <2>3 DEF ActionAsetSoFar, ActionInLoops
  <2>5. ActionTypeOK' /\ AllDistinct'
    BY <1>1, <1>3, <2>1, <2>3 DEF ActionTypeOK, AllDistinct
  <2>. QED
    BY <1>5, <2>1, <2>4, <2>5
       DEF ActionInv, ActionNothingStored, ActionBsetSoFar,
           RemovedSoFar, AppendedSoFar, CommonSoFar, ResultIsSetOperation
<1>7. CASE FillADone
  <2>1. it' = 0 /\ it = Len(a) /\ aset' = aset
    BY <1>7 DEF FillADone
  <2>2. Entries(aset) = Values(a) /\ ValuesUpTo(b, 0) = {} /\ 0 <= Len(b)
    BY <1>3, <1>4, <2>1, PrefixFacts
  <2>3. CASE op = OP_REMOVE /\ aset = <<>>
    <3>1. pc' = "returned" /\ result' = <<>>
      BY <1>7, <2>3 DEF FillADone, ReturnArray, OP_REMOVE, OP_APPEND, OP_INTERSECTION
    <3>2. ExpectedValues = {}
      BY <2>2, <2>3, EmptyFacts DEF ExpectedValues
    <3>3. Entries(result') = ExpectedValues /\ Distinct(result')
      BY <3>1, <3>2, EmptyFacts
    <3>. QED
      BY <1>1, <2>1, <3>1, <3>3, ReturnFacts
  <2>4. CASE ~(op = OP_REMOVE /\ aset = <<>>)
    <3>1. pc' \in IF op = OP_REMOVE THEN {"fill_b"}
                  ELSE IF op = OP_APPEND THEN {"append", "overrun"} ELSE {"intersect"}
      BY <1>7, <2>4 DEF FillADone, OP_REMOVE, OP_APPEND, OP_INTERSECTION
    <3>2. ActionTypeOK' /\ AllDistinct'
      BY <1>1, <1>3, <2>1, <3>1 DEF ActionTypeOK, AllDistinct
    <3>3. Entries(aset') = Values(a') /\ ValuesUpTo(b', it') = {} /\ it' <= Len(b')
      BY <1>2, <2>1, <2>2
    <3>4. ActionInLoops' /\ ActionBsetSoFar' /\ AppendedSoFar' /\ CommonSoFar'
      BY <1>1, <1>2, <1>3, <1>5, <3>1, <3>3
         DEF ActionInLoops, ActionBsetSoFar, AppendedSoFar, CommonSoFar
    <3>. QED
      BY <1>5, <3>1, <3>2, <3>4
         DEF ActionInv, ActionNothingStored, ActionAsetSoFar, RemovedSoFar,
             ResultIsSetOperation
  <2>. QED
    BY <2>3, <2>4
<1>. QED
  BY <1>6, <1>7

(* The loop over b before a removal. *)
LEMMA ActionScanBStep ==
    ASSUME ActionInv, FillB \/ FillBDone
    PROVE  ActionInv'
<1>1. args' = args /\ UNCHANGED <<aset, rset>> /\ pc = "fill_b"
  BY DEF FillB, FillBDone
<1>2. op' = op /\ a' = a /\ b' = b
  BY <1>1, ActionSameArguments
<1>3. /\ ActionTypeOK /\ AllDistinct /\ a # Null /\ b # Null
      /\ op = OP_REMOVE
      /\ it <= Len(b) /\ rset = <<>>
      /\ Entries(aset) = Values(a) /\ Entries(bset) = ValuesUpTo(b, it)
  BY <1>1 DEF ActionInv, ActionInLoops, ActionBsetSoFar
<1>4. b \in SqlArrays /\ Len(b) \in Nat /\ it \in Nat
  <2>1. b \in SqlArrays
    BY <1>3, ActionArgumentArrays
  <2>. QED
    BY <1>3, <2>1 DEF SqlArrays, ActionTypeOK
<1>5. Entries(rset') = {}
  BY <1>1, <1>3, EmptyFacts
<1>6. CASE FillB
  <2>1. /\ it < Len(b) /\ it' = it + 1 /\ pc' = "fill_b"
        /\ bset' = Stored(bset, b[it + 1])
    BY <1>1, <1>6 DEF FillB
  <2>2. /\ b[it + 1] \in Tags \union {Null}
        /\ ValuesUpTo(b, it + 1) = ValuesUpTo(b, it) \union ({b[it + 1]} \ {Null})
    BY <1>4, <2>1, PrefixFacts
  <2>3. /\ bset' \in Seq(Tags) /\ Distinct(bset')
        /\ Entries(bset') = ValuesUpTo(b, it + 1)
    BY <1>3, <2>1, <2>2, StoredFacts DEF ActionTypeOK, AllDistinct
  <2>4. ActionBsetSoFar' /\ ActionInLoops'
    BY <1>1, <1>2, <1>3, <1>4, <2>1, <2>3 DEF ActionBsetSoFar, ActionInLoops
  <2>5. ActionTypeOK' /\ AllDistinct'
    BY <1>1, <1>3, <2>1, <2>3 DEF ActionTypeOK, AllDistinct
  <2>. QED
    BY <1>5, <2>1, <2>4, <2>5
       DEF ActionInv, ActionNothingStored, ActionAsetSoFar,
           RemovedSoFar, AppendedSoFar, CommonSoFar, ResultIsSetOperation
<1>7. CASE FillBDone
  <2>1. it' = 0 /\ it = Len(b) /\ bset' = bset
    BY <1>7 DEF FillBDone
  <2>2. Entries(bset) = Values(b)
    BY <1>3, <1>4, <2>1, PrefixFacts
  <2>3. CASE bset = <<>>
    <3>1. pc' = "returned" /\ result' = aset
      BY <1>7, <2>3 DEF FillBDone, ReturnArray
    <3>2. ExpectedValues = Entries(aset)
      BY <1>3, <2>2, <2>3, EmptyFacts DEF ExpectedValues
    <3>3. Entries(result') = ExpectedValues /\ Distinct(result')
      BY <1>3, <3>1, <3>2 DEF AllDistinct
    <3>. QED
      BY <1>1, <2>1, <3>1, <3>3, ReturnFacts
  <2>4. CASE bset # <<>>
    <3>1. pc' = "remove"
      BY <1>7, <2>4 DEF FillBDone
    <3>2. ActionTypeOK' /\ AllDistinct'
      BY <1>1, <1>3, <2>1, <3>1 DEF ActionTypeOK, AllDistinct
    <3>3. ValuesUpTo(aset', it') = {} /\ it' <= Len(aset')
      <4>1. Len(aset) \in Nat /\ it' = 0 /\ aset' = aset
        BY <1>1, <1>3, <2>1 DEF ActionTypeOK
      <4>2. ValuesUpTo(aset, 0) = {}
        BY DEF ValuesUpTo
      <4>. QED
        BY <4>1, <4>2
    <3>4. ActionInLoops' /\ RemovedSoFar'
      BY <1>1, <1>2, <1>3, <1>5, <2>1, <2>2, <3>1, <3>3 DEF ActionInLoops, RemovedSoFar
    <3>. QED
      BY <1>5, <3>1, <3>2, <3>4
         DEF ActionInv, ActionNothingStored, ActionAsetSoFar, ActionBsetSoFar,
             AppendedSoFar, CommonSoFar,
             ResultIsSetOperation
  <2>. QED
    BY <2>3, <2>4
<1>. QED
  BY <1>6, <1>7

(* The loop over aset that keeps what b does not have. *)
LEMMA RemoveStep ==
    ASSUME ActionInv, Remove \/ RemoveDone
    PROVE  ActionInv'
<1>1. args' = args /\ UNCHANGED <<aset, bset>> /\ pc = "remove"
  BY DEF Remove, RemoveDone
<1>2. op' = op /\ a' = a /\ b' = b
  BY <1>1, ActionSameArguments
<1>3. /\ ActionTypeOK /\ AllDistinct /\ a # Null /\ b # Null
      /\ op = OP_REMOVE
      /\ it <= Len(aset)
      /\ Entries(aset) = Values(a) /\ Entries(bset) = Values(b)
      /\ Entries(rset) = ValuesUpTo(aset, it) \ Values(b)
      /\ Entries(rset) \subseteq Entries(aset)
  BY <1>1 DEF ActionInv, ActionInLoops, RemovedSoFar
<1>4. aset \in SqlArrays /\ aset \in Seq(Tags) /\ Len(aset) \in Nat /\ it \in Nat
  BY <1>3 DEF SqlArrays, ActionTypeOK
<1>5. CASE Remove
  <2>. DEFINE v == aset[it + 1]
  <2>1. /\ it < Len(aset) /\ it' = it + 1 /\ pc' = "remove"
        /\ rset' = IF set_contains_value(bset, v) THEN rset ELSE Append(rset, v)
    BY <1>1, <1>5 DEF Remove
  <2>2. it + 1 \in 1..Len(aset) /\ it + 1 <= Len(aset) /\ it + 1 \in Nat
    BY <1>4, <2>1
  <2>3. v \in Tags /\ v # Null /\ v \in Entries(aset)
    <3>1. v \in Tags
      BY <1>4, <2>2
    <3>2. v \in Entries(aset)
      BY <2>2, Zenon DEF Entries
    <3>. QED
      BY <3>1, <3>2, NullAssumption
  <2>4. ValuesUpTo(aset, it + 1) = ValuesUpTo(aset, it) \union {v}
    <3>1. ValuesUpTo(aset, it + 1) = ValuesUpTo(aset, it) \union ({v} \ {Null})
      BY <1>4, <2>1, PrefixFacts
    <3>. QED
      BY <2>3, <3>1
  <2>5. v \notin ValuesUpTo(aset, it)
    <3>1. \A k \in 1..it : k \in 1..Len(aset) /\ k # it + 1
      BY <1>4, <2>1
    <3>2. \A k \in 1..it : aset[k] # v
      BY <1>3, <2>2, <3>1 DEF AllDistinct, Distinct
    <3>. QED
      BY <3>2, Zenon DEF ValuesUpTo
  <2>6. /\ rset' \in Seq(Tags) /\ Distinct(rset')
        /\ Entries(rset') = ValuesUpTo(aset, it + 1) \ Values(b)
    <3>1. CASE set_contains_value(bset, v)
      <4>1. v \in Values(b)
        BY <1>3, <3>1, ContainsFacts
      <4>. QED
        BY <1>3, <2>1, <2>4, <3>1, <4>1 DEF ActionTypeOK, AllDistinct
    <3>2. CASE ~set_contains_value(bset, v)
      <4>1. v \notin Values(b)
        BY <1>3, <3>2, ContainsFacts
      <4>2. ~set_contains_value(rset, v)
        BY <1>3, <2>5, ContainsFacts
      <4>3. rset' = Stored(rset, v)
        BY <2>1, <2>3, <3>2, <4>2 DEF Stored
      <4>4. /\ Stored(rset, v) \in Seq(Tags) /\ Distinct(Stored(rset, v))
            /\ Entries(Stored(rset, v)) = Entries(rset) \union ({v} \ {Null})
        BY <1>3, <2>3, StoredFacts DEF ActionTypeOK, AllDistinct
      <4>. QED
        BY <1>3, <2>3, <2>4, <4>1, <4>3, <4>4
    <3>. QED
      BY <3>1, <3>2
  <2>7. Entries(rset') \subseteq Entries(aset')
    BY <1>1, <1>3, <2>3, <2>4, <2>6
  <2>8. RemovedSoFar' /\ ActionInLoops'
    BY <1>1, <1>2, <1>3, <2>1, <2>2, <2>6 DEF RemovedSoFar, ActionInLoops
  <2>9. ActionTypeOK' /\ AllDistinct'
    BY <1>1, <1>3, <2>1, <2>2, <2>6 DEF ActionTypeOK, AllDistinct
  <2>. QED
    BY <2>1, <2>7, <2>8, <2>9
       DEF ActionInv, ActionNothingStored, ActionAsetSoFar, ActionBsetSoFar,
           AppendedSoFar, CommonSoFar,
           ResultIsSetOperation
<1>6. CASE RemoveDone
  <2>1. pc' = "returned" /\ result' = rset /\ it = Len(aset) /\ it' = it /\ rset' = rset
    BY <1>6 DEF RemoveDone, ReturnArray
  <2>2. ValuesUpTo(aset, it) = Values(a)
    <3>1. Values(aset) = Entries(aset)
      <4>1. Null \notin Entries(aset)
        BY <1>4, NullAssumption DEF Entries
      <4>. QED
        BY <4>1 DEF Values
    <3>. QED
      BY <1>3, <1>4, <2>1, <3>1, PrefixFacts
  <2>3. Entries(result') = ExpectedValues /\ Distinct(result')
    BY <1>3, <2>1, <2>2 DEF ExpectedValues, AllDistinct
  <2>. QED
    BY <1>1, <1>4, <2>1, <2>3, ReturnFacts
<1>. QED
  BY <1>5, <1>6

(* The loop over b behind the values of a. *)
LEMMA AppendStep ==
    ASSUME ActionInv, AppendB \/ AppendDone
    PROVE  ActionInv'
<1>1. args' = args /\ UNCHANGED <<bset, rset>> /\ pc = "append"
  BY DEF AppendB, AppendDone
<1>2. op' = op /\ a' = a /\ b' = b
  BY <1>1, ActionSameArguments
<1>3. /\ ActionTypeOK /\ AllDistinct /\ a # Null /\ b # Null
      /\ op = OP_APPEND
      /\ it <= Len(b) /\ rset = <<>>
      /\ Entries(aset) = Values(a) \union ValuesUpTo(b, it)
  BY <1>1 DEF ActionInv, ActionInLoops, AppendedSoFar
<1>4. b \in SqlArrays /\ Len(b) \in Nat /\ it \in Nat
  <2>1. b \in SqlArrays
    BY <1>3, ActionArgumentArrays
  <2>. QED
    BY <1>3, <2>1 DEF SqlArrays, ActionTypeOK
<1>5. Entries(rset') = {}
  BY <1>1, <1>3, EmptyFacts
<1>6. CASE AppendB
  <2>1. /\ it < Len(b) /\ it' = it + 1 /\ pc' \in {"append", "overrun"}
        /\ aset' = Stored(aset, b[it + 1])
    BY <1>6 DEF AppendB
  <2>2. /\ b[it + 1] \in Tags \union {Null}
        /\ ValuesUpTo(b, it + 1) = ValuesUpTo(b, it) \union ({b[it + 1]} \ {Null})
    BY <1>4, <2>1, PrefixFacts
  <2>3. /\ aset' \in Seq(Tags) /\ Distinct(aset')
        /\ Entries(aset') = Values(a) \union ValuesUpTo(b, it + 1)
    BY <1>3, <2>1, <2>2, StoredFacts DEF ActionTypeOK, AllDistinct
  <2>4. AppendedSoFar' /\ ActionInLoops'
    BY <1>1, <1>2, <1>3, <1>4, <2>1, <2>3 DEF AppendedSoFar, ActionInLoops
  <2>5. ActionTypeOK' /\ AllDistinct'
    BY <1>1, <1>3, <2>1, <2>3 DEF ActionTypeOK, AllDistinct
  <2>. QED
    BY <1>5, <2>1, <2>4, <2>5
       DEF ActionInv, ActionNothingStored, ActionAsetSoFar, ActionBsetSoFar,
           RemovedSoFar, CommonSoFar, ResultIsSetOperation
<1>7. CASE AppendDone
  <2>1. pc' = "returned" /\ result' = aset /\ it = Len(b) /\ it' = it /\ aset' = aset
    BY <1>7 DEF AppendDone, ReturnArray
  <2>2. ValuesUpTo(b, it) = Values(b)
    BY <1>4, <2>1, PrefixFacts
  <2>3. Entries(result') = ExpectedValues /\ Distinct(result')
    BY <1>3, <2>1, <2>2 DEF ExpectedValues, AllDistinct, OP_APPEND, OP_REMOVE
  <2>. QED
    BY <1>1, <1>4, <2>1, <2>3, ReturnFacts
<1>. QED
  BY <1>6, <1>7

(* The loop over b that keeps what a has. *)
LEMMA IntersectStep ==
    ASSUME ActionInv, Intersect \/ IntersectDone
    PROVE  ActionInv'
<1>1. args' = args /\ UNCHANGED <<aset, bset>> /\ pc = "intersect"
  BY DEF Intersect, IntersectDone
<1>2. op' = op /\ a' = a /\ b' = b
  BY <1>1, ActionSameArguments
<1>3. /\ ActionTypeOK /\ AllDistinct /\ a # Null /\ b # Null
      /\ op = OP_INTERSECTION
      /\ it <= Len(b)
      /\ Entries(aset) = Values(a)
      /\ Entries(rset) = Values(a) \intersect ValuesUpTo(b, it)
  BY <1>1 DEF ActionInv, ActionInLoops, CommonSoFar
<1>4. b \in SqlArrays /\ Len(b) \in Nat /\ it \in Nat
  <2>1. b \in SqlArrays
    BY <1>3, ActionArgumentArrays
  <2>. QED
    BY <1>3, <2>1 DEF SqlArrays, ActionTypeOK
<1>5. CASE Intersect
  <2>. DEFINE v == b[it + 1]
  <2>1. /\ it < Len(b) /\ it' = it + 1 /\ pc' = "intersect"
        /\ rset' = IF set_contains_value(aset, v) THEN Stored(rset, v) ELSE rset
    BY <1>1, <1>5 DEF Intersect
  <2>2. /\ v \in Tags \union {Null}
        /\ ValuesUpTo(b, it + 1) = ValuesUpTo(b, it) \union ({v} \ {Null})
    BY <1>4, <2>1, PrefixFacts
  <2>3. /\ Stored(rset, v) \in Seq(Tags) /\ Distinct(Stored(rset, v))
        /\ Entries(Stored(rset, v)) = Entries(rset) \union ({v} \ {Null})
    BY <1>3, <2>2, StoredFacts DEF ActionTypeOK, AllDistinct
  <2>4. set_contains_value(aset, v) <=> v \in Values(a)
    BY <1>3, ContainsFacts
  <2>5. /\ rset' \in Seq(Tags) /\ Distinct(rset')
        /\ Entries(rset') = Values(a) \intersect ValuesUpTo(b, it + 1)
    BY <1>3, <2>1, <2>2, <2>3, <2>4 DEF ActionTypeOK, AllDistinct
  <2>6. CommonSoFar' /\ ActionInLoops' /\ Entries(rset') \subseteq Entries(aset')
    BY <1>1, <1>2, <1>3, <1>4, <2>1, <2>5 DEF CommonSoFar, ActionInLoops
  <2>7. ActionTypeOK' /\ AllDistinct'
    BY <1>1, <1>3, <2>1, <2>5 DEF ActionTypeOK, AllDistinct
  <2>. QED
    BY <2>1, <2>6, <2>7
       DEF ActionInv, ActionNothingStored, ActionAsetSoFar, ActionBsetSoFar,
           RemovedSoFar, AppendedSoFar,
           ResultIsSetOperation
<1>6. CASE IntersectDone
  <2>1. pc' = "returned" /\ result' = rset /\ it = Len(b) /\ it' = it /\ rset' = rset
    BY <1>6 DEF IntersectDone, ReturnArray
  <2>2. ValuesUpTo(b, it) = Values(b)
    BY <1>4, <2>1, PrefixFacts
  <2>3. Entries(result') = ExpectedValues /\ Distinct(result')
    BY <1>3, <2>1, <2>2
       DEF ExpectedValues, AllDistinct, OP_APPEND, OP_REMOVE, OP_INTERSECTION
  <2>. QED
    BY <1>1, <1>4, <2>1, <2>3, ReturnFacts
<1>. QED
  BY <1>5, <1>6

(* Nothing changes. *)
LEMMA ActionStutterStep ==
    ASSUME ActionInv, UNCHANGED actionVars
    PROVE  ActionInv'
<1>1. UNCHANGED <<args, pc, it, aset, bset, rset, room, result>>
  BY DEF actionVars
<1>2. /\ op' = op /\ a' = a /\ b' = b
      /\ Combining' = Combining /\ ExpectedValues' = ExpectedValues
  BY <1>1, ActionSameArguments
<1>3. ActionTypeOK' /\ AllDistinct' /\ Entries(rset') \subseteq Entries(aset')
  BY <1>1 DEF ActionInv, ActionTypeOK, AllDistinct
<1>4. ActionInLoops' /\ ActionNothingStored' /\ ActionAsetSoFar' /\ ActionBsetSoFar'
  BY <1>1, <1>2 DEF ActionInv, ActionInLoops, ActionNothingStored, ActionAsetSoFar,
      ActionBsetSoFar
<1>5. RemovedSoFar' /\ AppendedSoFar' /\ CommonSoFar' /\ ResultIsSetOperation'
  BY <1>1, <1>2 DEF ActionInv, RemovedSoFar, AppendedSoFar, CommonSoFar,
      ResultIsSetOperation
<1>. QED
  BY <1>3, <1>4, <1>5 DEF ActionInv

(* The inductive invariant of tag_action. *)
LEMMA InvHolds == ActionSpec => []ActionInv
<1>1. ActionInv /\ [ActionNext]_actionVars => ActionInv'
  BY ActionEnterStep, ActionScanAStep, ActionScanBStep, RemoveStep, AppendStep,
      IntersectStep, ActionStutterStep
     DEF ActionNext
<1>. QED
  BY <1>1, ActionInitInv, PTL DEF ActionSpec

(* For arrays of any length, over any tags, a combining operation that     *)
(* returns has computed the difference, union or intersection, each value  *)
(* once.                                                                   *)
THEOREM ResultIsRight == ActionSpec => []ResultIsSetOperation
<1>1. ActionInv => ResultIsSetOperation
  BY DEF ActionInv
<1>. QED
  BY <1>1, InvHolds, PTL

(* The chunk of rset, sized for the values of aset, is never overfilled,   *)
(* whatever b repeats.                                                     *)
THEOREM RsetNeverOverfilled == ActionSpec => []RsetFits
<1>1. ActionInv => RsetFits
  BY SubsetLength DEF ActionInv, ActionTypeOK, AllDistinct, RsetFits
<1>. QED
  BY <1>1, InvHolds, PTL

----------------------------------------------------------------------------
(* The order of values.                                                    *)

(* Entries of s stand in the order of their first places in source, which  *)
(* are among its first n.                                                  *)
InOrder(s, source, n) ==
    /\ \A k \in 1..Len(s) : First(source, s[k]) \in 1..n
    /\ \A j, k \in 1..Len(s) : j < k => First(source, s[j]) < First(source, s[k])

OrderInv ==
    /\ pc = "fill_a" => InOrder(aset, a \o b, it)
    /\ pc \in {"fill_b", "remove"} => InOrder(aset, a \o b, Len(a))
    /\ pc = "remove" => InOrder(rset, a \o b, Len(a))
    /\ pc = "append" => InOrder(aset, a \o b, Len(a) + it)
    /\ pc = "intersect" => InOrder(rset, b, it)
    /\ OrderKept

(* A value no element before place m has is first there. *)
LEMMA FirstPlace ==
    ASSUME NEW source, NEW m \in Nat, Len(source) \in Nat, m \in 1..Len(source),
           \A j \in 1..(m - 1) : source[j] # source[m]
    PROVE  First(source, source[m]) = m
<1>. DEFINE P(k) == source[k] = source[m] /\ \A j \in 1..(k - 1) : source[j] # source[m]
<1>1. P(m)
  OBVIOUS
<1>2. ASSUME NEW k \in 1..Len(source), P(k) PROVE k = m
  <2>1. ~(k < m)
    BY <1>2
  <2>2. ~(m < k)
    <3>1. m < k => m \in 1..(k - 1)
      BY <1>2
    <3>. QED
      BY <1>2, <3>1
  <2>. QED
    BY <2>1, <2>2
<1>3. First(source, source[m]) = CHOOSE k \in 1..Len(source) : P(k)
  BY DEF First
<1>. HIDE DEF P
<1>. QED
  BY <1>1, <1>2, <1>3

(* A value that comes first at the next place of source is appended in     *)
(* order.                                                                  *)
LEMMA AppendInOrder ==
    ASSUME NEW s \in Seq(Tags), NEW source, Len(source) \in Nat,
           NEW n \in Nat, n < Len(source), InOrder(s, source, n),
           \A j \in 1..n : source[j] # source[n + 1], source[n + 1] \in Tags
    PROVE  InOrder(Append(s, source[n + 1]), source, n + 1)
<1>. DEFINE t == Append(s, source[n + 1])
<1>1. Len(s) \in Nat /\ Len(t) = Len(s) + 1 /\ t[Len(s) + 1] = source[n + 1]
      /\ \A k \in 1..Len(s) : t[k] = s[k]
  OBVIOUS
<1>2. First(source, source[n + 1]) = n + 1
  <2>1. n + 1 \in 1..Len(source) /\ n + 1 \in Nat /\ (n + 1) - 1 = n
    OBVIOUS
  <2>. QED
    BY <2>1, FirstPlace
<1>. HIDE DEF t
<1>3. ASSUME NEW k \in 1..Len(t)
      PROVE  /\ First(source, t[k]) \in 1..(n + 1)
             /\ k <= Len(s) => First(source, t[k]) \in 1..n
  <2>1. CASE k <= Len(s)
    <3>1. k \in 1..Len(s) /\ t[k] = s[k]
      BY <1>1, <2>1
    <3>2. First(source, s[k]) \in 1..n
      BY <3>1 DEF InOrder
    <3>. QED
      BY <3>1, <3>2
  <2>2. CASE k > Len(s)
    <3>1. k = Len(s) + 1
      BY <1>1, <2>2
    <3>. QED
      BY <1>1, <1>2, <3>1
  <2>. QED
    BY <1>1, <2>1, <2>2
<1>4. ASSUME NEW j \in 1..Len(t), NEW k \in 1..Len(t), j < k
      PROVE  First(source, t[j]) < First(source, t[k])
  <2>1. j \in 1..Len(s) /\ t[j] = s[j] /\ First(source, t[j]) \in 1..n
    BY <1>1, <1>3, <1>4
  <2>2. CASE k <= Len(s)
    <3>1. k \in 1..Len(s) /\ t[k] = s[k]
      BY <1>1, <2>2
    <3>. QED
      BY <1>4, <2>1, <3>1 DEF InOrder
  <2>3. CASE k > Len(s)
    <3>1. k = Len(s) + 1
      BY <1>1, <2>3
    <3>. QED
      BY <1>1, <1>2, <2>1, <3>1
  <2>. QED
    BY <1>1, <2>2, <2>3
<1>5. InOrder(t, source, n + 1)
  BY <1>3, <1>4 DEF InOrder
<1>. QED
  BY <1>5 DEF t

(* Nothing is out of order in an array without elements. *)
LEMMA EmptyInOrder == \A source, n : InOrder(<<>>, source, n)
BY DEF InOrder

(* The elements of the two arrays, one behind the other. *)
LEMMA SourceFacts ==
    ASSUME NEW s \in SqlArrays, NEW t \in SqlArrays
    PROVE  /\ Len(s) \in Nat /\ Len(t) \in Nat /\ Len(s \o t) = Len(s) + Len(t)
           /\ \A k \in 1..Len(s) : (s \o t)[k] = s[k]
           /\ \A k \in 1..Len(t) : (s \o t)[Len(s) + k] = t[k]
BY DEF SqlArrays

(* What is read before place n and is no NULL is among the values up to n. *)
LEMMA NotRead ==
    ASSUME NEW s, NEW n, NEW v, v # Null, v \notin ValuesUpTo(s, n)
    PROVE  \A j \in 1..n : s[j] # v
BY Zenon DEF ValuesUpTo

(* A stored element keeps the order, if all values read before it that the *)
(* array could hold are in it.                                             *)
LEMMA StoredInOrder ==
    ASSUME NEW s \in Seq(Tags), NEW source, Len(source) \in Nat,
           NEW n \in Nat, n < Len(source), InOrder(s, source, n),
           source[n + 1] \in Tags \union {Null},
           source[n + 1] \notin Entries(s) =>
                source[n + 1] = Null \/ \A j \in 1..n : source[j] # source[n + 1]
    PROVE  InOrder(Stored(s, source[n + 1]), source, n + 1)
<1>. DEFINE v == source[n + 1]
<1>1. CASE v = Null \/ v \in Entries(s)
  <2>1. Stored(s, v) = s
    BY <1>1, ContainsFacts DEF Stored
  <2>2. InOrder(s, source, n + 1)
    BY 1..n \subseteq 1..(n + 1) DEF InOrder
  <2>. QED
    BY <2>1, <2>2
<1>2. CASE v # Null /\ v \notin Entries(s)
  <2>1. Stored(s, v) = Append(s, v)
    BY <1>2, ContainsFacts DEF Stored
  <2>2. v \in Tags /\ \A j \in 1..n : source[j] # v
    BY <1>2
  <2>. QED
    BY <2>1, <2>2, AppendInOrder
<1>. QED
  BY <1>1, <1>2

(* The loops over a and b into aset and bset. *)
LEMMA FillOrder ==
    ASSUME ActionInv, OrderInv, FillA \/ FillADone \/ FillB \/ FillBDone
    PROVE  OrderInv'
<1>1. args' = args /\ rset' = rset /\ pc \in {"fill_a", "fill_b"}
  BY DEF FillA, FillADone, FillB, FillBDone
<1>2. op' = op /\ a' = a /\ b' = b
  BY <1>1, ActionSameArguments
<1>3. /\ ActionTypeOK /\ a # Null /\ b # Null
      /\ pc = "fill_b" => op = OP_REMOVE
      /\ rset = <<>> /\ it \in Nat
  BY <1>1 DEF ActionInv, ActionInLoops, ActionAsetSoFar, ActionBsetSoFar, ActionTypeOK
<1>4. a \in SqlArrays /\ b \in SqlArrays
  BY <1>3, ActionArgumentArrays
<1>5. /\ Len(a) \in Nat /\ Len(b) \in Nat /\ Len(a \o b) = Len(a) + Len(b)
      /\ \A k \in 1..Len(a) : (a \o b)[k] = a[k]
  BY <1>4, SourceFacts
<1>6. CASE FillA
  <2>1. /\ it < Len(a) /\ it' = it + 1 /\ pc = "fill_a" /\ pc' = "fill_a"
        /\ aset' = Stored(aset, a[it + 1])
    BY <1>6 DEF FillA
  <2>2. (a \o b)[it + 1] = a[it + 1] /\ it < Len(a \o b) /\ Len(a \o b) \in Nat
    BY <1>3, <1>5, <2>1
  <2>3. a[it + 1] \in Tags \union {Null}
    BY <1>3, <1>4, <2>1, PrefixFacts
  <2>4. a[it + 1] \notin Entries(aset) =>
            a[it + 1] = Null \/ \A j \in 1..it : (a \o b)[j] # (a \o b)[it + 1]
    <3>1. Entries(aset) = ValuesUpTo(a, it)
      BY <2>1 DEF ActionInv, ActionAsetSoFar
    <3>2. \A j \in 1..it : (a \o b)[j] = a[j]
      BY <1>3, <1>5, <2>1
    <3>. QED
      BY <2>2, <3>1, <3>2, NotRead
  <2>5. InOrder(aset, a \o b, it) /\ aset \in Seq(Tags)
    BY <1>3, <2>1 DEF OrderInv, ActionTypeOK
  <2>6. InOrder(Stored(aset, (a \o b)[it + 1]), a \o b, it + 1)
    BY <1>3, <2>2, <2>3, <2>4, <2>5, StoredInOrder
  <2>. QED
    BY <1>2, <2>1, <2>2, <2>6 DEF OrderInv, OrderKept
<1>7. CASE FillADone
  <2>1. /\ it = Len(a) /\ it' = 0 /\ aset' = aset
        /\ pc' \in {"returned", "fill_b", "append", "overrun", "intersect"}
        /\ pc' = "returned" => result' = <<>>
    BY <1>7 DEF FillADone, ReturnArray
  <2>2. InOrder(aset, a \o b, Len(a)) /\ Len(a) + 0 = Len(a)
    BY <1>5, <1>7, <2>1 DEF OrderInv, FillADone
  <2>3. InOrder(rset', b, 0)
    BY <1>1, <1>3, EmptyInOrder
  <2>4. OrderKept'
    BY <2>1 DEF OrderKept
  <2>. QED
    BY <1>2, <2>1, <2>2, <2>3, <2>4 DEF OrderInv
<1>8. CASE FillB \/ FillBDone
  <2>1. /\ aset' = aset /\ pc = "fill_b" /\ op = OP_REMOVE
        /\ pc' \in {"fill_b", "remove", "returned"}
        /\ pc' = "returned" => result' = aset
    BY <1>3, <1>8 DEF FillB, FillBDone, ReturnArray
  <2>2. InOrder(aset, a \o b, Len(a))
    BY <2>1 DEF OrderInv
  <2>3. InOrder(rset', a \o b, Len(a))
    BY <1>1, <1>3, EmptyInOrder
  <2>4. OrderKept'
    BY <1>2, <2>1, <2>2 DEF OrderKept, InOrder, OP_REMOVE, OP_INTERSECTION
  <2>. QED
    BY <1>2, <2>1, <2>2, <2>3, <2>4 DEF OrderInv
<1>. QED
  BY <1>6, <1>7, <1>8

(* The loop over aset: entries are passed over, and the others stay in     *)
(* order.                                                                  *)
LEMMA RemoveOrder ==
    ASSUME ActionInv, OrderInv, Remove \/ RemoveDone
    PROVE  OrderInv'
<1>1. args' = args /\ aset' = aset /\ pc = "remove" /\ op = OP_REMOVE /\ it \in Nat
  BY DEF Remove, RemoveDone, ActionInv, RemovedSoFar, ActionTypeOK
<1>2. op' = op /\ a' = a /\ b' = b
  BY <1>1, ActionSameArguments
<1>3. InOrder(aset, a \o b, Len(a)) /\ InOrder(rset, a \o b, Len(a))
  BY <1>1 DEF OrderInv
<1>4. CASE Remove
  <2>1. /\ it < Len(aset) /\ it' = it + 1 /\ pc' = "remove"
        /\ rset' = rset \/ rset' = Append(rset, aset[it + 1])
    BY <1>4 DEF Remove
  <2>2. CASE rset' = rset
    BY <1>1, <1>2, <1>3, <2>1, <2>2 DEF OrderInv, OrderKept
  <2>3. CASE rset' = Append(rset, aset[it + 1])
    <3>. DEFINE t == Append(rset, aset[it + 1])
    <3>1. /\ rset \in Seq(Tags) /\ aset \in Seq(Tags)
          /\ Entries(rset) \subseteq ValuesUpTo(aset, it)
      BY <1>1 DEF ActionInv, ActionTypeOK, RemovedSoFar
    <3>2. it + 1 \in 1..Len(aset)
      BY <1>1, <2>1, <3>1
    <3>3. /\ Len(rset) \in Nat /\ Len(t) = Len(rset) + 1
          /\ t[Len(rset) + 1] = aset[it + 1]
          /\ \A k \in 1..Len(rset) : t[k] = rset[k]
      BY <3>1, <3>2
    <3>. HIDE DEF t
    <3>4. \A k \in 1..Len(rset) : \E l \in 1..it : rset[k] = aset[l]
      BY <3>1, Zenon DEF Entries, ValuesUpTo
    <3>5. \A k \in 1..Len(rset) : First(a \o b, rset[k]) < First(a \o b, aset[it + 1])
      <4>1. \A l \in 1..it : l \in 1..Len(aset) /\ l < it + 1
        BY <1>1, <2>1, <3>1
      <4>. QED
        BY <1>3, <3>2, <3>4, <4>1 DEF InOrder
    <3>6. ASSUME NEW k \in 1..Len(t)
          PROVE  First(a \o b, t[k]) \in 1..Len(a)
      <4>1. CASE k \in 1..Len(rset)
        BY <1>3, <3>3, <4>1 DEF InOrder
      <4>2. CASE k = Len(rset) + 1
        BY <1>3, <3>2, <3>3, <4>2 DEF InOrder
      <4>. QED
        BY <3>3, <4>1, <4>2
    <3>7. ASSUME NEW j \in 1..Len(t), NEW k \in 1..Len(t), j < k
          PROVE  First(a \o b, t[j]) < First(a \o b, t[k])
      <4>1. j \in 1..Len(rset)
        BY <3>3, <3>7
      <4>2. CASE k \in 1..Len(rset)
        BY <1>3, <3>3, <3>7, <4>1, <4>2 DEF InOrder
      <4>3. CASE k = Len(rset) + 1
        BY <3>3, <3>5, <4>1, <4>3
      <4>. QED
        BY <3>3, <4>2, <4>3
    <3>8. InOrder(t, a \o b, Len(a))
      BY <3>6, <3>7 DEF InOrder
    <3>9. rset' = t
      BY <2>3 DEF t
    <3>. QED
      BY <1>1, <1>2, <1>3, <2>1, <3>8, <3>9 DEF OrderInv, OrderKept
  <2>. QED
    BY <2>1, <2>2, <2>3
<1>5. CASE RemoveDone
  <2>1. pc' = "returned" /\ result' = rset
    BY <1>5 DEF RemoveDone, ReturnArray
  <2>. QED
    BY <1>1, <1>2, <1>3, <2>1
       DEF OrderInv, OrderKept, InOrder, OP_REMOVE, OP_INTERSECTION
<1>. QED
  BY <1>4, <1>5

(* The loop over b behind the values of a. *)
LEMMA AppendOrder ==
    ASSUME ActionInv, OrderInv, AppendB \/ AppendDone
    PROVE  OrderInv'
<1>1. args' = args /\ rset' = rset /\ pc = "append"
  BY DEF AppendB, AppendDone
<1>2. op' = op /\ a' = a /\ b' = b
  BY <1>1, ActionSameArguments
<1>3. /\ ActionTypeOK /\ a # Null /\ b # Null /\ op = OP_APPEND
      /\ it \in Nat /\ it <= Len(b) /\ aset \in Seq(Tags)
      /\ Entries(aset) = Values(a) \union ValuesUpTo(b, it)
  BY <1>1 DEF ActionInv, ActionInLoops, AppendedSoFar, ActionTypeOK
<1>4. a \in SqlArrays /\ b \in SqlArrays
  BY <1>3, ActionArgumentArrays
<1>5. /\ Len(a) \in Nat /\ Len(b) \in Nat /\ Len(a \o b) = Len(a) + Len(b)
      /\ \A k \in 1..Len(a) : (a \o b)[k] = a[k]
      /\ \A k \in 1..Len(b) : (a \o b)[Len(a) + k] = b[k]
  BY <1>4, SourceFacts
<1>6. InOrder(aset, a \o b, Len(a) + it)
  BY <1>1 DEF OrderInv
<1>7. CASE AppendB
  <2>. DEFINE n == Len(a) + it
  <2>1. /\ it < Len(b) /\ it' = it + 1 /\ pc' \in {"append", "overrun"}
        /\ aset' = Stored(aset, b[it + 1])
    BY <1>7 DEF AppendB
  <2>2. /\ n \in Nat /\ n < Len(a \o b) /\ Len(a \o b) \in Nat
        /\ (a \o b)[n + 1] = b[it + 1]
    <3>1. it + 1 \in 1..Len(b) /\ n + 1 = Len(a) + (it + 1)
      BY <1>3, <1>5, <2>1
    <3>. QED
      BY <1>3, <1>5, <2>1, <3>1
  <2>3. b[it + 1] \in Tags \union {Null}
    BY <1>3, <1>4, <2>1, PrefixFacts
  <2>4. ASSUME b[it + 1] \notin Entries(aset), b[it + 1] # Null
        PROVE  \A j \in 1..n : (a \o b)[j] # b[it + 1]
    <3>1. b[it + 1] \notin ValuesUpTo(a, Len(a)) /\ b[it + 1] \notin ValuesUpTo(b, it)
      BY <1>3, <1>4, <2>4, PrefixFacts
    <3>2. /\ \A j \in 1..Len(a) : a[j] # b[it + 1]
          /\ \A j \in 1..it : b[j] # b[it + 1]
      BY <2>4, <3>1, NotRead
    <3>3. ASSUME NEW j \in 1..n PROVE (a \o b)[j] # b[it + 1]
      <4>1. CASE j \in 1..Len(a)
        BY <1>5, <3>2, <4>1
      <4>2. CASE j > Len(a)
        <5>1. j - Len(a) \in 1..it /\ j - Len(a) \in 1..Len(b) /\ j = Len(a) + (j - Len(a))
          BY <1>3, <1>5, <4>2
        <5>. QED
          BY <1>5, <3>2, <5>1
      <4>. QED
        BY <1>3, <1>5, <4>1, <4>2
    <3>. QED
      BY <3>3
  <2>5. InOrder(Stored(aset, (a \o b)[n + 1]), a \o b, n + 1)
    <3>. HIDE DEF n
    <3>1. InOrder(aset, a \o b, n)
      BY <1>6 DEF n
    <3>. QED
      BY <1>3, <2>2, <2>3, <2>4, <3>1, StoredInOrder
  <2>6. InOrder(aset', a' \o b', Len(a') + it')
    <3>1. n + 1 = Len(a) + (it + 1)
      BY <1>3, <1>5
    <3>. QED
      BY <1>2, <2>1, <2>2, <2>5, <3>1
  <2>. QED
    BY <2>1, <2>6 DEF OrderInv, OrderKept
<1>8. CASE AppendDone
  <2>1. pc' = "returned" /\ result' = aset
    BY <1>8 DEF AppendDone, ReturnArray
  <2>. QED
    BY <1>2, <1>3, <1>6, <2>1
       DEF OrderInv, OrderKept, InOrder, OP_APPEND, OP_INTERSECTION
<1>. QED
  BY <1>7, <1>8

(* The loop over b that keeps what a has. *)
LEMMA IntersectOrder ==
    ASSUME ActionInv, OrderInv, Intersect \/ IntersectDone
    PROVE  OrderInv'
<1>1. args' = args /\ aset' = aset /\ pc = "intersect"
  BY DEF Intersect, IntersectDone
<1>2. op' = op /\ a' = a /\ b' = b
  BY <1>1, ActionSameArguments
<1>3. /\ ActionTypeOK /\ a # Null /\ b # Null /\ op = OP_INTERSECTION
      /\ it \in Nat /\ it <= Len(b) /\ rset \in Seq(Tags)
      /\ Entries(aset) = Values(a)
      /\ Entries(rset) = Values(a) \intersect ValuesUpTo(b, it)
  BY <1>1 DEF ActionInv, ActionInLoops, CommonSoFar, ActionTypeOK
<1>4. b \in SqlArrays /\ Len(b) \in Nat
  <2>1. b \in SqlArrays
    BY <1>3, ActionArgumentArrays
  <2>. QED
    BY <2>1 DEF SqlArrays
<1>5. InOrder(rset, b, it)
  BY <1>1 DEF OrderInv
<1>6. CASE Intersect
  <2>1. /\ it < Len(b) /\ it' = it + 1 /\ pc' = "intersect"
        /\ rset' = IF set_contains_value(aset, b[it + 1])
                   THEN Stored(rset, b[it + 1]) ELSE rset
    BY <1>6 DEF Intersect
  <2>2. InOrder(rset', b, it + 1)
    <3>1. CASE set_contains_value(aset, b[it + 1])
      <4>1. b[it + 1] \in Values(a)
        BY <1>3, <3>1, ContainsFacts
      <4>2. b[it + 1] \notin Entries(rset) =>
                b[it + 1] = Null \/ \A j \in 1..it : b[j] # b[it + 1]
        BY <1>3, <4>1, NotRead
      <4>3. b[it + 1] \in Tags \union {Null}
        BY <1>3, <1>4, <2>1, PrefixFacts
      <4>. QED
        BY <1>3, <1>4, <1>5, <2>1, <3>1, <4>2, <4>3, StoredInOrder
    <3>2. CASE ~set_contains_value(aset, b[it + 1])
      <4>1. 1..it \subseteq 1..(it + 1)
        BY <1>3
      <4>. QED
        BY <1>5, <2>1, <3>2, <4>1 DEF InOrder
    <3>. QED
      BY <3>1, <3>2
  <2>. QED
    BY <1>2, <2>1, <2>2 DEF OrderInv, OrderKept
<1>7. CASE IntersectDone
  <2>1. pc' = "returned" /\ result' = rset
    BY <1>7 DEF IntersectDone, ReturnArray
  <2>. QED
    BY <1>2, <1>3, <1>5, <2>1 DEF OrderInv, OrderKept, InOrder
<1>. QED
  BY <1>6, <1>7

(* The steps before the loops, and stuttering. *)
LEMMA EnterOrder ==
    ASSUME ActionInv, OrderInv, ReturnArgument \/ UnknownOperation \/ EnterAction
    PROVE  OrderInv'
<1>1. args' = args /\ aset' = aset /\ it' = it /\ pc = "tag_action"
  BY DEF ReturnArgument, UnknownOperation, EnterAction
<1>2. aset = <<>> /\ Combining' = Combining
  BY <1>1, ActionSameArguments DEF ActionInv, ActionNothingStored
<1>3. CASE ReturnArgument
  <2>1. pc' = "returned" /\ ~Combining
    BY <1>3, OpsAssumption
       DEF ReturnArgument, ReturnArray, Combining,
           OP_CLEAR, OP_REMOVE, OP_APPEND, OP_INTERSECTION, OP_REPLACE
  <2>. QED
    BY <1>2, <2>1 DEF OrderInv, OrderKept
<1>4. CASE UnknownOperation
  <2>1. pc' = "error"
    BY <1>4 DEF UnknownOperation
  <2>. QED
    BY <2>1 DEF OrderInv, OrderKept
<1>5. CASE EnterAction
  <2>1. pc' = "fill_a" /\ InOrder(aset', a' \o b', it')
    BY <1>1, <1>2, <1>5, EmptyInOrder DEF EnterAction
  <2>. QED
    BY <2>1 DEF OrderInv, OrderKept
<1>. QED
  BY <1>3, <1>4, <1>5

LEMMA StutterOrder ==
    ASSUME OrderInv, UNCHANGED actionVars
    PROVE  OrderInv'
<1>1. UNCHANGED <<args, pc, it, aset, rset, result>>
  BY DEF actionVars
<1>2. op' = op /\ a' = a /\ b' = b /\ Combining' = Combining
  BY <1>1, ActionSameArguments
<1>. QED
  BY <1>1, <1>2 DEF OrderInv, OrderKept

(* For arrays of any length a combining operation returns values in the    *)
(* order in which they first occur in a and then b, or in b alone for an   *)
(* intersection.                                                           *)
THEOREM ResultKeepsOrder == ActionSpec => []OrderKept
<1>1. ActionInit => OrderInv
  BY DEF ActionInit, OrderInv, OrderKept
<1>2. ActionInv /\ OrderInv /\ [ActionNext]_actionVars => OrderInv'
  BY EnterOrder, FillOrder, RemoveOrder, AppendOrder, IntersectOrder, StutterOrder
     DEF ActionNext
<1>3. OrderInv => OrderKept
  BY DEF OrderInv
<1>. QED
  BY <1>1, <1>2, <1>3, InvHolds, PTL DEF ActionSpec
----------------------------------------------------------------------------
(* The space behind aset.                                                  *)

(* A power of two exceeds its exponent: a set has at least as many subsets *)
(* as elements.                                                            *)
LEMMA PowerExceeds ==
    ASSUME NEW n \in Nat
    PROVE  2 ^ n \in Nat /\ 2 ^ n >= n
<1>. DEFINE S == 1..n
            singleton == [x \in S |-> {x}]
<1>1. IsFiniteSet(S) /\ Cardinality(S) = n
  BY FS_Interval
<1>2. IsFiniteSet(SUBSET S) /\ Cardinality(SUBSET S) = 2 ^ n
  BY <1>1, FS_SUBSET
<1>3. singleton \in Injection(S, SUBSET S)
  BY DEF Injection, IsInjective
<1>4. Cardinality(S) <= Cardinality(SUBSET S)
  BY <1>2, <1>3, FS_Injection
<1>5. Cardinality(SUBSET S) \in Nat
  BY <1>2, FS_CardinalityType
<1>. QED
  BY <1>1, <1>2, <1>4, <1>5

LEMMA PowerOfTwoSuffices ==
    ASSUME NEW size \in Nat
    PROVE  PowerOfTwo(size) \in Nat /\ PowerOfTwo(size) >= size
<1>. DEFINE Large == {k \in 3..(size + 3) : 2 ^ k >= size}
<1>1. \A k \in 3..(size + 3) : k \in Nat /\ 2 ^ k \in Nat
  BY PowerExceeds
<1>2. size + 3 \in Large
  <2>1. size + 3 \in Nat /\ 2 ^ (size + 3) >= size + 3 /\ 2 ^ (size + 3) \in Nat
    BY PowerExceeds
  <2>. QED
    BY <2>1
<1>3. PICK m \in Large : \A k \in Large : m <= k
  <2>. DEFINE Below == OpToRel(<, Nat)
  <2>1. IsWellFoundedOn(Below, Nat)
    BY NatLessThanWellFounded
  <2>2. Large \subseteq Nat /\ Large # {}
    BY <1>1, <1>2
  <2>. HIDE DEF Below, Large
  <2>3. PICK m \in Large : \A k \in Large : ~ (<<k, m>> \in Below)
    BY <2>1, <2>2, WFMin
  <2>4. \A k \in Large : m <= k
    <3>. TAKE k \in Large
    <3>1. k \in Nat /\ m \in Nat
      BY <2>2
    <3>2. k < m => <<k, m>> \in Below
      BY <3>1 DEF OpToRel, Below
    <3>. QED
      BY <2>3, <3>1, <3>2
  <2>. QED
    BY <2>4
<1>. DEFINE Least(k) == 2 ^ k >= size /\ \A j \in 3..(k - 1) : 2 ^ j < size
<1>4. \E k \in 3..(size + 3) : Least(k)
  <2>1. m \in 3..(size + 3) /\ 2 ^ m >= size
    BY <1>3
  <2>2. ASSUME NEW j \in 3..(m - 1)
        PROVE  2 ^ j < size
    <3>1. j \in 3..(size + 3) /\ j < m /\ 2 ^ j \in Nat
      BY <1>1, <2>1, <2>2
    <3>2. j \notin Large
      BY <1>1, <1>3, <2>1, <3>1
    <3>. QED
      BY <3>1, <3>2
  <2>. QED
    BY <2>1, <2>2
<1>. DEFINE e == CHOOSE k \in 3..(size + 3) : Least(k)
<1>5. e \in 3..(size + 3) /\ Least(e)
  <2>. HIDE DEF Least
  <2>. QED
    BY <1>4
<1>6. PowerOfTwo(size) = 2 ^ e
  BY Zenon DEF PowerOfTwo
<1>. QED
  BY <1>1, <1>5, <1>6

LEMMA AlignedSuffices ==
    ASSUME NEW size \in Nat
    PROVE  MaxAligned(size) \in Nat /\ MaxAligned(size) >= size
BY DEF MaxAligned

(* palloc returns a chunk of at least the size it is asked for. *)
LEMMA ChunkFacts ==
    ASSUME NEW size \in Nat
    PROVE  Chunk(size) \in Nat /\ Chunk(size) >= size
BY PowerOfTwoSuffices, AlignedSuffices DEF Chunk

(* repalloc keeps what lies below the limit in place. *)
LEMMA RepallocKeeps ==
    ASSUME NEW chunk \in Nat, NEW size \in Nat, NEW used \in Nat,
           used <= chunk, used <= ChunkLimit
    PROVE  repalloc(chunk, size) \in Nat /\ used <= repalloc(chunk, size)
<1>1. CASE chunk > ChunkLimit
  <2>. DEFINE asked == IF size > ChunkLimit THEN size ELSE ChunkLimit + 1
  <2>1. asked \in Nat /\ asked > ChunkLimit
    BY ChunkLimitAssumption
  <2>2. repalloc(chunk, size) = MaxAligned(asked)
    BY <1>1 DEF repalloc
  <2>. HIDE DEF asked
  <2>3. MaxAligned(asked) \in Nat /\ MaxAligned(asked) >= asked
    BY <2>1, AlignedSuffices
  <2>. QED
    BY <2>1, <2>2, <2>3, ChunkLimitAssumption
<1>2. CASE ~(chunk > ChunkLimit)
  BY <1>2, ChunkFacts DEF repalloc
<1>. QED
  BY <1>1, <1>2

(* An operation that adds no value to those of a, and has no block of its  *)
(* own for them that could be cut.                                         *)
AddsNothing ==
    op = OP_APPEND => Values(b) \subseteq Values(a) /\ Len(a) * SizeOfDatum <= ChunkLimit

(* The chunk allocated for the elements of a is never outgrown.            *)
SpaceInv ==
    AddsNothing =>
        /\ pc \in {"fill_a", "fill_b", "remove", "append", "intersect"} =>
              /\ room \in Nat /\ Len(a) * SizeOfDatum <= room
              /\ Len(aset) <= Len(a)
        /\ pc = "fill_a" => Len(aset) <= it
        /\ pc # "overrun"

(* Storing adds at most one value. *)
LEMMA StoredLength ==
    ASSUME NEW s \in Seq(Tags), NEW v \in Tags \union {Null}
    PROVE  /\ Len(Stored(s, v)) \in {Len(s), Len(s) + 1}
           /\ v \in Entries(s) \union {Null} => Stored(s, v) = s
BY DEF Stored, set_contains_value, Entries

LEMMA SpaceStep == ActionInv /\ SpaceInv /\ [ActionNext]_actionVars => SpaceInv'
<1>. SUFFICES ASSUME ActionInv, SpaceInv, [ActionNext]_actionVars, AddsNothing'
              PROVE  /\ pc' \in {"fill_a", "fill_b", "remove", "append", "intersect"} =>
                           /\ room' \in Nat /\ Len(a') * SizeOfDatum <= room'
                           /\ Len(aset') <= Len(a')
                     /\ pc' = "fill_a" => Len(aset') <= it'
                     /\ pc' # "overrun"
  BY DEF SpaceInv
<1>1. args' = args
  BY DEF ActionNext, ReturnArgument, UnknownOperation, EnterAction, FillA, FillADone, FillB,
         FillBDone, Remove, RemoveDone, AppendB, AppendDone, Intersect, IntersectDone,
         actionVars
<1>2. op' = op /\ a' = a /\ b' = b /\ AddsNothing
  BY <1>1, ActionSameArguments DEF AddsNothing
<1>3. /\ pc \in {"fill_a", "fill_b", "remove", "append", "intersect"} =>
            /\ room \in Nat /\ Len(a) * SizeOfDatum <= room
            /\ Len(aset) <= Len(a)
      /\ pc = "fill_a" => Len(aset) <= it
      /\ pc # "overrun"
  BY <1>2 DEF SpaceInv
<1>4. /\ aset \in Seq(Tags) /\ it \in Nat /\ Len(aset) \in Nat
      /\ a # Null => a \in SqlArrays /\ Len(a) \in Nat
      /\ b # Null => b \in SqlArrays /\ Len(b) \in Nat
  BY ActionArgumentArrays DEF ActionInv, ActionTypeOK, SqlArrays
<1>5. CASE ReturnArgument \/ UnknownOperation \/ RemoveDone \/ AppendDone \/ IntersectDone
  <2>1. pc' \in {"returned", "error"}
    BY <1>5 DEF ReturnArgument, UnknownOperation, RemoveDone, AppendDone, IntersectDone,
                ReturnArray
  <2>. QED
    BY <2>1
<1>6. CASE EnterAction
  <2>1. /\ pc' = "fill_a" /\ room' = Chunk(Len(a) * SizeOfDatum)
        /\ a \in SqlArrays /\ Len(a) \in Nat /\ aset' = <<>> /\ it' = 0
    BY <1>4, <1>6 DEF EnterAction, ActionInv, ActionNothingStored
  <2>2. Len(a) * SizeOfDatum \in Nat
    BY <2>1 DEF SizeOfDatum
  <2>. QED
    BY <1>2, <2>1, <2>2, ChunkFacts
<1>7. CASE FillA
  <2>1. /\ pc = "fill_a" /\ pc' = "fill_a" /\ it < Len(a) /\ it' = it + 1 /\ room' = room
        /\ aset' = Stored(aset, a[it + 1]) /\ a # Null
    BY <1>7 DEF FillA, ActionInv, ActionInLoops
  <2>2. a[it + 1] \in Tags \union {Null}
    BY <1>4, <2>1 DEF SqlArrays
  <2>3. Len(aset') \in {Len(aset), Len(aset) + 1}
    BY <1>4, <2>1, <2>2, StoredLength
  <2>. QED
    BY <1>2, <1>3, <1>4, <2>1, <2>3
<1>8. CASE FillADone
  <2>1. /\ pc = "fill_a" /\ aset' = aset /\ a # Null /\ b # Null
        /\ \/ pc' \in {"returned", "fill_b", "intersect"} /\ room' = room
           \/ /\ op = OP_APPEND /\ room' = repalloc(room, Len(aset) + Len(b))
              /\ pc' = IF InChunk(aset, room') THEN "append" ELSE "overrun"
    BY <1>8 DEF FillADone, ReturnArray, ActionInv, ActionInLoops
  <2>2. CASE pc' \in {"returned", "fill_b", "intersect"} /\ room' = room
    BY <1>2, <1>3, <2>1, <2>2
  <2>3. CASE /\ op = OP_APPEND /\ room' = repalloc(room, Len(aset) + Len(b))
             /\ pc' = IF InChunk(aset, room') THEN "append" ELSE "overrun"
    <3>1. /\ Len(aset) + Len(b) \in Nat /\ Len(a) * SizeOfDatum \in Nat
          /\ Len(a) * SizeOfDatum <= ChunkLimit
      BY <1>2, <1>4, <2>1, <2>3 DEF AddsNothing, SizeOfDatum
    <3>2. room' \in Nat /\ Len(a) * SizeOfDatum <= room'
      BY <1>3, <2>1, <2>3, <3>1, RepallocKeeps
    <3>3. InChunk(aset, room')
      BY <1>3, <1>4, <2>1, <3>2 DEF InChunk, SizeOfDatum
    <3>. QED
      BY <1>2, <1>3, <2>1, <2>3, <3>2, <3>3
  <2>. QED
    BY <2>1, <2>2, <2>3
<1>9. CASE FillB \/ FillBDone \/ Remove \/ Intersect
  <2>1. /\ pc \in {"fill_b", "remove", "intersect"} /\ aset' = aset /\ room' = room
        /\ pc' \in {"fill_b", "remove", "intersect", "returned"}
    BY <1>9 DEF FillB, FillBDone, Remove, Intersect, ReturnArray
  <2>. QED
    BY <1>2, <1>3, <2>1
<1>10. CASE AppendB
  <2>1. /\ pc = "append" /\ it < Len(b) /\ room' = room /\ b # Null /\ a # Null
        /\ aset' = Stored(aset, b[it + 1])
        /\ op = OP_APPEND /\ Values(a) \subseteq Entries(aset)
    BY <1>10 DEF AppendB, ActionInv, ActionInLoops, AppendedSoFar
  <2>2. b[it + 1] \in Tags \union {Null} /\ b[it + 1] \in Entries(b)
    <3>1. it + 1 \in 1..Len(b) /\ b \in Seq(Tags \union {Null})
      BY <1>4, <2>1 DEF SqlArrays
    <3>. QED
      BY <3>1 DEF Entries
  <2>3. b[it + 1] \in Entries(aset) \union {Null}
    BY <1>2, <2>1, <2>2 DEF AddsNothing, Values
  <2>4. aset' = aset
    BY <1>4, <2>1, <2>2, <2>3, StoredLength
  <2>5. InChunk(aset', room)
    BY <1>3, <1>4, <2>1, <2>4 DEF InChunk, SizeOfDatum
  <2>6. pc' = "append"
    BY <1>10, <2>5 DEF AppendB
  <2>. QED
    BY <1>2, <1>3, <2>1, <2>4, <2>6
<1>11. CASE UNCHANGED actionVars
  BY <1>2, <1>3, <1>11 DEF actionVars
<1>. QED
  BY <1>5, <1>6, <1>7, <1>8, <1>9, <1>10, <1>11 DEF ActionNext

(* The values written to aset leave its chunk only in an append, and only  *)
(* one that adds a value a does not have, or one to an array of more       *)
(* elements than fit into ChunkLimit bytes, whose block may be cut to the  *)
(* count of values (f_tag_action.c:156).  Every other call, of any         *)
(* operation and arrays of any length, stays inside (the tag_append run    *)
(* shows an append that does not).                                         *)
THEOREM OnlyAppendsOverrun ==
    ActionSpec =>
        [](~AsetFits =>
             /\ op = OP_APPEND
             /\ ~(Values(b) \subseteq Values(a)) \/ Len(a) * SizeOfDatum > ChunkLimit)
<1>1. ActionInit => SpaceInv
  BY DEF ActionInit, SpaceInv
<1>. DEFINE Cause ==
       /\ op = OP_APPEND
       /\ ~(Values(b) \subseteq Values(a)) \/ Len(a) * SizeOfDatum > ChunkLimit
<1>2. ActionInv /\ SpaceInv => (~AsetFits => Cause)
  <2>. SUFFICES ASSUME ActionInv, SpaceInv,
                       pc \in {"fill_a", "fill_b", "remove", "append", "intersect",
                               "overrun"},
                       ~Cause
                PROVE  InChunk(aset, room)
    BY DEF AsetFits
  <2>1. Len(aset) \in Nat /\ Len(a) \in Nat
    BY ActionArgumentArrays DEF ActionInv, ActionTypeOK, ActionInLoops, SqlArrays
  <2>2. AddsNothing
    <3>1. Len(a) * SizeOfDatum \in Nat
      BY <2>1 DEF SizeOfDatum
    <3>. QED
      BY <3>1, ChunkLimitAssumption DEF AddsNothing
  <2>3. room \in Nat /\ Len(a) * SizeOfDatum <= room /\ Len(aset) <= Len(a)
    BY <2>2 DEF SpaceInv
  <2>. QED
    BY <2>1, <2>3 DEF InChunk, SizeOfDatum
<1>. QED
  BY <1>1, <1>2, SpaceStep, InvHolds, PTL DEF ActionSpec
==============================================================================

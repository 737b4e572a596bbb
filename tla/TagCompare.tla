---------------------------- MODULE TagCompare -----------------------------
(***************************************************************************)
(* tag_compare(a, b, matching_mode), f_tag_compare.c: how well the tags b  *)
(* of a call match the tags a of a routing object.  A NULL in a stands for *)
(* any tag.  One step is one turn of one of the function's three loops.    *)
(***************************************************************************)
EXTENDS TagArrays

CONSTANT Modes      \* matching modes, Null for none

ASSUME ModesAssumption == Modes \subseteq Int \union {Null}

RET_NOT_MATCHED == 0
RET_MATCHED_WITH_NULL == 1
RET_MATCHED_WITHOUT_NULL == 2
RET_MATCHED_EXACTLY == 3

MATCH_MODE_B_IN_A == 0
MATCH_MODE_MUTUAL == 1
MATCH_MODE_INTERSECTION == 2

VARIABLES
    a_has_null,
    d,            \* entries of aset left to look at, d + 1 - aset in the code
    ret

compareVars == <<args, pc, it, aset, bset, a_has_null, d, ret>>

match_mode == IF args.mode = Null THEN MATCH_MODE_B_IN_A ELSE args.mode

CompareInit ==
    /\ args \in [a : Arrays \union {Null}, b : Arrays \union {Null}, mode : Modes]
    /\ pc = "tag_compare" /\ it = 0
    /\ aset = <<>> /\ bset = <<>> /\ a_has_null = FALSE
    /\ d = 0 /\ ret = RET_NOT_MATCHED

ReturnCode(code) ==
    /\ pc' = "compared" /\ ret' = code

(* A NULL array, before the mode is looked at. *)
NullArgument ==
    /\ pc = "tag_compare"
    /\ a = Null \/ b = Null
    /\ ReturnCode(RET_NOT_MATCHED)
    /\ UNCHANGED <<args, it, aset, bset, a_has_null, d>>

(* err() raises ERROR. *)
UnknownMode ==
    /\ pc = "tag_compare"
    /\ a # Null /\ b # Null
    /\ match_mode \notin {MATCH_MODE_B_IN_A, MATCH_MODE_MUTUAL, MATCH_MODE_INTERSECTION}
    /\ pc' = "error"
    /\ UNCHANGED <<args, it, aset, bset, a_has_null, d, ret>>

EnterCompare ==
    /\ pc = "tag_compare"
    /\ a # Null /\ b # Null
    /\ match_mode \in {MATCH_MODE_B_IN_A, MATCH_MODE_MUTUAL, MATCH_MODE_INTERSECTION}
    /\ IF Len(a) = 0 \/ Len(b) = 0
       THEN ReturnCode(IF Len(a) = Len(b) THEN RET_MATCHED_EXACTLY ELSE RET_NOT_MATCHED)
       ELSE pc' = "scan_a" /\ UNCHANGED ret
    /\ UNCHANGED <<args, it, aset, bset, a_has_null, d>>

(* Fault: duplicates of a are stored. *)
ScanAWithDuplicates ==
    /\ pc = "scan_a" /\ it < Len(a)
    /\ it' = it + 1
    /\ a_has_null' = (a_has_null \/ a[it + 1] = Null)
    /\ aset' = IF a[it + 1] = Null THEN aset ELSE Append(aset, a[it + 1])
    /\ UNCHANGED <<args, pc, bset, d, ret>>

(* One element of a. *)
ScanA ==
    /\ pc = "scan_a" /\ it < Len(a)
    /\ it' = it + 1
    /\ a_has_null' = (a_has_null \/ a[it + 1] = Null)
    /\ aset' = Stored(aset, a[it + 1])
    /\ UNCHANGED <<args, pc, bset, d, ret>>

ScanADone ==
    /\ pc = "scan_a" /\ it = Len(a)
    /\ pc' = "scan_b" /\ it' = 0
    /\ ret' = RET_MATCHED_WITHOUT_NULL
    /\ UNCHANGED <<args, aset, bset, a_has_null, d>>

(* One element of b that is NULL or in aset: an intersection is known from *)
(* the first value both arrays have.                                       *)
ScanBFound ==
    /\ pc = "scan_b" /\ it < Len(b)
    /\ it' = it + 1
    /\ LET v == b[it + 1] IN
       /\ v = Null \/ set_contains_value(aset, v)
       /\ IF v # Null /\ match_mode = MATCH_MODE_INTERSECTION
          THEN ReturnCode(RET_MATCHED_EXACTLY) /\ UNCHANGED bset
          ELSE bset' = Stored(bset, v) /\ UNCHANGED <<pc, ret>>
    /\ UNCHANGED <<args, aset, a_has_null, d>>

(* One value of b that aset lacks: a NULL of a may stand for it.  Where    *)
(* later values cannot change the outcome the loop is left.                *)
ScanBMissing ==
    /\ pc = "scan_b" /\ it < Len(b)
    /\ it' = it + 1
    /\ LET v == b[it + 1]
           leave == IF a_has_null THEN match_mode = MATCH_MODE_B_IN_A
                    ELSE match_mode # MATCH_MODE_INTERSECTION
       IN
       /\ v # Null /\ ~set_contains_value(aset, v)
       /\ ret' = IF a_has_null THEN RET_MATCHED_WITH_NULL ELSE RET_NOT_MATCHED
       /\ IF leave THEN pc' = "compare" /\ UNCHANGED bset
                   ELSE bset' = Stored(bset, v) /\ UNCHANGED pc
    /\ UNCHANGED <<args, aset, a_has_null, d>>

ScanBDone ==
    /\ pc = "scan_b" /\ it = Len(b)
    /\ pc' = "compare"
    /\ UNCHANGED <<args, it, aset, bset, a_has_null, d, ret>>

CompareLengths ==
    /\ pc = "compare"
    /\ ret' = IF ret = RET_MATCHED_WITHOUT_NULL /\ Len(aset) = Len(bset)
              THEN RET_MATCHED_EXACTLY ELSE ret
    /\ IF match_mode = MATCH_MODE_MUTUAL /\ Len(aset) > 0
       THEN pc' = "mutual" /\ d' = Len(aset)
       ELSE pc' = "compared" /\ UNCHANGED d
    /\ UNCHANGED <<args, it, aset, bset, a_has_null>>

(* Fault: continue goes to the top of the loop and d stays. *)
MutualContinues ==
    /\ pc = "mutual"
    /\ IF set_contains_value(bset, aset[d])
       THEN UNCHANGED <<pc, d, ret>>
       ELSE ReturnCode(RET_NOT_MATCHED) /\ UNCHANGED d
    /\ UNCHANGED <<args, it, aset, bset, a_has_null>>

(* One entry of aset, from the last to the first.  The continue of the     *)
(* do-while goes to its condition, which moves d.                          *)
Mutual ==
    /\ pc = "mutual"
    /\ IF set_contains_value(bset, aset[d])
       THEN /\ d' = d - 1
            /\ pc' = IF d > 1 THEN "mutual" ELSE "compared"
            /\ UNCHANGED ret
       ELSE ReturnCode(RET_NOT_MATCHED) /\ UNCHANGED d
    /\ UNCHANGED <<args, it, aset, bset, a_has_null>>

CompareNext ==
    \/ NullArgument \/ UnknownMode \/ EnterCompare
    \/ ScanA \/ ScanADone
    \/ ScanBFound \/ ScanBMissing \/ ScanBDone
    \/ CompareLengths \/ Mutual

CompareSpec == CompareInit /\ [][CompareNext]_compareVars

----------------------------------------------------------------------------
(***************************************************************************)
(* What the code means, on sets of values.                                 *)
(***************************************************************************)

(* How b's values do when only those of a, or a's NULL, may match them. *)
Covered ==
    IF Values(b) \subseteq Values(a)
    THEN IF Values(a) = Values(b) THEN RET_MATCHED_EXACTLY ELSE RET_MATCHED_WITHOUT_NULL
    ELSE IF Null \in Entries(a) THEN RET_MATCHED_WITH_NULL ELSE RET_NOT_MATCHED

Expected ==
    IF a = Null \/ b = Null THEN RET_NOT_MATCHED
    ELSE IF a = <<>> \/ b = <<>>
    THEN IF a = b THEN RET_MATCHED_EXACTLY ELSE RET_NOT_MATCHED
    ELSE IF match_mode = MATCH_MODE_MUTUAL /\ ~(Values(a) \subseteq Values(b))
    THEN RET_NOT_MATCHED
    ELSE IF match_mode = MATCH_MODE_INTERSECTION /\ Values(a) \intersect Values(b) # {}
    THEN RET_MATCHED_EXACTLY
    ELSE Covered

(* The result depends on the two sets of values, on whether a has a NULL   *)
(* and on the mode, never on order, repetition or the place where a loop   *)
(* was left (f_tag_compare.c:95-142; the tables of tests/tag_compare.sql). *)
VerdictMatchesSets == pc = "compared" => ret = Expected
============================================================================

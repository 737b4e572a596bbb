------------------------------ MODULE MCTags -------------------------------
(***************************************************************************)
(* One call of tag_compare or tag_action over all arrays of up to three    *)
(* elements.                                                               *)
(***************************************************************************)
EXTENDS TagCompare, TagAction

ShortArrays == UNION {[1..n -> Tags \union {Null}] : n \in 0..3}
AllModes == {Null, -1, 0, 1, 2, 3}
AllOps == {Null, 0, 1, 2, 3, 4, 5, 6}

compareOnly == <<a_has_null, d, ret>>
actionOnly == <<rset, room, result>>
tagVars == <<args, pc, it, aset, bset, compareOnly, actionOnly>>

TagsInit ==
    \/ CompareInit /\ rset = <<>> /\ room = 0 /\ result = <<>>
    \/ ActionInit /\ a_has_null = FALSE /\ d = 0 /\ ret = RET_NOT_MATCHED

TagsNext ==
    \/ CompareNext /\ UNCHANGED actionOnly
    \/ ActionNext /\ UNCHANGED compareOnly

TagsSpec == TagsInit /\ [][TagsNext]_tagVars
============================================================================

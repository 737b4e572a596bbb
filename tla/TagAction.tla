----------------------------- MODULE TagAction -----------------------------
(***************************************************************************)
(* tag_action(op, a, b), f_tag_action.c: removes, appends or intersects    *)
(* routing tags.  One step is one turn of one of the function's loops.     *)
(***************************************************************************)
EXTENDS TagArrays

CONSTANTS
    Ops,            \* operations, Null for none
    ChunkLimit      \* largest request that gets a chunk of a power of two,
                    \* ALLOC_CHUNK_LIMIT of PostgreSQL, which is 8192

ASSUME OpsAssumption == Ops \subseteq Int \union {Null} /\ Null \notin 1..5
ASSUME ChunkLimitAssumption == ChunkLimit \in Nat

OP_CLEAR == 1
OP_REMOVE == 2
OP_APPEND == 3
OP_INTERSECTION == 4
OP_REPLACE == 5

SizeOfDatum == 8

VARIABLES
    rset,               \* distinct values, as in aset
    room,               \* bytes of the chunk behind aset
    result              \* the SQL result

actionVars == <<args, pc, it, aset, bset, rset, room, result>>

op == args.op

(* External: palloc hands out chunks of powers of two, 8 bytes at least,   *)
(* and beyond the limit a block of its own for each chunk.  repalloc keeps *)
(* a chunk that is large enough, but not a block: that is resized to what  *)
(* is asked for, downwards too, as long as it remains one.                 *)
PowerOfTwo(size) ==
    2 ^ (CHOOSE k \in 3..(size + 3) : 2 ^ k >= size /\ \A j \in 3..(k - 1) : 2 ^ j < size)
MaxAligned(size) == ((size + 7) \div 8) * 8
Chunk(size) == IF size > ChunkLimit THEN MaxAligned(size) ELSE PowerOfTwo(size)
repalloc(chunk, size) ==
    IF chunk > ChunkLimit
      THEN MaxAligned(IF size > ChunkLimit THEN size ELSE ChunkLimit + 1)
      ELSE IF chunk >= size THEN chunk ELSE Chunk(size)

ActionInit ==
    /\ args \in [op : Ops, a : Arrays \union {Null}, b : Arrays \union {Null}]
    /\ pc = "tag_action" /\ it = 0
    /\ aset = <<>> /\ bset = <<>> /\ rset = <<>>
    /\ room = 0 /\ result = <<>>

ReturnArray(r) == pc' = "returned" /\ result' = r

(* NULL arguments, and the operations that need no set. *)
ReturnArgument ==
    /\ pc = "tag_action"
    /\ \/ (a = Null \/ b = Null) /\ ReturnArray(Null)
       \/ a # Null /\ b # Null /\ op = Null /\ ReturnArray(a)
       \/ a # Null /\ b # Null /\ op = OP_CLEAR /\ ReturnArray(<<>>)
       \/ a # Null /\ b # Null /\ op = OP_REPLACE /\ ReturnArray(b)
    /\ UNCHANGED <<args, it, aset, bset, rset, room>>

(* ereport(ERROR) leaves the function. *)
UnknownOperation ==
    /\ pc = "tag_action"
    /\ a # Null /\ b # Null
    /\ op \notin {Null, OP_CLEAR, OP_REMOVE, OP_APPEND, OP_INTERSECTION, OP_REPLACE}
    /\ pc' = "error"
    /\ UNCHANGED <<args, it, aset, bset, rset, room, result>>

EnterAction ==
    /\ pc = "tag_action"
    /\ a # Null /\ b # Null
    /\ op \in {OP_REMOVE, OP_APPEND, OP_INTERSECTION}
    /\ pc' = "fill_a"
    /\ room' = Chunk(Len(a) * SizeOfDatum)
    /\ UNCHANGED <<args, it, aset, bset, rset, result>>

(* One element of a. *)
FillA ==
    /\ pc = "fill_a" /\ it < Len(a)
    /\ it' = it + 1
    /\ aset' = Stored(aset, a[it + 1])
    /\ UNCHANGED <<args, pc, bset, rset, room, result>>

(* The values of aset lie in its chunk. *)
InChunk(values, chunk) == Len(values) * SizeOfDatum <= chunk

(* The array a is read: nothing to remove from an empty set, and room for  *)
(* appended values.  repalloc is given the number of values as its size:   *)
(* of values it cuts off, and of those written beyond the chunk later, no  *)
(* one knows what they are from then on, and the model stops.              *)
FillADone ==
    /\ pc = "fill_a" /\ it = Len(a)
    /\ it' = 0
    /\ \/ op = OP_REMOVE /\ aset = <<>> /\ ReturnArray(<<>>) /\ UNCHANGED room
       \/ op = OP_REMOVE /\ aset # <<>> /\ pc' = "fill_b" /\ UNCHANGED <<room, result>>
       \/ op = OP_APPEND /\ UNCHANGED result
          /\ room' = repalloc(room, Len(aset) + Len(b))
          /\ pc' = IF InChunk(aset, room') THEN "append" ELSE "overrun"
       \/ op = OP_INTERSECTION /\ pc' = "intersect" /\ UNCHANGED <<room, result>>
    /\ UNCHANGED <<args, aset, bset, rset>>

(* One element of b, to be removed. *)
FillB ==
    /\ pc = "fill_b" /\ it < Len(b)
    /\ it' = it + 1
    /\ bset' = Stored(bset, b[it + 1])
    /\ UNCHANGED <<args, pc, aset, rset, room, result>>

FillBDone ==
    /\ pc = "fill_b" /\ it = Len(b)
    /\ it' = 0
    /\ IF bset = <<>> THEN ReturnArray(aset) ELSE pc' = "remove" /\ UNCHANGED result
    /\ UNCHANGED <<args, aset, bset, rset, room>>

(* Fault: the test for membership is the wrong way round. *)
RemoveKeepsCommon ==
    /\ pc = "remove" /\ it < Len(aset)
    /\ it' = it + 1
    /\ rset' = IF ~set_contains_value(bset, aset[it + 1]) THEN rset
               ELSE Append(rset, aset[it + 1])
    /\ UNCHANGED <<args, pc, aset, bset, room, result>>

(* Fault: values are put before the ones already kept. *)
RemoveReverses ==
    /\ pc = "remove" /\ it < Len(aset)
    /\ it' = it + 1
    /\ rset' = IF set_contains_value(bset, aset[it + 1]) THEN rset
               ELSE <<aset[it + 1]>> \o rset
    /\ UNCHANGED <<args, pc, aset, bset, room, result>>

(* One entry of aset: kept unless b has it. *)
Remove ==
    /\ pc = "remove" /\ it < Len(aset)
    /\ it' = it + 1
    /\ rset' = IF set_contains_value(bset, aset[it + 1]) THEN rset
               ELSE Append(rset, aset[it + 1])
    /\ UNCHANGED <<args, pc, aset, bset, room, result>>

RemoveDone ==
    /\ pc = "remove" /\ it = Len(aset)
    /\ ReturnArray(rset)
    /\ UNCHANGED <<args, it, aset, bset, rset, room>>

(* One element of b, stored behind the values of a, over whatever lies     *)
(* there if the chunk ends before it.                                      *)
AppendB ==
    /\ pc = "append" /\ it < Len(b)
    /\ it' = it + 1
    /\ aset' = Stored(aset, b[it + 1])
    /\ pc' = IF InChunk(aset', room) THEN "append" ELSE "overrun"
    /\ UNCHANGED <<args, bset, rset, room, result>>

AppendDone ==
    /\ pc = "append" /\ it = Len(b)
    /\ ReturnArray(aset)
    /\ UNCHANGED <<args, it, aset, bset, rset, room>>

(* Fault: values already in the result are not looked for. *)
IntersectRepeats ==
    /\ pc = "intersect" /\ it < Len(b)
    /\ it' = it + 1
    /\ rset' = IF set_contains_value(aset, b[it + 1]) THEN Append(rset, b[it + 1]) ELSE rset
    /\ UNCHANGED <<args, pc, aset, bset, room, result>>

(* One element of b: kept once, if a has it. *)
Intersect ==
    /\ pc = "intersect" /\ it < Len(b)
    /\ it' = it + 1
    /\ rset' = IF set_contains_value(aset, b[it + 1]) THEN Stored(rset, b[it + 1]) ELSE rset
    /\ UNCHANGED <<args, pc, aset, bset, room, result>>

IntersectDone ==
    /\ pc = "intersect" /\ it = Len(b)
    /\ ReturnArray(rset)
    /\ UNCHANGED <<args, it, aset, bset, rset, room>>

ActionNext ==
    \/ ReturnArgument \/ UnknownOperation \/ EnterAction
    \/ FillA \/ FillADone
    \/ FillB \/ FillBDone \/ Remove \/ RemoveDone
    \/ AppendB \/ AppendDone
    \/ Intersect \/ IntersectDone

ActionSpec == ActionInit /\ [][ActionNext]_actionVars

----------------------------------------------------------------------------
Combining == op \in {OP_REMOVE, OP_APPEND, OP_INTERSECTION} /\ a # Null /\ b # Null

ExpectedValues ==
    IF op = OP_REMOVE THEN Values(a) \ Values(b)
    ELSE IF op = OP_APPEND THEN Values(a) \union Values(b)
    ELSE Values(a) \intersect Values(b)

(* What a combining operation returns is the difference, union or          *)
(* intersection of the two sets of values, each value once and no NULL,    *)
(* whichever of its returns the function takes (f_tag_action.c:108-202).   *)
ResultIsSetOperation ==
    (pc = "returned" /\ Combining) =>
        /\ Entries(result) = ExpectedValues
        /\ \A j, k \in 1..Len(result) : result[j] = result[k] => j = k

(* Values stay in the order in which the array they are read from has them *)
(* first: a, then b, or b alone for an intersection.                       *)
First(s, v) == CHOOSE k \in 1..Len(s) : s[k] = v /\ \A j \in 1..(k - 1) : s[j] # v

OrderKept ==
    (pc = "returned" /\ Combining) =>
        LET source == IF op = OP_INTERSECTION THEN b ELSE a \o b IN
        \A j, k \in 1..Len(result) :
            j < k => First(source, result[j]) < First(source, result[k])

(* rset has room for apos + 1 values (f_tag_action.c:133, 178): no more    *)
(* are ever written to it, whatever b repeats.                             *)
RsetFits == Len(rset) <= Len(aset)

(* "realloc aset to make space for possible values from array B"           *)
(* (f_tag_action.c:155): every value written to aset is in its chunk.      *)
AsetFits ==
    pc \in {"fill_a", "fill_b", "remove", "append", "intersect", "overrun"} =>
        InChunk(aset, room)
============================================================================

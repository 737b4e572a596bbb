----------------------------- MODULE TagArrays -----------------------------
(***************************************************************************)
(* Routing tags: SQL arrays of integers that may hold NULLs, read with     *)
(* array_iterate into C arrays of distinct values.  Shared by the models   *)
(* of tag_compare and tag_action.                                          *)
(***************************************************************************)
EXTENDS Integers, Sequences

CONSTANTS
    Tags,    \* the integers that occur in arrays
    Null,    \* SQL NULL, as an argument or as an element
    Arrays   \* the arrays the functions may be called with

ASSUME NullAssumption == Null \notin Tags

SqlArrays == Seq(Tags \union {Null})

ASSUME ArraysAssumption == Arrays \subseteq SqlArrays /\ Null \notin Arrays

(* A call of one of the functions.  Both fill aset and bset.               *)
VARIABLES
    args,         \* the SQL arguments
    pc,           \* the function entered, then the loop it is in
    it,           \* elements the array iterator has returned
    aset, bset    \* distinct values; apos = Len(aset) - 1

a == args.a
b == args.b

(* One of the first Len(s) entries of the C array is the value. *)
set_contains_value(s, value) == \E k \in 1..Len(s) : s[k] = value

(* What a filling loop does with an element: NULLs and values already      *)
(* stored are passed over.                                                 *)
Stored(s, v) == IF v = Null \/ set_contains_value(s, v) THEN s ELSE Append(s, v)

(* The values of an array as a set, for the reference definitions. *)
Entries(s) == {s[k] : k \in 1..Len(s)}
Values(s) == Entries(s) \ {Null}
============================================================================

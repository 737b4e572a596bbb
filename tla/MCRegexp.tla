------------------------------ MODULE MCRegexp ------------------------------
(***************************************************************************)
(* Queries that call a regexp_replace_rand function: rules and results of  *)
(* up to five chunks, with and without variables, and rules of up to ten   *)
(* of which the last one is the first that may match.                      *)
(***************************************************************************)
EXTENDS RegexpReplaceRand

CONSTANTS
    chunk1, chunk2,     \* chunks of rules, and texts that match them
    Other               \* any other text, piece or character

AllChunks == {chunk1, chunk2, Other, Empty, BadRegexp, RandChunk, DigitsChunk, VarChunk}
ChunksUpTo(S, k) == UNION {[1..l -> S] : l \in 1..k}
QueryRules ==
    ChunksUpTo({chunk1, chunk2, Empty}, 3)
    \union {NullArg, <<BadRegexp, chunk1>>, <<chunk2, VarChunk>>,
            <<chunk1, chunk2, Empty, chunk2>>,
            <<Other, Other, chunk2>>, <<Other, Other, Other, chunk1>>,
            <<Other, Other, Other, Other, chunk2>>}
QueryResults ==
    ChunksUpTo({Other, Empty}, 2)
    \union {NullArg, <<RandChunk>>, <<Other, RandChunk>>, <<Empty, VarChunk>>,
            <<Other, Empty, Other>>, [k \in 1..5 |-> Other]}
QueryOf(fns, consts, rules, opts, inputsets) ==
    [fn : fns, const : consts, rule : rules, result : QueryResults, opt : opts,
     keep_empty : BOOLEAN, vars : {NullArg, <<chunk1, chunk2>>}, inputs : inputsets]
SmallQueries ==
    QueryOf({"noopt"}, BOOLEAN, QueryRules, {Other}, {<<<<chunk1>>, <<chunk2>>>>})
    \union QueryOf({"array"}, {FALSE}, QueryRules, {Other},
                   {<<<<chunk2, chunk1, Other, chunk2, NullArg>>>>})
    \union QueryOf({"opt"}, BOOLEAN, {NullArg, <<chunk1>>, <<BadRegexp>>, <<chunk1, VarChunk>>},
                   {NullArg, Other}, {<<<<chunk1>>, <<Empty>>>>})
    \union QueryOf({"noopt", "opt", "array"}, {FALSE}, {<<chunk1>>, <<Empty>>}, {Other},
                   {<<<<Empty>>, <<NullArg>>>>, <<NullArg>>})
TenRules ==
    {[fn |-> "noopt", const |-> FALSE, rule |-> Append([k \in 1..others |-> Other], last),
      result |-> [k \in 1..10 |-> Other], opt |-> Other, keep_empty |-> FALSE,
      vars |-> NullArg, inputs |-> <<<<chunk2>>, <<chunk1>>>>] :
        others \in 0..9, last \in {chunk1, chunk2}}
============================================================================

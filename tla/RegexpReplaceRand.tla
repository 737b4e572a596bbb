------------------------- MODULE RegexpReplaceRand -------------------------
(***************************************************************************)
(* The regexp_replace_rand functions, f_regexp_replace_rand.c: rules and   *)
(* results are split at ||, and the first rule that matches the text gives *)
(* it the result of the same position.  A query calls one of them for      *)
(* several rows with one fcinfo, whose arguments the functions overwrite   *)
(* on their way.  A rule or result is the sequence of its chunks, a row    *)
(* the sequence of its texts, of one for the functions of a single text.   *)
(***************************************************************************)
EXTENDS Integers, Sequences, FiniteSetsExt

Seqs == INSTANCE SequencesExt

CONSTANTS
    NullArg,        \* SQL NULL
    Empty,          \* the empty text, and the empty chunk
    Chunks,         \* chunks of rules, of results and of the values of variables:
    BadRegexp,      \* one pg_regcomp refuses
    RandChunk,      \* one with a placeholder of replace(), and what it
    DigitsChunk,    \* becomes
    VarChunk,       \* one that is a placeholder of process_templates
    Queries,        \* [fn, const, rule, result, opt, keep_empty, vars, inputs]
    REGEXP_SPLIT_MAX_TOKENS

(* A text has at least one chunk, which may be empty. *)
ChunkedTexts == Seq(Chunks) \ {<<>>}

ASSUME RegexpAssumption ==
    /\ REGEXP_SPLIT_MAX_TOKENS \in Nat \ {0, 1}
    /\ {Empty, BadRegexp, RandChunk, DigitsChunk, VarChunk} \subseteq Chunks
    /\ \A q \in Queries : {q.rule, q.result, q.vars} \subseteq ChunkedTexts \union {NullArg}

VARIABLES
    query,
    fcinfo,         \* ARG_RULE and ARG_RESULT, and whose memory they are in
    restore,        \* those whose originals orig_rule and orig_result keep
    rx,             \* where the function is
    todo,           \* rows to come
    input,          \* texts of this row to come
    rule_ptr, result_ptr, n,
    built,          \* array_state, or ret
    outcomes        \* history: texts and what they became

regexpVars == <<query, fcinfo, restore, rx, todo, input,
                rule_ptr, result_ptr, n, built, outcomes>>

Given(t) == [text |-> t, palloced |-> FALSE]
Palloced(t) == [text |-> t, palloced |-> TRUE]      \* in the row's memory
Arguments == [rule |-> Given(query.rule), result |-> Given(query.result)]

(* External: the regexp engine.  A chunk matches the text equal to it; the *)
(* || left in a rule that is not split, and an empty rule, are empty       *)
(* branches, which match in front of any text.                             *)
MatchesWhole(rule, v) == \E k \in DOMAIN rule : rule[k] = v
Matches(rule, v) ==
    /\ \A k \in DOMAIN rule : rule[k] # BadRegexp
    /\ Len(rule) > 1 \/ rule = <<Empty>> \/ MatchesWhole(rule, v)

(* A text is what was put in and what is left of the input. *)
get_in_copy(v) == [by |-> <<Empty>>, rest |-> v]
Replaced(rule, result, v) ==
    [by |-> result, rest |-> IF MatchesWhole(rule, v) THEN Empty ELSE v]

(* What is returned when the rule is applied: the input if the rule is bad *)
(* or does not match, if the outcome is empty, or if an exception is       *)
(* caught.                                                                 *)
Outcome(rule, result, v) ==
    LET replaced == Replaced(rule, result, v) IN
    IF ~Matches(rule, v) THEN get_in_copy(v)
    ELSE IF replaced = get_in_copy(Empty) /\ ~query.keep_empty THEN get_in_copy(v)
    ELSE replaced

(* External: replace() and replace_placeholders(). *)
Randomized(t) == [k \in DOMAIN t |-> IF t[k] = RandChunk THEN DigitsChunk ELSE t[k]]
Substituted(t) ==
    Seqs!FlattenSeq([k \in DOMAIN t |-> IF t[k] = VarChunk THEN query.vars ELSE <<t[k]>>])

HasVars == query.vars # NullArg     \* and is a JSON object
Rule == IF HasVars THEN Substituted(query.rule) ELSE query.rule
Result ==
    IF HasVars THEN Substituted(Randomized(query.result)) ELSE Randomized(query.result)

HasToken(t) == Len(t) > 1           \* search_split_token finds a ||
FirstChunk(t) == <<t[1]>>                \* the text in front of it

RegexpInit ==
    /\ query \in Queries
    /\ fcinfo = Arguments /\ restore = {}
    /\ rx = "executor" /\ todo = query.inputs /\ input = <<>>
    /\ rule_ptr = <<>> /\ result_ptr = <<>> /\ n = 0
    /\ built = <<>> /\ outcomes = {}

(* External: the executor evaluates the arguments of the next row, but not *)
(* the constant ones, which stay in fcinfo.  The memory of the last row is *)
(* freed, with all that a call has left in fcinfo.                         *)
NextRow ==
    /\ rx = "executor" /\ todo # <<>>
    /\ input' = Head(todo) /\ todo' = Tail(todo)
    /\ fcinfo' = IF query.const THEN fcinfo ELSE Arguments
    /\ rx' = IF fcinfo'.rule.palloced \/ fcinfo'.result.palloced
             THEN "dangling" ELSE "enter"
    /\ built' = <<>> /\ restore' = {}
    /\ UNCHANGED <<query, rule_ptr, result_ptr, n, outcomes>>

Return(value) ==
    /\ rx' = "executor" /\ built' = value
    /\ UNCHANGED <<query, fcinfo, restore, todo, input, rule_ptr, result_ptr, n, outcomes>>

InputIsNull == input = NullArg \/ (query.fn # "array" /\ input = <<NullArg>>)
CopyOfInput ==
    [k \in DOMAIN input |-> IF input[k] = NullArg THEN NullArg ELSE get_in_copy(input[k])]

ReturnNull ==
    /\ rx = "enter"
    /\ \/ InputIsNull
       \/ query.fn = "opt" /\ query.opt = NullArg /\ query.rule # NullArg
    /\ Return(<<NullArg>>)

ReturnInput ==
    /\ rx = "enter" /\ ~InputIsNull
    /\ \/ query.rule = NullArg
       \/ /\ query.fn = "opt" => query.opt # NullArg
          /\ query.result = NullArg \/ query.rule = <<Empty>>
    /\ Return(CopyOfInput)

ArgumentsGiven ==
    /\ rx = "enter" /\ ~InputIsNull
    /\ query.rule \notin {NullArg, <<Empty>>} /\ query.result # NullArg
    /\ query.fn = "opt" => query.opt # NullArg

(* replace() found no memory. *)
ReplaceFails ==
    /\ ArgumentsGiven
    /\ Randomized(query.result) # query.result
    /\ Return(CopyOfInput)

(* The arguments are replaced by texts with random digits and variables,   *)
(* and what they held is kept.                                             *)
Prepare ==
    /\ ArgumentsGiven
    /\ restore' = (IF HasVars THEN {"rule", "result"} ELSE {})
                  \union (IF Randomized(query.result) # query.result THEN {"result"} ELSE {})
    /\ fcinfo' = [rule |-> IF "rule" \in restore' THEN Palloced(Rule) ELSE fcinfo.rule,
                  result |-> IF "result" \in restore' THEN Palloced(Result) ELSE fcinfo.result]
    /\ rx' = "element"
    /\ UNCHANGED <<query, todo, input, rule_ptr, result_ptr, n, built, outcomes>>

(* Fault: a new element begins at the chunks the last one has reached. *)
NextElementGoesOn ==
    /\ rx = "element" /\ input # <<>> /\ Head(input) # NullArg
    /\ n' = 0
    /\ IF built = <<>> THEN rule_ptr' = Rule /\ result_ptr' = Result
       ELSE UNCHANGED <<rule_ptr, result_ptr>>
    /\ rx' = IF query.fn = "opt" THEN "apply" ELSE "split"
    /\ UNCHANGED <<query, fcinfo, restore, todo, input, built, outcomes>>

NextElement ==
    /\ rx = "element" /\ input # <<>> /\ Head(input) # NullArg
    /\ n' = 0 /\ rule_ptr' = Rule /\ result_ptr' = Result
    /\ rx' = IF query.fn = "opt" THEN "apply" ELSE "split"
    /\ UNCHANGED <<query, fcinfo, restore, todo, input, built, outcomes>>

NullElement ==
    /\ rx = "element" /\ input # <<>> /\ Head(input) = NullArg
    /\ built' = Append(built, NullArg) /\ input' = Tail(input)
    /\ UNCHANGED <<query, fcinfo, restore, rx, todo, rule_ptr, result_ptr, n, outcomes>>

Finish(ret) ==
    /\ built' = Append(built, ret)
    /\ input' = Tail(input)
    /\ rx' = "element"

(* textregexreplace with the arguments of the call: an exception is caught *)
(* and the input returned.                                                 *)
Apply(arguments) ==
    LET v == Head(input)
        outcome == Outcome(arguments.rule.text, arguments.result.text, v)
    IN \/ Finish(outcome) /\ outcomes' = outcomes \union {<<v, outcome>>}
       \/ /\ Matches(arguments.rule.text, v)
          /\ Finish(get_in_copy(v)) /\ UNCHANGED outcomes

(* regexp_replace_rand with options does not split. *)
ApplyUnsplit ==
    /\ rx = "apply"
    /\ Apply(fcinfo)
    /\ UNCHANGED <<query, fcinfo, restore, todo, rule_ptr, result_ptr, n>>

(* More rules than results: the rest of the result is for this one. *)
ApplyLastResult ==
    /\ rx = "split" /\ HasToken(rule_ptr) /\ ~HasToken(result_ptr)
    /\ fcinfo' = [rule |-> Palloced(FirstChunk(rule_ptr)),
                  result |-> IF n > 0 THEN Palloced(result_ptr) ELSE fcinfo.result]
    /\ Apply(fcinfo')
    /\ UNCHANGED <<query, restore, todo, rule_ptr, result_ptr, n>>

ChunkArguments ==
    [rule |-> Palloced(FirstChunk(rule_ptr)), result |-> Palloced(FirstChunk(result_ptr))]
ChunkMatches == Matches(FirstChunk(rule_ptr), Head(input))

ApplyChunk ==
    /\ rx = "split" /\ HasToken(rule_ptr) /\ HasToken(result_ptr) /\ ChunkMatches
    /\ fcinfo' = ChunkArguments
    /\ Apply(fcinfo')
    /\ UNCHANGED <<query, restore, todo, rule_ptr, result_ptr, n>>

(* Fault: the result stays while the rule goes on. *)
SkipChunkKeepsResult ==
    /\ rx = "split" /\ HasToken(rule_ptr) /\ HasToken(result_ptr) /\ ~ChunkMatches
    /\ fcinfo' = ChunkArguments
    /\ n' = n + 1
    /\ IF n' >= REGEXP_SPLIT_MAX_TOKENS - 1 THEN UNCHANGED rule_ptr
       ELSE rule_ptr' = Tail(rule_ptr)
    /\ rx' = IF rule_ptr' = rule_ptr THEN "left" ELSE "split"
    /\ UNCHANGED <<query, restore, todo, input, result_ptr, built, outcomes>>

(* The next pair of chunks, unless the loop is left: too many of them, no  *)
(* rule or no result to come.  The pointers stay where they are then.      *)
SkipChunk ==
    /\ rx = "split" /\ HasToken(rule_ptr) /\ HasToken(result_ptr) /\ ~ChunkMatches
    /\ fcinfo' = ChunkArguments
    /\ n' = n + 1
    /\ LET full == n' >= REGEXP_SPLIT_MAX_TOKENS - 1
           no_rule == Tail(rule_ptr) = <<Empty>>
           no_result == Tail(result_ptr) = <<Empty>>
       IN /\ rule_ptr' = IF full THEN rule_ptr ELSE Tail(rule_ptr)
          /\ result_ptr' = IF full \/ no_rule THEN result_ptr ELSE Tail(result_ptr)
          /\ rx' = IF full \/ no_rule \/ no_result THEN "left" ELSE "split"
    /\ UNCHANGED <<query, restore, todo, input, built, outcomes>>

(* A loop left early ends the function of a single text, ... *)
LeaveScalar ==
    /\ rx = "left" /\ query.fn = "noopt"
    /\ Finish(get_in_copy(Head(input)))
    /\ outcomes' = outcomes \union {<<Head(input), get_in_copy(Head(input))>>}
    /\ UNCHANGED <<query, fcinfo, restore, todo, rule_ptr, result_ptr, n>>

(* ... but that of an array applies what the pointers are at.  Without a   *)
(* || in the rule, this is all there is.                                   *)
ApplyTail ==
    /\ \/ rx = "left" /\ query.fn = "array"
       \/ rx = "split" /\ ~HasToken(rule_ptr)
    /\ fcinfo' = [rule |-> IF n > 0 THEN Palloced(rule_ptr) ELSE fcinfo.rule,
                  result |-> IF HasToken(result_ptr) THEN Palloced(FirstChunk(result_ptr))
                             ELSE IF n > 0 THEN Palloced(result_ptr) ELSE fcinfo.result]
    /\ Apply(fcinfo')
    /\ UNCHANGED <<query, restore, todo, rule_ptr, result_ptr, n>>

(* Fault: only the result is put back. *)
ReturnRestoresResult ==
    /\ rx = "element" /\ input = <<>>
    /\ fcinfo' = [fcinfo EXCEPT
         !.result = IF "result" \in restore THEN Arguments.result ELSE @]
    /\ rx' = "executor"
    /\ UNCHANGED <<query, restore, todo, input, rule_ptr, result_ptr, n, built, outcomes>>

(* Originals that were kept are put back, not the others. *)
ReturnBuilt ==
    /\ rx = "element" /\ input = <<>>
    /\ fcinfo' = [arg \in DOMAIN fcinfo |->
                    IF arg \in restore THEN Arguments[arg] ELSE fcinfo[arg]]
    /\ rx' = "executor"
    /\ UNCHANGED <<query, restore, todo, input, rule_ptr, result_ptr, n, built, outcomes>>

RegexpNext ==
    \/ NextRow \/ ReturnNull \/ ReturnInput \/ ReplaceFails \/ Prepare
    \/ NextElement \/ NullElement
    \/ ApplyUnsplit \/ ApplyLastResult \/ ApplyChunk \/ SkipChunk
    \/ LeaveScalar \/ ApplyTail \/ ReturnBuilt

RegexpSpec == RegexpInit /\ [][RegexpNext]_regexpVars

----------------------------------------------------------------------------
(* What is meant: each rule has the result of its own position, and the    *)
(* first rule that matches gives the text its result.                      *)
Pairs == 1..Min({Len(Rule), Len(Result)})
IsFirstMatch(k, v) ==
    /\ Matches(<<Rule[k]>>, v)
    /\ \A l \in Pairs : l < k => ~Matches(<<Rule[l]>>, v)
MadeBy(k, v) == Outcome(<<Rule[k]>>, <<Result[k]>>, v)

(* Whether || ends a text, or an empty rule or result follows it, is left  *)
(* open (281-288).                                                         *)
EmptyEnd(k) ==
    /\ k > 1
    /\ (k = Len(Rule) /\ Rule[k] = Empty) \/ (k = Len(Result) /\ Result[k] = Empty)

(* No loop over an array is left early: the chunks are few and end in a    *)
(* rule and a result.                                                      *)
Regular ==
    /\ Len(Rule) < REGEXP_SPLIT_MAX_TOKENS
    /\ Len(Rule) > 1 => (Rule[Len(Rule)] # Empty /\ Result[Len(Result)] # Empty)

(* A text becomes what the first matching rule makes of it with its own    *)
(* result, in the function of an array as in that of a text, whatever the  *)
(* row or element before it has left in fcinfo, if the rule is one of      *)
(* those before the limit; and it stays as it is if none up to the limit   *)
(* matches.  The rule at the limit is ChunksToLimitTried's                 *)
(* (f_regexp_replace_rand.c:255-302, 555-618).                             *)
FirstMatchWins ==
    \A o \in outcomes : query.fn # "opt" =>
        /\ \A k \in Pairs :
              (IsFirstMatch(k, o[1]) /\ k < REGEXP_SPLIT_MAX_TOKENS /\ ~EmptyEnd(k))
                => o[2] = MadeBy(k, o[1])
        /\ (/\ query.fn = "noopt" \/ Regular
            /\ \A k \in Pairs :
                  k <= REGEXP_SPLIT_MAX_TOKENS => ~Matches(<<Rule[k]>>, o[1]))
              => o[2] = get_in_copy(o[1])

(* Of a rule for a single text, REGEXP_SPLIT_MAX_TOKENS chunks are tried   *)
(* ("regexp_replace_rand(text,text,text): limit regexp chunks to parse     *)
(* count to 10", debian/changelog:155; f_regexp_replace_rand.c:18, 276).   *)
ChunksToLimitTried ==
    \A o \in outcomes : query.fn = "noopt" =>
        \A k \in Pairs :
            (IsFirstMatch(k, o[1]) /\ k <= REGEXP_SPLIT_MAX_TOKENS /\ ~EmptyEnd(k))
              => o[2] = MadeBy(k, o[1])

(* Equal texts have equal outcomes in every row and element, also where    *)
(* the loop over an array is left early.                                   *)
ElementsIndependent == \A o1, o2 \in outcomes : o1[1] = o2[1] => o1[2] = o2[2]

(* A call finds the arguments of the query in fcinfo, not what the call    *)
(* before has left there ("restore fcinfo", f_regexp_replace_rand.c:308).  *)
ArgumentsRestored == rx # "dangling"

(* They are restored whatever chunk the call before stopped at, if         *)
(* variables were put into them, or if nothing was split                   *)
(* (f_regexp_replace_rand.c:217-228, 308-316).                             *)
SubstitutionUndone ==
    ~ArgumentsRestored =>
        /\ ~HasVars /\ query.fn # "opt"
        /\ HasToken(query.rule) \/ HasToken(query.result)
============================================================================

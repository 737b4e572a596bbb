---------------------- MODULE RegexpReplaceRandProofs ----------------------
(***************************************************************************)
(* The regexp_replace_rand functions, for rules and results of any number  *)
(* of chunks and queries of any number of rows.                            *)
(***************************************************************************)
EXTENDS RegexpReplaceRand, SequenceTheorems, WellFoundedInduction, TLAPS

LEMMA MinOfNaturals ==
  ASSUME NEW S \in SUBSET Nat, S # {}
  PROVE  Min(S) \in S /\ \A k \in S : Min(S) <= k
<1> DEFINE Below == OpToRel(<, Nat)
<1>1. IsWellFoundedOn(Below, Nat)
  BY NatLessThanWellFounded
<1>2. PICK m \in S : \A k \in S : ~ (<<k, m>> \in Below)
  <2>. HIDE DEF Below
  <2>. QED
    BY <1>1, WFMin
<1>3. \A k \in S : m <= k
  <2>. TAKE k \in S
  <2>1. k \in Nat /\ m \in Nat
    OBVIOUS
  <2>2. k < m => <<k, m>> \in Below
    BY <2>1 DEF OpToRel
  <2>. HIDE DEF Below
  <2>. QED
    BY <1>2, <2>1, <2>2
<1>. QED
  BY <1>3 DEF Min

(* What holds of 0 and of the successor of each number it holds of, holds  *)
(* of all numbers up to top.                                               *)
LEMMA UpTo ==
  ASSUME NEW top \in Nat, NEW P \in SUBSET Nat, 0 \in P,
         \A k \in 0..top : (k # top /\ k \in P) => k + 1 \in P
  PROVE  \A k \in 0..top : k \in P
<1>. DEFINE Missing == {k \in 0..top : k \notin P}
<1>. SUFFICES ASSUME Missing # {} PROVE FALSE
  OBVIOUS
<1>1. Missing \in SUBSET Nat
  OBVIOUS
<1>2. PICK m \in Missing : \A k \in Missing : m <= k
  <2>. HIDE DEF Missing
  <2>. QED
    BY <1>1, MinOfNaturals
<1>3. m \in Nat /\ m # 0 /\ m <= top /\ m \notin P
  OBVIOUS
<1>4. m - 1 \in 0..top /\ m - 1 # top /\ (m - 1) + 1 = m
  BY <1>3
<1>5. m - 1 \in P
  BY <1>2, <1>3, <1>4
<1>. QED
  BY <1>3, <1>4, <1>5

----------------------------------------------------------------------------
(* Texts of chunks stay such when they are changed. *)
LEMMA JoinedTexts ==
  ASSUME NEW s \in ChunkedTexts, NEW t \in ChunkedTexts
  PROVE  s \o t \in ChunkedTexts
<1>1. s \in Seq(Chunks) /\ t \in Seq(Chunks) /\ s # <<>> /\ t # <<>>
  BY DEF ChunkedTexts
<1>2. s \o t \in Seq(Chunks) /\ Len(s \o t) = Len(s) + Len(t)
  BY <1>1, ConcatProperties
<1>3. Len(s) \in Nat \ {0} /\ Len(t) \in Nat
  BY <1>1, EmptySeq
<1>4. Len(<<>>) = 0
  BY EmptySeq
<1>5. s \o t # <<>>
  BY <1>2, <1>3, <1>4
<1>. QED
  BY <1>2, <1>5 DEF ChunkedTexts

LEMMA FlattenedText ==
  ASSUME NEW s \in Seq(ChunkedTexts), s # <<>>
  PROVE  Seqs!FlattenSeq(s) \in ChunkedTexts
<1>. DEFINE N == Len(s)
            Step(f, i) == IF i = 1 THEN s[i] ELSE f[i - 1] \o s[i]
            Part(f, m) == \A i \in 1..m : f[i] \in ChunkedTexts /\ f[i] = Step(f, i)
            P == {m \in Nat : m <= N => \E f : Part(f, m)}
            flat == CHOOSE f : f = [i \in 1..N |-> Step(f, i)]
<1>1. N \in Nat /\ N # 0 /\ \A i \in 1..N : s[i] \in ChunkedTexts
  BY EmptySeq
<1>. HIDE DEF N
<1>2. 0 \in P
  <2>1. Part(<<>>, 0)
    OBVIOUS
  <2>2. \E f : Part(f, 0)
    <3>. HIDE DEF Part
    <3>. QED
      BY <2>1
  <2>. HIDE DEF Part
  <2>. QED
    BY <2>2
<1>3. ASSUME NEW m \in 0..N, m # N, m \in P PROVE m + 1 \in P
  <2>1. PICK f : Part(f, m)
    BY <1>1, <1>3
  <2>. DEFINE j == m + 1
              g == [i \in 1..j |-> IF i = j THEN Step(f, j) ELSE f[i]]
  <2>2. m \in Nat /\ j \in Nat /\ j \in 1..N /\ j - 1 = m
    BY <1>1, <1>3
  <2>3. Step(f, j) \in ChunkedTexts
    <3>1. CASE j = 1
      BY <1>1, <2>2, <3>1
    <3>2. CASE j # 1
      <4>1. f[m] \in ChunkedTexts
        BY <2>1, <2>2, <3>2
      <4>. QED
        BY <1>1, <2>2, <3>2, <4>1, JoinedTexts
    <3>. QED
      BY <3>1, <3>2
  <2>. HIDE DEF Step
  <2>4. g[j] = Step(f, j) /\ \A i \in 1..m : g[i] = f[i]
    BY <2>2
  <2>. HIDE DEF g
  <2>5. \A i \in 1..j : Step(g, i) = Step(f, i)
    <3>1. \A i \in 1..j : i # 1 => i - 1 \in 1..m
      BY <2>2
    <3>. QED
      BY <2>4, <3>1 DEF Step
  <2>6. \A i \in 1..j : g[i] \in ChunkedTexts /\ g[i] = Step(g, i)
    <3>1. \A i \in 1..j : i = j \/ i \in 1..m
      BY <2>2
    <3>. QED
      BY <2>1, <2>3, <2>4, <2>5, <3>1
  <2>7. \E h : Part(h, j)
    <3>1. Part(g, j)
      BY <2>6
    <3>. HIDE DEF Part
    <3>. QED
      BY <3>1
  <2>. HIDE DEF Part
  <2>. QED
    BY <2>2, <2>7
<1>4. PICK f : Part(f, N)
  <2>1. N \in P
    <3>. HIDE DEF P
    <3>1. P \in SUBSET Nat
      BY DEF P
    <3>2. \A k \in 0..N : (k # N /\ k \in P) => k + 1 \in P
      BY <1>3
    <3>3. N \in Nat
      BY <1>1
    <3>4. \A k \in 0..N : k \in P
      BY <1>2, <3>1, <3>2, <3>3, UpTo
    <3>. QED
      BY <3>3, <3>4
  <2>. HIDE DEF Part
  <2>. QED
    BY <1>1, <2>1
<1>5. \E e : e = [i \in 1..N |-> Step(e, i)]
  <2>. DEFINE e == [i \in 1..N |-> f[i]]
  <2>1. \A i \in 1..N : e[i] = Step(e, i)
    <3>1. \A i \in 1..N : i # 1 => i - 1 \in 1..N
      BY <1>1
    <3>. QED
      BY <1>4, <3>1
  <2>2. e = [i \in 1..N |-> Step(e, i)]
    BY <2>1
  <2>. QED
    BY <2>2
<1>6. flat = [i \in 1..N |-> Step(flat, i)]
  <2>. HIDE DEF Step
  <2>. QED
    BY <1>5
<1>. HIDE DEF flat
<1>7. flat[N] \in ChunkedTexts
  <2>. DEFINE Q == {m \in Nat : m = 0 \/ flat[m] \in ChunkedTexts}
  <2>1. ASSUME NEW m \in 0..N, m # N, m \in Q PROVE m + 1 \in Q
    <3>. DEFINE j == m + 1
    <3>1. j \in 1..N /\ j \in Nat /\ j - 1 = m
      BY <1>1, <2>1
    <3>2. flat[j] = Step(flat, j)
      BY <1>6, <3>1
    <3>3. Step(flat, j) \in ChunkedTexts
      <4>1. CASE j = 1
        BY <1>1, <3>1, <4>1
      <4>2. CASE j # 1
        <5>1. flat[m] \in ChunkedTexts
          BY <2>1, <3>1, <4>2
        <5>. QED
          BY <1>1, <3>1, <4>2, <5>1, JoinedTexts
      <4>. QED
        BY <4>1, <4>2
    <3>. HIDE DEF Step
    <3>. QED
      BY <3>1, <3>2, <3>3
  <2>2. N \in Q
    <3>1. 0 \in Q
      OBVIOUS
    <3>. HIDE DEF Q
    <3>2. Q \in SUBSET Nat
      BY DEF Q
    <3>3. \A k \in 0..N : (k # N /\ k \in Q) => k + 1 \in Q
      BY <2>1
    <3>4. N \in Nat
      BY <1>1
    <3>5. \A k \in 0..N : k \in Q
      BY <3>1, <3>2, <3>3, <3>4, UpTo
    <3>. QED
      BY <3>4, <3>5
  <2>. QED
    BY <1>1, <2>2
<1>8. Seqs!FlattenSeq(s) = flat[N]
  BY <1>1 DEF Seqs!FlattenSeq, flat, N
<1>. QED
  BY <1>7, <1>8

QueryOK == {query.rule, query.result, query.vars} \subseteq ChunkedTexts \union {NullArg}

LEMMA RandomizedText ==
  ASSUME NEW t \in ChunkedTexts
  PROVE  Randomized(t) \in ChunkedTexts /\ Len(Randomized(t)) = Len(t)
<1>1. t \in Seq(Chunks) /\ Len(t) \in Nat \ {0} /\ DOMAIN t = 1..Len(t)
  BY EmptySeq DEF ChunkedTexts
<1>. DEFINE u == [k \in 1..Len(t) |-> IF t[k] = RandChunk THEN DigitsChunk ELSE t[k]]
<1>2. Randomized(t) = u
  BY <1>1 DEF Randomized
<1>3. u \in Seq(Chunks) /\ Len(u) = Len(t)
  BY <1>1, RegexpAssumption
<1>4. u # <<>>
  BY <1>1, <1>3, EmptySeq
<1>. QED
  BY <1>2, <1>3, <1>4 DEF ChunkedTexts

LEMMA SubstitutedText ==
  ASSUME QueryOK, HasVars, NEW t \in ChunkedTexts
  PROVE  Substituted(t) \in ChunkedTexts
<1>1. t \in Seq(Chunks) /\ Len(t) \in Nat \ {0} /\ DOMAIN t = 1..Len(t)
  BY EmptySeq DEF ChunkedTexts
<1>2. query.vars \in ChunkedTexts
  BY DEF QueryOK, HasVars
<1>. DEFINE u == [k \in 1..Len(t) |-> IF t[k] = VarChunk THEN query.vars ELSE <<t[k]>>]
<1>3. \A k \in 1..Len(t) : <<t[k]>> \in ChunkedTexts
  <2>. TAKE k \in 1..Len(t)
  <2>1. <<t[k]>> \in Seq(Chunks) /\ Len(<<t[k]>>) = 1
    BY <1>1
  <2>2. <<t[k]>> # <<>>
    BY <2>1, EmptySeq
  <2>. QED
    BY <2>1, <2>2 DEF ChunkedTexts
<1>4. u \in Seq(ChunkedTexts) /\ Len(u) = Len(t)
  BY <1>1, <1>2, <1>3
<1>5. u # <<>>
  BY <1>1, <1>4, EmptySeq
<1>6. Substituted(t) = Seqs!FlattenSeq(u)
  BY <1>1 DEF Substituted
<1>. HIDE DEF u
<1>. QED
  BY <1>4, <1>5, <1>6, FlattenedText

(* The rule and the result of a call have chunks. *)
LEMMA RuleAndResult ==
  ASSUME QueryOK, query.rule # NullArg, query.result # NullArg
  PROVE  /\ Rule \in Seq(Chunks) /\ Len(Rule) \in Nat \ {0}
         /\ Result \in Seq(Chunks) /\ Len(Result) \in Nat \ {0}
         /\ ~HasVars => Rule = query.rule /\ Len(Result) = Len(query.result)
<1>1. query.rule \in ChunkedTexts /\ query.result \in ChunkedTexts
  BY DEF QueryOK
<1>2. /\ Randomized(query.result) \in ChunkedTexts
      /\ Len(Randomized(query.result)) = Len(query.result)
  BY <1>1, RandomizedText
<1>3. Rule \in ChunkedTexts /\ Result \in ChunkedTexts
  BY <1>1, <1>2, SubstitutedText DEF Rule, Result
<1>4. \A t \in ChunkedTexts : t \in Seq(Chunks) /\ Len(t) \in Nat \ {0}
  BY EmptySeq DEF ChunkedTexts
<1>. QED
  BY <1>2, <1>3, <1>4 DEF Rule, Result

(* The chunks behind the first m. *)
Rest(t, m) == [k \in 1..(Len(t) - m) |-> t[m + k]]

(* Where the loop over pairs is left early, if no pair up to there         *)
(* matches, and what its pointers are at then.                             *)
Full(m) == m >= REGEXP_SPLIT_MAX_TOKENS - 1
NoRuleAfter(m) == m + 1 = Len(Rule) /\ Rule[m + 1] = Empty
NoResultAfter(m) == m + 1 = Len(Result) /\ Result[m + 1] = Empty
LeftAfter ==
    {m \in 1..Len(Rule) :
        /\ m < Len(Rule) /\ m < Len(Result)
        /\ Full(m) \/ NoRuleAfter(m) \/ NoResultAfter(m)}
LeftRule(m) == Rest(Rule, IF Full(m) THEN m - 1 ELSE m)
LeftResult(m) == Rest(Result, IF Full(m) \/ NoRuleAfter(m) THEN m - 1 ELSE m)
LeftOutcome(m, v) ==
    Outcome(LeftRule(m),
            IF HasToken(LeftResult(m)) THEN FirstChunk(LeftResult(m)) ELSE LeftResult(m), v)

(* The pairs that are tried: those before the limit and before an empty    *)
(* rule or result at the end.                                              *)
TriedPairs ==
    {k \in 1..Min({Len(Rule), Len(Result), REGEXP_SPLIT_MAX_TOKENS - 1}) :
        /\ (k > 1 /\ k = Len(Rule)) => Rule[k] # Empty
        /\ (k > 1 /\ k = Len(Result)) => Result[k] # Empty}

FirstTried(v) ==
    LET matching == {k \in TriedPairs : Matches(<<Rule[k]>>, v)} IN
    IF matching = {} THEN get_in_copy(v)
    ELSE Outcome(<<Rule[Min(matching)]>>, <<Result[Min(matching)]>>, v)

NoPairMatches(v) == \A k \in TriedPairs : ~Matches(<<Rule[k]>>, v)

(* What the text becomes depends on the query alone. *)
Settled(v) ==
    IF query.fn = "opt" THEN Outcome(Rule, Result, v)
    ELSE IF query.fn = "array" /\ LeftAfter # {} /\ NoPairMatches(v)
         THEN LeftOutcome(Min(LeftAfter), v)
    ELSE FirstTried(v)

(* What depends on the query alone does not change. *)
LEMMA SameQuery ==
  ASSUME query' = query
  PROVE  /\ HasVars' = HasVars /\ QueryOK' = QueryOK /\ Arguments' = Arguments
         /\ Rule' = Rule /\ Result' = Result
         /\ TriedPairs' = TriedPairs /\ LeftAfter' = LeftAfter
         /\ \A m : LeftRule(m)' = LeftRule(m) /\ LeftResult(m)' = LeftResult(m)
         /\ \A v : Settled(v)' = Settled(v)
<1>1. /\ HasVars' = HasVars /\ QueryOK' = QueryOK /\ Arguments' = Arguments
      /\ \A t : Randomized(t)' = Randomized(t)
  BY DEF HasVars, QueryOK, Arguments, Randomized
<1>2. \A t : Substituted(t)' = Substituted(t)
  BY DEF Substituted
<1>3. Rule' = Rule /\ Result' = Result
  BY <1>1, <1>2 DEF Rule, Result
<1>4. \A rule, result, v : Outcome(rule, result, v)' = Outcome(rule, result, v)
  BY DEF Outcome
<1>5. TriedPairs' = TriedPairs
  BY <1>3 DEF TriedPairs
<1>6. \A v : FirstTried(v)' = FirstTried(v)
  BY <1>3, <1>4, <1>5 DEF FirstTried
<1>7. \A m : NoRuleAfter(m)' = NoRuleAfter(m) /\ NoResultAfter(m)' = NoResultAfter(m)
  BY <1>3 DEF NoRuleAfter, NoResultAfter
<1>8. LeftAfter' = LeftAfter
  BY <1>3, <1>7 DEF LeftAfter
<1>9. \A m : LeftRule(m)' = LeftRule(m) /\ LeftResult(m)' = LeftResult(m)
  BY <1>3, <1>7 DEF LeftRule, LeftResult
<1>10. \A m, v : LeftOutcome(m, v)' = LeftOutcome(m, v)
  BY <1>4, <1>9 DEF LeftOutcome
<1>11. \A v : NoPairMatches(v)' = NoPairMatches(v)
  BY <1>3, <1>5 DEF NoPairMatches
<1>12. \A v : Settled(v)' = Settled(v)
  BY <1>3, <1>4, <1>6, <1>8, <1>10, <1>11 DEF Settled
<1>. QED
  BY <1>1, <1>3, <1>5, <1>8, <1>9, <1>12

----------------------------------------------------------------------------
(* A call that found arguments to work with. *)
InCall == rx \in {"element", "split", "apply", "left"}

Args == {"rule", "result"}

(* Chunks may stay behind in fcinfo only here. *)
Excused ==
    /\ ~HasVars /\ query.fn # "opt"
    /\ HasToken(query.rule) \/ HasToken(query.result)

(* fcinfo holds what the executor gave, or a text of this row that         *)
(* ReturnBuilt takes out again, or one that is excused.  A rule or result  *)
(* that is not split is there as a whole.                                  *)
ArgsKept ==
    /\ \A arg \in Args :
        /\ fcinfo[arg] = Arguments[arg] \/ fcinfo[arg] = Palloced(fcinfo[arg].text)
        /\ fcinfo[arg] # Arguments[arg] => arg \in restore \/ Excused
    /\ HasVars => restore = Args
    /\ Len(Rule) = 1 => fcinfo.rule.text = Rule
    /\ Len(Result) = 1 => fcinfo.result.text = Result
    /\ query.fn = "opt" => fcinfo.rule.text = Rule /\ fcinfo.result.text = Result

CallShape ==
    /\ query \in Queries
    /\ rx \in {"executor", "enter", "dangling", "element", "split", "apply", "left"}
    /\ fcinfo = [rule |-> fcinfo.rule, result |-> fcinfo.result]
    /\ rx = "apply" => query.fn = "opt"
    /\ rx \in {"split", "left"} => query.fn # "opt"
    /\ InCall => query.rule # NullArg /\ query.result # NullArg

ArgsInv ==
    /\ rx = "executor" =>
        \A arg \in Args :
            \/ fcinfo[arg] = Arguments[arg]
            \/ fcinfo[arg] = Palloced(fcinfo[arg].text) /\ Excused
    /\ rx = "dangling" => Excused
    /\ rx = "enter" => fcinfo = Arguments
    /\ InCall => ArgsKept

(* The loop over chunks has come to pair n + 1, and none before matches. *)
Reached ==
    /\ n \in Nat /\ n <= REGEXP_SPLIT_MAX_TOKENS - 2
    /\ n < Len(Rule) /\ n < Len(Result)
    /\ rule_ptr \in Seq(Chunks) /\ Len(rule_ptr) = Len(Rule) - n
    /\ \A k \in 1..Len(rule_ptr) : rule_ptr[k] = Rule[n + k]
    /\ result_ptr \in Seq(Chunks) /\ Len(result_ptr) = Len(Result) - n
    /\ \A k \in 1..Len(result_ptr) : result_ptr[k] = Result[n + k]
    /\ n > 0 => /\ n + 1 = Len(Rule) => Rule[n + 1] # Empty
                /\ n + 1 = Len(Result) => Result[n + 1] # Empty
    /\ \A k \in 1..n : ~Matches(<<Rule[k]>>, Head(input))
    /\ \A k \in 1..n : k \notin LeftAfter

(* The loop was left early: no pair that is tried matches. *)
GivenUp ==
    /\ n > 0 /\ Len(Rule) > 1 /\ Len(Result) > 1
    /\ n \in LeftAfter /\ \A m \in LeftAfter : n <= m
    /\ rule_ptr = LeftRule(n) /\ result_ptr = LeftResult(n)
    /\ NoPairMatches(Head(input))

PointersInv ==
    /\ rx = "split" => Reached
    /\ rx = "left" => GivenUp

OutcomesSettled ==
    \A o \in outcomes :
        /\ query.rule # NullArg /\ query.result # NullArg
        /\ o[2] = Settled(o[1])

CallInv == CallShape /\ ArgsInv /\ PointersInv /\ OutcomesSettled

LEMMA QueriesOK == query \in Queries => QueryOK
  BY RegexpAssumption DEF QueryOK

(* The pairs that are tried. *)
LEMMA TriedPairsAre ==
  ASSUME Len(Rule) \in Nat, Len(Result) \in Nat
  PROVE  \A k : k \in TriedPairs <=>
           /\ k \in Nat /\ k >= 1 /\ k <= Len(Rule) /\ k <= Len(Result)
           /\ k <= REGEXP_SPLIT_MAX_TOKENS - 1
           /\ (k > 1 /\ k = Len(Rule)) => Rule[k] # Empty
           /\ (k > 1 /\ k = Len(Result)) => Result[k] # Empty
<1>. DEFINE S == {Len(Rule), Len(Result), REGEXP_SPLIT_MAX_TOKENS - 1}
            m == Min(S)
<1>1. REGEXP_SPLIT_MAX_TOKENS - 1 \in Nat
  BY RegexpAssumption
<1>2. S \in SUBSET Nat /\ S # {}
  BY <1>1
<1>3. m \in S /\ \A k \in S : m <= k
  <2>. HIDE DEF S
  <2>. QED
    BY <1>2, MinOfNaturals
<1>4. \A k \in Nat : k <= m <=>
        k <= Len(Rule) /\ k <= Len(Result) /\ k <= REGEXP_SPLIT_MAX_TOKENS - 1
  <2>. HIDE DEF m
  <2>. QED
    BY <1>1, <1>3
<1>5. m \in Nat
  BY <1>2, <1>3
<1>6. TriedPairs = {k \in 1..m :
                     /\ (k > 1 /\ k = Len(Rule)) => Rule[k] # Empty
                     /\ (k > 1 /\ k = Len(Result)) => Result[k] # Empty}
  BY DEF TriedPairs
<1>. HIDE DEF m
<1>. QED
  BY <1>4, <1>5, <1>6

(* The pair the loop has come to. *)
LEMMA ThisPair ==
  ASSUME CallShape, InCall, Reached
  PROVE  /\ n + 1 \in TriedPairs
         /\ HasToken(rule_ptr) <=> n + 1 < Len(Rule)
         /\ HasToken(result_ptr) <=> n + 1 < Len(Result)
         /\ FirstChunk(rule_ptr) = <<Rule[n + 1]>>
         /\ FirstChunk(result_ptr) = <<Result[n + 1]>>
         /\ ~HasToken(rule_ptr) => n + 1 = Len(Rule) /\ rule_ptr = <<Rule[n + 1]>>
         /\ ~HasToken(result_ptr) => n + 1 = Len(Result) /\ result_ptr = <<Result[n + 1]>>
<1>1. /\ Rule \in Seq(Chunks) /\ Len(Rule) \in Nat \ {0}
      /\ Result \in Seq(Chunks) /\ Len(Result) \in Nat \ {0}
  BY QueriesOK, RuleAndResult DEF CallShape
<1>2. n \in Nat /\ n < Len(Rule) /\ n < Len(Result) /\ n <= REGEXP_SPLIT_MAX_TOKENS - 2
  BY DEF Reached
<1>3. n + 1 \in TriedPairs
  <2>1. /\ n + 1 \in Nat /\ n + 1 >= 1 /\ n + 1 <= Len(Rule) /\ n + 1 <= Len(Result)
        /\ n + 1 <= REGEXP_SPLIT_MAX_TOKENS - 1
    BY <1>1, <1>2, RegexpAssumption
  <2>2. /\ (n + 1 > 1 /\ n + 1 = Len(Rule)) => Rule[n + 1] # Empty
        /\ (n + 1 > 1 /\ n + 1 = Len(Result)) => Result[n + 1] # Empty
    BY <1>2 DEF Reached
  <2>. QED
    BY <1>1, <2>1, <2>2, TriedPairsAre
<1>4. /\ rule_ptr \in Seq(Chunks) /\ Len(rule_ptr) = Len(Rule) - n
      /\ rule_ptr[1] = Rule[n + 1]
      /\ result_ptr \in Seq(Chunks) /\ Len(result_ptr) = Len(Result) - n
      /\ result_ptr[1] = Result[n + 1]
  <2>1. 1 \in 1..Len(rule_ptr) /\ 1 \in 1..Len(result_ptr)
    BY <1>1, <1>2 DEF Reached
  <2>. QED
    BY <2>1 DEF Reached
<1>5. /\ HasToken(rule_ptr) <=> n + 1 < Len(Rule)
      /\ HasToken(result_ptr) <=> n + 1 < Len(Result)
      /\ ~HasToken(rule_ptr) => n + 1 = Len(Rule) /\ Len(rule_ptr) = 1
      /\ ~HasToken(result_ptr) => n + 1 = Len(Result) /\ Len(result_ptr) = 1
  BY <1>1, <1>2, <1>4 DEF HasToken
<1>6. \A t \in Seq(Chunks) : Len(t) = 1 => t = <<t[1]>>
  OBVIOUS
<1>. QED
  BY <1>3, <1>4, <1>5, <1>6 DEF FirstChunk

(* Applying the pair settles the outcome, if the pair matches or is the    *)
(* last one.                                                               *)
LEMMA PairApplied ==
  ASSUME CallShape, InCall, Reached, query.fn # "opt",
         \/ n + 1 = Len(Rule) \/ n + 1 = Len(Result)
         \/ Matches(<<Rule[n + 1]>>, Head(input))
  PROVE  Outcome(<<Rule[n + 1]>>, <<Result[n + 1]>>, Head(input)) = Settled(Head(input))
<1>. DEFINE v == Head(input)
            matching == {k \in TriedPairs : Matches(<<Rule[k]>>, v)}
<1>1. Len(Rule) \in Nat /\ Len(Result) \in Nat /\ n \in Nat
  BY QueriesOK, RuleAndResult DEF CallShape, Reached
<1>2. n + 1 \in TriedPairs
  BY ThisPair
<1>3. \A k \in matching : k \in Nat /\ k >= n + 1
  <2>. SUFFICES ASSUME NEW k \in matching PROVE k \in Nat /\ k >= n + 1
    OBVIOUS
  <2>1. k \in TriedPairs /\ Matches(<<Rule[k]>>, v)
    OBVIOUS
  <2>2. k \in Nat /\ k >= 1
    BY <1>1, <2>1, TriedPairsAre
  <2>3. ~ (k \in 1..n)
    BY <2>1 DEF Reached
  <2>. QED
    BY <1>1, <2>2, <2>3
<1>4. FirstTried(v) = IF matching = {} THEN get_in_copy(v)
                      ELSE Outcome(<<Rule[Min(matching)]>>, <<Result[Min(matching)]>>, v)
  BY DEF FirstTried
<1>5. CASE Matches(<<Rule[n + 1]>>, v)
  <2>1. n + 1 \in matching
    BY <1>2, <1>5
  <2>. HIDE DEF matching
  <2>2. matching \in SUBSET Nat /\ matching # {}
    BY <1>3, <2>1
  <2>3. Min(matching) = n + 1
    <3>1. Min(matching) \in matching /\ Min(matching) <= n + 1
      BY <2>1, <2>2, MinOfNaturals
    <3>. QED
      BY <1>1, <1>3, <3>1
  <2>. QED
    <3>1. ~NoPairMatches(v)
      BY <1>2, <1>5 DEF NoPairMatches
    <3>. QED
      BY <1>4, <2>2, <2>3, <3>1 DEF Settled
<1>6. CASE ~Matches(<<Rule[n + 1]>>, v)
  <2>1. matching = {}
    <3>. SUFFICES ASSUME NEW k \in matching PROVE FALSE
      OBVIOUS
    <3>1. k \in TriedPairs /\ Matches(<<Rule[k]>>, v)
      OBVIOUS
    <3>2. k \in Nat /\ k >= n + 1 /\ k <= Len(Rule) /\ k <= Len(Result)
      BY <1>1, <1>3, <3>1, TriedPairsAre
    <3>3. k = n + 1
      BY <1>1, <1>6, <3>2
    <3>. QED
      BY <1>6, <3>1, <3>3
  <2>2. Outcome(<<Rule[n + 1]>>, <<Result[n + 1]>>, v) = get_in_copy(v)
    BY <1>6 DEF Outcome
  <2>3. LeftAfter = {}
    <3>. SUFFICES ASSUME NEW m \in LeftAfter PROVE FALSE
      OBVIOUS
    <3>1. m \in Nat /\ m >= 1 /\ m < Len(Rule) /\ m < Len(Result)
      BY <1>1 DEF LeftAfter
    <3>2. m \in 1..n
      BY <1>1, <1>6, <3>1
    <3>. QED
      BY <3>2 DEF Reached
  <2>. QED
    BY <1>4, <2>1, <2>2, <2>3 DEF Settled
<1>. QED
  BY <1>5, <1>6

----------------------------------------------------------------------------
LEMMA RestIs ==
  ASSUME NEW t \in Seq(Chunks), NEW m \in Nat,
         NEW u \in Seq(Chunks), Len(t) = Len(u) - m, m < Len(u),
         \A k \in 1..Len(t) : t[k] = u[m + k]
  PROVE  t = Rest(u, m)
  BY DEF Rest

LEMMA OneChunk ==
  ASSUME NEW t \in Seq(Chunks), NEW chunk
  PROVE  t = <<chunk>> <=> Len(t) = 1 /\ t[1] = chunk
  OBVIOUS

(* What an outcome adds to the history. *)
LEMMA OneMoreOutcome ==
  ASSUME OutcomesSettled, CallShape, InCall, query' = query, NEW v, NEW outcome,
         outcomes' \in {outcomes, outcomes \union {<<v, outcome>>}},
         outcome = Settled(v)
  PROVE  OutcomesSettled'
<1>1. query.rule # NullArg /\ query.result # NullArg
  BY DEF CallShape
<1>2. ASSUME NEW o \in outcomes' PROVE o[2] = Settled(o[1])
  <2>1. CASE o \in outcomes
    BY <2>1 DEF OutcomesSettled
  <2>2. CASE o = <<v, outcome>>
    BY <2>2
  <2>. QED
    BY <2>1, <2>2
<1>. QED
  BY <1>1, <1>2, SameQuery DEF OutcomesSettled

LEMMA OutcomesStay ==
  ASSUME OutcomesSettled, query' = query, outcomes' = outcomes
  PROVE  OutcomesSettled'
  BY SameQuery DEF OutcomesSettled

(* A step within a call that leaves fcinfo as it is. *)
LEMMA ArgsStay ==
  ASSUME ArgsKept, query' = query, fcinfo' = fcinfo, restore' = restore
  PROVE  ArgsKept'
<1>1. Excused' = Excused
  BY SameQuery DEF Excused
<1>. QED
  BY <1>1, SameQuery DEF ArgsKept

(* A step within a call that puts chunks into fcinfo. *)
LEMMA ArgsSplit ==
  ASSUME CallShape, ArgsKept, rx \in {"split", "left"},
         query' = query, restore' = restore,
         NEW rule, NEW result, fcinfo' = [rule |-> rule, result |-> result],
         rule = fcinfo.rule \/ (rule = Palloced(rule.text) /\ Len(Rule) > 1),
         \/ result = fcinfo.result
         \/ /\ result = Palloced(result.text)
            /\ Len(Result) > 1 \/ (Len(Rule) > 1 /\ Len(Result) = 1 /\ result.text = Result)
  PROVE  ArgsKept'
<1>1. /\ Excused' = Excused /\ HasVars' = HasVars /\ Arguments' = Arguments
      /\ Rule' = Rule /\ Result' = Result
  BY SameQuery DEF Excused
<1>2. Len(Rule) > 1 \/ Len(Result) > 1 => HasVars \/ Excused
  <2>1. ~HasVars => Rule = query.rule /\ Len(Result) = Len(query.result)
    BY QueriesOK, RuleAndResult DEF CallShape, InCall
  <2>. QED
    BY <2>1 DEF Excused, HasToken, CallShape
<1>3. HasVars \/ Excused => \A arg \in Args : arg \in restore \/ Excused
  BY DEF ArgsKept
<1>4. Len(Rule) \in Nat /\ Len(Result) \in Nat
  BY QueriesOK, RuleAndResult DEF CallShape, InCall
<1>5. ASSUME NEW arg \in Args
      PROVE  /\ fcinfo'[arg] = Arguments[arg] \/ fcinfo'[arg] = Palloced(fcinfo'[arg].text)
             /\ fcinfo'[arg] # Arguments[arg] => arg \in restore \/ Excused
  <2>1. CASE arg = "rule"
    BY <1>2, <1>3, <2>1 DEF Args, ArgsKept
  <2>2. CASE arg = "result"
    BY <1>2, <1>3, <2>2 DEF Args, ArgsKept
  <2>. QED
    BY <2>1, <2>2 DEF Args
<1>6. HasVars => restore = Args
  BY DEF ArgsKept
<1>7. Len(Rule) = 1 => fcinfo'.rule.text = Rule
  <2>1. Len(Rule) = 1 => fcinfo'.rule = fcinfo.rule
    BY <1>4
  <2>. QED
    BY <2>1 DEF ArgsKept
<1>8. Len(Result) = 1 => fcinfo'.result.text = Result
  <2>1. Len(Result) = 1 => (fcinfo'.result = fcinfo.result \/ result.text = Result)
    BY <1>4
  <2>2. fcinfo'.result = result
    OBVIOUS
  <2>. QED
    BY <2>1, <2>2 DEF ArgsKept
<1>9. query.fn # "opt"
  BY DEF CallShape
<1>. QED
  BY <1>1, <1>8, <1>9, <1>5, <1>6, <1>7 DEF ArgsKept

(* Finish goes on to the next element. *)
LEMMA Finished ==
  ASSUME CallShape, InCall, query' = query, rx' = "element",
         NEW rule, NEW result, fcinfo' = [rule |-> rule, result |-> result],
         ArgsKept', OutcomesSettled'
  PROVE  CallInv'
<1>1. CallShape'
  BY DEF CallShape, InCall
<1>2. ArgsInv'
  BY DEF ArgsInv, InCall
<1>3. PointersInv'
  BY DEF PointersInv
<1>. QED
  BY <1>1, <1>2, <1>3 DEF CallInv

LEMMA CallBegins == RegexpInit => CallInv
<1>. SUFFICES ASSUME RegexpInit PROVE CallInv
  OBVIOUS
<1>1. CallShape
  BY DEF RegexpInit, CallShape, InCall, Arguments
<1>2. ArgsInv
  BY DEF RegexpInit, ArgsInv, InCall
<1>3. PointersInv /\ OutcomesSettled
  BY DEF RegexpInit, PointersInv, OutcomesSettled
<1>. QED
  BY <1>1, <1>2, <1>3 DEF CallInv

----------------------------------------------------------------------------
(* Between two calls. *)
LEMMA CallOfNextRow == CallInv /\ NextRow => CallInv'
<1>. SUFFICES ASSUME CallInv, NextRow PROVE CallInv'
  OBVIOUS
<1>1. query' = query /\ outcomes' = outcomes /\ rx = "executor"
  BY DEF NextRow
<1>2. Arguments' = Arguments /\ Excused' = Excused
  BY <1>1, SameQuery DEF Excused
<1>3. rx' \in {"dangling", "enter"}
  BY DEF NextRow
<1>4. fcinfo' = [rule |-> fcinfo'.rule, result |-> fcinfo'.result]
  BY DEF NextRow, CallInv, CallShape, Arguments
<1>5. \A arg \in Args :
        \/ fcinfo'[arg] = Arguments[arg]
        \/ fcinfo'[arg] = Palloced(fcinfo'[arg].text) /\ Excused
  BY <1>1 DEF NextRow, CallInv, ArgsInv
<1>6. \A arg \in Args : ~Arguments[arg].palloced
  BY DEF Args, Arguments, Given
<1>7. rx' = "dangling" => Excused
  <2>1. rx' = "dangling" => \E arg \in Args : fcinfo'[arg].palloced
    BY DEF NextRow, Args
  <2>. QED
    BY <1>5, <1>6, <2>1
<1>8. rx' = "enter" => fcinfo' = Arguments
  <2>1. rx' = "enter" => ~fcinfo'.rule.palloced /\ ~fcinfo'.result.palloced
    BY DEF NextRow
  <2>2. rx' = "enter" => fcinfo'.rule = Arguments.rule /\ fcinfo'.result = Arguments.result
    BY <1>5, <2>1 DEF Args, Palloced
  <2>. QED
    BY <1>4, <2>2 DEF Arguments
<1>9. CallShape'
  BY <1>1, <1>3, <1>4 DEF CallInv, CallShape, InCall
<1>10. ArgsInv'
  BY <1>2, <1>3, <1>7, <1>8 DEF ArgsInv, InCall
<1>11. PointersInv'
  BY <1>3 DEF PointersInv
<1>12. OutcomesSettled'
  BY <1>1, OutcomesStay DEF CallInv
<1>. QED
  BY <1>9, <1>10, <1>11, <1>12 DEF CallInv

LEMMA CallReturnsEarly ==
  ASSUME CallInv, rx = "enter", NEW value, Return(value)
  PROVE  CallInv'
<1>1. query' = query /\ outcomes' = outcomes /\ rx' = "executor" /\ fcinfo' = fcinfo
  BY DEF Return
<1>2. Arguments' = Arguments
  BY <1>1, SameQuery
<1>3. CallShape'
  BY <1>1 DEF CallInv, CallShape, InCall
<1>4. ArgsInv'
  BY <1>1, <1>2 DEF CallInv, ArgsInv, InCall
<1>5. PointersInv'
  BY <1>1 DEF PointersInv
<1>6. OutcomesSettled'
  BY <1>1, OutcomesStay DEF CallInv
<1>. QED
  BY <1>3, <1>4, <1>5, <1>6 DEF CallInv

LEMMA CallIsPrepared == CallInv /\ Prepare => CallInv'
<1>. SUFFICES ASSUME CallInv, Prepare PROVE CallInv'
  OBVIOUS
<1>1. query' = query /\ outcomes' = outcomes /\ rx' = "element" /\ rx = "enter"
  BY DEF Prepare, ArgumentsGiven
<1>2. /\ Excused' = Excused /\ HasVars' = HasVars /\ Arguments' = Arguments
      /\ Rule' = Rule /\ Result' = Result
  BY <1>1, SameQuery DEF Excused
<1>3. query.rule # NullArg /\ query.result # NullArg
  BY DEF Prepare, ArgumentsGiven
<1>4. fcinfo = Arguments
  BY <1>1 DEF CallInv, ArgsInv
<1>5. /\ HasVars => restore' = Args
      /\ restore' \subseteq Args
      /\ "rule" \notin restore' => Rule = query.rule
      /\ "result" \notin restore' => Result = query.result
  BY DEF Prepare, Args, Rule, Result
<1>6. /\ fcinfo' = [rule |-> fcinfo'.rule, result |-> fcinfo'.result]
      /\ fcinfo'.rule = IF "rule" \in restore' THEN Palloced(Rule) ELSE Arguments.rule
      /\ fcinfo'.result = IF "result" \in restore' THEN Palloced(Result) ELSE Arguments.result
  BY <1>4 DEF Prepare
<1>7. fcinfo'.rule.text = Rule /\ fcinfo'.result.text = Result
  BY <1>5, <1>6 DEF Palloced, Arguments, Given
<1>8. ASSUME NEW arg \in Args
      PROVE  /\ fcinfo'[arg] = Arguments[arg] \/ fcinfo'[arg] = Palloced(fcinfo'[arg].text)
             /\ fcinfo'[arg] # Arguments[arg] => arg \in restore'
  <2>1. CASE arg = "rule"
    BY <1>6, <1>7, <2>1
  <2>2. CASE arg = "result"
    BY <1>6, <1>7, <2>2
  <2>. QED
    BY <2>1, <2>2 DEF Args
<1>9. ArgsKept'
  BY <1>2, <1>5, <1>7, <1>8 DEF ArgsKept
<1>10. CallShape'
  BY <1>1, <1>3, <1>6 DEF CallInv, CallShape
<1>11. ArgsInv'
  BY <1>1, <1>9 DEF ArgsInv
<1>12. PointersInv'
  BY <1>1 DEF PointersInv
<1>13. OutcomesSettled'
  BY <1>1, OutcomesStay DEF CallInv
<1>. QED
  BY <1>10, <1>11, <1>12, <1>13 DEF CallInv

LEMMA CallReturnsBuilt == CallInv /\ ReturnBuilt => CallInv'
<1>. SUFFICES ASSUME CallInv, ReturnBuilt PROVE CallInv'
  OBVIOUS
<1>1. query' = query /\ outcomes' = outcomes /\ rx' = "executor" /\ rx = "element"
  BY DEF ReturnBuilt
<1>2. Excused' = Excused /\ Arguments' = Arguments
  BY <1>1, SameQuery DEF Excused
<1>3. fcinfo = [rule |-> fcinfo.rule, result |-> fcinfo.result]
  BY DEF CallInv, CallShape
<1>4. DOMAIN fcinfo = Args
  BY <1>3 DEF Args
<1>5. fcinfo' = [arg \in Args |-> IF arg \in restore THEN Arguments[arg] ELSE fcinfo[arg]]
  BY <1>4 DEF ReturnBuilt
<1>6. fcinfo' = [rule |-> fcinfo'.rule, result |-> fcinfo'.result]
  BY <1>5 DEF Args
<1>7. ArgsKept
  BY <1>1 DEF CallInv, ArgsInv, InCall
<1>8. \A arg \in Args :
        \/ fcinfo'[arg] = Arguments[arg]
        \/ fcinfo'[arg] = Palloced(fcinfo'[arg].text) /\ Excused
  BY <1>5, <1>7 DEF ArgsKept
<1>9. CallShape'
  BY <1>1, <1>6 DEF CallInv, CallShape, InCall
<1>10. ArgsInv'
  BY <1>1, <1>2, <1>8 DEF ArgsInv, InCall
<1>11. PointersInv'
  BY <1>1 DEF PointersInv
<1>12. OutcomesSettled'
  BY <1>1, OutcomesStay DEF CallInv
<1>. QED
  BY <1>9, <1>10, <1>11, <1>12 DEF CallInv

----------------------------------------------------------------------------
(* Within a call. *)
LEMMA CallOfNextElement == CallInv /\ NextElement => CallInv'
<1>. SUFFICES ASSUME CallInv, NextElement PROVE CallInv'
  OBVIOUS
<1>1. /\ query' = query /\ outcomes' = outcomes /\ rx = "element"
      /\ fcinfo' = fcinfo /\ restore' = restore
      /\ n' = 0 /\ rule_ptr' = Rule /\ result_ptr' = Result
      /\ rx' = IF query.fn = "opt" THEN "apply" ELSE "split"
  BY DEF NextElement
<1>2. Rule' = Rule /\ Result' = Result
  BY <1>1, SameQuery
<1>3. CallShape'
  BY <1>1 DEF CallInv, CallShape, InCall
<1>4. ArgsInv'
  <2>1. ArgsKept'
    BY <1>1, ArgsStay DEF CallInv, ArgsInv, InCall
  <2>. QED
    BY <1>1, <2>1 DEF ArgsInv
<1>5. Reached'
  <2>1. /\ Rule \in Seq(Chunks) /\ Len(Rule) \in Nat \ {0}
        /\ Result \in Seq(Chunks) /\ Len(Result) \in Nat \ {0}
    BY <1>1, QueriesOK, RuleAndResult DEF CallInv, CallShape, InCall
  <2>2. n' \in Nat /\ n' <= REGEXP_SPLIT_MAX_TOKENS - 2
    BY <1>1, RegexpAssumption
  <2>3. /\ \A k \in 1..Len(rule_ptr') : rule_ptr'[k] = Rule[n' + k]
        /\ \A k \in 1..Len(result_ptr') : result_ptr'[k] = Result[n' + k]
    BY <1>1, <2>1
  <2>4. \A k \in 1..n' : FALSE
    BY <1>1
  <2>. QED
    BY <1>1, <1>2, <2>1, <2>2, <2>3, <2>4 DEF Reached
<1>6. PointersInv'
  BY <1>1, <1>5 DEF PointersInv
<1>7. OutcomesSettled'
  BY <1>1, OutcomesStay DEF CallInv
<1>. QED
  BY <1>3, <1>4, <1>6, <1>7 DEF CallInv

LEMMA CallOfNullElement == CallInv /\ NullElement => CallInv'
<1>. SUFFICES ASSUME CallInv, NullElement PROVE CallInv'
  OBVIOUS
<1>1. /\ query' = query /\ outcomes' = outcomes /\ rx = "element" /\ rx' = "element"
      /\ fcinfo' = fcinfo /\ restore' = restore
  BY DEF NullElement
<1>2. ArgsKept'
  BY <1>1, ArgsStay DEF CallInv, ArgsInv, InCall
<1>3. OutcomesSettled'
  BY <1>1, OutcomesStay DEF CallInv
<1>4. fcinfo' = [rule |-> fcinfo.rule, result |-> fcinfo.result]
  BY <1>1 DEF CallInv, CallShape
<1>. QED
  BY <1>1, <1>2, <1>3, <1>4, Finished DEF CallInv, InCall

LEMMA CallIsUnsplit == CallInv /\ ApplyUnsplit => CallInv'
<1>. SUFFICES ASSUME CallInv, ApplyUnsplit PROVE CallInv'
  OBVIOUS
<1>1. /\ query' = query /\ rx = "apply" /\ rx' = "element"
      /\ fcinfo' = fcinfo /\ restore' = restore
  BY DEF ApplyUnsplit, Apply, Finish
<1>2. ArgsKept'
  BY <1>1, ArgsStay DEF CallInv, ArgsInv, InCall
<1>3. query.fn = "opt"
  BY <1>1 DEF CallInv, CallShape
<1>4. OutcomesSettled'
  <2>. DEFINE outcome == Outcome(fcinfo.rule.text, fcinfo.result.text, Head(input))
  <2>1. outcomes' \in {outcomes, outcomes \union {<<Head(input), outcome>>}}
    BY DEF ApplyUnsplit, Apply
  <2>2. CallShape /\ InCall /\ ArgsKept /\ OutcomesSettled
    BY <1>1 DEF CallInv, ArgsInv, InCall
  <2>3. outcome = Settled(Head(input))
    BY <1>3, <2>2 DEF Settled, ArgsKept
  <2>. HIDE DEF outcome
  <2>. QED
    BY <1>1, <2>1, <2>2, <2>3, OneMoreOutcome
<1>5. fcinfo' = [rule |-> fcinfo.rule, result |-> fcinfo.result]
  BY <1>1 DEF CallInv, CallShape
<1>. QED
  BY <1>1, <1>2, <1>4, <1>5, Finished DEF CallInv, InCall

(* What the loop applies. *)
LEMMA PairFinishes ==
  ASSUME CallInv, rx = "split", query' = query, restore' = restore, rx' = "element",
         NEW rule, NEW result, fcinfo' = [rule |-> rule, result |-> result],
         rule.text = <<Rule[n + 1]>>, result.text = <<Result[n + 1]>>,
         rule = fcinfo.rule \/ (rule = Palloced(rule.text) /\ Len(Rule) > 1),
         \/ result = fcinfo.result
         \/ /\ result = Palloced(result.text)
            /\ Len(Result) > 1 \/ (Len(Rule) > 1 /\ Len(Result) = 1 /\ result.text = Result),
         \/ n + 1 = Len(Rule) \/ n + 1 = Len(Result)
         \/ Matches(<<Rule[n + 1]>>, Head(input)),
         \/ outcomes' = outcomes \union
              {<<Head(input), Outcome(rule.text, result.text, Head(input))>>}
         \/ outcomes' = outcomes
  PROVE  CallInv'
<1>1. CallShape /\ InCall /\ Reached /\ ArgsKept /\ OutcomesSettled
  BY DEF CallInv, PointersInv, ArgsInv, InCall
<1>2. ArgsKept'
  BY <1>1, ArgsSplit
<1>3. Outcome(rule.text, result.text, Head(input)) = Settled(Head(input))
  BY <1>1, PairApplied DEF CallShape
<1>4. OutcomesSettled'
  <2>. DEFINE outcome == Outcome(rule.text, result.text, Head(input))
  <2>1. outcomes' \in {outcomes, outcomes \union {<<Head(input), outcome>>}}
    OBVIOUS
  <2>2. outcome = Settled(Head(input))
    BY <1>3
  <2>3. OutcomesSettled /\ CallShape /\ InCall /\ query' = query
    BY <1>1
  <2>. HIDE DEF outcome
  <2>. QED
    BY ONLY <2>1, <2>2, <2>3, OneMoreOutcome
<1>. QED
  BY <1>1, <1>2, <1>4, Finished

LEMMA CallOfLastResult == CallInv /\ ApplyLastResult => CallInv'
<1>. SUFFICES ASSUME CallInv, ApplyLastResult PROVE CallInv'
  OBVIOUS
<1>. DEFINE rule == Palloced(FirstChunk(rule_ptr))
            result == IF n > 0 THEN Palloced(result_ptr) ELSE fcinfo.result
<1>1. /\ query' = query /\ restore' = restore /\ rx = "split" /\ rx' = "element"
      /\ HasToken(rule_ptr) /\ ~HasToken(result_ptr)
      /\ fcinfo' = [rule |-> rule, result |-> result]
  BY DEF ApplyLastResult, Apply, Finish
<1>2. CallShape /\ InCall /\ Reached /\ ArgsKept
  BY <1>1 DEF CallInv, PointersInv, ArgsInv, InCall
<1>3. n \in Nat /\ Len(Rule) \in Nat /\ Len(Result) \in Nat /\ Result \in Seq(Chunks)
  BY <1>2, QueriesOK, RuleAndResult DEF CallShape, Reached
<1>4. /\ FirstChunk(rule_ptr) = <<Rule[n + 1]>> /\ n + 1 < Len(Rule)
      /\ result_ptr = <<Result[n + 1]>> /\ n + 1 = Len(Result)
  BY <1>1, <1>2, ThisPair
<1>5. rule.text = <<Rule[n + 1]>> /\ rule = Palloced(rule.text) /\ Len(Rule) > 1
  BY <1>3, <1>4 DEF Palloced
<1>6. /\ result.text = <<Result[n + 1]>>
      /\ \/ result = fcinfo.result
         \/ result = Palloced(result.text) /\ Len(Result) > 1
  <2>1. CASE n = 0
    <3>1. Len(Result) = 1 /\ result = fcinfo.result
      BY <1>4, <2>1
    <3>2. result.text = Result /\ Result = <<Result[1]>>
      BY <1>2, <1>3, <3>1 DEF ArgsKept
    <3>. QED
      BY <2>1, <3>1, <3>2
  <2>2. CASE n > 0
    BY <1>3, <1>4, <2>2 DEF Palloced
  <2>. QED
    BY <1>3, <2>1, <2>2
<1>7. \/ outcomes' = outcomes \union
           {<<Head(input), Outcome(rule.text, result.text, Head(input))>>}
      \/ outcomes' = outcomes
  BY <1>1 DEF ApplyLastResult, Apply
<1>. HIDE DEF rule, result
<1>. QED
  BY <1>1, <1>4, <1>5, <1>6, <1>7, PairFinishes

LEMMA CallOfChunk == CallInv /\ ApplyChunk => CallInv'
<1>. SUFFICES ASSUME CallInv, ApplyChunk PROVE CallInv'
  OBVIOUS
<1>. DEFINE rule == Palloced(FirstChunk(rule_ptr))
            result == Palloced(FirstChunk(result_ptr))
<1>1. /\ query' = query /\ restore' = restore /\ rx = "split" /\ rx' = "element"
      /\ HasToken(rule_ptr) /\ HasToken(result_ptr) /\ ChunkMatches
      /\ fcinfo' = [rule |-> rule, result |-> result]
  BY DEF ApplyChunk, ChunkArguments, Apply, Finish
<1>2. CallShape /\ InCall /\ Reached
  BY <1>1 DEF CallInv, PointersInv, InCall
<1>3. n \in Nat /\ Len(Rule) \in Nat /\ Len(Result) \in Nat
  BY <1>2, QueriesOK, RuleAndResult DEF CallShape, Reached
<1>4. /\ FirstChunk(rule_ptr) = <<Rule[n + 1]>> /\ n + 1 < Len(Rule)
      /\ FirstChunk(result_ptr) = <<Result[n + 1]>> /\ n + 1 < Len(Result)
  BY <1>1, <1>2, ThisPair
<1>5. /\ rule.text = <<Rule[n + 1]>> /\ rule = Palloced(rule.text) /\ Len(Rule) > 1
      /\ result.text = <<Result[n + 1]>> /\ result = Palloced(result.text) /\ Len(Result) > 1
  BY <1>3, <1>4 DEF Palloced
<1>6. Matches(<<Rule[n + 1]>>, Head(input))
  BY <1>1, <1>4 DEF ChunkMatches
<1>7. \/ outcomes' = outcomes \union
           {<<Head(input), Outcome(rule.text, result.text, Head(input))>>}
      \/ outcomes' = outcomes
  BY <1>1 DEF ApplyChunk, Apply
<1>. HIDE DEF rule, result
<1>. QED
  BY <1>1, <1>5, <1>6, <1>7, PairFinishes

LEMMA CallOfTail == CallInv /\ ApplyTail => CallInv'
<1>. SUFFICES ASSUME CallInv, ApplyTail PROVE CallInv'
  OBVIOUS
<1>. DEFINE rule == IF n > 0 THEN Palloced(rule_ptr) ELSE fcinfo.rule
            result == IF HasToken(result_ptr) THEN Palloced(FirstChunk(result_ptr))
                      ELSE IF n > 0 THEN Palloced(result_ptr) ELSE fcinfo.result
<1>1. /\ query' = query /\ restore' = restore /\ rx' = "element"
      /\ fcinfo' = [rule |-> rule, result |-> result]
  BY DEF ApplyTail, Apply, Finish
<1>2. \/ outcomes' = outcomes \union
           {<<Head(input), Outcome(rule.text, result.text, Head(input))>>}
      \/ outcomes' = outcomes
  BY <1>1 DEF ApplyTail, Apply
<1>3. CASE rx = "left" /\ query.fn = "array"
  <2>1. CallShape /\ InCall /\ GivenUp /\ ArgsKept /\ OutcomesSettled
    BY <1>3 DEF CallInv, PointersInv, ArgsInv, InCall
  <2>2. /\ rule = Palloced(rule.text) /\ Len(Rule) > 1
        /\ result = Palloced(result.text) /\ Len(Result) > 1
    BY <2>1 DEF GivenUp, Palloced
  <2>3. Outcome(rule.text, result.text, Head(input)) = Settled(Head(input))
    <3>1. n = Min(LeftAfter) /\ LeftAfter # {}
      <4>1. LeftAfter \in SUBSET Nat
        BY DEF LeftAfter
      <4>2. n \in LeftAfter /\ \A m \in LeftAfter : n <= m
        BY <2>1 DEF GivenUp
      <4>3. Min(LeftAfter) \in LeftAfter /\ \A m \in LeftAfter : Min(LeftAfter) <= m
        BY <4>1, <4>2, MinOfNaturals
      <4>4. n \in Nat /\ Min(LeftAfter) \in Nat
        BY <4>1, <4>2, <4>3
      <4>. QED
        BY <4>2, <4>3, <4>4
    <3>2. /\ rule.text = LeftRule(n)
          /\ result.text = IF HasToken(LeftResult(n)) THEN FirstChunk(LeftResult(n))
                           ELSE LeftResult(n)
      BY <2>1 DEF GivenUp, Palloced
    <3>3. NoPairMatches(Head(input))
      BY <2>1 DEF GivenUp
    <3>. HIDE DEF rule, result
    <3>. QED
      BY <1>3, <3>1, <3>2, <3>3 DEF Settled, LeftOutcome
  <2>. HIDE DEF rule, result
  <2>4. ArgsKept'
    BY <1>1, <1>3, <2>1, <2>2, ArgsSplit
  <2>5. OutcomesSettled'
    <3>. DEFINE outcome == Outcome(rule.text, result.text, Head(input))
    <3>1. outcomes' \in {outcomes, outcomes \union {<<Head(input), outcome>>}}
      BY <1>2
    <3>2. outcome = Settled(Head(input))
      BY <2>3
    <3>. HIDE DEF outcome
    <3>. QED
      BY <1>1, <2>1, <3>1, <3>2, OneMoreOutcome
  <2>. QED
    BY <1>1, <2>1, <2>4, <2>5, Finished
<1>4. CASE rx = "split" /\ ~HasToken(rule_ptr)
  <2>1. CallShape /\ InCall /\ Reached /\ ArgsKept
    BY <1>4 DEF CallInv, PointersInv, ArgsInv, InCall
  <2>2. /\ n \in Nat /\ Len(Rule) \in Nat /\ Len(Result) \in Nat
        /\ Rule \in Seq(Chunks) /\ Result \in Seq(Chunks)
    BY <2>1, QueriesOK, RuleAndResult DEF CallShape, Reached
  <2>3. /\ rule_ptr = <<Rule[n + 1]>> /\ n + 1 = Len(Rule)
        /\ HasToken(result_ptr) <=> n + 1 < Len(Result)
        /\ FirstChunk(result_ptr) = <<Result[n + 1]>>
        /\ ~HasToken(result_ptr) => n + 1 = Len(Result) /\ result_ptr = <<Result[n + 1]>>
    BY <1>4, <2>1, ThisPair
  <2>4. /\ rule.text = <<Rule[n + 1]>>
        /\ rule = fcinfo.rule \/ (rule = Palloced(rule.text) /\ Len(Rule) > 1)
    <3>1. CASE n = 0
      <4>1. Len(Rule) = 1 /\ rule = fcinfo.rule
        BY <2>3, <3>1
      <4>2. rule.text = Rule /\ Rule = <<Rule[1]>>
        BY <2>1, <2>2, <4>1 DEF ArgsKept
      <4>. QED
        BY <3>1, <4>1, <4>2
    <3>2. CASE n > 0
      BY <2>2, <2>3, <3>2 DEF Palloced
    <3>. QED
      BY <2>2, <3>1, <3>2
  <2>5. /\ result.text = <<Result[n + 1]>>
        /\ \/ result = fcinfo.result
           \/ result = Palloced(result.text) /\ Len(Result) > 1
    <3>1. CASE HasToken(result_ptr)
      <4>1. result = Palloced(<<Result[n + 1]>>) /\ Len(Result) > 1
        BY <2>2, <2>3, <3>1
      <4>. HIDE DEF result
      <4>. QED
        BY <4>1 DEF Palloced
    <3>2. CASE ~HasToken(result_ptr) /\ n = 0
      <4>1. Len(Result) = 1 /\ result = fcinfo.result
        BY <2>3, <3>2
      <4>2. result.text = Result /\ Result = <<Result[1]>>
        BY <2>1, <2>2, <4>1 DEF ArgsKept
      <4>. QED
        BY <3>2, <4>1, <4>2
    <3>3. CASE ~HasToken(result_ptr) /\ n > 0
      <4>1. result = Palloced(<<Result[n + 1]>>) /\ Len(Result) > 1
        BY <2>2, <2>3, <3>3
      <4>. HIDE DEF result
      <4>. QED
        BY <4>1 DEF Palloced
    <3>. QED
      BY <2>2, <3>1, <3>2, <3>3
  <2>. HIDE DEF rule, result
  <2>. QED
    BY <1>1, <1>2, <1>4, <2>3, <2>4, <2>5, PairFinishes
<1>. QED
  BY <1>3, <1>4 DEF ApplyTail

LEMMA CallLeavesScalar == CallInv /\ LeaveScalar => CallInv'
<1>. SUFFICES ASSUME CallInv, LeaveScalar PROVE CallInv'
  OBVIOUS
<1>1. /\ query' = query /\ restore' = restore /\ rx = "left" /\ rx' = "element"
      /\ fcinfo' = fcinfo
      /\ outcomes' = outcomes \union {<<Head(input), get_in_copy(Head(input))>>}
  BY DEF LeaveScalar, Finish
<1>2. CallShape /\ InCall /\ GivenUp /\ ArgsKept /\ OutcomesSettled
  BY <1>1 DEF CallInv, PointersInv, ArgsInv, InCall
<1>3. ArgsKept'
  BY <1>1, <1>2, ArgsStay
<1>4. Settled(Head(input)) = get_in_copy(Head(input))
  <2>1. {k \in TriedPairs : Matches(<<Rule[k]>>, Head(input))} = {}
    BY <1>2 DEF GivenUp, NoPairMatches
  <2>2. query.fn = "noopt"
    BY DEF LeaveScalar
  <2>. QED
    BY <2>1, <2>2 DEF Settled, FirstTried
<1>5. OutcomesSettled'
  <2>. DEFINE outcome == get_in_copy(Head(input))
  <2>1. outcomes' \in {outcomes, outcomes \union {<<Head(input), outcome>>}}
    BY <1>1
  <2>2. outcome = Settled(Head(input))
    BY <1>4
  <2>. HIDE DEF outcome
  <2>. QED
    BY <1>1, <1>2, <2>1, <2>2, OneMoreOutcome
<1>6. fcinfo' = [rule |-> fcinfo.rule, result |-> fcinfo.result]
  BY <1>1, <1>2 DEF CallShape
<1>. QED
  BY <1>1, <1>2, <1>3, <1>5, <1>6, Finished

LEMMA CallSkipsChunk == CallInv /\ SkipChunk => CallInv'
<1>. SUFFICES ASSUME CallInv, SkipChunk PROVE CallInv'
  OBVIOUS
<1>. DEFINE rule == Palloced(FirstChunk(rule_ptr))
            result == Palloced(FirstChunk(result_ptr))
            full == n + 1 >= REGEXP_SPLIT_MAX_TOKENS - 1
            no_rule == Tail(rule_ptr) = <<Empty>>
            no_result == Tail(result_ptr) = <<Empty>>
<1>1. /\ query' = query /\ restore' = restore /\ rx = "split" /\ outcomes' = outcomes
      /\ HasToken(rule_ptr) /\ HasToken(result_ptr) /\ ~ChunkMatches
      /\ fcinfo' = [rule |-> rule, result |-> result]
      /\ n' = n + 1 /\ input' = input
  BY DEF SkipChunk, ChunkArguments
<1>2. /\ rule_ptr' = IF full THEN rule_ptr ELSE Tail(rule_ptr)
      /\ result_ptr' = IF full \/ no_rule THEN result_ptr ELSE Tail(result_ptr)
      /\ rx' = IF full \/ no_rule \/ no_result THEN "left" ELSE "split"
  BY <1>1 DEF SkipChunk
<1>3. CallShape /\ InCall /\ Reached /\ ArgsKept
  BY <1>1 DEF CallInv, PointersInv, ArgsInv, InCall
<1>4. /\ n \in Nat /\ Len(Rule) \in Nat /\ Len(Result) \in Nat
      /\ n + 1 < Len(Rule) /\ n + 1 < Len(Result)
  BY <1>1, <1>3, QueriesOK, RuleAndResult, ThisPair DEF CallShape, Reached
<1>5. ~Matches(<<Rule[n + 1]>>, Head(input))
  BY <1>1, <1>3, ThisPair DEF ChunkMatches
<1>6. \A k \in 1..(n + 1) : ~Matches(<<Rule[k]>>, Head(input))
  <2>1. \A k \in 1..(n + 1) : k \in 1..n \/ k = n + 1
    BY <1>4
  <2>. QED
    BY <1>3, <1>5, <2>1 DEF Reached
<1>7. /\ Tail(rule_ptr) \in Seq(Chunks) /\ Len(Tail(rule_ptr)) = Len(Rule) - (n + 1)
      /\ \A k \in 1..Len(Tail(rule_ptr)) : Tail(rule_ptr)[k] = Rule[(n + 1) + k]
  <2>1. /\ rule_ptr \in Seq(Chunks) /\ Len(rule_ptr) = Len(Rule) - n
        /\ \A k \in 1..Len(rule_ptr) : rule_ptr[k] = Rule[n + k]
    BY <1>3 DEF Reached
  <2>2. /\ Tail(rule_ptr) \in Seq(Chunks) /\ Len(Tail(rule_ptr)) = Len(Rule) - (n + 1)
        /\ \A k \in 1..Len(Tail(rule_ptr)) :
             Tail(rule_ptr)[k] = rule_ptr[k + 1] /\ k + 1 \in 1..Len(rule_ptr)
    BY <1>4, <2>1
  <2>3. \A k \in 1..Len(Tail(rule_ptr)) : n + (k + 1) = (n + 1) + k
    BY <1>4
  <2>. QED
    BY <2>1, <2>2, <2>3
<1>8. /\ Tail(result_ptr) \in Seq(Chunks) /\ Len(Tail(result_ptr)) = Len(Result) - (n + 1)
      /\ \A k \in 1..Len(Tail(result_ptr)) : Tail(result_ptr)[k] = Result[(n + 1) + k]
  <2>1. /\ result_ptr \in Seq(Chunks) /\ Len(result_ptr) = Len(Result) - n
        /\ \A k \in 1..Len(result_ptr) : result_ptr[k] = Result[n + k]
    BY <1>3 DEF Reached
  <2>2. /\ Tail(result_ptr) \in Seq(Chunks) /\ Len(Tail(result_ptr)) = Len(Result) - (n + 1)
        /\ \A k \in 1..Len(Tail(result_ptr)) :
             Tail(result_ptr)[k] = result_ptr[k + 1] /\ k + 1 \in 1..Len(result_ptr)
    BY <1>4, <2>1
  <2>3. \A k \in 1..Len(Tail(result_ptr)) : n + (k + 1) = (n + 1) + k
    BY <1>4
  <2>. QED
    BY <2>1, <2>2, <2>3
<1>9. no_rule <=> n + 2 = Len(Rule) /\ Rule[n + 2] = Empty
  <2>1. no_rule <=> Len(Tail(rule_ptr)) = 1 /\ Tail(rule_ptr)[1] = Empty
    BY <1>7, OneChunk
  <2>2. Len(Tail(rule_ptr)) = 1 <=> n + 2 = Len(Rule)
    <3>. DEFINE left == Len(Tail(rule_ptr))
    <3>1. left = Len(Rule) - (n + 1) /\ n \in Nat /\ Len(Rule) \in Nat
      BY <1>4, <1>7
    <3>. HIDE DEF left
    <3>2. left = 1 <=> n + 2 = Len(Rule)
      BY <3>1
    <3>. QED
      BY <3>2 DEF left
  <2>3. Len(Tail(rule_ptr)) = 1 => Tail(rule_ptr)[1] = Rule[n + 2]
    <3>1. (n + 1) + 1 = n + 2
      BY <1>4
    <3>2. Len(Tail(rule_ptr)) = 1 => 1 \in 1..Len(Tail(rule_ptr))
      OBVIOUS
    <3>. QED
      BY <1>7, <3>1, <3>2
  <2>. QED
    BY <2>1, <2>2, <2>3
<1>10. no_result <=> n + 2 = Len(Result) /\ Result[n + 2] = Empty
  <2>1. no_result <=> Len(Tail(result_ptr)) = 1 /\ Tail(result_ptr)[1] = Empty
    BY <1>8, OneChunk
  <2>2. Len(Tail(result_ptr)) = 1 <=> n + 2 = Len(Result)
    <3>. DEFINE left == Len(Tail(result_ptr))
    <3>1. left = Len(Result) - (n + 1) /\ n \in Nat /\ Len(Result) \in Nat
      BY <1>4, <1>8
    <3>. HIDE DEF left
    <3>2. left = 1 <=> n + 2 = Len(Result)
      BY <3>1
    <3>. QED
      BY <3>2 DEF left
  <2>3. Len(Tail(result_ptr)) = 1 => Tail(result_ptr)[1] = Result[n + 2]
    <3>1. (n + 1) + 1 = n + 2
      BY <1>4
    <3>2. Len(Tail(result_ptr)) = 1 => 1 \in 1..Len(Tail(result_ptr))
      OBVIOUS
    <3>. QED
      BY <1>8, <3>1, <3>2
  <2>. QED
    BY <2>1, <2>2, <2>3
<1>11. /\ Rule' = Rule /\ Result' = Result /\ TriedPairs' = TriedPairs /\ LeftAfter' = LeftAfter
       /\ \A m : LeftRule(m)' = LeftRule(m) /\ LeftResult(m)' = LeftResult(m)
  BY <1>1, SameQuery
<1>20. /\ full <=> Full(n + 1)
       /\ no_rule <=> NoRuleAfter(n + 1)
       /\ no_result <=> NoResultAfter(n + 1)
  <2>1. (n + 1) + 1 = n + 2
    BY <1>4
  <2>2. full <=> Full(n + 1)
    BY DEF Full
  <2>. HIDE DEF full, no_rule, no_result
  <2>3. NoRuleAfter(n + 1) <=> n + 2 = Len(Rule) /\ Rule[n + 2] = Empty
    BY <2>1 DEF NoRuleAfter
  <2>4. NoResultAfter(n + 1) <=> n + 2 = Len(Result) /\ Result[n + 2] = Empty
    BY <2>1 DEF NoResultAfter
  <2>. QED
    BY <1>9, <1>10, <2>2, <2>3, <2>4
<1>. HIDE DEF no_rule, no_result, full
<1>21. n + 1 \in LeftAfter <=> full \/ no_rule \/ no_result
  <2>1. n + 1 \in 1..Len(Rule)
    BY <1>4
  <2>. QED
    BY <1>4, <1>20, <2>1 DEF LeftAfter
<1>22. /\ rule_ptr = Rest(Rule, n) /\ Tail(rule_ptr) = Rest(Rule, n + 1)
       /\ result_ptr = Rest(Result, n) /\ Tail(result_ptr) = Rest(Result, n + 1)
  <2>1. /\ Rule \in Seq(Chunks) /\ Result \in Seq(Chunks)
        /\ n < Len(Rule) /\ n < Len(Result) /\ n \in Nat /\ n + 1 \in Nat
    BY <1>3, <1>4, QueriesOK, RuleAndResult DEF CallShape
  <2>2. rule_ptr = Rest(Rule, n) /\ result_ptr = Rest(Result, n)
    BY <1>3, <2>1, RestIs DEF Reached
  <2>3. Tail(rule_ptr) = Rest(Rule, n + 1)
    BY <1>4, <1>7, <2>1, RestIs
  <2>4. Tail(result_ptr) = Rest(Result, n + 1)
    BY <1>4, <1>8, <2>1, RestIs
  <2>. QED
    BY <2>2, <2>3, <2>4
<1>12. rx' = "left" => GivenUp'
  <2>. SUFFICES ASSUME full \/ no_rule \/ no_result PROVE GivenUp'
    BY <1>2
  <2>1. n + 1 > 0 /\ Len(Rule) > 1 /\ Len(Result) > 1
    BY <1>4
  <2>2. n + 1 \in LeftAfter /\ \A m \in LeftAfter : n + 1 <= m
    <3>1. \A m \in LeftAfter : m \in Nat /\ m >= 1
      BY DEF LeftAfter
    <3>2. \A m \in LeftAfter : ~ (m \in 1..n)
      BY <1>3 DEF Reached
    <3>. QED
      BY <1>4, <1>21, <3>1, <3>2
  <2>4. rule_ptr' = LeftRule(n + 1) /\ result_ptr' = LeftResult(n + 1)
    <3>1. (n + 1) - 1 = n
      BY <1>4
    <3>2. rule_ptr' = LeftRule(n + 1)
      <4>1. rule_ptr' = IF full THEN rule_ptr ELSE Tail(rule_ptr)
        BY <1>2
      <4>. QED
        BY <1>20, <1>22, <3>1, <4>1 DEF LeftRule
    <3>3. result_ptr' = LeftResult(n + 1)
      <4>1. result_ptr' = IF full \/ no_rule THEN result_ptr ELSE Tail(result_ptr)
        BY <1>2
      <4>. QED
        BY <1>20, <1>22, <3>1, <4>1 DEF LeftResult
    <3>. QED
      BY <3>2, <3>3
  <2>3. ASSUME NEW k \in TriedPairs PROVE k \in 1..(n + 1)
    <3>1. /\ k \in Nat /\ k >= 1 /\ k <= Len(Rule) /\ k <= Len(Result)
          /\ k <= REGEXP_SPLIT_MAX_TOKENS - 1
          /\ (k > 1 /\ k = Len(Rule)) => Rule[k] # Empty
          /\ (k > 1 /\ k = Len(Result)) => Result[k] # Empty
      BY <1>4, <2>3, TriedPairsAre
    <3>2. full => k <= n + 1
      BY <1>4, <3>1, RegexpAssumption DEF full
    <3>3. no_rule => k <= n + 1
      <4>. SUFFICES ASSUME no_rule, k > n + 1 PROVE FALSE
        BY <1>4, <3>1
      <4>1. k = n + 2 /\ k > 1 /\ k = Len(Rule)
        BY <1>4, <1>9, <3>1
      <4>. QED
        BY <1>9, <3>1, <4>1
    <3>4. no_result => k <= n + 1
      <4>. SUFFICES ASSUME no_result, k > n + 1 PROVE FALSE
        BY <1>4, <3>1
      <4>1. k = n + 2 /\ k > 1 /\ k = Len(Result)
        BY <1>4, <1>10, <3>1
      <4>. QED
        BY <1>10, <3>1, <4>1
    <3>. QED
      BY <1>4, <3>1, <3>2, <3>3, <3>4
  <2>. QED
    <3>1. \A k \in TriedPairs : ~Matches(<<Rule[k]>>, Head(input))
      BY <1>6, <2>3
    <3>. QED
      BY <1>1, <1>11, <2>1, <2>2, <2>4, <3>1 DEF GivenUp, NoPairMatches
<1>13. rx' = "split" => Reached'
  <2>. SUFFICES ASSUME ~full, ~no_rule, ~no_result PROVE Reached'
    BY <1>2
  <2>1. rule_ptr' = Tail(rule_ptr) /\ result_ptr' = Tail(result_ptr)
    BY <1>2
  <2>2. n + 1 \in Nat /\ n + 1 <= REGEXP_SPLIT_MAX_TOKENS - 2
    BY <1>4, RegexpAssumption DEF full
  <2>4. \A k \in 1..(n + 1) : k \notin LeftAfter
    <3>1. \A k \in 1..(n + 1) : k \in 1..n \/ k = n + 1
      BY <1>4
    <3>. QED
      BY <1>3, <1>21, <3>1 DEF Reached
  <2>3. /\ (n + 1) + 1 = Len(Rule) => Rule[(n + 1) + 1] # Empty
        /\ (n + 1) + 1 = Len(Result) => Result[(n + 1) + 1] # Empty
    <3>1. (n + 1) + 1 = n + 2
      BY <1>4
    <3>. QED
      BY <1>9, <1>10, <3>1
  <2>. QED
    BY <1>1, <1>4, <1>6, <1>7, <1>8, <1>11, <2>1, <2>2, <2>3, <2>4 DEF Reached
<1>14. ArgsKept'
  <2>1. /\ rule = Palloced(rule.text) /\ Len(Rule) > 1
        /\ result = Palloced(result.text) /\ Len(Result) > 1
    BY <1>4 DEF Palloced
  <2>. HIDE DEF rule, result
  <2>. QED
    BY <1>1, <1>3, <2>1, ArgsSplit
<1>15. rx' \in {"left", "split"}
  BY <1>2
<1>16. CallShape'
  BY <1>1, <1>3, <1>15 DEF CallShape, InCall
<1>17. ArgsInv'
  BY <1>14, <1>15 DEF ArgsInv
<1>18. PointersInv'
  BY <1>12, <1>13 DEF PointersInv
<1>19. OutcomesSettled'
  BY <1>1, OutcomesStay DEF CallInv
<1>. QED
  BY <1>16, <1>17, <1>18, <1>19 DEF CallInv

LEMMA CallStutters == CallInv /\ UNCHANGED regexpVars => CallInv'
<1>. SUFFICES ASSUME CallInv, UNCHANGED regexpVars PROVE CallInv'
  OBVIOUS
<1>1. /\ query' = query /\ fcinfo' = fcinfo /\ restore' = restore /\ rx' = rx
      /\ input' = input /\ rule_ptr' = rule_ptr /\ result_ptr' = result_ptr /\ n' = n
      /\ outcomes' = outcomes
  BY DEF regexpVars
<1>2. /\ Rule' = Rule /\ Result' = Result /\ LeftAfter' = LeftAfter
      /\ \A m : LeftRule(m)' = LeftRule(m) /\ LeftResult(m)' = LeftResult(m)
      /\ TriedPairs' = TriedPairs /\ Arguments' = Arguments /\ Excused' = Excused
  BY <1>1, SameQuery DEF Excused
<1>3. CallShape'
  BY <1>1 DEF CallInv, CallShape, InCall
<1>4. ArgsInv'
  <2>1. InCall => ArgsKept'
    BY <1>1, ArgsStay DEF CallInv, ArgsInv
  <2>. QED
    BY <1>1, <1>2, <2>1 DEF CallInv, ArgsInv, InCall
<1>5. Reached => Reached'
  BY <1>1, <1>2 DEF Reached
<1>6. GivenUp => GivenUp'
  BY <1>1, <1>2 DEF GivenUp, NoPairMatches
<1>7. PointersInv'
  BY <1>1, <1>5, <1>6 DEF CallInv, PointersInv
<1>8. OutcomesSettled'
  BY <1>1, OutcomesStay DEF CallInv
<1>. QED
  BY <1>3, <1>4, <1>7, <1>8 DEF CallInv

----------------------------------------------------------------------------
LEMMA CallInvHolds == RegexpSpec => []CallInv
<1>1. CallInv /\ [RegexpNext]_regexpVars => CallInv'
  <2>. SUFFICES ASSUME CallInv, [RegexpNext]_regexpVars PROVE CallInv'
    OBVIOUS
  <2>1. CASE NextRow
    BY <2>1, CallOfNextRow
  <2>2. CASE ReturnNull
    BY <2>2, CallReturnsEarly DEF ReturnNull
  <2>3. CASE ReturnInput
    BY <2>3, CallReturnsEarly DEF ReturnInput
  <2>4. CASE ReplaceFails
    BY <2>4, CallReturnsEarly DEF ReplaceFails, ArgumentsGiven
  <2>5. CASE Prepare
    BY <2>5, CallIsPrepared
  <2>6. CASE NextElement
    BY <2>6, CallOfNextElement
  <2>7. CASE NullElement
    BY <2>7, CallOfNullElement
  <2>8. CASE ApplyUnsplit
    BY <2>8, CallIsUnsplit
  <2>9. CASE ApplyLastResult
    BY <2>9, CallOfLastResult
  <2>10. CASE ApplyChunk
    BY <2>10, CallOfChunk
  <2>11. CASE SkipChunk
    BY <2>11, CallSkipsChunk
  <2>12. CASE LeaveScalar
    BY <2>12, CallLeavesScalar
  <2>13. CASE ApplyTail
    BY <2>13, CallOfTail
  <2>14. CASE ReturnBuilt
    BY <2>14, CallReturnsBuilt
  <2>15. CASE UNCHANGED regexpVars
    BY <2>15, CallStutters
  <2>. QED
    BY <2>1, <2>2, <2>3, <2>4, <2>5, <2>6, <2>7, <2>8, <2>9, <2>10, <2>11, <2>12, <2>13,
       <2>14, <2>15 DEF RegexpNext
<1>. QED
  BY <1>1, CallBegins, PTL DEF RegexpSpec

(* The pairs of a rule with the result of its position. *)
LEMMA PairsAre ==
  ASSUME Len(Rule) \in Nat, Len(Result) \in Nat
  PROVE  \A k : k \in Pairs <=> k \in Nat /\ k >= 1 /\ k <= Len(Rule) /\ k <= Len(Result)
<1>. DEFINE S == {Len(Rule), Len(Result)}
            m == Min(S)
<1>1. m \in S /\ \A k \in S : m <= k
  <2>1. S \in SUBSET Nat /\ S # {}
    OBVIOUS
  <2>. HIDE DEF S
  <2>. QED
    BY <2>1, MinOfNaturals
<1>2. m \in Nat /\ \A k \in Nat : k <= m <=> k <= Len(Rule) /\ k <= Len(Result)
  <2>. HIDE DEF m
  <2>. QED
    BY <1>1
<1>3. Pairs = 1..m
  BY DEF Pairs
<1>. HIDE DEF m
<1>. QED
  BY <1>2, <1>3

(* The first matching rule is the first that matches among those tried, if *)
(* it is before the limit and no empty end.                                *)
LEMMA FirstMatchTried ==
  ASSUME Len(Rule) \in Nat, Len(Result) \in Nat, NEW v, NEW k \in Pairs,
         IsFirstMatch(k, v), k < REGEXP_SPLIT_MAX_TOKENS, ~EmptyEnd(k)
  PROVE  ~NoPairMatches(v) /\ FirstTried(v) = MadeBy(k, v)
<1>. DEFINE matching == {l \in TriedPairs : Matches(<<Rule[l]>>, v)}
<1>1. k \in Nat /\ k >= 1 /\ k <= Len(Rule) /\ k <= Len(Result)
  BY PairsAre
<1>2. k \in TriedPairs
  <2>1. k <= REGEXP_SPLIT_MAX_TOKENS - 1
    BY <1>1, RegexpAssumption
  <2>. QED
    BY <1>1, <2>1, TriedPairsAre DEF EmptyEnd
<1>3. Matches(<<Rule[k]>>, v)
  BY DEF IsFirstMatch
<1>4. k \in matching
  BY <1>2, <1>3
<1>5. \A l \in matching : l \in Nat /\ l >= k
  <2>. SUFFICES ASSUME NEW l \in matching PROVE l \in Nat /\ l >= k
    OBVIOUS
  <2>1. l \in TriedPairs /\ Matches(<<Rule[l]>>, v)
    OBVIOUS
  <2>2. l \in Nat /\ l \in Pairs
    BY <2>1, PairsAre, TriedPairsAre
  <2>3. ~(l < k)
    BY <2>1, <2>2 DEF IsFirstMatch
  <2>. QED
    BY <1>1, <2>2, <2>3
<1>6. FirstTried(v) = IF matching = {} THEN get_in_copy(v)
                      ELSE Outcome(<<Rule[Min(matching)]>>, <<Result[Min(matching)]>>, v)
  BY DEF FirstTried
<1>7. Min(matching) = k
  <2>. HIDE DEF matching
  <2>1. Min(matching) \in matching /\ Min(matching) <= k
    BY <1>4, <1>5, MinOfNaturals
  <2>. QED
    BY <1>1, <1>5, <2>1
<1>8. ~NoPairMatches(v)
  BY <1>2, <1>3 DEF NoPairMatches
<1>. HIDE DEF matching
<1>. QED
  BY <1>4, <1>6, <1>7, <1>8 DEF MadeBy

(* Without a match before the limit the text stays as it is. *)
LEMMA NoneTriedMatches ==
  ASSUME Len(Rule) \in Nat, Len(Result) \in Nat, NEW v,
         \A k \in Pairs : k < REGEXP_SPLIT_MAX_TOKENS => ~Matches(<<Rule[k]>>, v)
  PROVE  FirstTried(v) = get_in_copy(v)
<1>1. ASSUME NEW k \in TriedPairs PROVE ~Matches(<<Rule[k]>>, v)
  <2>1. k \in Nat /\ k \in Pairs /\ k <= REGEXP_SPLIT_MAX_TOKENS - 1
    BY PairsAre, TriedPairsAre
  <2>2. k < REGEXP_SPLIT_MAX_TOKENS
    BY <2>1, RegexpAssumption
  <2>. QED
    BY <2>1, <2>2
<1>2. {k \in TriedPairs : Matches(<<Rule[k]>>, v)} = {}
  BY <1>1
<1>. QED
  BY <1>2 DEF FirstTried

(* Outcomes are there for rules and results that are given. *)
LEMMA OutcomeSettled ==
  ASSUME CallInv, NEW o \in outcomes
  PROVE  Len(Rule) \in Nat /\ Len(Result) \in Nat /\ o[2] = Settled(o[1])
<1>1. query.rule # NullArg /\ query.result # NullArg /\ o[2] = Settled(o[1])
  BY DEF CallInv, OutcomesSettled
<1>2. Len(Rule) \in Nat /\ Len(Result) \in Nat
  BY <1>1, QueriesOK, RuleAndResult DEF CallInv, CallShape
<1>. QED
  BY <1>1, <1>2

LEMMA RegularIsNotLeft ==
  ASSUME Len(Rule) \in Nat, Len(Result) \in Nat, Regular
  PROVE  LeftAfter = {}
<1>. SUFFICES ASSUME NEW m \in LeftAfter PROVE FALSE
  OBVIOUS
<1>1. m \in Nat /\ m >= 1 /\ m < Len(Rule) /\ m < Len(Result)
  BY DEF LeftAfter
<1>2. ~Full(m)
  BY <1>1, RegexpAssumption DEF Full, Regular
<1>3. ~NoRuleAfter(m) /\ ~NoResultAfter(m)
  BY <1>1 DEF NoRuleAfter, NoResultAfter, Regular
<1>. QED
  BY <1>2, <1>3 DEF LeftAfter

(* Whatever the rules, the results and the texts are, and however many the *)
(* rows and elements before, a text becomes what the first matching rule   *)
(* before the limit makes of it, and stays as it is if none up to the      *)
(* limit matches (f_regexp_replace_rand.c:255-302, 555-618).               *)
THEOREM FirstMatchIsTaken == RegexpSpec => []FirstMatchWins
<1>1. CallInv => FirstMatchWins
  <2>. SUFFICES ASSUME CallInv, NEW o \in outcomes, query.fn # "opt"
                PROVE
        /\ \A k \in Pairs :
              (IsFirstMatch(k, o[1]) /\ k < REGEXP_SPLIT_MAX_TOKENS /\ ~EmptyEnd(k))
                => o[2] = MadeBy(k, o[1])
        /\ (/\ query.fn = "noopt" \/ Regular
            /\ \A k \in Pairs :
                  k <= REGEXP_SPLIT_MAX_TOKENS => ~Matches(<<Rule[k]>>, o[1]))
              => o[2] = get_in_copy(o[1])
    BY DEF FirstMatchWins
  <2>1. Len(Rule) \in Nat /\ Len(Result) \in Nat /\ o[2] = Settled(o[1])
    BY OutcomeSettled
  <2>2. ASSUME NEW k \in Pairs, IsFirstMatch(k, o[1]), k < REGEXP_SPLIT_MAX_TOKENS,
               ~EmptyEnd(k)
        PROVE  o[2] = MadeBy(k, o[1])
    BY <2>1, <2>2, FirstMatchTried DEF Settled
  <2>3. ASSUME query.fn = "noopt" \/ Regular,
               \A k \in Pairs : k <= REGEXP_SPLIT_MAX_TOKENS => ~Matches(<<Rule[k]>>, o[1])
        PROVE  o[2] = get_in_copy(o[1])
    <3>1. \A k \in Pairs : k < REGEXP_SPLIT_MAX_TOKENS => k <= REGEXP_SPLIT_MAX_TOKENS
      BY <2>1, PairsAre, RegexpAssumption
    <3>2. FirstTried(o[1]) = get_in_copy(o[1])
      BY <2>1, <2>3, <3>1, NoneTriedMatches
    <3>3. query.fn = "noopt" \/ LeftAfter = {}
      BY <2>1, <2>3, RegularIsNotLeft
    <3>. QED
      BY <2>1, <3>2, <3>3 DEF Settled
  <2>. QED
    BY <2>2, <2>3
<1>. QED
  BY <1>1, CallInvHolds, PTL

(* One chunk less than the limit is tried for a single text: whatever the  *)
(* limit is, the first matching rule gives its result if it stands before  *)
(* it, and none at it or behind (f_regexp_replace_rand.c:276).  What the   *)
(* regexp_limit run shows happens for any rules.                           *)
THEOREM RuleAtLimitIsMissed ==
  RegexpSpec => [](\A o \in outcomes : query.fn = "noopt" =>
                     \A k \in Pairs :
                       (IsFirstMatch(k, o[1]) /\ ~EmptyEnd(k))
                         => o[2] = IF k < REGEXP_SPLIT_MAX_TOKENS THEN MadeBy(k, o[1])
                                   ELSE get_in_copy(o[1]))
<1>. DEFINE Missed ==
       \A o \in outcomes : query.fn = "noopt" =>
         \A k \in Pairs :
           (IsFirstMatch(k, o[1]) /\ ~EmptyEnd(k))
             => o[2] = IF k < REGEXP_SPLIT_MAX_TOKENS THEN MadeBy(k, o[1])
                       ELSE get_in_copy(o[1])
<1>1. CallInv => Missed
  <2>. SUFFICES ASSUME CallInv, NEW o \in outcomes, query.fn = "noopt",
                       NEW k \in Pairs, IsFirstMatch(k, o[1]), ~EmptyEnd(k)
                PROVE  o[2] = IF k < REGEXP_SPLIT_MAX_TOKENS THEN MadeBy(k, o[1])
                              ELSE get_in_copy(o[1])
    OBVIOUS
  <2>1. Len(Rule) \in Nat /\ Len(Result) \in Nat /\ o[2] = Settled(o[1])
    BY OutcomeSettled
  <2>2. o[2] = FirstTried(o[1])
    BY <2>1 DEF Settled
  <2>3. CASE k < REGEXP_SPLIT_MAX_TOKENS
    BY <2>1, <2>2, <2>3, FirstMatchTried
  <2>4. CASE ~(k < REGEXP_SPLIT_MAX_TOKENS)
    <3>1. \A l \in Pairs : l < REGEXP_SPLIT_MAX_TOKENS => l < k
      BY <2>1, <2>4, PairsAre, RegexpAssumption
    <3>2. \A l \in Pairs : l < REGEXP_SPLIT_MAX_TOKENS => ~Matches(<<Rule[l]>>, o[1])
      BY <3>1 DEF IsFirstMatch
    <3>3. FirstTried(o[1]) = get_in_copy(o[1])
      BY <2>1, <3>2, NoneTriedMatches
    <3>. QED
      BY <2>2, <2>4, <3>3
  <2>. QED
    BY <2>3, <2>4
<1>. QED
  BY <1>1, CallInvHolds, PTL

(* Equal texts become equal, whatever row or element they stand in, also   *)
(* where the loop over an array is left early                              *)
(* (f_regexp_replace_rand.c:545-618).                                      *)
THEOREM ElementsAreIndependent == RegexpSpec => []ElementsIndependent
<1>1. CallInv => ElementsIndependent
  BY DEF CallInv, OutcomesSettled, ElementsIndependent
<1>. QED
  BY <1>1, CallInvHolds, PTL

(* A call with variables, or of rules and results that are not split,      *)
(* leaves nothing of its own in fcinfo (f_regexp_replace_rand.c:217-228,   *)
(* 308-316).                                                               *)
THEOREM SubstitutionIsUndone == RegexpSpec => []SubstitutionUndone
<1>1. CallInv => SubstitutionUndone
  BY DEF CallInv, ArgsInv, SubstitutionUndone, ArgumentsRestored, Excused
<1>. QED
  BY <1>1, CallInvHolds, PTL
============================================================================

----------------------- MODULE ProcessTemplatesProofs -----------------------
(***************************************************************************)
(* process_templates renders texts of any length with any values, and      *)
(* leaves no placeholder behind.                                           *)
(***************************************************************************)
EXTENDS ProcessTemplates, Integers, SequenceTheorems, WellFoundedInduction, TLAPS

Texts == Seq(Pieces)

(* A JSON object: its scalar values are texts. *)
IsObject(vars) == \A n \in DOMAIN vars : vars[n] \in Texts \union {NonScalar}

Ends(t, k) == {j \in k..Len(t) : t[j] = Close}

(* What is rendered from place k on, given what is from later places on. *)
RenderStep(t, vars, f, k) ==
    IF k > Len(t) THEN <<>>
    ELSE IF t[k] # Open THEN <<t[k]>> \o f[k + 1]
    ELSE IF Ends(t, k) = {} THEN SubSeq(t, k + 1, Len(t))
    ELSE Value(vars, SubSeq(t, k + 1, Min(Ends(t, k)) - 1)) \o f[Min(Ends(t, k)) + 1]

----------------------------------------------------------------------------
LEMMA MinOfNaturals ==
  ASSUME NEW S \in SUBSET Nat, S # {}
  PROVE  Min(S) \in S /\ \A k \in S : Min(S) <= k
<1> DEFINE Below == OpToRel(<, Nat)
<1>1. IsWellFoundedOn(Below, Nat)
  BY NatLessThanWellFounded
<1>2. PICK m \in S : \A k \in S : ~ (<<k, m>> \in Below)
  <2>. HIDE DEF Below
  <2>. QED
    BY <1>1, WFMin
<1>3. \A k \in S : m <= k
  <2>. TAKE k \in S
  <2>1. k \in Nat /\ m \in Nat
    OBVIOUS
  <2>2. k < m => <<k, m>> \in Below
    BY <2>1 DEF OpToRel
  <2>. HIDE DEF Below
  <2>. QED
    BY <1>2, <2>1, <2>2
<1>. QED
  BY <1>3 DEF Min

(* What holds of 0 and of the successor of each number it holds of, holds  *)
(* of all numbers up to n.                                                 *)
LEMMA UpTo ==
  ASSUME NEW n \in Nat, NEW P \in SUBSET Nat, 0 \in P,
         \A k \in 0..n : (k # n /\ k \in P) => k + 1 \in P
  PROVE  \A k \in 0..n : k \in P
<1>. DEFINE Missing == {k \in 0..n : k \notin P}
<1>. SUFFICES ASSUME Missing # {} PROVE FALSE
  OBVIOUS
<1>1. Missing \in SUBSET Nat
  OBVIOUS
<1>2. PICK m \in Missing : \A k \in Missing : m <= k
  <2>. HIDE DEF Missing
  <2>. QED
    BY <1>1, MinOfNaturals
<1>3. m \in Nat /\ m # 0 /\ m <= n /\ m \notin P
  OBVIOUS
<1>4. m - 1 \in 0..n /\ m - 1 # n /\ (m - 1) + 1 = m
  BY <1>3
<1>5. m - 1 \in P
  BY <1>2, <1>3, <1>4
<1>. QED
  BY <1>3, <1>4, <1>5

(* The first closing delimiter. *)
LEMMA FirstEnd ==
  ASSUME NEW t \in Texts, NEW k \in 1..Len(t), Ends(t, k) # {}
  PROVE  /\ Min(Ends(t, k)) \in k..Len(t)
         /\ t[Min(Ends(t, k))] = Close
         /\ t[k] = Open => Min(Ends(t, k)) > k
<1>1. Len(t) \in Nat /\ Ends(t, k) \in SUBSET Nat
  BY DEF Ends, Texts
<1>2. Min(Ends(t, k)) \in Ends(t, k)
  BY <1>1, MinOfNaturals
<1>. QED
  BY <1>1, <1>2, TemplatesAssumption DEF Ends

LEMMA ValueIsText ==
  ASSUME NEW vars, IsObject(vars), NEW name
  PROVE  Value(vars, name) \in Texts
<1>1. CASE \E n \in Names : name = <<n>> /\ n \in DOMAIN vars /\ vars[n] # NonScalar
  <2>1. PICK n \in Names : name = <<n>> /\ n \in DOMAIN vars /\ vars[n] # NonScalar
    BY <1>1
  <2>2. Value(vars, name) = vars[n]
    BY <1>1, <2>1 DEF Value
  <2>. QED
    BY <2>1, <2>2 DEF IsObject
<1>2. CASE ~ \E n \in Names : name = <<n>> /\ n \in DOMAIN vars /\ vars[n] # NonScalar
  <2>1. Value(vars, name) = <<>>
    BY <1>2 DEF Value
  <2>. QED
    BY <2>1 DEF Texts
<1>. QED
  BY <1>1, <1>2

(* A step is a text if what it rests on is, and rests on later places. *)
LEMMA StepIsText ==
  ASSUME NEW t \in Texts, NEW vars, IsObject(vars), NEW f, NEW k \in 1..(Len(t) + 1),
         \A j \in (k + 1)..(Len(t) + 1) : f[j] \in Texts
  PROVE  RenderStep(t, vars, f, k) \in Texts
<1>1. Len(t) \in Nat
  BY DEF Texts
<1>2. CASE k > Len(t)
  BY <1>2 DEF RenderStep, Texts
<1>3. CASE k <= Len(t) /\ t[k] # Open
  <2>1. k + 1 \in (k + 1)..(Len(t) + 1) /\ t[k] \in Pieces
    BY <1>1, <1>3 DEF Texts
  <2>2. RenderStep(t, vars, f, k) = <<t[k]>> \o f[k + 1]
    BY <1>1, <1>3 DEF RenderStep
  <2>3. f[k + 1] \in Seq(Pieces) /\ <<t[k]>> \in Seq(Pieces)
    BY <2>1 DEF Texts
  <2>. QED
    BY <2>2, <2>3, ConcatProperties DEF Texts
<1>4. CASE k <= Len(t) /\ t[k] = Open /\ Ends(t, k) = {}
  <2>1. RenderStep(t, vars, f, k) = SubSeq(t, k + 1, Len(t))
    BY <1>1, <1>4 DEF RenderStep
  <2>2. \A i \in (k + 1)..Len(t) : t[i] \in Pieces
    BY <1>1 DEF Texts
  <2>. QED
    BY <1>1, <2>1, <2>2, SubSeqProperties DEF Texts
<1>5. CASE k <= Len(t) /\ t[k] = Open /\ Ends(t, k) # {}
  <2>. DEFINE m == Min(Ends(t, k))
  <2>1. m \in k..Len(t) /\ m > k
    BY <1>1, <1>5, FirstEnd
  <2>2. RenderStep(t, vars, f, k) = Value(vars, SubSeq(t, k + 1, m - 1)) \o f[m + 1]
    <3>1. ~ (k > Len(t))
      BY <1>1, <1>5
    <3>. QED
      BY <1>5, <3>1, Zenon DEF RenderStep
  <2>. HIDE DEF m
  <2>3. m + 1 \in (k + 1)..(Len(t) + 1)
    BY <1>1, <2>1
  <2>4. f[m + 1] \in Seq(Pieces) /\ Value(vars, SubSeq(t, k + 1, m - 1)) \in Seq(Pieces)
    BY <2>3, ValueIsText DEF Texts
  <2>. QED
    BY <2>2, <2>4, ConcatProperties DEF Texts
<1>. QED
  BY <1>1, <1>2, <1>3, <1>4, <1>5

LEMMA StepLooksAhead ==
  ASSUME NEW t \in Texts, NEW vars, NEW f, NEW g, NEW k \in 1..(Len(t) + 1),
         \A j \in (k + 1)..(Len(t) + 1) : f[j] = g[j]
  PROVE  RenderStep(t, vars, f, k) = RenderStep(t, vars, g, k)
<1>1. Len(t) \in Nat
  BY DEF Texts
<1>2. k <= Len(t) => f[k + 1] = g[k + 1]
  BY <1>1
<1>3. (k <= Len(t) /\ t[k] = Open /\ Ends(t, k) # {}) =>
        f[Min(Ends(t, k)) + 1] = g[Min(Ends(t, k)) + 1]
  <2>. SUFFICES ASSUME k <= Len(t), t[k] = Open, Ends(t, k) # {}
                PROVE  f[Min(Ends(t, k)) + 1] = g[Min(Ends(t, k)) + 1]
    OBVIOUS
  <2>1. Min(Ends(t, k)) \in k..Len(t) /\ Min(Ends(t, k)) > k
    BY <1>1, FirstEnd
  <2>. QED
    BY <1>1, <2>1
<1>. QED
  BY <1>1, <1>2, <1>3 DEF RenderStep

(* The recursion is well-founded, and what it yields are texts. *)
LEMMA RenderedFromFacts ==
  ASSUME NEW t \in Texts, NEW vars, IsObject(vars)
  PROVE  \A k \in 1..(Len(t) + 1) :
           /\ RenderedFrom(t, vars)[k] \in Texts
           /\ RenderedFrom(t, vars)[k] = RenderStep(t, vars, RenderedFrom(t, vars), k)
<1>. DEFINE L == Len(t)
            Part(f, m) == \A k \in (L + 1 - m)..(L + 1) :
                            f[k] \in Texts /\ f[k] = RenderStep(t, vars, f, k)
            P == {m \in Nat : m <= L => \E f : Part(f, m)}
            from == RenderedFrom(t, vars)
<1>1. L \in Nat
  BY DEF Texts
<1>. HIDE DEF L
<1>2. 0 \in P
  <2>. DEFINE f == [k \in (L + 1)..(L + 1) |-> RenderStep(t, vars, <<>>, k)]
  <2>1. \A k \in (L + 1)..(L + 1) : RenderStep(t, vars, f, k) = <<>> /\ f[k] = <<>>
    <3>1. \A g, k : k > Len(t) => RenderStep(t, vars, g, k) = <<>>
      BY DEF RenderStep
    <3>2. \A k \in (L + 1)..(L + 1) : k > Len(t)
      BY <1>1 DEF L
    <3>. QED
      BY <3>1, <3>2
  <2>2. <<>> \in Texts
    BY DEF Texts
  <2>. HIDE DEF f
  <2>3. Part(f, 0)
    BY <1>1, <2>1, <2>2
  <2>. QED
    BY <2>3
<1>3. ASSUME NEW m \in 0..L, m # L, m \in P PROVE m + 1 \in P
  <2>1. PICK f : Part(f, m)
    BY <1>1, <1>3
  <2>. DEFINE first == L - m
              g == [k \in first..(L + 1) |->
                      IF k = first THEN RenderStep(t, vars, f, first) ELSE f[k]]
  <2>2. /\ first \in 1..(Len(t) + 1) /\ L + 1 - m = first + 1 /\ L + 1 - (m + 1) = first
        /\ first \in first..(L + 1)
    BY <1>1, <1>3 DEF L
  <2>. HIDE DEF first
  <2>3. \A k \in (first + 1)..(L + 1) :
          f[k] \in Texts /\ f[k] = RenderStep(t, vars, f, k)
    BY <2>1, <2>2
  <2>4. \A k \in (first + 1)..(L + 1) : g[k] = f[k]
    BY <1>1, <2>2
  <2>5. g[first] = RenderStep(t, vars, f, first)
    BY <2>2
  <2>. HIDE DEF g
  <2>6. RenderStep(t, vars, f, first) \in Texts
    BY <2>2, <2>3, StepIsText DEF L
  <2>7. \A k \in first..(L + 1) : RenderStep(t, vars, g, k) = RenderStep(t, vars, f, k)
    <3>. TAKE k \in first..(L + 1)
    <3>1. k \in 1..(Len(t) + 1)
      BY <1>1, <2>2 DEF L
    <3>2. \A j \in (k + 1)..(Len(t) + 1) : g[j] = f[j]
      BY <1>1, <2>2, <2>4, <3>1 DEF L
    <3>. QED
      BY <3>1, <3>2, StepLooksAhead
  <2>8. \A k \in first..(L + 1) : g[k] \in Texts /\ g[k] = RenderStep(t, vars, g, k)
    <3>. TAKE k \in first..(L + 1)
    <3>1. CASE k = first
      BY <2>5, <2>6, <2>7, <3>1
    <3>2. CASE k # first
      <4>1. k \in (first + 1)..(L + 1)
        BY <1>1, <2>2, <3>2
      <4>. QED
        BY <2>3, <2>4, <2>7, <4>1
    <3>. QED
      BY <3>1, <3>2
  <2>9. Part(g, m + 1)
    BY <2>2, <2>8
  <2>10. \E h : Part(h, m + 1)
    <3>. HIDE DEF Part
    <3>. QED
      BY <2>9
  <2>. HIDE DEF Part
  <2>. QED
    BY <2>10
<1>4. \E f : Part(f, L)
  <2>1. L \in P
    <3>. HIDE DEF P
    <3>1. P \subseteq Nat
      BY DEF P
    <3>. QED
      BY <1>1, <1>2, <1>3, <3>1, UpTo
  <2>. HIDE DEF Part
  <2>. QED
    BY <1>1, <2>1
<1>5. PICK f : Part(f, L)
  BY <1>4
<1>6. \A k \in 1..(Len(t) + 1) : f[k] \in Texts /\ f[k] = RenderStep(t, vars, f, k)
  BY <1>1, <1>5 DEF L
<1>7. \E e : e = [k \in 1..(Len(t) + 1) |-> RenderStep(t, vars, e, k)]
  <2>. DEFINE e == [k \in 1..(Len(t) + 1) |-> f[k]]
  <2>1. \A k \in 1..(Len(t) + 1) : e[k] = RenderStep(t, vars, e, k)
    <3>. TAKE k \in 1..(Len(t) + 1)
    <3>1. \A j \in (k + 1)..(Len(t) + 1) : e[j] = f[j]
      BY <1>1 DEF L
    <3>2. e[k] = f[k]
      OBVIOUS
    <3>. HIDE DEF e
    <3>3. RenderStep(t, vars, e, k) = RenderStep(t, vars, f, k)
      BY <3>1, StepLooksAhead
    <3>. QED
      BY <1>6, <3>2, <3>3
  <2>2. e = [k \in 1..(Len(t) + 1) |-> RenderStep(t, vars, e, k)]
    BY <2>1
  <2>. QED
    BY <2>2
<1>8. from = [k \in 1..(Len(t) + 1) |-> RenderStep(t, vars, from, k)]
  <2>1. from = CHOOSE e : e = [k \in 1..(Len(t) + 1) |-> RenderStep(t, vars, e, k)]
    BY DEF RenderedFrom, RenderStep, Ends
  <2>. QED
    BY <1>7, <2>1
<1>. HIDE DEF from
<1>9. \A k \in 1..(Len(t) + 1) : from[k] = RenderStep(t, vars, from, k)
  BY <1>8
<1>10. \A k \in 1..(Len(t) + 1) : from[k] \in Texts
  <2>. DEFINE Q == {m \in Nat : \A k \in (L + 1 - m)..(L + 1) : k >= 1 => from[k] \in Texts}
  <2>1. ASSUME NEW k \in 1..(Len(t) + 1), \A j \in (k + 1)..(Len(t) + 1) : from[j] \in Texts
        PROVE  from[k] \in Texts
    BY <1>9, <2>1, StepIsText
  <2>2. 0 \in Q
    <3>1. from[L + 1] \in Texts
      BY <1>1, <2>1 DEF L
    <3>. QED
      BY <1>1, <3>1
  <2>3. ASSUME NEW m \in 0..L, m # L, m \in Q PROVE m + 1 \in Q
    <3>1. L - m \in 1..(Len(t) + 1)
      BY <1>1, <2>3 DEF L
    <3>2. \A j \in (L + 1 - m)..(L + 1) : j >= 1 => from[j] \in Texts
      BY <2>3
    <3>3. \A j \in (L - m + 1)..(Len(t) + 1) : from[j] \in Texts
      BY <1>1, <2>3, <3>2 DEF L
    <3>4. from[L - m] \in Texts
      BY <2>1, <3>1, <3>3
    <3>5. \A j \in (L + 1 - (m + 1))..(L + 1) : j = L - m \/ j \in (L + 1 - m)..(L + 1)
      BY <1>1, <2>3
    <3>. QED
      BY <2>3, <3>2, <3>4, <3>5
  <2>4. L \in Q
    <3>. HIDE DEF Q
    <3>1. Q \subseteq Nat
      BY DEF Q
    <3>. QED
      BY <1>1, <2>2, <2>3, <3>1, UpTo
  <2>. QED
    BY <1>1, <2>4 DEF L
<1>. QED
  BY <1>9, <1>10 DEF from

(* Up to the first opening delimiter a text is rendered as it is. *)
LEMMA HeadIsCopied ==
  ASSUME NEW t \in Texts, NEW vars, IsObject(vars),
         NEW k \in 1..(Len(t) + 1), NEW n \in k..(Len(t) + 1),
         \A j \in k..(n - 1) : t[j] # Open
  PROVE  RenderedFrom(t, vars)[k] = SubSeq(t, k, n - 1) \o RenderedFrom(t, vars)[n]
<1>. DEFINE from == RenderedFrom(t, vars)
            Copied(j) == from[k] = SubSeq(t, k, j - 1) \o from[j]
            P == {m \in Nat : Copied(k + m)}
<1>1. Len(t) \in Nat /\ k \in Nat /\ n \in Nat /\ n - k \in Nat
  BY DEF Texts
<1>2. \A j \in 1..(Len(t) + 1) :
        from[j] \in Seq(Pieces) /\ from[j] = RenderStep(t, vars, from, j)
  BY RenderedFromFacts DEF Texts
<1>. HIDE DEF from
<1>3. Copied(k)
  <2>1. SubSeq(t, k, k - 1) = <<>>
    BY <1>1, SubSeqEmpty
  <2>2. from[k] \in Seq(Pieces)
    BY <1>2
  <2>3. <<>> \o from[k] = from[k]
    BY <2>2, ConcatEmptySeq
  <2>. QED
    BY <2>1, <2>3
<1>4. ASSUME NEW j \in k..(n - 1), Copied(j) PROVE Copied(j + 1)
  <2>1. j \in 1..Len(t) /\ j \in Nat /\ j + 1 \in 1..(Len(t) + 1)
    BY <1>1
  <2>2. from[j] = <<t[j]>> \o from[j + 1]
    <3>1. ~ (j > Len(t)) /\ t[j] # Open /\ j \in 1..(Len(t) + 1)
      BY <1>1, <2>1
    <3>. QED
      BY <1>2, <3>1, Zenon DEF RenderStep
  <2>3. /\ SubSeq(t, k, j) = SubSeq(t, k, j - 1) \o <<t[j]>>
        /\ SubSeq(t, k, j - 1) \in Seq(Pieces) /\ <<t[j]>> \in Seq(Pieces)
    <3>1. k \in 1..Len(t) /\ j \in k..Len(t) /\ t \in Seq(Pieces)
      BY <1>1, <2>1 DEF Texts
    <3>2. \A i \in k..(j - 1) : t[i] \in Pieces
      BY <1>1, <3>1
    <3>. QED
      BY <1>1, <3>1, <3>2, SubSeqRecursiveSecond, SubSeqProperties
  <2>4. from[j + 1] \in Seq(Pieces)
    BY <1>2, <2>1
  <2>. DEFINE head == SubSeq(t, k, j - 1)
              rest == from[j + 1]
  <2>5. (head \o <<t[j]>>) \o rest = head \o (<<t[j]>> \o rest)
    <3>1. head \in Seq(Pieces) /\ rest \in Seq(Pieces) /\ <<t[j]>> \in Seq(Pieces)
      BY <2>3, <2>4
    <3>. HIDE DEF head, rest
    <3>. QED
      BY <3>1, ConcatAssociative
  <2>6. from[k] = SubSeq(t, k, j) \o rest
    BY <1>4, <2>2, <2>3, <2>5, Zenon
  <2>7. (j + 1) - 1 = j
    BY <2>1
  <2>. QED
    BY <2>6, <2>7
<1>. HIDE DEF Copied
<1>5. 0 \in P
  BY <1>1, <1>3
<1>6. ASSUME NEW m \in 0..(n - k), m # n - k, m \in P PROVE m + 1 \in P
  <2>1. k + m \in k..(n - 1) /\ (k + m) + 1 = k + (m + 1)
    BY <1>1, <1>6
  <2>2. Copied(k + m)
    BY <1>6
  <2>3. Copied((k + m) + 1)
    BY <1>4, <2>1, <2>2
  <2>. QED
    BY <1>6, <2>1, <2>3
<1>7. Copied(k + (n - k))
  <2>1. \A m \in 0..(n - k) : m \in P
    <3>. HIDE DEF P
    <3>1. P \in SUBSET Nat
      BY DEF P
    <3>. QED
      BY <1>1, <1>5, <1>6, <3>1, UpTo
  <2>. QED
    BY <1>1, <2>1
<1>8. k + (n - k) = n
  BY <1>1
<1>9. Copied(n)
  BY <1>7, <1>8
<1>. QED
  BY <1>9 DEF Copied, from

----------------------------------------------------------------------------
(* The invariant of the scanner. *)
Processing == call.templates # NoText /\ call.vars # NotObject

Elements == Seq(Texts \union {NoText})

ScannerTypeOK ==
    /\ call.templates \in Elements /\ IsObject(call.vars)
    /\ st \in {"process_templates", "ST_NORMAL", "ST_PLACEHOLDER", "processed"}
    /\ rendered \in Elements /\ Len(rendered) <= Len(call.templates)
    /\ pos \in Nat /\ sinfo \in Texts
    /\ st \in {"ST_NORMAL", "ST_PLACEHOLDER"} =>
        Len(rendered) < Len(call.templates) /\ tpl # NoText /\ pos <= Len(tpl)
    /\ st = "processed" => Len(rendered) = Len(call.templates)

RenderedSoFar ==
    \A k \in 1..Len(rendered) :
        rendered[k] = IF call.templates[k] = NoText THEN NoText
                      ELSE Rendering(call.templates[k], call.vars)

(* What is in the buffer and what is still to be rendered make up the      *)
(* element; in a placeholder this counts from its opening delimiter.       *)
ScannedSoFar ==
    /\ st = "ST_NORMAL" =>
        sinfo \o RenderedFrom(tpl, call.vars)[pos + 1] = Rendering(tpl, call.vars)
    /\ st = "ST_PLACEHOLDER" =>
        \/ /\ pos >= 1 /\ tpl[pos] = Open
           /\ sinfo \o RenderedFrom(tpl, call.vars)[pos] = Rendering(tpl, call.vars)
        \/ pos = Len(tpl) /\ sinfo = Rendering(tpl, call.vars)

ScannerInv == Processing => ScannerTypeOK /\ RenderedSoFar /\ ScannedSoFar

(* The element that is scanned. *)
LEMMA ElementInScan ==
  ASSUME ScannerTypeOK, st \in {"ST_NORMAL", "ST_PLACEHOLDER"}
  PROVE  tpl \in Seq(Pieces) /\ Len(tpl) \in Nat /\ pos \in 0..Len(tpl)
         /\ elem \in 1..Len(call.templates)
<1>1. elem \in 1..Len(call.templates)
  BY DEF ScannerTypeOK, Elements, elem
<1>2. call.templates[elem] \in Texts \union {NoText}
  BY <1>1 DEF ScannerTypeOK, Elements
<1>3. tpl \in Seq(Pieces)
  BY <1>2 DEF ScannerTypeOK, tpl, Texts
<1>. QED
  BY <1>1, <1>3 DEF ScannerTypeOK

(* The first delimiter ahead. *)
LEMMA FirstAhead ==
  ASSUME ScannerTypeOK, st \in {"ST_NORMAL", "ST_PLACEHOLDER"},
         NEW delimiter, Ahead(delimiter) # {}
  PROVE  /\ Min(Ahead(delimiter)) \in (pos + 1)..Len(tpl)
         /\ tpl[Min(Ahead(delimiter))] = delimiter
         /\ \A j \in (pos + 1)..(Min(Ahead(delimiter)) - 1) : tpl[j] # delimiter
<1>1. Len(tpl) \in Nat /\ pos \in Nat /\ Ahead(delimiter) \in SUBSET Nat
  BY ElementInScan DEF Ahead
<1>2. /\ Min(Ahead(delimiter)) \in Ahead(delimiter)
      /\ \A k \in Ahead(delimiter) : Min(Ahead(delimiter)) <= k
  BY <1>1, MinOfNaturals
<1>. DEFINE m == Min(Ahead(delimiter))
<1>3. m \in (pos + 1)..Len(tpl) /\ tpl[m] = delimiter
  BY <1>2 DEF Ahead
<1>. HIDE DEF m
<1>4. ASSUME NEW j \in (pos + 1)..(m - 1), tpl[j] = delimiter PROVE FALSE
  <2>1. j \in Ahead(delimiter) /\ j < m
    BY <1>1, <1>3, <1>4 DEF Ahead
  <2>. QED
    BY <1>1, <1>2, <1>3, <2>1 DEF m
<1>. QED
  BY <1>3, <1>4 DEF m

LEMMA SubSeqIsText ==
  ASSUME NEW t \in Seq(Pieces), NEW k \in 1..(Len(t) + 1), NEW n \in 0..Len(t)
  PROVE  SubSeq(t, k, n) \in Seq(Pieces)
<1>1. \A i \in k..n : t[i] \in Pieces
  OBVIOUS
<1>. QED
  BY <1>1, SubSeqProperties

LEMMA ScannerInitInv == TemplatesInit => ScannerInv
<1>. SUFFICES ASSUME TemplatesInit, Processing
              PROVE  ScannerTypeOK /\ RenderedSoFar /\ ScannedSoFar
  BY DEF ScannerInv
<1>1. call.templates \in Elements /\ IsObject(call.vars)
  BY TemplatesAssumption DEF TemplatesInit, Processing, Elements, IsObject, Texts
<1>. QED
  BY <1>1 DEF TemplatesInit, ScannerTypeOK, RenderedSoFar, ScannedSoFar, Texts, Elements

Scanning ==
    /\ Processing /\ ScannerTypeOK /\ RenderedSoFar /\ ScannedSoFar

LEMMA NextTemplateStep ==
  ASSUME Scanning, NextTemplate
  PROVE  (ScannerTypeOK /\ RenderedSoFar /\ ScannedSoFar)'
<1>1. /\ call' = call /\ pos' = 0 /\ sinfo' = <<>> /\ <<>> \in Texts
      /\ st = "process_templates"
  BY DEF NextTemplate, Texts
<1>2. /\ call.templates \in Elements /\ IsObject(call.vars) /\ rendered \in Elements
      /\ Len(rendered) <= Len(call.templates) /\ Len(rendered) \in Nat
  BY DEF Scanning, ScannerTypeOK, Elements
<1>3. CASE Len(rendered) = Len(call.templates)
  <2>1. st' = "processed" /\ rendered' = rendered
    BY <1>3 DEF NextTemplate
  <2>. QED
    BY <1>1, <1>2, <1>3, <2>1
       DEF Scanning, ScannerTypeOK, RenderedSoFar, ScannedSoFar, IsObject
<1>4. CASE Len(rendered) # Len(call.templates) /\ tpl = NoText
  <2>1. st' = "process_templates" /\ rendered' = Append(rendered, NoText)
    BY <1>1, <1>4 DEF NextTemplate
  <2>2. /\ rendered' \in Elements /\ Len(rendered') = Len(rendered) + 1
        /\ rendered'[Len(rendered) + 1] = NoText
        /\ \A k \in 1..Len(rendered) : rendered'[k] = rendered[k]
    BY <1>2, <2>1 DEF Elements
  <2>3. call.templates[Len(rendered) + 1] = NoText
    BY <1>4 DEF tpl, elem
  <2>4. RenderedSoFar'
    BY <1>1, <1>2, <2>2, <2>3 DEF Scanning, RenderedSoFar
  <2>5. Len(rendered') <= Len(call.templates)
    <3>1. Len(call.templates) \in Nat
      BY <1>2 DEF Elements
    <3>. QED
      BY <1>2, <1>4, <2>2, <3>1
  <2>6. ScannerTypeOK'
    BY <1>1, <1>2, <2>1, <2>2, <2>5 DEF ScannerTypeOK, IsObject
  <2>. QED
    BY <2>1, <2>4, <2>6 DEF ScannedSoFar
<1>5. CASE Len(rendered) # Len(call.templates) /\ tpl # NoText
  <2>1. st' = "ST_NORMAL" /\ rendered' = rendered
    BY <1>5 DEF NextTemplate
  <2>2. tpl' = tpl
    BY <1>1, <2>1 DEF tpl, elem
  <2>3. elem \in 1..Len(call.templates) /\ Len(rendered) < Len(call.templates)
    <3>1. Len(call.templates) \in Nat
      BY <1>2 DEF Elements
    <3>. QED
      BY <1>2, <1>5, <3>1 DEF elem
  <2>4. tpl \in Texts
    BY <1>2, <1>5, <2>3 DEF tpl, Elements
  <2>5. Len(tpl) \in Nat
    BY <2>4 DEF Texts
  <2>6. ScannerTypeOK'
    BY <1>1, <1>2, <1>5, <2>1, <2>2, <2>3, <2>5 DEF ScannerTypeOK, IsObject
  <2>7. RenderedSoFar'
    BY <1>1, <2>1 DEF Scanning, RenderedSoFar
  <2>8. sinfo' \o RenderedFrom(tpl', call'.vars)[pos' + 1] = Rendering(tpl', call'.vars)
    <3>1. RenderedFrom(tpl, call.vars)[1] \in Seq(Pieces)
      BY <1>2, <2>4, <2>5, RenderedFromFacts DEF Texts
    <3>2. <<>> \o RenderedFrom(tpl, call.vars)[1] = RenderedFrom(tpl, call.vars)[1]
      BY <3>1, ConcatEmptySeq
    <3>3. pos' + 1 = 1
      BY <1>1
    <3>. QED
      BY <1>1, <2>2, <3>2, <3>3 DEF Rendering
  <2>9. ScannedSoFar'
    BY <2>1, <2>8 DEF ScannedSoFar
  <2>. QED
    BY <2>6, <2>7, <2>9
<1>. QED
  BY <1>3, <1>4, <1>5

LEMMA FindStartStep ==
  ASSUME Scanning, FindStart
  PROVE  (ScannerTypeOK /\ RenderedSoFar /\ ScannedSoFar)'
<1>. DEFINE F(k) == RenderedFrom(tpl, call.vars)[k]
<1>1. st = "ST_NORMAL" /\ call' = call /\ rendered' = rendered /\ pos < Len(tpl)
  BY DEF FindStart
<1>2. tpl' = tpl
  BY <1>1 DEF tpl, elem
<1>3. /\ ScannerTypeOK /\ IsObject(call.vars) /\ sinfo \in Seq(Pieces)
      /\ sinfo \o F(pos + 1) = Rendering(tpl, call.vars)
  BY <1>1 DEF Scanning, ScannerTypeOK, ScannedSoFar, Texts
<1>4. tpl \in Seq(Pieces) /\ Len(tpl) \in Nat /\ pos \in 0..Len(tpl)
  BY <1>1, <1>3, ElementInScan
<1>5. RenderedSoFar'
  BY <1>1 DEF Scanning, RenderedSoFar
<1>6. CASE Ahead(Open) = {}
  <2>. DEFINE tail == SubSeq(tpl, pos + 1, Len(tpl))
  <2>1. sinfo' = sinfo \o tail /\ pos' = Len(tpl) /\ st' = "ST_NORMAL"
    BY <1>1, <1>6 DEF FindStart, AppendTail
  <2>2. F(pos + 1) = tail \o F(Len(tpl) + 1)
    <3>1. \A j \in (pos + 1)..((Len(tpl) + 1) - 1) : tpl[j] # Open
      BY <1>4, <1>6 DEF Ahead
    <3>2. pos + 1 \in 1..(Len(tpl) + 1) /\ Len(tpl) + 1 \in (pos + 1)..(Len(tpl) + 1)
      BY <1>4
    <3>3. F(pos + 1) = SubSeq(tpl, pos + 1, (Len(tpl) + 1) - 1) \o F(Len(tpl) + 1)
      BY <1>3, <1>4, <3>1, <3>2, HeadIsCopied DEF Texts
    <3>4. (Len(tpl) + 1) - 1 = Len(tpl)
      BY <1>4
    <3>. QED
      BY <3>3, <3>4
  <2>3. tail \in Seq(Pieces) /\ F(Len(tpl) + 1) \in Seq(Pieces)
    BY <1>3, <1>4, SubSeqIsText, RenderedFromFacts DEF Texts
  <2>. HIDE DEF tail, F
  <2>4. (sinfo \o tail) \o F(Len(tpl) + 1) = sinfo \o F(pos + 1)
    <3>1. (sinfo \o tail) \o F(Len(tpl) + 1) = sinfo \o (tail \o F(Len(tpl) + 1))
      BY <1>3, <2>3, ConcatAssociative
    <3>. QED
      BY <2>2, <3>1, Zenon
  <2>5. sinfo' \in Seq(Pieces)
    BY <1>3, <2>1, <2>3, ConcatProperties
  <2>6. ScannedSoFar'
    <3>1. sinfo' \o F(pos' + 1) = Rendering(tpl, call.vars)
      BY <1>3, <2>1, <2>4
    <3>. QED
      BY <1>1, <1>2, <2>1, <3>1 DEF ScannedSoFar, F
  <2>7. ScannerTypeOK'
    BY <1>1, <1>2, <1>3, <1>4, <2>1, <2>5 DEF ScannerTypeOK, IsObject, Texts
  <2>. QED
    BY <1>5, <2>6, <2>7
<1>7. CASE Ahead(Open) # {}
  <2>. DEFINE m == Min(Ahead(Open))
              head == SubSeq(tpl, pos + 1, m - 1)
  <2>1. sinfo' = sinfo \o head /\ pos' = m /\ st' = "ST_PLACEHOLDER"
    BY <1>7 DEF FindStart
  <2>2. /\ m \in (pos + 1)..Len(tpl) /\ tpl[m] = Open
        /\ \A j \in (pos + 1)..(m - 1) : tpl[j] # Open
    BY <1>1, <1>3, <1>7, FirstAhead
  <2>. HIDE DEF m
  <2>3. pos + 1 \in 1..(Len(tpl) + 1) /\ m \in (pos + 1)..(Len(tpl) + 1) /\ m \in Nat
    BY <1>4, <2>2
  <2>4. F(pos + 1) = head \o F(m)
    BY <1>3, <1>4, <2>2, <2>3, HeadIsCopied DEF Texts
  <2>5. head \in Seq(Pieces) /\ F(m) \in Seq(Pieces)
    <3>1. m - 1 \in 0..Len(tpl) /\ m \in 1..(Len(tpl) + 1)
      BY <1>4, <2>2
    <3>. QED
      BY <1>3, <1>4, <2>3, <3>1, SubSeqIsText, RenderedFromFacts DEF Texts
  <2>. HIDE DEF head, F
  <2>6. (sinfo \o head) \o F(m) = sinfo \o F(pos + 1)
    BY <1>3, <2>4, <2>5, ConcatAssociative
  <2>7. sinfo' \in Seq(Pieces)
    BY <1>3, <2>1, <2>5, ConcatProperties
  <2>8. ScannedSoFar'
    <3>1. sinfo' \o F(pos') = Rendering(tpl, call.vars) /\ pos' >= 1 /\ tpl[pos'] = Open
      BY <1>3, <1>4, <2>1, <2>2, <2>6
    <3>. QED
      BY <1>1, <1>2, <2>1, <3>1 DEF ScannedSoFar, F
  <2>9. ScannerTypeOK'
    BY <1>1, <1>2, <1>3, <1>4, <2>1, <2>2, <2>3, <2>7 DEF ScannerTypeOK, IsObject, Texts
  <2>. QED
    BY <1>5, <2>8, <2>9
<1>. QED
  BY <1>6, <1>7

LEMMA FindEndStep ==
  ASSUME Scanning, FindEnd
  PROVE  (ScannerTypeOK /\ RenderedSoFar /\ ScannedSoFar)'
<1>. DEFINE F(k) == RenderedFrom(tpl, call.vars)[k]
<1>1. st = "ST_PLACEHOLDER" /\ call' = call /\ rendered' = rendered /\ pos < Len(tpl)
  BY DEF FindEnd
<1>2. tpl' = tpl
  BY <1>1 DEF tpl, elem
<1>3. ScannerTypeOK /\ IsObject(call.vars) /\ sinfo \in Seq(Pieces)
  BY <1>1 DEF Scanning, ScannerTypeOK, Texts
<1>4. tpl \in Seq(Pieces) /\ Len(tpl) \in Nat /\ pos \in 0..Len(tpl)
  BY <1>1, <1>3, ElementInScan
<1>5. pos >= 1 /\ tpl[pos] = Open /\ sinfo \o F(pos) = Rendering(tpl, call.vars)
  BY <1>1, <1>4 DEF Scanning, ScannedSoFar
<1>6. RenderedSoFar'
  BY <1>1 DEF Scanning, RenderedSoFar
<1>7. Ends(tpl, pos) = Ahead(Close)
  <2>1. \A j \in pos..Len(tpl) : tpl[j] = Close => j \in (pos + 1)..Len(tpl)
    BY <1>4, <1>5, TemplatesAssumption
  <2>. QED
    BY <1>4, <2>1 DEF Ends, Ahead
<1>8. /\ Ahead(Close) = {} => F(pos) = SubSeq(tpl, pos + 1, Len(tpl))
      /\ Ahead(Close) # {} =>
           F(pos) = Value(call.vars, SubSeq(tpl, pos + 1, Min(Ahead(Close)) - 1))
                      \o F(Min(Ahead(Close)) + 1)
  <2>1. pos \in 1..(Len(tpl) + 1) /\ ~ (pos > Len(tpl))
    BY <1>1, <1>4, <1>5
  <2>2. F(pos) = RenderStep(tpl, call.vars, RenderedFrom(tpl, call.vars), pos)
    BY <1>3, <1>4, <2>1, RenderedFromFacts DEF Texts
  <2>. QED
    BY <1>5, <1>7, <2>1, <2>2, Zenon DEF RenderStep
<1>9. CASE Ahead(Close) = {}
  <2>. DEFINE tail == SubSeq(tpl, pos + 1, Len(tpl))
  <2>1. sinfo' = sinfo \o tail /\ pos' = Len(tpl) /\ st' = "ST_PLACEHOLDER"
    BY <1>1, <1>9 DEF FindEnd, AppendTail
  <2>2. tail \in Seq(Pieces)
    BY <1>4, SubSeqIsText
  <2>3. sinfo' = Rendering(tpl, call.vars)
    BY <1>5, <1>8, <1>9, <2>1
  <2>. HIDE DEF tail
  <2>4. sinfo' \in Seq(Pieces)
    BY <1>3, <2>1, <2>2, ConcatProperties
  <2>5. ScannedSoFar'
    BY <1>1, <1>2, <2>1, <2>3 DEF ScannedSoFar
  <2>6. ScannerTypeOK'
    BY <1>1, <1>2, <1>3, <1>4, <2>1, <2>4 DEF ScannerTypeOK, IsObject, Texts
  <2>. QED
    BY <1>6, <2>5, <2>6
<1>10. CASE Ahead(Close) # {}
  <2>. DEFINE m == Min(Ahead(Close))
              value == Value(call.vars, SubSeq(tpl, pos + 1, m - 1))
  <2>1. sinfo' = sinfo \o value /\ pos' = m /\ st' = "ST_NORMAL"
    BY <1>10 DEF FindEnd
  <2>2. m \in (pos + 1)..Len(tpl)
    BY <1>1, <1>3, <1>10, FirstAhead
  <2>3. F(pos) = value \o F(m + 1)
    BY <1>8, <1>10
  <2>. HIDE DEF m
  <2>4. value \in Seq(Pieces)
    BY <1>3, ValueIsText DEF Texts
  <2>5. F(m + 1) \in Seq(Pieces)
    <3>1. m + 1 \in 1..(Len(tpl) + 1)
      BY <1>4, <2>2
    <3>. QED
      BY <1>3, <1>4, <3>1, RenderedFromFacts DEF Texts
  <2>. HIDE DEF value, F
  <2>6. (sinfo \o value) \o F(m + 1) = sinfo \o F(pos)
    <3>1. (sinfo \o value) \o F(m + 1) = sinfo \o (value \o F(m + 1))
      BY <1>3, <2>4, <2>5, ConcatAssociative
    <3>. QED
      BY <2>3, <3>1, Zenon
  <2>7. sinfo' \in Seq(Pieces)
    BY <1>3, <2>1, <2>4, ConcatProperties
  <2>8. ScannedSoFar'
    <3>1. sinfo' \o F(pos' + 1) = Rendering(tpl, call.vars)
      BY <1>5, <2>1, <2>6
    <3>. QED
      BY <1>1, <1>2, <2>1, <3>1 DEF ScannedSoFar, F
  <2>9. ScannerTypeOK'
    BY <1>1, <1>2, <1>3, <1>4, <2>1, <2>2, <2>7 DEF ScannerTypeOK, IsObject, Texts
  <2>. QED
    BY <1>6, <2>8, <2>9
<1>. QED
  BY <1>9, <1>10

(* At the end of an element the buffer holds its rendering. *)
LEMMA ElementDone ==
  ASSUME Scanning, st \in {"ST_NORMAL", "ST_PLACEHOLDER"}, pos = Len(tpl)
  PROVE  sinfo = Rendering(tpl, call.vars)
<1>. DEFINE F(k) == RenderedFrom(tpl, call.vars)[k]
            L == Len(tpl)
<1>1. ScannerTypeOK /\ IsObject(call.vars) /\ sinfo \in Seq(Pieces)
  BY DEF Scanning, ScannerTypeOK, Texts
<1>2. tpl \in Seq(Pieces) /\ L \in Nat /\ pos = L
  BY <1>1, ElementInScan
<1>3. \A k \in 1..(L + 1) :
        F(k) = RenderStep(tpl, call.vars, RenderedFrom(tpl, call.vars), k)
  BY <1>1, <1>2, RenderedFromFacts DEF Texts
<1>4. sinfo \o <<>> = sinfo
  BY <1>1, ConcatEmptySeq
<1>5. CASE st = "ST_NORMAL"
  <2>1. sinfo \o F(L + 1) = Rendering(tpl, call.vars)
    BY <1>2, <1>5 DEF Scanning, ScannedSoFar
  <2>2. F(L + 1) = <<>>
    <3>1. L + 1 \in 1..(L + 1) /\ L + 1 > L
      BY <1>2
    <3>. QED
      BY <1>3, <3>1 DEF RenderStep
  <2>. QED
    BY <1>4, <2>1, <2>2
<1>6. CASE st = "ST_PLACEHOLDER" /\ sinfo # Rendering(tpl, call.vars)
  <2>1. L >= 1 /\ tpl[L] = Open /\ sinfo \o F(L) = Rendering(tpl, call.vars)
    BY <1>2, <1>6 DEF Scanning, ScannedSoFar
  <2>2. Ends(tpl, L) = {}
    BY <1>2, <2>1, TemplatesAssumption DEF Ends
  <2>3. F(L) = SubSeq(tpl, L + 1, L)
    <3>1. L \in 1..(L + 1) /\ ~ (L > L)
      BY <1>2, <2>1
    <3>. QED
      BY <1>3, <2>1, <2>2, <3>1, Zenon DEF RenderStep
  <2>4. SubSeq(tpl, L + 1, L) = <<>>
    BY <1>2, SubSeqEmpty
  <2>. QED
    BY <1>4, <2>1, <2>3, <2>4
<1>. QED
  BY <1>5, <1>6

LEMMA EndOfTemplateStep ==
  ASSUME Scanning, EndOfTemplate
  PROVE  (ScannerTypeOK /\ RenderedSoFar /\ ScannedSoFar)'
<1>1. /\ st \in {"ST_NORMAL", "ST_PLACEHOLDER"} /\ pos = Len(tpl)
      /\ call' = call /\ pos' = pos /\ sinfo' = sinfo
      /\ st' = "process_templates" /\ rendered' = Append(rendered, sinfo)
  BY DEF EndOfTemplate
<1>2. /\ call.templates \in Elements /\ IsObject(call.vars) /\ rendered \in Elements
      /\ Len(rendered) < Len(call.templates) /\ Len(rendered) \in Nat
      /\ Len(call.templates) \in Nat /\ sinfo \in Texts /\ pos \in Nat /\ tpl # NoText
  BY <1>1 DEF Scanning, ScannerTypeOK, Elements
<1>3. sinfo = Rendering(tpl, call.vars)
  BY <1>1, ElementDone
<1>4. /\ rendered' \in Elements /\ Len(rendered') = Len(rendered) + 1
      /\ rendered'[Len(rendered) + 1] = sinfo
      /\ \A k \in 1..Len(rendered) : rendered'[k] = rendered[k]
  BY <1>1, <1>2 DEF Elements
<1>5. tpl = call.templates[Len(rendered) + 1]
  BY DEF tpl, elem
<1>6. RenderedSoFar'
  <2>1. \A k \in 1..Len(rendered) :
          rendered[k] = IF call.templates[k] = NoText THEN NoText
                        ELSE Rendering(call.templates[k], call.vars)
    BY DEF Scanning, RenderedSoFar
  <2>2. \A k \in 1..Len(rendered') : k \in 1..Len(rendered) \/ k = Len(rendered) + 1
    BY <1>2, <1>4
  <2>. QED
    BY <1>1, <1>2, <1>3, <1>4, <1>5, <2>1, <2>2 DEF RenderedSoFar
<1>7. ScannerTypeOK'
  BY <1>1, <1>2, <1>4 DEF ScannerTypeOK, IsObject
<1>. QED
  BY <1>1, <1>6, <1>7 DEF ScannedSoFar

LEMMA ScannerInvHolds == TemplatesSpec => []ScannerInv
<1>1. ASSUME ScannerInv, [TemplatesNext]_templateVars PROVE ScannerInv'
  <2>1. call' = call
    BY <1>1 DEF TemplatesNext, templateVars, ReturnUnprocessed, NextTemplate,
                FindStart, FindEnd, EndOfTemplate
  <2>. SUFFICES ASSUME Processing'
                PROVE  (ScannerTypeOK /\ RenderedSoFar /\ ScannedSoFar)'
    BY DEF ScannerInv
  <2>2. Scanning
    BY <1>1, <2>1 DEF ScannerInv, Scanning, Processing
  <2>3. CASE TemplatesNext
    <3>1. ~ReturnUnprocessed
      BY <2>2 DEF Scanning, Processing, ReturnUnprocessed
    <3>. QED
      BY <2>2, <2>3, <3>1, NextTemplateStep, FindStartStep, FindEndStep, EndOfTemplateStep
         DEF TemplatesNext
  <2>4. CASE UNCHANGED templateVars
    <3>1. tpl' = tpl
      BY <2>4 DEF templateVars, tpl, elem
    <3>. QED
      BY <2>2, <2>4, <3>1
         DEF templateVars, Scanning, ScannerTypeOK, RenderedSoFar, ScannedSoFar, IsObject
  <2>. QED
    BY <1>1, <2>3, <2>4
<1>. QED
  BY <1>1, ScannerInitInv, PTL DEF TemplatesSpec

(* Each element becomes its text with the values in the places of the      *)
(* names, for texts, arrays and objects of any size                        *)
(* (f_process_templates.c:63-81, 116-197).                                 *)
THEOREM TemplatesAreRendered == TemplatesSpec => []TemplatesRendered
<1>1. ScannerInv => TemplatesRendered
  <2>. SUFFICES ASSUME ScannerInv, Processing, st = "processed"
                PROVE  /\ Len(rendered) = Len(call.templates)
                       /\ \A k \in DOMAIN rendered :
                            rendered[k] = IF call.templates[k] = NoText THEN NoText
                                          ELSE Rendering(call.templates[k], call.vars)
    BY DEF TemplatesRendered, Processing
  <2>1. DOMAIN rendered = 1..Len(rendered)
    BY DEF ScannerInv, ScannerTypeOK, Elements
  <2>. QED
    BY <2>1 DEF ScannerInv, ScannerTypeOK, RenderedSoFar
<1>. QED
  BY <1>1, ScannerInvHolds, PTL

----------------------------------------------------------------------------
Lacks(t, delimiter) == \A j \in 1..Len(t) : t[j] # delimiter

LEMMA LackingOpen ==
  ASSUME NEW t \in Seq(Pieces), Lacks(t, Open)
  PROVE  ~HasPlaceholder(t)
  BY DEF HasPlaceholder, Lacks

(* Behind a text without an opening delimiter another one without is       *)
(* harmless, and so is one without a closing delimiter.                    *)
LEMMA JoinedTexts ==
  ASSUME NEW s \in Seq(Pieces), NEW t \in Seq(Pieces), Lacks(s, Open)
  PROVE  /\ Lacks(t, Open) => Lacks(s \o t, Open)
         /\ Lacks(t, Close) => ~HasPlaceholder(s \o t)
<1>1. /\ s \o t \in Seq(Pieces) /\ Len(s \o t) = Len(s) + Len(t)
      /\ \A i \in 1..(Len(s) + Len(t)) :
           (s \o t)[i] = IF i <= Len(s) THEN s[i] ELSE t[i - Len(s)]
  BY ConcatProperties
<1>2. Len(s) \in Nat /\ Len(t) \in Nat
  OBVIOUS
<1>. DEFINE j == s \o t
<1>. HIDE DEF j
<1>3. /\ Len(j) = Len(s) + Len(t)
      /\ \A i \in 1..Len(j) :
           \/ i <= Len(s) /\ i \in 1..Len(s) /\ j[i] = s[i]
           \/ i > Len(s) /\ i - Len(s) \in 1..Len(t) /\ j[i] = t[i - Len(s)]
  BY <1>1, <1>2 DEF j
<1>4. Lacks(t, Open) => Lacks(j, Open)
  BY <1>3 DEF Lacks
<1>5. ASSUME Lacks(t, Close), NEW a \in 1..Len(j), NEW b \in 1..Len(j), a < b,
             j[a] = Open, j[b] = Close
      PROVE  FALSE
  <2>1. a > Len(s)
    BY <1>3, <1>5 DEF Lacks
  <2>2. b > Len(s)
    BY <1>2, <1>3, <1>5, <2>1
  <2>3. b - Len(s) \in 1..Len(t) /\ j[b] = t[b - Len(s)]
    BY <1>2, <1>3, <2>2
  <2>. QED
    BY <1>5, <2>3 DEF Lacks
<1>6. Lacks(t, Close) => ~HasPlaceholder(j)
  BY <1>5 DEF HasPlaceholder
<1>. QED
  BY <1>4, <1>6 DEF j

LEMMA PieceOfText ==
  ASSUME NEW t \in Seq(Pieces), NEW k \in 1..(Len(t) + 1), NEW n \in 0..Len(t),
         NEW delimiter, \A i \in k..n : t[i] # delimiter
  PROVE  Lacks(SubSeq(t, k, n), delimiter)
<1>1. \A i \in k..n : t[i] \in Pieces
  OBVIOUS
<1>2. /\ Len(SubSeq(t, k, n)) = IF k <= n THEN n - k + 1 ELSE 0
      /\ \A i \in 1..(n - k + 1) : SubSeq(t, k, n)[i] = t[k + i - 1]
  BY <1>1, SubSeqProperties
<1>3. \A i \in 1..Len(SubSeq(t, k, n)) : i \in 1..(n - k + 1) /\ k + i - 1 \in k..n
  BY <1>2
<1>. QED
  BY <1>2, <1>3 DEF Lacks

LEMMA PlainValue ==
  ASSUME IsObject(call.vars), PlainValues, NEW name
  PROVE  Lacks(Value(call.vars, name), Open)
<1>1. CASE \E n \in Names : name = <<n>> /\ n \in DOMAIN call.vars /\ call.vars[n] # NonScalar
  <2>1. PICK n \in Names :
          name = <<n>> /\ n \in DOMAIN call.vars /\ call.vars[n] # NonScalar
    BY <1>1
  <2>2. Value(call.vars, name) = call.vars[n]
    BY <1>1, <2>1 DEF Value
  <2>. QED
    BY <2>1, <2>2 DEF PlainValues, Lacks
<1>2. CASE ~ \E n \in Names :
            name = <<n>> /\ n \in DOMAIN call.vars /\ call.vars[n] # NonScalar
  <2>1. Value(call.vars, name) = <<>>
    BY <1>2 DEF Value
  <2>. QED
    BY <2>1 DEF Lacks
<1>. QED
  BY <1>1, <1>2

(* The buffer has no opening delimiter, unless the rest of an element was  *)
(* copied into it in which nothing is closed.                              *)
CleanInv ==
    (Processing /\ PlainValues) =>
        /\ \A k \in 1..Len(rendered) :
            rendered[k] # NoText => ~HasPlaceholder(rendered[k])
        /\ st = "ST_NORMAL" => Lacks(sinfo, Open)
        /\ st = "ST_PLACEHOLDER" =>
            Lacks(sinfo, Open) \/ (pos = Len(tpl) /\ ~HasPlaceholder(sinfo))

LEMMA CleanStep ==
  ASSUME Scanning, PlainValues, CleanInv, TemplatesNext
  PROVE  CleanInv'
<1>1. ScannerTypeOK /\ IsObject(call.vars) /\ sinfo \in Seq(Pieces) /\ rendered \in Elements
  BY DEF Scanning, ScannerTypeOK, Texts
<1>2. /\ \A k \in 1..Len(rendered) :
           rendered[k] # NoText => ~HasPlaceholder(rendered[k])
      /\ st = "ST_NORMAL" => Lacks(sinfo, Open)
      /\ st = "ST_PLACEHOLDER" =>
           Lacks(sinfo, Open) \/ (pos = Len(tpl) /\ ~HasPlaceholder(sinfo))
  BY DEF CleanInv, Scanning
<1>3. CASE NextTemplate
  <2>1. /\ st' \in {"process_templates", "processed", "ST_NORMAL"} /\ sinfo' = <<>>
        /\ rendered' = rendered \/ rendered' = Append(rendered, NoText)
    BY <1>3 DEF NextTemplate
  <2>2. \A k \in 1..Len(rendered') :
          rendered'[k] # NoText => ~HasPlaceholder(rendered'[k])
    BY <1>1, <1>2, <2>1 DEF Elements
  <2>3. Lacks(<<>>, Open)
    BY DEF Lacks
  <2>. QED
    BY <2>1, <2>2, <2>3 DEF CleanInv
<1>4. CASE FindStart
  <2>1. st = "ST_NORMAL" /\ rendered' = rendered /\ Lacks(sinfo, Open)
    BY <1>2, <1>4 DEF FindStart
  <2>2. tpl \in Seq(Pieces) /\ Len(tpl) \in Nat /\ pos \in 0..Len(tpl)
    BY <1>1, <2>1, ElementInScan
  <2>3. PICK n \in 0..Len(tpl) :
          /\ sinfo' = sinfo \o SubSeq(tpl, pos + 1, n)
          /\ \A j \in (pos + 1)..n : tpl[j] # Open
    <3>1. CASE Ahead(Open) = {}
      <4>1. sinfo' = sinfo \o SubSeq(tpl, pos + 1, Len(tpl))
        BY <1>4, <3>1 DEF FindStart, AppendTail
      <4>2. \A j \in (pos + 1)..Len(tpl) : tpl[j] # Open
        BY <3>1 DEF Ahead
      <4>3. Len(tpl) \in 0..Len(tpl)
        BY <2>2
      <4>. QED
        BY <4>1, <4>2, <4>3
    <3>2. CASE Ahead(Open) # {}
      <4>. DEFINE m == Min(Ahead(Open))
      <4>1. /\ m \in (pos + 1)..Len(tpl)
            /\ \A j \in (pos + 1)..(m - 1) : tpl[j] # Open
        BY <1>1, <2>1, <3>2, FirstAhead
      <4>2. sinfo' = sinfo \o SubSeq(tpl, pos + 1, m - 1)
        BY <1>4, <3>2 DEF FindStart
      <4>. HIDE DEF m
      <4>3. m - 1 \in 0..Len(tpl)
        BY <2>2, <4>1
      <4>. QED
        BY <4>1, <4>2, <4>3
    <3>. QED
      BY <3>1, <3>2
  <2>4. /\ SubSeq(tpl, pos + 1, n) \in Seq(Pieces)
        /\ Lacks(SubSeq(tpl, pos + 1, n), Open)
    <3>1. pos + 1 \in 1..(Len(tpl) + 1)
      BY <2>2
    <3>. QED
      BY <2>2, <2>3, <3>1, SubSeqIsText, PieceOfText
  <2>5. Lacks(sinfo', Open)
    BY <1>1, <2>1, <2>3, <2>4, JoinedTexts
  <2>. QED
    BY <1>2, <2>1, <2>5 DEF CleanInv
<1>5. CASE FindEnd
  <2>1. /\ st = "ST_PLACEHOLDER" /\ rendered' = rendered /\ call' = call
        /\ pos < Len(tpl)
    BY <1>5 DEF FindEnd
  <2>2. tpl' = tpl /\ tpl \in Seq(Pieces) /\ Len(tpl) \in Nat /\ pos \in 0..Len(tpl)
    BY <1>1, <2>1, ElementInScan DEF tpl, elem
  <2>3. Lacks(sinfo, Open)
    BY <1>2, <2>1, <2>2
  <2>4. CASE Ahead(Close) = {}
    <3>1. sinfo' = sinfo \o SubSeq(tpl, pos + 1, Len(tpl)) /\ pos' = Len(tpl) /\ st' = st
      BY <1>5, <2>4 DEF FindEnd, AppendTail
    <3>2. /\ SubSeq(tpl, pos + 1, Len(tpl)) \in Seq(Pieces)
          /\ Lacks(SubSeq(tpl, pos + 1, Len(tpl)), Close)
      <4>1. \A j \in (pos + 1)..Len(tpl) : tpl[j] # Close
        BY <2>2, <2>4 DEF Ahead
      <4>2. pos + 1 \in 1..(Len(tpl) + 1) /\ Len(tpl) \in 0..Len(tpl)
        BY <2>2
      <4>. QED
        BY <2>2, <4>1, <4>2, SubSeqIsText, PieceOfText
    <3>3. ~HasPlaceholder(sinfo')
      BY <1>1, <2>3, <3>1, <3>2, JoinedTexts
    <3>. QED
      BY <1>2, <2>1, <2>2, <3>1, <3>3 DEF CleanInv
  <2>5. CASE Ahead(Close) # {}
    <3>. DEFINE value == Value(call.vars, SubSeq(tpl, pos + 1, Min(Ahead(Close)) - 1))
    <3>1. sinfo' = sinfo \o value /\ st' = "ST_NORMAL"
      BY <1>5, <2>5 DEF FindEnd
    <3>2. value \in Seq(Pieces) /\ Lacks(value, Open)
      BY <1>1, ValueIsText, PlainValue DEF Texts
    <3>. HIDE DEF value
    <3>3. Lacks(sinfo', Open)
      BY <1>1, <2>3, <3>1, <3>2, JoinedTexts
    <3>. QED
      BY <1>2, <2>1, <3>1, <3>3 DEF CleanInv
  <2>. QED
    BY <2>4, <2>5
<1>6. CASE EndOfTemplate
  <2>1. /\ st \in {"ST_NORMAL", "ST_PLACEHOLDER"} /\ st' = "process_templates"
        /\ rendered' = Append(rendered, sinfo)
    BY <1>6 DEF EndOfTemplate
  <2>2. ~HasPlaceholder(sinfo)
    BY <1>1, <1>2, <2>1, LackingOpen
  <2>3. \A k \in 1..Len(rendered') :
          rendered'[k] # NoText => ~HasPlaceholder(rendered'[k])
    BY <1>1, <1>2, <2>1, <2>2 DEF Elements
  <2>. QED
    BY <2>1, <2>3 DEF CleanInv
<1>7. CASE ReturnUnprocessed
  BY <1>7 DEF ReturnUnprocessed, Scanning, Processing
<1>. QED
  BY <1>3, <1>4, <1>5, <1>6, <1>7 DEF TemplatesNext

(* No placeholder is left unless a value brings one, whatever the text     *)
(* (f_process_templates.c:123-163).                                        *)
THEOREM NoPlaceholderSurvives == TemplatesSpec => []NoPlaceholderLeft
<1>1. TemplatesInit => CleanInv
  BY DEF TemplatesInit, CleanInv
<1>2. ASSUME ScannerInv, CleanInv, [TemplatesNext]_templateVars PROVE CleanInv'
  <2>1. call' = call
    BY <1>2 DEF TemplatesNext, templateVars, ReturnUnprocessed, NextTemplate,
                FindStart, FindEnd, EndOfTemplate
  <2>2. Processing' = Processing /\ PlainValues' = PlainValues
    BY <2>1 DEF Processing, PlainValues
  <2>3. CASE TemplatesNext
    <3>. SUFFICES ASSUME Processing, PlainValues PROVE CleanInv'
      BY <2>2 DEF CleanInv
    <3>. QED
      BY <1>2, <2>3, CleanStep DEF ScannerInv, Scanning
  <2>4. CASE UNCHANGED templateVars
    <3>1. tpl' = tpl
      BY <2>4 DEF templateVars, tpl, elem
    <3>. QED
      BY <1>2, <2>2, <2>4, <3>1 DEF templateVars, CleanInv
  <2>. QED
    BY <1>2, <2>3, <2>4
<1>3. CleanInv => NoPlaceholderLeft
  BY DEF CleanInv, NoPlaceholderLeft, Processing
<1>. QED
  BY <1>1, <1>2, <1>3, ScannerInvHolds, PTL DEF TemplatesSpec
============================================================================

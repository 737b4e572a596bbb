-------------------------- MODULE ReplaceRandProofs --------------------------
(***************************************************************************)
(* For texts of any length over any characters, the first loop of replace  *)
(* finds every placeholder, and entries that lie apart, and the third one  *)
(* puts each one's digits in its place and fills the buffer whose length   *)
(* the second one computed.                                                *)
(***************************************************************************)
EXTENDS ReplaceRand, SequenceTheorems, WellFoundedInduction, TLAPS

Entry == [start : Nat, end : Nat, value : Nat]

ScanTypeOK ==
    /\ txt \in Seq(Chars) /\ p \in Nat
    /\ c \in Seq(Entry) /\ c_size \in Nat /\ c_size_inc \in Nat \ {0}
    /\ i \in 0..Len(c)

(* The scan is not before the end of what it has found. *)
ScanBehind == rr = "scan" => \A k \in 1..Len(c) : c[k].end <= p

(* What NoneMissed says of the place k. *)
NotMissed(k) ==
    \/ char(k) # RAND_START_1 \/ char(k + 1) # RAND_START_2
    \/ char(k + 2) \notin Numbers \/ EndsAfter(k) = {}
    \/ \E l \in 1..Len(c) : c[l].start = k
    \/ \E j \in 0..(k - 1) :
        char(j) = RAND_START_1 /\ char(j + 1) = RAND_START_2 /\ k < Min(EndsAfter(j))

NoneMissedSoFar ==
    rr \in {"scan", "scanned", "size", "copy", "replaced"} =>
        \A k \in 0..(s_end - RAND_COMPLETED_MIN_LEN) : (rr = "scan" /\ k >= p) \/ NotMissed(k)

ScanInv == ScanTypeOK /\ ScanBehind /\ PlaceholdersApart /\ NoneMissedSoFar

----------------------------------------------------------------------------
(* The minimum of numbers is one of them and below the others. *)
LEMMA MinOfNaturals ==
  ASSUME NEW S \in SUBSET Nat, S # {}
  PROVE  Min(S) \in S /\ \A k \in S : Min(S) <= k
<1> DEFINE Below == OpToRel(<, Nat)
<1>1. IsWellFoundedOn(Below, Nat)
  BY NatLessThanWellFounded
<1>2. PICK m \in S : \A k \in S : ~ (<<k, m>> \in Below)
  <2>. HIDE DEF Below
  <2>. QED
    BY <1>1, WFMin
<1>3. \A k \in S : m <= k
  <2>. TAKE k \in S
  <2>1. k \in Nat /\ m \in Nat
    OBVIOUS
  <2>2. k < m => <<k, m>> \in Below
    BY <2>1 DEF OpToRel
  <2>. HIDE DEF Below
  <2>. QED
    BY <1>2, <2>1, <2>2
<1>. QED
  BY <1>3 DEF Min

(* What holds of 0 and of the successor of each number it holds of, holds  *)
(* of all numbers up to n.                                                 *)
LEMMA UpTo ==
  ASSUME NEW n \in Nat, NEW P \in SUBSET Nat, 0 \in P,
         \A k \in 0..n : (k # n /\ k \in P) => k + 1 \in P
  PROVE  \A k \in 0..n : k \in P
<1>. DEFINE Missing == {k \in 0..n : k \notin P}
<1>. SUFFICES ASSUME Missing # {} PROVE FALSE
  OBVIOUS
<1>1. Missing \in SUBSET Nat
  OBVIOUS
<1>2. PICK m \in Missing : \A k \in Missing : m <= k
  <2>. HIDE DEF Missing
  <2>. QED
    BY <1>1, MinOfNaturals
<1>3. m \in Nat /\ m # 0 /\ m <= n /\ m \notin P
  OBVIOUS
<1>4. m - 1 \in 0..n /\ m - 1 # n /\ (m - 1) + 1 = m
  BY <1>3
<1>5. m - 1 \in P
  BY <1>2, <1>3, <1>4
<1>. QED
  BY <1>3, <1>4, <1>5

(* The first r ahead. *)
LEMMA FirstStart ==
  ASSUME ScanTypeOK, StartsAhead # {}
  PROVE  /\ p2 \in Nat /\ p <= p2 /\ p2 < s_end /\ char(p2) = RAND_START_1
         /\ \A k \in p..(p2 - 1) : char(k) # RAND_START_1
<1>1. s_end \in Nat /\ p \in Nat
  BY DEF ScanTypeOK, s_end
<1>2. StartsAhead \subseteq Nat
  BY <1>1 DEF StartsAhead
<1>3. p2 \in StartsAhead /\ \A k \in StartsAhead : p2 <= k
  BY <1>2, MinOfNaturals DEF p2
<1>. QED
  BY <1>1, <1>3 DEF StartsAhead

(* The first closing bracket behind a start. *)
LEMMA FirstEnd ==
  ASSUME ScanTypeOK, NEW k \in Nat, EndsAfter(k) # {}
  PROVE  LET e == Min(EndsAfter(k)) IN
         /\ e \in Nat /\ k + RAND_START_LEN <= e /\ e < s_end /\ char(e) = RAND_END
         /\ \A j \in (k + RAND_START_LEN)..(e - 1) : char(j) # RAND_END
<1> DEFINE e == Min(EndsAfter(k))
<1>1. s_end \in Nat
  BY DEF ScanTypeOK, s_end
<1>2. EndsAfter(k) \subseteq Nat
  BY <1>1 DEF EndsAfter, RAND_START_LEN
<1>3. e \in EndsAfter(k) /\ \A j \in EndsAfter(k) : e <= j
  BY <1>2, MinOfNaturals
<1>. QED
  BY <1>1, <1>3 DEF EndsAfter, RAND_START_LEN

(* A step that leaves the text and the entries alone keeps what is said of *)
(* them.                                                                   *)
LEMMA SameText ==
  ASSUME txt' = txt
  PROVE  /\ s_end' = s_end /\ (\A k : char(k)' = char(k))
         /\ \A k : EndsAfter(k)' = EndsAfter(k)
  BY DEF s_end, char, EndsAfter

LEMMA SameEntries ==
  ASSUME txt' = txt, c' = c, c_size' = c_size
  PROVE  /\ PlaceholdersApart' <=> PlaceholdersApart
         /\ \A k : NotMissed(k)' <=> NotMissed(k)
  BY DEF PlaceholdersApart, NotMissed, s_end, char, EndsAfter

(* One more entry makes no place missed. *)
LEMMA OneMoreEntry ==
  ASSUME txt' = txt, c \in Seq(Entry), NEW e \in Entry, c' = Append(c, e)
  PROVE  /\ Len(c') = Len(c) + 1 /\ c'[Len(c) + 1] = e
         /\ \A l \in 1..Len(c) : c'[l] = c[l]
         /\ \A k : NotMissed(k) => NotMissed(k)'
<1>1. /\ Len(c') = Len(c) + 1 /\ c'[Len(c) + 1] = e
      /\ \A l \in 1..Len(c) : c'[l] = c[l]
  OBVIOUS
<1>2. ASSUME NEW k, NotMissed(k)
      PROVE  NotMissed(k)'
  <2>1. CASE \E l \in 1..Len(c) : c[l].start = k
    <3>1. PICK l \in 1..Len(c) : c[l].start = k
      BY <2>1
    <3>2. l \in 1..Len(c') /\ c'[l].start = k
      BY <1>1, <3>1
    <3>. QED
      BY <3>2 DEF NotMissed
  <2>2. CASE ~ \E l \in 1..Len(c) : c[l].start = k
    BY <1>2, <2>2 DEF NotMissed, s_end, char, EndsAfter
  <2>. QED
    BY <2>1, <2>2
<1>. QED
  BY <1>1, <1>2

----------------------------------------------------------------------------
(* The places before the first r ahead, and all of them when none has room *)
(* behind it, hold no placeholder.                                         *)
LEMMA NothingBefore ==
  ASSUME ScanTypeOK, Opened, NEW k \in Nat, p <= k, k < p2
  PROVE  NotMissed(k)
<1>1. p2 \in Nat /\ p \in Nat /\ \A l \in p..(p2 - 1) : char(l) # RAND_START_1
  BY FirstStart DEF Opened, ScanTypeOK
<1>. QED
  BY <1>1 DEF NotMissed

LEMMA NothingAhead ==
  ASSUME ScanTypeOK, ~Opened, NEW k \in Nat, p <= k, k <= s_end - RAND_COMPLETED_MIN_LEN
  PROVE  NotMissed(k)
<1>1. s_end \in Nat /\ p \in Nat
  BY DEF ScanTypeOK, s_end
<1>2. CASE StartsAhead = {}
  BY <1>1, <1>2 DEF StartsAhead, NotMissed, RAND_COMPLETED_MIN_LEN
<1>3. CASE StartsAhead # {}
  BY <1>1, <1>3, FirstStart DEF Opened, NotMissed, RAND_COMPLETED_MIN_LEN
<1>. QED
  BY <1>2, <1>3

(* Inside the brackets of the first r ahead nothing is missed. *)
LEMMA NothingInside ==
  ASSUME ScanTypeOK, Bracket, NEW k \in Nat, p2 < k, k < p3
  PROVE  NotMissed(k)
<1>1. p2 \in Nat /\ char(p2) = RAND_START_1 /\ char(p2 + 1) = RAND_START_2
  BY FirstStart DEF Bracket, Opened
<1>2. p2 \in 0..(k - 1) /\ k < Min(EndsAfter(p2))
  BY <1>1 DEF p3
<1>. QED
  BY <1>1, <1>2 DEF NotMissed

(* The bracket of the first r ahead closes behind it. *)
LEMMA BracketCloses ==
  ASSUME ScanTypeOK, Bracket
  PROVE  /\ p2 \in Nat /\ p3 \in Nat /\ p <= p2 /\ p2 + RAND_START_LEN <= p3 /\ p3 < s_end
         /\ char(p2) = RAND_START_1 /\ char(p2 + 1) = RAND_START_2 /\ char(p3) = RAND_END
         /\ \A j \in (p2 + RAND_START_LEN)..(p3 - 1) : char(j) # RAND_END
<1>1. p2 \in Nat /\ p <= p2 /\ char(p2) = RAND_START_1 /\ char(p2 + 1) = RAND_START_2
  BY FirstStart DEF Bracket, Opened
<1>. QED
  BY <1>1, FirstEnd DEF Bracket, p3

(* What a step of the scan that finds nothing must do. *)
LEMMA ScanGoesOn ==
  ASSUME ScanInv, rr = "scan", UNCHANGED <<txt, c, c_size, c_size_inc, i>>,
         p' \in Nat, p <= p',
         rr' \in {"scan", "scanned"},
         \A k \in Nat : p <= k /\ k <= s_end - RAND_COMPLETED_MIN_LEN
                          /\ (rr' = "scan" => k < p') => NotMissed(k)
  PROVE  ScanInv'
<1>1. ScanTypeOK /\ s_end \in Nat
  BY DEF ScanInv, ScanTypeOK, s_end
<1>2. ScanTypeOK'
  BY <1>1 DEF ScanTypeOK
<1>3. ScanBehind'
  <2>1. \A k \in 1..Len(c) : c[k] \in Entry
    BY <1>1 DEF ScanTypeOK
  <2>2. \A k \in 1..Len(c) : c[k].end <= p /\ c[k].end \in Nat
    BY <2>1 DEF ScanInv, ScanBehind, Entry
  <2>. QED
    BY <1>1, <2>2 DEF ScanBehind, ScanTypeOK
<1>4. PlaceholdersApart'
  BY SameEntries DEF ScanInv
<1>5. NoneMissedSoFar'
  <2>1. ASSUME NEW k \in 0..(s_end - RAND_COMPLETED_MIN_LEN), rr' = "scan" => k < p'
        PROVE  NotMissed(k)
    <3>1. k \in Nat /\ k <= s_end - RAND_COMPLETED_MIN_LEN
      BY <1>1 DEF RAND_COMPLETED_MIN_LEN
    <3>2. CASE k < p
      BY <2>1, <3>2 DEF ScanInv, NoneMissedSoFar, ScanTypeOK
    <3>3. CASE p <= k
      BY <2>1, <3>1, <3>3
    <3>. QED
      BY <1>1, <3>1, <3>2, <3>3 DEF ScanTypeOK
  <2>2. ASSUME NEW k \in 0..(s_end - RAND_COMPLETED_MIN_LEN)
        PROVE  (rr' = "scan" /\ k >= p') \/ NotMissed(k)'
    <3>1. CASE rr' = "scan" => k < p'
      BY <2>1, <3>1, SameEntries
    <3>2. CASE ~ (rr' = "scan" => k < p')
      BY <1>1, <3>2 DEF RAND_COMPLETED_MIN_LEN
    <3>. QED
      BY <3>1, <3>2
  <2>. QED
    BY <2>2, SameText DEF NoneMissedSoFar
<1>. QED
  BY <1>2, <1>3, <1>4, <1>5 DEF ScanInv

LEMMA ScanEndsStep ==
  ASSUME ScanInv, ScanEnds
  PROVE  ScanInv'
  BY ScanGoesOn, NothingAhead DEF ScanInv, ScanTypeOK, ScanEnds

LEMMA SkipStartStep ==
  ASSUME ScanInv, SkipStart
  PROVE  ScanInv'
<1>1. ScanTypeOK /\ s_end \in Nat /\ rr = "scan" /\ Opened
  BY DEF ScanInv, ScanTypeOK, s_end, SkipStart
<1>2. p2 \in Nat /\ p \in Nat /\ p <= p2 /\ char(p2) = RAND_START_1
  BY <1>1, FirstStart DEF Opened, ScanTypeOK
<1>3. CASE char(p2 + 1) # RAND_START_2 /\ GoOnAt(p2 + 1)
  <2>1. NotMissed(p2)
    BY <1>3 DEF NotMissed
  <2>2. ASSUME NEW k \in Nat, p <= k, k < p2 + 1
        PROVE  NotMissed(k)
    BY <1>1, <1>2, <2>1, <2>2, NothingBefore, k < p2 \/ k = p2
  <2>. QED
    BY <1>1, <1>2, <1>3, <2>2, ScanGoesOn DEF SkipStart, GoOnAt, RAND_COMPLETED_MIN_LEN
<1>4. CASE char(p2 + 1) = RAND_START_2 /\ EndsAfter(p2) = {}
           /\ GoOnAt(p2 + RAND_START_LEN)
  <2>1. NotMissed(p2)
    BY <1>4 DEF NotMissed
  <2>2. NotMissed(p2 + 1)
    BY <1>4, RandAssumption DEF NotMissed
  <2>3. ASSUME NEW k \in Nat, p <= k, k < p2 + RAND_START_LEN
        PROVE  NotMissed(k)
    <3>1. k < p2 \/ k = p2 \/ k = p2 + 1
      BY <1>2, <2>3 DEF RAND_START_LEN
    <3>. QED
      BY <1>1, <2>1, <2>2, <2>3, <3>1, NothingBefore
  <2>. QED
    BY <1>1, <1>2, <1>4, <2>3, ScanGoesOn
       DEF SkipStart, GoOnAt, RAND_START_LEN, RAND_COMPLETED_MIN_LEN
<1>. QED
  BY <1>3, <1>4 DEF SkipStart

LEMMA SkipBracketsStep ==
  ASSUME ScanInv, SkipBrackets
  PROVE  ScanInv'
<1>1. ScanTypeOK /\ p \in Nat /\ rr = "scan" /\ Bracket
  BY DEF ScanInv, ScanTypeOK, SkipBrackets
<1>2. p2 \in Nat /\ p3 \in Nat /\ p <= p2 /\ p2 < p3
  BY <1>1, BracketCloses DEF RAND_START_LEN
<1>3. NotMissed(p2)
  BY DEF SkipBrackets, NotMissed, RAND_START_LEN
<1>4. ASSUME NEW k \in Nat, p <= k, k < p3
      PROVE  NotMissed(k)
  <2>1. k < p2 \/ k = p2 \/ p2 < k
    BY <1>2
  <2>. QED
    BY <1>1, <1>3, <1>4, <2>1, NothingBefore, NothingInside DEF Bracket
<1>. QED
  BY <1>1, <1>2, <1>4, ScanGoesOn DEF SkipBrackets

LEMMA PlaceholderIsEntry ==
  ASSUME ScanTypeOK, Bracket, char(p2 + RAND_START_LEN) \in Numbers
  PROVE  /\ Placeholder \in Entry
         /\ Placeholder.start = p2 /\ Placeholder.end = p3
<1>1. p2 \in Nat /\ p3 \in Nat
  BY BracketCloses
<1>2. \A value \in Int : Clamped(value) \in Nat
  BY RandAssumption DEF Clamped
<1>3. Clamped(char(p2 + RAND_START_LEN)) \in Nat
  BY <1>2, RandAssumption
<1>. QED
  BY <1>1, <1>3 DEF Placeholder, Entry

LEMMA RoomForOneMore ==
  ASSUME ScanTypeOK, Len(c) <= c_size, GrowCache
  PROVE  c_size' \in Nat /\ c_size_inc' \in Nat \ {0} /\ Len(c) + 1 <= c_size'
<1>1. c_size \in Nat /\ c_size_inc \in Nat \ {0} /\ Len(c) \in Nat
  BY DEF ScanTypeOK
<1>2. CASE c_size > Len(c)
  BY <1>1, <1>2 DEF GrowCache
<1>3. CASE ~ c_size > Len(c)
  <2>1. c_size' = c_size + c_size_inc
        /\ c_size_inc' = Min({c_size_inc * CACHE_SIZE_INC_SCALE, CACHE_SIZE_INC_MAX})
    BY <1>3 DEF GrowCache
  <2>2. \A a, b \in Nat \ {0} : a * b \in Nat \ {0}
    OBVIOUS
  <2>3. c_size_inc * CACHE_SIZE_INC_SCALE \in Nat \ {0} /\ CACHE_SIZE_INC_MAX \in Nat \ {0}
    BY <1>1, <2>2, RandAssumption
  <2> DEFINE steps == {c_size_inc * CACHE_SIZE_INC_SCALE, CACHE_SIZE_INC_MAX}
  <2>4. steps \subseteq Nat \ {0} /\ steps # {}
    BY <2>3
  <2>5. Min(steps) \in steps
    BY <2>4, MinOfNaturals
  <2>. QED
    BY <1>1, <2>1, <2>4, <2>5
<1>. QED
  BY <1>2, <1>3

LEMMA FoundStep ==
  ASSUME ScanInv, Found
  PROVE  ScanInv'
<1>1. ScanTypeOK /\ p \in Nat /\ c \in Seq(Entry) /\ rr = "scan" /\ Bracket
      /\ char(p2 + RAND_START_LEN) \in Numbers /\ GrowCache
  BY DEF ScanInv, ScanTypeOK, Found
<1>2. /\ txt' = txt /\ rr' = rr /\ p' = p3
      /\ c' = Append(c, Placeholder)
  BY DEF Found
<1>3. /\ p2 \in Nat /\ p3 \in Nat /\ p <= p2 /\ p2 + RAND_START_LEN <= p3 /\ p3 < s_end
      /\ char(p2) = RAND_START_1 /\ char(p2 + 1) = RAND_START_2 /\ char(p3) = RAND_END
      /\ \A j \in (p2 + RAND_START_LEN)..(p3 - 1) : char(j) # RAND_END
  BY <1>1, BracketCloses
<1>4. p2 + RAND_START_LEN < p3
  <2>1. p2 + RAND_START_LEN # p3
    BY <1>1, <1>3, RandAssumption
  <2>. QED
    BY <1>3, <2>1 DEF RAND_START_LEN
<1>5. Placeholder \in Entry /\ Placeholder.start = p2 /\ Placeholder.end = p3
  BY <1>1, PlaceholderIsEntry
<1>6. /\ Len(c') = Len(c) + 1 /\ c'[Len(c) + 1] = Placeholder
      /\ \A l \in 1..Len(c) : c'[l] = c[l]
      /\ \A k : NotMissed(k) => NotMissed(k)'
  BY <1>1, <1>2, <1>5, OneMoreEntry
<1>7. /\ c_size' \in Nat /\ c_size_inc' \in Nat \ {0} /\ Len(c') <= c_size'
  BY <1>1, <1>6, RoomForOneMore DEF ScanInv, PlaceholdersApart
<1>8. ScanTypeOK'
  <2>1. i' \in 0..Len(c')
    BY <1>1, <1>6 DEF Found, ScanTypeOK
  <2>. QED
    BY <1>1, <1>2, <1>3, <1>5, <1>7, <2>1 DEF ScanTypeOK
<1>9. \A l \in 1..Len(c) : c[l].end \in Nat /\ c[l].end <= p /\ char(c[l].end) = RAND_END
  <2>1. \A l \in 1..Len(c) : c[l] \in Entry
    BY <1>1
  <2>. QED
    BY <1>1, <2>1 DEF ScanInv, ScanBehind, PlaceholdersApart, Entry
<1>10. Len(c) \in Nat
  BY <1>1
<1>11. ScanBehind'
  <2>1. ASSUME NEW l \in 1..Len(c')
        PROVE  c'[l].end <= p3
    <3>1. CASE l = Len(c) + 1
      BY <1>3, <1>5, <1>6, <3>1
    <3>2. CASE l \in 1..Len(c)
      BY <1>1, <1>3, <1>6, <1>9, <3>2 DEF RAND_START_LEN
    <3>. QED
      BY <1>6, <1>10, <3>1, <3>2
  <2>. QED
    BY <1>2, <2>1 DEF ScanBehind
<1>12. PlaceholdersApart'
  <2>1. ASSUME NEW k \in 1..Len(c')
        PROVE  /\ c'[k].start + RAND_START_LEN < c'[k].end /\ c'[k].end < s_end
               /\ char(c'[k].start) = RAND_START_1 /\ char(c'[k].start + 1) = RAND_START_2
               /\ char(c'[k].end) = RAND_END
               /\ \A j \in (c'[k].start + RAND_START_LEN)..(c'[k].end - 1) : char(j) # RAND_END
               /\ \A l \in 1..(k - 1) : c'[l].end < c'[k].start
    <3>1. CASE k = Len(c) + 1
      <4>1. \A l \in 1..Len(c) : c[l].end # p2
        BY <1>3, <1>9, RandAssumption
      <4>2. \A l \in 1..Len(c) : c'[l].end < p2
        BY <1>1, <1>3, <1>6, <1>9, <4>1
      <4>3. c'[k].start = p2 /\ c'[k].end = p3 /\ 1..(k - 1) = 1..Len(c)
        BY <1>5, <1>6, <1>10, <3>1
      <4>. QED
        BY <1>3, <1>4, <4>2, <4>3
    <3>2. CASE k \in 1..Len(c)
      <4>1. c'[k] = c[k] /\ \A l \in 1..(k - 1) : c'[l] = c[l]
        BY <1>6, <1>10, <3>2
      <4>. QED
        BY <3>2, <4>1 DEF ScanInv, PlaceholdersApart
    <3>. QED
      BY <1>6, <1>10, <3>1, <3>2
  <2>2. s_end' = s_end /\ \A k : char(k)' = char(k)
    BY <1>2, SameText
  <2>. QED
    BY <1>2, <1>7, <2>1, <2>2 DEF PlaceholdersApart, char
<1>13. NoneMissedSoFar'
  <2>1. ASSUME NEW k, k = p2
        PROVE  NotMissed(k)'
    <3>1. Len(c) + 1 \in 1..Len(c') /\ c'[Len(c) + 1].start = p2
      BY <1>5, <1>6, <1>10
    <3>2. \E l \in 1..Len(c') : c'[l].start = k
      BY <2>1, <3>1
    <3>. QED
      BY <3>2 DEF NotMissed
  <2>2. ASSUME NEW k \in 0..(s_end - RAND_COMPLETED_MIN_LEN), k < p3
        PROVE  NotMissed(k)'
    <3>1. k \in Nat
      OBVIOUS
    <3>2. CASE k < p
      <4>1. NotMissed(k)
        BY <1>1, <3>2 DEF ScanInv, NoneMissedSoFar
      <4>. QED
        BY <1>6, <4>1
    <3>3. CASE p <= k /\ k < p2
      <4>1. NotMissed(k)
        BY <1>1, <3>1, <3>3, NothingBefore DEF Bracket
      <4>. QED
        BY <1>6, <4>1
    <3>4. CASE k = p2
      BY <2>1, <3>4
    <3>5. CASE p2 < k
      BY <1>1, <1>6, <2>2, <3>1, <3>5, NothingInside
    <3>. QED
      BY <1>1, <1>3, <3>1, <3>2, <3>3, <3>4, <3>5
  <2>3. s_end \in Nat /\ s_end' = s_end
    BY <1>1, <1>2, SameText DEF ScanTypeOK, s_end
  <2>4. \A k \in 0..(s_end - RAND_COMPLETED_MIN_LEN) : k >= p3 \/ NotMissed(k)'
    BY <1>3, <2>2, <2>3 DEF RAND_COMPLETED_MIN_LEN
  <2>. QED
    BY <1>1, <1>2, <2>3, <2>4 DEF NoneMissedSoFar
<1>. QED
  BY <1>8, <1>11, <1>12, <1>13 DEF ScanInv

----------------------------------------------------------------------------
(* Once the scan is over the entries stay.                                 *)
LEMMA EntriesStay ==
  ASSUME ScanInv, UNCHANGED <<txt, c, c_size, c_size_inc>>,
         p' \in Nat, i' \in 0..Len(c), rr' # "scan",
         rr' \in {"scanned", "size", "copy", "replaced"} => rr \in {"scanned", "size", "copy", "replaced"}
  PROVE  ScanInv'
<1>1. ScanTypeOK' /\ ScanBehind'
  BY DEF ScanInv, ScanTypeOK, ScanBehind
<1>2. PlaceholdersApart'
  BY SameEntries DEF ScanInv
<1>3. NoneMissedSoFar'
  <2>1. CASE rr' \in {"scanned", "size", "copy", "replaced"}
    <3>1. \A k \in 0..(s_end - RAND_COMPLETED_MIN_LEN) : NotMissed(k)
      BY <2>1 DEF ScanInv, NoneMissedSoFar
    <3>2. \A k \in 0..(s_end - RAND_COMPLETED_MIN_LEN) : NotMissed(k)'
      BY <3>1, SameEntries
    <3>. QED
      BY <3>2, SameText DEF NoneMissedSoFar
  <2>2. CASE rr' \notin {"scan", "scanned", "size", "copy", "replaced"}
    BY <2>2 DEF NoneMissedSoFar
  <2>. QED
    BY <2>1, <2>2
<1>. QED
  BY <1>1, <1>2, <1>3 DEF ScanInv

LEMMA RandInitInv == RandInit => ScanInv
<1>. SUFFICES ASSUME RandInit PROVE ScanInv
  OBVIOUS
<1>1. txt \in Seq(Chars) /\ c = <<>> /\ Len(c) = 0 /\ p = 0 /\ c_size = 0 /\ i = 0
      /\ c_size_inc \in Nat \ {0} /\ rr = "scan"
  BY RandAssumption DEF RandInit
<1>2. ScanTypeOK /\ ScanBehind /\ PlaceholdersApart
  BY <1>1 DEF ScanTypeOK, ScanBehind, PlaceholdersApart
<1>3. NoneMissedSoFar
  BY <1>1 DEF NoneMissedSoFar
<1>. QED
  BY <1>2, <1>3 DEF ScanInv

LEMMA RandStepInv == ScanInv /\ [RandNext]_randVars => ScanInv'
<1>. SUFFICES ASSUME ScanInv, [RandNext]_randVars PROVE ScanInv'
  OBVIOUS
<1>1. p \in Nat /\ c \in Seq(Entry) /\ i \in 0..Len(c) /\ Len(c) \in Nat
  BY DEF ScanInv, ScanTypeOK
<1>2. CASE ScanEnds
  BY <1>2, ScanEndsStep
<1>3. CASE SkipStart
  BY <1>3, SkipStartStep
<1>4. CASE SkipBrackets
  BY <1>4, SkipBracketsStep
<1>5. CASE Found
  BY <1>5, FoundStep
<1>6. CASE NoMemory
  BY <1>1, <1>6, EntriesStay DEF NoMemory
<1>7. CASE NoPlaceholders
  BY <1>1, <1>7, EntriesStay DEF NoPlaceholders
<1>8. CASE StartSizing \/ SizePlaceholder \/ Allocate
  BY <1>1, <1>8, EntriesStay DEF StartSizing, SizePlaceholder, Allocate, ScanInv, ScanTypeOK
<1>9. CASE CopyPlaceholder
  <2>1. i' \in 0..Len(c) /\ i + 1 \in 1..Len(c)
    BY <1>1, <1>9 DEF CopyPlaceholder
  <2>2. c[i + 1] \in Entry
    BY <1>1, <2>1
  <2>3. p' \in Nat
    BY <1>9, <2>2 DEF CopyPlaceholder, Entry
  <2>. QED
    BY <1>9, <2>1, <2>3, EntriesStay DEF CopyPlaceholder
<1>10. CASE CopyTail
  BY <1>1, <1>10, EntriesStay DEF CopyTail
<1>11. CASE replace_rand
  BY <1>1, <1>11, EntriesStay DEF replace_rand
<1>12. CASE UNCHANGED randVars
  <2>1. UNCHANGED <<txt, rr, p, c, c_size, c_size_inc, i>>
    BY <1>12 DEF randVars
  <2>2. ScanTypeOK' /\ ScanBehind' /\ PlaceholdersApart'
    BY <2>1, SameEntries DEF ScanInv, ScanTypeOK, ScanBehind
  <2>3. NoneMissedSoFar'
    BY <2>1, SameText, SameEntries DEF ScanInv, NoneMissedSoFar
  <2>. QED
    BY <2>2, <2>3 DEF ScanInv
<1>. QED
  BY <1>2, <1>3, <1>4, <1>5, <1>6, <1>7, <1>8, <1>9, <1>10, <1>11, <1>12 DEF RandNext

THEOREM ScanInvariant == RandSpec => []ScanInv
  BY RandInitInv, RandStepInv, PTL DEF RandSpec

(* The entries of the cache never exceed it and lie in the text in order   *)
(* and apart, each from its r( to the first closing bracket behind it      *)
(* (replace_rand.c:60-118).                                                *)
THEOREM PlaceholdersLieApart == RandSpec => []PlaceholdersApart
<1>1. ScanInv => PlaceholdersApart
  BY DEF ScanInv
<1>. QED
  BY <1>1, ScanInvariant, PTL

(* The scan leaves out no placeholder of the text, except inside the       *)
(* brackets of an earlier r( (replace_rand.c:56-118).                      *)
THEOREM NothingIsMissed == RandSpec => []NoneMissed
<1>1. ScanInv => NoneMissed
  BY DEF ScanInv, NoneMissedSoFar, NoneMissed, NotMissed
<1>. QED
  BY <1>1, ScanInvariant, PTL

----------------------------------------------------------------------------
(* The two loops behind the scan.                                          *)

(* Where the text behind the k-th placeholder begins. *)
Behind(k) == IF k = 0 THEN 0 ELSE c[k].end + 1

(* w[k] characters of the result are those up to the k-th placeholder's    *)
(* last digit, for the first m.                                            *)
Copied(w, m) ==
    /\ w \in [0..m -> Nat] /\ w[0] = 0
    /\ \A k \in 1..m : w[k] = w[k - 1] + (c[k].start - Behind(k - 1)) + c[k].value
    /\ \A k \in 0..m : w[k] <= w[m]

CopyInv ==
    /\ out \in Seq(Chars \union {RandomDigit})
    /\ rr \in {"scan", "scanned"} => i = 0
    /\ rr \in {"scan", "scanned", "size"} => out = <<>>
    /\ rr \in {"size", "copy"} => c # <<>>
    /\ rr = "size" => \E w : Copied(w, i) /\ ret_len = w[i] + s_end - Behind(i)
    /\ rr = "copy" => \E w :
        /\ Copied(w, Len(c)) /\ ret_len = w[Len(c)] + s_end - Behind(Len(c))
        /\ Len(out) = w[i] /\ p = Behind(i)
    /\ rr = "replaced" => Len(out) = ret_len

(* The placeholders as the other loops see them. *)
LEMMA InOrder ==
  ASSUME ScanInv
  PROVE  /\ s_end \in Nat /\ s_end = Len(txt) /\ txt \in Seq(Chars)
         /\ Len(c) \in Nat /\ i \in Nat /\ i <= Len(c) /\ (c # <<>> => Len(c) > 0)
         /\ \A k \in 0..Len(c) : Behind(k) \in Nat /\ Behind(k) <= s_end
         /\ \A k \in 1..Len(c) :
              /\ c[k].start \in Nat /\ c[k].end \in Nat /\ c[k].value \in Nat
              /\ k - 1 \in 0..Len(c) /\ Behind(k - 1) <= c[k].start
              /\ c[k].start < c[k].end /\ c[k].end < s_end
              /\ Behind(k) = c[k].end + 1
<1>1. ScanTypeOK /\ PlaceholdersApart
  BY DEF ScanInv
<1>2. /\ s_end \in Nat /\ s_end = Len(txt) /\ txt \in Seq(Chars) /\ c \in Seq(Entry)
      /\ Len(c) \in Nat /\ i \in Nat /\ i <= Len(c) /\ (c # <<>> => Len(c) > 0)
  BY <1>1 DEF ScanTypeOK, s_end
<1>3. ASSUME NEW k \in 1..Len(c)
      PROVE  /\ c[k].start \in Nat /\ c[k].end \in Nat /\ c[k].value \in Nat
             /\ c[k].start < c[k].end /\ c[k].end < s_end
             /\ Behind(k) = c[k].end + 1
  <2>1. c[k] \in Entry /\ k # 0
    BY <1>2
  <2>2. c[k].start + RAND_START_LEN < c[k].end /\ c[k].end < s_end
    BY <1>1 DEF PlaceholdersApart
  <2>. QED
    BY <2>1, <2>2 DEF Entry, RAND_START_LEN, Behind
<1>4. ASSUME NEW k \in 1..Len(c)
      PROVE  k - 1 \in 0..Len(c) /\ Behind(k - 1) <= c[k].start
  <2>1. CASE k = 1
    BY <1>2, <1>3, <2>1 DEF Behind
  <2>2. CASE k # 1
    <3>1. k - 1 \in 1..Len(c) /\ k - 1 \in 1..(k - 1)
      BY <1>2, <2>2
    <3>2. c[k - 1].end < c[k].start
      BY <1>1, <3>1 DEF PlaceholdersApart
    <3>. QED
      BY <1>2, <1>3, <3>1, <3>2
  <2>. QED
    BY <2>1, <2>2
<1>5. ASSUME NEW k \in 0..Len(c)
      PROVE  Behind(k) \in Nat /\ Behind(k) <= s_end
  <2>1. CASE k = 0
    BY <1>2, <2>1 DEF Behind
  <2>2. CASE k \in 1..Len(c)
    BY <1>2, <1>3, <2>2
  <2>. QED
    BY <1>2, <2>1, <2>2
<1>. QED
  BY <1>2, <1>3, <1>4, <1>5

(* One placeholder more is sized. *)
LEMMA SizedOneMore ==
  ASSUME ScanInv, NEW w, Copied(w, i), ret_len = w[i] + s_end - Behind(i), SizePlaceholder
  PROVE  \E v : Copied(v, i + 1) /\ ret_len' = v[i + 1] + s_end - Behind(i + 1)
<1>. DEFINE more == (c[i + 1].start - Behind(i)) + c[i + 1].value
            v == [k \in 0..(i + 1) |-> IF k = i + 1 THEN w[i] + more ELSE w[k]]
<1>1. i \in Nat /\ i + 1 \in 1..Len(c) /\ i \in 0..Len(c) /\ (i + 1) - 1 = i
  BY InOrder DEF SizePlaceholder
<1>2. /\ c[i + 1].start \in Nat /\ c[i + 1].end \in Nat /\ c[i + 1].value \in Nat
      /\ Behind(i) \in Nat /\ Behind(i) <= c[i + 1].start /\ s_end \in Nat
      /\ Behind(i + 1) = c[i + 1].end + 1
  BY <1>1, InOrder
<1>3. more \in Nat /\ more = c[i + 1].start - Behind(i) + c[i + 1].value
  BY <1>2
<1>. HIDE DEF more
<1>4. /\ w \in [0..i -> Nat] /\ w[0] = 0 /\ w[i] \in Nat
      /\ \A k \in 1..i : w[k] = w[k - 1] + (c[k].start - Behind(k - 1)) + c[k].value
      /\ \A k \in 0..i : w[k] \in Nat /\ w[k] <= w[i]
  BY <1>1 DEF Copied
<1>5. v[i + 1] = w[i] + more /\ \A k \in 0..i : v[k] = w[k]
  BY <1>1
<1>6. v \in [0..(i + 1) -> Nat] /\ v[0] = 0
  BY <1>1, <1>3, <1>4, <1>5
<1>. HIDE DEF v
<1>7. ASSUME NEW k \in 1..(i + 1)
      PROVE  v[k] = v[k - 1] + (c[k].start - Behind(k - 1)) + c[k].value
  <2>1. CASE k = i + 1
    <3>1. v[k - 1] = w[i]
      BY <1>1, <1>5, <2>1
    <3>2. v[k] = w[i] + (c[i + 1].start - Behind(i) + c[i + 1].value)
      BY <1>3, <1>5, <2>1
    <3>3. \A wi, bh, st, va \in Nat : wi + (st - bh + va) = wi + (st - bh) + va
      OBVIOUS
    <3>. QED
      BY <1>1, <1>2, <1>4, <2>1, <3>1, <3>2, <3>3
  <2>2. CASE k \in 1..i
    <3>1. k \in 0..i /\ k - 1 \in 0..i
      BY <1>1, <2>2
    <3>. QED
      BY <1>4, <1>5, <2>2, <3>1
  <2>. QED
    BY <1>1, <2>1, <2>2
<1>8. ASSUME NEW k \in 0..(i + 1)
      PROVE  v[k] <= v[i + 1]
  <2>1. CASE k = i + 1
    BY <1>3, <1>4, <1>5, <2>1
  <2>2. CASE k \in 0..i
    BY <1>3, <1>4, <1>5, <2>2
  <2>. QED
    BY <1>1, <2>1, <2>2
<1>9. Copied(v, i + 1)
  BY <1>6, <1>7, <1>8 DEF Copied
<1>10. ret_len' = ret_len + Growth(i + 1)
  BY DEF SizePlaceholder
<1>11. ret_len' = v[i + 1] + s_end - Behind(i + 1)
  <2>. DEFINE st == c[i + 1].start  en == c[i + 1].end  va == c[i + 1].value
              wi == w[i]  bh == Behind(i)
  <2>1. st \in Nat /\ en \in Nat /\ va \in Nat /\ wi \in Nat /\ bh \in Nat /\ s_end \in Nat
    BY <1>2, <1>4
  <2>2. ret_len' = wi + s_end - bh + (va - (en - st + 1))
    BY <1>10 DEF Growth
  <2>3. v[i + 1] = wi + (st - bh + va) /\ Behind(i + 1) = en + 1
    BY <1>2, <1>3, <1>5
  <2>. HIDE DEF st, en, va, wi, bh
  <2>. QED
    BY <2>1, <2>2, <2>3
<1>. QED
  BY <1>9, <1>11

(* Pieces of text, and digits. *)
LEMMA PieceOfText ==
  ASSUME NEW s \in Seq(Chars), NEW a \in Nat, NEW b \in Nat, a <= b, b <= Len(s)
  PROVE  /\ SubSeq(s, a + 1, b) \in Seq(Chars \union {RandomDigit})
         /\ Len(SubSeq(s, a + 1, b)) = b - a
  OBVIOUS

LEMMA Digits ==
  ASSUME NEW n \in Nat
  PROVE  /\ [k \in 1..n |-> RandomDigit] \in Seq(Chars \union {RandomDigit})
         /\ Len([k \in 1..n |-> RandomDigit]) = n
  OBVIOUS

(* The text before a placeholder and its digits are copied. *)
LEMMA CopiedOneMore ==
  ASSUME ScanInv, out \in Seq(Chars \union {RandomDigit}),
         NEW w, Copied(w, Len(c)), Len(out) = w[i], p = Behind(i), CopyPlaceholder
  PROVE  /\ out' \in Seq(Chars \union {RandomDigit})
         /\ Len(out') = w[i + 1] /\ p' = Behind(i + 1)
<1>0. i < Len(c)
  BY DEF CopyPlaceholder
<1>1. i \in Nat /\ i + 1 \in 1..Len(c) /\ (i + 1) - 1 = i
  BY <1>0, InOrder
<1>2. /\ c[i + 1].start \in Nat /\ c[i + 1].end \in Nat /\ c[i + 1].value \in Nat
      /\ c[i + 1].start < c[i + 1].end /\ c[i + 1].end < Len(txt) /\ Len(txt) \in Nat
      /\ Behind(i) \in Nat /\ Behind(i) <= c[i + 1].start
      /\ Behind(i + 1) = c[i + 1].end + 1
      /\ txt \in Seq(Chars)
  BY <1>1, InOrder
<1>3. w[i + 1] = w[i] + (c[i + 1].start - Behind(i)) + c[i + 1].value
  BY <1>1 DEF Copied
<1>. DEFINE piece == SubSeq(txt, p + 1, c[i + 1].start)
            mid == out \o piece
            digits == [k \in 1..c[i + 1].value |-> RandomDigit]
<1>4. /\ piece \in Seq(Chars \union {RandomDigit})
      /\ Len(piece) = c[i + 1].start - Behind(i)
  BY <1>2, PieceOfText
<1>5. /\ digits \in Seq(Chars \union {RandomDigit})
      /\ Len(digits) = c[i + 1].value
  BY <1>2, Digits
<1>6. out' = mid \o digits /\ p' = c[i + 1].end + 1
  BY DEF CopyPlaceholder
<1>. HIDE DEF piece, digits
<1>7. mid \in Seq(Chars \union {RandomDigit}) /\ Len(mid) = Len(out) + Len(piece)
  BY <1>4, ConcatProperties
<1>. HIDE DEF mid
<1>8. out' \in Seq(Chars \union {RandomDigit}) /\ Len(out') = Len(mid) + Len(digits)
  BY <1>5, <1>6, <1>7, ConcatProperties
<1>. QED
  BY <1>2, <1>3, <1>4, <1>5, <1>6, <1>7, <1>8

(* The text behind the last placeholder fills the buffer. *)
LEMMA CopiedAll ==
  ASSUME ScanInv, out \in Seq(Chars \union {RandomDigit}), c # <<>>,
         NEW w, Copied(w, Len(c)), ret_len = w[Len(c)] + s_end - Behind(Len(c)),
         Len(out) = w[i], p = Behind(i), CopyTail
  PROVE  out' \in Seq(Chars \union {RandomDigit}) /\ Len(out') = ret_len
<1>1. /\ i = Len(c) /\ i \in 0..Len(c) /\ Behind(i) \in Nat /\ Behind(i) <= Len(txt)
      /\ s_end = Len(txt) /\ Len(txt) \in Nat /\ txt \in Seq(Chars)
  BY InOrder DEF CopyTail
<1>2. w[i] \in Nat
  BY <1>1 DEF Copied
<1>. DEFINE piece == SubSeq(txt, p + 1, Len(txt))
<1>3. piece \in Seq(Chars \union {RandomDigit}) /\ Len(piece) = Len(txt) - Behind(i)
  BY <1>1, PieceOfText
<1>4. out' = out \o piece
  BY <1>1 DEF CopyTail
<1>. HIDE DEF piece
<1>5. out' \in Seq(Chars \union {RandomDigit}) /\ Len(out') = Len(out) + Len(piece)
  BY <1>3, <1>4, ConcatProperties
<1>. QED
  BY <1>1, <1>2, <1>3, <1>5

(* A step of the scan. *)
LEMMA NothingCopied ==
  ASSUME CopyInv, UNCHANGED <<i, out>>,
         rr \in {"scan", "scanned"}, rr' \in {"scan", "scanned", "given_up"}
  PROVE  CopyInv'
BY DEF CopyInv

LEMMA CopyStep == ScanInv /\ CopyInv /\ [RandNext]_randVars => CopyInv'
<1>. SUFFICES ASSUME ScanInv, CopyInv, [RandNext]_randVars PROVE CopyInv'
  OBVIOUS
<1>0. /\ s_end \in Nat /\ s_end = Len(txt) /\ txt \in Seq(Chars)
      /\ Len(c) \in Nat /\ i \in Nat /\ i <= Len(c)
  BY InOrder
<1>1. CASE ScanEnds \/ SkipStart \/ SkipBrackets \/ Found \/ NoMemory
  BY <1>1, NothingCopied
     DEF ScanEnds, SkipStart, GoOnAt, SkipBrackets, Found, NoMemory
<1>2. CASE NoPlaceholders
  <2>1. txt \in Seq(Chars \union {RandomDigit})
    BY <1>0
  <2>. QED
    BY <1>0, <1>2, <2>1 DEF NoPlaceholders, CopyInv
<1>3. CASE StartSizing
  <2>1. i = 0 /\ i' = 0 /\ Behind(0) = 0 /\ ret_len' = s_end /\ UNCHANGED <<txt, c, out>>
        /\ rr = "scanned" /\ rr' = "size" /\ c # <<>>
    BY <1>3 DEF StartSizing, CopyInv, Behind
  <2>. DEFINE w == [k \in 0..0 |-> 0]
  <2>2. w \in [0..0 -> Nat] /\ w[0] = 0 /\ \A k \in 0..0 : w[k] <= w[0]
    OBVIOUS
  <2>. HIDE DEF w
  <2>3. Copied(w, 0)'
    BY <2>2 DEF Copied
  <2>4. s_end' = s_end /\ Behind(0)' = 0
    BY <2>1 DEF s_end, Behind
  <2>5. ret_len' = w[0] + s_end' - Behind(0)'
    BY <1>0, <2>1, <2>2, <2>4
  <2>. QED
    BY <2>1, <2>3, <2>5 DEF CopyInv
<1>4. CASE SizePlaceholder
  <2>1. /\ rr = "size" /\ rr' = "size" /\ i' = i + 1 /\ UNCHANGED <<txt, c, out>>
    BY <1>4 DEF SizePlaceholder
  <2>2. PICK w : Copied(w, i) /\ ret_len = w[i] + s_end - Behind(i)
    BY <2>1 DEF CopyInv
  <2>3. PICK v : Copied(v, i + 1) /\ ret_len' = v[i + 1] + s_end - Behind(i + 1)
    BY <1>4, <2>2, SizedOneMore
  <2>4. Copied(v, i)' /\ ret_len' = v[i]' + s_end' - Behind(i)'
    BY <2>1, <2>3 DEF Copied, Behind, s_end
  <2>. QED
    BY <2>1, <2>4 DEF CopyInv
<1>5. CASE Allocate
  <2>1. /\ rr = "size" /\ rr' = "copy" /\ i = Len(c) /\ i' = 0 /\ p' = 0
        /\ UNCHANGED <<txt, c, ret_len, out>>
    BY <1>5 DEF Allocate
  <2>2. PICK w : Copied(w, i) /\ ret_len = w[i] + s_end - Behind(i)
    BY <2>1 DEF CopyInv
  <2>3. out' = <<>> /\ Len(out') = w[i]' /\ p' = Behind(i)'
    BY <2>1, <2>2 DEF CopyInv, Copied, Behind
  <2>4. Copied(w, Len(c))' /\ ret_len' = w[Len(c)]' + s_end' - Behind(Len(c))'
    BY <2>1, <2>2 DEF Copied, Behind, s_end
  <2>. QED
    BY <2>1, <2>3, <2>4 DEF CopyInv
<1>6. CASE CopyPlaceholder
  <2>1. /\ rr = "copy" /\ rr' = "copy" /\ i' = i + 1 /\ UNCHANGED <<txt, c, ret_len>>
    BY <1>6 DEF CopyPlaceholder
  <2>2. PICK w :
          /\ Copied(w, Len(c)) /\ ret_len = w[Len(c)] + s_end - Behind(Len(c))
          /\ Len(out) = w[i] /\ p = Behind(i)
    BY <2>1 DEF CopyInv
  <2>3. /\ out' \in Seq(Chars \union {RandomDigit})
        /\ Len(out') = w[i + 1] /\ p' = Behind(i + 1)
    BY <1>6, <2>2, CopiedOneMore DEF CopyInv
  <2>4. /\ Copied(w, Len(c))' /\ ret_len' = w[Len(c)]' + s_end' - Behind(Len(c))'
        /\ Len(out') = w[i]' /\ p' = Behind(i)'
    BY <2>1, <2>2, <2>3 DEF Copied, Behind, s_end
  <2>. QED
    BY <2>1, <2>3, <2>4 DEF CopyInv
<1>7. CASE CopyTail
  <2>1. rr = "copy" /\ rr' = "replaced" /\ UNCHANGED ret_len
    BY <1>7 DEF CopyTail
  <2>2. PICK w :
          /\ Copied(w, Len(c)) /\ ret_len = w[Len(c)] + s_end - Behind(Len(c))
          /\ Len(out) = w[i] /\ p = Behind(i)
    BY <2>1 DEF CopyInv
  <2>3. out' \in Seq(Chars \union {RandomDigit}) /\ Len(out') = ret_len
    BY <1>7, <2>1, <2>2, CopiedAll DEF CopyInv
  <2>. QED
    BY <2>1, <2>3 DEF CopyInv
<1>8. CASE replace_rand
  <2>1. txt \in Seq(Chars \union {RandomDigit})
    BY <1>0
  <2>2. out' \in {txt, out} /\ rr' = "rand_returned"
    BY <1>8 DEF replace_rand
  <2>. QED
    BY <2>1, <2>2 DEF CopyInv
<1>9. CASE UNCHANGED randVars
  BY <1>9 DEF randVars, CopyInv, Copied, Behind, s_end
<1>. QED
  BY <1>1, <1>2, <1>3, <1>4, <1>5, <1>6, <1>7, <1>8, <1>9 DEF RandNext

LEMMA CopyInvHolds == RandSpec => []CopyInv
<1>1. RandInit => CopyInv
  BY DEF RandInit, CopyInv
<1>. QED
  BY <1>1, CopyStep, ScanInvariant, PTL DEF RandSpec

(* The length computed for the result is what the copies add up to: they   *)
(* stay inside the buffer and leave nothing of it unset, for texts of any  *)
(* length (replace_rand.c:129-162).                                        *)
THEOREM BufferIsFilled == RandSpec => []BufferFilled
<1>1. ScanInv /\ CopyInv => BufferFilled
  <2>. SUFFICES ASSUME ScanInv, CopyInv, rr = "copy"
                PROVE  Len(out) <= ret_len
    BY DEF CopyInv, BufferFilled
  <2>1. PICK w :
          /\ Copied(w, Len(c)) /\ ret_len = w[Len(c)] + s_end - Behind(Len(c))
          /\ Len(out) = w[i]
    BY DEF CopyInv
  <2>2. /\ i \in 0..Len(c) /\ Len(c) \in 0..Len(c) /\ s_end \in Nat
        /\ Behind(Len(c)) \in Nat /\ Behind(Len(c)) <= s_end
    BY InOrder
  <2>3. w[i] \in Nat /\ w[Len(c)] \in Nat /\ w[i] <= w[Len(c)]
    BY <2>1, <2>2 DEF Copied
  <2>. QED
    BY <2>1, <2>2, <2>3
<1>. QED
  BY <1>1, CopyInvHolds, ScanInvariant, PTL

----------------------------------------------------------------------------
(* The text with its placeholders replaced. *)

Outputs == Seq(Chars \union {RandomDigit})

IsText(t) == t \in Seq(Chars)

(* Placeholders that lie in the text, apart and in order. *)
LieIn(found, t) ==
    /\ found \in Seq(Entry)
    /\ \A k \in 1..Len(found) :
        /\ found[k].start < found[k].end /\ found[k].end < Len(t)
        /\ \A l \in 1..(k - 1) : found[l].end < found[k].start

Begins(found, k) == \E l \in 1..Len(found) : found[l].start = k
DigitsAt(found, k) == [j \in 1..found[PlaceholderAt(found, k)].value |-> RandomDigit]
BehindAt(found, k) == found[PlaceholderAt(found, k)].end + 1

(* What is replaced from place k on, given what is from later places on. *)
ReplaceStep(t, found, f, k) ==
    IF k = Len(t) THEN <<>>
    ELSE IF Begins(found, k) THEN DigitsAt(found, k) \o f[BehindAt(found, k)]
    ELSE <<t[k + 1]>> \o f[k + 1]

LEMMA BeginsWell ==
  ASSUME NEW t, IsText(t), NEW found, LieIn(found, t), NEW k \in 0..Len(t), Begins(found, k)
  PROVE  /\ DigitsAt(found, k) \in Outputs /\ k # Len(t)
         /\ BehindAt(found, k) \in (k + 1)..Len(t)
<1>1. PlaceholderAt(found, k) \in 1..Len(found) /\ found[PlaceholderAt(found, k)].start = k
  BY DEF Begins, PlaceholderAt
<1>. DEFINE l == PlaceholderAt(found, k)
<1>. HIDE DEF l
<1>2. l \in 1..Len(found) /\ found[l].start = k
  BY <1>1 DEF l
<1>3. found[l] \in Entry /\ found[l].start < found[l].end /\ found[l].end < Len(t)
  BY <1>2 DEF LieIn
<1>4. Len(t) \in Nat
  BY DEF IsText
<1>5. found[l].value \in Nat /\ found[l].end \in Nat
  BY <1>3 DEF Entry
<1>6. [j \in 1..found[l].value |-> RandomDigit] \in Outputs
  BY <1>5, Digits DEF Outputs
<1>7. found[l].end + 1 \in (k + 1)..Len(t) /\ k # Len(t)
  BY <1>2, <1>3, <1>4, <1>5
<1>. QED
  BY <1>6, <1>7 DEF DigitsAt, BehindAt, l

LEMMA ReplaceStepIsOutput ==
  ASSUME NEW t, IsText(t), NEW found, LieIn(found, t), NEW f, NEW k \in 0..Len(t),
         \A j \in (k + 1)..Len(t) : f[j] \in Outputs
  PROVE  ReplaceStep(t, found, f, k) \in Outputs
<1>1. Len(t) \in Nat
  BY DEF IsText
<1>2. CASE k = Len(t)
  BY <1>2 DEF ReplaceStep, Outputs
<1>3. CASE k # Len(t) /\ Begins(found, k)
  <2>1. DigitsAt(found, k) \in Outputs /\ f[BehindAt(found, k)] \in Outputs
    BY BeginsWell, <1>3
  <2>. QED
    BY <1>3, <2>1, ConcatProperties DEF ReplaceStep, Outputs
<1>4. CASE k # Len(t) /\ ~Begins(found, k)
  <2>1. k + 1 \in (k + 1)..Len(t) /\ k + 1 \in 1..Len(t)
    BY <1>1, <1>4
  <2>2. <<t[k + 1]>> \in Outputs /\ f[k + 1] \in Outputs
    BY <2>1 DEF IsText, Outputs
  <2>. QED
    BY <1>4, <2>2, ConcatProperties DEF ReplaceStep, Outputs
<1>. QED
  BY <1>2, <1>3, <1>4

LEMMA ReplaceStepLooksAhead ==
  ASSUME NEW t, IsText(t), NEW found, LieIn(found, t), NEW f, NEW g, NEW k \in 0..Len(t),
         \A j \in (k + 1)..Len(t) : f[j] = g[j]
  PROVE  ReplaceStep(t, found, f, k) = ReplaceStep(t, found, g, k)
<1>1. Len(t) \in Nat
  BY DEF IsText
<1>2. k # Len(t) => f[k + 1] = g[k + 1]
  BY <1>1
<1>3. Begins(found, k) => f[BehindAt(found, k)] = g[BehindAt(found, k)]
  BY BeginsWell
<1>. QED
  BY <1>2, <1>3 DEF ReplaceStep

(* The recursion is well-founded, and what it yields are texts. *)
LEMMA ReplacedFromFacts ==
  ASSUME NEW t, IsText(t), NEW found, LieIn(found, t)
  PROVE  \A k \in 0..Len(t) :
           /\ ReplacedFrom(t, found)[k] \in Outputs
           /\ ReplacedFrom(t, found)[k] = ReplaceStep(t, found, ReplacedFrom(t, found), k)
<1>. DEFINE L == Len(t)
            Part(f, m) == \A k \in (L - m)..L :
                            f[k] \in Outputs /\ f[k] = ReplaceStep(t, found, f, k)
            P == {m \in Nat : m <= L => \E f : Part(f, m)}
            from == ReplacedFrom(t, found)
<1>1. L \in Nat
  BY DEF IsText
<1>. HIDE DEF L
<1>2. 0 \in P
  <2>. DEFINE f == [k \in L..L |-> <<>>]
  <2>1. \A k \in L..L : ReplaceStep(t, found, f, k) = <<>> /\ f[k] = <<>>
    <3>1. \A g, k : k = Len(t) => ReplaceStep(t, found, g, k) = <<>>
      BY DEF ReplaceStep
    <3>2. \A k \in L..L : k = Len(t)
      BY <1>1 DEF L
    <3>. QED
      BY <3>1, <3>2
  <2>2. <<>> \in Outputs
    BY DEF Outputs
  <2>. HIDE DEF f
  <2>3. Part(f, 0)
    BY <1>1, <2>1, <2>2
  <2>. QED
    BY <2>3
<1>3. ASSUME NEW m \in 0..L, m # L, m \in P PROVE m + 1 \in P
  <2>1. PICK f : Part(f, m)
    BY <1>1, <1>3
  <2>. DEFINE first == L - m - 1
              g == [k \in first..L |->
                      IF k = first THEN ReplaceStep(t, found, f, first) ELSE f[k]]
  <2>2. /\ first \in 0..Len(t) /\ L - m = first + 1 /\ L - (m + 1) = first
        /\ first \in first..L
    BY <1>1, <1>3 DEF L
  <2>. HIDE DEF first
  <2>3. \A k \in (first + 1)..L : f[k] \in Outputs /\ f[k] = ReplaceStep(t, found, f, k)
    BY <2>1, <2>2
  <2>4. \A k \in (first + 1)..L : g[k] = f[k]
    BY <1>1, <2>2
  <2>5. g[first] = ReplaceStep(t, found, f, first)
    BY <2>2
  <2>. HIDE DEF g
  <2>6. ReplaceStep(t, found, f, first) \in Outputs
    BY <2>2, <2>3, ReplaceStepIsOutput DEF L
  <2>7. \A k \in first..L : ReplaceStep(t, found, g, k) = ReplaceStep(t, found, f, k)
    <3>. TAKE k \in first..L
    <3>1. k \in 0..Len(t)
      BY <1>1, <2>2 DEF L
    <3>2. \A j \in (k + 1)..Len(t) : g[j] = f[j]
      BY <1>1, <2>2, <2>4, <3>1 DEF L
    <3>. QED
      BY <3>1, <3>2, ReplaceStepLooksAhead
  <2>8. \A k \in first..L : g[k] \in Outputs /\ g[k] = ReplaceStep(t, found, g, k)
    <3>. TAKE k \in first..L
    <3>1. CASE k = first
      BY <2>5, <2>6, <2>7, <3>1
    <3>2. CASE k # first
      <4>1. k \in (first + 1)..L
        BY <1>1, <2>2, <3>2
      <4>. QED
        BY <2>3, <2>4, <2>7, <4>1
    <3>. QED
      BY <3>1, <3>2
  <2>9. Part(g, m + 1)
    BY <2>2, <2>8
  <2>10. \E h : Part(h, m + 1)
    <3>. HIDE DEF Part
    <3>. QED
      BY <2>9
  <2>. HIDE DEF Part
  <2>. QED
    BY <2>10
<1>4. \E f : Part(f, L)
  <2>1. L \in P
    <3>. HIDE DEF P
    <3>1. P \subseteq Nat
      BY DEF P
    <3>. QED
      BY <1>1, <1>2, <1>3, <3>1, UpTo
  <2>. HIDE DEF Part
  <2>. QED
    BY <1>1, <2>1
<1>5. PICK f : Part(f, L)
  BY <1>4
<1>6. \A k \in 0..Len(t) : f[k] \in Outputs /\ f[k] = ReplaceStep(t, found, f, k)
  BY <1>1, <1>5 DEF L
<1>7. \E e : e = [k \in 0..Len(t) |-> ReplaceStep(t, found, e, k)]
  <2>. DEFINE e == [k \in 0..Len(t) |-> f[k]]
  <2>1. \A k \in 0..Len(t) : e[k] = ReplaceStep(t, found, e, k)
    <3>. TAKE k \in 0..Len(t)
    <3>1. \A j \in (k + 1)..Len(t) : e[j] = f[j]
      BY <1>1 DEF L
    <3>2. e[k] = f[k]
      OBVIOUS
    <3>. HIDE DEF e
    <3>3. ReplaceStep(t, found, e, k) = ReplaceStep(t, found, f, k)
      BY <3>1, ReplaceStepLooksAhead
    <3>. QED
      BY <1>6, <3>2, <3>3
  <2>2. e = [k \in 0..Len(t) |-> ReplaceStep(t, found, e, k)]
    BY <2>1
  <2>. QED
    BY <2>2
<1>8. from = [k \in 0..Len(t) |-> ReplaceStep(t, found, from, k)]
  <2>1. from = CHOOSE e : e = [k \in 0..Len(t) |-> ReplaceStep(t, found, e, k)]
    BY DEF ReplacedFrom, ReplaceStep, Begins, DigitsAt, BehindAt
  <2>. QED
    BY <1>7, <2>1
<1>. HIDE DEF from
<1>9. \A k \in 0..Len(t) : from[k] = ReplaceStep(t, found, from, k)
  BY <1>8
<1>10. \A k \in 0..Len(t) : from[k] \in Outputs
  <2>. DEFINE Q == {m \in Nat : \A k \in (L - m)..L : k >= 0 => from[k] \in Outputs}
  <2>1. ASSUME NEW k \in 0..Len(t), \A j \in (k + 1)..Len(t) : from[j] \in Outputs
        PROVE  from[k] \in Outputs
    BY <1>9, <2>1, ReplaceStepIsOutput
  <2>2. 0 \in Q
    <3>1. from[L] \in Outputs
      BY <1>1, <2>1 DEF L
    <3>. QED
      BY <1>1, <3>1
  <2>3. ASSUME NEW m \in 0..L, m # L, m \in Q PROVE m + 1 \in Q
    <3>1. L - m - 1 \in 0..Len(t)
      BY <1>1, <2>3 DEF L
    <3>2. \A j \in (L - m)..L : j >= 0 => from[j] \in Outputs
      BY <2>3
    <3>3. \A j \in (L - m - 1 + 1)..Len(t) : from[j] \in Outputs
      BY <1>1, <2>3, <3>2 DEF L
    <3>4. from[L - m - 1] \in Outputs
      BY <2>1, <3>1, <3>3
    <3>5. \A j \in (L - (m + 1))..L : j = L - m - 1 \/ j \in (L - m)..L
      BY <1>1, <2>3
    <3>. QED
      BY <2>3, <3>2, <3>4, <3>5
  <2>4. L \in Q
    <3>. HIDE DEF Q
    <3>1. Q \subseteq Nat
      BY DEF Q
    <3>. QED
      BY <1>1, <2>2, <2>3, <3>1, UpTo
  <2>. QED
    BY <1>1, <2>4 DEF L
<1>. QED
  BY <1>9, <1>10 DEF from

LEMMA NothingBehind ==
  ASSUME NEW t, IsText(t), NEW found, LieIn(found, t)
  PROVE  ReplacedFrom(t, found)[Len(t)] = <<>>
<1>1. Len(t) \in 0..Len(t)
  BY DEF IsText
<1>2. ReplacedFrom(t, found)[Len(t)] =
        ReplaceStep(t, found, ReplacedFrom(t, found), Len(t))
  BY <1>1, ReplacedFromFacts
<1>. QED
  BY <1>2 DEF ReplaceStep

(* Up to the next placeholder a text stays as it is. *)
LEMMA TextIsCopied ==
  ASSUME NEW t, IsText(t), NEW found, LieIn(found, t),
         NEW k \in 0..Len(t), NEW m \in k..Len(t),
         \A j \in k..(m - 1) : ~Begins(found, j)
  PROVE  ReplacedFrom(t, found)[k] = SubSeq(t, k + 1, m) \o ReplacedFrom(t, found)[m]
<1>. DEFINE from == ReplacedFrom(t, found)
            Upto(j) == from[k] = SubSeq(t, k + 1, j) \o from[j]
            P == {d \in Nat : Upto(k + d)}
<1>1. Len(t) \in Nat /\ k \in Nat /\ m \in Nat /\ m - k \in Nat
  BY DEF IsText
<1>2. \A j \in 0..Len(t) :
        from[j] \in Outputs /\ from[j] = ReplaceStep(t, found, from, j)
  BY ReplacedFromFacts
<1>. HIDE DEF from
<1>3. Upto(k)
  <2>1. SubSeq(t, k + 1, k) = <<>>
    BY <1>1, SubSeqEmpty
  <2>2. from[k] \in Seq(Chars \union {RandomDigit})
    BY <1>2 DEF Outputs
  <2>3. <<>> \o from[k] = from[k]
    BY <2>2, ConcatEmptySeq
  <2>. QED
    BY <2>1, <2>3
<1>4. ASSUME NEW j \in k..(m - 1), Upto(j) PROVE Upto(j + 1)
  <2>1. j \in 0..Len(t) /\ j # Len(t) /\ j + 1 \in 0..Len(t) /\ j \in Nat
    BY <1>1
  <2>2. from[j] = <<t[j + 1]>> \o from[j + 1]
    BY <1>2, <2>1 DEF ReplaceStep
  <2>3. /\ SubSeq(t, k + 1, j + 1) = SubSeq(t, k + 1, j) \o <<t[j + 1]>>
        /\ SubSeq(t, k + 1, j) \in Outputs /\ <<t[j + 1]>> \in Outputs
    <3>1. k + 1 \in 1..Len(t) /\ j + 1 \in (k + 1)..Len(t) /\ t \in Seq(Chars)
      BY <1>1, <2>1 DEF IsText
    <3>2. SubSeq(t, k + 1, j) \in Outputs
      BY <1>1, <3>1, PieceOfText DEF Outputs
    <3>3. SubSeq(t, k + 1, j + 1) = SubSeq(t, k + 1, (j + 1) - 1) \o <<t[j + 1]>>
      BY <3>1, SubSeqRecursiveSecond
    <3>4. (j + 1) - 1 = j
      BY <2>1
    <3>5. t[j + 1] \in Chars
      BY <1>1, <3>1
    <3>. QED
      BY <3>2, <3>3, <3>4, <3>5 DEF Outputs
  <2>. DEFINE head == SubSeq(t, k + 1, j)
              one == <<t[j + 1]>>
              rest == from[j + 1]
  <2>4. head \in Outputs /\ one \in Outputs /\ rest \in Outputs
    BY <1>2, <2>1, <2>3
  <2>5. from[k] = head \o (one \o rest) /\ SubSeq(t, k + 1, j + 1) = head \o one
    BY <1>4, <2>2, <2>3
  <2>. HIDE DEF head, one, rest
  <2>6. /\ head \in Seq(Chars \union {RandomDigit}) /\ one \in Seq(Chars \union {RandomDigit})
        /\ rest \in Seq(Chars \union {RandomDigit})
    BY <2>4 DEF Outputs
  <2>7. (head \o one) \o rest = head \o (one \o rest)
    BY <2>6, ConcatAssociative
  <2>8. from[k] = SubSeq(t, k + 1, j + 1) \o rest
    BY <2>5, <2>7
  <2>. QED
    BY <2>8 DEF rest
<1>. HIDE DEF Upto
<1>5. 0 \in P
  BY <1>1, <1>3
<1>6. ASSUME NEW d \in 0..(m - k), d # m - k, d \in P PROVE d + 1 \in P
  <2>1. k + d \in k..(m - 1) /\ (k + d) + 1 = k + (d + 1)
    BY <1>1, <1>6
  <2>2. Upto(k + d)
    BY <1>6
  <2>3. Upto((k + d) + 1)
    BY <1>4, <2>1, <2>2
  <2>. QED
    BY <1>6, <2>1, <2>3
<1>7. Upto(k + (m - k))
  <2>1. \A d \in 0..(m - k) : d \in P
    <3>. HIDE DEF P
    <3>1. P \in SUBSET Nat
      BY DEF P
    <3>. QED
      BY <1>1, <1>5, <1>6, <3>1, UpTo
  <2>. QED
    BY <1>1, <2>1
<1>8. k + (m - k) = m
  BY <1>1
<1>9. Upto(m)
  BY <1>7, <1>8
<1>. QED
  BY <1>9 DEF Upto, from

(* A placeholder becomes its digits. *)
LEMMA PlaceholderIsReplaced ==
  ASSUME NEW t, IsText(t), NEW found, LieIn(found, t), NEW l \in 1..Len(found)
  PROVE  ReplacedFrom(t, found)[found[l].start] =
           [j \in 1..found[l].value |-> RandomDigit] \o ReplacedFrom(t, found)[found[l].end + 1]
<1>1. Begins(found, found[l].start)
  BY DEF Begins
<1>2. found[l].start \in 0..Len(t) /\ found[l].start # Len(t)
  <2>1. found[l] \in Entry /\ found[l].start < found[l].end /\ found[l].end < Len(t)
    BY DEF LieIn
  <2>2. Len(t) \in Nat
    BY DEF IsText
  <2>. QED
    BY <2>1, <2>2 DEF Entry
<1>3. \A k \in 1..Len(found) : found[k].start = found[l].start => k = l
  <2>. SUFFICES ASSUME NEW k \in 1..Len(found), found[k].start = found[l].start, k # l
                PROVE  FALSE
    OBVIOUS
  <2>0. found \in Seq(Entry) /\ k \in 1..Len(found)
    BY DEF LieIn
  <2>1. /\ found[k].start \in Nat /\ found[l].start \in Nat
        /\ found[k].end \in Nat /\ found[l].end \in Nat
        /\ found[k].start < found[k].end /\ found[l].start < found[l].end
    <3>1. found[k] \in Entry /\ found[l] \in Entry
      BY <2>0
    <3>. QED
      BY <3>1 DEF LieIn, Entry
  <2>2. k < l => found[k].end < found[l].start
    BY DEF LieIn
  <2>3. l < k => found[l].end < found[k].start
    BY DEF LieIn
  <2>. QED
    BY <2>1, <2>2, <2>3
<1>4. PlaceholderAt(found, found[l].start) = l
  BY <1>3 DEF PlaceholderAt
<1>. QED
  BY <1>1, <1>2, <1>4, ReplacedFromFacts DEF ReplaceStep, DigitsAt, BehindAt

----------------------------------------------------------------------------
(* What is written and what is still to be replaced make up the text with  *)
(* its placeholders replaced.                                              *)
PlaceInv ==
    /\ rr = "copy" => out \o ReplacedFrom(txt, c)[p] = ReplacedFrom(txt, c)[0]
    /\ ReplacedInPlace

LEMMA EntriesLieIn == ScanInv => IsText(txt) /\ LieIn(c, txt)
<1>. SUFFICES ASSUME ScanInv PROVE IsText(txt) /\ LieIn(c, txt)
  OBVIOUS
<1>1. txt \in Seq(Chars) /\ c \in Seq(Entry)
  BY DEF ScanInv, ScanTypeOK
<1>2. \A k \in 1..Len(c) : c[k].start < c[k].end /\ c[k].end < Len(txt)
  BY InOrder DEF s_end
<1>3. \A k \in 1..Len(c) : \A l \in 1..(k - 1) : c[l].end < c[k].start
  BY DEF ScanInv, PlaceholdersApart
<1>. QED
  BY <1>1, <1>2, <1>3 DEF IsText, LieIn

(* No placeholder begins between two of them, or behind the last one. *)
LEMMA NoneBetween ==
  ASSUME ScanInv, NEW m \in 0..Len(c), NEW j \in Nat, Behind(m) <= j,
         m < Len(c) => j < c[m + 1].start
  PROVE  ~Begins(c, j)
<1>. SUFFICES ASSUME NEW l \in 1..Len(c), c[l].start = j PROVE FALSE
  BY DEF Begins
<1>1. Len(c) \in Nat /\ c[l].start \in Nat /\ c[l].end \in Nat /\ c[l].start < c[l].end
  BY InOrder
<1>2. CASE l <= m
  <2>1. m \in 1..Len(c) /\ Behind(m) = c[m].end + 1 /\ c[m].end \in Nat /\ c[m].start \in Nat
        /\ c[m].start < c[m].end
    BY <1>1, <1>2, InOrder
  <2>2. l < m => c[l].end < c[m].start
    BY <1>1, <2>1 DEF ScanInv, PlaceholdersApart
  <2>. QED
    BY <1>1, <1>2, <2>1, <2>2
<1>3. CASE l > m
  <2>1. m + 1 \in 1..Len(c) /\ m < Len(c)
    BY <1>1, <1>3
  <2>2. c[m + 1].end \in Nat /\ c[m + 1].start \in Nat /\ c[m + 1].start < c[m + 1].end
    BY <2>1, InOrder
  <2>3. l > m + 1 => c[m + 1].end < c[l].start
    BY <1>1, <2>1 DEF ScanInv, PlaceholdersApart
  <2>. QED
    BY <1>1, <1>3, <2>1, <2>2, <2>3
<1>. QED
  BY <1>1, <1>2, <1>3

LEMMA PlacedOneMore ==
  ASSUME ScanInv, CopyInv, PlaceInv, CopyPlaceholder
  PROVE  PlaceInv'
<1>. DEFINE from == ReplacedFrom(txt, c)
            next == c[i + 1]
            piece == SubSeq(txt, p + 1, next.start)
            digits == [k \in 1..next.value |-> RandomDigit]
            rest == from[next.end + 1]
<1>1. /\ rr = "copy" /\ rr' = "copy" /\ UNCHANGED <<txt, c>> /\ i < Len(c)
      /\ out' = (out \o piece) \o digits /\ p' = next.end + 1
  BY DEF CopyPlaceholder
<1>2. i \in Nat /\ i + 1 \in 1..Len(c) /\ (i + 1) - 1 = i /\ i \in 0..Len(c)
  BY <1>1, InOrder
<1>3. /\ next.start \in Nat /\ next.end \in Nat /\ next.value \in Nat
      /\ next.start < next.end /\ next.end < Len(txt) /\ Len(txt) \in Nat
      /\ Behind(i) \in Nat /\ Behind(i) <= next.start /\ txt \in Seq(Chars)
  BY <1>2, InOrder
<1>4. p = Behind(i) /\ out \in Outputs
  BY <1>1 DEF CopyInv, Outputs
<1>5. IsText(txt) /\ LieIn(c, txt)
  BY EntriesLieIn
<1>6. from[p] = piece \o from[next.start]
  <2>1. p \in 0..Len(txt) /\ next.start \in p..Len(txt)
    BY <1>3, <1>4
  <2>2. \A j \in p..(next.start - 1) : ~Begins(c, j)
    <3>. TAKE j \in p..(next.start - 1)
    <3>1. j \in Nat /\ Behind(i) <= j /\ j < c[i + 1].start
      BY <1>3, <1>4
    <3>. QED
      BY <1>2, <3>1, NoneBetween
  <2>. DEFINE m == next.start
  <2>3. m \in p..Len(txt) /\ \A j \in p..(m - 1) : ~Begins(c, j)
    BY <2>1, <2>2
  <2>. HIDE DEF m
  <2>4. ReplacedFrom(txt, c)[p] = SubSeq(txt, p + 1, m) \o ReplacedFrom(txt, c)[m]
    BY <1>5, <2>1, <2>3, TextIsCopied
  <2>. QED
    BY <2>4 DEF m
<1>7. from[next.start] = digits \o rest
  <2>. DEFINE l == i + 1
  <2>1. l \in 1..Len(c)
    BY <1>2
  <2>. HIDE DEF l
  <2>2. ReplacedFrom(txt, c)[c[l].start] =
          [j \in 1..c[l].value |-> RandomDigit] \o ReplacedFrom(txt, c)[c[l].end + 1]
    BY <1>5, <2>1, PlaceholderIsReplaced
  <2>. QED
    BY <2>2 DEF l
<1>8. /\ piece \in Outputs /\ digits \in Outputs /\ rest \in Outputs
  <2>1. next.end + 1 \in 0..Len(txt)
    BY <1>3
  <2>2. rest \in Outputs
    BY <1>5, <2>1, ReplacedFromFacts
  <2>3. piece \in Outputs
    BY <1>3, <1>4, PieceOfText DEF Outputs
  <2>4. digits \in Outputs
    BY <1>3, Digits DEF Outputs
  <2>. QED
    BY <2>2, <2>3, <2>4
<1>9. out \o from[p] = from[0]
  BY <1>1 DEF PlaceInv
<1>10. out' \o from[p'] = from[0]
  <2>1. from[p'] = rest
    BY <1>1
  <2>. HIDE DEF from, piece, digits, rest, next
  <2>2. out \o (piece \o (digits \o rest)) = from[0]
    BY <1>6, <1>7, <1>9
  <2>3. /\ out \in Seq(Chars \union {RandomDigit}) /\ piece \in Seq(Chars \union {RandomDigit})
        /\ digits \in Seq(Chars \union {RandomDigit}) /\ rest \in Seq(Chars \union {RandomDigit})
    BY <1>4, <1>8 DEF Outputs
  <2>. DEFINE mid == out \o piece
              tail == digits \o rest
  <2>4. mid \in Seq(Chars \union {RandomDigit}) /\ tail \in Seq(Chars \union {RandomDigit})
    BY <2>3, ConcatProperties
  <2>5. mid \o tail = out \o (piece \o tail)
    BY <2>3, <2>4, ConcatAssociative
  <2>6. (mid \o digits) \o rest = mid \o tail
    <3>. HIDE DEF mid
    <3>. QED
      BY <2>3, <2>4, ConcatAssociative
  <2>. QED
    BY <1>1, <2>1, <2>2, <2>5, <2>6
<1>. QED
  BY <1>1, <1>10 DEF PlaceInv, ReplacedInPlace

LEMMA PlacedAll ==
  ASSUME ScanInv, CopyInv, PlaceInv, CopyTail
  PROVE  PlaceInv'
<1>. DEFINE from == ReplacedFrom(txt, c)
            piece == SubSeq(txt, p + 1, s_end)
<1>1. /\ rr = "copy" /\ rr' = "replaced" /\ UNCHANGED <<txt, c>> /\ i = Len(c)
      /\ out' = out \o piece
  BY DEF CopyTail
<1>2. /\ s_end = Len(txt) /\ s_end \in Nat /\ txt \in Seq(Chars) /\ i \in 0..Len(c)
      /\ Behind(i) \in Nat /\ Behind(i) <= s_end
  BY <1>1, InOrder
<1>3. p = Behind(i)
  BY <1>1 DEF CopyInv
<1>4. IsText(txt) /\ LieIn(c, txt)
  BY EntriesLieIn
<1>5. from[p] = piece \o from[s_end]
  <2>1. p \in 0..Len(txt) /\ s_end \in p..Len(txt)
    BY <1>2, <1>3
  <2>2. \A j \in p..(s_end - 1) : ~Begins(c, j)
    <3>. TAKE j \in p..(s_end - 1)
    <3>1. j \in Nat /\ Behind(i) <= j
      BY <1>2, <1>3
    <3>. QED
      BY <1>1, <1>2, <3>1, NoneBetween
  <2>. QED
    BY <1>4, <2>1, <2>2, TextIsCopied
<1>6. from[s_end] = <<>>
  BY <1>2, <1>4, NothingBehind
<1>7. piece \in Outputs
  BY <1>2, <1>3, PieceOfText DEF Outputs
<1>8. piece \o <<>> = piece
  <2>. HIDE DEF piece
  <2>. QED
    BY <1>7, ConcatEmptySeq DEF Outputs
<1>9. out' = from[0]
  BY <1>1, <1>5, <1>6, <1>8 DEF PlaceInv
<1>. QED
  BY <1>1, <1>9 DEF PlaceInv, ReplacedInPlace

LEMMA NothingToPlace ==
  ASSUME ScanInv, NoPlaceholders
  PROVE  PlaceInv'
<1>. DEFINE from == ReplacedFrom(txt, c)
<1>1. rr' = "replaced" /\ out' = txt /\ UNCHANGED <<txt, c>> /\ c = <<>>
  BY DEF NoPlaceholders
<1>2. s_end = Len(txt) /\ s_end \in Nat /\ txt \in Seq(Chars)
  BY InOrder
<1>3. IsText(txt) /\ LieIn(c, txt)
  BY EntriesLieIn
<1>4. from[0] = SubSeq(txt, 0 + 1, s_end) \o from[s_end]
  <2>1. 0 \in 0..Len(txt) /\ s_end \in 0..Len(txt)
    BY <1>2
  <2>2. \A j : ~Begins(c, j)
    BY <1>1 DEF Begins
  <2>. QED
    BY <1>3, <2>1, <2>2, TextIsCopied
<1>5. from[s_end] = <<>>
  BY <1>2, <1>3, NothingBehind
<1>6. SubSeq(txt, 0 + 1, s_end) = txt /\ txt \o <<>> = txt
  BY <1>2, SubSeqFull, ConcatEmptySeq
<1>. QED
  BY <1>1, <1>4, <1>5, <1>6 DEF PlaceInv, ReplacedInPlace

(* Whatever the text, each placeholder becomes its digits in its place and *)
(* nothing else changes (replace_rand.c:149-162).                          *)
THEOREM EachIsReplacedInPlace == RandSpec => []ReplacedInPlace
<1>1. RandInit => PlaceInv
  BY DEF RandInit, PlaceInv, ReplacedInPlace
<1>2. ScanInv /\ CopyInv /\ PlaceInv /\ [RandNext]_randVars => PlaceInv'
  <2>. SUFFICES ASSUME ScanInv, CopyInv, PlaceInv, [RandNext]_randVars PROVE PlaceInv'
    OBVIOUS
  <2>1. CASE rr' \notin {"copy", "replaced"}
    BY <2>1 DEF PlaceInv, ReplacedInPlace
  <2>2. CASE NoPlaceholders
    BY <2>2, NothingToPlace
  <2>3. CASE Allocate
    <3>1. rr = "size" /\ rr' = "copy" /\ p' = 0 /\ UNCHANGED <<txt, c, out>>
      BY <2>3 DEF Allocate
    <3>2. ReplacedFrom(txt, c)[0] \in Seq(Chars \union {RandomDigit})
      <4>1. 0 \in 0..Len(txt)
        BY InOrder
      <4>. QED
        BY <4>1, EntriesLieIn, ReplacedFromFacts DEF Outputs
    <3>3. out = <<>>
      BY <3>1 DEF CopyInv
    <3>. QED
      BY <3>1, <3>2, <3>3, ConcatEmptySeq DEF PlaceInv, ReplacedInPlace
  <2>4. CASE CopyPlaceholder
    BY <2>4, PlacedOneMore
  <2>5. CASE CopyTail
    BY <2>5, PlacedAll
  <2>6. CASE UNCHANGED randVars
    BY <2>6 DEF randVars, PlaceInv, ReplacedInPlace
  <2>7. CASE \/ ScanEnds \/ SkipStart \/ SkipBrackets \/ Found \/ NoMemory
             \/ StartSizing \/ SizePlaceholder \/ replace_rand
    <3>1. rr' \notin {"copy", "replaced"}
      BY <2>7 DEF ScanEnds, SkipStart, GoOnAt, SkipBrackets, Found, NoMemory,
                  StartSizing, SizePlaceholder, replace_rand
    <3>. QED
      BY <2>1, <3>1
  <2>. QED
    BY <2>2, <2>3, <2>4, <2>5, <2>6, <2>7 DEF RandNext
<1>3. PlaceInv => ReplacedInPlace
  BY DEF PlaceInv
<1>. QED
  BY <1>1, <1>2, <1>3, CopyInvHolds, ScanInvariant, PTL DEF RandSpec
=============================================================================

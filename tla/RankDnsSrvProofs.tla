-------------------------- MODULE RankDnsSrvProofs --------------------------
(***************************************************************************)
(* rank_dns_srv gives every row of a partition a rank of its own, for any  *)
(* weights that fit, any size of context and any random numbers.           *)
(***************************************************************************)
EXTENDS RankDnsSrv, FiniteSetTheorems, WellFoundedInduction, TLAPS

Rows == 0..(rows - 1)
Unranked == {i \in Rows : ctx[i].rank = 0}
Ranked == {i \in Rows : ctx[i].rank # 0}

Stat == [rank : Nat, w : Int, w_sum : Int]

(* The partition, and the locals of the draws. *)
Shape ==
    /\ rows \in Nat \ {0}
    /\ \A i \in Rows : weights[i] \in SrvWeights \union {NoWeight}
    /\ ctx \in [0..(CtxSlots - 1) -> Stat]
    /\ srv \in {"call", "sum", "pick", "answer"}
    /\ row \in 0..rows /\ sum \in Int /\ r \in Int /\ rank \in Nat
    /\ answers \in Seq(Nat)

Filled == srv # "call" => \A i \in Rows : ctx[i].w = Weight(i)

(* Ranks 1 to rank are given, each to one row. *)
RanksGiven ==
    /\ Cardinality(Ranked) = rank
    /\ \A k \in 1..rank : \E i \in Rows : ctx[i].rank = k
    /\ srv \in {"sum", "pick"} => rank < rows
    /\ srv = "answer" => rank = rows

(* Between draws row and sum start from zero. *)
Fresh == srv = "call" => row = 0 /\ sum = 0 /\ rank = 0

(* The running sum fits, and is the one of the last row without a rank. *)
SumSoFar ==
    srv = "sum" =>
        /\ sum >= 0 /\ sum * CTX_MAX_ROWS <= row * INT_MAX
        /\ (sum = 0 /\ \A i \in Unranked : i >= row)
           \/ \E i \in Unranked : i < row /\ ctx[i].w_sum = sum

(* A row without a rank is still to come for the number drawn. *)
RowToCome == srv = "pick" => \E i \in Unranked : i >= row /\ ctx[i].w_sum >= r

Answered ==
    /\ Len(answers) <= rows
    /\ \A k \in 1..Len(answers) : answers[k] = ctx[k - 1].rank
    /\ srv # "answer" => answers = <<>>

RankInv ==
    SrvWeightsFit =>
        /\ Shape /\ Filled /\ RanksGiven /\ Fresh
        /\ SumSoFar /\ RowToCome /\ Answered

----------------------------------------------------------------------------
(* A number below the modulus is its own remainder. *)
LEMMA SmallRemainder ==
  ASSUME NEW m \in Nat, NEW k \in Nat, m < k
  PROVE  m % k = m
  OBVIOUS

(* What fits an int32 is stored as it is. *)
LEMMA Int32Fits ==
  ASSUME NEW m \in 0..INT_MAX
  PROVE  Int32(m) = m
<1> DEFINE width == INT_MAX + 1
<1>1. INT_MAX \in Nat
  BY SrvAssumption
<1>2. m + width \in Nat /\ 2 * width \in Nat /\ m + width < 2 * width
  BY <1>1
<1>3. (m + width) % (2 * width) = m + width
  BY <1>2, SmallRemainder
<1>. QED
  BY <1>1, <1>3 DEF Int32

(* No step changes the partition, so weights that fit do so throughout. *)
LEMMA SamePartition ==
  ASSUME rows' = rows, weights' = weights
  PROVE  /\ Rows' = Rows /\ SrvWeightsFit' = SrvWeightsFit
         /\ \A i : Weight(i)' = Weight(i)
  BY DEF Rows, SrvWeightsFit, Weight

LEMMA WeightsFit ==
  ASSUME SrvWeightsFit, Shape, NEW i \in Rows
  PROVE  Weight(i) \in Nat /\ Weight(i) * CTX_MAX_ROWS <= INT_MAX
<1>1. Weight(i) >= 0 /\ Weight(i) * CTX_MAX_ROWS <= INT_MAX
  BY DEF SrvWeightsFit, Rows
<1>2. weights[i] \in SrvWeights \union {NoWeight}
  BY DEF Shape
<1>3. Weight(i) \in Int
  <2>1. weights[i] # NoWeight => weights[i] \in Int
    BY <1>2, SrvAssumption
  <2>. QED
    BY <2>1 DEF Weight
<1>. QED
  BY <1>1, <1>3

(* The rows of a partition that fits have a slot each. *)
LEMMA RowsHaveSlots ==
  ASSUME SrvWeightsFit, Shape
  PROVE  rows <= CtxSlots /\ Rows \subseteq 0..(CtxSlots - 1)
  BY SrvAssumption DEF SrvWeightsFit, Shape, Rows

LEMMA RowsFinite ==
  ASSUME Shape
  PROVE  /\ IsFiniteSet(Rows) /\ Cardinality(Rows) = rows
         /\ IsFiniteSet(Ranked) /\ Ranked \subseteq Rows
<1>1. IsFiniteSet(Rows) /\ Cardinality(Rows) = rows
  BY FS_Interval DEF Rows, Shape
<1>2. Ranked \subseteq Rows
  BY DEF Ranked
<1>. QED
  BY <1>1, <1>2, FS_Subset

(* As long as ranks are left, so are rows without one. *)
LEMMA SomeUnranked ==
  ASSUME Shape, Cardinality(Ranked) = rank, rank < rows
  PROVE  Unranked # {}
<1>1. Ranked # Rows
  BY RowsFinite DEF Shape
<1>. QED
  BY <1>1, RowsFinite DEF Ranked, Unranked

(* Sums over rows that each weigh at most an equal part of INT_MAX. *)
LEMMA SumBelowMax ==
  ASSUME NEW K \in Nat \ {0}, NEW M \in Nat, NEW k \in 0..K, NEW s \in Nat,
         s * K <= k * M
  PROVE  s <= M
<1>1. SUFFICES ASSUME s >= M + 1 PROVE FALSE
  OBVIOUS
<1>2. s * K >= (M + 1) * K
  BY <1>1
<1>3. k * M <= K * M
  OBVIOUS
<1>4. (M + 1) * K = K * M + K
  OBVIOUS
<1>. QED
  BY <1>2, <1>3, <1>4

LEMMA SumGrows ==
  ASSUME NEW K \in Nat, NEW M \in Nat, NEW k \in Nat, NEW s \in Nat, NEW w \in Nat,
         s * K <= k * M, w * K <= M
  PROVE  (s + w) * K <= (k + 1) * M
<1>1. (s + w) * K = s * K + w * K /\ (k + 1) * M = k * M + M
  OBVIOUS
<1>. QED
  BY <1>1

----------------------------------------------------------------------------
LEMMA RankInitInv == SrvInit => RankInv
<1>. SUFFICES ASSUME SrvInit, SrvWeightsFit
              PROVE  Shape /\ Filled /\ RanksGiven /\ Fresh /\ SumSoFar /\ RowToCome /\ Answered
  BY DEF RankInv
<1>1. rows \in Nat \ {0} /\ rows <= CtxSlots
  BY SrvAssumption DEF SrvInit, SrvWeightsFit
<1>2. Shape
  BY <1>1, SrvAssumption DEF SrvInit, Shape, Stat, Rows
<1>3. Ranked = {}
  BY <1>1, SrvAssumption DEF SrvInit, Ranked, Rows
<1>4. RanksGiven
  BY <1>3, FS_EmptySet DEF RanksGiven, SrvInit
<1>5. Filled /\ Fresh /\ SumSoFar /\ RowToCome /\ Answered
  BY <1>1 DEF SrvInit, Filled, Fresh, SumSoFar, RowToCome, Answered
<1>. QED
  BY <1>2, <1>4, <1>5

Steady ==
    /\ SrvWeightsFit
    /\ Shape /\ Filled /\ RanksGiven /\ Fresh /\ SumSoFar /\ RowToCome /\ Answered

(* The weights are copied into slots that exist. *)
LEMMA FillStep ==
  ASSUME Steady, fill_weights
  PROVE  (Shape /\ Filled /\ RanksGiven /\ Fresh /\ SumSoFar /\ RowToCome /\ Answered)'
<1>1. rows' = rows /\ weights' = weights /\ Rows' = Rows /\ (\A i : Weight(i)' = Weight(i))
  BY SamePartition DEF fill_weights
<1>2. rows \in Nat \ {0} /\ rows <= CtxSlots /\ Rows \subseteq 0..(CtxSlots - 1)
  BY RowsHaveSlots DEF Steady, Shape
<1>3. /\ ctx' = [slot \in DOMAIN ctx |->
                  IF slot < rows THEN [ctx[slot] EXCEPT !.w = Weight(slot)] ELSE ctx[slot]]
      /\ srv = "call" /\ srv' = "sum"
      /\ UNCHANGED <<row, sum, r, rank, answers>>
  BY <1>2 DEF fill_weights
<1>4. DOMAIN ctx = 0..(CtxSlots - 1) /\ \A slot \in 0..(CtxSlots - 1) : ctx[slot] \in Stat
  BY DEF Steady, Shape
<1>5. \A slot \in 0..(CtxSlots - 1) :
         /\ ctx'[slot] \in Stat
         /\ ctx'[slot].rank = ctx[slot].rank
         /\ slot < rows => ctx'[slot].w = Weight(slot)
  <2>. TAKE slot \in 0..(CtxSlots - 1)
  <2>1. slot < rows => slot \in Rows
    BY <1>2, SrvAssumption DEF Rows
  <2>2. slot < rows => Weight(slot) \in Int
    BY <2>1, WeightsFit DEF Steady
  <2>. QED
    BY <1>3, <1>4, <2>2 DEF Stat
<1>6. Shape'
  BY <1>1, <1>2, <1>3, <1>4, <1>5 DEF Steady, Shape
<1>7. Filled'
  <2>1. \A i \in Rows : i \in 0..(CtxSlots - 1) /\ i < rows
    BY <1>2 DEF Rows
  <2>. QED
    BY <1>1, <1>5, <2>1 DEF Filled
<1>8. Ranked' = Ranked /\ Unranked' = Unranked
  BY <1>1, <1>2, <1>5 DEF Ranked, Unranked
<1>9. row = 0 /\ sum = 0 /\ rank = 0
  BY <1>3 DEF Steady, Fresh
<1>10. RanksGiven'
  <2>1. Cardinality(Ranked) = 0
    BY <1>9 DEF Steady, RanksGiven
  <2>. QED
    BY <1>1, <1>2, <1>3, <1>8, <1>9, <2>1 DEF RanksGiven
<1>11. SumSoFar'
  BY <1>2, <1>3, <1>8, <1>9, SrvAssumption DEF SumSoFar, Unranked, Rows
<1>12. Fresh' /\ RowToCome' /\ Answered'
  BY <1>1, <1>3 DEF Steady, Fresh, RowToCome, Answered
<1>. QED
  BY <1>6, <1>7, <1>10, <1>11, <1>12

(* A row without a rank adds its weight, and keeps the sum as it is. *)
LEMMA SumStored ==
  ASSUME Steady, SumRow, ctx[row].rank = 0
  PROVE  /\ row \in Rows
         /\ sum' = sum + Weight(row)
         /\ sum' \in Nat /\ sum' * CTX_MAX_ROWS <= (row + 1) * INT_MAX
         /\ ctx' \in [0..(CtxSlots - 1) -> Stat]
         /\ \A slot \in 0..(CtxSlots - 1) :
              /\ ctx'[slot].rank = ctx[slot].rank /\ ctx'[slot].w = ctx[slot].w
              /\ ctx'[slot].w_sum = IF slot = row THEN sum' ELSE ctx[slot].w_sum
<1>1. srv = "sum" /\ row < rows
  BY DEF SumRow
<1>2. /\ rows \in Nat \ {0} /\ rows <= CTX_MAX_ROWS
      /\ Rows \subseteq 0..(CtxSlots - 1) /\ row \in Rows
      /\ CTX_MAX_ROWS \in Nat \ {0} /\ INT_MAX \in Nat
  BY <1>1, RowsHaveSlots, SrvAssumption DEF Steady, Shape, SrvWeightsFit, Rows
<1>3. /\ DOMAIN ctx = 0..(CtxSlots - 1) /\ \A slot \in 0..(CtxSlots - 1) : ctx[slot] \in Stat
      /\ sum \in Nat /\ sum * CTX_MAX_ROWS <= row * INT_MAX
  BY <1>1 DEF Steady, Shape, SumSoFar
<1>4. /\ sum' = sum + ctx[row].w
      /\ ctx' = [ctx EXCEPT ![row].w_sum = Int32(sum')]
  BY DEF SumRow
<1>5. ctx[row].w = Weight(row) /\ Weight(row) \in Nat /\ Weight(row) * CTX_MAX_ROWS <= INT_MAX
  BY <1>1, <1>2, WeightsFit DEF Steady, Filled
<1>6. sum' \in Nat /\ sum' * CTX_MAX_ROWS <= (row + 1) * INT_MAX
  BY <1>2, <1>3, <1>4, <1>5, SumGrows DEF Rows
<1>7. Int32(sum') = sum'
  <2>1. row + 1 \in 0..CTX_MAX_ROWS
    BY <1>1, <1>2 DEF Rows
  <2>2. \A s \in Nat : s * CTX_MAX_ROWS <= (row + 1) * INT_MAX => s <= INT_MAX
    BY <1>2, <2>1, SumBelowMax
  <2>3. sum' <= INT_MAX
    BY <1>6, <2>2, Zenon
  <2>4. sum' \in 0..INT_MAX
    BY <1>2, <1>6, <2>3
  <2>. QED
    BY <2>4, Int32Fits
<1>8. \A slot \in 0..(CtxSlots - 1) :
         /\ ctx'[slot] \in Stat
         /\ ctx'[slot].rank = ctx[slot].rank /\ ctx'[slot].w = ctx[slot].w
         /\ ctx'[slot].w_sum = IF slot = row THEN sum' ELSE ctx[slot].w_sum
  BY <1>3, <1>4, <1>6, <1>7 DEF Stat
<1>9. ctx' \in [0..(CtxSlots - 1) -> Stat]
  BY <1>3, <1>4, <1>8
<1>. QED
  BY <1>2, <1>4, <1>5, <1>6, <1>8, <1>9

(* One row more in the running sum, unless it has a rank. *)
LEMMA SumStep ==
  ASSUME Steady, SumRow
  PROVE  (Shape /\ Filled /\ RanksGiven /\ Fresh /\ SumSoFar /\ RowToCome /\ Answered)'
<1>1. /\ srv = "sum" /\ row < rows /\ row' = row + 1
      /\ UNCHANGED <<weights, rows, srv, r, rank, answers>>
  BY DEF SumRow
<1>2. Rows' = Rows /\ (\A i : Weight(i)' = Weight(i))
  BY <1>1, SamePartition
<1>3. /\ rows \in Nat \ {0}
      /\ Rows \subseteq 0..(CtxSlots - 1) /\ row \in Rows
      /\ CTX_MAX_ROWS \in Nat \ {0} /\ INT_MAX \in Nat
  BY <1>1, RowsHaveSlots, SrvAssumption DEF Steady, Shape, SrvWeightsFit, Rows
<1>4. CASE ctx[row].rank # 0
  <2>1. ctx' = ctx /\ sum' = sum
    BY <1>4 DEF SumRow
  <2>2. Ranked' = Ranked /\ Unranked' = Unranked /\ row \notin Unranked
    BY <1>2, <1>4, <2>1 DEF Ranked, Unranked
  <2>3. /\ sum \in Nat /\ sum * CTX_MAX_ROWS <= row * INT_MAX
        /\ (sum = 0 /\ \A i \in Unranked : i >= row)
             \/ \E i \in Unranked : i < row /\ ctx[i].w_sum = sum
    BY <1>1 DEF Steady, Shape, SumSoFar
  <2>4. sum * CTX_MAX_ROWS <= (row + 1) * INT_MAX
    <3>1. 0 * CTX_MAX_ROWS <= INT_MAX
      BY <1>3
    <3>. QED
      BY <1>3, <2>3, <3>1, SumGrows DEF Rows
  <2>5. SumSoFar'
    BY <1>1, <1>3, <2>1, <2>2, <2>3, <2>4 DEF SumSoFar, Unranked, Rows
  <2>6. Shape' /\ Filled'
    BY <1>1, <1>2, <1>3, <2>1 DEF Steady, Shape, Filled, Rows
  <2>7. RanksGiven' /\ Fresh' /\ RowToCome' /\ Answered'
    BY <1>1, <1>2, <2>1, <2>2 DEF Steady, RanksGiven, Fresh, RowToCome, Answered
  <2>. QED
    BY <2>5, <2>6, <2>7
<1>5. CASE ctx[row].rank = 0
  <2>1. /\ sum' \in Nat /\ sum' * CTX_MAX_ROWS <= (row + 1) * INT_MAX
        /\ ctx' \in [0..(CtxSlots - 1) -> Stat]
        /\ \A slot \in 0..(CtxSlots - 1) :
              /\ ctx'[slot].rank = ctx[slot].rank /\ ctx'[slot].w = ctx[slot].w
              /\ ctx'[slot].w_sum = IF slot = row THEN sum' ELSE ctx[slot].w_sum
    BY <1>5, SumStored
  <2>2. Ranked' = Ranked /\ Unranked' = Unranked /\ row \in Unranked
    BY <1>2, <1>3, <1>5, <2>1 DEF Ranked, Unranked
  <2>3. SumSoFar'
    <3>1. ctx'[row].w_sum = sum'
      BY <1>3, <2>1
    <3>2. sum' >= 0 /\ sum' * CTX_MAX_ROWS <= (row + 1) * INT_MAX
      BY <2>1
    <3>. QED
      BY <1>1, <1>3, <2>2, <3>1, <3>2 DEF SumSoFar, Rows
  <2>4. Shape'
    BY <1>1, <1>2, <1>3, <2>1 DEF Steady, Shape, Rows
  <2>5. Filled' /\ RanksGiven' /\ Fresh' /\ RowToCome'
    BY <1>1, <1>2, <1>3, <2>1, <2>2 DEF Steady, Filled, RanksGiven, Fresh, RowToCome
  <2>6. Answered'
    BY <1>1 DEF Steady, Answered
  <2>. QED
    BY <2>3, <2>4, <2>5, <2>6
<1>. QED
  BY <1>4, <1>5

(* The number drawn is at most the sum, which some row without a rank has  *)
(* reached.                                                                *)
LEMMA DrawStep ==
  ASSUME Steady, Draw
  PROVE  (Shape /\ Filled /\ RanksGiven /\ Fresh /\ SumSoFar /\ RowToCome /\ Answered)'
<1>1. /\ srv = "sum" /\ row = rows /\ UNCHANGED <<weights, rows, ctx, sum, rank, answers>>
  BY DEF Draw
<1>2. sum \in Nat /\ rows \in Nat \ {0}
  BY <1>1 DEF Steady, SumSoFar, Shape
<1>3. Rows' = Rows /\ (\A i : Weight(i)' = Weight(i))
      /\ Ranked' = Ranked /\ Unranked' = Unranked
  BY <1>1, SamePartition DEF Ranked, Unranked
<1>4. r' \in 0..sum /\ srv' = "pick" /\ row' = 0
  <2>1. Abs(sum + 1) = sum + 1 /\ sum + 1 # 0
    BY <1>2 DEF Abs
  <2>2. PICK random \in 0..RAND_MAX : r' = random % (sum + 1)
    BY <2>1 DEF Draw
  <2>3. random \in Nat
    BY SrvAssumption
  <2>. QED
    BY <1>2, <2>1, <2>2, <2>3 DEF Draw
<1>5. RowToCome'
  <2>1. Unranked # {}
    BY <1>1, SomeUnranked DEF Steady, RanksGiven
  <2>2. \E i \in Unranked : i < row /\ ctx[i].w_sum = sum
    BY <1>1, <1>2, <2>1 DEF Steady, SumSoFar, Unranked, Rows
  <2>. QED
    BY <1>1, <1>2, <1>3, <1>4, <2>2 DEF RowToCome, Unranked, Rows
<1>6. Shape'
  BY <1>1, <1>2, <1>3, <1>4 DEF Steady, Shape
<1>7. Filled' /\ RanksGiven' /\ Fresh' /\ SumSoFar' /\ Answered'
  BY <1>1, <1>3, <1>4 DEF Steady, Filled, RanksGiven, Fresh, SumSoFar, Answered
<1>. QED
  BY <1>5, <1>6, <1>7

(* A row that is passed over is not the one to come. *)
LEMMA SkipStep ==
  ASSUME Steady, SkipRow
  PROVE  (Shape /\ Filled /\ RanksGiven /\ Fresh /\ SumSoFar /\ RowToCome /\ Answered)'
<1>1. /\ srv = "pick" /\ row < rows /\ ~Drawn /\ row' = row + 1
      /\ UNCHANGED <<weights, rows, ctx, srv, sum, r, rank, answers>>
  BY DEF SkipRow
<1>2. Rows' = Rows /\ (\A i : Weight(i)' = Weight(i))
      /\ Ranked' = Ranked /\ Unranked' = Unranked
  BY <1>1, SamePartition DEF Ranked, Unranked
<1>3. RowToCome'
  <2>1. PICK i \in Unranked : i >= row /\ ctx[i].w_sum >= r
    BY <1>1 DEF Steady, RowToCome
  <2>2. i # row /\ i \in Int /\ row \in Int
    BY <1>1, <2>1 DEF Steady, Shape, Drawn, Unranked, Rows
  <2>3. i \in Unranked' /\ i >= row' /\ ctx'[i].w_sum >= r'
    BY <1>1, <1>2, <2>1, <2>2
  <2>. QED
    BY <2>3 DEF RowToCome
<1>4. Shape'
  BY <1>1, <1>2 DEF Steady, Shape
<1>5. Filled' /\ RanksGiven' /\ Fresh' /\ SumSoFar' /\ Answered'
  BY <1>1, <1>2 DEF Steady, Filled, RanksGiven, Fresh, SumSoFar, Answered
<1>. QED
  BY <1>3, <1>4, <1>5

(* The next rank goes to a row that had none. *)
LEMMA RankStep ==
  ASSUME Steady, RankRow
  PROVE  (Shape /\ Filled /\ RanksGiven /\ Fresh /\ SumSoFar /\ RowToCome /\ Answered)'
<1>1. /\ srv = "pick" /\ row' = 0 /\ sum' = 0 /\ rank' = rank + 1
      /\ row < rows => Drawn
      /\ UNCHANGED <<weights, rows, r, answers>>
  BY DEF RankRow
<1>2. Rows' = Rows /\ (\A i : Weight(i)' = Weight(i))
  BY <1>1, SamePartition
<1>3. /\ row \in Rows /\ ctx[row].rank = 0
      /\ rows \in Nat \ {0} /\ rank \in Nat /\ rank < rows /\ INT_MAX \in Nat
      /\ Rows \subseteq 0..(CtxSlots - 1)
  <2>1. \E i \in Unranked : i >= row
    BY <1>1 DEF Steady, RowToCome
  <2>2. row \in Rows
    BY <2>1 DEF Steady, Shape, Unranked, Rows
  <2>. QED
    BY <1>1, <2>2, RowsHaveSlots, SrvAssumption DEF Steady, Shape, Drawn, Rows, RanksGiven
<1>4. /\ ctx' = [ctx EXCEPT ![row].rank = rank + 1]
      /\ srv' = IF rank + 1 < rows THEN "sum" ELSE "answer"
  BY <1>3, SrvAssumption DEF RankRow
<1>5. /\ DOMAIN ctx = 0..(CtxSlots - 1) /\ \A slot \in 0..(CtxSlots - 1) : ctx[slot] \in Stat
  BY DEF Steady, Shape
<1>6. \A slot \in 0..(CtxSlots - 1) :
         /\ ctx'[slot] \in Stat
         /\ ctx'[slot].rank = IF slot = row THEN rank + 1 ELSE ctx[slot].rank
         /\ ctx'[slot].w = ctx[slot].w
  BY <1>3, <1>4, <1>5 DEF Stat
<1>7. ctx' \in [0..(CtxSlots - 1) -> Stat]
  BY <1>4, <1>5, <1>6
<1>8. Shape'
  BY <1>1, <1>2, <1>3, <1>4, <1>7 DEF Steady, Shape
<1>9. Filled'
  BY <1>1, <1>2, <1>3, <1>6 DEF Steady, Filled
<1>10. RanksGiven'
  <2>1. Ranked' = Ranked \union {row} /\ row \notin Ranked
    <3>1. \A i \in Rows : ctx'[i].rank # 0 <=> i = row \/ ctx[i].rank # 0
      BY <1>3, <1>6
    <3>2. Ranked' = {i \in Rows : ctx'[i].rank # 0}
      BY <1>2 DEF Ranked
    <3>. QED
      BY <1>3, <3>1, <3>2 DEF Ranked
  <2>2. Cardinality(Ranked') = rank + 1
    BY <2>1, RowsFinite, FS_AddElement DEF Steady, RanksGiven
  <2>3. ASSUME NEW k \in 1..(rank + 1) PROVE \E i \in Rows : ctx'[i].rank = k
    <3>1. CASE k = rank + 1
      BY <1>3, <1>6, <3>1
    <3>2. CASE k # rank + 1
      <4>1. PICK i \in Rows : ctx[i].rank = k
        BY <1>3, <3>2 DEF Steady, RanksGiven
      <4>2. i # row
        BY <1>3, <4>1
      <4>. QED
        BY <1>3, <1>6, <4>1, <4>2
    <3>. QED
      BY <3>1, <3>2
  <2>4. srv' \in {"sum", "answer"} /\ (srv' = "sum" <=> rank' < rows') /\ rank' <= rows'
    BY <1>1, <1>3, <1>4
  <2>5. rank' \in Int /\ rows' \in Int
    BY <1>1, <1>3
  <2>. QED
    BY <1>1, <1>2, <2>2, <2>3, <2>4, <2>5 DEF RanksGiven
<1>11. Fresh' /\ RowToCome'
  BY <1>4 DEF Fresh, RowToCome
<1>12. SumSoFar'
  BY <1>1, <1>2, <1>3, SrvAssumption DEF SumSoFar, Unranked, Rows
<1>13. Answered'
  BY <1>1 DEF Steady, Answered
<1>. QED
  BY <1>8, <1>9, <1>10, <1>11, <1>12, <1>13

(* A call answers with the rank of its row. *)
LEMMA AnswerStep ==
  ASSUME Steady, rank_dns_srv
  PROVE  (Shape /\ Filled /\ RanksGiven /\ Fresh /\ SumSoFar /\ RowToCome /\ Answered)'
<1>1. /\ srv = "answer" /\ Len(answers) < rows
      /\ UNCHANGED <<weights, rows, ctx, srv, row, sum, r, rank>>
  BY DEF rank_dns_srv
<1>2. /\ Rows' = Rows /\ (\A i : Weight(i)' = Weight(i))
      /\ Ranked' = Ranked /\ Unranked' = Unranked
  BY <1>1, SamePartition DEF Ranked, Unranked
<1>3. answers \in Seq(Nat) /\ Len(answers) \in Nat /\ rows \in Nat
  BY DEF Steady, Shape
<1>4. answers' = Append(answers, ctx[Len(answers)].rank)
  BY <1>1, <1>3, SrvAssumption DEF rank_dns_srv, Steady, SrvWeightsFit
<1>5. ctx[Len(answers)].rank \in Nat
  BY <1>1, <1>3, RowsHaveSlots, SrvAssumption DEF Steady, Shape, Stat, Rows
<1>6. Shape'
  BY <1>1, <1>2, <1>4, <1>5 DEF Steady, Shape
<1>7. Answered'
  BY <1>1, <1>3, <1>4 DEF Steady, Answered
<1>8. Filled' /\ RanksGiven' /\ Fresh' /\ SumSoFar' /\ RowToCome'
  BY <1>1, <1>2 DEF Steady, Filled, RanksGiven, Fresh, SumSoFar, RowToCome
<1>. QED
  BY <1>6, <1>7, <1>8

----------------------------------------------------------------------------
(* The inductive invariant of rank_dns_srv. *)
LEMMA RankInvHolds == SrvSpec => []RankInv
<1>1. ASSUME RankInv, [SrvNext]_srvVars PROVE RankInv'
  <2>1. rows' = rows /\ weights' = weights
    BY <1>1 DEF SrvNext, srvVars, fill_weights, SumRow, Draw, SkipRow, RankRow, rank_dns_srv
  <2>. SUFFICES ASSUME SrvWeightsFit'
                PROVE  (Shape /\ Filled /\ RanksGiven /\ Fresh
                          /\ SumSoFar /\ RowToCome /\ Answered)'
    BY DEF RankInv
  <2>2. Steady
    BY <1>1, <2>1, SamePartition DEF RankInv, Steady
  <2>3. CASE SrvNext
    BY <2>2, <2>3, FillStep, SumStep, DrawStep, SkipStep, RankStep, AnswerStep DEF SrvNext
  <2>4. CASE UNCHANGED srvVars
    <3>1. /\ Rows' = Rows /\ (\A i : Weight(i)' = Weight(i))
          /\ Ranked' = Ranked /\ Unranked' = Unranked
      BY <2>1, <2>4, SamePartition DEF srvVars, Ranked, Unranked
    <3>2. Shape'
      BY <2>2, <2>4, <3>1 DEF srvVars, Steady, Shape
    <3>3. (Filled /\ RanksGiven /\ Fresh /\ SumSoFar /\ RowToCome /\ Answered)'
      BY <2>2, <2>4, <3>1 DEF srvVars, Steady, Filled, RanksGiven, Fresh, SumSoFar,
                              RowToCome, Answered
    <3>. QED
      BY <3>2, <3>3
  <2>. QED
    BY <1>1, <2>3, <2>4
<1>. QED
  BY <1>1, RankInitInv, PTL DEF SrvSpec

(* Whatever is drawn, the rows of a partition that fits get the ranks from *)
(* 1 to their number, each a different one (f_sort_srv.c:31-79).           *)
THEOREM RanksAreComplete == SrvSpec => []RanksComplete
<1>1. RankInv => RanksComplete
  <2>. SUFFICES ASSUME RankInv, SrvWeightsFit, Len(answers) = rows, NEW k \in 1..rows
                PROVE  \E i \in 1..rows : answers[i] = k
    BY DEF RanksComplete
  <2>1. Shape /\ RanksGiven /\ Answered
    BY DEF RankInv
  <2>2. rows \in Nat \ {0} /\ srv = "answer"
    BY <2>1 DEF Shape, Answered
  <2>3. PICK i \in Rows : ctx[i].rank = k
    BY <2>1, <2>2 DEF RanksGiven
  <2>4. i + 1 \in 1..rows /\ answers[i + 1] = ctx[(i + 1) - 1].rank
    BY <2>1, <2>2 DEF Answered, Rows
  <2>5. (i + 1) - 1 = i
    BY <2>2 DEF Rows
  <2>. QED
    BY <2>3, <2>4, <2>5
<1>. QED
  BY <1>1, RankInvHolds, PTL

----------------------------------------------------------------------------
(* What holds of 0 and of the successor of each number it holds of, holds  *)
(* of all numbers up to n.                                                 *)
LEMMA UpTo ==
  ASSUME NEW n \in Nat, NEW P \in SUBSET Nat, 0 \in P,
         \A k \in 0..n : (k # n /\ k \in P) => k + 1 \in P
  PROVE  \A k \in 0..n : k \in P
<1>. DEFINE Below == OpToRel(<, Nat)
            Missing == {k \in 0..n : k \notin P}
<1>. SUFFICES ASSUME Missing # {} PROVE FALSE
  OBVIOUS
<1>1. IsWellFoundedOn(Below, Nat)
  BY NatLessThanWellFounded
<1>2. Missing \subseteq Nat
  OBVIOUS
<1>3. PICK m \in Missing : \A k \in Missing : ~ (<<k, m>> \in Below)
  <2>. HIDE DEF Below, Missing
  <2>. QED
    BY <1>1, <1>2, WFMin
<1>4. m \in Nat /\ m # 0 /\ m <= n /\ m \notin P
  OBVIOUS
<1>5. m - 1 \in 0..n /\ m - 1 # n /\ m - 1 \in Nat /\ m - 1 < m /\ (m - 1) + 1 = m
  BY <1>4
<1>6. <<m - 1, m>> \in Below
  BY <1>4, <1>5 DEF OpToRel
<1>7. m - 1 \in P
  BY <1>3, <1>5, <1>6
<1>. QED
  BY <1>4, <1>5, <1>7

(* The running sums exist and add up. *)
LEMMA RunningSums ==
  ASSUME NEW n \in Nat, NEW w \in [0..(n - 1) -> Nat]
  PROVE  /\ SumsOf(w, n)[0] = 0
         /\ \A k \in 0..n : SumsOf(w, n)[k] \in Nat
         /\ \A k \in 0..(n - 1) : SumsOf(w, n)[k + 1] = SumsOf(w, n)[k] + w[k]
<1>. DEFINE Sums(m, f) ==
              /\ f[0] = 0 /\ \A k \in 0..(m - 1) : f[k + 1] = f[k] + w[k]
            P == {m \in Nat : m <= n => \E f \in [0..m -> Nat] : Sums(m, f)}
            s == SumsOf(w, n)
<1>1. \A m \in 0..n : m \in P
  <2>1. 0 \in P
    <3>1. Sums(0, [k \in 0..0 |-> 0])
      OBVIOUS
    <3>2. [k \in 0..0 |-> 0] \in [0..0 -> Nat]
      OBVIOUS
    <3>. QED
      BY <3>1, <3>2
  <2>2. ASSUME NEW m \in 0..n, m # n, m \in P PROVE m + 1 \in P
    <3>1. PICK f \in [0..m -> Nat] : Sums(m, f)
      BY <2>2
    <3>. DEFINE g == [k \in 0..(m + 1) |-> IF k = m + 1 THEN f[m] + w[m] ELSE f[k]]
    <3>2. m \in 0..(n - 1) /\ f[m] + w[m] \in Nat
      BY <2>2
    <3>3. g \in [0..(m + 1) -> Nat]
      BY <3>2
    <3>4. Sums(m + 1, g)
      BY <3>1, <3>2
    <3>5. \E h \in [0..(m + 1) -> Nat] : Sums(m + 1, h)
      <4>. HIDE DEF Sums, g
      <4>. QED
        BY <3>3, <3>4
    <3>6. m + 1 \in Nat
      OBVIOUS
    <3>. HIDE DEF Sums
    <3>. QED
      BY <3>5, <3>6
  <2>. HIDE DEF P
  <2>. QED
    <3>1. P \subseteq Nat
      BY DEF P
    <3>. QED
      BY <2>1, <2>2, <3>1, UpTo
<1>2. \E f : f = [k \in 0..n |-> IF k = 0 THEN 0 ELSE f[k - 1] + w[k - 1]]
  <2>1. \E f \in [0..n -> Nat] : Sums(n, f)
    <3>1. n \in P
      <4>. HIDE DEF P
      <4>. QED
        BY <1>1
    <3>. QED
      BY <3>1
  <2>. PICK f \in [0..n -> Nat] : Sums(n, f)
    BY <2>1
  <2>2. \A k \in 0..n : f[k] = IF k = 0 THEN 0 ELSE f[k - 1] + w[k - 1]
    <3>. TAKE k \in 0..n
    <3>1. k # 0 => k - 1 \in 0..(n - 1) /\ (k - 1) + 1 = k
      OBVIOUS
    <3>. QED
      BY <3>1
  <2>3. f = [k \in 0..n |-> IF k = 0 THEN 0 ELSE f[k - 1] + w[k - 1]]
    BY <2>2
  <2>. QED
    BY <2>3
<1>3. s = [k \in 0..n |-> IF k = 0 THEN 0 ELSE s[k - 1] + w[k - 1]]
  BY <1>2 DEF SumsOf
<1>. HIDE DEF s
<1>4. s[0] = 0 /\ \A k \in 0..(n - 1) : s[k + 1] = s[k] + w[k]
  <2>1. s[0] = 0
    BY <1>3
  <2>2. ASSUME NEW k \in 0..(n - 1) PROVE s[k + 1] = s[k] + w[k]
    <3>1. k + 1 \in 0..n /\ k + 1 # 0 /\ (k + 1) - 1 = k
      OBVIOUS
    <3>. QED
      BY <1>3, <3>1
  <2>. QED
    BY <2>1, <2>2
<1>5. \A k \in 0..n : s[k] \in Nat
  <2>. DEFINE N == {k \in Nat : s[k] \in Nat}
  <2>1. 0 \in N /\ \A k \in 0..n : (k # n /\ k \in N) => k + 1 \in N
    BY <1>4
  <2>2. \A k \in 0..n : k \in N
    <3>. HIDE DEF N
    <3>1. N \subseteq Nat
      BY DEF N
    <3>. QED
      BY <2>1, <3>1, UpTo
  <2>. QED
    BY <2>2
<1>. QED
  BY <1>4, <1>5 DEF s

(* What WeightBefore says row by row. *)
LEMMA ShareSums ==
  ASSUME Steady
  PROVE  /\ WeightBefore(0) = 0
         /\ \A k \in 0..rows : WeightBefore(k) \in Nat
         /\ \A k \in Rows :
              WeightBefore(k + 1) =
                IF ctx[k].rank = 0 THEN WeightBefore(k) + Weight(k) ELSE WeightBefore(k)
<1>1. rows \in Nat
  BY DEF Steady, Shape
<1>2. Shares \in [0..(rows - 1) -> Nat]
  <2>1. \A k \in Rows : Weight(k) \in Nat
    BY WeightsFit DEF Steady
  <2>. QED
    BY <2>1 DEF Shares, Rows
<1>3. /\ SumsOf(Shares, rows)[0] = 0
      /\ \A k \in 0..rows : SumsOf(Shares, rows)[k] \in Nat
      /\ \A k \in 0..(rows - 1) :
           SumsOf(Shares, rows)[k + 1] = SumsOf(Shares, rows)[k] + Shares[k]
  BY <1>1, <1>2, RunningSums
<1>4. \A k \in Rows : Shares[k] = IF ctx[k].rank = 0 THEN Weight(k) ELSE 0
  BY DEF Shares, Rows
<1>5. \A k \in Rows : k \in 0..rows /\ k \in 0..(rows - 1)
  BY <1>1 DEF Rows
<1>. QED
  BY <1>3, <1>4, <1>5 DEF WeightBefore

(* Without a row that can add to it the sum is zero; otherwise it is that  *)
(* of the last such row.                                                   *)
LEMMA LastShare ==
  ASSUME Steady, NEW k \in 0..rows
  PROVE  \/ WeightBefore(k) = 0 /\ \A i \in Unranked : i >= k
         \/ \E i \in Unranked : i < k /\ WeightBefore(i + 1) = WeightBefore(k)
<1>. DEFINE Last(m) ==
              \/ WeightBefore(m) = 0 /\ \A i \in Unranked : i >= m
              \/ \E i \in Unranked : i < m /\ WeightBefore(i + 1) = WeightBefore(m)
            P == {m \in Nat : Last(m)}
<1>1. rows \in Nat
  BY DEF Steady, Shape
<1>2. 0 \in P
  BY <1>1, ShareSums DEF Unranked, Rows
<1>3. ASSUME NEW m \in 0..rows, m # rows, m \in P PROVE m + 1 \in P
  <2>1. m \in Rows /\ m + 1 \in Nat
    BY <1>1, <1>3 DEF Rows
  <2>2. CASE ctx[m].rank = 0
    <3>1. m \in Unranked /\ m < m + 1
      BY <2>1, <2>2 DEF Unranked
    <3>. QED
      BY <2>1, <3>1
  <2>3. CASE ctx[m].rank # 0
    <3>1. WeightBefore(m + 1) = WeightBefore(m)
      BY <2>1, <2>3, ShareSums
    <3>2. \A i \in Unranked : i # m /\ i \in Int
      BY <1>1, <2>3 DEF Unranked, Rows
    <3>. QED
      BY <1>3, <2>1, <3>1, <3>2
  <2>. QED
    BY <2>2, <2>3
<1>4. k \in P
  <2>. HIDE DEF P
  <2>1. P \subseteq Nat
    BY DEF P
  <2>. QED
    BY <1>1, <1>2, <1>3, <2>1, UpTo
<1>. QED
  BY <1>4

(* Steps that give no rank leave the shares as they are. *)
LEMMA SameShares ==
  ASSUME rows' = rows, weights' = weights, \A i \in Rows : ctx'[i].rank = ctx[i].rank
  PROVE  /\ Unranked' = Unranked
         /\ \A i : WeightBefore(i)' = WeightBefore(i)
<1>1. Rows' = Rows /\ \A i : Weight(i)' = Weight(i)
  BY SamePartition
<1>2. Shares' = Shares
  BY <1>1 DEF Shares, Rows
<1>. QED
  BY <1>1, <1>2 DEF WeightBefore, Unranked

(* The sums stored with the rows without a rank; those of the rows passed  *)
(* over are below the number drawn.                                        *)
SharesInv ==
    SrvWeightsFit =>
        /\ srv = "sum" =>
            /\ sum = WeightBefore(row)
            /\ \A i \in Unranked : i < row => ctx[i].w_sum = WeightBefore(i + 1)
        /\ srv = "pick" =>
            /\ r \in Nat
            /\ \A i \in Unranked :
                /\ ctx[i].w_sum = WeightBefore(i + 1)
                /\ i < row => ctx[i].w_sum < r

LEMMA SharesStep ==
  ASSUME Steady, SharesInv, SrvNext
  PROVE  SharesInv'
<1>1. rows' = rows /\ weights' = weights
  BY DEF SrvNext, fill_weights, SumRow, Draw, SkipRow, RankRow, rank_dns_srv
<1>2. /\ rows \in Nat \ {0} /\ Rows \subseteq 0..(CtxSlots - 1)
      /\ row \in 0..rows /\ \A i \in Unranked : i \in Rows /\ i \in Nat /\ i < rows
      /\ DOMAIN ctx = 0..(CtxSlots - 1)
  BY RowsHaveSlots DEF Steady, Shape, Unranked, Rows
<1>3. /\ srv = "sum" =>
           /\ sum = WeightBefore(row)
           /\ \A i \in Unranked : i < row => ctx[i].w_sum = WeightBefore(i + 1)
      /\ srv = "pick" =>
           /\ r \in Nat
           /\ \A i \in Unranked :
                /\ ctx[i].w_sum = WeightBefore(i + 1)
                /\ i < row => ctx[i].w_sum < r
  BY DEF Steady, SharesInv
<1>4. CASE fill_weights
  <2>1. /\ srv = "call" /\ row' = row /\ sum' = sum /\ srv' \in {"sum", "srv_overrun"}
        /\ \A i \in Rows : ctx'[i].rank = ctx[i].rank
    <3>1. \A i \in Rows : ctx[i] \in Stat
      BY <1>2 DEF Steady, Shape
    <3>. QED
      BY <1>2, <1>4, <3>1 DEF fill_weights, Stat
  <2>2. row = 0 /\ sum = 0
    BY <2>1 DEF Steady, Fresh
  <2>3. Unranked' = Unranked /\ \A i : WeightBefore(i)' = WeightBefore(i)
    BY <1>1, <2>1, SameShares
  <2>4. WeightBefore(0) = 0
    BY ShareSums
  <2>. QED
    BY <1>2, <2>1, <2>2, <2>3, <2>4 DEF SharesInv
<1>5. CASE SumRow
  <2>1. srv = "sum" /\ srv' = "sum" /\ row < rows /\ row' = row + 1
    BY <1>5 DEF SumRow
  <2>2. row \in Rows
    BY <1>2, <2>1 DEF Rows
  <2>3. /\ \A i \in Rows : ctx'[i].rank = ctx[i].rank
        /\ \A i \in Rows : i # row => ctx'[i].w_sum = ctx[i].w_sum
        /\ ctx[row].rank = 0 => sum' = sum + Weight(row) /\ ctx'[row].w_sum = sum'
        /\ ctx[row].rank # 0 => sum' = sum
    <3>1. CASE ctx[row].rank = 0
      BY <1>2, <1>5, <2>2, <3>1, SumStored
    <3>2. CASE ctx[row].rank # 0
      BY <1>5, <3>2 DEF SumRow
    <3>. QED
      BY <3>1, <3>2
  <2>4. Unranked' = Unranked /\ \A i : WeightBefore(i)' = WeightBefore(i)
    BY <1>1, <2>3, SameShares
  <2>5. sum' = WeightBefore(row + 1)
    BY <1>3, <2>1, <2>2, <2>3, ShareSums
  <2>6. \A i \in Unranked : i < row + 1 => ctx'[i].w_sum = WeightBefore(i + 1)
    <3>. SUFFICES ASSUME NEW i \in Unranked, i < row + 1
                  PROVE  ctx'[i].w_sum = WeightBefore(i + 1)
      OBVIOUS
    <3>1. CASE i = row
      BY <2>3, <2>5, <3>1 DEF Unranked
    <3>2. CASE i # row
      BY <1>2, <1>3, <2>1, <2>3, <3>2
    <3>. QED
      BY <3>1, <3>2
  <2>. QED
    BY <2>1, <2>4, <2>5, <2>6 DEF SharesInv
<1>6. CASE Draw
  <2>1. srv = "sum" /\ row = rows /\ ctx' = ctx /\ sum' = sum
    BY <1>6 DEF Draw
  <2>2. sum \in Nat
    BY <2>1 DEF Steady, Shape, SumSoFar
  <2>3. srv' = "pick" /\ row' = 0 /\ r' \in Nat
    <3>1. Abs(sum + 1) = sum + 1 /\ sum + 1 # 0
      BY <2>2 DEF Abs
    <3>2. PICK random \in 0..RAND_MAX : r' = random % (sum + 1)
      BY <1>6, <3>1 DEF Draw
    <3>3. random \in Nat
      BY SrvAssumption
    <3>. QED
      BY <1>6, <2>2, <3>1, <3>2, <3>3 DEF Draw
  <2>4. Unranked' = Unranked /\ \A i : WeightBefore(i)' = WeightBefore(i)
    BY <1>1, <2>1, SameShares
  <2>5. \A i \in Unranked : ctx'[i].w_sum = WeightBefore(i + 1)
    BY <1>2, <1>3, <2>1
  <2>. QED
    BY <1>2, <2>3, <2>4, <2>5 DEF SharesInv
<1>7. CASE SkipRow
  <2>1. /\ srv = "pick" /\ srv' = "pick" /\ row < rows /\ row' = row + 1
        /\ ctx' = ctx /\ r' = r /\ ~Drawn
    BY <1>7 DEF SkipRow
  <2>2. Unranked' = Unranked /\ \A i : WeightBefore(i)' = WeightBefore(i)
    BY <1>1, <2>1, SameShares
  <2>3. row \in Unranked => ctx[row].w_sum < r
    <3>1. ctx[row].w_sum \in Int /\ r \in Int
      BY <1>2, <2>1 DEF Steady, Shape, Stat, Rows
    <3>. QED
      BY <2>1, <3>1 DEF Drawn, Unranked
  <2>4. \A i \in Unranked : i < row + 1 => i < row \/ i = row
    BY <1>2
  <2>. QED
    BY <1>3, <2>1, <2>2, <2>3, <2>4 DEF SharesInv
<1>8. CASE RankRow
  <2>1. row' = 0 /\ sum' = 0 /\ srv' # "pick"
    BY <1>8 DEF RankRow
  <2>2. SrvWeightsFit' => WeightBefore(0)' = 0
    <3>1. rows' \in Nat /\ Shares' \in [0..(rows' - 1) -> Nat]
      <4>1. \A k \in Rows : Weight(k) \in Nat
        BY WeightsFit DEF Steady
      <4>2. Rows' = Rows /\ \A k : Weight(k)' = Weight(k)
        BY <1>1, SamePartition
      <4>. QED
        BY <1>1, <1>2, <4>1, <4>2 DEF Shares, Rows
    <3>2. SumsOf(Shares', rows')[0] = 0
      BY <3>1, RunningSums
    <3>. QED
      BY <3>2 DEF WeightBefore
  <2>3. \A i \in Unranked' : i \in Nat
    BY <1>1, <1>2 DEF Unranked, Rows
  <2>. QED
    BY <2>1, <2>2, <2>3 DEF SharesInv
<1>9. CASE rank_dns_srv
  BY <1>9 DEF rank_dns_srv, SharesInv
<1>. QED
  BY <1>4, <1>5, <1>6, <1>7, <1>8, <1>9 DEF SrvNext

LEMMA SharesInvHolds == SrvSpec => []SharesInv
<1>1. SrvInit => SharesInv
  BY DEF SrvInit, SharesInv
<1>2. ASSUME RankInv, SharesInv, [SrvNext]_srvVars PROVE SharesInv'
  <2>1. CASE SrvNext
    <3>1. rows' = rows /\ weights' = weights
      BY <2>1 DEF SrvNext, fill_weights, SumRow, Draw, SkipRow, RankRow, rank_dns_srv
    <3>2. SrvWeightsFit' => Steady
      BY <1>2, <3>1, SamePartition DEF RankInv, Steady
    <3>. QED
      BY <1>2, <2>1, <3>2, SharesStep DEF SharesInv
  <2>2. CASE UNCHANGED srvVars
    <3>1. Unranked' = Unranked /\ \A i : WeightBefore(i)' = WeightBefore(i)
      BY <2>2, SameShares DEF srvVars
    <3>2. SrvWeightsFit' = SrvWeightsFit
      BY <2>2, SamePartition DEF srvVars
    <3>. QED
      BY <1>2, <2>2, <3>1, <3>2 DEF srvVars, SharesInv
  <2>. QED
    BY <1>2, <2>1, <2>2
<1>. QED
  BY <1>1, <1>2, RankInvHolds, PTL DEF SrvSpec

(* The row that gets the next rank is the one whose part of the sum over   *)
(* the rows left the number drawn falls into, for partitions and weights   *)
(* of any size that fit (f_sort_srv.c:31-55).                              *)
THEOREM RanksAreDrawnByWeight == SrvSpec => RowsDrawnByWeight
<1>. DEFINE ByWeight ==
              \A i \in 0..(rows - 1) :
                (SrvWeightsFit /\ ctx[i].rank = 0 /\ ctx'[i].rank # 0) =>
                    /\ r <= WeightBefore(i) + Weight(i)
                    /\ r = 0 \/ r > WeightBefore(i)
                    /\ r = 0 => \A j \in 0..(i - 1) : ctx[j].rank # 0
<1>1. ASSUME RankInv, SharesInv, [SrvNext]_srvVars PROVE [ByWeight]_srvVars
  <2>. SUFFICES ASSUME NEW i \in 0..(rows - 1), SrvWeightsFit,
                       ctx[i].rank = 0, ctx'[i].rank # 0
                PROVE  /\ r <= WeightBefore(i) + Weight(i)
                       /\ r = 0 \/ r > WeightBefore(i)
                       /\ r = 0 => \A j \in 0..(i - 1) : ctx[j].rank # 0
    OBVIOUS
  <2>1. Steady
    BY <1>1 DEF RankInv, Steady
  <2>2. /\ rows \in Nat \ {0} /\ Rows \subseteq 0..(CtxSlots - 1)
        /\ DOMAIN ctx = 0..(CtxSlots - 1) /\ i \in Rows /\ i \in Unranked
        /\ ctx[i] \in Stat
    BY <2>1, RowsHaveSlots DEF Steady, Shape, Rows, Unranked
  <2>3. RankRow
    <3>1. ~fill_weights
      BY <2>2 DEF fill_weights, Stat
    <3>2. ~SumRow
      <4>. SUFFICES ASSUME SumRow PROVE FALSE
        OBVIOUS
      <4>1. ctx[row].rank = 0
        BY DEF SumRow
      <4>. QED
        BY <2>1, <2>2, <4>1, SumStored
    <3>3. ~Draw /\ ~SkipRow /\ ~rank_dns_srv /\ ~UNCHANGED srvVars
      BY DEF Draw, SkipRow, rank_dns_srv, srvVars
    <3>. QED
      BY <1>1, <3>1, <3>2, <3>3 DEF SrvNext
  <2>4. srv = "pick" /\ i = row /\ ctx[row].w_sum >= r
    <3>1. srv = "pick" /\ (row < rows => Drawn)
      BY <2>3 DEF RankRow
    <3>2. i = row
      BY <2>2, <2>3 DEF RankRow
    <3>. QED
      BY <2>2, <3>1, <3>2 DEF Drawn, Rows
  <2>5. /\ r \in Nat /\ ctx[i].w_sum = WeightBefore(i + 1)
        /\ \A j \in Unranked : j < i => WeightBefore(j + 1) < r
    BY <1>1, <2>2, <2>4 DEF SharesInv
  <2>6. /\ WeightBefore(i + 1) = WeightBefore(i) + Weight(i)
        /\ \A k \in 0..rows : WeightBefore(k) \in Nat
    BY <2>1, <2>2, ShareSums
  <2>7. r = 0 \/ r > WeightBefore(i)
    <3>1. \/ WeightBefore(i) = 0
          \/ \E j \in Unranked : j < i /\ WeightBefore(j + 1) = WeightBefore(i)
      BY <2>1, <2>2, LastShare DEF Rows
    <3>. QED
      BY <2>5, <3>1
  <2>8. r = 0 => \A j \in 0..(i - 1) : ctx[j].rank # 0
    <3>. SUFFICES ASSUME NEW j \in 0..(i - 1), ctx[j].rank = 0, r = 0 PROVE FALSE
      OBVIOUS
    <3>1. j \in Unranked /\ j < i /\ j + 1 \in 0..rows
      BY <2>2 DEF Unranked, Rows
    <3>2. WeightBefore(j + 1) < 0 /\ WeightBefore(j + 1) \in Nat
      BY <2>5, <2>6, <3>1
    <3>. QED
      BY <3>2
  <2>. QED
    BY <2>4, <2>5, <2>6, <2>7, <2>8
<1>. QED
  BY <1>1, RankInvHolds, SharesInvHolds, PTL DEF SrvSpec, RowsDrawnByWeight
============================================================================

----------------------------- MODULE RankDnsSrv -----------------------------
(***************************************************************************)
(* rank_dns_srv(weight), f_sort_srv.c: a window function that ranks the    *)
(* rows of a partition in a weighted random order.  The call for the first *)
(* row draws the ranks of all of them, the others look theirs up.  One     *)
(* step is one turn of a loop.                                             *)
(***************************************************************************)
EXTENDS Integers, Sequences

CONSTANTS
    SrvWeights,     \* weights of rows
    NoWeight,       \* the SQL NULL among them
    Partitions,     \* sizes of partitions
    CTX_MAX_ROWS,   \* rows the context was meant for
    CtxSlots,       \* slots in its memory, whose size palloc rounds up
    INT_MAX,        \* largest int32
    RAND_MAX        \* largest value of rand_r

ASSUME SrvAssumption ==
    /\ SrvWeights \subseteq Int
    /\ NoWeight \notin SrvWeights
    /\ Partitions \subseteq Nat \ {0}
    /\ CTX_MAX_ROWS \in Nat /\ CtxSlots \in Nat /\ CTX_MAX_ROWS <= CtxSlots
    /\ INT_MAX \in Nat /\ RAND_MAX \in 0..INT_MAX

VARIABLES
    weights,    \* the argument in each row
    rows,       \* WinGetPartitionRowCount
    ctx,        \* partition-local memory: row_stat slots
    srv,        \* the loop the function is in
    row, sum, r, rank,
    answers     \* what the calls made so far returned, row by row

srvVars == <<weights, rows, ctx, srv, row, sum, r, rank, answers>>

Abs(n) == IF n < 0 THEN -n ELSE n

(* The assignment of a wider integer to an int32. *)
Int32(n) == ((n + INT_MAX + 1) % (2 * (INT_MAX + 1))) - (INT_MAX + 1)

Weight(i) == IF weights[i] = NoWeight THEN 0 ELSE weights[i]

SrvInit ==
    /\ rows \in Partitions
    /\ weights \in [0..(rows - 1) -> SrvWeights \union {NoWeight}]
    /\ ctx = [slot \in 0..(CtxSlots - 1) |-> [rank |-> 0, w |-> 0, w_sum |-> 0]]
    /\ srv = "call" /\ row = 0 /\ sum = 0 /\ r = 0 /\ rank = 0
    /\ answers = <<>>

(* The call for row 0 copies the weights.  Nothing cuts rows to            *)
(* CTX_MAX_ROWS, so a long partition writes beyond the memory.             *)
fill_weights ==
    /\ srv = "call"
    /\ IF rows <= CtxSlots
       THEN /\ ctx' = [slot \in DOMAIN ctx |->
                         IF slot < rows THEN [ctx[slot] EXCEPT !.w = Weight(slot)]
                         ELSE ctx[slot]]
            /\ srv' = "sum"
       ELSE srv' = "srv_overrun" /\ UNCHANGED ctx
    /\ UNCHANGED <<weights, rows, row, sum, r, rank, answers>>

(* Fault: rows that have a rank keep their share. *)
SumAllRows ==
    /\ srv = "sum" /\ row < rows
    /\ sum' = sum + ctx[row].w
    /\ ctx' = [ctx EXCEPT ![row].w_sum = Int32(sum')]
    /\ row' = row + 1
    /\ UNCHANGED <<weights, rows, srv, r, rank, answers>>

(* One row of the running sum over the rows without a rank. *)
SumRow ==
    /\ srv = "sum" /\ row < rows
    /\ IF ctx[row].rank # 0 THEN UNCHANGED <<sum, ctx>>
       ELSE /\ sum' = sum + ctx[row].w
            /\ ctx' = [ctx EXCEPT ![row].w_sum = Int32(sum')]
    /\ row' = row + 1
    /\ UNCHANGED <<weights, rows, srv, r, rank, answers>>

(* rand_r % (sum + 1): weights that sum up to -1 raise SIGFPE, which       *)
(* PostgreSQL turns into an ERROR.                                         *)
Draw ==
    /\ srv = "sum" /\ row = rows
    /\ IF sum + 1 = 0 THEN srv' = "srv_error" /\ UNCHANGED <<r, row>>
       ELSE /\ \E random \in 0..RAND_MAX : r' = random % Abs(sum + 1)
            /\ srv' = "pick" /\ row' = 0
    /\ UNCHANGED <<weights, rows, ctx, sum, rank, answers>>

(* Fault: a row is passed over when r falls on the end of its share. *)
DrawnAbove == ctx[row].rank = 0 /\ ctx[row].w_sum > r

Drawn == ctx[row].rank = 0 /\ ctx[row].w_sum >= r

SkipRow ==
    /\ srv = "pick" /\ row < rows /\ ~Drawn
    /\ row' = row + 1
    /\ UNCHANGED <<weights, rows, ctx, srv, sum, r, rank, answers>>

(* The rank goes to the row the loop stopped at, which is one past the     *)
(* last row if none was drawn.                                             *)
RankRow ==
    /\ srv = "pick" /\ (row < rows => Drawn)
    /\ IF row < CtxSlots
       THEN /\ ctx' = [ctx EXCEPT ![row].rank = rank + 1]
            /\ srv' = IF rank + 1 < rows THEN "sum" ELSE "answer"
       ELSE srv' = "srv_overrun" /\ UNCHANGED ctx
    /\ rank' = rank + 1 /\ row' = 0 /\ sum' = 0
    /\ UNCHANGED <<weights, rows, r, answers>>

(* The return of the call for the next row. *)
rank_dns_srv ==
    /\ srv = "answer" /\ Len(answers) < rows
    /\ answers' = Append(answers,
         IF Len(answers) >= CTX_MAX_ROWS THEN CTX_MAX_ROWS + 1
         ELSE ctx[Len(answers)].rank)
    /\ UNCHANGED <<weights, rows, ctx, srv, row, sum, r, rank>>

SrvNext ==
    \/ fill_weights \/ SumRow \/ Draw \/ SkipRow \/ RankRow \/ rank_dns_srv

SrvSpec == SrvInit /\ [][SrvNext]_srvVars

----------------------------------------------------------------------------
(* Weights as in SRV records: not negative, and no sum of them overflows.  *)
SrvWeightsFit ==
    /\ rows <= CTX_MAX_ROWS
    /\ \A i \in 0..(rows - 1) : Weight(i) >= 0 /\ Weight(i) * CTX_MAX_ROWS <= INT_MAX

(* Every row of a partition that fits gets a rank of its own, 1 to rows,   *)
(* whatever is drawn: each draw must find a row without a rank             *)
(* (f_sort_srv.c:46-55, 73-77).                                            *)
RanksComplete ==
    (SrvWeightsFit /\ Len(answers) = rows) =>
        \A n \in 1..rows : \E i \in 1..rows : answers[i] = n

(* What each row without a rank adds to the sum. *)
Shares == [j \in 0..(rows - 1) |-> IF ctx[j].rank = 0 THEN Weight(j) ELSE 0]

SumsOf(w, n) ==
    LET s[k \in 0..n] == IF k = 0 THEN 0 ELSE s[k - 1] + w[k - 1] IN s

(* The weights of the rows before row i that have no rank yet. *)
WeightBefore(i) == SumsOf(Shares, rows)[i]

(* The row that gets the next rank is the one whose part of the sum r      *)
(* falls into, so that its chance is its weight, and 0 falls to the first  *)
(* row without a rank (f_sort_srv.c:37-52).                                *)
RowsDrawnByWeight ==
    [][\A i \in 0..(rows - 1) :
        (SrvWeightsFit /\ ctx[i].rank = 0 /\ ctx'[i].rank # 0) =>
            /\ r <= WeightBefore(i) + Weight(i)
            /\ r = 0 \/ r > WeightBefore(i)
            /\ r = 0 => \A j \in 0..(i - 1) : ctx[j].rank # 0]_srvVars
============================================================================

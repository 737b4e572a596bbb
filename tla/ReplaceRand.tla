---------------------------- MODULE ReplaceRand ----------------------------
(***************************************************************************)
(* replace(in), replace_rand.c: every placeholder r(n) of a text becomes n *)
(* random digits.  A first loop finds the placeholders, a second one       *)
(* computes the length of the result, a third one copies the text.         *)
(* Positions count from 0, as in the code, and a number is one character   *)
(* here.                                                                   *)
(***************************************************************************)
EXTENDS Integers, Sequences, FiniteSetsExt

CONSTANTS
    RAND_START_1, RAND_START_2, RAND_END,   \* r, ( and )
    Chars,              \* the characters of texts, these three included
    Numbers,            \* those that sscanf reads as a number
    RandomDigit,        \* stands for any of the digits put in
    RandTexts,          \* the texts replace may be called with
    RAND_MAX_LEN,
    CACHE_SIZE_INC_START, CACHE_SIZE_INC_SCALE, CACHE_SIZE_INC_MAX

ASSUME RandAssumption ==
    /\ {RAND_START_1, RAND_START_2, RAND_END} \subseteq Chars
    /\ RAND_START_1 # RAND_START_2 /\ RAND_START_1 # RAND_END /\ RAND_START_2 # RAND_END
    /\ Numbers \subseteq Int
    /\ Numbers \subseteq Chars \ {RAND_START_1, RAND_START_2, RAND_END}
    /\ RandomDigit \notin Chars
    /\ RandTexts \subseteq Seq(Chars)
    /\ RAND_MAX_LEN \in Nat
    /\ CACHE_SIZE_INC_START \in Nat \ {0} /\ CACHE_SIZE_INC_SCALE \in Nat \ {0}
    /\ CACHE_SIZE_INC_MAX \in Nat \ {0}

RAND_START_LEN == 2
RAND_COMPLETED_MIN_LEN == 4

VARIABLES
    txt,                    \* in
    rr,                     \* where the function is
    p,
    c, c_size, c_size_inc,  \* the placeholders found; n = Len(c)
    ret_len,
    i,                      \* placeholders sized, then copied
    out                     \* what is written to ret

randVars == <<txt, rr, p, c, c_size, c_size_inc, ret_len, i, out>>

RandInit ==
    /\ txt \in RandTexts
    /\ rr = "scan" /\ p = 0
    /\ c = <<>> /\ c_size = 0 /\ c_size_inc = CACHE_SIZE_INC_START
    /\ ret_len = 0 /\ i = 0 /\ out = <<>>

s_end == Len(txt)
char(k) == txt[k + 1]

(* memchr from p, and from behind the bracket opened at k + 1. *)
StartsAhead == {k \in p..(s_end - 1) : char(k) = RAND_START_1}
EndsAfter(k) == {j \in (k + RAND_START_LEN)..(s_end - 1) : char(j) = RAND_END}
p2 == Min(StartsAhead)
p3 == Min(EndsAfter(p2))

Opened == StartsAhead # {} /\ p2 + RAND_COMPLETED_MIN_LEN <= s_end

ScanEnds ==
    /\ rr = "scan" /\ ~Opened
    /\ rr' = "scanned"
    /\ UNCHANGED <<txt, p, c, c_size, c_size_inc, ret_len, i, out>>

GoOnAt(k) ==
    /\ p' = k
    /\ rr' = IF k + RAND_COMPLETED_MIN_LEN > s_end THEN "scanned" ELSE "scan"

(* Fault: two characters are skipped for the one looked at. *)
SkipTwo ==
    /\ rr = "scan" /\ Opened
    /\ char(p2 + 1) # RAND_START_2 \/ EndsAfter(p2) = {}
    /\ GoOnAt(p2 + RAND_START_LEN)
    /\ UNCHANGED <<txt, c, c_size, c_size_inc, ret_len, i, out>>

(* No bracket after the r, or one that is never closed. *)
SkipStart ==
    /\ rr = "scan" /\ Opened
    /\ \/ char(p2 + 1) # RAND_START_2 /\ GoOnAt(p2 + 1)
       \/ char(p2 + 1) = RAND_START_2 /\ EndsAfter(p2) = {} /\ GoOnAt(p2 + RAND_START_LEN)
    /\ UNCHANGED <<txt, c, c_size, c_size_inc, ret_len, i, out>>

Bracket == Opened /\ char(p2 + 1) = RAND_START_2 /\ EndsAfter(p2) # {}

(* The brackets do not begin with a number: what is inside is passed over. *)
SkipBrackets ==
    /\ rr = "scan" /\ Bracket
    /\ char(p2 + RAND_START_LEN) \notin Numbers
    /\ p' = p3
    /\ UNCHANGED <<txt, rr, c, c_size, c_size_inc, ret_len, i, out>>

Clamped(value) == IF value < 0 THEN 0 ELSE IF value > RAND_MAX_LEN THEN RAND_MAX_LEN ELSE value

Placeholder ==
    [start |-> p2, end |-> p3, value |-> Clamped(char(p2 + RAND_START_LEN))]

(* realloc, once the cache is full. *)
GrowCache ==
    IF c_size > Len(c) THEN UNCHANGED <<c_size, c_size_inc>>
    ELSE /\ c_size' = c_size + c_size_inc
         /\ c_size_inc' = Min({c_size_inc * CACHE_SIZE_INC_SCALE, CACHE_SIZE_INC_MAX})

(* Fault: the scan goes on inside the placeholder. *)
FoundGoesOnInside ==
    /\ rr = "scan" /\ Bracket
    /\ char(p2 + RAND_START_LEN) \in Numbers
    /\ GrowCache
    /\ c' = Append(c, Placeholder)
    /\ p' = p2 + RAND_START_LEN
    /\ UNCHANGED <<txt, rr, ret_len, i, out>>

Found ==
    /\ rr = "scan" /\ Bracket
    /\ char(p2 + RAND_START_LEN) \in Numbers
    /\ GrowCache
    /\ c' = Append(c, Placeholder)
    /\ p' = p3
    /\ UNCHANGED <<txt, rr, ret_len, i, out>>

(* realloc fails: replace returns NULL. *)
NoMemory ==
    /\ rr = "scan" /\ Bracket
    /\ char(p2 + RAND_START_LEN) \in Numbers
    /\ c_size = Len(c)
    /\ rr' = "given_up"
    /\ UNCHANGED <<txt, p, c, c_size, c_size_inc, ret_len, i, out>>

(* Nothing to replace: ret is the argument itself. *)
NoPlaceholders ==
    /\ rr = "scanned" /\ c = <<>>
    /\ rr' = "replaced" /\ out' = txt /\ ret_len' = s_end
    /\ UNCHANGED <<txt, p, c, c_size, c_size_inc, i>>

Growth(k) == c[k].value - (c[k].end - c[k].start + 1)

StartSizing ==
    /\ rr = "scanned" /\ c # <<>>
    /\ rr' = "size" /\ ret_len' = s_end
    /\ UNCHANGED <<txt, p, c, c_size, c_size_inc, i, out>>

SizePlaceholder ==
    /\ rr = "size" /\ i < Len(c)
    /\ ret_len' = ret_len + Growth(i + 1)
    /\ i' = i + 1
    /\ UNCHANGED <<txt, rr, p, c, c_size, c_size_inc, out>>

Allocate ==
    /\ rr = "size" /\ i = Len(c)
    /\ rr' = "copy" /\ p' = 0 /\ i' = 0
    /\ UNCHANGED <<txt, c, c_size, c_size_inc, ret_len, out>>

(* Fault: the closing bracket is copied with the text that follows. *)
CopyPlaceholderKeepsEnd ==
    /\ rr = "copy" /\ i < Len(c)
    /\ out' = out \o SubSeq(txt, p + 1, c[i + 1].start)
                  \o [k \in 1..c[i + 1].value |-> RandomDigit]
    /\ p' = c[i + 1].end
    /\ i' = i + 1
    /\ UNCHANGED <<txt, rr, c, c_size, c_size_inc, ret_len>>

(* Fault: the text before the placeholder begins one character late. *)
CopyPlaceholderLate ==
    /\ rr = "copy" /\ i < Len(c)
    /\ out' = out \o SubSeq(txt, p + 2, c[i + 1].start)
                  \o [k \in 1..c[i + 1].value |-> RandomDigit]
    /\ p' = c[i + 1].end + 1
    /\ i' = i + 1
    /\ UNCHANGED <<txt, rr, c, c_size, c_size_inc, ret_len>>

(* The text before a placeholder, and its digits. *)
CopyPlaceholder ==
    /\ rr = "copy" /\ i < Len(c)
    /\ out' = out \o SubSeq(txt, p + 1, c[i + 1].start)
                  \o [k \in 1..c[i + 1].value |-> RandomDigit]
    /\ p' = c[i + 1].end + 1
    /\ i' = i + 1
    /\ UNCHANGED <<txt, rr, c, c_size, c_size_inc, ret_len>>

CopyTail ==
    /\ rr = "copy" /\ i = Len(c)
    /\ out' = out \o SubSeq(txt, p + 1, s_end)
    /\ rr' = "replaced"
    /\ UNCHANGED <<txt, p, c, c_size, c_size_inc, ret_len, i>>

(* The SQL function returns a copy of its argument instead of NULL. *)
replace_rand ==
    /\ rr \in {"replaced", "given_up"}
    /\ rr' = "rand_returned"
    /\ out' = IF rr = "given_up" THEN txt ELSE out
    /\ UNCHANGED <<txt, p, c, c_size, c_size_inc, ret_len, i>>

RandNext ==
    \/ ScanEnds \/ SkipStart \/ SkipBrackets \/ Found \/ NoMemory
    \/ NoPlaceholders \/ StartSizing \/ SizePlaceholder \/ Allocate
    \/ CopyPlaceholder \/ CopyTail \/ replace_rand

RandSpec == RandInit /\ [][RandNext]_randVars

----------------------------------------------------------------------------
(* The cache has room for its entries; they lie in the text, in order and  *)
(* apart, each from its r( to the first closing bracket: what the sizes    *)
(* and pointer differences of the other loops rest on                      *)
(* (replace_rand.c:60-112, 128-131).                                       *)
PlaceholdersApart ==
    /\ Len(c) <= c_size
    /\ \A k \in 1..Len(c) :
        /\ c[k].start + RAND_START_LEN < c[k].end /\ c[k].end < s_end
        /\ char(c[k].start) = RAND_START_1 /\ char(c[k].start + 1) = RAND_START_2
        /\ char(c[k].end) = RAND_END
        /\ \A j \in (c[k].start + RAND_START_LEN)..(c[k].end - 1) : char(j) # RAND_END
        /\ \A l \in 1..(k - 1) : c[l].end < c[k].start

(* The length computed from the placeholders is what the copies add up to, *)
(* so they never run beyond the buffer and leave no byte of it unset       *)
(* (replace_rand.c:125-158).                                               *)
BufferFilled ==
    /\ rr = "copy" => Len(out) <= ret_len
    /\ rr = "replaced" => Len(out) = ret_len

(* What the text is to become from each place on, where found are its      *)
(* placeholders.                                                           *)
PlaceholderAt(found, k) == CHOOSE l \in 1..Len(found) : found[l].start = k
ReplacedFrom(t, found) ==
    LET from[k \in 0..Len(t)] ==
        IF k = Len(t) THEN <<>>
        ELSE IF \E l \in 1..Len(found) : found[l].start = k
             THEN LET l == PlaceholderAt(found, k) IN
                  [j \in 1..found[l].value |-> RandomDigit] \o from[found[l].end + 1]
        ELSE <<t[k + 1]>> \o from[k + 1]
    IN from

(* Every placeholder becomes its digits where it stands, and the text      *)
(* outside of them comes out unchanged and in order                        *)
(* (replace_rand.c:149-162).                                               *)
ReplacedInPlace == rr = "replaced" => out = ReplacedFrom(txt, c)[0]

(* A placeholder is left in the text only inside the brackets of an        *)
(* earlier r( (replace_rand.c:60-89).                                      *)
NoneMissed ==
    rr \in {"scanned", "size", "copy", "replaced"} =>
        \A k \in 0..(s_end - RAND_COMPLETED_MIN_LEN) :
            \/ char(k) # RAND_START_1 \/ char(k + 1) # RAND_START_2
            \/ char(k + 2) \notin Numbers \/ EndsAfter(k) = {}
            \/ \E l \in 1..Len(c) : c[l].start = k
            \/ \E j \in 0..(k - 1) :
                char(j) = RAND_START_1 /\ char(j + 1) = RAND_START_2 /\ k < Min(EndsAfter(j))
============================================================================

---------------------------- MODULE ParserProofs ----------------------------
(***************************************************************************)
(* The parsers of datagrams and of endpoints, for every datagram and every *)
(* reply a server can lay out, and for endpoints of any length: nothing is *)
(* read out of bounds, and what was written is what is read, but for the   *)
(* error replies on whose layout the parser does not agree with itself.    *)
(***************************************************************************)
EXTENDS LnpWireCalls, UriCalls, SequenceTheorems, TLAPS

----------------------------------------------------------------------------
(* Datagrams. *)

(* The numbers in a datagram.  A size of four bytes needs no bound: it is  *)
(* compared with the length before it is used.                             *)
LEMMA DatagramFacts ==
    ASSUME NEW d \in Datagrams
    PROVE  d.len \in Nat /\ d.b5 \in Nat /\ d.b6 \in Nat /\ JsonSize(d) \in Int
<1>1. d \in [len : 0 .. MSG_SZ, b4 : Byte, b5 : Byte, b6 : Byte, b7 : Byte]
  BY DEF Datagrams
<1>2. /\ d.len \in 0 .. MSG_SZ
      /\ d.b4 \in Byte /\ d.b5 \in Byte /\ d.b6 \in Byte /\ d.b7 \in Byte
  BY <1>1
<1>3. d.len \in Nat /\ d.b4 \in Nat /\ d.b5 \in Nat /\ d.b6 \in Nat /\ d.b7 \in Nat
  <2>1. 0 .. MSG_SZ \subseteq Nat /\ Byte \subseteq Nat
    BY DEF MSG_SZ, Byte
  <2>. QED
    BY <1>2, <2>1
<1>4. 2^8 \in Nat /\ 2^16 \in Nat /\ 2^24 \in Nat
  BY SMT
<1>5. \A m, x \in Nat : m * x \in Nat
  BY SMT
<1>6. 2^8 * d.b5 \in Nat /\ 2^16 * d.b6 \in Nat /\ 2^24 * d.b7 \in Nat
  BY <1>3, <1>4, <1>5
<1>. QED
  BY <1>3, <1>6 DEF JsonSize

(* Whatever a datagram says of its own lengths, the parser of either type  *)
(* of request copies nothing from beyond its end                           *)
(* (resolver.c:425, 470, 488, 496).                                        *)
THEOREM ParsersReadInBounds ==
    ASSUME NEW type \in ReqTypes, NEW d \in Datagrams
    PROVE  ReadsInBounds(type, d)
<1>1. d.len \in Nat /\ d.b5 \in Nat /\ d.b6 \in Nat /\ JsonSize(d) \in Int
  BY DatagramFacts
<1>2. CASE d.len = CNFRM_RESPONSE_HDR_SIZE
  BY <1>2 DEF ReadsInBounds, parse_msg, Confirm, Verdict, CNFRM_RESPONSE_HDR_SIZE
<1>3. CASE d.len # CNFRM_RESPONSE_HDR_SIZE /\ type = TAGGED_REQ_VERSION
  <2>1. parse_msg(type, d) = parse_tagged_msg(d)
    BY <1>3 DEF parse_msg
  <2>3. CASE d.b4 # TAGGED_RESPONSE_CODE_SUCCESS
    BY <1>1, <2>1, <2>3 DEF ReadsInBounds, parse_tagged_msg, parse_tagged_error,
       Bad, Verdict, TAGGED_HDR_SIZE, TAGGED_ERR_RESPONSE_HDR_SIZE
  <2>4. CASE d.b4 = TAGGED_RESPONSE_CODE_SUCCESS
    <3>. DEFINE tag == (d.b5 - d.b6) % 2^8
    <3>1. CASE d.len < TAGGED_HDR_SIZE \/ d.b5 > d.len - TAGGED_HDR_SIZE \/ d.b6 > d.b5
      BY <2>1, <2>4, <3>1 DEF ReadsInBounds, parse_tagged_msg, parse_tagged_success,
         Bad, Verdict
    <3>2. CASE ~(d.len < TAGGED_HDR_SIZE \/ d.b5 > d.len - TAGGED_HDR_SIZE \/ d.b6 > d.b5)
      <4>1. parse_msg(type, d) = Verdict("answer", TAGGED_HDR_SIZE, d.b6, tag)
        BY <2>1, <2>4, <3>2 DEF parse_tagged_msg, parse_tagged_success
      <4>2. \A m \in Nat : m % 2^8 \in Nat /\ m % 2^8 <= m
        BY SMT
      <4>3. tag \in Nat /\ tag <= d.b5 - d.b6
        <5>1. d.b5 - d.b6 \in Nat
          BY <1>1, <3>2
        <5>. QED
          BY <4>2, <5>1
      <4>. HIDE DEF tag
      <4>4. TAGGED_HDR_SIZE + d.b6 + tag <= d.len
        BY <1>1, <3>2, <4>3 DEF TAGGED_HDR_SIZE
      <4>. QED
        BY <4>1, <4>4 DEF ReadsInBounds, Verdict
    <3>. QED
      BY <3>1, <3>2
  <2>. QED
    BY <2>3, <2>4
<1>4. CASE d.len # CNFRM_RESPONSE_HDR_SIZE /\ type = CNAM_REQ_VERSION
  <2>1. parse_msg(type, d) = parse_json_msg(d)
    BY <1>4 DEF parse_msg, TAGGED_REQ_VERSION, CNAM_REQ_VERSION
  <2>. DEFINE size == JsonSize(d)
  <2>2. size \in Int
    BY <1>1
  <2>3. parse_msg(type, d) =
          IF d.len < CNAM_RESPONSE_HDR_SIZE \/ size = 0 \/ size > d.len - CNAM_RESPONSE_HDR_SIZE
            THEN Bad ELSE Verdict("answer", CNAM_RESPONSE_HDR_SIZE, size, 0)
    BY <2>1 DEF parse_json_msg
  <2>. HIDE DEF size
  <2>. QED
    BY <1>1, <2>2, <2>3 DEF ReadsInBounds, Bad, Verdict, CNAM_RESPONSE_HDR_SIZE
<1>. QED
  BY <1>2, <1>3, <1>4 DEF ReqTypes

(* A reply is a datagram, and its parser's verdict is the one it calls for *)
(* unless it is an error reply that is misread.                            *)
ReplyUnderstood(x) ==
    /\ x.type \in ReqTypes /\ x.dgram \in Datagrams
    /\ SameAnswer(parse_msg(x.type, x.dgram), x.want) <=> ~Misread(x)

LEMMA ConfirmUnderstood ==
    ASSUME NEW t \in ReqTypes
    PROVE  ReplyUnderstood([type |-> t, dgram |-> EncodeConfirm, want |-> Confirm])
<1>1. /\ EncodeConfirm \in Datagrams
      /\ parse_msg(t, EncodeConfirm) = Confirm
  BY DEF EncodeConfirm, Datagrams, MSG_SZ, Byte, parse_msg, CNFRM_RESPONSE_HDR_SIZE
<1>. QED
  BY <1>1 DEF ReplyUnderstood, SameAnswer, Misread, Confirm, Verdict

LEMMA TaggedUnderstood ==
    ASSUME NEW lrn \in Texts, NEW tag \in Texts, lrn + tag < 2^8, NEW f \in TopBytes
    PROVE  ReplyUnderstood([type |-> TAGGED_REQ_VERSION, dgram |-> EncodeTagged(lrn, tag, f),
                            want |-> Verdict("answer", 7, lrn, tag)])
<1>. DEFINE dgram == EncodeTagged(lrn, tag, f)
<1>1. /\ lrn \in 0 .. 255 /\ tag \in 0 .. 255 /\ f \in 0 .. 255 /\ lrn + tag <= 255
  <2>1. 2^8 = 256
    BY SMT
  <2>. QED
    BY <2>1, WireAssumption DEF Byte
<1>2. /\ dgram.len = 7 + lrn + tag /\ dgram.b4 = 0 /\ dgram.b5 = lrn + tag /\ dgram.b6 = lrn
      /\ dgram.b7 = IF lrn + tag > 0 THEN f ELSE 0
  BY DEF EncodeTagged
<1>3. dgram \in Datagrams
  <2>1. dgram \in [len : 0 .. MSG_SZ, b4 : Byte, b5 : Byte, b6 : Byte, b7 : Byte]
    BY <1>1 DEF EncodeTagged, MSG_SZ, Byte
  <2>. HIDE DEF dgram
  <2>. QED
    BY <1>1, <1>2, <2>1 DEF Datagrams
<1>4. ((lrn + tag) - lrn) % 2^8 = tag
  <2>1. (lrn + tag) - lrn = tag
    BY <1>1
  <2>2. \A n \in 0 .. 255 : n % 2^8 = n
    BY SMT
  <2>. QED
    BY <1>1, <2>1, <2>2
<1>5. parse_msg(TAGGED_REQ_VERSION, dgram) = Verdict("answer", 7, lrn, tag)
  <2>. HIDE DEF dgram
  <2>1. parse_msg(TAGGED_REQ_VERSION, dgram) = parse_tagged_success(dgram)
    BY <1>1, <1>2 DEF parse_msg, parse_tagged_msg, CNFRM_RESPONSE_HDR_SIZE, TAGGED_HDR_SIZE,
       TAGGED_RESPONSE_CODE_SUCCESS
  <2>2. ~(dgram.b5 > dgram.len - TAGGED_HDR_SIZE \/ dgram.b6 > dgram.b5)
    BY <1>1, <1>2 DEF TAGGED_HDR_SIZE
  <2>. QED
    BY <1>2, <1>4, <2>1, <2>2 DEF parse_tagged_success, TAGGED_HDR_SIZE
<1>. QED
  BY <1>3, <1>5 DEF ReplyUnderstood, ReqTypes, SameAnswer, Misread, Verdict

(* Both layouts of an error are datagrams, as the parser of tagged replies *)
(* reads them.                                                             *)
LEMMA TaggedErrorUnderstood ==
    ASSUME NEW code \in Bytes \ {0}, NEW n \in Texts, NEW f \in TopBytes
    PROVE  ReplyUnderstood([type |-> TAGGED_REQ_VERSION,
                            dgram |-> EncodeTaggedError(code, n, f, f),
                            want |-> Verdict("remote", TAGGED_ERR_RESPONSE_HDR_SIZE, n, 0)])
<1>. DEFINE dgram == EncodeTaggedError(code, n, f, f)
            x == [type |-> TAGGED_REQ_VERSION, dgram |-> dgram,
                  want |-> Verdict("remote", TAGGED_ERR_RESPONSE_HDR_SIZE, n, 0)]
<1>1. code \in 1 .. 255 /\ n \in 0 .. 255 /\ f \in 0 .. 255
  BY WireAssumption DEF Byte
<1>2. /\ dgram.len = 6 + n /\ dgram.b4 = code /\ dgram.b5 = n
      /\ dgram.b6 = (IF n > 0 THEN f ELSE 0)
      /\ dgram.b7 = (IF n > 1 THEN f ELSE 0)
  BY DEF EncodeTaggedError
<1>3. dgram \in Datagrams
  <2>1. dgram \in [len : 0 .. MSG_SZ, b4 : Byte, b5 : Byte, b6 : Byte, b7 : Byte]
    BY <1>1 DEF EncodeTaggedError, MSG_SZ, Byte
  <2>. HIDE DEF dgram
  <2>. QED
    BY <1>1, <1>2, <2>1 DEF Datagrams
<1>4. Misread(x) <=> n = 0
  BY <1>1 DEF Misread, Verdict, TAGGED_ERR_RESPONSE_HDR_SIZE
<1>5. CASE n = 0
  <2>1. parse_msg(TAGGED_REQ_VERSION, dgram) = Bad
    <3>. HIDE DEF dgram
    <3>. QED
      BY <1>2, <1>5 DEF parse_msg, parse_tagged_msg, CNFRM_RESPONSE_HDR_SIZE, TAGGED_HDR_SIZE
  <2>2. ~SameAnswer(Bad, x.want)
    BY DEF SameAnswer, Bad, Verdict
  <2>. QED
    BY <1>3, <1>4, <1>5, <2>1, <2>2 DEF ReplyUnderstood, ReqTypes
<1>6. CASE n # 0
  <2>1. parse_msg(TAGGED_REQ_VERSION, dgram) = x.want
    <3>. HIDE DEF dgram
    <3>1. parse_msg(TAGGED_REQ_VERSION, dgram) = parse_tagged_error(dgram)
      BY <1>1, <1>2, <1>6 DEF parse_msg, parse_tagged_msg, CNFRM_RESPONSE_HDR_SIZE,
         TAGGED_HDR_SIZE, TAGGED_RESPONSE_CODE_SUCCESS
    <3>2. ~(dgram.b5 > dgram.len - TAGGED_ERR_RESPONSE_HDR_SIZE)
      BY <1>1, <1>2 DEF TAGGED_ERR_RESPONSE_HDR_SIZE
    <3>. QED
      BY <1>2, <3>1, <3>2 DEF parse_tagged_error
  <2>2. SameAnswer(x.want, x.want)
    BY DEF SameAnswer
  <2>. QED
    BY <1>3, <1>4, <1>6, <2>1, <2>2 DEF ReplyUnderstood, ReqTypes
<1>. QED
  BY <1>5, <1>6

LEMMA CommentedErrorUnderstood ==
    ASSUME NEW code \in Bytes \ {0}, NEW n \in Texts, NEW f \in TopBytes
    PROVE  ReplyUnderstood([type |-> TAGGED_REQ_VERSION,
                            dgram |-> EncodeErrorAsCommented(code, n, f),
                            want |-> Verdict("remote", TAGGED_HDR_SIZE, n, 0)])
<1>. DEFINE dgram == EncodeErrorAsCommented(code, n, f)
            x == [type |-> TAGGED_REQ_VERSION, dgram |-> dgram,
                  want |-> Verdict("remote", TAGGED_HDR_SIZE, n, 0)]
            read == Verdict("remote", TAGGED_ERR_RESPONSE_HDR_SIZE, n, 0)
<1>1. code \in 1 .. 255 /\ n \in 0 .. 255 /\ f \in 0 .. 255
  BY WireAssumption DEF Byte
<1>2. /\ dgram.len = 7 + n /\ dgram.b4 = code /\ dgram.b5 = n /\ dgram.b6 = 0
      /\ dgram.b7 = (IF n > 0 THEN f ELSE 0)
  BY DEF EncodeErrorAsCommented
<1>3. dgram \in Datagrams
  <2>1. dgram \in [len : 0 .. MSG_SZ, b4 : Byte, b5 : Byte, b6 : Byte, b7 : Byte]
    BY <1>1 DEF EncodeErrorAsCommented, MSG_SZ, Byte
  <2>. HIDE DEF dgram
  <2>. QED
    BY <1>1, <1>2, <2>1 DEF Datagrams
<1>4. parse_msg(TAGGED_REQ_VERSION, dgram) = read
  <2>. HIDE DEF dgram
  <2>1. parse_msg(TAGGED_REQ_VERSION, dgram) = parse_tagged_error(dgram)
    BY <1>1, <1>2 DEF parse_msg, parse_tagged_msg, CNFRM_RESPONSE_HDR_SIZE,
       TAGGED_HDR_SIZE, TAGGED_RESPONSE_CODE_SUCCESS
  <2>2. ~(dgram.b5 > dgram.len - TAGGED_ERR_RESPONSE_HDR_SIZE)
    BY <1>1, <1>2 DEF TAGGED_ERR_RESPONSE_HDR_SIZE
  <2>. QED
    BY <1>2, <2>1, <2>2 DEF parse_tagged_error
<1>5. Misread(x) <=> n > 0
  BY DEF Misread, Verdict, TAGGED_HDR_SIZE, TAGGED_ERR_RESPONSE_HDR_SIZE
<1>6. SameAnswer(read, x.want) <=> ~(n > 0)
  BY <1>1 DEF SameAnswer, Verdict, TAGGED_HDR_SIZE, TAGGED_ERR_RESPONSE_HDR_SIZE
<1>. QED
  BY <1>3, <1>4, <1>5, <1>6 DEF ReplyUnderstood, ReqTypes

(* The bytes of a size make up the size again. *)
LEMMA SizeOfJson ==
    ASSUME NEW n \in 1 .. 2040
    PROVE  /\ JsonSize(EncodeJson(n)) = n
           /\ n % 2^8 \in 0 .. 255 /\ (n \div 2^8) % 2^8 \in 0 .. 255
           /\ (n \div 2^16) % 2^8 = 0 /\ n \div 2^24 = 0
<1>1. 2^8 = 256 /\ 2^16 = 65536 /\ 2^24 = 16777216
  BY SMT
<1>2. /\ n % 256 \in 0 .. 255 /\ (n \div 256) % 256 \in 0 .. 255
      /\ (n \div 65536) % 256 = 0 /\ n \div 16777216 = 0
      /\ (n % 256) + 256 * ((n \div 256) % 256) = n
  BY SMT
<1>. QED
  BY <1>1, <1>2 DEF JsonSize, EncodeJson

LEMMA JsonUnderstood ==
    ASSUME NEW n \in JsonTexts
    PROVE  ReplyUnderstood([type |-> CNAM_REQ_VERSION, dgram |-> EncodeJson(n),
                            want |-> Verdict("answer", 8, n, 0)])
<1>. DEFINE dgram == EncodeJson(n)
<1>1. n \in 1 .. 2040
  BY WireAssumption DEF MSG_SZ, CNAM_RESPONSE_HDR_SIZE
<1>2. /\ dgram.len = 8 + n
      /\ dgram.b4 = n % 2^8 /\ dgram.b5 = (n \div 2^8) % 2^8
      /\ dgram.b6 = (n \div 2^16) % 2^8 /\ dgram.b7 = n \div 2^24
  BY DEF EncodeJson
<1>3. dgram \in Datagrams
  <2>1. dgram \in [len : 0 .. MSG_SZ, b4 : Byte, b5 : Byte, b6 : Byte, b7 : Byte]
    <3>. DEFINE b4 == n % 2^8
                b5 == (n \div 2^8) % 2^8
                b6 == (n \div 2^16) % 2^8
                b7 == n \div 2^24
    <3>1. b4 \in 0 .. 255 /\ b5 \in 0 .. 255 /\ b6 = 0 /\ b7 = 0
      BY <1>1, SizeOfJson
    <3>2. dgram = [len |-> 8 + n, b4 |-> b4, b5 |-> b5, b6 |-> b6, b7 |-> b7]
      BY DEF EncodeJson
    <3>. HIDE DEF dgram, b4, b5, b6, b7
    <3>. QED
      BY <1>1, <3>1, <3>2 DEF MSG_SZ, Byte
  <2>. HIDE DEF dgram
  <2>. QED
    BY <1>1, <1>2, <2>1 DEF Datagrams
<1>4. parse_msg(CNAM_REQ_VERSION, dgram) = Verdict("answer", 8, n, 0)
  <2>1. JsonSize(dgram) = n
    BY <1>1, SizeOfJson
  <2>. HIDE DEF dgram
  <2>2. parse_msg(CNAM_REQ_VERSION, dgram) = parse_json_msg(dgram)
    BY <1>1, <1>2 DEF parse_msg, CNFRM_RESPONSE_HDR_SIZE, TAGGED_REQ_VERSION, CNAM_REQ_VERSION
  <2>. QED
    BY <1>1, <1>2, <2>1, <2>2 DEF parse_json_msg, CNAM_RESPONSE_HDR_SIZE
<1>. QED
  BY <1>3, <1>4 DEF ReplyUnderstood, ReqTypes, SameAnswer, Misread, Verdict

LEMMA AllUnderstood == \A x \in Replies : ReplyUnderstood(x)
<1>. SUFFICES ASSUME NEW x \in Replies PROVE ReplyUnderstood(x)
  OBVIOUS
<1>1. CASE \E t \in ReqTypes : x = [type |-> t, dgram |-> EncodeConfirm, want |-> Confirm]
  BY <1>1, ConfirmUnderstood
<1>2. CASE \E y \in {z \in Texts \X Texts : z[1] + z[2] < 2^8}, f \in TopBytes :
             x = [type |-> TAGGED_REQ_VERSION, dgram |-> EncodeTagged(y[1], y[2], f),
                  want |-> Verdict("answer", 7, y[1], y[2])]
  BY <1>2, TaggedUnderstood
<1>3. CASE \E code \in Bytes \ {0}, n \in Texts, f \in TopBytes :
             x = [type |-> TAGGED_REQ_VERSION, dgram |-> EncodeTaggedError(code, n, f, f),
                  want |-> Verdict("remote", TAGGED_ERR_RESPONSE_HDR_SIZE, n, 0)]
  BY <1>3, TaggedErrorUnderstood
<1>5. CASE \E code \in Bytes \ {0}, n \in Texts, f \in TopBytes :
             x = [type |-> TAGGED_REQ_VERSION, dgram |-> EncodeErrorAsCommented(code, n, f),
                  want |-> Verdict("remote", TAGGED_HDR_SIZE, n, 0)]
  BY <1>5, CommentedErrorUnderstood
<1>4. CASE \E n \in JsonTexts :
             x = [type |-> CNAM_REQ_VERSION, dgram |-> EncodeJson(n),
                  want |-> Verdict("answer", 8, n, 0)]
  BY <1>4, JsonUnderstood
<1>. QED
  BY <1>1, <1>2, <1>3, <1>4, <1>5 DEF Replies

(* A verdict is on the datagram that was received. *)
WireInv ==
    /\ case \in Replies \union Arbitrary
    /\ verdict # None => verdict = parse_msg(case.type, case.dgram)

LEMMA WireInvariance == WireSpec => []WireInv
<1>1. WireInit => WireInv
  BY DEF WireInit, WireInv
<1>2. WireInv /\ [WireNext]_wireVars => WireInv'
  BY DEF WireInv, WireNext, Send, Receive, wireVars
<1>. QED
  BY <1>1, <1>2, PTL DEF WireSpec

(* One call after another, whatever arrives, no parser copies bytes from   *)
(* beyond the datagram (resolver.c:425, 470, 488, 496).                    *)
THEOREM DatagramsParsedInBounds == WireSpec => []ParseInBounds
<1>1. WireInv => ParseInBounds
  <2>1. \A x \in Replies \union Arbitrary : x.type \in ReqTypes /\ x.dgram \in Datagrams
    BY AllUnderstood DEF ReplyUnderstood, Arbitrary
  <2>. QED
    BY <2>1, ParsersReadInBounds DEF WireInv, ParseInBounds
<1>. QED
  BY <1>1, WireInvariance, PTL

(* Every reply, whatever lengths it carries, is understood as it is meant, *)
(* but for the error replies without a text in the layout the code reads   *)
(* and those with one in the layout of the comment, which never are        *)
(* (resolver.c:386-388, 405-409, 446-519).                                 *)
THEOREM RepliesAreUnderstood == WireSpec => []RoundTrip
<1>1. WireInv => RoundTrip
  <2>1. \A x \in Arbitrary : x.want = None
    BY DEF Arbitrary
  <2>. QED
    BY <2>1, AllUnderstood DEF WireInv, RoundTrip, ReplyUnderstood
<1>. QED
  BY <1>1, WireInvariance, PTL

(* The length field of a request tells the length of its data exactly if   *)
(* the data of a tagged request are shorter than 256 bytes                 *)
(* (resolver.c:309-315): the case of lnp_request_length is the only one.   *)
THEOREM LengthFieldTold ==
    WireSpec => [](prepared # None =>
        (prepared.size = request.size
            <=> request.type = CNAM_REQ_VERSION \/ request.size < 2^8))
<1>. DEFINE Told == prepared # None =>
               (prepared.size = request.size
                   <=> request.type = CNAM_REQ_VERSION \/ request.size < 2^8)
            Inv == request \in [type : ReqTypes, size : Sizes]
                   /\ (prepared # None => prepared = prepare_msg(request.type, request.size))
<1>1. WireInit => Inv
  BY DEF WireInit
<1>2. Inv /\ [WireNext]_wireVars => Inv'
  BY DEF WireNext, Send, Receive, wireVars
<1>3. Inv => Told
  <2>. SUFFICES ASSUME Inv, prepared # None
                PROVE  prepared.size = request.size
                         <=> request.type = CNAM_REQ_VERSION \/ request.size < 2^8
    OBVIOUS
  <2>1. request.type \in ReqTypes /\ request.size \in Nat
    BY WireAssumption
  <2>2. prepared.size = LengthField(request.type, request.size)
    BY DEF prepare_msg
  <2>3. \A n \in Nat : n % 2^8 = n <=> n < 2^8
    <3>1. 2^8 = 256
      BY SMT
    <3>2. \A n \in Nat : n % 256 = n <=> n < 256
      BY SMT
    <3>. QED
      BY <3>1, <3>2
  <2>. QED
    BY <2>1, <2>2, <2>3 DEF LengthField, ReqTypes, TAGGED_REQ_VERSION, CNAM_REQ_VERSION
<1>. HIDE DEF Told, Inv
<1>4. WireSpec => []Told
  BY <1>1, <1>2, <1>3, PTL DEF WireSpec
<1>. QED
  BY <1>4 DEF Told
----------------------------------------------------------------------------
(* Endpoints. *)

AnyChar == UriChars \union {Colon, Slash}
Text == Seq(AnyChar)

(* The first of some places. *)
LEMMA FirstPlace ==
    ASSUME NEW S \in SUBSET Nat, NEW m \in S, \A k \in S : m <= k
    PROVE  Min(S) = m
<1>1. \A x \in S : (\A k \in S : x <= k) => x = m
  <2>. TAKE x \in S
  <2>1. x \in Nat /\ m \in Nat
    OBVIOUS
  <2>. QED
    BY <2>1
<1>. QED
  BY <1>1 DEF Min

LEMMA Associative ==
    ASSUME NEW s \in Text, NEW t \in Text, NEW u \in Text
    PROVE  (s \o t) \o u = s \o (t \o u)
BY ConcatAssociative DEF Text

(* Where two texts that stand one behind the other are found again. *)
LEMMA PartsOfConcat ==
    ASSUME NEW s \in Text, NEW t \in Text
    PROVE  /\ s \o t \in Text /\ Len(s \o t) = Len(s) + Len(t)
           /\ SubSeq(s \o t, 1, Len(s)) = s
           /\ SubSeq(s \o t, Len(s) + 1, Len(s \o t)) = t
<1>1. /\ s \o t \in Text /\ Len(s \o t) = Len(s) + Len(t)
      /\ \A i \in 1 .. Len(s) + Len(t) :
            (s \o t)[i] = IF i <= Len(s) THEN s[i] ELSE t[i - Len(s)]
  BY ConcatProperties DEF Text
<1>2. Len(s) \in Nat /\ Len(t) \in Nat
  BY DEF Text
<1>3. SubSeq(s \o t, 1, Len(s)) = s
  <2>. DEFINE u == SubSeq(s \o t, 1, Len(s))
  <2>1. \A i \in 1 .. Len(s) : (s \o t)[i] = s[i] /\ (s \o t)[i] \in AnyChar
    BY <1>1, <1>2 DEF Text
  <2>2. /\ u \in Seq(AnyChar) /\ Len(u) = Len(s)
        /\ \A i \in 1 .. Len(s) : u[i] = (s \o t)[i]
    BY <1>2, <2>1
  <2>. HIDE DEF u
  <2>. QED
    BY <2>1, <2>2, SeqEqual DEF Text, u
<1>4. SubSeq(s \o t, Len(s) + 1, Len(s) + Len(t)) = t
  <2>. DEFINE u == SubSeq(s \o t, Len(s) + 1, Len(s) + Len(t))
  <2>1. \A i \in 1 .. Len(t) : (s \o t)[Len(s) + i] = t[i] /\ t[i] \in AnyChar
    BY <1>1, <1>2 DEF Text
  <2>2. /\ u \in Seq(AnyChar) /\ Len(u) = Len(t)
        /\ \A i \in 1 .. Len(t) : u[i] = (s \o t)[Len(s) + i]
    <3>1. \A i \in Len(s) + 1 .. Len(s) + Len(t) : (s \o t)[i] \in AnyChar
      BY <1>1, <1>2 DEF Text
    <3>. QED
      BY <1>2, <3>1
  <2>. HIDE DEF u
  <2>. QED
    BY <2>1, <2>2, SeqEqual DEF Text, u
<1>. QED
  BY <1>1, <1>3, <1>4

(* Where a colon and where "://" stand in a text. *)
LEMMA ColonPlaces ==
    ASSUME NEW s \in Text
    PROVE  Places(s, <<Colon>>) = {k \in 1 .. Len(s) : s[k] = Colon}
<1>1. Len(s) \in Nat /\ Len(<<Colon>>) = 1
  BY DEF Text
<1>2. ASSUME NEW k \in 1 .. Len(s)
      PROVE  SubSeq(s, k, k + 1 - 1) = <<Colon>> <=> s[k] = Colon
  <2>1. SubSeq(s, k, k) = <<s[k]>>
    <3>1. \A i \in k .. k : s[i] \in AnyChar
      BY <1>1 DEF Text
    <3>2. /\ SubSeq(s, k, k) \in Seq(AnyChar) /\ Len(SubSeq(s, k, k)) = 1
          /\ SubSeq(s, k, k)[1] = s[k]
      BY <1>1, <3>1
    <3>3. <<s[k]>> \in Seq(AnyChar) /\ Len(<<s[k]>>) = 1 /\ <<s[k]>>[1] = s[k]
      BY <1>1, <3>1
    <3>4. \A i \in 1 .. 1 : SubSeq(s, k, k)[i] = <<s[k]>>[i]
      BY <3>2, <3>3
    <3>. QED
      BY <3>2, <3>3, <3>4, SeqEqual
  <2>2. k + 1 - 1 = k
    BY <1>1
  <2>. QED
    BY <2>1, <2>2
<1>. QED
  BY <1>1, <1>2 DEF Places

LEMMA SchemePlaces ==
    ASSUME NEW s \in Text
    PROVE  Places(s, <<Colon, Slash, Slash>>) =
             {k \in 1 .. Len(s) - 2 : s[k] = Colon /\ s[k + 1] = Slash /\ s[k + 2] = Slash}
<1>1. Len(s) \in Nat /\ Len(<<Colon, Slash, Slash>>) = 3
  BY DEF Text
<1>2. ASSUME NEW k \in 1 .. Len(s) - 2
      PROVE  SubSeq(s, k, k + 3 - 1) = <<Colon, Slash, Slash>>
               <=> s[k] = Colon /\ s[k + 1] = Slash /\ s[k + 2] = Slash
  <2>1. SubSeq(s, k, k + 2) = <<s[k], s[k + 1], s[k + 2]>>
    <3>1. \A i \in k .. k + 2 : s[i] \in AnyChar
      BY <1>1 DEF Text
    <3>2. /\ SubSeq(s, k, k + 2) \in Seq(AnyChar) /\ Len(SubSeq(s, k, k + 2)) = 3
          /\ \A i \in 1 .. 3 : SubSeq(s, k, k + 2)[i] = s[k + i - 1]
      BY <1>1, <3>1
    <3>. DEFINE u == SubSeq(s, k, k + 2)
                v == <<s[k], s[k + 1], s[k + 2]>>
    <3>3. v \in Seq(AnyChar) /\ Len(v) = 3 /\ v[1] = s[k] /\ v[2] = s[k + 1] /\ v[3] = s[k + 2]
      BY <1>1, <3>1
    <3>4. u[1] = s[k] /\ u[2] = s[k + 1] /\ u[3] = s[k + 2]
      <4>1. u[1] = s[k + 1 - 1] /\ u[2] = s[k + 2 - 1] /\ u[3] = s[k + 3 - 1]
        BY <3>2
      <4>2. k + 1 - 1 = k /\ k + 2 - 1 = k + 1 /\ k + 3 - 1 = k + 2
        BY <1>1
      <4>. QED
        BY <4>1, <4>2
    <3>. HIDE DEF u, v
    <3>5. \A i \in 1 .. 3 : i = 1 \/ i = 2 \/ i = 3
      OBVIOUS
    <3>6. \A i \in 1 .. Len(u) : u[i] = v[i]
      BY <3>2, <3>3, <3>4, <3>5 DEF u
    <3>7. u \in Seq(AnyChar) /\ Len(u) = 3
      BY <3>2 DEF u
    <3>8. u = v
      BY <3>3, <3>6, <3>7, SeqEqual
    <3>. QED
      BY <3>8 DEF u, v
  <2>2. k + 3 - 1 = k + 2
    BY <1>1
  <2>. QED
    BY <2>1, <2>2
<1>3. Len(s) - 3 + 1 = Len(s) - 2
  BY <1>1
<1>. QED
  BY <1>1, <1>2, <1>3 DEF Places

(* A host up to the first colon, and the port behind it. *)
LEMMA HostAndPort ==
    ASSUME NEW h \in Seq(UriChars \ {Colon}), NEW t \in Text
    PROVE  LET rest == h \o (<<Colon>> \o t)
               colons == Places(rest, <<Colon>>)
           IN  /\ rest \in Text /\ colons # {} /\ Min(colons) = Len(h) + 1
               /\ Before(rest, Min(colons)) = h /\ Behind(rest, Min(colons)) = t
<1>. DEFINE tail == <<Colon>> \o t
            rest == h \o tail
            colons == Places(rest, <<Colon>>)
<1>1. h \in Text /\ <<Colon>> \in Text /\ Len(<<Colon>>) = 1
  BY DEF Text, AnyChar
<1>2. tail \in Text /\ Len(tail) = 1 + Len(t) /\ tail[1] = Colon
  BY <1>1, PartsOfConcat DEF Text
<1>. HIDE DEF tail
<1>4. /\ rest \in Text /\ Len(rest) = Len(h) + Len(tail)
      /\ SubSeq(rest, 1, Len(h)) = h /\ SubSeq(rest, Len(h) + 1, Len(rest)) = tail
  BY <1>1, <1>2, PartsOfConcat
<1>5. /\ Len(h) \in Nat /\ Len(t) \in Nat
      /\ \A i \in 1 .. Len(h) : rest[i] = h[i] /\ h[i] # Colon
      /\ rest[Len(h) + 1] = Colon
  BY <1>1, <1>2, ConcatProperties DEF Text
<1>6. Min(colons) = Len(h) + 1 /\ colons # {}
  <2>1. colons = {k \in 1 .. Len(rest) : rest[k] = Colon}
    BY <1>4, ColonPlaces
  <2>. HIDE DEF rest, colons
  <2>2. Len(h) + 1 \in colons /\ colons \in SUBSET Nat
    BY <1>2, <1>4, <1>5, <2>1
  <2>3. \A k \in colons : Len(h) + 1 <= k
    BY <1>2, <1>4, <1>5, <2>1
  <2>. QED
    BY <2>2, <2>3, FirstPlace
<1>7. Before(rest, Len(h) + 1) = h
  BY <1>4, <1>5 DEF Before
<1>8. Behind(rest, Len(h) + 1) = t
  <2>1. (h \o <<Colon>>) \o t = h \o (<<Colon>> \o t)
    BY <1>1, ConcatAssociative DEF Text
  <2>2. h \o <<Colon>> \in Text /\ Len(h \o <<Colon>>) = Len(h) + 1
    BY <1>1, PartsOfConcat
  <2>. DEFINE head == h \o <<Colon>>
  <2>3. SubSeq(head \o t, Len(head) + 1, Len(head \o t)) = t
    BY <2>2, PartsOfConcat
  <2>. QED
    BY <2>1, <2>2, <2>3 DEF Behind, tail
<1>. QED
  BY <1>4, <1>6, <1>7, <1>8 DEF tail

(* A scheme up to the first "://", and what follows. *)
LEMMA SchemeAndRest ==
    ASSUME NEW h \in Seq(UriChars \ {Colon}), NEW t \in Text
    PROVE  LET addr == h \o (<<Colon, Slash, Slash>> \o t)
               schemes == Places(addr, <<Colon, Slash, Slash>>)
           IN  /\ schemes # {} /\ Min(schemes) = Len(h) + 1
               /\ Before(addr, Min(schemes)) = h /\ Behind(addr, Min(schemes) + 2) = t
<1>. DEFINE mark == <<Colon, Slash, Slash>>
            tail == mark \o t
            addr == h \o tail
            schemes == Places(addr, mark)
<1>1. h \in Text /\ mark \in Text /\ Len(mark) = 3
  BY DEF Text, AnyChar
<1>2. /\ tail \in Text /\ Len(tail) = 3 + Len(t)
      /\ tail[1] = Colon /\ tail[2] = Slash /\ tail[3] = Slash
  <2>1. /\ tail \in Text /\ Len(tail) = 3 + Len(t)
        /\ \A i \in 1 .. 3 + Len(t) : tail[i] = IF i <= 3 THEN mark[i] ELSE t[i - 3]
    BY <1>1, ConcatProperties DEF Text
  <2>2. Len(t) \in Nat
    BY DEF Text
  <2>3. mark[1] = Colon /\ mark[2] = Slash /\ mark[3] = Slash
    OBVIOUS
  <2>. HIDE DEF mark
  <2>. QED
    BY <2>1, <2>2, <2>3
<1>3. Behind(addr, Len(h) + 3) = t
  <2>. HIDE DEF mark
  <2>1. (h \o mark) \o t = h \o (mark \o t)
    BY <1>1, ConcatAssociative DEF Text
  <2>2. h \o mark \in Text /\ Len(h \o mark) = Len(h) + 3
    BY <1>1, PartsOfConcat
  <2>. DEFINE head == h \o mark
  <2>3. SubSeq(head \o t, Len(head) + 1, Len(head \o t)) = t
    BY <2>2, PartsOfConcat
  <2>. QED
    BY <2>1, <2>2, <2>3 DEF Behind
<1>. HIDE DEF tail
<1>4. /\ addr \in Text /\ Len(addr) = Len(h) + Len(tail)
      /\ SubSeq(addr, 1, Len(h)) = h
  BY <1>1, <1>2, PartsOfConcat
<1>5. /\ Len(h) \in Nat /\ Len(t) \in Nat
      /\ \A i \in 1 .. Len(h) : addr[i] = h[i] /\ h[i] # Colon
      /\ \A i \in 1 .. Len(tail) : addr[Len(h) + i] = tail[i]
  BY <1>1, <1>2, ConcatProperties DEF Text
<1>6. schemes # {} /\ Min(schemes) = Len(h) + 1
  <2>1. schemes = {k \in 1 .. Len(addr) - 2 :
                     addr[k] = Colon /\ addr[k + 1] = Slash /\ addr[k + 2] = Slash}
    BY <1>4, SchemePlaces
  <2>. HIDE DEF addr, schemes
  <2>2. addr[Len(h) + 1] = Colon /\ addr[Len(h) + 2] = Slash /\ addr[Len(h) + 3] = Slash
    BY <1>2, <1>5
  <2>3. Len(h) + 1 + 1 = Len(h) + 2 /\ Len(h) + 1 + 2 = Len(h) + 3
    BY <1>5
  <2>4. Len(h) + 1 \in 1 .. Len(addr) - 2 /\ Len(addr) \in Nat
    BY <1>2, <1>4, <1>5
  <2>5. Len(h) + 1 \in schemes /\ schemes \in SUBSET Nat
    BY <2>1, <2>2, <2>3, <2>4
  <2>6. \A k \in schemes : Len(h) + 1 <= k
    BY <1>5, <2>1, <2>4
  <2>. QED
    BY <2>5, <2>6, FirstPlace
<1>7. Before(addr, Len(h) + 1) = h
  BY <1>4, <1>5 DEF Before
<1>8. (Len(h) + 1) + 2 = Len(h) + 3
  BY <1>5
<1>. QED
  BY <1>3, <1>6, <1>7, <1>8 DEF tail

(* What follows the scheme, and an endpoint without one: no "://" in it    *)
(* if the port has no slash.                                               *)
HostPart(parts) ==
    parts.host \o (IF parts.port = NoPart THEN <<>> ELSE <<Colon>> \o parts.port)

LEMMA NoScheme ==
    ASSUME NEW h \in Seq(UriChars \ {Colon}), NEW t,
           t = <<>> \/ \E port \in Seq(UriChars \ {Slash}) : t = <<Colon>> \o port
    PROVE  Places(h \o t, <<Colon, Slash, Slash>>) = {}
<1>. DEFINE addr == h \o t
<1>1. h \in Text /\ Len(h) \in Nat
  BY DEF Text, AnyChar
<1>2. /\ t \in Text /\ Len(t) \in Nat
      /\ \A i \in 2 .. Len(t) : t[i] # Slash
  <2>1. CASE t = <<>>
    BY <2>1 DEF Text
  <2>2. CASE t # <<>>
    <3>1. PICK port \in Seq(UriChars \ {Slash}) : t = <<Colon>> \o port
      BY <2>2
    <3>2. <<Colon>> \in Text /\ port \in Text /\ Len(port) \in Nat /\ Len(<<Colon>>) = 1
      BY DEF Text, AnyChar
    <3>3. t \in Text /\ Len(t) = 1 + Len(port)
      BY <3>1, <3>2, PartsOfConcat
    <3>4. \A i \in 2 .. Len(t) : t[i] = port[i - 1] /\ i - 1 \in 1 .. Len(port)
      BY <3>1, <3>2, <3>3, ConcatProperties DEF Text
    <3>5. \A i \in 1 .. Len(port) : port[i] # Slash
      OBVIOUS
    <3>. QED
      BY <3>2, <3>3, <3>4, <3>5
  <2>. QED
    BY <2>1, <2>2
<1>3. /\ addr \in Text /\ Len(addr) = Len(h) + Len(t)
      /\ \A i \in 1 .. Len(h) : addr[i] = h[i] /\ h[i] # Colon
      /\ \A i \in 1 .. Len(t) : addr[Len(h) + i] = t[i]
  BY <1>1, <1>2, ConcatProperties DEF Text
<1>4. Places(addr, <<Colon, Slash, Slash>>) =
        {k \in 1 .. Len(addr) - 2 : addr[k] = Colon /\ addr[k + 1] = Slash /\ addr[k + 2] = Slash}
  BY <1>3, SchemePlaces
<1>. HIDE DEF addr
<1>5. ASSUME NEW k \in 1 .. Len(addr) - 2, addr[k] = Colon, addr[k + 1] = Slash
      PROVE  FALSE
  <2>1. k > Len(h)
    BY <1>1, <1>2, <1>3, <1>5
  <2>. DEFINE i == k + 1 - Len(h)
  <2>2. i \in 2 .. Len(t) /\ Len(h) + i = k + 1
    BY <1>1, <1>2, <1>3, <2>1
  <2>. HIDE DEF i
  <2>3. addr[k + 1] = t[i]
    BY <1>2, <1>3, <2>2
  <2>. QED
    BY <1>2, <1>5, <2>2, <2>3
<1>6. Places(addr, <<Colon, Slash, Slash>>) = {}
  BY <1>4, <1>5
<1>. QED
  BY <1>6 DEF addr

LEMMA Rests ==
    ASSUME NEW parts \in UriParts
    PROVE  LET colons == Places(HostPart(parts), <<Colon>>)
           IN  /\ HostPart(parts) \in Text
               /\ parts.port = NoPart => colons = {} /\ HostPart(parts) = parts.host
               /\ parts.port # NoPart =>
                    /\ colons # {}
                    /\ Before(HostPart(parts), Min(colons)) = parts.host
                    /\ Behind(HostPart(parts), Min(colons)) = parts.port
<1>1. parts.host \in Seq(UriChars \ {Colon}) /\ parts.host \in Text
  BY UriPartsAssumption DEF Text, AnyChar
<1>2. CASE parts.port = NoPart
  <2>1. HostPart(parts) = parts.host
    BY <1>1, <1>2, ConcatEmptySeq DEF HostPart, Text
  <2>2. Places(parts.host, <<Colon>>) = {}
    BY <1>1, ColonPlaces
  <2>. QED
    BY <1>1, <1>2, <2>1, <2>2
<1>3. CASE parts.port # NoPart
  <2>1. parts.port \in Text
    BY <1>3, UriPartsAssumption DEF Text, AnyChar
  <2>2. HostPart(parts) = parts.host \o (<<Colon>> \o parts.port)
    BY <1>3 DEF HostPart
  <2>. QED
    BY <1>1, <1>3, <2>1, <2>2, HostAndPort
<1>. QED
  BY <1>2, <1>3

(* The scheme that is found, and what the rest of the parser looks at.     *)
Scheme(addr) ==
    LET schemes == Places(addr, <<Colon, Slash, Slash>>)
    IN  IF schemes = {} THEN <<>> ELSE Before(addr, Min(schemes))
Rest(addr) ==
    LET schemes == Places(addr, <<Colon, Slash, Slash>>)
    IN  IF schemes = {} THEN addr ELSE Behind(addr, Min(schemes) + 2)

LEMMA SchemeTakenOff ==
    ASSUME NEW parts \in UriParts
    PROVE  /\ Scheme(Written(parts)) = IF parts.proto = NoPart THEN <<>> ELSE parts.proto
           /\ Rest(Written(parts)) = HostPart(parts)
<1>. DEFINE port == IF parts.port = NoPart THEN <<>> ELSE <<Colon>> \o parts.port
<1>1. parts.host \in Seq(UriChars \ {Colon}) /\ parts.host \in Text
  BY UriPartsAssumption DEF Text, AnyChar
<1>2. port \in Text
  <2>1. CASE parts.port = NoPart
    BY <2>1 DEF Text
  <2>2. CASE parts.port # NoPart
    <3>1. parts.port \in Text /\ <<Colon>> \in Text
      BY <2>2, UriPartsAssumption DEF Text, AnyChar
    <3>. QED
      BY <2>2, <3>1, PartsOfConcat
  <2>. QED
    BY <2>1, <2>2
<1>3. CASE parts.proto = NoPart
  <2>1. port = <<>> \/ \E p \in Seq(UriChars \ {Slash}) : port = <<Colon>> \o p
    BY <1>3, UriPartsAssumption
  <2>2. Written(parts) = (<<>> \o parts.host) \o port
    BY <1>3 DEF Written
  <2>3. <<>> \o parts.host = parts.host
    BY <1>1, ConcatEmptySeq DEF Text
  <2>4. HostPart(parts) = parts.host \o port
    BY DEF HostPart
  <2>. HIDE DEF port
  <2>5. Places(parts.host \o port, <<Colon, Slash, Slash>>) = {}
    BY <1>1, <2>1, NoScheme
  <2>. QED
    BY <1>3, <2>2, <2>3, <2>4, <2>5 DEF Scheme, Rest
<1>4. CASE parts.proto # NoPart
  <2>. DEFINE mark == <<Colon, Slash, Slash>>
  <2>1. parts.proto \in Seq(UriChars \ {Colon}) /\ parts.proto \in Text /\ mark \in Text
    BY <1>4, UriPartsAssumption DEF Text, AnyChar
  <2>2. Written(parts) = ((parts.proto \o mark) \o parts.host) \o port
    BY <1>4 DEF Written
  <2>3. HostPart(parts) = parts.host \o port
    BY DEF HostPart
  <2>. HIDE DEF port, mark
  <2>. DEFINE head == parts.proto \o mark
              rest == parts.host \o port
  <2>4. head \in Text /\ rest \in Text
    BY <1>1, <1>2, <2>1, PartsOfConcat
  <2>5. (head \o parts.host) \o port = head \o rest
    <3>. DEFINE host == parts.host
    <3>1. host \in Text
      BY <1>1
    <3>. HIDE DEF head, host
    <3>2. (head \o host) \o port = head \o (host \o port)
      BY <1>2, <2>4, <3>1, Associative
    <3>. QED
      BY <3>2 DEF host
  <2>6. (parts.proto \o mark) \o rest = parts.proto \o (mark \o rest)
    <3>. DEFINE proto == parts.proto
    <3>1. proto \in Text
      BY <2>1
    <3>. HIDE DEF proto, rest
    <3>2. (proto \o mark) \o rest = proto \o (mark \o rest)
      BY <2>1, <2>4, <3>1, Associative
    <3>. QED
      BY <3>2 DEF proto
  <2>7. Written(parts) = parts.proto \o (mark \o rest)
    BY <2>2, <2>5, <2>6
  <2>. HIDE DEF rest
  <2>8. Scheme(Written(parts)) = parts.proto /\ Rest(Written(parts)) = rest
    BY <2>1, <2>4, <2>7, SchemeAndRest DEF Scheme, Rest, mark
  <2>. QED
    BY <1>4, <2>3, <2>8 DEF rest
<1>. QED
  BY <1>3, <1>4

(* What a parser that is not given too much makes of an endpoint. *)
LEMMA WhatIsParsed ==
    ASSUME NEW addr, addr # <<>>, ~(Len(addr) >= SOCKADDR_SIZE),
           Places(Rest(addr), <<Colon>>) = {} => ~(Len(Rest(addr)) > HOST_SIZE)
    PROVE  LET colons == Places(Rest(addr), <<Colon>>)
           IN  parseAddr(addr) =
                 [proto |-> Fitting(Scheme(addr), PROTOCOL_SIZE),
                  host |-> IF colons = {} THEN Rest(addr)
                           ELSE Fitting(Before(Rest(addr), Min(colons)), HOST_SIZE),
                  port |-> IF colons = {} THEN 0 ELSE atoi(Behind(Rest(addr), Min(colons)))]
<1>1. CASE Places(Rest(addr), <<Colon>>) = {}
  BY <1>1, Zenon DEF parseAddr, Scheme, Rest
<1>2. CASE Places(Rest(addr), <<Colon>>) # {}
  BY <1>2, Zenon DEF parseAddr, Scheme, Rest
<1>. QED
  BY <1>1, <1>2

LEMMA TakenApartAgain ==
    ASSUME NEW parts \in UriParts, Len(Written(parts)) \in 1 .. SOCKADDR_SIZE - 1,
           parts.port # NoPart \/ Len(parts.host) <= HOST_SIZE
    PROVE  parseAddr(Written(parts)) = TakenApart(parts)
<1>. DEFINE addr == Written(parts)
            colons == Places(Rest(addr), <<Colon>>)
<1>1. /\ Scheme(addr) = IF parts.proto = NoPart THEN <<>> ELSE parts.proto
      /\ Rest(addr) = HostPart(parts)
  BY SchemeTakenOff
<1>2. addr # <<>> /\ ~(Len(addr) >= SOCKADDR_SIZE)
  BY UriSizes
<1>. HIDE DEF addr
<1>3. parts.host \in Text /\ Len(parts.host) \in Nat
  BY UriPartsAssumption DEF Text, AnyChar
<1>4. /\ parts.port = NoPart => colons = {} /\ Rest(addr) = parts.host
      /\ parts.port # NoPart =>
           /\ colons # {}
           /\ Before(Rest(addr), Min(colons)) = parts.host
           /\ Behind(Rest(addr), Min(colons)) = parts.port
  BY <1>1, Rests
<1>5. parts.port = NoPart => ~(Len(parts.host) > HOST_SIZE) /\ Fitting(parts.host, HOST_SIZE) = parts.host
  BY <1>3, UriSizes DEF Fitting
<1>6. parseAddr(addr) =
        [proto |-> Fitting(Scheme(addr), PROTOCOL_SIZE),
         host |-> IF colons = {} THEN Rest(addr)
                  ELSE Fitting(Before(Rest(addr), Min(colons)), HOST_SIZE),
         port |-> IF colons = {} THEN 0 ELSE atoi(Behind(Rest(addr), Min(colons)))]
  BY <1>2, <1>4, <1>5, WhatIsParsed
<1>7. Fitting(<<>>, PROTOCOL_SIZE) = <<>>
  BY DEF Fitting
<1>8. Fitting(Scheme(addr), PROTOCOL_SIZE) =
        IF parts.proto = NoPart THEN <<>> ELSE Fitting(parts.proto, PROTOCOL_SIZE)
  BY <1>1, <1>7
<1>. HIDE DEF colons
<1>9. CASE parts.port = NoPart
  BY <1>4, <1>5, <1>6, <1>8, <1>9 DEF TakenApart, addr
<1>10. CASE parts.port # NoPart
  BY <1>4, <1>6, <1>8, <1>10 DEF TakenApart, addr
<1>. QED
  BY <1>9, <1>10

(* Endpoints of any length are taken apart into what they were written     *)
(* from (uri_parser.c:6-63).                                               *)
THEOREM AddressesTakenApart == UriSpec => []AddressTakenApart
<1>. DEFINE Inv == comps # Unparsed =>
                     uri_parts \in UriParts /\ comps = parseAddr(Written(uri_parts))
            Given == uri_parts \in UriParts
<1>1. UriInit => Given /\ Inv
  BY DEF UriInit
<1>2. Given /\ Inv /\ [ParseEndpoint]_uriVars => (Given /\ Inv)'
  BY DEF ParseEndpoint, uriVars
<1>3. Inv => AddressTakenApart
  BY TakenApartAgain DEF AddressTakenApart
<1>. HIDE DEF Inv, Given
<1>. QED
  BY <1>1, <1>2, <1>3, PTL DEF UriSpec

=============================================================================

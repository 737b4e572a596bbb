------------------------------ MODULE LnpWire ------------------------------
(***************************************************************************)
(* The UDP messages of the LNP resolver (resolver.c): what prepare_msg     *)
(* writes and what parse_msg accepts.  A message is its length and the     *)
(* header bytes that are looked at; the numbers, tags and JSON texts it    *)
(* carries are represented by their lengths.                               *)
(***************************************************************************)
EXTENDS Integers

MSG_SZ == 2048
CNFRM_RESPONSE_HDR_SIZE == 4
TAGGED_HDR_SIZE == 7
TAGGED_ERR_RESPONSE_HDR_SIZE == 6
TAGGED_RESPONSE_CODE_SUCCESS == 0
CNAM_HDR_SIZE == 10
CNAM_RESPONSE_HDR_SIZE == 8

TAGGED_REQ_VERSION == 0
CNAM_REQ_VERSION == 1
ReqTypes == {TAGGED_REQ_VERSION, CNAM_REQ_VERSION}

Byte == 0 .. 255

(* A datagram as recv_data leaves it in the zeroed msg buffer: bytes 0..3  *)
(* hold the response id, and bytes past the length read as zero.           *)
Datagrams ==
    {d \in [len : 0 .. MSG_SZ, b4 : Byte, b5 : Byte, b6 : Byte, b7 : Byte] :
        /\ d.len <= 4 => d.b4 = 0
        /\ d.len <= 5 => d.b5 = 0
        /\ d.len <= 6 => d.b6 = 0
        /\ d.len <= 7 => d.b7 = 0}

----------------------------------------------------------------------------
(* Requests.                                                               *)

HdrSize(type) ==
    IF type = TAGGED_REQ_VERSION THEN TAGGED_HDR_SIZE ELSE CNAM_HDR_SIZE

(* "message is to long" *)
TooLong(type, data_size) == data_size + HdrSize(type) > MSG_SZ

(* The data length field: one byte of a tagged request, four of a CNAM one. *)
LengthField(type, data_size) ==
    IF type = TAGGED_REQ_VERSION THEN data_size % 2^8 ELSE data_size

prepare_msg(type, data_size) ==
    [len |-> data_size + HdrSize(type), size |-> LengthField(type, data_size)]

----------------------------------------------------------------------------
(* Responses.  The verdict of a parser: "confirm", "answer", "remote" (an  *)
(* error the server reports) or "bad", and how many bytes of the message   *)
(* were copied out of it: val_1 (LRN, JSON or error text), then val_2      *)
(* (tag), from offset at.                                                  *)

Verdict(kind, at, v1, v2) == [kind |-> kind, at |-> at, val_1 |-> v1, val_2 |-> v2]
Bad == Verdict("bad", 0, 0, 0)
Confirm == Verdict("confirm", CNFRM_RESPONSE_HDR_SIZE, 0, 0)

JsonSize(d) == d.b4 + 2^8 * d.b5 + 2^16 * d.b6 + 2^24 * d.b7

(* Fault: the size the reply claims is not compared with its length. *)
ParseJsonUnchecked(d) ==
    IF d.len < CNAM_RESPONSE_HDR_SIZE \/ JsonSize(d) = 0
      THEN Bad
      ELSE Verdict("answer", CNAM_RESPONSE_HDR_SIZE, JsonSize(d), 0)

parse_json_msg(d) ==
    IF \/ d.len < CNAM_RESPONSE_HDR_SIZE
       \/ JsonSize(d) = 0
       \/ JsonSize(d) > d.len - CNAM_RESPONSE_HDR_SIZE
      THEN Bad
      ELSE Verdict("answer", CNAM_RESPONSE_HDR_SIZE, JsonSize(d), 0)

(* A reply with a response code other than success. *)
parse_tagged_error(d) ==
    IF d.b5 > d.len - TAGGED_ERR_RESPONSE_HDR_SIZE
      THEN Bad
      ELSE Verdict("remote", TAGGED_ERR_RESPONSE_HDR_SIZE, d.b5, 0)

(* A success: data_size bytes, the first lrn_length of them the LRN. *)
parse_tagged_success(d) ==
    IF d.b5 > d.len - TAGGED_HDR_SIZE \/ d.b6 > d.b5
      THEN Bad
      ELSE Verdict("answer", TAGGED_HDR_SIZE, d.b6, (d.b5 - d.b6) % 2^8)

(* Fault: the tag is taken to be as long as all the data. *)
TagAfterWholeData(d) ==
    IF d.len < TAGGED_HDR_SIZE
      THEN Bad
      ELSE IF d.b4 # TAGGED_RESPONSE_CODE_SUCCESS
             THEN parse_tagged_error(d)
             ELSE Verdict("answer", TAGGED_HDR_SIZE, d.b6, d.b5)

parse_tagged_msg(d) ==
    IF d.len < TAGGED_HDR_SIZE
      THEN Bad
      ELSE IF d.b4 # TAGGED_RESPONSE_CODE_SUCCESS
             THEN parse_tagged_error(d)
             ELSE parse_tagged_success(d)

(* parse_confrm_resp_msg takes exactly 4 bytes; a shorter message is then  *)
(* refused by the parser of the request's type as well.                    *)
parse_msg(type, d) ==
    IF d.len = CNFRM_RESPONSE_HDR_SIZE
      THEN Confirm
      ELSE IF type = TAGGED_REQ_VERSION THEN parse_tagged_msg(d)
                                        ELSE parse_json_msg(d)

----------------------------------------------------------------------------
(* Reference: the replies of a server, from the layouts in the parsers.    *)

EncodeConfirm == [len |-> 4, b4 |-> 0, b5 |-> 0, b6 |-> 0, b7 |-> 0]

(* An error with n bytes of text, as parse_tagged_msg reads it: behind the *)
(* 6 bytes of TAGGED_ERR_RESPONSE_HDR_SIZE.                                *)
EncodeTaggedError(code, n, first, second) ==
    [len |-> 6 + n, b4 |-> code, b5 |-> n, b6 |-> IF n > 0 THEN first ELSE 0,
     b7 |-> IF n > 1 THEN second ELSE 0]

(* The same in the layout its comment gives for every reply: 7 bytes, the  *)
(* last of them the length of a number it does not have.                   *)
EncodeErrorAsCommented(code, n, first) ==
    [len |-> 7 + n, b4 |-> code, b5 |-> n, b6 |-> 0,
     b7 |-> IF n > 0 THEN first ELSE 0]

EncodeTagged(lrn, tag, first) ==
    [len |-> 7 + lrn + tag, b4 |-> 0, b5 |-> lrn + tag, b6 |-> lrn,
     b7 |-> IF lrn + tag > 0 THEN first ELSE 0]

EncodeJson(n) ==
    [len |-> 8 + n, b4 |-> n % 2^8, b5 |-> (n \div 2^8) % 2^8,
     b6 |-> (n \div 2^16) % 2^8, b7 |-> n \div 2^24]

----------------------------------------------------------------------------
(* The same bytes of the message, to the same ends. *)
SameAnswer(v, w) ==
    /\ <<v.kind, v.val_1, v.val_2>> = <<w.kind, w.val_1, w.val_2>>
    /\ v.val_1 + v.val_2 > 0 => v.at = w.at

(* Whatever arrives, nothing is copied from beyond the received bytes.     *)
ReadsInBounds(type, d) ==
    LET v == parse_msg(type, d)
    IN  v.kind # "bad" => v.at + v.val_1 + v.val_2 <= d.len
============================================================================

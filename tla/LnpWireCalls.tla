---------------------------- MODULE LnpWireCalls ----------------------------
(***************************************************************************)
(* One call of what LnpWire describes: a request is made into a message,   *)
(* and a datagram of any contents, or a reply that a server laid out, is   *)
(* parsed.  The comments of the parsers give the layouts, but not that of  *)
(* an error, which is laid out here both as the code that reads it expects *)
(* and as the comment on tagged replies has it.                            *)
(***************************************************************************)
EXTENDS LnpWire

CONSTANTS
    Lens,       \* lengths of arbitrary datagrams
    Bytes,      \* their header bytes
    TopBytes,   \* byte 7, the most significant one of a JSON size
    Texts,      \* lengths of numbers, tags and error texts in encoded replies
    JsonTexts,  \* lengths of encoded JSON replies
    Sizes       \* sizes of request data

(* What the fields for them hold. *)
ASSUME WireAssumption ==
    /\ Bytes \subseteq Byte /\ TopBytes \subseteq Byte
    /\ Texts \subseteq Byte
    /\ JsonTexts \subseteq 1 .. MSG_SZ - CNAM_RESPONSE_HDR_SIZE
    /\ Sizes \subseteq Nat

None == [kind |-> "none"]

(* The replies of a server together with the verdict they call for. *)
Replies ==
    {[type |-> t, dgram |-> EncodeConfirm, want |-> Confirm] : t \in ReqTypes}
    \union
    {[type |-> TAGGED_REQ_VERSION, dgram |-> EncodeTagged(x[1], x[2], f),
      want |-> Verdict("answer", 7, x[1], x[2])] :
        x \in {y \in Texts \X Texts : y[1] + y[2] < 2^8}, f \in TopBytes}
    \union
    {[type |-> TAGGED_REQ_VERSION, dgram |-> EncodeTaggedError(c, n, f, f),
      want |-> Verdict("remote", TAGGED_ERR_RESPONSE_HDR_SIZE, n, 0)] :
        c \in Bytes \ {0}, n \in Texts, f \in TopBytes}
    \union
    {[type |-> TAGGED_REQ_VERSION, dgram |-> EncodeErrorAsCommented(c, n, f),
      want |-> Verdict("remote", TAGGED_HDR_SIZE, n, 0)] :
        c \in Bytes \ {0}, n \in Texts, f \in TopBytes}
    \union
    {[type |-> CNAM_REQ_VERSION, dgram |-> EncodeJson(n),
      want |-> Verdict("answer", 8, n, 0)] : n \in JsonTexts}

Arbitrary ==
    {[type |-> t, dgram |-> d, want |-> None] :
        t \in ReqTypes,
        d \in {e \in [len : Lens, b4 : Bytes, b5 : Bytes, b6 : Bytes, b7 : TopBytes] :
                  e \in Datagrams}}

VARIABLES
    request,    \* type and data size of a request
    prepared,   \* the message made of it
    case,       \* a datagram received, and for which type of request
    verdict     \* what the parser makes of it

wireVars == <<request, prepared, case, verdict>>

WireInit ==
    /\ request \in [type : ReqTypes, size : Sizes]
    /\ prepared = None
    /\ case \in Replies \union Arbitrary
    /\ case.type = request.type
    /\ verdict = None

Send ==
    /\ prepared = None
    /\ ~TooLong(request.type, request.size)
    /\ prepared' = prepare_msg(request.type, request.size)
    /\ UNCHANGED <<request, case, verdict>>

Receive ==
    /\ prepared # None /\ verdict = None
    /\ verdict' = parse_msg(case.type, case.dgram)
    /\ UNCHANGED <<request, prepared, case>>

WireNext == Send \/ Receive

WireSpec == WireInit /\ [][WireNext]_wireVars

----------------------------------------------------------------------------
(* No parser copies bytes from beyond the datagram, whatever lengths the   *)
(* datagram claims (resolver.c:425, 470, 488, 496).                        *)
ParseInBounds ==
    verdict # None => ReadsInBounds(case.type, case.dgram)

(* The error replies that the parser does not take as they are meant: one  *)
(* without a text has 6 bytes where "at least 7" are demanded              *)
(* (resolver.c:458-463), although there is a branch for it (482-484), and  *)
(* with the 7 bytes of the comment the text is read from one byte early.   *)
Misread(reply) ==
    /\ reply.want.kind = "remote"
    /\ IF reply.want.at = TAGGED_ERR_RESPONSE_HDR_SIZE
       THEN reply.want.val_1 = 0
       ELSE reply.want.val_1 > 0

(* Every reply is understood with the lengths its sender meant, whatever   *)
(* they are, but for these error replies, which never are: no one layout   *)
(* of errors suits the parser with and without a text                      *)
(* (resolver.c:386-388, 405-409, 446-519).                                 *)
RoundTrip ==
    (verdict # None /\ case.want # None)
        => (SameAnswer(verdict, case.want) <=> ~Misread(case))

(* The length field of a request that is sent tells the length of its data *)
(* ("1 byte - data length, n bytes - data", resolver.c:309-315).           *)
RequestLengthTold == prepared # None => prepared.size = request.size
============================================================================

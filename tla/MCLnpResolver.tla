--------------------------- MODULE MCLnpResolver ---------------------------
(***************************************************************************)
(* TLC instance of LnpResolver: tables of one to three endpoints, and the  *)
(* datagrams a server sends for each type of request.                      *)
(***************************************************************************)
EXTENDS LnpResolver

CONSTANTS a, b, c

TwoThenOne == {<<a, b>>, <<c>>}
ThreeOrNone == {<<a, b, c>>, <<>>}
Timed == {5}
TimedOrNot == {-1, 0, 5}

(* Confirmation and answer; and the error reply only tagged requests have. *)
Answers == [t \in ReqTypes |->
    {EncodeConfirm,
     IF t = TAGGED_REQ_VERSION THEN EncodeTagged(2, 1, 49) ELSE EncodeJson(2)}]
AnswersAndErrors == [Answers EXCEPT
    ![TAGGED_REQ_VERSION] = @ \union {EncodeTaggedError(1, 1, 69, 69)}]
============================================================================

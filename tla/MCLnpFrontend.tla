--------------------------- MODULE MCLnpFrontend ---------------------------
(***************************************************************************)
(* TLC instance of LnpFrontend: one endpoint, two texts that share a key   *)
(* buffer and one that does not, and a response longer than its buffer.    *)
(***************************************************************************)
EXTENDS LnpFrontend

CONSTANT a

One == {<<a>>}
Timed == {5}
Numbers == {<<1>>, <<1, 2, 3>>, <<1, 2, 4>>}
LongAndEmpty == {<<7, 8, 9>>, <<>>}
Short == {<<7>>}

Answers == [t \in ReqTypes |->
    {EncodeConfirm,
     IF t = TAGGED_REQ_VERSION THEN EncodeTagged(2, 1, 49) ELSE EncodeJson(2)}]
============================================================================

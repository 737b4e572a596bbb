----------------------------- MODULE LnpLookup -----------------------------
(***************************************************************************)
(* What the lnp_resolve_* functions promise their caller, with nothing of  *)
(* requests, endpoints, ids or retries: a text with a mock is answered     *)
(* from it at once; any other is answered once, by the network's answer or *)
(* by a failure in the form the function has for failures.                 *)
(***************************************************************************)
CONSTANTS
    Functions,              \* the SQL functions
    Texts,                  \* texts to look up
    Alike(_),               \* texts that share a mock
    Mocks,                  \* mocks that can be set
    NoMock,
    MockAnswer(_, _),       \* what a function makes of a mock
    NetAnswers(_),          \* what it makes of an answer of the network
    Failures(_),            \* and of a failure
    Nobody,                 \* no call waits for the network
    NoAnswer                \* no answer yet

VARIABLES
    mocks,                  \* the mock of every text
    asking,                 \* the function waiting for the network
    answer                  \* what the last call returned

vars == <<mocks, asking, answer>>

Init ==
    /\ mocks = [t \in Texts |-> NoMock]
    /\ asking = Nobody
    /\ answer = NoAnswer

SetMock(t, m) ==
    /\ asking = Nobody
    /\ mocks' = [u \in Texts |-> IF u \in Alike(t) THEN m ELSE mocks[u]]
    /\ UNCHANGED <<asking, answer>>

AskMocked(fn, t) ==
    /\ asking = Nobody
    /\ mocks[t] # NoMock
    /\ answer' = MockAnswer(fn, mocks[t])
    /\ UNCHANGED <<mocks, asking>>

AskNetwork(fn, t) ==
    /\ asking = Nobody
    /\ mocks[t] = NoMock
    /\ asking' = fn
    /\ answer' = NoAnswer
    /\ UNCHANGED mocks

Reply ==
    /\ asking # Nobody
    /\ answer' \in NetAnswers(asking) \union Failures(asking)
    /\ asking' = Nobody
    /\ UNCHANGED mocks

Next ==
    \/ \E t \in Texts, m \in Mocks : SetMock(t, m)
    \/ \E fn \in Functions, t \in Texts : AskMocked(fn, t) \/ AskNetwork(fn, t)
    \/ Reply

SafeSpec == Init /\ [][Next]_vars

(* Every call returns. *)
Spec == SafeSpec /\ WF_vars(Reply)
============================================================================

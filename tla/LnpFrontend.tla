---------------------------- MODULE LnpFrontend ----------------------------
(***************************************************************************)
(* The SQL functions lnp_resolve_cnam, lnp_resolve_tagged and              *)
(* lnp_resolve_tagged_with_error (f_lnp_resolve.c) and                     *)
(* lnp_endpoints_cache_set: they compose the mocks of EndpointsCache with  *)
(* the resolver of LnpResolver.                                            *)
(***************************************************************************)
EXTENDS LnpResolver, EndpointsCache

ASSUME TextAssumption ==
    KeyTexts \subseteq Seq(Nat) /\ \A t \in KeyTexts : Len(t) \in DataSizes

VARIABLES
    caller,         \* the SQL function waiting in Resolver.resolve
    since,          \* history: requests sent before its call
    mocks,          \* history: the mock set last for every text
    answer          \* what the last call returned to SQL

frontVars == <<hash_tab, caller, since, mocks, answer>>
allVars == <<vars, frontVars>>

SqlFunctions == {"lnp_resolve_cnam", "lnp_resolve_tagged",
                 "lnp_resolve_tagged_with_error"}

RequestType(fn) ==
    IF fn = "lnp_resolve_cnam" THEN CNAM_REQ_VERSION ELSE TAGGED_REQ_VERSION

NoMock == [none |-> TRUE]

(* Texts that agree in the first EC_KEY_MAX_LENGTH bytes share a mock. *)
Alike(t) == {u \in KeyTexts : set_key_buf(u) = set_key_buf(t)}

(* A column of the result: SQL NULL, the text of a mock, the text an answer *)
(* of the network carries (named by its request), or an error text.        *)
Nil == [from |-> "nowhere"]
Mock(text) == [from |-> "mock", text |-> text]
Net(i) == [from |-> "net", request |-> i]
Local(err) == [from |-> "local", error |-> err]

NoAnswer == [fn |-> "none"]
Row(fn, value, err) == [fn |-> fn, kind |-> "row", value |-> value, error |-> err]
NullAnswer(fn) == [fn |-> fn, kind |-> "null"]
Raised(fn) == [fn |-> fn, kind |-> "raised"]

(* A failure: NULL with a warning, or a row with the error column. *)
Failure(fn, err) ==
    IF fn = "lnp_resolve_tagged_with_error" THEN Row(fn, Nil, err) ELSE NullAnswer(fn)

(* The mock stands in for the value or, flagged, for the failure. *)
MockAnswer(fn, entry) ==
    IF entry.error THEN Failure(fn, Mock(entry.response))
                   ELSE Row(fn, Mock(entry.response), Nil)

(* What becomes of Resolver.resolve's outcome; ERROR passes through, and   *)
(* an error that is NULL stays NULL.                                       *)
NetAnswer(fn) ==
    CASE result.ret = "ok" -> Row(fn, Net(result.reply), Nil)
      [] result.ret = "fail" ->
            Failure(fn, IF error = "none" THEN Nil ELSE Local(error))
      [] OTHER -> Raised(fn)

----------------------------------------------------------------------------
FrontInit ==
    /\ Init /\ CacheInit
    /\ caller = "none" /\ since = 0
    /\ mocks = [t \in KeyTexts |-> NoMock]
    /\ answer = NoAnswer

(* lnp_endpoints_cache_set *)
CacheSet(t, response, err) ==
    /\ caller = "none" /\ pc = "idle"
    /\ store(t, response, err)
    /\ mocks' = [u \in KeyTexts |-> IF u \in Alike(t) THEN Entry(response, err)
                                                      ELSE mocks[u]]
    /\ UNCHANGED <<vars, caller, since, answer>>

LookupMocked(fn, t) ==
    /\ caller = "none" /\ pc = "idle"
    /\ Found(t)
    /\ answer' = MockAnswer(fn, find(t))
    /\ UNCHANGED <<vars, hash_tab, caller, since, mocks>>

LookupResolve(fn, t) ==
    /\ caller = "none"
    /\ ~Found(t)
    /\ ResolveCall(RequestType(fn), Len(t))
    /\ caller' = fn
    /\ since' = Len(sent)
    /\ answer' = NoAnswer
    /\ UNCHANGED <<hash_tab, mocks>>

(* Resolver.resolve has returned. *)
LookupReturn ==
    /\ caller # "none" /\ pc = "idle"
    /\ answer' = NetAnswer(caller)
    /\ caller' = "none"
    /\ UNCHANGED <<vars, hash_tab, since, mocks>>

Lookup(fn, t) == LookupMocked(fn, t) \/ LookupResolve(fn, t)

Backend == (Progress /\ UNCHANGED frontVars) \/ LookupReturn

FrontNext ==
    \/ caller = "none" /\ ConfigNext /\ UNCHANGED <<resolverVars, frontVars>>
    \/ \E t \in KeyTexts : \/ \E r \in ResponseTexts : CacheSet(t, r, FALSE)
                           \/ \E r \in ErrorTexts : CacheSet(t, r, TRUE)
    \/ \E fn \in SqlFunctions, t \in KeyTexts : Lookup(fn, t)
    \/ Backend
    \/ (SystemError \/ Deliveries) /\ UNCHANGED frontVars

(* As in LnpResolver: the backend keeps running its own code. *)
FrontSpec == FrontInit /\ [][FrontNext]_allVars /\ WF_allVars(Backend)

----------------------------------------------------------------------------
(* The abstract service, with the mocks as they were set.                  *)
Service == INSTANCE LnpLookup WITH
    Functions <- SqlFunctions,
    Texts <- KeyTexts,
    Mocks <- {Entry(r, FALSE) : r \in ResponseTexts}
             \union {Entry(r, TRUE) : r \in ErrorTexts},
    NetAnswers <- LAMBDA fn : {Row(fn, Net(i), Nil) : i \in 1 .. MaxIds},
    Failures <- LAMBDA fn : {Failure(fn, Local(e)) : e \in Errors \ {"none"}}
                            \union {Raised(fn)},
    asking <- caller,
    Nobody <- "none"

(* The functions keep what LnpLookup promises: a mocked text is answered   *)
(* from the last mock set for it, without waiting; any other text is       *)
(* answered once, by an answer or by a failure that says why, and every    *)
(* call returns (f_lnp_resolve.c:13-158, endpoints_cache.c:98-139).        *)
LookupService == Service!Spec

(* What a function returns from the network was sent for by that very      *)
(* call, as the kind of request the function makes, however many replies   *)
(* to earlier calls of other functions are still on their way.             *)
AnswerIsThisCalls ==
    (answer # NoAnswer /\ answer.kind = "row" /\ answer.value.from = "net") =>
        LET i == answer.value.request
        IN  i > since /\ sent[i].type = RequestType(answer.fn)
============================================================================

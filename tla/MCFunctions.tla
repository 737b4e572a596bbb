----------------------------- MODULE MCFunctions -----------------------------
(***************************************************************************)
(* The functions that keep nothing between calls: one call of a tag        *)
(* function, of rank_dns_srv, replace_rand, process_templates or a parser  *)
(* of the resolver, or one query that calls regexp_replace_rand.  The      *)
(* variables of the functions not called stay idle.                        *)
(***************************************************************************)
EXTENDS MCTags, LnpWireCalls, RankDnsSrv, ReplaceRand, ProcessTemplates, MCRegexp,
        UriCalls

(* Weights, texts and templates. *)
SmallWeights == {-1, 0, 1, 2}

TextNumbers == {-1, 1, 2, 9}
TextChars == {RAND_START_1, RAND_START_2, RAND_END, Other} \union TextNumbers
Fragments ==
    {<<ch>> : ch \in TextChars \ {-1, 2, 9}}
    \union {<<RAND_START_1, RAND_START_2>>, <<RAND_START_1, RAND_START_2, -1>>}
    \union {<<RAND_START_1, RAND_START_2, k, RAND_END>> : k \in {2, 9}}
FragmentedTexts == {Seqs!FlattenSeq(f) : f \in UNION {[1..k -> Fragments] : k \in 0..4}}

TemplatePieces == {Open, Close, Other} \union Names
TemplatesUpTo(k) == UNION {[1..l -> TemplatePieces] : l \in 0..k}
VarValues == {<<Other>>, NonScalar} \union {<<Open, name, Close>> : name \in Names}
Objects == UNION {[keys -> VarValues] : keys \in SUBSET Names}
SmallTemplateCalls ==
    [array : {FALSE}, templates : {NoText} \union {<<t>> : t \in TemplatesUpTo(5)},
     vars : {NotObject, [name \in Names |-> <<Other>>]}]
    \union [array : {FALSE}, templates : {<<t>> : t \in TemplatesUpTo(3)}, vars : Objects]
    \union [array : {TRUE},
            templates : {NoText, <<>>}
                \union {<<t1, t2>> : t1, t2 \in TemplatesUpTo(2) \union {NoText}}
                \union {<<<<Open, name, Close>>, t>> : name \in Names, t \in TemplatesUpTo(2)},
            vars : {NotObject, [name \in Names |-> <<Other>>]}]

(* Parts of endpoints. *)
AddrChars == {Colon, Slash, Other, 7, 9}
UriTexts(k) == UNION {[1..l -> {Other, Slash, 7}] : l \in 0..k}
SmallUriParts ==
    {parts \in [proto : {NoPart} \union UriTexts(2), host : UriTexts(3),
                port : {NoPart, <<>>, <<7>>, <<Other>>, <<7, Other>>, <<7, Colon, 9>>,
                        <<Slash, Slash>>, <<7, Colon, Slash, Slash>>}] :
        parts.proto = NoPart /\ parts.port # NoPart
            => \A k \in 1..Len(parts.port) : parts.port[k] # Slash}

----------------------------------------------------------------------------
(* The variables of each function, and the values they have while it is    *)
(* not called.                                                             *)
TagsIdle ==
    /\ args = [a |-> <<>>, b |-> <<>>, mode |-> Null, op |-> Null] /\ pc = "idle" /\ it = 0
    /\ aset = <<>> /\ bset = <<>> /\ a_has_null = FALSE /\ d = 0 /\ ret = RET_NOT_MATCHED
    /\ rset = <<>> /\ room = 0 /\ result = <<>>
WireIdle == request = None /\ prepared = None /\ case = None /\ verdict = None
SrvIdle ==
    /\ weights = <<>> /\ rows = 0 /\ ctx = <<>> /\ srv = "idle"
    /\ row = 0 /\ sum = 0 /\ r = 0 /\ rank = 0 /\ answers = <<>>
RandIdle ==
    /\ txt = <<>> /\ rr = "idle" /\ p = 0 /\ c = <<>> /\ c_size = 0
    /\ c_size_inc = CACHE_SIZE_INC_START /\ ret_len = 0 /\ i = 0 /\ out = <<>>
TemplatesIdle ==
    /\ call = [array |-> FALSE, templates |-> NoText, vars |-> NotObject]
    /\ st = "idle" /\ pos = 0 /\ sinfo = <<>> /\ rendered = <<>>
RegexpIdle ==
    /\ query = [fn |-> "idle", vars |-> NullArg]
    /\ fcinfo = <<>> /\ restore = {} /\ rx = "idle" /\ todo = <<>> /\ input = <<>>
    /\ rule_ptr = <<>> /\ result_ptr = <<>> /\ n = 0 /\ built = <<>> /\ outcomes = {}
UriIdle == uri_parts = Unparsed /\ comps = Unparsed

vars == <<tagVars, wireVars, srvVars, randVars, templateVars, regexpVars, uriVars>>

Init ==
    \/ TagsInit /\ WireIdle /\ SrvIdle /\ RandIdle /\ TemplatesIdle /\ RegexpIdle /\ UriIdle
    \/ WireInit /\ TagsIdle /\ SrvIdle /\ RandIdle /\ TemplatesIdle /\ RegexpIdle /\ UriIdle
    \/ SrvInit /\ TagsIdle /\ WireIdle /\ RandIdle /\ TemplatesIdle /\ RegexpIdle /\ UriIdle
    \/ RandInit /\ TagsIdle /\ WireIdle /\ SrvIdle /\ TemplatesIdle /\ RegexpIdle /\ UriIdle
    \/ TemplatesInit /\ TagsIdle /\ WireIdle /\ SrvIdle /\ RandIdle /\ RegexpIdle /\ UriIdle
    \/ RegexpInit /\ TagsIdle /\ WireIdle /\ SrvIdle /\ RandIdle /\ TemplatesIdle /\ UriIdle
    \/ UriInit /\ TagsIdle /\ WireIdle /\ SrvIdle /\ RandIdle /\ TemplatesIdle /\ RegexpIdle

Next ==
    \/ /\ TagsNext
       /\ UNCHANGED <<wireVars, srvVars, randVars, templateVars, regexpVars, uriVars>>
    \/ /\ request # None /\ WireNext
       /\ UNCHANGED <<tagVars, srvVars, randVars, templateVars, regexpVars, uriVars>>
    \/ /\ SrvNext
       /\ UNCHANGED <<tagVars, wireVars, randVars, templateVars, regexpVars, uriVars>>
    \/ /\ RandNext
       /\ UNCHANGED <<tagVars, wireVars, srvVars, templateVars, regexpVars, uriVars>>
    \/ /\ TemplatesNext
       /\ UNCHANGED <<tagVars, wireVars, srvVars, randVars, regexpVars, uriVars>>
    \/ /\ RegexpNext
       /\ UNCHANGED <<tagVars, wireVars, srvVars, randVars, templateVars, uriVars>>
    \/ /\ ParseEndpoint
       /\ UNCHANGED <<tagVars, wireVars, srvVars, randVars, templateVars, regexpVars>>

(* A backend that runs a function goes on: nothing in it waits. *)
Spec == Init /\ [][Next]_vars /\ WF_vars(Next)

(* Every call returns or raises, the do-while with its continue included   *)
(* (f_tag_compare.c:136-141), and so do the scans that look back and the   *)
(* draws, unless memory was written out of bounds or read after it was     *)
(* freed.                                                                  *)
Returns ==
    <>(\/ pc \in {"compared", "returned", "error", "overrun"}
       \/ verdict # None \/ comps # Unparsed
       \/ srv \in {"srv_error", "srv_overrun"} \/ (srv = "answer" /\ Len(answers) = rows)
       \/ rr = "rand_returned"
       \/ st = "processed"
       \/ rx = "dangling" \/ (rx = "executor" /\ todo = <<>>))
============================================================================

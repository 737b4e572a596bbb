-------------------------- MODULE EndpointsCache --------------------------
(***************************************************************************)
(* The backend's table of mock responses (endpoints_cache.c), set by       *)
(* lnp_endpoints_cache_set and asked before anything is sent.  A text is a *)
(* sequence of bytes, none of them zero; keys and responses live in        *)
(* fixed-size zeroed buffers, so longer texts are cut.                     *)
(***************************************************************************)
EXTENDS Integers, Sequences

CONSTANTS
    EC_KEY_MAX_LENGTH,
    EC_RESPONSE_MAX_LENGTH,
    KeyTexts,           \* numbers and other data to resolve
    ResponseTexts,      \* responses given with error = FALSE
    ErrorTexts          \* responses given with error = TRUE

ASSUME CacheAssumption ==
    EC_KEY_MAX_LENGTH \in Nat \ {0} /\ EC_RESPONSE_MAX_LENGTH \in Nat \ {0}

(* A response that fills its buffer has no terminator: it is followed by   *)
(* the error flag.  FALSE ends the string; after TRUE the reader would run *)
(* out of the entry, so such errors are left out.                          *)
ASSUME ErrorsFit == \A r \in ErrorTexts : Len(r) < EC_RESPONSE_MAX_LENGTH

VARIABLE hash_tab       \* key buffer -> entry; no keys while it is NULL

Cut(text, max) == SubSeq(text, 1, IF Len(text) < max THEN Len(text) ELSE max)

set_key_buf(key) == Cut(key, EC_KEY_MAX_LENGTH)

Entry(response, error) ==
    [response |-> Cut(response, EC_RESPONSE_MAX_LENGTH), error |-> error]

CacheInit == hash_tab = <<>>

(* Fault: an entry that is already there keeps its response. *)
StoreKeepsFound(key, response, error) ==
    hash_tab' = [k \in DOMAIN hash_tab \union {set_key_buf(key)} |->
                    IF k \in DOMAIN hash_tab THEN hash_tab[k]
                                             ELSE Entry(response, error)]

(* HASH_ENTER, then the entry is overwritten whether it was found or new. *)
store(key, response, error) ==
    hash_tab' = [k \in DOMAIN hash_tab \union {set_key_buf(key)} |->
                    IF k = set_key_buf(key) THEN Entry(response, error)
                                            ELSE hash_tab[k]]

(* find returns 0, and what it hands out. *)
Found(key) == set_key_buf(key) \in DOMAIN hash_tab
find(key) == hash_tab[set_key_buf(key)]
============================================================================

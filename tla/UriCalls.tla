------------------------------ MODULE UriCalls ------------------------------
(***************************************************************************)
(* One call of parseAddr, on an endpoint written from its parts.           *)
(***************************************************************************)
EXTENDS UriParser

CONSTANTS
    UriChars,           \* the characters of endpoints
    UriParts            \* the parts they may be written from

(* Only a port may hold a colon, and without a scheme before it no slash,  *)
(* or "://" would end a scheme nobody wrote.                               *)
ASSUME UriPartsAssumption ==
    \A parts \in UriParts :
        /\ parts.proto = NoPart \/ parts.proto \in Seq(UriChars \ {Colon})
        /\ parts.host \in Seq(UriChars \ {Colon})
        /\ \/ parts.port = NoPart
           \/ parts.proto = NoPart /\ parts.port \in Seq(UriChars \ {Slash})
           \/ parts.proto # NoPart /\ parts.port \in Seq(UriChars)

Unparsed == [unparsed |-> TRUE]

VARIABLES
    uri_parts,      \* history: what the endpoint was written from
    comps           \* out of parseAddr

uriVars == <<uri_parts, comps>>

UriInit == uri_parts \in UriParts /\ comps = Unparsed

ParseEndpoint ==
    /\ uri_parts # Unparsed /\ comps = Unparsed
    /\ comps' = parseAddr(Written(uri_parts))
    /\ UNCHANGED uri_parts

UriSpec == UriInit /\ [][ParseEndpoint]_uriVars

----------------------------------------------------------------------------
(* An endpoint within the limits is taken apart into what it was written   *)
(* from, whatever is missing, empty, too long or follows the port's digits *)
(* (uri_parser.c:6-63).  A host that does not fit and has no port is left  *)
(* out: it is copied whole by line 59, see Overrun.                        *)
AddressTakenApart ==
    (comps # Unparsed /\ Len(Written(uri_parts)) \in 1..(SOCKADDR_SIZE - 1)
     /\ (uri_parts.port # NoPart \/ Len(uri_parts.host) <= HOST_SIZE))
        => comps = TakenApart(uri_parts)
============================================================================

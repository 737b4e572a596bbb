----------------------------- MODULE UriParser -----------------------------
(***************************************************************************)
(* parseAddr (uri_parser.c): an endpoint "[proto://]host[:port]" is taken  *)
(* apart, and what Resolver.add_endpoint (resolver.c) makes of the parts.  *)
(* A text is a sequence of characters; a number is one character.          *)
(***************************************************************************)
EXTENDS Integers, Sequences, FiniteSetsExt

CONSTANTS
    Colon, Slash,
    PortNumbers,        \* the characters that atoi reads as a number
    Hosts,              \* the hosts inet_aton takes
    NoPart,             \* a part an endpoint is written without
    SOCKADDR_SIZE, PROTOCOL_SIZE, HOST_SIZE

ASSUME UriSizes ==
    /\ SOCKADDR_SIZE \in Nat /\ PROTOCOL_SIZE \in Nat /\ HOST_SIZE \in Nat
    /\ PortNumbers \subseteq Int
    /\ Colon # Slash /\ {Colon, Slash} \cap PortNumbers = {}

Refused == [refused |-> TRUE]

(* A host without port is copied whole, whatever its length.  With one     *)
(* character too many it fills host and is left without a terminator; with *)
(* more it goes over what follows host: the port and then memory behind    *)
(* the struct.  What a reader of host finds then is left open.             *)
Overrun == [overrun |-> TRUE]

(* strstr, strchr: where piece begins in text. *)
Places(text, piece) ==
    {k \in 1..(Len(text) - Len(piece) + 1) : SubSeq(text, k, k + Len(piece) - 1) = piece}

Before(text, k) == SubSeq(text, 1, k - 1)
Behind(text, k) == SubSeq(text, k + 1, Len(text))

(* A part that does not fit its buffer is left out. *)
Fitting(part, size) == IF Len(part) <= size THEN part ELSE <<>>

atoi(text) == IF text # <<>> /\ text[1] \in PortNumbers THEN text[1] ELSE 0

(* Fault: the port is taken from the last colon, and the host up to it. *)
parseAddrLastColon(addr) ==
    IF addr = <<>> \/ Len(addr) >= SOCKADDR_SIZE THEN Refused
    ELSE LET schemes == Places(addr, <<Colon, Slash, Slash>>)
             proto == IF schemes = {} THEN <<>> ELSE Before(addr, Min(schemes))
             rest == IF schemes = {} THEN addr ELSE Behind(addr, Min(schemes) + 2)
             colons == Places(rest, <<Colon>>)
         IN  IF colons = {} /\ Len(rest) > HOST_SIZE THEN Overrun
             ELSE IF colons = {} THEN
                [proto |-> Fitting(proto, PROTOCOL_SIZE), host |-> rest, port |-> 0]
             ELSE
                [proto |-> Fitting(proto, PROTOCOL_SIZE),
                 host |-> Fitting(Before(rest, Max(colons)), HOST_SIZE),
                 port |-> atoi(Behind(rest, Max(colons)))]

parseAddr(addr) ==
    IF addr = <<>> \/ Len(addr) >= SOCKADDR_SIZE THEN Refused
    ELSE LET schemes == Places(addr, <<Colon, Slash, Slash>>)
             proto == IF schemes = {} THEN <<>> ELSE Before(addr, Min(schemes))
             rest == IF schemes = {} THEN addr ELSE Behind(addr, Min(schemes) + 2)
             colons == Places(rest, <<Colon>>)
         IN  IF colons = {} /\ Len(rest) > HOST_SIZE THEN Overrun
             ELSE IF colons = {} THEN
                [proto |-> Fitting(proto, PROTOCOL_SIZE), host |-> rest, port |-> 0]
             ELSE
                [proto |-> Fitting(proto, PROTOCOL_SIZE),
                 host |-> Fitting(Before(rest, Min(colons)), HOST_SIZE),
                 port |-> atoi(Behind(rest, Min(colons)))]

(* The endpoint add_endpoint counts in: inet_aton takes the host. *)
Parsable(uri) == parseAddr(uri) # Refused
HostGood(uri) == Parsable(uri) /\ parseAddr(uri).host \in Hosts

----------------------------------------------------------------------------
(* A reference: an endpoint is written from its parts.  The port is the    *)
(* text behind the colon, if there is one.                                 *)
Written(parts) ==
    (IF parts.proto = NoPart THEN <<>> ELSE parts.proto \o <<Colon, Slash, Slash>>)
    \o parts.host
    \o (IF parts.port = NoPart THEN <<>> ELSE <<Colon>> \o parts.port)

(* What should come back: the parts, less those that do not fit. *)
TakenApart(parts) ==
    [proto |-> IF parts.proto = NoPart THEN <<>> ELSE Fitting(parts.proto, PROTOCOL_SIZE),
     host |-> Fitting(parts.host, HOST_SIZE),
     port |-> IF parts.port = NoPart THEN 0 ELSE atoi(parts.port)]
============================================================================

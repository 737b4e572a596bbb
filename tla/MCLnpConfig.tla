---------------------------- MODULE MCLnpConfig ----------------------------
(***************************************************************************)
(* TLC instance of LnpConfig: every array of up to MaxLen of the endpoints *)
(* below, with the verdict of parseAddr and inet_aton on each.             *)
(***************************************************************************)
EXTENDS LnpConfig, UriParser

CONSTANTS
    MaxLen,             \* bound: elements of an array
    udp, a, b, name     \* pieces of endpoints, each one character here

(* With a proto and a port, with neither, with a host that is no address,  *)
(* and one that parseAddr finds too long.                                  *)
Endpoints == {<<udp, Colon, Slash, Slash, a, Colon, 80>>, <<b>>,
              <<name, Colon, 80>>,
              <<udp, Colon, Slash, Slash, a, Colon, 80, 80>>}
Addresses == {<<a>>, <<b>>}
ParsableEndpoints == {uri \in Endpoints : Parsable(uri)}
HostEndpoints == {uri \in Endpoints : HostGood(uri)}

AllInputs == UNION {[1 .. n -> Uris \union {NullUri}] : n \in 0 .. MaxLen}
Milliseconds == {-1500, -1000, 0, 20}
============================================================================

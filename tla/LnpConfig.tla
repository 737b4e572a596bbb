----------------------------- MODULE LnpConfig -----------------------------
(***************************************************************************)
(* The settings of the LNP resolver in one PostgreSQL backend: the table   *)
(* of endpoints (resolver.c), the UDP socket with its receive timeout      *)
(* (transport.c), the RTT timeout, and the SQL functions that change or    *)
(* show them (f_lnp_endpoints_set.c, f_lnp_endpoints_show.c,               *)
(* f_lnp_set_timeout.c, f_lnp_set_rtt_timeout.c).                          *)
(*                                                                         *)
(* The state is private to the backend and lives as long as it does.       *)
(***************************************************************************)
EXTENDS Integers, Sequences, FiniteSets

CONSTANTS
    MAX_ENDPOINTS,      \* slots of the table
    Uris,               \* endpoint URIs
    ParsableUris,       \* those parseAddr accepts
    HostUris,           \* those whose host inet_aton accepts as well
    NullUri,            \* a NULL array element; also the url of a zeroed slot
    Inputs,             \* arrays given to lnp_endpoints_set
    TimeoutArgs         \* milliseconds given to the two set-timeout functions

ASSUME SlotAssumption == MAX_ENDPOINTS \in Nat \ {0}
ASSUME UriAssumption == HostUris \subseteq ParsableUris /\ ParsableUris \subseteq Uris
                        /\ NullUri \notin Uris
ASSUME InputAssumption == Inputs \subseteq Seq(Uris \union {NullUri})
ASSUME TimeoutAssumption == TimeoutArgs \subseteq Int

DEFAULT_RTT_TIMEOUT_MSEC == 5

VARIABLES
    pc,                     \* "idle", or the call the backend is in
    socket_fd,              \* is the UDP socket open?
    recv_timeout,           \* what SO_RCVTIMEO makes of a recv with no data
    rtt_timeout,            \* milliseconds for poll
    endpoints,              \* the slots, index 0 .. MAX_ENDPOINTS - 1
    endpoints_count,
    curr_endpoint_index,
    input, pos,             \* argument of the last lnp_endpoints_set, elements done
    show                    \* an lnp_endpoints_show under way, and its rows

timeouts == <<recv_timeout, rtt_timeout>>
table == <<endpoints, endpoints_count, curr_endpoint_index>>
setCall == <<input, pos>>

Slots == 0 .. MAX_ENDPOINTS - 1
ZeroSlot == [id |-> 0, url |-> NullUri]

NullRow == [id |-> -1, url |-> NullUri]     \* a row of SQL NULLs

NoShow == [on |-> FALSE, max |-> 0, rows |-> <<>>, fresh |-> FALSE]

----------------------------------------------------------------------------
(* Transport.                                                              *)

(* setsockopt(SO_RCVTIMEO) with t milliseconds, split into seconds and     *)
(* microseconds: a negative microsecond part is refused (and the refusal   *)
(* ignored), a negative whole second returns at once, zero blocks forever. *)
RcvTimeo(t) ==
    CASE t > 0 -> "timed"
      [] t = 0 -> "never"
      [] t < 0 /\ t % 1000 = 0 -> "immediate"
      [] OTHER -> recv_timeout

(* What init_socket sets when it opens the socket. *)
DefaultRcvTimeo == "timed"

----------------------------------------------------------------------------
(* Resolver: the endpoint table.                                           *)

(* Faults: the index runs past the table; the index is used before it moves. *)
NextIndexUnbounded == curr_endpoint_index + 1
NextIndexPostIncrement == curr_endpoint_index % endpoints_count

(* get_next_endpoint *)
NextIndex == (curr_endpoint_index + 1) % endpoints_count

(* get_endpoint_at_index is not NULL. *)
SlotInUse(i) == i >= 0 /\ i < endpoints_count

(* get_current_endpoint *)
CurrentIndex ==
    IF curr_endpoint_index >= 0 /\ curr_endpoint_index < endpoints_count
      THEN curr_endpoint_index
      ELSE NextIndex

(* bzero of the slots in use, and both counters. *)
remove_all_endpoints ==
    /\ endpoints' = [i \in Slots |-> IF i < endpoints_count THEN ZeroSlot
                                                            ELSE endpoints[i]]
    /\ endpoints_count' = 0
    /\ curr_endpoint_index' = 0

(* Fault: a full table is not noticed. *)
AddWithoutLimit(uri) ==
    /\ UNCHANGED curr_endpoint_index
    /\ endpoints' = [endpoints EXCEPT ![endpoints_count] =
                        IF uri \in ParsableUris
                          THEN [id |-> endpoints_count, url |-> uri]
                          ELSE ZeroSlot]
    /\ endpoints_count' = IF uri \in HostUris THEN endpoints_count + 1
                                              ELSE endpoints_count

(* Fault: an endpoint whose host is bad is counted in. *)
AddCountsBadHost(uri) ==
    /\ UNCHANGED curr_endpoint_index
    /\ \/ /\ endpoints_count = MAX_ENDPOINTS
          /\ UNCHANGED <<endpoints, endpoints_count>>
       \/ /\ endpoints_count < MAX_ENDPOINTS
          /\ uri \notin ParsableUris
          /\ endpoints' = [endpoints EXCEPT ![endpoints_count] = ZeroSlot]
          /\ UNCHANGED endpoints_count
       \/ /\ endpoints_count < MAX_ENDPOINTS
          /\ uri \in ParsableUris
          /\ endpoints' = [endpoints EXCEPT ![endpoints_count] =
                              [id |-> endpoints_count, url |-> uri]]
          /\ endpoints_count' = endpoints_count + 1

(* The slot after the last one in use is cleared, filled, and only counted *)
(* in when the host is good too.                                           *)
add_endpoint(uri) ==
    /\ UNCHANGED curr_endpoint_index
    /\ \/ /\ endpoints_count = MAX_ENDPOINTS
          /\ UNCHANGED <<endpoints, endpoints_count>>
       \/ /\ endpoints_count < MAX_ENDPOINTS
          /\ uri \notin ParsableUris
          /\ endpoints' = [endpoints EXCEPT ![endpoints_count] = ZeroSlot]
          /\ UNCHANGED endpoints_count
       \/ /\ endpoints_count < MAX_ENDPOINTS
          /\ uri \in ParsableUris
          /\ endpoints' = [endpoints EXCEPT ![endpoints_count] =
                              [id |-> endpoints_count, url |-> uri]]
          /\ endpoints_count' = IF uri \in HostUris THEN endpoints_count + 1
                                                    ELSE endpoints_count

----------------------------------------------------------------------------
(* The SQL functions.                                                      *)

ConfigInit ==
    /\ pc = "idle"
    /\ socket_fd = FALSE
    /\ recv_timeout = DefaultRcvTimeo
    /\ rtt_timeout = DEFAULT_RTT_TIMEOUT_MSEC
    /\ endpoints = [i \in Slots |-> ZeroSlot]
    /\ endpoints_count = 0
    /\ curr_endpoint_index = 0
    /\ input = <<>> /\ pos = 0
    /\ show = NoShow

(* Transport.init_socket when there is none: ERROR if socket() fails. *)
SocketError ==
    /\ pc = "idle" /\ ~socket_fd
    /\ UNCHANGED <<pc, socket_fd, timeouts, table, setCall, show>>

(* Fault: the current index survives the new table. *)
SetKeepsIndex(in) ==
    /\ pc = "idle"
    /\ socket_fd' = TRUE
    /\ recv_timeout' = IF socket_fd THEN recv_timeout ELSE DefaultRcvTimeo
    /\ endpoints' = [i \in Slots |-> IF i < endpoints_count THEN ZeroSlot
                                                            ELSE endpoints[i]]
    /\ endpoints_count' = 0
    /\ UNCHANGED curr_endpoint_index
    /\ input' = in /\ pos' = 0
    /\ pc' = "adding"
    /\ show' = [show EXCEPT !.fresh = FALSE]
    /\ UNCHANGED rtt_timeout

(* lnp_endpoints_set: the socket, then the table is emptied ... *)
EndpointsSet(in) ==
    /\ pc = "idle"
    /\ socket_fd' = TRUE
    /\ recv_timeout' = IF socket_fd THEN recv_timeout ELSE DefaultRcvTimeo
    /\ remove_all_endpoints
    /\ input' = in /\ pos' = 0
    /\ pc' = "adding"
    /\ show' = [show EXCEPT !.fresh = FALSE]
    /\ UNCHANGED rtt_timeout

(* ... and filled element by element; NULL elements are skipped. *)
EndpointsSetElement ==
    /\ pc = "adding"
    /\ pos < Len(input)
    /\ pos' = pos + 1
    /\ IF input[pos + 1] = NullUri THEN UNCHANGED table
                                   ELSE add_endpoint(input[pos + 1])
    /\ UNCHANGED <<pc, socket_fd, timeouts, input, show>>

EndpointsSetDone ==
    /\ pc = "adding"
    /\ pos = Len(input)
    /\ pc' = "idle"
    /\ UNCHANGED <<socket_fd, timeouts, table, setCall, show>>

(* lnp_set_timeout *)
SetTimeout(t) ==
    /\ pc = "idle"
    /\ socket_fd' = TRUE
    /\ recv_timeout' = RcvTimeo(t)
    /\ UNCHANGED <<pc, rtt_timeout, table, setCall, show>>

(* lnp_set_rtt_timeout *)
SetRttTimeout(t) ==
    /\ pc = "idle"
    /\ rtt_timeout' = t
    /\ UNCHANGED <<pc, socket_fd, recv_timeout, table, setCall, show>>

(* lnp_endpoints_show, first call: the number of rows is fixed here. *)
ShowFirstCall ==
    /\ pc = "idle" /\ ~show.on
    /\ show' = [on |-> TRUE, max |-> endpoints_count, rows |-> <<>>, fresh |-> TRUE]
    /\ UNCHANGED <<pc, socket_fd, timeouts, table, setCall>>

(* Fault: a row is read without asking whether its slot is in use. *)
ShowReadsSlots ==
    /\ pc = "idle" /\ show.on
    /\ LET i == Len(show.rows)
       IN  \/ /\ i >= show.max
              /\ show' = [show EXCEPT !.on = FALSE]
           \/ /\ i < show.max
              /\ show' = [show EXCEPT !.rows = Append(@, endpoints[i])]
    /\ UNCHANGED <<pc, socket_fd, timeouts, table, setCall>>

(* Each further call returns one row.  For an index that has gone (another *)
(* lnp_endpoints_set ran between two rows) it returns NULL, and not by     *)
(* SRF_RETURN_NEXT: the executor takes it for the single result of a call, *)
(* a row of NULLs after which it does not call again.                      *)
ShowNextCall ==
    /\ pc = "idle" /\ show.on
    /\ LET i == Len(show.rows)
       IN  \/ /\ i >= show.max
              /\ show' = [show EXCEPT !.on = FALSE]
           \/ /\ i < show.max /\ SlotInUse(i)
              /\ show' = [show EXCEPT !.rows = Append(@, endpoints[i])]
           \/ /\ i < show.max /\ ~SlotInUse(i)
              /\ show' = [show EXCEPT !.rows = Append(@, NullRow), !.on = FALSE]
    /\ UNCHANGED <<pc, socket_fd, timeouts, table, setCall>>

(* The operations the resolver shares its backend with.  lnp_endpoints_show *)
(* only reads what they write.                                             *)
ConfigNext ==
    \/ SocketError
    \/ \E in \in Inputs : EndpointsSet(in)
    \/ EndpointsSetElement
    \/ EndpointsSetDone
    \/ \E t \in TimeoutArgs : SetTimeout(t) \/ SetRttTimeout(t)

Config == ConfigNext \/ ShowFirstCall \/ ShowNextCall

configVars == <<pc, socket_fd, recv_timeout, rtt_timeout, endpoints,
                endpoints_count, curr_endpoint_index, input, pos, show>>

ConfigSpec == ConfigInit /\ [][Config]_configVars

----------------------------------------------------------------------------
(* Type correctness of the settings. *)
ConfigTypeOK ==
    /\ socket_fd \in BOOLEAN
    /\ recv_timeout \in {"never", "timed", "immediate"}
    /\ rtt_timeout \in Int
    /\ endpoints \in [Slots -> [id : Slots, url : Uris \union {NullUri}]]
    /\ endpoints_count \in 0 .. MAX_ENDPOINTS
    /\ curr_endpoint_index \in Slots
    /\ input \in Seq(Uris \union {NullUri})
    /\ pos \in 0 .. Len(input)
    /\ show \in [on : BOOLEAN, max : 0 .. MAX_ENDPOINTS,
                 rows : Seq([id : Slots \union {-1}, url : Uris \union {NullUri}]),
                 fresh : BOOLEAN]

(* The current index points at a slot in use unless the table is empty, so *)
(* that get_current_endpoint and get_next_endpoint never divide by zero    *)
(* nor return NULL (resolver.c:143-158); every slot in use holds a URI     *)
(* whose address was good and its own index as id; and a configured        *)
(* backend has a socket.                                                   *)
EndpointsUsable ==
    /\ curr_endpoint_index < endpoints_count
         \/ (endpoints_count = 0 /\ curr_endpoint_index = 0)
    /\ \A i \in Slots : i < endpoints_count =>
          endpoints[i].id = i /\ endpoints[i].url \in HostUris
    /\ endpoints_count > 0 => socket_fd

(* The endpoints in use, in order. *)
Listed == [i \in 1 .. endpoints_count |-> endpoints[i - 1].url]

(* The places of good URIs among the first n elements. *)
GoodPlaces(n) == {i \in 1 .. n : input[i] \in HostUris}

(* lnp_endpoints_set keeps exactly the first MAX_ENDPOINTS good URIs of    *)
(* its argument, in order: bad ones leave neither a gap nor a ghost of     *)
(* themselves or of the previous table (resolver.c:100-129, 160-165).      *)
TableMatchesInput ==
    /\ LET good == Cardinality(GoodPlaces(pos))
       IN  endpoints_count = IF good < MAX_ENDPOINTS THEN good ELSE MAX_ENDPOINTS
    /\ \A i \in GoodPlaces(pos) :
          LET n == Cardinality(GoodPlaces(i))
          IN  n <= MAX_ENDPOINTS => Listed[n] = input[i]

(* lnp_endpoints_show never shows a slot that is not in use, but for the   *)
(* row of NULLs that may end a listing which an lnp_endpoints_set has come *)
(* into; and a listing that none came between is the table, completely and *)
(* in order, once it is over (f_lnp_endpoints_show.c:42-70).               *)
ShowMatchesTable ==
    /\ \A i \in 1 .. Len(show.rows) :
          \/ show.rows[i].url \in HostUris /\ show.rows[i].id = i - 1
          \/ show.rows[i] = NullRow /\ i = Len(show.rows) /\ ~show.on /\ ~show.fresh
    /\ (show.fresh /\ ~show.on) =>
          [i \in 1 .. Len(show.rows) |-> show.rows[i].url] = Listed
============================================================================

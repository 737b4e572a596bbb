----------------------------- MODULE LnpProofs -----------------------------
(***************************************************************************)
(* LnpConfig, LnpResolver and LnpFrontend, for every table size, every set *)
(* of URIs and texts, arrays of any length, buffers of any size, every     *)
(* server and every bound: the settings and the listings, a usable         *)
(* endpoint table, a round of failover, errors and, as long as the request *)
(* ids do not wrap, answers that belong to the request; then the functions *)
(* on top, whose steps implement those of LnpLookup.                       *)
(***************************************************************************)
EXTENDS LnpFrontend, SequenceTheorems, FiniteSetTheorems, TLAPS

----------------------------------------------------------------------------
(* Numbers. *)

(* A remainder is below its divisor. *)
LEMMA ModFacts ==
    ASSUME NEW x \in Nat, NEW n \in Nat \ {0}
    PROVE  x % n \in 0 .. n - 1
BY SMT

(* The index after the current one is in the table. *)
LEMMA NextIndexFacts ==
    ASSUME ConfigTypeOK, endpoints_count > 0
    PROVE  NextIndex \in 0 .. endpoints_count - 1
<1>1. curr_endpoint_index + 1 \in Nat /\ endpoints_count \in Nat \ {0}
  BY SlotAssumption DEF ConfigTypeOK, Slots
<1>. QED
  BY <1>1, ModFacts DEF NextIndex

(* Below the modulus a remainder is the number itself. *)
LEMMA ModSmall ==
    ASSUME NEW x \in Nat, NEW n \in Nat, x < n
    PROVE  x % n = x
BY SMT

(* The counters as numbers. *)
LEMMA CounterFacts ==
    ASSUME ConfigTypeOK
    PROVE  /\ endpoints_count \in Nat /\ endpoints_count <= MAX_ENDPOINTS
           /\ MAX_ENDPOINTS \in Nat \ {0}
           /\ curr_endpoint_index \in Nat /\ curr_endpoint_index \in Slots
           /\ \A i \in 0 .. endpoints_count - 1 : i \in Slots
<1>1. endpoints_count \in 0 .. MAX_ENDPOINTS /\ curr_endpoint_index \in Slots
  BY DEF ConfigTypeOK
<1>. QED
  BY <1>1, SlotAssumption DEF Slots

(* The SQL functions keep the types of the settings. *)
LEMMA ConfigTypeStep ==
    ASSUME ConfigTypeOK, ConfigNext
    PROVE  ConfigTypeOK'
<1>. USE SlotAssumption DEF ConfigTypeOK, Slots, ZeroSlot
<1>1. CASE SocketError
  BY <1>1 DEF SocketError, timeouts, table, setCall
<1>2. ASSUME NEW in \in Inputs, EndpointsSet(in)
      PROVE  ConfigTypeOK'
  <2>1. in \in Seq(Uris \union {NullUri}) /\ Len(in) \in Nat
    BY InputAssumption
  <2>2. input' = in /\ pos' = 0 /\ pos' \in 0 .. Len(input')
    BY <1>2, <2>1 DEF EndpointsSet
  <2>3. endpoints' \in [Slots -> [id : Slots, url : Uris \union {NullUri}]]
    BY <1>2 DEF EndpointsSet, remove_all_endpoints
  <2>4. show' \in [on : BOOLEAN, max : 0 .. MAX_ENDPOINTS,
                   rows : Seq([id : Slots \union {-1}, url : Uris \union {NullUri}]),
                   fresh : BOOLEAN]
    BY <1>2 DEF EndpointsSet
  <2>5. /\ socket_fd' \in BOOLEAN /\ rtt_timeout' \in Int
        /\ recv_timeout' \in {"never", "timed", "immediate"}
        /\ endpoints_count' \in 0 .. MAX_ENDPOINTS /\ curr_endpoint_index' \in Slots
    BY <1>2 DEF EndpointsSet, remove_all_endpoints, DefaultRcvTimeo
  <2>. QED
    BY <2>1, <2>2, <2>3, <2>4, <2>5
<1>3. CASE EndpointsSetElement
  <2>1. Len(input) \in Nat /\ pos \in Nat /\ pos + 1 \in 1 .. Len(input)
    BY <1>3 DEF EndpointsSetElement
  <2>2. input[pos + 1] \in Uris \union {NullUri}
    BY <2>1
  <2>3. /\ pos' \in 0 .. Len(input') /\ UNCHANGED <<socket_fd, timeouts, input, show>>
    BY <1>3, <2>1 DEF EndpointsSetElement
  <2>4. CASE UNCHANGED table
    BY <2>3, <2>4 DEF timeouts, table
  <2>5. ASSUME NEW uri \in Uris \union {NullUri}, add_endpoint(uri)
        PROVE  ConfigTypeOK'
    <3>. DEFINE Slot == [id : Slots, url : Uris \union {NullUri}]
    <3>1. endpoints \in [Slots -> Slot] /\ ZeroSlot \in Slot
      OBVIOUS
    <3>2. endpoints_count < MAX_ENDPOINTS =>
            endpoints_count \in Slots /\ [id |-> endpoints_count, url |-> uri] \in Slot
      BY <2>5
    <3>3. /\ endpoints_count \in 0 .. MAX_ENDPOINTS
          /\ endpoints_count < MAX_ENDPOINTS => endpoints_count + 1 \in 0 .. MAX_ENDPOINTS
          /\ curr_endpoint_index \in Slots
      OBVIOUS
    <3>4. endpoints' \in [Slots -> Slot]
      <4>. HIDE DEF Slot, Slots, ZeroSlot, ConfigTypeOK
      <4>. QED
        BY <2>5, <3>1, <3>2 DEF add_endpoint
    <3>5. endpoints_count' \in 0 .. MAX_ENDPOINTS /\ curr_endpoint_index' \in Slots
      <4>. HIDE DEF Slot, Slots, ZeroSlot, ConfigTypeOK
      <4>. QED
        BY <2>5, <3>3 DEF add_endpoint
    <3>. QED
      BY <2>3, <3>4, <3>5 DEF timeouts
  <2>. QED
    BY <1>3, <2>2, <2>4, <2>5 DEF EndpointsSetElement
<1>4. CASE EndpointsSetDone
  BY <1>4 DEF EndpointsSetDone, timeouts, table, setCall
<1>5. ASSUME NEW t \in TimeoutArgs, SetTimeout(t)
      PROVE  ConfigTypeOK'
  BY <1>5 DEF SetTimeout, RcvTimeo, table, setCall
<1>6. ASSUME NEW t \in TimeoutArgs, SetRttTimeout(t)
      PROVE  ConfigTypeOK'
  BY <1>6, TimeoutAssumption DEF SetRttTimeout, table, setCall
<1>. QED
  BY <1>1, <1>2, <1>3, <1>4, <1>5, <1>6 DEF ConfigNext

----------------------------------------------------------------------------
(* The table stays usable. *)

IndexInTable ==
    curr_endpoint_index < endpoints_count
      \/ (endpoints_count = 0 /\ curr_endpoint_index = 0)

SlotsGood ==
    \A i \in Slots : i < endpoints_count =>
        endpoints[i].id = i /\ endpoints[i].url \in HostUris

SocketOpen == endpoints_count > 0 => socket_fd

(* The SQL functions that change settings keep the table usable. *)
LEMMA UsableConfigStep ==
    ASSUME ConfigTypeOK, EndpointsUsable, ConfigNext,
           pc = "adding" => socket_fd
    PROVE  EndpointsUsable' /\ (pc' = "adding" => socket_fd')
<1>0. IndexInTable /\ SlotsGood /\ SocketOpen
  BY DEF EndpointsUsable, IndexInTable, SlotsGood, SocketOpen
<1>a. /\ endpoints_count \in Nat /\ endpoints_count <= MAX_ENDPOINTS
      /\ MAX_ENDPOINTS \in Nat \ {0} /\ curr_endpoint_index \in Nat
  BY CounterFacts
<1>b. endpoints \in [Slots -> [id : Slots, url : Uris \union {NullUri}]]
  BY DEF ConfigTypeOK
<1>. SUFFICES IndexInTable' /\ SlotsGood' /\ SocketOpen' /\ (pc' = "adding" => socket_fd')
  BY DEF EndpointsUsable, IndexInTable, SlotsGood, SocketOpen
<1>1. ASSUME NEW in \in Inputs, EndpointsSet(in)
      PROVE  IndexInTable' /\ SlotsGood' /\ SocketOpen' /\ socket_fd'
  <2>1. endpoints_count' = 0 /\ curr_endpoint_index' = 0 /\ socket_fd'
    BY <1>1 DEF EndpointsSet, remove_all_endpoints
  <2>2. \A i \in Slots : ~(i < 0)
    BY <1>a DEF Slots
  <2>. QED
    BY <2>1, <2>2 DEF IndexInTable, SlotsGood, SocketOpen
<1>2. CASE EndpointsSetElement
  <2>1. socket_fd /\ UNCHANGED <<socket_fd, pc>>
    BY <1>2 DEF EndpointsSetElement
  <2>2. ASSUME NEW uri, add_endpoint(uri)
        PROVE  IndexInTable' /\ SlotsGood'
    <3>1. CASE endpoints_count = MAX_ENDPOINTS
      BY <1>0, <1>a, <2>2, <3>1 DEF add_endpoint, IndexInTable, SlotsGood
    <3>2. CASE endpoints_count < MAX_ENDPOINTS /\ endpoints_count' = endpoints_count
      <4>0. \/ endpoints' = endpoints
            \/ \E e : endpoints' = [endpoints EXCEPT ![endpoints_count] = e]
        BY <2>2 DEF add_endpoint
      <4>1. \A i \in Slots : i < endpoints_count => endpoints'[i] = endpoints[i]
        BY <1>a, <1>b, <4>0 DEF Slots
      <4>. QED
        BY <1>0, <2>2, <3>2, <4>1 DEF add_endpoint, IndexInTable, SlotsGood
    <3>3. CASE /\ endpoints_count < MAX_ENDPOINTS /\ uri \in HostUris
               /\ endpoints_count' = endpoints_count + 1
               /\ endpoints' = [endpoints EXCEPT ![endpoints_count] =
                                  [id |-> endpoints_count, url |-> uri]]
      <4>1. \A i \in Slots : i < endpoints_count => endpoints'[i] = endpoints[i]
        BY <1>a, <1>b, <3>3 DEF Slots
      <4>2. endpoints'[endpoints_count] = [id |-> endpoints_count, url |-> uri]
        BY <1>a, <1>b, <3>3 DEF Slots
      <4>3. \A i \in Slots : i < endpoints_count + 1 =>
               (i < endpoints_count \/ i = endpoints_count)
        BY <1>a DEF Slots
      <4>4. SlotsGood'
        BY <1>0, <3>3, <4>1, <4>2, <4>3 DEF SlotsGood
      <4>5. curr_endpoint_index' = curr_endpoint_index
        BY <2>2 DEF add_endpoint
      <4>6. curr_endpoint_index < endpoints_count + 1
        BY <1>0, <1>a DEF IndexInTable
      <4>. QED
        BY <3>3, <4>4, <4>5, <4>6 DEF IndexInTable
    <3>. QED
      BY <1>a, <2>2, <3>1, <3>2, <3>3, UriAssumption DEF add_endpoint
  <2>3. CASE UNCHANGED table
    BY <1>0, <2>1, <2>3 DEF table, IndexInTable, SlotsGood, SocketOpen
  <2>. QED
    BY <1>2, <2>1, <2>2, <2>3 DEF EndpointsSetElement, SocketOpen
<1>3. CASE SocketError \/ EndpointsSetDone
  BY <1>0, <1>3 DEF SocketError, EndpointsSetDone, table, IndexInTable, SlotsGood,
     SocketOpen
<1>4. ASSUME NEW t \in TimeoutArgs, SetTimeout(t) \/ SetRttTimeout(t)
      PROVE  IndexInTable' /\ SlotsGood' /\ SocketOpen' /\ pc' = "idle"
  BY <1>0, <1>4 DEF SetTimeout, SetRttTimeout, table, IndexInTable, SlotsGood, SocketOpen
<1>. QED
  BY <1>1, <1>2, <1>3, <1>4 DEF ConfigNext


----------------------------------------------------------------------------
(* The types, with lnp_endpoints_show.                                     *)

LEMMA ShowTypeStep ==
    ASSUME ConfigTypeOK, ShowFirstCall \/ ShowNextCall
    PROVE  ConfigTypeOK'
<1>. DEFINE TableRow == [id : Slots \union {-1}, url : Uris \union {NullUri}]
            Listing == [on : BOOLEAN, max : 0 .. MAX_ENDPOINTS, rows : Seq(TableRow), fresh : BOOLEAN]
<1>1. /\ show \in Listing /\ endpoints_count \in 0 .. MAX_ENDPOINTS
      /\ endpoints \in [Slots -> [id : Slots, url : Uris \union {NullUri}]]
  BY DEF ConfigTypeOK
<1>2. UNCHANGED <<socket_fd, timeouts, table, setCall>>
  BY DEF ShowFirstCall, ShowNextCall
<1>3. show' \in Listing
  <2>1. CASE ShowFirstCall
    <3>1. <<>> \in Seq(TableRow)
      BY EmptySeq
    <3>. QED
      BY <1>1, <2>1, <3>1 DEF ShowFirstCall
  <2>2. CASE ShowNextCall
    <3>. DEFINE i == Len(show.rows)
    <3>1. CASE show' = [show EXCEPT !.on = FALSE]
      BY <1>1, <3>1
    <3>2. CASE SlotInUse(i) /\ show' = [show EXCEPT !.rows = Append(@, endpoints[i])]
      <4>1. show.rows \in Seq(TableRow) /\ i \in Slots
        BY <1>1, <3>2, SlotAssumption DEF SlotInUse, Slots
      <4>2. endpoints[i] \in TableRow
        BY <1>1, <4>1
      <4>3. Append(show.rows, endpoints[i]) \in Seq(TableRow)
        BY <4>1, <4>2, AppendProperties
      <4>. QED
        BY <1>1, <3>2, <4>3
    <3>3. CASE show' = [show EXCEPT !.rows = Append(@, NullRow), !.on = FALSE]
      <4>1. show.rows \in Seq(TableRow) /\ NullRow \in TableRow
        BY <1>1 DEF NullRow
      <4>2. Append(show.rows, NullRow) \in Seq(TableRow)
        BY <4>1, AppendProperties
      <4>. QED
        BY <1>1, <3>3, <4>2
    <3>. QED
      BY <2>2, <3>1, <3>2, <3>3 DEF ShowNextCall
  <2>. QED
    BY <2>1, <2>2
<1>. QED
  BY <1>2, <1>3 DEF ConfigTypeOK, timeouts, table, setCall

(* The types of the settings, and a socket while elements are added.       *)
LEMMA ConfigTypeInvariance == ConfigSpec => []ConfigTypeOK
<1>1. ConfigInit => ConfigTypeOK
  BY SlotAssumption DEF ConfigInit, ConfigTypeOK, Slots, ZeroSlot, NoShow,
     DefaultRcvTimeo, DEFAULT_RTT_TIMEOUT_MSEC
<1>2. ConfigTypeOK /\ [Config]_configVars => ConfigTypeOK'
  <2>1. ConfigTypeOK /\ UNCHANGED configVars => ConfigTypeOK'
    BY DEF configVars, ConfigTypeOK
  <2>. QED
    BY <2>1, ConfigTypeStep, ShowTypeStep DEF Config
<1>. QED
  BY <1>1, <1>2, PTL DEF ConfigSpec

(* For tables of any size and arrays of any length the settings, the table *)
(* and a listing keep their types: counts and the index within the slots   *)
(* (resolver.c:41-165).                                                    *)
THEOREM SettingsTypeCorrect == ConfigSpec => []ConfigTypeOK
BY ConfigTypeInvariance

----------------------------------------------------------------------------
(* The table is the good part of the array.  TableMatchesInput is          *)
(* inductive given the types.                                              *)

(* The places among the first n elements are finitely many, and one more   *)
(* element adds its own place, if it is good.                              *)
LEMMA GoodPlacesFacts ==
    ASSUME NEW n \in Nat
    PROVE  /\ IsFiniteSet(GoodPlaces(n))
           /\ Cardinality(GoodPlaces(n)) \in Nat
           /\ GoodPlaces(0) = {}
           /\ IF input[n + 1] \in HostUris
              THEN /\ GoodPlaces(n + 1) = GoodPlaces(n) \union {n + 1}
                   /\ Cardinality(GoodPlaces(n + 1)) = Cardinality(GoodPlaces(n)) + 1
              ELSE GoodPlaces(n + 1) = GoodPlaces(n)
<1>1. IsFiniteSet(GoodPlaces(n))
  <2>1. IsFiniteSet(1 .. n) /\ GoodPlaces(n) \subseteq 1 .. n
    BY FS_Interval DEF GoodPlaces
  <2>. QED
    BY <2>1, FS_Subset
<1>2. Cardinality(GoodPlaces(n)) \in Nat
  BY <1>1, FS_CardinalityType
<1>3. GoodPlaces(0) = {}
  BY DEF GoodPlaces
<1>4. 1 .. n + 1 = (1 .. n) \union {n + 1} /\ n + 1 \notin 1 .. n
  OBVIOUS
<1>5. CASE input[n + 1] \in HostUris
  <2>1. GoodPlaces(n + 1) = GoodPlaces(n) \union {n + 1} /\ n + 1 \notin GoodPlaces(n)
    BY <1>4, <1>5 DEF GoodPlaces
  <2>2. Cardinality(GoodPlaces(n + 1)) = Cardinality(GoodPlaces(n)) + 1
    BY <1>1, <2>1, FS_AddElement
  <2>. QED
    BY <1>1, <1>2, <1>3, <1>5, <2>1, <2>2
<1>6. CASE input[n + 1] \notin HostUris
  <2>1. GoodPlaces(n + 1) = GoodPlaces(n)
    BY <1>4, <1>6 DEF GoodPlaces
  <2>. QED
    BY <1>1, <1>2, <1>3, <1>6, <2>1
<1>. QED
  BY <1>5, <1>6

(* The places of earlier good elements are numbered by fewer.              *)
LEMMA GoodPlacesGrow ==
    ASSUME NEW n \in Nat, NEW i \in GoodPlaces(n)
    PROVE  /\ Cardinality(GoodPlaces(i)) \in 1 .. Cardinality(GoodPlaces(n))
<1>1. i \in 1 .. n /\ i \in Nat /\ input[i] \in HostUris
  BY DEF GoodPlaces
<1>2. GoodPlaces(i) \subseteq GoodPlaces(n) /\ i \in GoodPlaces(i)
  BY <1>1 DEF GoodPlaces
<1>3. IsFiniteSet(GoodPlaces(n)) /\ IsFiniteSet(GoodPlaces(i))
  BY <1>1, GoodPlacesFacts
<1>4. /\ Cardinality(GoodPlaces(i)) <= Cardinality(GoodPlaces(n))
      /\ Cardinality(GoodPlaces(n)) \in Nat /\ Cardinality(GoodPlaces(i)) \in Nat
  BY <1>2, <1>3, FS_Subset, FS_CardinalityType
<1>5. Cardinality(GoodPlaces(i)) # 0
  BY <1>2, <1>3, FS_EmptySet
<1>. QED
  BY <1>4, <1>5

(* What add_endpoint does to the URIs listed. *)
LEMMA AddListed ==
    ASSUME ConfigTypeOK, NEW uri, add_endpoint(uri)
    PROVE  /\ \A k \in 1 .. endpoints_count : Listed'[k] = Listed[k]
           /\ IF uri \in HostUris /\ endpoints_count < MAX_ENDPOINTS
              THEN /\ endpoints_count' = endpoints_count + 1
                   /\ Listed'[endpoints_count + 1] = uri
              ELSE endpoints_count' = endpoints_count
<1>1. /\ endpoints_count \in Nat /\ endpoints_count <= MAX_ENDPOINTS
      /\ MAX_ENDPOINTS \in Nat \ {0}
  BY CounterFacts
<1>2. endpoints \in [Slots -> [id : Slots, url : Uris \union {NullUri}]]
  BY DEF ConfigTypeOK
<1>3. IF uri \in HostUris /\ endpoints_count < MAX_ENDPOINTS
      THEN /\ endpoints_count' = endpoints_count + 1
           /\ endpoints' = [endpoints EXCEPT ![endpoints_count] =
                              [id |-> endpoints_count, url |-> uri]]
      ELSE endpoints_count' = endpoints_count
  BY <1>1, UriAssumption DEF add_endpoint
<1>4. \/ endpoints' = endpoints
      \/ \E e : endpoints' = [endpoints EXCEPT ![endpoints_count] = e]
  BY DEF add_endpoint
<1>5. \A k \in 1 .. endpoints_count : k - 1 \in Slots /\ k - 1 # endpoints_count
  BY <1>1 DEF Slots
<1>6. \A k \in 1 .. endpoints_count : endpoints'[k - 1] = endpoints[k - 1]
  BY <1>2, <1>4, <1>5
<1>7. \A k \in 1 .. endpoints_count : k \in 1 .. endpoints_count'
  BY <1>1, <1>3
<1>8. \A k \in 1 .. endpoints_count : Listed'[k] = Listed[k]
  BY <1>6, <1>7 DEF Listed
<1>9. CASE uri \in HostUris /\ endpoints_count < MAX_ENDPOINTS
  <2>1. endpoints'[endpoints_count].url = uri
    BY <1>1, <1>2, <1>3, <1>9 DEF Slots
  <2>2. endpoints_count + 1 \in 1 .. endpoints_count' /\ (endpoints_count + 1) - 1 = endpoints_count
    BY <1>1, <1>3, <1>9
  <2>3. Listed'[endpoints_count + 1] = uri
    BY <2>1, <2>2 DEF Listed
  <2>. QED
    BY <1>3, <1>8, <1>9, <2>3
<1>. QED
  BY <1>3, <1>8, <1>9

LEMMA MatchesElement ==
    ASSUME ConfigTypeOK, TableMatchesInput, EndpointsSetElement
    PROVE  TableMatchesInput'
<1>. DEFINE good == Cardinality(GoodPlaces(pos))
<1>1. /\ pos \in Nat /\ pos < Len(input) /\ pos' = pos + 1 /\ input' = input
      /\ \A n : GoodPlaces(n)' = GoodPlaces(n)
  BY DEF EndpointsSetElement, ConfigTypeOK, GoodPlaces
<1>2. /\ endpoints_count \in Nat /\ endpoints_count <= MAX_ENDPOINTS
      /\ MAX_ENDPOINTS \in Nat \ {0}
      /\ good \in Nat
      /\ endpoints_count = IF good < MAX_ENDPOINTS THEN good ELSE MAX_ENDPOINTS
  BY <1>1, CounterFacts, GoodPlacesFacts DEF TableMatchesInput
<1>3. CASE input[pos + 1] \notin HostUris
  <2>1. GoodPlaces(pos + 1) = GoodPlaces(pos)
    BY <1>1, <1>3, GoodPlacesFacts
  <2>2. /\ endpoints_count' = endpoints_count
        /\ \A k \in 1 .. endpoints_count : Listed'[k] = Listed[k]
    <3>1. CASE UNCHANGED table
      BY <3>1 DEF table, Listed
    <3>2. CASE add_endpoint(input[pos + 1])
      BY <1>3, <3>2, AddListed
    <3>. QED
      BY <3>1, <3>2 DEF EndpointsSetElement
  <2>3. ASSUME NEW i \in GoodPlaces(pos), Cardinality(GoodPlaces(i)) <= MAX_ENDPOINTS
        PROVE  Cardinality(GoodPlaces(i)) \in 1 .. endpoints_count
    BY <1>1, <1>2, <2>3, GoodPlacesGrow
  <2>. QED
    BY <1>1, <2>1, <2>2, <2>3 DEF TableMatchesInput
<1>4. CASE input[pos + 1] \in HostUris
  <2>1. /\ GoodPlaces(pos + 1) = GoodPlaces(pos) \union {pos + 1}
        /\ Cardinality(GoodPlaces(pos + 1)) = good + 1
    BY <1>1, <1>4, GoodPlacesFacts
  <2>2. add_endpoint(input[pos + 1])
    BY <1>4, UriAssumption DEF EndpointsSetElement
  <2>3. /\ \A k \in 1 .. endpoints_count : Listed'[k] = Listed[k]
        /\ IF endpoints_count < MAX_ENDPOINTS
           THEN /\ endpoints_count' = endpoints_count + 1
                /\ Listed'[endpoints_count + 1] = input[pos + 1]
           ELSE endpoints_count' = endpoints_count
    BY <1>4, <2>2, AddListed
  <2>4. endpoints_count' = IF good + 1 < MAX_ENDPOINTS THEN good + 1 ELSE MAX_ENDPOINTS
    BY <1>2, <2>3
  <2>5. ASSUME NEW i \in GoodPlaces(pos + 1), Cardinality(GoodPlaces(i)) <= MAX_ENDPOINTS
        PROVE  Listed'[Cardinality(GoodPlaces(i))] = input[i]
    <3>1. CASE i \in GoodPlaces(pos)
      <4>1. Cardinality(GoodPlaces(i)) \in 1 .. endpoints_count
        BY <1>1, <1>2, <2>5, <3>1, GoodPlacesGrow
      <4>. QED
        BY <2>3, <2>5, <3>1, <4>1 DEF TableMatchesInput
    <3>2. CASE i = pos + 1
      BY <1>2, <2>1, <2>3, <2>5, <3>2
    <3>. QED
      BY <2>1, <3>1, <3>2
  <2>. QED
    BY <1>1, <2>1, <2>4, <2>5 DEF TableMatchesInput
<1>. QED
  BY <1>3, <1>4

(* For tables of any size and arrays of any length, at every moment of     *)
(* lnp_endpoints_set and after it: the table is the first good URIs of the *)
(* elements read, each once and in order, as far as it has slots           *)
(* (resolver.c:100-129).                                                   *)
THEOREM TableIsRight == ConfigSpec => []TableMatchesInput
<1>1. ConfigInit => TableMatchesInput
  <2>. SUFFICES ASSUME ConfigInit PROVE TableMatchesInput
    OBVIOUS
  <2>1. pos = 0 /\ endpoints_count = 0 /\ GoodPlaces(0) = {} /\ Cardinality({}) = 0
    BY FS_EmptySet DEF ConfigInit, GoodPlaces
  <2>. QED
    BY <2>1, SlotAssumption DEF TableMatchesInput
<1>2. ConfigTypeOK /\ TableMatchesInput /\ [Config]_configVars => TableMatchesInput'
  <2>. SUFFICES ASSUME ConfigTypeOK, TableMatchesInput, [Config]_configVars
                PROVE  TableMatchesInput'
    OBVIOUS
  <2>1. ASSUME NEW in \in Inputs, EndpointsSet(in) PROVE TableMatchesInput'
    <3>1. pos' = 0 /\ endpoints_count' = 0 /\ GoodPlaces(0)' = {} /\ Cardinality({}) = 0
      BY <2>1, FS_EmptySet DEF EndpointsSet, remove_all_endpoints, GoodPlaces
    <3>. QED
      BY <3>1, SlotAssumption DEF TableMatchesInput
  <2>2. CASE UNCHANGED <<endpoints, endpoints_count, input, pos>>
    BY <2>2 DEF TableMatchesInput, GoodPlaces, Listed
  <2>3. ASSUME \/ SocketError \/ EndpointsSetDone \/ ShowFirstCall \/ ShowNextCall
               \/ \E t \in TimeoutArgs : SetTimeout(t) \/ SetRttTimeout(t)
               \/ UNCHANGED configVars
        PROVE  UNCHANGED <<endpoints, endpoints_count, input, pos>>
    BY <2>3 DEF SocketError, EndpointsSetDone, ShowFirstCall, ShowNextCall,
       SetTimeout, SetRttTimeout, configVars, table, setCall
  <2>. QED
    BY <2>1, <2>2, <2>3, MatchesElement DEF Config, ConfigNext
<1>. QED
  BY <1>1, <1>2, ConfigTypeInvariance, PTL DEF ConfigSpec

----------------------------------------------------------------------------
(* Listings.                                                               *)

(* In each backend the table stays usable, and open to elements only       *)
(* behind a socket.                                                        *)
UsableInv == EndpointsUsable /\ (pc = "adding" => socket_fd)

LEMMA UsableInvariance == ConfigSpec => []UsableInv
<1>1. ConfigInit => UsableInv
  <2>1. \A i \in Slots : ~(i < 0)
    BY SlotAssumption DEF Slots
  <2>. QED
    BY <2>1 DEF ConfigInit, EndpointsUsable, UsableInv
<1>2. ConfigTypeOK /\ UsableInv /\ [Config]_configVars => UsableInv'
  <2>. SUFFICES ASSUME ConfigTypeOK, UsableInv, [Config]_configVars PROVE UsableInv'
    OBVIOUS
  <2>1. CASE ConfigNext
    BY <2>1, UsableConfigStep DEF UsableInv
  <2>2. CASE ShowFirstCall \/ ShowNextCall \/ UNCHANGED configVars
    <3>1. UNCHANGED <<pc, socket_fd, endpoints, endpoints_count, curr_endpoint_index>>
      BY <2>2 DEF ShowFirstCall, ShowNextCall, configVars, table
    <3>. QED
      BY <3>1 DEF UsableInv, EndpointsUsable
  <2>. QED
    BY <2>1, <2>2 DEF Config
<1>. QED
  BY <1>1, <1>2, ConfigTypeInvariance, PTL DEF ConfigSpec

(* Rows shown were in use when they were shown, but for a row of NULLs at  *)
(* the end; those no lnp_endpoints_set came after are in the table, and    *)
(* the number of rows to show is that of the table.                        *)
RowsShown ==
    \A k \in 1 .. Len(show.rows) :
        \/ show.rows[k].url \in HostUris /\ show.rows[k].id = k - 1
        \/ show.rows[k] = NullRow /\ k = Len(show.rows) /\ ~show.on /\ ~show.fresh

FreshRows ==
    show.fresh =>
        /\ pc # "adding"
        /\ Len(show.rows) <= endpoints_count
        /\ show.on => show.max = endpoints_count
        /\ ~show.on => Len(show.rows) = endpoints_count
        /\ \A k \in 1 .. Len(show.rows) : show.rows[k] = endpoints[k - 1]

ShowInv == RowsShown /\ FreshRows

LEMMA NextRow ==
    ASSUME ConfigTypeOK, UsableInv, ShowInv, ShowNextCall
    PROVE  ShowInv'
<1>. DEFINE n == Len(show.rows)
<1>. DEFINE TableRow == [id : Slots \union {-1}, url : Uris \union {NullUri}]
<1>1. /\ show.rows \in Seq(TableRow) /\ n \in Nat
      /\ endpoints_count \in Nat /\ endpoints_count <= MAX_ENDPOINTS
      /\ MAX_ENDPOINTS \in Nat
  BY CounterFacts, LenProperties DEF ConfigTypeOK
<1>2. show \in [on : BOOLEAN, max : 0 .. MAX_ENDPOINTS,
                rows : Seq(TableRow), fresh : BOOLEAN]
  BY DEF ConfigTypeOK
<1>3. show.on /\ UNCHANGED <<pc, endpoints, endpoints_count>>
  BY DEF ShowNextCall, table
<1>4. CASE show' = [show EXCEPT !.on = FALSE] /\ n >= show.max
  <2>1. show'.rows = show.rows /\ show'.fresh = show.fresh /\ ~show'.on
    BY <1>2, <1>4
  <2>2. show.fresh => n = endpoints_count
    <3>1. show.fresh => show.max = endpoints_count /\ n <= endpoints_count
      BY <1>3 DEF ShowInv, FreshRows
    <3>. QED
      BY <1>1, <1>4, <3>1
  <2>. QED
    BY <1>3, <2>1, <2>2 DEF ShowInv, RowsShown, FreshRows
<1>6. CASE /\ n < show.max /\ ~SlotInUse(n)
           /\ show' = [show EXCEPT !.rows = Append(@, NullRow), !.on = FALSE]
  <2>1. show'.rows = Append(show.rows, NullRow) /\ show'.fresh = show.fresh /\ ~show'.on
    BY <1>2, <1>6
  <2>2. ~show.fresh
    BY <1>1, <1>3, <1>6 DEF ShowInv, FreshRows, SlotInUse
  <2>3. /\ Len(show'.rows) = n + 1 /\ show'.rows[n + 1] = NullRow
        /\ \A k \in 1 .. n : show'.rows[k] = show.rows[k]
    <3>1. NullRow \in TableRow
      BY DEF NullRow
    <3>. QED
      BY <1>1, <2>1, <3>1, AppendProperties
  <2>4. \A k \in 1 .. n : show.rows[k].url \in HostUris /\ show.rows[k].id = k - 1
    BY <1>3 DEF ShowInv, RowsShown
  <2>5. \A k \in 1 .. n + 1 : k \in 1 .. n \/ k = n + 1
    BY <1>1
  <2>6. RowsShown'
    BY <2>1, <2>2, <2>3, <2>4, <2>5 DEF RowsShown
  <2>. QED
    BY <2>1, <2>2, <2>6 DEF ShowInv, FreshRows
<1>5. CASE /\ n < show.max /\ SlotInUse(n)
           /\ show' = [show EXCEPT !.rows = Append(@, endpoints[n])]
  <2>1. /\ show'.rows = Append(show.rows, endpoints[n])
        /\ show'.fresh = show.fresh /\ show'.on = show.on /\ show'.max = show.max
    BY <1>2, <1>5
  <2>2. n < endpoints_count /\ n \in Slots
    BY <1>1, <1>5 DEF SlotInUse, Slots
  <2>3. endpoints[n].id = n /\ endpoints[n].url \in HostUris
    BY <2>2 DEF UsableInv, EndpointsUsable
  <2>4. /\ Len(show'.rows) = n + 1 /\ show'.rows[n + 1] = endpoints[n]
        /\ \A k \in 1 .. n : show'.rows[k] = show.rows[k]
    <3>1. endpoints[n] \in TableRow
      BY <2>2 DEF ConfigTypeOK
    <3>. QED
      BY <1>1, <2>1, <3>1, AppendProperties
  <2>5. \A k \in 1 .. n + 1 : k \in 1 .. n \/ k = n + 1
    BY <1>1
  <2>6. RowsShown'
    <3>1. n = (n + 1) - 1
      BY <1>1
    <3>2. \A k \in 1 .. n : show.rows[k].url \in HostUris /\ show.rows[k].id = k - 1
      BY <1>3 DEF ShowInv, RowsShown
    <3>. QED
      BY <2>3, <2>4, <2>5, <3>1, <3>2 DEF RowsShown
  <2>7. FreshRows'
    <3>1. n = (n + 1) - 1 /\ n + 1 <= endpoints_count
      BY <1>1, <2>2
    <3>. QED
      BY <1>3, <2>1, <2>4, <2>5, <3>1 DEF ShowInv, FreshRows
  <2>. QED
    BY <2>6, <2>7 DEF ShowInv
<1>. QED
  BY <1>4, <1>5, <1>6 DEF ShowNextCall

LEMMA ShowStep == ConfigTypeOK /\ UsableInv /\ ShowInv /\ [Config]_configVars => ShowInv'
<1>. SUFFICES ASSUME ConfigTypeOK, UsableInv, ShowInv, [Config]_configVars
              PROVE  ShowInv'
  OBVIOUS
<1>1. ASSUME NEW in \in Inputs, EndpointsSet(in) PROVE ShowInv'
  <2>1. show'.rows = show.rows /\ show'.on = show.on /\ ~show'.fresh
    BY <1>1 DEF EndpointsSet, ConfigTypeOK
  <2>. QED
    BY <2>1 DEF ShowInv, RowsShown, FreshRows
<1>2. CASE EndpointsSetElement
  <2>1. pc = "adding" /\ show' = show
    BY <1>2 DEF EndpointsSetElement
  <2>. QED
    BY <2>1 DEF ShowInv, RowsShown, FreshRows
<1>3. CASE ShowFirstCall
  <2>1. /\ show' = [on |-> TRUE, max |-> endpoints_count, rows |-> <<>>, fresh |-> TRUE]
        /\ pc' = "idle" /\ endpoints_count' = endpoints_count
    BY <1>3 DEF ShowFirstCall, table
  <2>2. Len(show'.rows) = 0 /\ 0 <= endpoints_count
    BY <2>1, CounterFacts
  <2>. QED
    BY <2>1, <2>2 DEF ShowInv, RowsShown, FreshRows
<1>4. ASSUME \/ SocketError \/ EndpointsSetDone
             \/ \E t \in TimeoutArgs : SetTimeout(t) \/ SetRttTimeout(t)
             \/ UNCHANGED configVars
      PROVE  ShowInv'
  <2>1. /\ UNCHANGED <<endpoints, endpoints_count, show>>
        /\ pc' = pc \/ pc' = "idle"
    BY <1>4 DEF SocketError, EndpointsSetDone, SetTimeout, SetRttTimeout, configVars, table
  <2>. QED
    BY <2>1 DEF ShowInv, RowsShown, FreshRows
<1>. QED
  BY <1>1, <1>2, <1>3, <1>4, NextRow DEF Config, ConfigNext

(* For tables of any size, whatever runs between two rows: every row shown *)
(* was an endpoint in use, or ends a listing that an lnp_endpoints_set has *)
(* come into; and one that none came between is the table                  *)
(* (f_lnp_endpoints_show.c:42-70).                                         *)
THEOREM ListingIsRight == ConfigSpec => []ShowMatchesTable
<1>1. ConfigInit => ShowInv
  BY DEF ConfigInit, NoShow, ShowInv, RowsShown, FreshRows
<1>2. ShowInv => ShowMatchesTable
  <2>. SUFFICES ASSUME ShowInv PROVE ShowMatchesTable
    OBVIOUS
  <2>1. ASSUME show.fresh, ~show.on
        PROVE  [i \in 1 .. Len(show.rows) |-> show.rows[i].url] = Listed
    BY <2>1 DEF ShowInv, FreshRows, Listed
  <2>. QED
    BY <2>1 DEF ShowInv, RowsShown, ShowMatchesTable
<1>. QED
  BY <1>1, <1>2, ShowStep, ConfigTypeInvariance, UsableInvariance, PTL DEF ConfigSpec

----------------------------------------------------------------------------
(* Type correctness. *)

(* The calls that are under way have an endpoint to talk to; together with *)
(* the types this is inductive.                                            *)
TypeInv == TypeOK /\ CallHasEndpoint

(* What the steps of resolve leave alone keeps its type. *)
LEMMA SettingsKept ==
    ASSUME ConfigTypeOK, UNCHANGED settings, curr_endpoint_index' \in Slots
    PROVE  ConfigTypeOK' /\ endpoints_count' = endpoints_count
BY DEF ConfigTypeOK, settings, Slots

(* A request id is an id. *)
LEMMA IdFacts ==
    ASSUME CallTypeOK, gen_request_id
    PROVE  req_id' \in Ids /\ taken' \in Nat
<1>0. req_id \in Ids /\ taken \in Nat
  BY DEF CallTypeOK
<1>1. req_id + 1 \in Nat /\ ID_MOD \in Nat \ {0}
  BY <1>0, IdAssumption DEF Ids
<1>2. (req_id + 1) % ID_MOD \in Ids
  BY <1>1, ModFacts DEF Ids
<1>. QED
  BY <1>0, <1>2, IdAssumption DEF gen_request_id, Ids

(* Ending a call keeps the types of its locals. *)
LEMMA ReturnFacts ==
    ASSUME NEW how \in {"ok", "fail", "raised"}, NEW reply \in Nat,
           NEW err \in Errors, Return(how, reply, err)
    PROVE  /\ pc' = "idle" /\ req' \in Requests /\ error' \in Errors
           /\ endpoints_left' \in 0 .. MAX_ENDPOINTS
           /\ result' \in Outcomes /\ tried' \in Seq(Slots)
           /\ CallHasEndpoint'
<1>1. NoRequest \in Requests
  BY DEF NoRequest, Requests, ReqTypes
<1>2. Outcome(how, reply) \in Outcomes
  BY DEF Outcome, Outcomes
<1>3. <<>> \in Seq(Slots)
  BY EmptySeq
<1>4. 0 \in 0 .. MAX_ENDPOINTS
  BY SlotAssumption
<1>. QED
  BY <1>1, <1>2, <1>3, <1>4 DEF Return, CallHasEndpoint, InCall

(* A step that ends the call and touches nothing but its locals. *)
LEMMA EndOfCall ==
    ASSUME TypeInv, UNCHANGED <<settings, curr_endpoint_index, sent, arrived>>,
           req_id' \in Ids, taken' \in Nat, inbox' \in Seq(Received),
           NEW how \in {"ok", "fail", "raised"}, NEW reply \in Nat,
           NEW err \in Errors, Return(how, reply, err)
    PROVE  TypeInv'
<1>1. ConfigTypeOK'
  BY SettingsKept, CounterFacts DEF TypeInv, TypeOK
<1>2. CallTypeOK' /\ tried' \in Seq(Slots) /\ CallHasEndpoint'
  BY ReturnFacts DEF CallTypeOK
<1>3. NetTypeOK'
  BY <1>2 DEF NetTypeOK, TypeInv, TypeOK
<1>. QED
  BY <1>1, <1>2, <1>3 DEF TypeInv, TypeOK

(* A new backend has the right types. *)
LEMMA TypeInit == Init => TypeInv
<1>. SUFFICES ASSUME Init PROVE TypeInv
  OBVIOUS
<1>1. ConfigTypeOK
  BY SlotAssumption DEF Init, ConfigInit, ConfigTypeOK, Slots, ZeroSlot, NoShow,
     DefaultRcvTimeo, DEFAULT_RTT_TIMEOUT_MSEC
<1>2. NoRequest \in Requests /\ NoOutcome \in Outcomes /\ 0 \in Ids
  BY IdAssumption DEF NoRequest, NoOutcome, Outcome, Requests, ReqTypes, Outcomes, Ids
<1>3. CallTypeOK /\ CallHasEndpoint
  BY <1>2, SlotAssumption DEF Init, ConfigInit, ResolverInit, CallTypeOK,
     CallHasEndpoint, InCall, Errors
<1>4. NetTypeOK
  BY EmptySeq DEF Init, ResolverInit, NetTypeOK
<1>. QED
  BY <1>1, <1>3, <1>4 DEF TypeInv, TypeOK

(* Every step keeps the types, and keeps a call to a table that is not empty. *)
LEMMA TypeStep == TypeInv /\ [Next]_vars => TypeInv'
<1>. SUFFICES ASSUME TypeInv, [Next]_vars
              PROVE  TypeInv'
  OBVIOUS
<1>0. ConfigTypeOK /\ CallTypeOK /\ NetTypeOK /\ CallHasEndpoint
  BY DEF TypeInv, TypeOK
<1>a. /\ endpoints_count \in Nat /\ endpoints_count <= MAX_ENDPOINTS
      /\ MAX_ENDPOINTS \in Nat \ {0}
      /\ curr_endpoint_index \in Slots
      /\ \A i \in 0 .. endpoints_count - 1 : i \in Slots
      /\ pc \in InCall => endpoints_count > 0
  BY <1>0, CounterFacts DEF CallHasEndpoint
<1>b. req_id \in Ids /\ taken \in Nat /\ inbox \in Seq(Received)
  BY <1>0 DEF CallTypeOK, NetTypeOK
<1>1. CASE ConfigNext /\ UNCHANGED resolverVars
  <2>1. ConfigTypeOK'
    BY <1>0, <1>1, ConfigTypeStep
  <2>2. pc' \in {"idle", "adding"}
    BY <1>0, <1>1 DEF ConfigNext, SocketError, EndpointsSet, EndpointsSetElement,
       EndpointsSetDone, SetTimeout, SetRttTimeout
  <2>3. CallTypeOK' /\ NetTypeOK' /\ CallHasEndpoint'
    BY <1>0, <1>1, <2>2 DEF CallTypeOK, NetTypeOK, CallHasEndpoint, InCall, resolverVars
  <2>. QED
    BY <2>1, <2>3 DEF TypeInv, TypeOK
<1>2. ASSUME NEW type \in ReqTypes, NEW size \in DataSizes, ResolveCall(type, size)
      PROVE  TypeInv'
  <2>1. UNCHANGED <<settings, req_id, taken, sent, arrived, inbox>>
    BY <1>2 DEF ResolveCall, net
  <2>2. CASE endpoints_count <= 0
    <3>1. Return("fail", 0, "no endpoints") /\ UNCHANGED curr_endpoint_index
      BY <1>2, <2>2 DEF ResolveCall
    <3>. QED
      BY <1>b, <2>1, <3>1, EndOfCall DEF Errors
  <2>3. CASE endpoints_count > 0
    <3>0. ~(endpoints_count <= 0)
      BY <1>a, <2>3
    <3>1. /\ pc' = "loop" /\ req' = [type |-> type, size |-> size]
          /\ endpoints_left' = endpoints_count
          /\ curr_endpoint_index' = CurrentIndex
          /\ result' = NoOutcome /\ error' = "none" /\ tried' = <<>>
      BY <1>2, <3>0, Zenon DEF ResolveCall
    <3>2. CurrentIndex \in Slots
      BY <1>0, <1>a, <2>3, NextIndexFacts DEF CurrentIndex
    <3>3. ConfigTypeOK' /\ endpoints_count' > 0
      BY <1>0, <2>1, <2>3, <3>1, <3>2, SettingsKept
    <3>4. req' \in Requests /\ result' \in Outcomes /\ endpoints_left' \in 0 .. MAX_ENDPOINTS
      BY <1>a, <3>1, DataAssumption DEF Requests, NoOutcome, Outcome, Outcomes
    <3>5. CallTypeOK' /\ CallHasEndpoint'
      BY <1>b, <2>1, <3>1, <3>3, <3>4 DEF CallTypeOK, CallHasEndpoint, InCall, Errors
    <3>6. NetTypeOK'
      BY <1>0, <2>1, <3>1, EmptySeq DEF NetTypeOK
    <3>. QED
      BY <3>3, <3>5, <3>6 DEF TypeInv, TypeOK
  <2>. QED
    BY <1>a, <2>2, <2>3
<1>3. CASE RequestTooLong \/ SendRaises
  <2>1. /\ UNCHANGED <<settings, curr_endpoint_index, sent, arrived, inbox>>
        /\ gen_request_id
        /\ Return("fail", 0, "too long") \/ Return("raised", 0, "send")
    BY <1>3 DEF RequestTooLong, SendRaises, net
  <2>2. req_id' \in Ids /\ taken' \in Nat /\ inbox' \in Seq(Received)
    BY <1>0, <1>b, <2>1, IdFacts
  <2>. QED
    BY <2>1, <2>2, EndOfCall DEF Errors
<1>4. CASE SendRequest
  <2>1. /\ UNCHANGED <<settings, curr_endpoint_index, req, error, result, inbox>>
        /\ gen_request_id /\ pc' = "poll" /\ pc \in InCall
        /\ endpoints_left > 0 /\ endpoints_left' = endpoints_left - 1
        /\ tried' = Append(tried, curr_endpoint_index)
        /\ arrived' = Append(arrived, 0)
        /\ sent' = Append(sent, [id |-> req_id', type |-> req.type,
                                 to |-> endpoints[curr_endpoint_index].url])
    BY <1>4 DEF SendRequest, send_data, InCall
  <2>2. ConfigTypeOK' /\ endpoints_count' > 0
    BY <1>0, <1>a, <2>1, SettingsKept
  <2>3. req_id' \in Ids /\ taken' \in Nat
    BY <1>0, <2>1, IdFacts
  <2>4. endpoints_left' \in 0 .. MAX_ENDPOINTS
    BY <1>0, <1>a, <2>1 DEF CallTypeOK
  <2>5. CallTypeOK' /\ CallHasEndpoint'
    BY <1>0, <2>1, <2>2, <2>3, <2>4 DEF CallTypeOK, CallHasEndpoint, InCall
  <2>6. endpoints[curr_endpoint_index].url \in Uris \union {NullUri}
    <3>1. endpoints[curr_endpoint_index] \in [id : Slots, url : Uris \union {NullUri}]
      BY <1>0, <1>a DEF ConfigTypeOK
    <3>. QED
      BY <3>1
  <2>7. req.type \in ReqTypes
    BY <1>0 DEF CallTypeOK, Requests
  <2>8. [id |-> req_id', type |-> req.type, to |-> endpoints[curr_endpoint_index].url]
          \in SentRequests
    BY <2>3, <2>6, <2>7 DEF SentRequests
  <2>9. sent \in Seq(SentRequests) /\ arrived \in Seq(Nat) /\ tried \in Seq(Slots)
        /\ Len(arrived) = Len(sent)
    BY <1>0 DEF NetTypeOK
  <2>10. sent' \in Seq(SentRequests) /\ Len(sent') = Len(sent) + 1
    BY <2>1, <2>8, <2>9, AppendProperties
  <2>11. arrived' \in Seq(Nat) /\ Len(arrived') = Len(arrived) + 1
    BY <2>1, <2>9, AppendProperties
  <2>12. tried' \in Seq(Slots)
    BY <1>a, <2>1, <2>9, AppendProperties
  <2>13. NetTypeOK'
    BY <1>b, <2>1, <2>9, <2>10, <2>11, <2>12 DEF NetTypeOK
  <2>. QED
    BY <2>2, <2>5, <2>13 DEF TypeInv, TypeOK
<1>5. CASE PollTimeout \/ PollError
  <2>1. /\ UNCHANGED <<settings, req_id, taken, req, endpoints_left, result, sent,
                       tried, arrived, inbox>>
        /\ error' \in Errors /\ pc' = "loop" /\ pc \in InCall
        /\ curr_endpoint_index' = NextIndex
    BY <1>5 DEF PollTimeout, PollError, TakeNext, InCall, net, Errors
  <2>2. NextIndex \in Slots
    BY <1>0, <1>a, <2>1, NextIndexFacts
  <2>3. ConfigTypeOK' /\ endpoints_count' > 0
    BY <1>0, <1>a, <2>1, <2>2, SettingsKept
  <2>4. CallTypeOK' /\ NetTypeOK' /\ CallHasEndpoint'
    BY <1>0, <2>1, <2>3 DEF CallTypeOK, NetTypeOK, CallHasEndpoint, InCall
  <2>. QED
    BY <2>3, <2>4 DEF TypeInv, TypeOK
<1>6. CASE PollReady
  <2>1. /\ UNCHANGED <<settings, curr_endpoint_index, req_id, taken, req, endpoints_left,
                       result, sent, tried, arrived, inbox>>
        /\ error' = "none" /\ pc' = "recv" /\ pc \in InCall
    BY <1>6 DEF PollReady, InCall, net
  <2>2. ConfigTypeOK' /\ endpoints_count' > 0
    BY <1>0, <1>a, <2>1, SettingsKept
  <2>3. CallTypeOK' /\ NetTypeOK' /\ CallHasEndpoint'
    BY <1>0, <2>1, <2>2 DEF CallTypeOK, NetTypeOK, CallHasEndpoint, InCall, Errors
  <2>. QED
    BY <2>2, <2>3 DEF TypeInv, TypeOK
<1>7. CASE RecvTimeout \/ RecvError \/ Exhausted
  <2>1. UNCHANGED <<settings, curr_endpoint_index, req_id, taken, sent, arrived, inbox>>
    BY <1>7 DEF RecvTimeout, RecvError, Exhausted, net
  <2>2. PICK err \in Errors : Return("fail", 0, err)
    <3>1. error \in Errors
      BY <1>0 DEF CallTypeOK
    <3>2. Exhausted => \E err \in Errors : Return("fail", 0, err)
      BY <3>1 DEF Exhausted, Errors
    <3>. QED
      BY <1>7, <3>2 DEF RecvTimeout, RecvError, Errors
  <2>. QED
    BY <1>b, <2>1, <2>2, EndOfCall
<1>8. CASE Receive
  <2>1. /\ UNCHANGED <<settings, curr_endpoint_index, req_id, taken, sent, arrived>>
        /\ inbox # <<>> /\ inbox' = Tail(inbox)
    BY <1>8 DEF Receive
  <2>2. inbox' \in Seq(Received) /\ Head(inbox) \in Received
    BY <1>b, <2>1, HeadTailProperties
  <2>3. Head(inbox).serial \in Nat
    BY <2>2 DEF Received
  <2>4. CASE UNCHANGED <<pc, call>>
    <3>1. ConfigTypeOK' /\ endpoints_count' = endpoints_count
      BY <1>0, <1>a, <2>1, SettingsKept
    <3>2. CallTypeOK' /\ NetTypeOK' /\ CallHasEndpoint'
      BY <1>0, <2>1, <2>2, <2>4, <3>1 DEF CallTypeOK, NetTypeOK, CallHasEndpoint, call
    <3>. QED
      BY <3>1, <3>2 DEF TypeInv, TypeOK
  <2>5. ASSUME NEW how \in {"ok", "fail"}, NEW err \in Errors,
               Return(how, Head(inbox).serial, err)
        PROVE  TypeInv'
    BY <1>b, <2>1, <2>2, <2>3, <2>5, EndOfCall
  <2>6. error \in Errors /\ "bad" \in Errors /\ "remote" \in Errors
    BY <1>0 DEF CallTypeOK, Errors
  <2>. QED
    BY <1>8, <2>4, <2>5, <2>6 DEF Receive
<1>9. CASE Deliveries
  <2>1. PICK i \in 1 .. Len(sent) :
          \E body \in Replies[sent[i].type] : Deliver(i, body)
    BY <1>9 DEF Deliveries
  <2>2. PICK body \in Replies[sent[i].type] : Deliver(i, body)
    BY <2>1
  <2>3. /\ sent \in Seq(SentRequests) /\ Len(sent) \in Nat
        /\ arrived \in Seq(Nat) /\ Len(arrived) = Len(sent)
    BY <1>0, LenProperties DEF NetTypeOK
  <2>4. sent[i] \in SentRequests /\ arrived[i] \in Nat /\ i \in Nat
    BY <2>3, ElementOfSeq
  <2>5. sent[i].id \in Ids /\ sent[i].type \in ReqTypes
    BY <2>4 DEF SentRequests
  <2>6. body \in Datagrams
    BY <2>5, RepliesAssumption
  <2>7. [id |-> sent[i].id, body |-> body, serial |-> i] \in Received
    BY <2>4, <2>5, <2>6 DEF Received
  <2>8. inbox' \in Seq(Received)
    BY <1>b, <2>2, <2>7, AppendProperties DEF Deliver
  <2>9. arrived' = [arrived EXCEPT ![i] = arrived[i] + 1]
    BY <2>2 DEF Deliver
  <2>10. arrived' \in Seq(Nat) /\ Len(arrived') = Len(sent)
    <3>1. i \in 1 .. Len(arrived) /\ arrived[i] + 1 \in Nat
      BY <2>3, <2>4
    <3>. QED
      BY <2>3, <2>9, <3>1, ExceptSeq
  <2>11. UNCHANGED <<pc, settings, curr_endpoint_index, req_id, taken, call, sent>>
    BY <2>2 DEF Deliver
  <2>12. ConfigTypeOK' /\ endpoints_count' = endpoints_count
    BY <1>0, <1>a, <2>11, SettingsKept
  <2>13. CallTypeOK' /\ NetTypeOK' /\ CallHasEndpoint'
    BY <1>0, <2>8, <2>10, <2>11, <2>12 DEF CallTypeOK, NetTypeOK, CallHasEndpoint, call
  <2>. QED
    BY <2>12, <2>13 DEF TypeInv, TypeOK
<1>10. CASE UNCHANGED vars
  <2>1. UNCHANGED <<settings, curr_endpoint_index>>
    BY <1>10 DEF vars, settings
  <2>2. ConfigTypeOK' /\ endpoints_count' = endpoints_count
    BY <1>0, <1>a, <2>1, SettingsKept
  <2>3. CallTypeOK' /\ NetTypeOK' /\ CallHasEndpoint'
    BY <1>0, <1>10, <2>2 DEF CallTypeOK, NetTypeOK, CallHasEndpoint, vars
  <2>. QED
    BY <2>2, <2>3 DEF TypeInv, TypeOK
<1>. QED
  BY <1>1, <1>2, <1>3, <1>4, <1>5, <1>6, <1>7, <1>8, <1>9, <1>10
     DEF Next, Progress, SystemError

(* Hence the types always hold. *)
LEMMA TypeInvariance == Spec => []TypeInv
BY TypeInit, TypeStep, PTL DEF Spec

(* Type correctness of the settings, the calls and the socket's buffer. *)
THEOREM TypeCorrect == Spec => []TypeOK
BY TypeInvariance, PTL DEF TypeInv

----------------------------------------------------------------------------
(* The endpoint table.  EndpointsUsable is inductive given the types: only *)
(* resolve moves the index, and only while the table is not empty; only    *)
(* lnp_endpoints_set changes the table, and it resets the index.           *)

(* resolve moves the index inside the table or not at all. *)
LEMMA UsableResolveStep ==
    ASSUME ConfigTypeOK, EndpointsUsable, UNCHANGED settings,
           \/ UNCHANGED curr_endpoint_index
           \/ endpoints_count > 0 /\ curr_endpoint_index' \in {NextIndex, CurrentIndex}
    PROVE  EndpointsUsable'
<1>1. UNCHANGED <<endpoints, endpoints_count, socket_fd>>
  BY DEF settings
<1>2. endpoints_count > 0 => NextIndex < endpoints_count /\ CurrentIndex < endpoints_count
  BY NextIndexFacts, CounterFacts DEF CurrentIndex
<1>3. IndexInTable'
  BY <1>1, <1>2 DEF EndpointsUsable, IndexInTable
<1>4. SlotsGood' /\ SocketOpen'
  BY <1>1 DEF EndpointsUsable, SlotsGood, SocketOpen
<1>. QED
  BY <1>3, <1>4 DEF EndpointsUsable, IndexInTable, SlotsGood, SocketOpen

(* The steps of resolve, of its caller and of the network, as seen by the  *)
(* endpoint table.                                                         *)
LEMMA TableSteps ==
    ASSUME TypeInv, [Next]_vars, ~(ConfigNext /\ UNCHANGED resolverVars)
    PROVE  /\ UNCHANGED settings
           /\ pc' # "adding" \/ pc' = pc
           /\ \/ UNCHANGED curr_endpoint_index
              \/ endpoints_count > 0 /\ curr_endpoint_index' \in {NextIndex, CurrentIndex}
<1>0. endpoints_count \in Nat /\ (pc \in InCall => endpoints_count > 0)
  BY CounterFacts DEF TypeInv, TypeOK, CallHasEndpoint
<1>1. ASSUME NEW type \in ReqTypes, NEW size \in DataSizes, ResolveCall(type, size)
      PROVE  /\ UNCHANGED settings /\ pc' # "adding"
             /\ \/ UNCHANGED curr_endpoint_index
                \/ endpoints_count > 0 /\ curr_endpoint_index' = CurrentIndex
  <2>1. UNCHANGED settings
    BY <1>1 DEF ResolveCall
  <2>2. CASE endpoints_count <= 0
    BY <1>1, <2>1, <2>2 DEF ResolveCall, Return
  <2>3. CASE ~(endpoints_count <= 0)
    <3>1. pc' = "loop" /\ curr_endpoint_index' = CurrentIndex
      BY <1>1, <2>3, Zenon DEF ResolveCall
    <3>2. endpoints_count > 0
      BY <1>0, <2>3
    <3>. QED
      BY <2>1, <3>1, <3>2
  <2>. QED
    BY <2>2, <2>3
<1>2. CASE Progress \/ SystemError
  BY <1>0, <1>2 DEF Progress, SystemError, RequestTooLong, SendRaises, SendRequest,
     PollTimeout, PollError, TakeNext, PollReady, RecvTimeout, RecvError, Receive,
     Exhausted, Return, InCall
<1>3. CASE Deliveries
  BY <1>3 DEF Deliveries, Deliver
<1>4. CASE UNCHANGED vars
  BY <1>4 DEF vars, settings
<1>. QED
  BY <1>1, <1>2, <1>3, <1>4 DEF Next

(* Whatever arrays lnp_endpoints_set is given and however calls fail over, *)
(* the current endpoint is a good one of the table: get_next_endpoint      *)
(* never divides by zero, resolve never meets a NULL endpoint.             *)
THEOREM EndpointsAlwaysUsable == Spec => []EndpointsUsable
<1>. DEFINE J == EndpointsUsable /\ (pc = "adding" => socket_fd)
<1>1. Init => J
  <2>1. \A i \in Slots : ~(i < 0)
    BY SlotAssumption DEF Slots
  <2>. QED
    BY <2>1 DEF Init, ConfigInit, EndpointsUsable
<1>2. TypeInv /\ J /\ [Next]_vars => J'
  <2>. SUFFICES ASSUME TypeInv, J, [Next]_vars PROVE J'
    OBVIOUS
  <2>0. ConfigTypeOK
    BY DEF TypeInv, TypeOK
  <2>1. CASE ConfigNext /\ UNCHANGED resolverVars
    BY <2>0, <2>1, UsableConfigStep
  <2>2. CASE ~(ConfigNext /\ UNCHANGED resolverVars)
    <3>1. EndpointsUsable'
      BY <2>0, <2>2, TableSteps, UsableResolveStep
    <3>2. UNCHANGED socket_fd /\ (pc' # "adding" \/ pc' = pc)
      BY <2>2, TableSteps DEF settings
    <3>. QED
      BY <3>1, <3>2
  <2>. QED
    BY <2>1, <2>2
<1>. QED
  BY <1>1, <1>2, TypeInvariance, PTL DEF Spec

----------------------------------------------------------------------------
(* Answers.  An answer is recognised by its id alone, so the argument is   *)
(* about ids: as long as they do not wrap they grow from request to        *)
(* request, and the id of the latest one belongs to no other.              *)

(* rand() starts above zero and the ids taken do not reach 2^32. *)
NoWrap == \A r \in RandValues : r > 0 /\ r + MaxIds < ID_MOD

(* The ids taken are consecutive, and a call only starts with enough left. *)
IdsConsecutive ==
    /\ taken + endpoints_left <= MaxIds
    /\ taken = 0 => req_id = 0
    /\ taken > 0 => \E r \in RandValues : req_id = r + taken - 1

(* The ids of the requests sent grow, up to the last one taken. *)
SentIdsGrow ==
    /\ \A i \in 1 .. Len(sent) : sent[i].id <= req_id
    /\ \A i, j \in 1 .. Len(sent) : i < j => sent[i].id < sent[j].id

(* While a call waits for a reply, its latest request has the last id. *)
LatestHasId ==
    pc \in {"poll", "recv"} => Len(sent) > 0 /\ sent[Len(sent)].id = req_id

(* A datagram waiting in the socket bears the id of the request it is for. *)
InboxIdsTrue ==
    \A k \in 1 .. Len(inbox) :
        /\ inbox[k].serial \in 1 .. Len(sent)
        /\ inbox[k].id = sent[inbox[k].serial].id

(* No outcome until the call is over. *)
OutcomePending == pc \in InCall => result.ret = "none"

IdInv == IdsConsecutive /\ SentIdsGrow /\ LatestHasId /\ InboxIdsTrue /\ OutcomePending

(* What is known of the sequences and counters in a typed state. *)
LEMMA NetFacts ==
    ASSUME TypeInv
    PROVE  /\ sent \in Seq(SentRequests) /\ Len(sent) \in Nat
           /\ \A i \in 1 .. Len(sent) : sent[i].id \in Nat
           /\ inbox \in Seq(Received) /\ Len(inbox) \in Nat
           /\ req_id \in Nat /\ taken \in Nat /\ endpoints_left \in Nat
           /\ MaxIds \in Nat /\ ID_MOD \in Nat
<1>1. sent \in Seq(SentRequests) /\ inbox \in Seq(Received)
  BY DEF TypeInv, TypeOK, NetTypeOK
<1>2. Len(sent) \in Nat /\ Len(inbox) \in Nat
  BY <1>1, LenProperties
<1>3. \A i \in 1 .. Len(sent) : sent[i] \in SentRequests
  BY <1>1, ElementOfSeq
<1>4. \A i \in 1 .. Len(sent) : sent[i].id \in Nat
  BY <1>3, IdAssumption DEF SentRequests, Ids
<1>5. req_id \in Nat /\ taken \in Nat /\ endpoints_left \in Nat
  BY IdAssumption, SlotAssumption DEF TypeInv, TypeOK, CallTypeOK, Ids
<1>. QED
  BY <1>1, <1>2, <1>4, <1>5, IdAssumption, NetBoundAssumption

(* gen_request_id returns a larger id than ever before. *)
LEMMA IdGrows ==
    ASSUME TypeInv, NoWrap, IdsConsecutive, gen_request_id, endpoints_left > 0
    PROVE  /\ req_id' \in Nat /\ req_id' > req_id
           /\ taken' = taken + 1
           /\ \E r \in RandValues : req_id' = r + taken' - 1
<1>0. req_id \in Nat /\ taken \in Nat /\ endpoints_left \in Nat /\ MaxIds \in Nat
      /\ ID_MOD \in Nat /\ RandValues \subseteq Nat
  BY NetFacts, IdAssumption
<1>1. taken + endpoints_left <= MaxIds /\ taken' = taken + 1
  BY DEF IdsConsecutive, gen_request_id
<1>2. CASE taken = 0
  <2>1. req_id = 0 /\ req_id' \in RandValues
    BY <1>2 DEF IdsConsecutive, gen_request_id
  <2>2. req_id' \in Nat /\ req_id' > 0
    BY <1>0, <2>1 DEF NoWrap
  <2>. QED
    BY <1>1, <1>2, <2>1, <2>2
<1>3. CASE taken > 0
  <2>1. PICK r \in RandValues : req_id = r + taken - 1
    BY <1>3 DEF IdsConsecutive
  <2>2. r \in Nat /\ r > 0 /\ r + MaxIds < ID_MOD
    BY <1>0 DEF NoWrap
  <2>3. req_id # 0 /\ req_id + 1 < ID_MOD
    BY <1>0, <1>1, <1>3, <2>1, <2>2
  <2>4. (req_id + 1) % ID_MOD = req_id + 1
    BY <1>0, <2>3, ModSmall
  <2>5. req_id' = req_id + 1
    BY <2>3, <2>4 DEF gen_request_id
  <2>6. req_id' = r + taken' - 1
    BY <1>0, <1>1, <2>1, <2>2, <2>5
  <2>. QED
    BY <1>0, <1>1, <2>5, <2>6
<1>. QED
  BY <1>0, <1>2, <1>3

(* A step that ends the call and sends nothing. *)
LEMMA IdEndOfCall ==
    ASSUME TypeInv, IdInv, UNCHANGED sent,
           NEW how, NEW reply, NEW err, Return(how, reply, err),
           \/ UNCHANGED <<req_id, taken>>
           \/ NoWrap /\ gen_request_id /\ endpoints_left > 0,
           InboxIdsTrue'
    PROVE  IdInv'
<1>0. /\ req_id \in Nat /\ taken \in Nat /\ endpoints_left \in Nat /\ MaxIds \in Nat
      /\ \A i \in 1 .. Len(sent) : sent[i].id \in Nat
  BY NetFacts
<1>1. endpoints_left' = 0 /\ pc' = "idle"
  BY DEF Return
<1>2. OutcomePending' /\ LatestHasId'
  BY <1>1 DEF OutcomePending, LatestHasId, InCall
<1>3. CASE UNCHANGED <<req_id, taken>>
  <2>1. IdsConsecutive'
    BY <1>0, <1>1, <1>3 DEF IdInv, IdsConsecutive
  <2>2. SentIdsGrow'
    BY <1>3 DEF IdInv, SentIdsGrow
  <2>. QED
    BY <1>2, <2>1, <2>2 DEF IdInv
<1>4. CASE NoWrap /\ gen_request_id /\ endpoints_left > 0
  <2>1. /\ req_id' \in Nat /\ req_id' > req_id /\ taken' = taken + 1
        /\ \E r \in RandValues : req_id' = r + taken' - 1
    BY <1>4, IdGrows DEF IdInv
  <2>2. IdsConsecutive'
    <3>1. taken' + endpoints_left' <= MaxIds /\ taken' # 0
      BY <1>0, <1>1, <1>4, <2>1 DEF IdInv, IdsConsecutive
    <3>. QED
      BY <2>1, <3>1 DEF IdsConsecutive
  <2>3. SentIdsGrow'
    <3>1. \A i \in 1 .. Len(sent) : sent[i].id <= req_id'
      BY <1>0, <2>1 DEF IdInv, SentIdsGrow
    <3>. QED
      BY <3>1 DEF IdInv, SentIdsGrow
  <2>. QED
    BY <1>2, <2>2, <2>3 DEF IdInv
<1>. QED
  BY <1>3, <1>4

(* A step that only moves the call on, or that a datagram arrives in. *)
LEMMA IdKept ==
    ASSUME TypeInv, IdInv,
           UNCHANGED <<req_id, taken, endpoints_left, result, sent>>,
           pc' \in {"poll", "recv"} => pc \in {"poll", "recv"},
           pc' \in InCall => pc \in InCall,
           InboxIdsTrue'
    PROVE  IdInv'
BY DEF IdInv, IdsConsecutive, SentIdsGrow, LatestHasId, OutcomePending

(* Every step keeps the ids in order. *)
LEMMA IdStep ==
    ASSUME NoWrap
    PROVE  TypeInv /\ IdInv /\ [Next]_vars => IdInv'
<1>. SUFFICES ASSUME TypeInv, IdInv, [Next]_vars
              PROVE  IdInv'
  OBVIOUS
<1>0. /\ sent \in Seq(SentRequests) /\ Len(sent) \in Nat
      /\ \A i \in 1 .. Len(sent) : sent[i].id \in Nat
      /\ inbox \in Seq(Received) /\ Len(inbox) \in Nat
      /\ req_id \in Nat /\ taken \in Nat /\ endpoints_left \in Nat
      /\ MaxIds \in Nat
  BY NetFacts
<1>a. UNCHANGED <<sent, inbox>> => InboxIdsTrue'
  BY DEF IdInv, InboxIdsTrue
<1>1. CASE ConfigNext /\ UNCHANGED resolverVars
  <2>1. UNCHANGED <<req_id, taken, endpoints_left, result, sent, inbox>>
    BY <1>1 DEF resolverVars
  <2>2. pc' \in {"idle", "adding"}
    BY <1>1 DEF ConfigNext, SocketError, EndpointsSet, EndpointsSetElement,
       EndpointsSetDone, SetTimeout, SetRttTimeout
  <2>. QED
    BY <1>a, <2>1, <2>2, IdKept DEF InCall
<1>2. ASSUME NEW type \in ReqTypes, NEW size \in DataSizes, ResolveCall(type, size)
      PROVE  IdInv'
  <2>1. UNCHANGED <<req_id, taken, sent, inbox>> /\ taken + endpoints_count <= MaxIds
    BY <1>2 DEF ResolveCall, net
  <2>2. CASE endpoints_count <= 0
    <3>1. Return("fail", 0, "no endpoints")
      BY <1>2, <2>2 DEF ResolveCall
    <3>. QED
      BY <1>a, <2>1, <3>1, IdEndOfCall
  <2>3. CASE ~(endpoints_count <= 0)
    <3>1. pc' = "loop" /\ endpoints_left' = endpoints_count /\ result' = NoOutcome
      BY <1>2, <2>3, Zenon DEF ResolveCall
    <3>2. OutcomePending' /\ LatestHasId'
      BY <3>1 DEF OutcomePending, LatestHasId, NoOutcome, Outcome
    <3>3. IdsConsecutive' /\ SentIdsGrow'
      BY <2>1, <3>1 DEF IdInv, IdsConsecutive, SentIdsGrow
    <3>. QED
      BY <1>a, <2>1, <3>2, <3>3 DEF IdInv
  <2>. QED
    BY <2>2, <2>3
<1>3. CASE RequestTooLong \/ SendRaises
  <2>1. /\ gen_request_id /\ endpoints_left > 0 /\ UNCHANGED <<sent, inbox>>
        /\ \E how, err : Return(how, 0, err)
    BY <1>3 DEF RequestTooLong, SendRaises, net
  <2>. QED
    BY <1>a, <2>1, IdEndOfCall
<1>4. CASE SendRequest
  <2>1. /\ gen_request_id /\ endpoints_left > 0 /\ endpoints_left' = endpoints_left - 1
        /\ UNCHANGED <<result, inbox>> /\ pc = "loop" /\ pc' = "poll"
    BY <1>4 DEF SendRequest
  <2>2. /\ req_id' \in Nat /\ req_id' > req_id /\ taken' = taken + 1
        /\ \E r \in RandValues : req_id' = r + taken' - 1
    BY <2>1, IdGrows DEF IdInv
  <2>. DEFINE new == [id |-> req_id', type |-> req.type,
                      to |-> endpoints[curr_endpoint_index].url]
  <2>3. sent' = Append(sent, new) /\ new.id = req_id'
    BY <1>4 DEF SendRequest, send_data
  <2>. HIDE DEF new
  <2>4. /\ Len(sent') = Len(sent) + 1 /\ sent'[Len(sent) + 1] = new
        /\ \A i \in 1 .. Len(sent) : sent'[i] = sent[i]
    BY <1>0, <2>3
  <2>5. IdsConsecutive'
    <3>1. taken' + endpoints_left' <= MaxIds /\ taken' # 0
      BY <1>0, <2>1, <2>2 DEF IdInv, IdsConsecutive
    <3>. QED
      BY <2>2, <3>1 DEF IdsConsecutive
  <2>6. SentIdsGrow'
    <3>1. \A i \in 1 .. Len(sent) : sent'[i].id <= req_id /\ sent'[i].id \in Nat
      BY <1>0, <2>4 DEF IdInv, SentIdsGrow
    <3>2. \A i, j \in 1 .. Len(sent) : i < j => sent'[i].id < sent'[j].id
      BY <2>4 DEF IdInv, SentIdsGrow
    <3>3. \A i \in 1 .. Len(sent') : i \in 1 .. Len(sent) \/ i = Len(sent) + 1
      BY <1>0, <2>4
    <3>4. sent'[Len(sent) + 1].id = req_id'
      BY <2>3, <2>4
    <3>5. \A i \in 1 .. Len(sent') : sent'[i].id <= req_id'
      BY <1>0, <2>2, <3>1, <3>3, <3>4
    <3>6. ASSUME NEW i \in 1 .. Len(sent'), NEW j \in 1 .. Len(sent'), i < j
          PROVE  sent'[i].id < sent'[j].id
      <4>1. CASE j \in 1 .. Len(sent)
        <5>1. i \in 1 .. Len(sent)
          BY <1>0, <3>3, <3>6, <4>1
        <5>. QED
          BY <3>2, <3>6, <4>1, <5>1
      <4>2. CASE j = Len(sent) + 1
        <5>1. i \in 1 .. Len(sent)
          BY <1>0, <3>3, <3>6, <4>2
        <5>2. sent'[i].id <= req_id /\ sent'[i].id \in Nat
          BY <3>1, <5>1
        <5>. QED
          BY <1>0, <2>2, <3>4, <4>2, <5>2
      <4>. QED
        BY <3>3, <4>1, <4>2
    <3>. QED
      BY <3>5, <3>6 DEF SentIdsGrow
  <2>7. LatestHasId'
    BY <1>0, <2>3, <2>4 DEF LatestHasId
  <2>8. InboxIdsTrue'
    <3>. SUFFICES ASSUME NEW k \in 1 .. Len(inbox)
                  PROVE  /\ inbox[k].serial \in 1 .. Len(sent')
                         /\ inbox[k].id = sent'[inbox[k].serial].id
      BY <2>1 DEF InboxIdsTrue
    <3>1. inbox[k].serial \in 1 .. Len(sent) /\ inbox[k].id = sent[inbox[k].serial].id
      BY DEF IdInv, InboxIdsTrue
    <3>2. inbox[k].serial \in 1 .. Len(sent')
      BY <1>0, <2>4, <3>1
    <3>. QED
      BY <2>4, <3>1, <3>2
  <2>9. OutcomePending'
    BY <2>1 DEF IdInv, OutcomePending, InCall
  <2>. QED
    BY <2>5, <2>6, <2>7, <2>8, <2>9 DEF IdInv
<1>5. CASE PollTimeout \/ PollError \/ PollReady
  <2>1. /\ UNCHANGED <<req_id, taken, endpoints_left, result, sent, inbox>>
        /\ pc = "poll" /\ pc' \in InCall
    BY <1>5 DEF PollTimeout, PollError, TakeNext, PollReady, InCall, net
  <2>. QED
    BY <1>a, <2>1, IdKept DEF InCall
<1>6. CASE RecvTimeout \/ RecvError \/ Exhausted
  <2>1. /\ UNCHANGED <<req_id, taken, sent, inbox>>
        /\ \E err : Return("fail", 0, err)
    BY <1>6 DEF RecvTimeout, RecvError, Exhausted, net
  <2>. QED
    BY <1>a, <2>1, IdEndOfCall
<1>7. CASE Receive
  <2>1. UNCHANGED <<req_id, taken, sent>> /\ inbox # <<>> /\ inbox' = Tail(inbox)
    BY <1>7 DEF Receive
  <2>2. /\ Len(inbox') = Len(inbox) - 1
        /\ \A k \in 1 .. Len(inbox') : inbox'[k] = inbox[k + 1]
    BY <1>0, <2>1, HeadTailProperties
  <2>3. InboxIdsTrue'
    <3>1. \A k \in 1 .. Len(inbox') : k + 1 \in 1 .. Len(inbox)
      BY <1>0, <2>2
    <3>. QED
      BY <2>1, <2>2, <3>1 DEF IdInv, InboxIdsTrue
  <2>4. \/ UNCHANGED <<pc, call>>
        \/ \E how, err, reply : Return(how, reply, err)
    BY <1>7 DEF Receive
  <2>5. CASE UNCHANGED <<pc, call>>
    BY <2>1, <2>3, <2>5, IdKept DEF call
  <2>. QED
    BY <2>1, <2>3, <2>4, <2>5, IdEndOfCall
<1>8. CASE Deliveries
  <2>1. PICK i \in 1 .. Len(sent) :
          \E body \in Replies[sent[i].type] : Deliver(i, body)
    BY <1>8 DEF Deliveries
  <2>2. PICK body \in Replies[sent[i].type] : Deliver(i, body)
    BY <2>1
  <2>3. UNCHANGED <<pc, req_id, taken, endpoints_left, result, sent>>
    BY <2>2 DEF Deliver, call
  <2>. DEFINE new == [id |-> sent[i].id, body |-> body, serial |-> i]
  <2>4. inbox' = Append(inbox, new) /\ new.id = sent[i].id /\ new.serial = i
    BY <2>2 DEF Deliver
  <2>. HIDE DEF new
  <2>5. /\ Len(inbox') = Len(inbox) + 1 /\ inbox'[Len(inbox) + 1] = new
        /\ \A k \in 1 .. Len(inbox) : inbox'[k] = inbox[k]
    BY <1>0, <2>4
  <2>6. \A k \in 1 .. Len(inbox') : k \in 1 .. Len(inbox) \/ k = Len(inbox) + 1
    BY <1>0, <2>5
  <2>7. InboxIdsTrue'
    BY <2>3, <2>4, <2>5, <2>6 DEF IdInv, InboxIdsTrue
  <2>. QED
    BY <2>3, <2>7, IdKept
<1>9. CASE UNCHANGED vars
  BY <1>a, <1>9, IdKept DEF vars
<1>. QED
  BY <1>1, <1>2, <1>3, <1>4, <1>5, <1>6, <1>7, <1>8, <1>9
     DEF Next, Progress, SystemError

(* The only answer a call returns has the last id taken, and that id is    *)
(* the latest request's alone.                                             *)
LEMMA AnswerStep ==
    ASSUME TypeInv, IdInv, AnswerIsOurs, [Next]_vars
    PROVE  AnswerIsOurs'
<1>1. CASE result'.ret # "ok"
  BY <1>1 DEF AnswerIsOurs
<1>2. CASE UNCHANGED <<result, sent>>
  BY <1>2 DEF AnswerIsOurs
<1>3. ASSUME NEW type \in ReqTypes, NEW size \in DataSizes, ResolveCall(type, size)
      PROVE  result'.ret # "ok"
  <2>1. result' \in {Outcome("fail", 0), NoOutcome}
    BY <1>3 DEF ResolveCall, Return
  <2>. QED
    BY <2>1 DEF NoOutcome, Outcome
<1>4. CASE SendRequest
  BY <1>1, <1>4 DEF SendRequest, IdInv, OutcomePending, InCall
<1>5. CASE RequestTooLong \/ SystemError \/ RecvTimeout \/ Exhausted
  <2>1. (\E err : Return("fail", 0, err) \/ Return("raised", 0, err))
          \/ UNCHANGED <<result, sent>>
    BY <1>5 DEF RequestTooLong, SystemError, RecvTimeout, RecvError, Exhausted,
       SendRaises, PollError, TakeNext
  <2>. QED
    BY <1>1, <1>2, <2>1 DEF Return, Outcome
<1>6. CASE Receive
  <2>1. /\ pc = "recv" /\ UNCHANGED sent /\ inbox # <<>>
        /\ inbox \in Seq(Received) /\ Len(inbox) \in Nat /\ Len(sent) \in Nat
        /\ \A i \in 1 .. Len(sent) : sent[i].id \in Nat
    BY <1>6, NetFacts DEF Receive
  <2>2. 1 \in 1 .. Len(inbox) /\ Head(inbox) = inbox[1]
    BY <2>1
  <2>3. /\ inbox[1].serial \in 1 .. Len(sent)
        /\ inbox[1].id = sent[inbox[1].serial].id
    BY <2>2 DEF IdInv, InboxIdsTrue
  <2>4. Len(sent) > 0 /\ sent[Len(sent)].id = req_id
    BY <2>1 DEF IdInv, LatestHasId
  <2>5. inbox[1].id = req_id => inbox[1].serial = Len(sent)
    <3>1. Len(sent) \in 1 .. Len(sent)
      BY <2>1, <2>4
    <3>2. inbox[1].serial < Len(sent) => sent[inbox[1].serial].id < sent[Len(sent)].id
      BY <2>3, <3>1 DEF IdInv, SentIdsGrow
    <3>. QED
      BY <2>1, <2>3, <2>4, <3>1, <3>2
  <2>6. \/ \E err : Return("fail", inbox[1].serial, err)
        \/ UNCHANGED result
        \/ inbox[1].id = req_id /\ \E err : Return("ok", inbox[1].serial, err)
    BY <1>6, <2>2 DEF Receive, call
  <2>7. ASSUME NEW err, inbox[1].id = req_id, Return("ok", inbox[1].serial, err)
        PROVE  AnswerIsOurs'
    <3>1. result'.reply = Len(sent)
      BY <2>5, <2>7 DEF Return, Outcome
    <3>. QED
      BY <2>1, <3>1 DEF AnswerIsOurs
  <2>8. ASSUME NEW err, Return("fail", inbox[1].serial, err)
        PROVE  AnswerIsOurs'
    BY <1>1, <2>8 DEF Return, Outcome
  <2>. QED
    BY <1>2, <2>1, <2>6, <2>7, <2>8
<1>7. CASE PollTimeout \/ PollReady \/ Deliveries \/ UNCHANGED vars
           \/ (ConfigNext /\ UNCHANGED resolverVars)
  <2>1. UNCHANGED <<result, sent>>
    BY <1>7 DEF PollTimeout, TakeNext, PollReady, Deliveries, Deliver, call, vars,
       resolverVars
  <2>. QED
    BY <1>2, <2>1
<1>. QED
  BY <1>1, <1>3, <1>4, <1>5, <1>6, <1>7 DEF Next, Progress

(* As long as request ids do not wrap, the ids are in order and name the   *)
(* requests.                                                               *)
LEMMA IdsInOrder ==
    ASSUME NoWrap
    PROVE  Spec => []IdInv
<1>1. Init => IdInv
  <2>. SUFFICES ASSUME Init PROVE IdInv
    OBVIOUS
  <2>1. /\ sent = <<>> /\ inbox = <<>> /\ taken = 0 /\ req_id = 0
        /\ endpoints_left = 0 /\ pc = "idle" /\ result.ret = "none"
    BY DEF Init, ConfigInit, ResolverInit, NoOutcome, Outcome
  <2>2. \A i \in 1 .. Len(<<>>) : FALSE
    OBVIOUS
  <2>3. IdsConsecutive
    BY <2>1, NetBoundAssumption DEF IdsConsecutive
  <2>4. SentIdsGrow /\ InboxIdsTrue
    BY <2>1, <2>2 DEF SentIdsGrow, InboxIdsTrue
  <2>5. LatestHasId /\ OutcomePending
    BY <2>1 DEF LatestHasId, OutcomePending, InCall
  <2>. QED
    BY <2>3, <2>4, <2>5 DEF IdInv
<1>2. TypeInv /\ IdInv /\ [Next]_vars => IdInv'
  BY IdStep
<1>. QED
  BY <1>1, <1>2, TypeInvariance, PTL DEF Spec

(* As long as request ids do not wrap, a call that succeeds returns the    *)
(* answer to its own latest request: no late, duplicated or reordered      *)
(* reply to an earlier request is taken for it (resolver.c:270-278).       *)
THEOREM AnswersAreOurs ==
    ASSUME NoWrap
    PROVE  Spec => []AnswerIsOurs
<1>1. Init => AnswerIsOurs
  BY DEF Init, ResolverInit, NoOutcome, Outcome, AnswerIsOurs
<1>2. Spec => []IdInv
  BY IdsInOrder
<1>3. TypeInv /\ IdInv /\ AnswerIsOurs /\ [Next]_vars => AnswerIsOurs'
  BY AnswerStep
<1>. QED
  BY <1>1, <1>2, <1>3, TypeInvariance, PTL DEF Spec

(* What an outcome says of the reply that ended the call: an answer, or a  *)
(* reply that reports an error or cannot be parsed.                        *)
ReplySeen ==
    result.reply # 0 =>
        result.ret = "ok" \/ (result.ret = "fail" /\ error \in {"bad", "remote"})

LEMMA ReplySeenStep ==
    ASSUME IdInv, ReplySeen, [Next]_vars
    PROVE  ReplySeen'
<1>0. pc \in InCall => result.reply = 0
  BY DEF IdInv, OutcomePending, ReplySeen
<1>1. CASE UNCHANGED <<result, error>>
  BY <1>1 DEF ReplySeen
<1>2. ASSUME NEW how, NEW err, Return(how, 0, err)
      PROVE  ReplySeen'
  BY <1>2 DEF Return, Outcome, ReplySeen
<1>3. ASSUME NEW type \in ReqTypes, NEW size \in DataSizes, ResolveCall(type, size)
      PROVE  ReplySeen'
  <2>1. CASE endpoints_count <= 0
    <3>1. Return("fail", 0, "no endpoints")
      BY <1>3, <2>1 DEF ResolveCall
    <3>. QED
      BY <1>2, <3>1
  <2>2. CASE ~(endpoints_count <= 0)
    <3>1. result' = NoOutcome
      BY <1>3, <2>2, Zenon DEF ResolveCall
    <3>. QED
      BY <3>1 DEF NoOutcome, Outcome, ReplySeen
  <2>. QED
    BY <2>1, <2>2
<1>4. CASE SendRequest \/ PollTimeout \/ PollError \/ PollReady
  <2>1. pc \in InCall /\ UNCHANGED result
    BY <1>4 DEF SendRequest, PollTimeout, PollError, TakeNext, PollReady, InCall
  <2>. QED
    BY <1>0, <2>1 DEF ReplySeen
<1>5. CASE RequestTooLong \/ SendRaises \/ RecvTimeout \/ RecvError \/ Exhausted
  <2>1. \E how, err : Return(how, 0, err)
    BY <1>5 DEF RequestTooLong, SendRaises, RecvTimeout, RecvError, Exhausted
  <2>. QED
    BY <1>2, <2>1
<1>6. CASE Receive
  <2>1. \/ \E kind \in {"bad", "remote"} : Return("fail", Head(inbox).serial, kind)
        \/ UNCHANGED <<result, error>>
        \/ Return("ok", Head(inbox).serial, error)
    BY <1>6 DEF Receive, call
  <2>2. ASSUME NEW kind \in {"bad", "remote"},
               Return("fail", Head(inbox).serial, kind)
        PROVE  ReplySeen'
    BY <2>2 DEF Return, Outcome, ReplySeen
  <2>3. CASE Return("ok", Head(inbox).serial, error)
    BY <2>3 DEF Return, Outcome, ReplySeen
  <2>. QED
    BY <1>1, <2>1, <2>2, <2>3
<1>7. CASE Deliveries \/ UNCHANGED vars \/ (ConfigNext /\ UNCHANGED resolverVars)
  <2>1. UNCHANGED <<result, error>>
    BY <1>7 DEF Deliveries, Deliver, call, vars, resolverVars
  <2>. QED
    BY <1>1, <2>1
<1>. QED
  BY <1>3, <1>4, <1>5, <1>6, <1>7 DEF Next, Progress, SystemError

(* The only cause of what the run lnp_reply shows: a reply to an earlier   *)
(* request that ends the call is one that reports an error or cannot be    *)
(* parsed, taken before its id is looked at (resolver.c:249-278); the call *)
(* then fails with that text.  Every other reply that ends a call is the   *)
(* one to its own latest request.                                          *)
THEOREM OnlyErrorsAreMistaken ==
    ASSUME NoWrap
    PROVE  Spec => [](~ReplyIsOurs =>
                        result.ret = "fail" /\ error \in {"bad", "remote"})
<1>1. Init => ReplySeen
  BY DEF Init, ResolverInit, NoOutcome, Outcome, ReplySeen
<1>2. Spec => []IdInv
  BY IdsInOrder
<1>3. IdInv /\ ReplySeen /\ [Next]_vars => ReplySeen'
  BY ReplySeenStep
<1>4. Spec => []AnswerIsOurs
  BY AnswersAreOurs
<1>5. ReplySeen /\ AnswerIsOurs =>
        (~ReplyIsOurs => result.ret = "fail" /\ error \in {"bad", "remote"})
  BY DEF ReplySeen, AnswerIsOurs, ReplyIsOurs
<1>. QED
  BY <1>1, <1>2, <1>3, <1>4, <1>5, PTL DEF Spec

----------------------------------------------------------------------------
(* Failover.                                                               *)

(* The endpoint a round that began with the first of tried takes as its    *)
(* j-th, and the one after a full round.                                   *)
Place(j) ==
    IF tried[1] + j - 1 < endpoints_count THEN tried[1] + j - 1
                                          ELSE tried[1] + j - 1 - endpoints_count

Round ==
    /\ \A j \in 1 .. Len(tried) : tried[j] = Place(j)
    /\ Len(tried) > 0 => tried[1] < endpoints_count

RoundInv ==
    /\ pc \in InCall =>
        /\ Len(tried) + endpoints_left = endpoints_count
        /\ Round
    /\ (pc = "loop" /\ Len(tried) > 0) => curr_endpoint_index = Place(Len(tried) + 1)
    /\ pc \in {"poll", "recv"} =>
        Len(tried) > 0 /\ curr_endpoint_index = tried[Len(tried)]
    /\ pc \notin InCall => tried = <<>>

(* The numbers of a call under way. *)
LEMMA RoundFacts ==
    ASSUME TypeInv, EndpointsUsable
    PROVE  /\ endpoints_count \in Nat /\ curr_endpoint_index \in Nat
           /\ endpoints_left \in Nat
           /\ tried \in Seq(Slots) /\ Len(tried) \in Nat
           /\ \A j \in 1 .. Len(tried) : tried[j] \in Nat
           /\ pc \in InCall => endpoints_count > 0 /\ curr_endpoint_index < endpoints_count
<1>1. ConfigTypeOK /\ CallTypeOK /\ NetTypeOK /\ CallHasEndpoint
  BY DEF TypeInv, TypeOK
<1>2. endpoints_count \in Nat /\ curr_endpoint_index \in Nat /\ MAX_ENDPOINTS \in Nat
  BY <1>1, CounterFacts
<1>3. tried \in Seq(Slots) /\ Slots \subseteq Nat
  BY <1>1, <1>2 DEF NetTypeOK, Slots
<1>4. Len(tried) \in Nat /\ \A j \in 1 .. Len(tried) : tried[j] \in Nat
  BY <1>3, LenProperties, ElementOfSeq
<1>5. pc \in InCall => endpoints_count > 0 /\ curr_endpoint_index < endpoints_count
  BY <1>1, <1>2 DEF CallHasEndpoint, EndpointsUsable
<1>6. endpoints_left \in Nat
  BY <1>1, <1>2 DEF CallTypeOK
<1>. QED
  BY <1>2, <1>3, <1>4, <1>5, <1>6

(* The endpoint after the last one of the table is the first. *)
LEMMA NextWraps ==
    ASSUME NEW n \in Nat, NEW i \in Nat, i < n
    PROVE  (i + 1) % n = IF i + 1 < n THEN i + 1 ELSE 0
<1>1. CASE i + 1 < n
  BY <1>1, ModSmall
<1>2. CASE i + 1 = n
  BY <1>2, SMT
<1>. QED
  BY <1>1, <1>2

(* A step that ends the call. *)
LEMMA RoundEnds ==
    ASSUME NEW how, NEW reply, NEW err, Return(how, reply, err)
    PROVE  RoundInv'
BY DEF Return, RoundInv, InCall

(* A step that leaves the round alone. *)
LEMMA RoundKept ==
    ASSUME RoundInv,
           UNCHANGED <<tried, endpoints_left, endpoints_count, curr_endpoint_index>>,
           pc' = pc \/ (pc = "poll" /\ pc' = "recv")
    PROVE  RoundInv'
BY DEF RoundInv, Round, Place, InCall

LEMMA RoundSend ==
    ASSUME TypeInv, EndpointsUsable, RoundInv, SendRequest
    PROVE  RoundInv'
<1>1. /\ pc = "loop" /\ pc' = "poll" /\ endpoints_left > 0
      /\ endpoints_left' = endpoints_left - 1
      /\ tried' = Append(tried, curr_endpoint_index)
      /\ UNCHANGED <<endpoints_count, curr_endpoint_index>>
  BY DEF SendRequest, send_data, settings
<1>2. /\ endpoints_count \in Nat /\ curr_endpoint_index \in Nat /\ endpoints_left \in Nat
      /\ tried \in Seq(Slots) /\ Len(tried) \in Nat
      /\ \A j \in 1 .. Len(tried) : tried[j] \in Nat
      /\ curr_endpoint_index < endpoints_count
  BY <1>1, RoundFacts DEF InCall
<1>3. /\ Len(tried) + endpoints_left = endpoints_count /\ Round
      /\ Len(tried) > 0 => curr_endpoint_index = Place(Len(tried) + 1)
  BY <1>1 DEF RoundInv, InCall
<1>4. /\ Len(tried') = Len(tried) + 1 /\ tried'[Len(tried) + 1] = curr_endpoint_index
      /\ \A j \in 1 .. Len(tried) : tried'[j] = tried[j]
  BY <1>1, <1>2
<1>5. CASE Len(tried) = 0
  <2>1. Len(tried') = 1 /\ tried'[1] = curr_endpoint_index
    BY <1>4, <1>5
  <2>2. \A j \in 1 .. Len(tried') : tried'[j] = Place(j)'
    BY <1>1, <1>2, <2>1 DEF Place
  <2>3. Round'
    BY <1>1, <1>2, <2>1, <2>2 DEF Round
  <2>. QED
    BY <1>1, <1>2, <1>3, <1>4, <2>1, <2>3 DEF RoundInv, InCall
<1>6. CASE Len(tried) > 0
  <2>1. tried'[1] = tried[1] /\ \A j : Place(j)' = Place(j)
    BY <1>1, <1>2, <1>4, <1>6 DEF Place
  <2>2. ASSUME NEW j \in 1 .. Len(tried')
        PROVE  tried'[j] = Place(j)'
    <3>1. CASE j = Len(tried) + 1
      BY <1>3, <1>4, <1>6, <2>1, <3>1
    <3>2. CASE j \in 1 .. Len(tried)
      BY <1>3, <1>4, <2>1, <3>2 DEF Round
    <3>. QED
      BY <1>2, <1>4, <3>1, <3>2
  <2>3. Round'
    BY <1>1, <1>3, <1>6, <2>1, <2>2 DEF Round
  <2>. QED
    BY <1>1, <1>2, <1>3, <1>4, <2>3 DEF RoundInv, InCall
<1>. QED
  BY <1>2, <1>5, <1>6

LEMMA RoundMovesOn ==
    ASSUME TypeInv, EndpointsUsable, RoundInv, PollTimeout \/ PollError
    PROVE  RoundInv'
<1>1. /\ pc = "poll" /\ pc' = "loop" /\ curr_endpoint_index' = NextIndex
      /\ UNCHANGED <<tried, endpoints_left, endpoints_count>>
  BY DEF PollTimeout, PollError, TakeNext, settings
<1>2. /\ endpoints_count \in Nat /\ curr_endpoint_index \in Nat /\ endpoints_left \in Nat
      /\ Len(tried) \in Nat /\ \A j \in 1 .. Len(tried) : tried[j] \in Nat
      /\ curr_endpoint_index < endpoints_count
  BY <1>1, RoundFacts DEF InCall
<1>3. /\ Len(tried) + endpoints_left = endpoints_count /\ Round
      /\ Len(tried) > 0 /\ curr_endpoint_index = tried[Len(tried)]
  BY <1>1 DEF RoundInv, InCall
<1>4. 1 \in 1 .. Len(tried) /\ Len(tried) \in 1 .. Len(tried)
  BY <1>2, <1>3
<1>5. tried[1] \in Nat /\ tried[1] < endpoints_count
      /\ curr_endpoint_index = Place(Len(tried))
  BY <1>2, <1>3, <1>4 DEF Round
<1>6. NextIndex = IF curr_endpoint_index + 1 < endpoints_count
                  THEN curr_endpoint_index + 1 ELSE 0
  BY <1>2, NextWraps DEF NextIndex
<1>7. NextIndex = Place(Len(tried) + 1)
  BY <1>2, <1>3, <1>5, <1>6 DEF Place
<1>8. Round' /\ \A j : Place(j)' = Place(j)
  BY <1>1, <1>3 DEF Round, Place
<1>. QED
  BY <1>1, <1>3, <1>7, <1>8 DEF RoundInv, InCall

LEMMA RoundBegins ==
    ASSUME RoundInv, NEW type, NEW size, ResolveCall(type, size),
           endpoints_count \in Nat
    PROVE  RoundInv'
<1>1. CASE endpoints_count <= 0
  <2>1. Return("fail", 0, "no endpoints")
    BY <1>1 DEF ResolveCall
  <2>. QED
    BY <2>1, RoundEnds
<1>2. CASE ~(endpoints_count <= 0)
  <2>1. /\ pc' = "loop" /\ endpoints_left' = endpoints_count /\ tried' = <<>>
        /\ endpoints_count' = endpoints_count
    BY <1>2, Zenon DEF ResolveCall, settings
  <2>2. Len(tried') = 0
    BY <2>1
  <2>. QED
    BY <2>1, <2>2 DEF RoundInv, Round, InCall
<1>. QED
  BY <1>1, <1>2

(* Every step keeps to the round. *)
LEMMA RoundStep ==
    TypeInv /\ EndpointsUsable /\ RoundInv /\ [Next]_vars => RoundInv'
<1>. SUFFICES ASSUME TypeInv, EndpointsUsable, RoundInv, [Next]_vars
              PROVE  RoundInv'
  OBVIOUS
<1>0. endpoints_count \in Nat
  BY RoundFacts
<1>1. CASE ConfigNext /\ UNCHANGED resolverVars
  <2>1. pc \in {"idle", "adding"} /\ pc' \in {"idle", "adding"}
    BY <1>1 DEF TypeInv, TypeOK, CallTypeOK, ConfigNext, SocketError, EndpointsSet,
       EndpointsSetElement, EndpointsSetDone, SetTimeout, SetRttTimeout
  <2>2. tried' = tried
    BY <1>1 DEF resolverVars
  <2>. QED
    BY <2>1, <2>2 DEF RoundInv, InCall
<1>2. ASSUME NEW type \in ReqTypes, NEW size \in DataSizes, ResolveCall(type, size)
      PROVE  RoundInv'
  BY <1>0, <1>2, RoundBegins
<1>3. CASE RequestTooLong \/ SendRaises \/ RecvTimeout \/ RecvError \/ Exhausted
  <2>1. \E how, err : Return(how, 0, err)
    BY <1>3 DEF RequestTooLong, SendRaises, RecvTimeout, RecvError, Exhausted
  <2>. QED
    BY <2>1, RoundEnds
<1>4. CASE SendRequest
  BY <1>4, RoundSend
<1>5. CASE PollTimeout \/ PollError
  BY <1>5, RoundMovesOn
<1>6. CASE PollReady
  BY <1>6, RoundKept DEF PollReady, settings
<1>7. CASE Receive
  <2>1. \/ \E how, reply, err : Return(how, reply, err)
        \/ UNCHANGED <<pc, call>>
    BY <1>7 DEF Receive
  <2>2. UNCHANGED <<endpoints_count, curr_endpoint_index>>
    BY <1>7 DEF Receive, settings
  <2>. QED
    BY <2>1, <2>2, RoundEnds, RoundKept DEF call
<1>8. CASE Deliveries
  BY <1>8, RoundKept DEF Deliveries, Deliver, settings, call
<1>9. CASE UNCHANGED vars
  BY <1>9, RoundKept DEF vars
<1>. QED
  BY <1>1, <1>2, <1>3, <1>4, <1>5, <1>6, <1>7, <1>8, <1>9 DEF Next, Progress, SystemError

LEMMA RoundInvariance == Spec => []RoundInv
<1>1. Init => RoundInv
  BY DEF Init, ConfigInit, ResolverInit, RoundInv, InCall
<1>. QED
  BY <1>1, RoundStep, TypeInvariance, EndpointsAlwaysUsable, PTL DEF Spec

(* A call sends to no endpoint twice, and counts down exactly those it has *)
(* not sent to yet (resolver.c:176-228).                                   *)
THEOREM EachEndpointOnce == Spec => []FailoverOnce
<1>1. TypeInv /\ EndpointsUsable /\ RoundInv => FailoverOnce
  <2>. SUFFICES ASSUME TypeInv, EndpointsUsable, RoundInv PROVE FailoverOnce
    OBVIOUS
  <2>1. /\ endpoints_count \in Nat /\ endpoints_left \in Nat /\ Len(tried) \in Nat
        /\ \A j \in 1 .. Len(tried) : tried[j] \in Nat
    BY RoundFacts
  <2>2. CASE pc \in InCall
    <3>1. Len(tried) + endpoints_left = endpoints_count /\ Round
      BY <2>2 DEF RoundInv
    <3>2. ASSUME NEW i \in 1 .. Len(tried), NEW j \in 1 .. Len(tried), i # j
          PROVE  tried[i] # tried[j]
      <4>1. tried[1] \in Nat /\ tried[i] = Place(i) /\ tried[j] = Place(j)
            /\ i <= endpoints_count /\ j <= endpoints_count
        BY <2>1, <3>1 DEF Round
      <4>. QED
        BY <2>1, <3>2, <4>1 DEF Place
    <3>. QED
      BY <3>1, <3>2 DEF FailoverOnce
  <2>3. CASE pc \notin InCall
    <3>1. Len(tried) = 0
      BY <2>3 DEF RoundInv
    <3>. QED
      BY <2>3, <3>1 DEF FailoverOnce
  <2>. QED
    BY <2>2, <2>3
<1>. QED
  BY <1>1, RoundInvariance, TypeInvariance, EndpointsAlwaysUsable, PTL

(* A call that has no endpoint left has sent to all of them and stands     *)
(* where it began (resolver.c:176-228).                                    *)
THEOREM RoundIsFull == Spec => []FullRound
<1>1. TypeInv /\ EndpointsUsable /\ RoundInv => FullRound
  <2>. SUFFICES ASSUME TypeInv, EndpointsUsable, RoundInv, pc = "loop", endpoints_left = 0
                PROVE  /\ \A i \in 0 .. endpoints_count - 1 :
                            \E j \in 1 .. Len(tried) : tried[j] = i
                       /\ curr_endpoint_index = tried[1]
    BY DEF FullRound
  <2>1. /\ endpoints_count \in Nat /\ endpoints_count > 0 /\ Len(tried) \in Nat
        /\ \A j \in 1 .. Len(tried) : tried[j] \in Nat
    BY RoundFacts DEF InCall
  <2>2. /\ Len(tried) = endpoints_count /\ Round
        /\ curr_endpoint_index = Place(Len(tried) + 1)
    BY <2>1 DEF RoundInv, InCall
  <2>3. tried[1] \in Nat /\ tried[1] < endpoints_count
    BY <2>1, <2>2 DEF Round
  <2>4. curr_endpoint_index = tried[1]
    BY <2>1, <2>2, <2>3 DEF Place
  <2>5. ASSUME NEW i \in 0 .. endpoints_count - 1
        PROVE  \E j \in 1 .. Len(tried) : tried[j] = i
    <3>1. i \in Nat /\ i < endpoints_count /\ Len(tried) = endpoints_count
      BY <2>1, <2>2
    <3>2. PICK s \in Nat : s = tried[1] /\ s < endpoints_count
      BY <2>3
    <3>3. \E k \in 1 .. endpoints_count : Place(k) = i
      <4>1. CASE i >= s
        <5>1. i - s + 1 \in 1 .. endpoints_count
          BY <2>1, <3>1, <3>2, <4>1
        <5>2. Place(i - s + 1) = i
          BY <2>1, <3>1, <3>2, <4>1 DEF Place
        <5>. QED
          BY <5>1, <5>2
      <4>2. CASE i < s
        <5>1. i - s + endpoints_count + 1 \in 1 .. endpoints_count
          BY <2>1, <3>1, <3>2, <4>2
        <5>2. Place(i - s + endpoints_count + 1) = i
          BY <2>1, <3>1, <3>2, <4>2 DEF Place
        <5>. QED
          BY <5>1, <5>2
      <4>. QED
        BY <3>1, <3>2, <4>1, <4>2
    <3>. QED
      BY <2>2, <3>1, <3>3 DEF Round
  <2>. QED
    BY <2>4, <2>5
<1>. QED
  BY <1>1, RoundInvariance, TypeInvariance, EndpointsAlwaysUsable, PTL

----------------------------------------------------------------------------
(* Error texts.  A call that receives has no error, because poll's success *)
(* clears it, and every other way out leaves one.                          *)
ErrorInv ==
    /\ pc = "recv" => error = "none"
    /\ (pc \in {"idle", "adding"} /\ result.ret # "none") =>
            ((error = "none") <=> (result.ret = "ok"))

LEMMA ErrorEnds ==
    ASSUME NEW how, NEW reply, NEW err, Return(how, reply, err),
           (err = "none") <=> (how = "ok")
    PROVE  ErrorInv'
BY DEF Return, Outcome, ErrorInv

LEMMA ErrorStep == TypeInv /\ ErrorInv /\ [Next]_vars => ErrorInv'
<1>. SUFFICES ASSUME TypeInv, ErrorInv, [Next]_vars PROVE ErrorInv'
  OBVIOUS
<1>1. CASE ConfigNext /\ UNCHANGED resolverVars
  <2>1. pc \in {"idle", "adding"} /\ pc' \in {"idle", "adding"}
    BY <1>1 DEF TypeInv, TypeOK, CallTypeOK, ConfigNext, SocketError, EndpointsSet,
       EndpointsSetElement, EndpointsSetDone, SetTimeout, SetRttTimeout
  <2>. QED
    BY <1>1, <2>1 DEF ErrorInv, resolverVars
<1>2. ASSUME NEW type \in ReqTypes, NEW size \in DataSizes, ResolveCall(type, size)
      PROVE  ErrorInv'
  <2>1. CASE endpoints_count <= 0
    <3>1. Return("fail", 0, "no endpoints")
      BY <1>2, <2>1 DEF ResolveCall
    <3>. QED
      BY <3>1, ErrorEnds
  <2>2. CASE ~(endpoints_count <= 0)
    <3>1. pc' = "loop"
      BY <1>2, <2>2, Zenon DEF ResolveCall
    <3>. QED
      BY <3>1 DEF ErrorInv
  <2>. QED
    BY <2>1, <2>2
<1>3. CASE RequestTooLong \/ SendRaises \/ RecvTimeout \/ RecvError \/ Exhausted
  <2>1. \E how \in {"fail", "raised"} : \E err : err # "none" /\ Return(how, 0, err)
    BY <1>3 DEF RequestTooLong, SendRaises, RecvTimeout, RecvError, Exhausted
  <2>. QED
    BY <2>1, ErrorEnds
<1>4. CASE SendRequest \/ PollTimeout \/ PollError
  <2>1. pc' \in {"poll", "loop"}
    BY <1>4 DEF SendRequest, PollTimeout, PollError, TakeNext
  <2>. QED
    BY <2>1 DEF ErrorInv
<1>5. CASE PollReady
  BY <1>5 DEF PollReady, ErrorInv
<1>6. CASE Receive
  <2>1. \/ \E reply, err : err \in {"bad", "remote"} /\ Return("fail", reply, err)
        \/ \E reply : Return("ok", reply, error)
        \/ UNCHANGED <<pc, error, result>>
    BY <1>6 DEF Receive, call
  <2>2. error = "none"
    BY <1>6 DEF Receive, ErrorInv
  <2>3. CASE UNCHANGED <<pc, error, result>>
    BY <2>3 DEF ErrorInv
  <2>. QED
    BY <2>1, <2>2, <2>3, ErrorEnds
<1>7. CASE Deliveries
  BY <1>7 DEF Deliveries, Deliver, call, ErrorInv
<1>8. CASE UNCHANGED vars
  BY <1>8 DEF vars, ErrorInv
<1>. QED
  BY <1>1, <1>2, <1>3, <1>4, <1>5, <1>6, <1>7, <1>8 DEF Next, Progress, SystemError

(* A failed call has an error text and a successful one has none, however  *)
(* many endpoints were given up before (resolver.c:233, 284-287).          *)
THEOREM ErrorsAreExplained == Spec => []ErrorMatchesOutcome
<1>1. Init => ErrorInv
  BY DEF Init, ConfigInit, ResolverInit, NoOutcome, Outcome, ErrorInv
<1>2. ErrorInv => ErrorMatchesOutcome
  BY DEF ErrorInv, ErrorMatchesOutcome
<1>. QED
  BY <1>1, <1>2, ErrorStep, TypeInvariance, PTL DEF Spec

----------------------------------------------------------------------------
(* The resolver under the functions is that of LnpResolver. *)

LEMMA ResolverInside == FrontSpec => Spec
<1>1. FrontInit => Init
  BY DEF FrontInit
<1>2. [FrontNext]_allVars => [Next]_vars
  <2>. SUFFICES ASSUME [FrontNext]_allVars PROVE [Next]_vars
    OBVIOUS
  <2>1. ASSUME NEW fn \in SqlFunctions, NEW t \in KeyTexts, Lookup(fn, t)
        PROVE  [Next]_vars
    <3>1. CASE LookupMocked(fn, t)
      BY <3>1 DEF LookupMocked
    <3>2. CASE LookupResolve(fn, t)
      <4>1. RequestType(fn) \in ReqTypes /\ Len(t) \in DataSizes
        BY TextAssumption DEF RequestType, ReqTypes
      <4>2. ResolveCall(RequestType(fn), Len(t))
        BY <3>2 DEF LookupResolve
      <4>. QED
        BY <4>1, <4>2 DEF Next
    <3>. QED
      BY <2>1, <3>1, <3>2 DEF Lookup
  <2>2. ASSUME NEW t \in KeyTexts, NEW r, NEW err, CacheSet(t, r, err)
        PROVE  UNCHANGED vars
    BY <2>2 DEF CacheSet
  <2>3. CASE ConfigNext /\ UNCHANGED <<resolverVars, frontVars>>
    BY <2>3 DEF Next
  <2>4. CASE Backend \/ SystemError \/ Deliveries
    BY <2>4 DEF Backend, LookupReturn, Next
  <2>5. CASE UNCHANGED allVars
    BY <2>5 DEF allVars
  <2>. QED
    BY <2>1, <2>2, <2>3, <2>4, <2>5 DEF FrontNext
<1>. QED
  BY <1>1, <1>2, PTL DEF FrontSpec, Spec

----------------------------------------------------------------------------
(* The mocks. *)

(* Every entry of the table is one that was stored. *)
EntriesOnly == \A k \in DOMAIN hash_tab : \E r, e : hash_tab[k] = Entry(r, e)

(* The table holds, under the key of each text, its mock and no other. *)
MocksMatch ==
    /\ EntriesOnly
    /\ \A t \in KeyTexts : mocks[t] = IF Found(t) THEN find(t) ELSE NoMock

(* A mock is not mistaken for no mock. *)
LEMMA EntryIsSome == \A r, e : Entry(r, e) # NoMock
BY DEF Entry, NoMock

(* Setting a mock changes those texts whose keys are cut to the same. *)
LEMMA MocksSet ==
    ASSUME MocksMatch, NEW t \in KeyTexts, NEW r, NEW err, CacheSet(t, r, err)
    PROVE  MocksMatch'
<1>. DEFINE key == set_key_buf(t)
<1>1. /\ hash_tab' = [k \in DOMAIN hash_tab \union {key} |->
                        IF k = key THEN Entry(r, err) ELSE hash_tab[k]]
      /\ mocks' = [u \in KeyTexts |-> IF u \in Alike(t) THEN Entry(r, err) ELSE mocks[u]]
  BY DEF CacheSet, store
<1>. HIDE DEF key
<1>2. DOMAIN hash_tab' = DOMAIN hash_tab \union {key}
  BY <1>1
<1>3. EntriesOnly'
  BY <1>1, <1>2 DEF MocksMatch, EntriesOnly
<1>4. ASSUME NEW u \in KeyTexts
      PROVE  mocks'[u] = IF Found(u)' THEN find(u)' ELSE NoMock
  <2>1. CASE set_key_buf(u) = key
    <3>1. u \in Alike(t) /\ mocks'[u] = Entry(r, err)
      BY <1>1, <2>1 DEF Alike, key
    <3>2. Found(u)' /\ find(u)' = Entry(r, err)
      BY <1>1, <1>2, <2>1 DEF Found, find
    <3>. QED
      BY <3>1, <3>2
  <2>2. CASE set_key_buf(u) # key
    <3>1. u \notin Alike(t) /\ mocks'[u] = mocks[u]
      BY <1>1, <2>2 DEF Alike, key
    <3>2. (Found(u)' <=> Found(u)) /\ (Found(u) => find(u)' = find(u))
      BY <1>1, <1>2, <2>2 DEF Found, find
    <3>. QED
      BY <3>1, <3>2 DEF MocksMatch
  <2>. QED
    BY <2>1, <2>2
<1>. QED
  BY <1>3, <1>4 DEF MocksMatch

LEMMA MocksStep == MocksMatch /\ [FrontNext]_allVars => MocksMatch'
<1>. SUFFICES ASSUME MocksMatch, [FrontNext]_allVars PROVE MocksMatch'
  OBVIOUS
<1>1. CASE UNCHANGED <<hash_tab, mocks>>
  BY <1>1 DEF MocksMatch, EntriesOnly, Found, find
<1>2. CASE \E t \in KeyTexts : \/ \E r \in ResponseTexts : CacheSet(t, r, FALSE)
                               \/ \E r \in ErrorTexts : CacheSet(t, r, TRUE)
  BY <1>2, MocksSet
<1>3. CASE \E fn \in SqlFunctions, t \in KeyTexts : Lookup(fn, t)
  BY <1>1, <1>3 DEF Lookup, LookupMocked, LookupResolve
<1>4. CASE UNCHANGED frontVars \/ LookupReturn \/ UNCHANGED allVars
  BY <1>1, <1>4 DEF frontVars, LookupReturn, allVars
<1>. QED
  BY <1>2, <1>3, <1>4 DEF FrontNext, Backend

LEMMA MocksAlwaysMatch == FrontSpec => []MocksMatch
<1>1. FrontInit => MocksMatch
  <2>1. DOMAIN <<>> = {}
    OBVIOUS
  <2>. QED
    BY <2>1 DEF FrontInit, CacheInit, MocksMatch, EntriesOnly, Found
<1>. QED
  BY <1>1, MocksStep, PTL DEF FrontSpec

----------------------------------------------------------------------------
(* Counting requests.  A datagram in the socket, and the reply that ends a *)
(* call, are for a request that was sent, and no more are sent than ids    *)
(* are taken.  This needs nothing of the ids themselves.                   *)
SerialsTrue ==
    /\ taken + endpoints_left <= MaxIds
    /\ Len(sent) <= taken
    /\ \A k \in 1 .. Len(inbox) : inbox[k].serial \in 1 .. Len(sent)
    /\ result.ret = "ok" => result.reply \in 1 .. Len(sent)

(* A step that ends the call, an answer excepted. *)
LEMMA SerialsEnd ==
    ASSUME TypeInv, SerialsTrue, UNCHANGED <<sent, inbox>>,
           \/ UNCHANGED taken
           \/ taken' = taken + 1 /\ endpoints_left > 0,
           NEW how \in {"fail", "raised"}, NEW reply, NEW err, Return(how, reply, err)
    PROVE  SerialsTrue'
<1>1. /\ taken \in Nat /\ endpoints_left \in Nat /\ Len(sent) \in Nat /\ MaxIds \in Nat
  BY NetFacts
<1>2. endpoints_left' = 0 /\ result'.ret # "ok"
  BY DEF Return, Outcome
<1>. QED
  BY <1>1, <1>2 DEF SerialsTrue

(* A step of which the counts see nothing. *)
LEMMA SerialsKept ==
    ASSUME SerialsTrue, UNCHANGED <<taken, endpoints_left, sent, inbox, result>>
    PROVE  SerialsTrue'
BY DEF SerialsTrue

LEMMA SerialsStep == TypeInv /\ SerialsTrue /\ [Next]_vars => SerialsTrue'
<1>. SUFFICES ASSUME TypeInv, SerialsTrue, [Next]_vars PROVE SerialsTrue'
  OBVIOUS
<1>0. /\ sent \in Seq(SentRequests) /\ Len(sent) \in Nat
      /\ inbox \in Seq(Received) /\ Len(inbox) \in Nat
      /\ taken \in Nat /\ endpoints_left \in Nat /\ MaxIds \in Nat
  BY NetFacts
<1>1. CASE UNCHANGED vars \/ (ConfigNext /\ UNCHANGED resolverVars)
             \/ PollTimeout \/ PollError \/ PollReady
  BY <1>1, SerialsKept DEF vars, resolverVars, PollTimeout, PollError, TakeNext,
     PollReady, net
<1>2. ASSUME NEW type \in ReqTypes, NEW size \in DataSizes, ResolveCall(type, size)
      PROVE  SerialsTrue'
  <2>1. UNCHANGED <<taken, sent, inbox>> /\ taken + endpoints_count <= MaxIds
    BY <1>2 DEF ResolveCall, net
  <2>2. CASE endpoints_count <= 0
    BY <1>2, <2>1, <2>2, SerialsEnd DEF ResolveCall
  <2>3. CASE ~(endpoints_count <= 0)
    <3>1. endpoints_left' = endpoints_count /\ result' = NoOutcome
      BY <1>2, <2>3, Zenon DEF ResolveCall
    <3>. QED
      BY <2>1, <3>1 DEF SerialsTrue, NoOutcome, Outcome
  <2>. QED
    BY <2>2, <2>3
<1>3. CASE RequestTooLong \/ SendRaises \/ RecvTimeout \/ RecvError \/ Exhausted
  <2>1. /\ UNCHANGED <<sent, inbox>>
        /\ UNCHANGED taken \/ (taken' = taken + 1 /\ endpoints_left > 0)
        /\ \E how \in {"fail", "raised"} : \E err : Return(how, 0, err)
    BY <1>3 DEF RequestTooLong, SendRaises, RecvTimeout, RecvError, Exhausted,
       gen_request_id, net
  <2>. QED
    BY <2>1, SerialsEnd
<1>4. CASE SendRequest
  <2>1. /\ taken' = taken + 1 /\ endpoints_left' = endpoints_left - 1
        /\ endpoints_left > 0 /\ UNCHANGED <<result, inbox>>
        /\ \E new : sent' = Append(sent, new)
    BY <1>4 DEF SendRequest, send_data, gen_request_id
  <2>2. Len(sent') = Len(sent) + 1
    BY <1>0, <2>1
  <2>. QED
    BY <1>0, <2>1, <2>2 DEF SerialsTrue
<1>5. CASE Receive
  <2>1. /\ UNCHANGED <<taken, sent>> /\ inbox # <<>> /\ inbox' = Tail(inbox)
    BY <1>5 DEF Receive
  <2>2. /\ Len(inbox') = Len(inbox) - 1 /\ Len(inbox) > 0
        /\ \A k \in 1 .. Len(inbox') : inbox'[k] = inbox[k + 1]
        /\ Head(inbox) = inbox[1]
    BY <1>0, <2>1, HeadTailProperties
  <2>3. /\ \A k \in 1 .. Len(inbox') : inbox'[k].serial \in 1 .. Len(sent')
        /\ Head(inbox).serial \in 1 .. Len(sent)
    <3>1. \A k \in 1 .. Len(inbox') : k + 1 \in 1 .. Len(inbox)
      BY <1>0, <2>2
    <3>2. 1 \in 1 .. Len(inbox)
      BY <1>0, <2>2
    <3>. QED
      BY <2>1, <2>2, <3>1, <3>2 DEF SerialsTrue
  <2>4. \/ UNCHANGED <<endpoints_left, result>>
        \/ /\ endpoints_left' = 0
           /\ result'.ret = "ok" => result'.reply = Head(inbox).serial
    BY <1>5 DEF Receive, call, Return, Outcome
  <2>. QED
    BY <1>0, <2>1, <2>3, <2>4 DEF SerialsTrue
<1>6. CASE Deliveries
  <2>1. PICK i \in 1 .. Len(sent) :
          \E body \in Replies[sent[i].type] : Deliver(i, body)
    BY <1>6 DEF Deliveries
  <2>2. /\ UNCHANGED <<taken, endpoints_left, result, sent>>
        /\ \E id, body : inbox' = Append(inbox, [id |-> id, body |-> body, serial |-> i])
    BY <2>1 DEF Deliver, call
  <2>3. PICK new : inbox' = Append(inbox, new) /\ new.serial = i
    BY <2>2
  <2>4. /\ Len(inbox') = Len(inbox) + 1 /\ inbox'[Len(inbox) + 1] = new
        /\ \A k \in 1 .. Len(inbox) : inbox'[k] = inbox[k]
    BY <1>0, <2>3
  <2>5. \A k \in 1 .. Len(inbox') : k \in 1 .. Len(inbox) \/ k = Len(inbox) + 1
    BY <1>0, <2>4
  <2>. QED
    BY <2>2, <2>3, <2>4, <2>5 DEF SerialsTrue
<1>. QED
  BY <1>1, <1>2, <1>3, <1>4, <1>5, <1>6 DEF Next, Progress, SystemError

LEMMA SerialsAlwaysTrue == Spec => []SerialsTrue
<1>1. Init => SerialsTrue
  <2>1. \A k \in 1 .. Len(<<>>) : FALSE
    OBVIOUS
  <2>2. Len(<<>>) = 0
    OBVIOUS
  <2>. QED
    BY <2>1, <2>2, NetBoundAssumption DEF Init, ResolverInit, NoOutcome, Outcome, SerialsTrue
<1>. QED
  BY <1>1, SerialsStep, TypeInvariance, PTL DEF Spec

----------------------------------------------------------------------------
(* A call of the resolver that has returned has an outcome, and only one   *)
(* of the functions waits for it.                                          *)
CallerKnown ==
    /\ caller \in SqlFunctions \union {"none"}
    /\ (caller # "none" /\ pc = "idle") => result.ret # "none"

LEMMA CallerStep == CallerKnown /\ [FrontNext]_allVars => CallerKnown'
<1>. SUFFICES ASSUME CallerKnown, [FrontNext]_allVars PROVE CallerKnown'
  OBVIOUS
<1>1. CASE UNCHANGED <<caller, pc, result>>
  BY <1>1 DEF CallerKnown
<1>2. CASE caller' = "none"
  BY <1>2 DEF CallerKnown
<1>3. ASSUME NEW t, NEW r, NEW err, CacheSet(t, r, err)
      PROVE  UNCHANGED <<caller, pc, result>>
  BY <1>3 DEF CacheSet, vars
<1>4. ASSUME NEW fn \in SqlFunctions, NEW t, LookupResolve(fn, t)
      PROVE  CallerKnown'
  <2>1. caller' = fn /\ ResolveCall(RequestType(fn), Len(t))
    BY <1>4 DEF LookupResolve
  <2>2. CASE endpoints_count <= 0
    <3>1. Return("fail", 0, "no endpoints")
      BY <2>1, <2>2 DEF ResolveCall
    <3>. QED
      BY <2>1, <3>1 DEF Return, Outcome, CallerKnown
  <2>3. CASE ~(endpoints_count <= 0)
    <3>1. pc' = "loop"
      BY <2>1, <2>3, Zenon DEF ResolveCall
    <3>. QED
      BY <2>1, <3>1 DEF CallerKnown
  <2>. QED
    BY <2>2, <2>3
<1>5. CASE LookupReturn
  BY <1>2, <1>5 DEF LookupReturn
<1>6. CASE (Progress \/ SystemError) /\ UNCHANGED frontVars
  <2>1. caller' = caller
    BY <1>6 DEF frontVars
  <2>2. (\E how \in {"ok", "fail", "raised"} : \E reply, err : Return(how, reply, err))
          \/ pc' \in InCall \/ UNCHANGED <<pc, result>>
    BY <1>6 DEF Progress, SystemError, RequestTooLong, SendRaises, SendRequest,
       PollTimeout, PollError, TakeNext, PollReady, RecvTimeout, RecvError, Receive,
       Exhausted, InCall, call
  <2>. QED
    BY <1>1, <2>1, <2>2 DEF Return, Outcome, CallerKnown, InCall
<1>7. CASE Deliveries /\ UNCHANGED frontVars
  BY <1>1, <1>7 DEF Deliveries, Deliver, call, frontVars
<1>8. CASE caller = "none" /\ ConfigNext /\ UNCHANGED <<resolverVars, frontVars>>
  BY <1>2, <1>8 DEF frontVars
<1>9. CASE UNCHANGED allVars
  BY <1>1, <1>9 DEF allVars, vars, frontVars
<1>10. ASSUME NEW fn, NEW t, LookupMocked(fn, t)
       PROVE  UNCHANGED <<caller, pc, result>>
  BY <1>10 DEF LookupMocked, vars
<1>. QED
  BY <1>1, <1>3, <1>4, <1>5, <1>6, <1>7, <1>8, <1>9, <1>10 DEF FrontNext, Backend, Lookup

LEMMA CallerAlwaysKnown == FrontSpec => []CallerKnown
<1>1. FrontInit => CallerKnown
  BY DEF FrontInit, CallerKnown
<1>. QED
  BY <1>1, CallerStep, PTL DEF FrontSpec

----------------------------------------------------------------------------
(* Every step of the functions is a step of the abstract service or none.  *)

(* What a call makes of a finished call of the resolver is what the        *)
(* service may reply: an answer, or a failure with its reason.             *)
LEMMA ReplyAllowed ==
    ASSUME TypeInv, ErrorMatchesOutcome, SerialsTrue, CallerKnown,
           caller # "none", pc = "idle"
    PROVE  NetAnswer(caller) \in
              {Row(caller, Net(i), Nil) : i \in 1 .. MaxIds}
                \union {Failure(caller, Local(e)) : e \in Errors \ {"none"}}
                \union {Raised(caller)}
<1>1. result.ret \in {"ok", "fail", "raised"}
  BY DEF CallerKnown, TypeInv, TypeOK, CallTypeOK, Outcomes
<1>2. error \in Errors /\ ((error = "none") <=> (result.ret = "ok"))
  BY <1>1 DEF TypeInv, TypeOK, CallTypeOK, ErrorMatchesOutcome
<1>3. CASE result.ret = "ok"
  <2>1. /\ Len(sent) \in Nat /\ taken \in Nat /\ endpoints_left \in Nat /\ MaxIds \in Nat
    BY NetFacts
  <2>2. result.reply \in 1 .. MaxIds
    BY <1>3, <2>1 DEF SerialsTrue
  <2>3. NetAnswer(caller) = Row(caller, Net(result.reply), Nil)
    BY <1>3 DEF NetAnswer
  <2>. QED
    BY <2>2, <2>3
<1>4. CASE result.ret = "fail"
  <2>1. NetAnswer(caller) = Failure(caller, Local(error))
    BY <1>2, <1>4 DEF NetAnswer
  <2>. QED
    BY <1>2, <1>4, <2>1
<1>5. CASE result.ret = "raised"
  BY <1>5 DEF NetAnswer
<1>. QED
  BY <1>1, <1>3, <1>4, <1>5

LEMMA ServiceStep ==
    ASSUME TypeInv, ErrorMatchesOutcome, SerialsTrue, CallerKnown, MocksMatch,
           [FrontNext]_allVars
    PROVE  [Service!Next]_(Service!vars)
<1>1. CASE UNCHANGED frontVars \/ UNCHANGED allVars
  BY <1>1 DEF frontVars, allVars, Service!vars
<1>2. ASSUME NEW t \in KeyTexts, NEW r, NEW err \in BOOLEAN, CacheSet(t, r, err),
             IF err THEN r \in ErrorTexts ELSE r \in ResponseTexts
      PROVE  Service!Next
  <2>1. Entry(r, err) \in {Entry(x, FALSE) : x \in ResponseTexts}
                            \union {Entry(x, TRUE) : x \in ErrorTexts}
    BY <1>2
  <2>2. Service!SetMock(t, Entry(r, err))
    BY <1>2 DEF CacheSet, Service!SetMock
  <2>. QED
    BY <2>1, <2>2 DEF Service!Next
<1>3. ASSUME NEW fn \in SqlFunctions, NEW t \in KeyTexts, LookupMocked(fn, t)
      PROVE  Service!Next
  <2>1. Found(t) /\ mocks[t] = find(t)
    BY <1>3 DEF LookupMocked, MocksMatch
  <2>2. PICK r, e : find(t) = Entry(r, e)
    BY <2>1 DEF MocksMatch, EntriesOnly, Found, find
  <2>3. Service!AskMocked(fn, t)
    BY <1>3, <2>1, <2>2, EntryIsSome DEF LookupMocked, Service!AskMocked
  <2>. QED
    BY <2>3 DEF Service!Next
<1>4. ASSUME NEW fn \in SqlFunctions, NEW t \in KeyTexts, LookupResolve(fn, t)
      PROVE  Service!Next
  <2>1. mocks[t] = NoMock
    BY <1>4 DEF LookupResolve, MocksMatch
  <2>2. Service!AskNetwork(fn, t)
    BY <1>4, <2>1 DEF LookupResolve, Service!AskNetwork
  <2>. QED
    BY <2>2 DEF Service!Next
<1>5. CASE LookupReturn
  <2>1. Service!Reply
    BY <1>5, ReplyAllowed DEF LookupReturn, Service!Reply
  <2>. QED
    BY <2>1 DEF Service!Next
<1>6. CASE \E t \in KeyTexts : \/ \E r \in ResponseTexts : CacheSet(t, r, FALSE)
                               \/ \E r \in ErrorTexts : CacheSet(t, r, TRUE)
  BY <1>2, <1>6
<1>. QED
  BY <1>1, <1>3, <1>4, <1>5, <1>6 DEF FrontNext, Backend, Lookup

(* The lnp_resolve_* functions, with the mocks, the requests, the failover *)
(* and the late replies behind them, take no step the service of LnpLookup *)
(* does not: this is LookupService without its fairness                    *)
(* (f_lnp_resolve.c:13-158, endpoints_cache.c:98-139).                     *)
THEOREM LookupIsService == FrontSpec => Service!SafeSpec
<1>1. FrontInit => Service!Init
  BY DEF FrontInit, Service!Init
<1>2. Spec => [](TypeInv /\ ErrorMatchesOutcome /\ SerialsTrue)
  BY TypeInvariance, ErrorsAreExplained, SerialsAlwaysTrue, PTL
<1>3. FrontSpec => [](CallerKnown /\ MocksMatch)
  BY CallerAlwaysKnown, MocksAlwaysMatch, PTL
<1>. QED
  BY <1>1, <1>2, <1>3, ResolverInside, ServiceStep, PTL DEF FrontSpec, Service!SafeSpec

----------------------------------------------------------------------------
(* Answers of the network.  While a function waits, what was sent since it *)
(* called is of its type, and it succeeds only after a request was sent.   *)
ThisCall ==
    /\ since \in Nat /\ since <= Len(sent)
    /\ caller \in SqlFunctions \union {"none"}
    /\ IF caller = "none" THEN pc \notin InCall
         ELSE /\ pc \in InCall => req.type = RequestType(caller)
              /\ \A i \in 1 .. Len(sent) : i > since => sent[i].type = RequestType(caller)
              /\ pc \in {"poll", "recv"} => Len(sent) > since
              /\ (pc = "idle" /\ result.ret = "ok") => Len(sent) > since

(* AnswerIsThisCalls, for a request that was sent. *)
AnswerInv ==
    (answer # NoAnswer /\ answer.kind = "row" /\ answer.value.from = "net") =>
        LET i == answer.value.request
        IN  i \in 1 .. Len(sent) /\ i > since /\ sent[i].type = RequestType(answer.fn)

(* A step of the network, or one the call does not send or return in. *)
LEMMA ThisCallKept ==
    ASSUME ThisCall, UNCHANGED <<since, caller, sent, req, result>>,
           pc' = pc \/ (pc \in InCall /\ pc' = "loop") \/ (pc = "poll" /\ pc' = "recv")
    PROVE  ThisCall'
BY DEF ThisCall, InCall

LEMMA ThisCallStep ==
    ASSUME TypeInv, ThisCall, [FrontNext]_allVars
    PROVE  ThisCall'
<1>0. sent \in Seq(SentRequests) /\ Len(sent) \in Nat
  BY NetFacts
<1>1. CASE UNCHANGED allVars
  BY <1>1, ThisCallKept DEF allVars, vars, frontVars
<1>2. ASSUME NEW t, NEW r, NEW err, CacheSet(t, r, err)
      PROVE  ThisCall'
  BY <1>2, ThisCallKept DEF CacheSet, vars
<1>3. ASSUME NEW fn, NEW t, LookupMocked(fn, t)
      PROVE  ThisCall'
  BY <1>3, ThisCallKept DEF LookupMocked, vars
<1>4. ASSUME NEW fn \in SqlFunctions, NEW t, LookupResolve(fn, t)
      PROVE  ThisCall'
  <2>1. /\ ResolveCall(RequestType(fn), Len(t)) /\ caller' = fn /\ caller' # "none"
        /\ since' = Len(sent) /\ UNCHANGED sent
    BY <1>4 DEF LookupResolve, ResolveCall, SqlFunctions
  <2>2. since' \in Nat /\ since' <= Len(sent') /\ \A i \in 1 .. Len(sent') : ~(i > since')
    BY <1>0, <2>1
  <2>3. CASE endpoints_count <= 0
    <3>1. Return("fail", 0, "no endpoints")
      BY <2>1, <2>3 DEF ResolveCall
    <3>2. pc' = "idle" /\ result'.ret = "fail"
      BY <3>1 DEF Return, Outcome
    <3>. QED
      BY <2>1, <2>2, <3>2 DEF ThisCall, InCall
  <2>4. CASE ~(endpoints_count <= 0)
    <3>1. pc' = "loop" /\ req' = [type |-> RequestType(fn), size |-> Len(t)]
      BY <2>1, <2>4, Zenon DEF ResolveCall
    <3>2. req'.type = RequestType(fn)
      BY <3>1
    <3>. QED
      BY <2>1, <2>2, <3>1, <3>2 DEF ThisCall, InCall
  <2>. QED
    BY <2>3, <2>4
<1>5. CASE LookupReturn
  BY <1>5 DEF LookupReturn, vars, ThisCall, InCall
<1>6. CASE SendRequest /\ UNCHANGED frontVars
  <2>1. /\ pc = "loop" /\ pc' = "poll" /\ UNCHANGED <<req, since, caller>>
        /\ \E new : new.type = req.type /\ sent' = Append(sent, new)
    BY <1>6 DEF SendRequest, send_data, frontVars
  <2>2. PICK new : new.type = req.type /\ sent' = Append(sent, new)
    BY <2>1
  <2>3. /\ Len(sent') = Len(sent) + 1 /\ sent'[Len(sent) + 1] = new
        /\ \A i \in 1 .. Len(sent) : sent'[i] = sent[i]
    BY <1>0, <2>2
  <2>4. caller # "none" /\ req.type = RequestType(caller)
    BY <2>1 DEF ThisCall, InCall
  <2>5. \A i \in 1 .. Len(sent') : i \in 1 .. Len(sent) \/ i = Len(sent) + 1
    BY <1>0, <2>3
  <2>6. \A i \in 1 .. Len(sent') : i > since => sent'[i].type = RequestType(caller)
    BY <2>2, <2>3, <2>4, <2>5 DEF ThisCall
  <2>. QED
    BY <1>0, <2>1, <2>3, <2>4, <2>6 DEF ThisCall
<1>7. CASE (PollTimeout \/ PollError \/ PollReady) /\ UNCHANGED frontVars
  BY <1>7, ThisCallKept DEF PollTimeout, PollError, TakeNext, PollReady, frontVars, InCall
<1>8. CASE /\ UNCHANGED frontVars
           /\ RequestTooLong \/ SendRaises \/ RecvTimeout \/ RecvError \/ Exhausted
  <2>1. /\ UNCHANGED <<since, caller, sent>> /\ pc \in InCall
        /\ \E how \in {"fail", "raised"} : \E err : Return(how, 0, err)
    BY <1>8 DEF RequestTooLong, SendRaises, RecvTimeout, RecvError, Exhausted,
       frontVars, InCall
  <2>2. pc' = "idle" /\ result'.ret # "ok"
    BY <2>1 DEF Return, Outcome
  <2>. QED
    BY <2>1, <2>2 DEF ThisCall, InCall
<1>9. CASE Receive /\ UNCHANGED frontVars
  <2>1. /\ UNCHANGED <<since, caller, sent>> /\ pc = "recv"
        /\ UNCHANGED <<pc, call>> \/ \E how, reply, err : Return(how, reply, err)
    BY <1>9 DEF Receive, frontVars
  <2>2. CASE UNCHANGED <<pc, call>>
    BY <2>1, <2>2, ThisCallKept DEF call
  <2>3. CASE pc' = "idle"
    BY <2>1, <2>3 DEF ThisCall, InCall
  <2>. QED
    BY <2>1, <2>2, <2>3 DEF Return
<1>10. CASE Deliveries /\ UNCHANGED frontVars
  BY <1>10, ThisCallKept DEF Deliveries, Deliver, call, frontVars
<1>11. CASE caller = "none" /\ ConfigNext /\ UNCHANGED <<resolverVars, frontVars>>
  <2>1. pc' \in {"idle", "adding"}
    BY <1>11 DEF TypeInv, TypeOK, CallTypeOK, ConfigNext, SocketError, EndpointsSet,
       EndpointsSetElement, EndpointsSetDone, SetTimeout, SetRttTimeout
  <2>. QED
    BY <1>11, <2>1 DEF resolverVars, frontVars, ThisCall, InCall
<1>. QED
  BY <1>1, <1>2, <1>3, <1>4, <1>5, <1>6, <1>7, <1>8, <1>9, <1>10, <1>11
     DEF FrontNext, Backend, Lookup, Progress, SystemError

(* A mock, and a failure, is not taken for an answer of the network. *)
LEMMA MockIsNotNet ==
    ASSUME NEW fn, NEW e
    PROVE  ~(MockAnswer(fn, e).kind = "row" /\ MockAnswer(fn, e).value.from = "net")
BY DEF MockAnswer, Failure, Row, NullAnswer, Mock, Nil

LEMMA FailureIsNotNet ==
    ASSUME NEW fn, NEW e
    PROVE  /\ ~(Failure(fn, e).kind = "row" /\ Failure(fn, e).value.from = "net")
           /\ Raised(fn).kind # "row"
BY DEF Failure, Row, NullAnswer, Nil, Raised

LEMMA AnswerInvStep ==
    ASSUME TypeInv, SerialsTrue, AnswerIsOurs, CallerKnown, ThisCall, AnswerInv,
           [FrontNext]_allVars
    PROVE  AnswerInv'
<1>0. sent \in Seq(SentRequests) /\ Len(sent) \in Nat
  BY NetFacts
<1>1. CASE UNCHANGED <<answer, since, sent>>
  BY <1>1 DEF AnswerInv
<1>2. ASSUME NEW t, NEW r, NEW err, CacheSet(t, r, err)
      PROVE  AnswerInv'
  BY <1>1, <1>2 DEF CacheSet, vars
<1>3. ASSUME NEW fn, NEW t, LookupMocked(fn, t)
      PROVE  AnswerInv'
  BY <1>3, MockIsNotNet DEF LookupMocked, AnswerInv
<1>4. ASSUME NEW fn, NEW t, LookupResolve(fn, t)
      PROVE  AnswerInv'
  BY <1>4 DEF LookupResolve, AnswerInv
<1>5. CASE LookupReturn
  <2>1. /\ caller # "none" /\ pc = "idle" /\ answer' = NetAnswer(caller)
        /\ UNCHANGED <<sent, since>>
    BY <1>5 DEF LookupReturn, vars
  <2>2. result.ret \in {"ok", "fail", "raised"}
    BY <2>1 DEF CallerKnown, TypeInv, TypeOK, CallTypeOK, Outcomes
  <2>3. CASE result.ret = "ok"
    <3>1. answer' = Row(caller, Net(Len(sent)), Nil)
      BY <2>1, <2>3 DEF NetAnswer, AnswerIsOurs
    <3>2. /\ answer'.value.request = Len(sent) /\ answer'.fn = caller
      BY <3>1 DEF Row, Net
    <3>3. /\ Len(sent) > since /\ since \in Nat
          /\ \A i \in 1 .. Len(sent) : i > since => sent[i].type = RequestType(caller)
      BY <2>1, <2>3 DEF ThisCall
    <3>4. Len(sent) \in 1 .. Len(sent)
      BY <1>0, <3>3
    <3>. QED
      BY <2>1, <3>2, <3>3, <3>4 DEF AnswerInv
  <2>4. CASE result.ret # "ok"
    <3>1. \/ \E e : answer' = Failure(caller, e)
          \/ answer' = Raised(caller)
      BY <2>1, <2>2, <2>4 DEF NetAnswer
    <3>. QED
      BY <3>1, FailureIsNotNet DEF AnswerInv
  <2>. QED
    BY <2>3, <2>4
<1>6. CASE SendRequest /\ UNCHANGED frontVars
  <2>1. UNCHANGED <<since, answer>> /\ \E new : sent' = Append(sent, new)
    BY <1>6 DEF SendRequest, send_data, frontVars
  <2>2. /\ Len(sent') = Len(sent) + 1
        /\ \A i \in 1 .. Len(sent) : sent'[i] = sent[i]
    BY <1>0, <2>1
  <2>3. \A i \in 1 .. Len(sent) : i \in 1 .. Len(sent')
    BY <1>0, <2>2
  <2>. QED
    BY <2>1, <2>2, <2>3 DEF AnswerInv
<1>7. CASE /\ UNCHANGED frontVars
           /\ \/ RequestTooLong \/ PollTimeout \/ PollReady \/ RecvTimeout \/ Receive
              \/ Exhausted \/ SystemError \/ Deliveries
              \/ (ConfigNext /\ UNCHANGED resolverVars)
  BY <1>1, <1>7 DEF RequestTooLong, PollTimeout, PollReady, RecvTimeout, Receive,
     Exhausted, SystemError, SendRaises, PollError, TakeNext, RecvError, Deliveries,
     Deliver, resolverVars, frontVars
<1>8. CASE UNCHANGED allVars
  BY <1>1, <1>8 DEF allVars, vars, frontVars
<1>. QED
  BY <1>2, <1>3, <1>4, <1>5, <1>6, <1>7, <1>8 DEF FrontNext, Backend, Lookup, Progress

(* What a function returns from the network was sent for by that very      *)
(* call, as the kind of request that function makes, as long as ids do not *)
(* wrap (f_lnp_resolve.c:13-158, resolver.c:270-278).                      *)
THEOREM AnswersAreThisCalls ==
    ASSUME NoWrap
    PROVE  FrontSpec => []AnswerIsThisCalls
<1>1. FrontInit => ThisCall /\ AnswerInv
  <2>1. Len(<<>>) = 0
    OBVIOUS
  <2>. QED
    BY <2>1 DEF FrontInit, Init, ConfigInit, ResolverInit, ThisCall, AnswerInv, InCall
<1>2. Spec => [](TypeInv /\ SerialsTrue /\ AnswerIsOurs)
  BY TypeInvariance, SerialsAlwaysTrue, AnswersAreOurs, PTL
<1>3. AnswerInv => AnswerIsThisCalls
  BY DEF AnswerInv, AnswerIsThisCalls
<1>. QED
  BY <1>1, <1>2, <1>3, ResolverInside, CallerAlwaysKnown, ThisCallStep, AnswerInvStep, PTL
     DEF FrontSpec
=============================================================================

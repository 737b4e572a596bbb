\* Two slots; arrays of up to three elements, good, unparsable, with a bad host or NULL.
CONSTANTS
    MAX_ENDPOINTS = 2
    Uris <- Endpoints
    ParsableUris <- ParsableEndpoints
    HostUris <- HostEndpoints
    NullUri = NullUri
    MaxLen = 3
    Inputs <- AllInputs
    TimeoutArgs <- Milliseconds
    Colon = colon
    Slash = slash
    PortNumbers = {80}
    Hosts <- Addresses
    udp = udp
    a = a
    b = b
    name = name
    NoPart = NoPart
    SOCKADDR_SIZE = 8
    PROTOCOL_SIZE = 1
    HOST_SIZE = 2
SPECIFICATION ConfigSpec
INVARIANTS ConfigTypeOK TableMatchesInput ShowMatchesTable

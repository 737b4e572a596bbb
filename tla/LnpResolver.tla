---------------------------- MODULE LnpResolver ----------------------------
(***************************************************************************)
(* Resolver.resolve (resolver.c:167-288) in one backend, with the settings *)
(* of LnpConfig, the message formats of LnpWire, the request ids of        *)
(* request_id.c, and the UDP network with the endpoints' servers behind it *)
(* (external).                                                             *)
(*                                                                         *)
(* The socket stays open from call to call, so what arrives late for one   *)
(* request is received by the next.  The network loses, delays, reorders   *)
(* and duplicates; a server may confirm and answer in any order.           *)
(*                                                                         *)
(* resolve's local endp always is the slot at curr_endpoint_index: the two *)
(* are set together, and EndpointsUsable says the slot is in use.          *)
(***************************************************************************)
EXTENDS LnpConfig, LnpWire

CONSTANTS
    ID_MOD,         \* 2^32, the range of request ids
    RandValues,     \* what rand() may return
    DataSizes,      \* sizes of the data to resolve
    Replies,        \* datagrams a server sends, for each type of request
    MaxIds,         \* bound: request ids taken by the backend
    MaxReplies,     \* bound: datagrams arriving for one request
    MaxInbox        \* bound: datagrams waiting in the socket

ASSUME IdAssumption == ID_MOD \in Nat \ {0} /\ RandValues \subseteq 0 .. ID_MOD - 1
ASSUME DataAssumption == DataSizes \subseteq Nat
ASSUME RepliesAssumption == Replies \in [ReqTypes -> SUBSET Datagrams]
ASSUME NetBoundAssumption == MaxIds \in Nat /\ MaxReplies \in Nat /\ MaxInbox \in Nat

VARIABLES
    req_id,             \* the last request id generated, 0 before the first
    taken,              \* history: how many ids were generated
    req,                \* type and data size of the request under way
    endpoints_left,
    error,              \* class of the error text, "none" for NULL
    result,             \* outcome of the last call, and the request its reply was for
    sent,               \* history: requests sent, in order
    tried,              \* history: endpoint indexes this call has sent to
    arrived,            \* datagrams that have arrived for each request sent
    inbox               \* the socket's receive buffer

net == <<arrived, inbox>>
call == <<req, endpoints_left, error, result, tried>>
resolverVars == <<req_id, taken, req, endpoints_left, error, result, sent, tried,
                  arrived, inbox>>
vars == <<pc, socket_fd, recv_timeout, rtt_timeout, endpoints, endpoints_count,
          curr_endpoint_index, input, pos, show, req_id, taken, req,
          endpoints_left, error, result, sent, tried, arrived, inbox>>

(* What resolve leaves alone: everything but the current endpoint. *)
settings == <<socket_fd, recv_timeout, rtt_timeout, endpoints, endpoints_count,
              input, pos, show>>

InCall == {"loop", "poll", "recv"}

(* reply is the request a datagram that ended the call was sent for, 0 if  *)
(* no datagram ended it.                                                   *)
Outcome(how, reply) == [ret |-> how, reply |-> reply]
NoOutcome == Outcome("none", 0)

(* The request when there is none: the zeroed one. *)
NoRequest == [type |-> TAGGED_REQ_VERSION, size |-> 0]

----------------------------------------------------------------------------
(* gen_request_id: the first id, and the one after 0, comes from rand(). *)
gen_request_id ==
    /\ req_id' \in IF req_id = 0 THEN RandValues ELSE {(req_id + 1) % ID_MOD}
    /\ taken' = taken + 1

ResolverInit ==
    /\ req_id = 0
    /\ taken = 0
    /\ req = NoRequest
    /\ endpoints_left = 0
    /\ error = "none"
    /\ result = NoOutcome
    /\ sent = <<>>
    /\ tried = <<>>
    /\ arrived = <<>>
    /\ inbox = <<>>

Init == ConfigInit /\ ResolverInit

(* The call ends: with how, and with what is in error; its locals go. *)
Return(how, reply, err) ==
    /\ pc' = "idle"
    /\ result' = Outcome(how, reply)
    /\ error' = err
    /\ req' = NoRequest
    /\ endpoints_left' = 0
    /\ tried' = <<>>

(* Fault: the first endpoint is not counted among those to try. *)
ResolveCallOneShort(type, size) ==
    /\ pc = "idle"
    /\ taken + endpoints_count <= MaxIds
    /\ endpoints_count > 0
    /\ pc' = "loop"
    /\ req' = [type |-> type, size |-> size]
    /\ endpoints_left' = endpoints_count - 1
    /\ curr_endpoint_index' = CurrentIndex
    /\ result' = NoOutcome
    /\ error' = "none"
    /\ tried' = <<>>
    /\ UNCHANGED <<settings, req_id, taken, sent, net>>

(* resolve is called with a zeroed response and error = NULL. *)
ResolveCall(type, size) ==
    /\ pc = "idle"
    /\ taken + endpoints_count <= MaxIds
    /\ IF endpoints_count <= 0
         THEN /\ Return("fail", 0, "no endpoints")
              /\ UNCHANGED curr_endpoint_index
         ELSE /\ pc' = "loop"
              /\ req' = [type |-> type, size |-> size]
              /\ endpoints_left' = endpoints_count
              /\ curr_endpoint_index' = CurrentIndex
              /\ result' = NoOutcome
              /\ error' = "none"
              /\ tried' = <<>>
    /\ UNCHANGED <<settings, req_id, taken, sent, net>>

(* One round of the loop, up to the send: an id is taken even for a        *)
(* request that turns out too long.                                        *)
RequestTooLong ==
    /\ pc = "loop" /\ endpoints_left > 0
    /\ TooLong(req.type, req.size)
    /\ gen_request_id
    /\ Return("fail", 0, "too long")
    /\ UNCHANGED <<settings, curr_endpoint_index, sent, net>>

(* sendto fails: err() is elog(ERROR), which leaves the function here; the *)
(* lines after it, that would take the next endpoint, are not reached.     *)
SendRaises ==
    /\ pc = "loop" /\ endpoints_left > 0
    /\ ~TooLong(req.type, req.size)
    /\ gen_request_id
    /\ Return("raised", 0, "send")
    /\ UNCHANGED <<settings, curr_endpoint_index, sent, net>>

(* Transport.send_data hands the datagram to the network. *)
send_data ==
    /\ sent' = Append(sent, [id |-> req_id', type |-> req.type,
                             to |-> endpoints[curr_endpoint_index].url])
    /\ arrived' = Append(arrived, 0)
    /\ tried' = Append(tried, curr_endpoint_index)

(* Fault: the loop does not count the endpoint it sends to. *)
SendWithoutCountdown ==
    /\ pc = "loop" /\ endpoints_left > 0 /\ taken < MaxIds
    /\ ~TooLong(req.type, req.size)
    /\ gen_request_id
    /\ send_data
    /\ pc' = "poll"
    /\ UNCHANGED <<settings, curr_endpoint_index, req, endpoints_left, error,
                   result, inbox>>

SendRequest ==
    /\ pc = "loop" /\ endpoints_left > 0
    /\ ~TooLong(req.type, req.size)
    /\ endpoints_left' = endpoints_left - 1
    /\ gen_request_id
    /\ send_data
    /\ pc' = "poll"
    /\ UNCHANGED <<settings, curr_endpoint_index, req, error, result, inbox>>

(* The endpoint is given up: an error, the next endpoint, the loop again. *)
TakeNext(err) ==
    /\ pc = "poll"
    /\ error' = err
    /\ curr_endpoint_index' = NextIndex
    /\ pc' = "loop"
    /\ UNCHANGED <<settings, req_id, taken, req, endpoints_left, result, sent,
                   tried, net>>

(* poll returns 0: nothing to receive within rtt_timeout (a negative one   *)
(* waits forever).                                                         *)
PollTimeout ==
    /\ inbox = <<>>
    /\ rtt_timeout >= 0
    /\ TakeNext("rtt expired")

PollError == TakeNext("rtt poll")

(* Fault: the error of an endpoint given up earlier is left behind. *)
PollReadyKeepsError ==
    /\ pc = "poll"
    /\ inbox # <<>>
    /\ pc' = "recv"
    /\ UNCHANGED <<settings, curr_endpoint_index, req_id, taken, req, endpoints_left,
                   error, result, sent, tried, net>>

(* Some datagram is there: stay with this endpoint, clear the error. *)
PollReady ==
    /\ pc = "poll"
    /\ inbox # <<>>
    /\ error' = "none"
    /\ pc' = "recv"
    /\ UNCHANGED <<settings, curr_endpoint_index, req_id, taken, req, endpoints_left,
                   result, sent, tried, net>>

(* recvfrom fails or its timeout expires. *)
RecvTimeout ==
    /\ pc = "recv"
    /\ inbox = <<>>
    /\ recv_timeout # "never"
    /\ Return("fail", 0, "recv")
    /\ UNCHANGED <<settings, curr_endpoint_index, req_id, taken, sent, net>>

RecvError ==
    /\ pc = "recv"
    /\ Return("fail", 0, "recv")
    /\ UNCHANGED <<settings, curr_endpoint_index, req_id, taken, sent, net>>

(* Fault: an answer is not compared with the request id. *)
ReceiveAnyAnswer ==
    /\ pc = "recv"
    /\ inbox # <<>>
    /\ LET d == Head(inbox)
           kind == parse_msg(req.type, d.body).kind
       IN  \/ /\ kind \in {"bad", "remote"}
              /\ Return("fail", d.serial, kind)
           \/ /\ kind = "confirm"
              /\ UNCHANGED <<pc, call>>
           \/ /\ kind = "answer"
              /\ Return("ok", d.serial, error)
    /\ inbox' = Tail(inbox)
    /\ UNCHANGED <<settings, curr_endpoint_index, req_id, taken, sent, arrived>>

(* One datagram is received and parsed as a reply to the request under     *)
(* way.  What cannot be parsed, or reports an error, ends the call before  *)
(* its id is looked at; a confirmation, and an answer with another id, are *)
(* skipped.                                                                *)
Receive ==
    /\ pc = "recv"
    /\ inbox # <<>>
    /\ LET d == Head(inbox)
           kind == parse_msg(req.type, d.body).kind
       IN  \/ /\ kind \in {"bad", "remote"}
              /\ Return("fail", d.serial, kind)
           \/ /\ kind = "confirm" \/ (kind = "answer" /\ d.id # req_id)
              /\ UNCHANGED <<pc, call>>
           \/ /\ kind = "answer" /\ d.id = req_id
              /\ Return("ok", d.serial, error)
    /\ inbox' = Tail(inbox)
    /\ UNCHANGED <<settings, curr_endpoint_index, req_id, taken, sent, arrived>>

(* No endpoint left to try. *)
Exhausted ==
    /\ pc = "loop" /\ endpoints_left = 0
    /\ Return("fail", 0, IF error = "none" THEN "no response" ELSE error)
    /\ UNCHANGED <<settings, curr_endpoint_index, req_id, taken, sent, net>>

(* What the backend does when no system call fails, and when one does. *)
Progress == \/ RequestTooLong \/ SendRequest \/ PollTimeout \/ PollReady
            \/ RecvTimeout \/ Receive \/ Exhausted
SystemError == SendRaises \/ PollError \/ RecvError

----------------------------------------------------------------------------
(* External: a datagram of a server arrives, for any request ever sent. *)
Deliver(i, body) ==
    /\ arrived[i] < MaxReplies
    /\ Len(inbox) < MaxInbox
    /\ arrived' = [arrived EXCEPT ![i] = @ + 1]
    /\ inbox' = Append(inbox, [id |-> sent[i].id, body |-> body, serial |-> i])
    /\ UNCHANGED <<pc, settings, curr_endpoint_index, req_id, taken, call, sent>>

Deliveries ==
    \E i \in 1 .. Len(sent) : \E body \in Replies[sent[i].type] : Deliver(i, body)

Next ==
    \/ ConfigNext /\ UNCHANGED resolverVars
    \/ \E type \in ReqTypes, size \in DataSizes : ResolveCall(type, size)
    \/ Progress
    \/ SystemError
    \/ Deliveries

Spec == Init /\ [][Next]_vars

(* The backend keeps running its own code: poll and recvfrom return when   *)
(* there is data or their time is up.  Nothing is assumed of callers, of   *)
(* the network, of the servers or of errors.                               *)
FairSpec == Spec /\ WF_vars(Progress)

----------------------------------------------------------------------------
Ids == 0 .. ID_MOD - 1
Requests == [type : ReqTypes, size : Nat]
SentRequests == [id : Ids, type : ReqTypes, to : Uris \union {NullUri}]
Received == [id : Ids, body : Datagrams, serial : Nat]
Errors == {"none", "no endpoints", "too long", "send", "rtt expired",
           "rtt poll", "recv", "bad", "remote", "no response"}
Outcomes == [ret : {"none", "ok", "fail", "raised"}, reply : Nat]

(* The locals of resolve and of its caller. *)
CallTypeOK ==
    /\ pc \in {"idle", "adding"} \union InCall
    /\ req_id \in Ids
    /\ taken \in Nat
    /\ req \in Requests
    /\ endpoints_left \in 0 .. MAX_ENDPOINTS
    /\ error \in Errors
    /\ result \in Outcomes

(* The requests sent and the socket's buffer. *)
NetTypeOK ==
    /\ sent \in Seq(SentRequests)
    /\ tried \in Seq(Slots)
    /\ arrived \in Seq(Nat)
    /\ Len(arrived) = Len(sent)
    /\ inbox \in Seq(Received)

(* Type correctness of the resolver, its history and the socket's buffer. *)
TypeOK == ConfigTypeOK /\ CallTypeOK /\ NetTypeOK

(* A call has an endpoint to talk to from its start to its end: the table  *)
(* it started with is not empty and the index is inside it.                *)
CallHasEndpoint == pc \in InCall => endpoints_count > 0

(* Failover takes every endpoint at most once per call: the endpoints sent *)
(* to are distinct, and those left to try are exactly the ones counted by  *)
(* endpoints_left (resolver.c:176-228).                                    *)
FailoverOnce ==
    /\ \A i, j \in 1 .. Len(tried) : i # j => tried[i] # tried[j]
    /\ pc \in InCall => Len(tried) + endpoints_left = endpoints_count

(* A call that runs out of endpoints has sent to all of them, and leaves   *)
(* the next call to start where it started.                                *)
FullRound ==
    (pc = "loop" /\ endpoints_left = 0) =>
        /\ \A i \in 0 .. endpoints_count - 1 : \E j \in 1 .. Len(tried) : tried[j] = i
        /\ curr_endpoint_index = tried[1]

(* A call that succeeds returns the answer to its own latest request, to   *)
(* the endpoint it last sent to, whatever late replies to earlier requests *)
(* it met on the way (resolver.c:270-278).                                 *)
AnswerIsOurs == result.ret = "ok" => result.reply = Len(sent)

(* Failure and error text come together: lnp_resolve_tagged_with_error     *)
(* returns the text on failure, and an answer is not accompanied by the    *)
(* error of an endpoint given up earlier (resolver.c:233, 284-287).        *)
ErrorMatchesOutcome ==
    (pc = "idle" /\ result.ret # "none") => ((error = "none") <=> (result.ret = "ok"))

(* A call ends, whatever the servers do, unless the caller asked for       *)
(* unlimited waiting (lnp_set_timeout(0) or a negative RTT timeout).       *)
CallEnds ==
    (pc \in InCall /\ recv_timeout # "never" /\ rtt_timeout >= 0) ~> (pc = "idle")

(* What ends a call is a reply to its latest request, errors included      *)
(* ("check response id", resolver.c:270).                                  *)
ReplyIsOurs == result.reply # 0 => result.reply = Len(sent)
============================================================================

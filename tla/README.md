# TLA+ models of yeti-pg-ext

This directory models the yeti PostgreSQL extension in TLA+: the shared-memory rate
limiter `tbf_rate_check`; the LNP resolver with its endpoint table, URI parser,
timeouts, wire format, mock cache and SQL functions; and the functions that keep
nothing between calls: the routing tags (`tag_compare`, `tag_action`), the weighted
draw `rank_dns_srv`, and the text functions `replace_rand`, `regexp_replace_rand` and
`process_templates`. TLC checks the models on small instances; TLAPS proves the most
important invariants for every value of the constants.

`src/...` below means a path of the repository; line numbers are of the modelled
commit.

## 1. The system

The extension is one shared library loaded into PostgreSQL backends (processes,
one per connection, each single-threaded). Two kinds of state exist:

* **shared by all backends**: the token buckets of `tbf_rate_check`, a hash table
  in shared memory behind one LWLock;
* **private to a backend** and alive as long as it: everything of the LNP
  resolver, the mock cache and the random generators.

| Component (source) | State | Operations | Meets |
|---|---|---|---|
| Rate limiter (`f_tbf_rate_check.c`) | `tbf`, `tbf_hash` entries (`updated_at`, `tokens`), `tbf->lock` | `tbf_shmem_startup`, `tbf_rate_check` | all backends through shared memory; ERROR recovery and crash restart of PostgreSQL |
| Endpoint table (`resolver.c` 41-165) | `endpoints[]`, `endpoints_count`, `curr_endpoint_index` | `add_endpoint`, `remove_all_endpoints`, `get_current/next/…_endpoint` | `lnp_endpoints_set`, `lnp_endpoints_show`, `resolve` |
| `resolve` (`resolver.c` 167-288) | locals, `error`, `msg` | failover loop, RTT poll, receive loop | table, transport, ids, wire format |
| Wire format (`resolver.c` 295-519) | none | `prepare_msg`, `parse_msg` | `resolve`; the LNP servers |
| Transport (`transport.c`) | `socket_fd`, its receive timeout | `init_socket`, `set_timeout`, `send_data`, `recv_data`, `shutdown_socket` | the network |
| Request ids (`request_id.c`) | `req_id` | `gen_request_id` | `resolve` |
| URI parser (`uri_parser.c`) | none | `parseAddr` | `add_endpoint` |
| Settings (`f_lnp_set_timeout.c`, `f_lnp_set_rtt_timeout.c`) | `rtt_timeout`, `SO_RCVTIMEO` | the two functions | transport, resolver |
| Mock cache (`endpoints_cache.c`, `f_lnp_endpoints_cache_set.c`) | `hash_tab` | `store`, `find` (others unused) | lookup functions |
| Lookup functions (`f_lnp_resolve.c`) | none | `lnp_resolve_cnam`, `_tagged`, `_tagged_with_error` | cache, then resolver |
| Tags (`f_tag_compare.c`, `f_tag_action.c`) | none | pure functions of integer arrays | callers only |
| `rank_dns_srv` (`f_sort_srv.c`) | per-partition window memory | weighted draw | callers only |
| `replace_rand` (`replace_rand.c`) | none | a scan, a loop over sizes, a loop that copies | `regexp_replace_rand` |
| `regexp_replace_rand` (`f_regexp_replace_rand.c`) | `fcinfo` of the query, whose arguments it overwrites | the functions of a text, of an array, and without rule splitting | `replace`, `replace_placeholders`, the regexp engine |
| `process_templates` (`f_process_templates.c`) | none | a scanner, over a text or an array | `regexp_replace_rand` |
| Hooks, logging (`init.c`, `fini.c`, `log.h`) | none | `_PG_init`, `_PG_fini` | all |

What is hard here:

* **Interleaving.** `tbf_rate_check` reads the clock before it takes the lock, so
  readings reach a bucket out of order.
* **Errors that leave a function.** `hash_search` raises ERROR with the lock held;
  `err()` is `elog(ERROR)`, so code after it is not reached.
* **A socket that outlives the call.** Late, repeated and reordered replies of one
  call are received by the next, possibly a call of another request type.
* **Timeouts and failover.** Two timeouts, a table that is walked cyclically, an
  index that survives calls and reconfiguration.
* **Fixed-size buffers and narrow integers** in messages and in the cache.
* **Loops left early.** The tag functions leave their loops where they believe the
  outcome is settled, differently in each mode, and compare lengths for sets.
* **Two loops that must agree.** `replace` computes a length in one loop and fills it
  in another; `rank_dns_srv` sums what it draws from in one loop and looks for the
  drawn row in another.
* **Scanners.** What is found must not depend on what stands before it, and a
  placeholder must be found once.
* **Arguments overwritten in place.** `regexp_replace_rand` passes chunks to the regexp
  engine through its own `fcinfo`, which lives as long as the query.

What makes each part correct: the limiter never passes more than burst plus rate,
is not starved by retries and never leaves its lock held; the endpoint table is
exactly the good part of the last `lnp_endpoints_set`, with the index inside it;
`resolve` ends, tries each endpoint at most once, returns the answer to its own
request and an error text exactly on failure; parsers stay inside the datagram; a
lookup is answered once, from the last mock if there is one; the tag functions
depend on the sets of values of their arrays only; a partition's rows get the ranks
1 to n, each in proportion to its weight; every placeholder of a text is replaced once,
nothing else changes, and the result is as long as its buffer; the first rule that
matches gives the result of its own position, for each element and row anew.

## 2. Modules

| Module | Models | Extends |
|---|---|---|
| `TokenBucket` | the rate limiter, with backends, ERROR abort, clock, crash restart | |
| `LnpWire` | request and response formats (operators) | |
| `UriParser` | `parseAddr` and what `add_endpoint` makes of its parts (operators) | |
| `LnpConfig` | endpoint table, socket and timeouts, the SQL functions that set and show them | |
| `LnpResolver` | `resolve`, request ids, the network and the servers | `LnpConfig`, `LnpWire` |
| `EndpointsCache` | the mock cache (operators and one variable) | |
| `LnpFrontend` | the lookup functions | `LnpResolver`, `EndpointsCache` |
| `LnpLookup` | abstract: what a lookup promises | |
| `TagArrays` | SQL arrays of tags, arrays of distinct values (operators) | |
| `TagCompare`, `TagAction` | the two tag functions | `TagArrays` |
| `RankDnsSrv` | `rank_dns_srv` over a partition | |
| `ReplaceRand` | `replace` | |
| `ProcessTemplates` | `process_templates`, `replace_placeholders` | |
| `RegexpReplaceRand` | the `regexp_replace_rand` functions over the rows of a query | |
| `MCTokenBucket`, `MCLnpResolver`, `MCLnpFrontend` | instances for TLC | the module in their name |
| `MCLnpConfig` | instance; its URIs are judged by the parser | `LnpConfig`, `UriParser` |
| `LnpWireCalls` | a request sent, a datagram parsed: any, or a server's reply | `LnpWire` |
| `UriCalls` | an endpoint parsed that was written from its parts | `UriParser` |
| `MCTags`, `MCRegexp` | one call of a tag function, one query | the modules of these |
| `MCFunctions` | one call of any function without state of its own | the four above, `RankDnsSrv`, `ReplaceRand`, `ProcessTemplates` |
| `TokenBucketProofs`, `RankDnsSrvProofs`, `ReplaceRandProofs`, `ProcessTemplatesProofs`, `RegexpReplaceRandProofs` | theorems | the module in their name |
| `LnpProofs` | theorems on settings, `resolve` and the lookup functions | `LnpFrontend` |
| `ParserProofs` | theorems on datagrams and endpoints | `LnpWireCalls`, `UriCalls` |
| `TagProofs` | theorems on both tag functions, lemmas on arrays of distinct values | `TagCompare`, `TagAction` |

Definitions marked *Fault* are deliberately wrong forms of the definition that
follows them. No specification uses them; each shows, when put in the place of
the right one, that a property really depends on that piece of code.

### TokenBucket

A call of `tbf_rate_check` is the path `idle -> wait -> locked -> release -> idle`
of a backend: `Enter` (arguments, clock reading), `Acquire`, one of `NewEntry`,
`HashFull`, `Pass`, `Reject` under the lock, `Release`. `EarlyReturn` is every
return before the lock. `HashFull` goes to `abort`, where PostgreSQL's transaction
abort (`AbortTransaction`, external) frees the lock. `CrashRestart` is the
postmaster's restart after a backend crash.

*Numbers.* A rate `r` is `r/RateUnit` tokens per second and the clock counts
`1/TicksPerSec` seconds, so the real number the code computes is an integer
multiple of `1/Scale`; `ToSize` is the C conversion of that number to `Size`.
A negative value below -1 is undefined behaviour in C; `Wraps` selects the
outcome: wrap modulo `SizeMod` (x86-64) or saturate at 0 (aarch64). Rounding of
float4 and double is left out, and so are negative rates.

*Padding.* `tbfHashKey` has four padding bytes nothing sets, and the table hashes
them. A key is therefore a pair of a bucket and the contents of the padding
(`Paddings`); with one element the padding is assumed constant.

*Capacity.* `MaxEntries` is the number of entries shared memory has room for, at
least `tbf_hash_max`.

*History.* `granted`, `opened` and `lastPass` record passes. `ObserveFrom` restarts
the record at any moment, so that `Conformance` speaks of every window, not only of
the one from the first call on.

### UriParser

`parseAddr` on texts of single characters; a number is one character, whose value is
what `atoi` makes of it. Unlike in C, it is not cut to the 16 bits of a port. A scheme
or host that does not fit its buffer is left out, as in the code; a host without a port
that does not fit is copied all the same (line 59), which is the outcome `Overrun`: with
one character too many it is left without a terminator (zero padding happens to follow),
with more it goes over the port and behind the struct.
`Written` and `TakenApart` are the reference: how an endpoint is written from its
parts, and which of them should come back. `UriCalls` is one such call. Its parts are
those an endpoint can be read back from (`UriPartsAssumption`): a scheme and a host have
no colon, and a port no slash unless a scheme is written before it, because `//` behind
the first colon would end a scheme nobody wrote.

### LnpConfig, LnpWire, LnpResolver

`LnpConfig` has one action per SQL function, `lnp_endpoints_set` element by element
(other functions cannot run between elements, but the invariants are then known at
every element). `ParsableUris` and `HostUris` are the URIs `parseAddr` takes, and those
whose host `inet_aton` takes too; `MCLnpConfig` computes them with `UriParser`.
`lnp_endpoints_show` returns one row per
call, and other SQL may run between rows. A row whose slot has gone is answered by
`PG_RETURN_NULL`, which leaves the executor's `isDone` at a single result: the caller gets
a row of NULLs (`NullRow`) and no further call is made. It changes nothing the resolver reads, so
`LnpResolver` leaves it out of its next-state relation.

`RcvTimeo` models what the kernel makes of `SO_RCVTIMEO`: milliseconds are split
into seconds and microseconds; 0 waits forever, a negative microsecond part is
refused and the refusal ignored, a negative whole number of seconds returns at once.

`LnpWire` keeps the length and header bytes of a datagram and represents texts by
their lengths. A parser's verdict says what it recognised and how many bytes it
copied from where. `LnpWireCalls` makes one request and parses one datagram, which is
arbitrary or a server's reply. The comments give the layouts of replies, but not that of
an error, and no single one suits the parser: a text is read from behind 6 bytes, while
less than 7 bytes are refused, text or not. `Replies` has errors in both layouts, 6 bytes
and 7, with texts of every length, the empty one included. JSON sizes whose top byte is 128 or more are beyond TLC's
integers; the smaller ones already exceed every datagram.

`LnpResolver` splits `resolve` at its system calls: `ResolveCall`, `SendRequest`,
`PollReady`/`PollTimeout`, `Receive`, `Exhausted`, and the error outcomes
`RequestTooLong`, `SendRaises`, `PollError`, `RecvError`, `RecvTimeout`. `endp` is not
a variable: it always is the slot at `curr_endpoint_index`. `Deliver` (external) puts
any reply of a server to any request ever sent into the socket's buffer, any number of
times up to `MaxReplies`, in any order, or never. `result.reply`, `sent`, `tried`,
`arrived` and `taken` are history.

### EndpointsCache, LnpFrontend, LnpLookup

A text is a sequence of bytes; keys and responses are cut at their buffers' sizes. An
error response that fills its buffer is excluded (`ErrorsFit`): it has no terminator and
its reader runs past the entry, which depends on memory this model does not have.
A lookup either is answered from the cache (`LookupMocked`) or enters `resolve`
(`LookupResolve`) and turns its outcome into a row, NULL or ERROR (`LookupReturn`).

`LnpLookup` knows nothing of endpoints and requests: a mocked text is answered from
the last mock set, any other once, by an answer or by a failure that carries an error.
`LnpFrontend` implements it, with `caller` for the abstract `asking` and the mocks as
they were set as a history variable; `LookupService` is that implementation claim,
fairness included.

### TagArrays, TagCompare, TagAction

One step is one turn of a loop of the C function, or the code between two loops;
`pc` names the loop. The two modules share the variables of a call (`TagArrays`);
`MCTags` runs one call of either. The C arrays `aset`, `bset` and `rset` are sequences, with
`apos = Len(aset) - 1`, and are filled through `set_contains_value` as in the code, so
that a loop that stored a value twice would show. `d` counts the entries of `aset` at
and below the code's pointer. A missing mode argument is `Null`. `return
RET_MATCHED_EXACTLY` at `f_tag_compare.c:123` lacks `PG_RETURN_INT32`, which makes no
difference to the value.

`Expected` and `ExpectedValues` state the results on sets. Worth knowing: an array `b`
of NULLs only is covered by any `a` that is not empty, in every mode but `MUTUAL`
against values, the intersection mode included.

In `TagAction`, `room` is the size of the memory chunk behind `aset`, by PostgreSQL's
allocator (external): powers of two from 8 bytes up to `ChunkLimit`, and `repalloc` keeps
a chunk of these that is large enough. Beyond the limit a chunk is a block of its own,
which `repalloc` resizes in both directions: told a count of values, it cuts off values
that are stored already. A value cut off, or appended beyond the chunk, ends the behaviour
in `overrun`; what the function returns then is undefined, so the other properties say
nothing of it.

### RankDnsSrv

One step is one row of one of the loops: `fill_weights`, `SumRow`, `Draw`, `SkipRow`,
`RankRow`; `rank_dns_srv` answers for a row from the context. `Int32` is the assignment
of the 64-bit sum to an `int32`; weights that sum up to -1 divide by zero, which
PostgreSQL turns into an ERROR (`srv_error`), and a NULL weight counts as zero. A
partition longer than the context has `row` set where `rows` was meant (line 66): the
loops go on into the rest of the memory chunk (`CtxSlots`) and beyond it, which is
`srv_overrun`.

### ReplaceRand

`Found`, `SkipStart` and `SkipBrackets` are the ways through a turn of the scan,
`SizePlaceholder` a turn of the loop that computes the length of the result and
`CopyPlaceholder` one of the loop that fills it; `StartSizing`, `Allocate` and `CopyTail`
are the code between and after them. Positions count from 0,
as pointers do, and a number in brackets is one character. `GrowCache` grows the cache of
placeholders in its steps; without memory for it the function returns NULL. All digits
put in are one value, `RandomDigit`: no property tells them apart.

### ProcessTemplates

A text is a sequence of the two delimiters and of pieces between them, so a delimiter
is found where `memcmp` finds it except within a run of braces. `FindStart` and
`FindEnd` are the scanner's states; an unclosed placeholder loses its opening delimiter
and keeps its text. `ReturnUnprocessed` has the returns for NULL templates and for
variables that are NULL or not an object; in an array NULL elements stay NULL.

### RegexpReplaceRand

A rule or result is the sequence of its chunks (at least one), and a chunk (`Chunks`) a
model value that matches the text equal to it, is no regular expression (`BadRegexp`),
or is to be changed by `replace` or `replace_placeholders` first. The regexp engine and
these two are external operators; the latter two have modules of their own. `fcinfo`
holds the rule and the result as the executor gave them or as a chunk in memory of the
row (`palloced`). A query calls the function for one row after the other; the executor
computes arguments that are not constant anew for each row, and memory of a row is freed
with it. `query.fn` chooses between the function of a text (`noopt`), of an array
(`array`), and the one with regexp options (`opt`), which does not split; `keep_empty`
is the argument that lets an empty outcome stand.

Worth knowing: at the token limit, and at an empty last rule or result, the function of
a text leaves the loop and returns its input, while the function of an array goes on to
the tail and applies what it holds. Whether a rule is empty is decided before variables
are put into it. An error of the regexp engine is caught (`PG_CATCH`) and the text
returned as it came.

## 3. Model checking

Each run is `tlc -config <run>.cfg <module>`.

| Run (module) | Checks | Distinct states |
|---|---|---|
| `tbf_limit` (`MCTokenBucket`) | `TypeOK`, `LockHeldByHolder`, `Conformance`, `TokensBounded`, `NoStarvation`, `LockReleased`, `AddedByTimeDiff` | 253 k |
| `lnp_config` (`MCLnpConfig`) | `ConfigTypeOK`, `TableMatchesInput`, `ShowMatchesTable` | 565 k |
| `lnp_resolver` (`MCLnpResolver`) | `TypeOK`, `EndpointsUsable`, `AnswerIsOurs`, `ErrorMatchesOutcome`, `FailoverOnce`, `FullRound`, `CallEnds` | 992 k |
| `lnp_frontend` (`MCLnpFrontend`) | `AnswerIsOurs`, `AnswerIsThisCalls`, `LookupService` | 204 k |
| `functions` (`MCFunctions`) | tags: `VerdictMatchesSets`, `ResultIsSetOperation`, `OrderKept`, `RsetFits`; datagrams: `ParseInBounds`, `RoundTrip`; endpoints: `AddressTakenApart`; ranks: `RanksComplete`, `RowsDrawnByWeight`; placeholders: `PlaceholdersApart`, `BufferFilled`, `ReplacedInPlace`, `NoneMissed`; templates: `TemplatesRendered`, `NoPlaceholderLeft`; rules: `FirstMatchWins`, `ElementsIndependent`, `SubstitutionUndone`; all: `Returns` | 1.0 M |

`AddedByTimeDiff` holds in `tbf_limit`, where the conversion saturates, and fails in
`tbf_refill`, where it wraps.

`functions` makes one call of one function, chosen by the initial state; the others'
variables stay idle. What its properties on texts say:

* `RoundTrip`: a reply is understood as its sender meant it, with whatever lengths,
  *exactly if* it is none of the error replies in `Misread`. Those are the ones where the
  code disagrees with itself: an error without a text in 6 bytes is refused at
  `resolver.c:460`, although lines 482-484 are there for it, and an error with a text behind
  the 7 bytes of the comment (449-456) has its text read one byte early.
* `AddressTakenApart`: parsing undoes writing, whatever part is missing, empty or too long.
* `RanksComplete`: the answers of a partition are the ranks 1 to n. `RowsDrawnByWeight`:
  the row that gets the next rank is the one whose share of the sum over the rows left
  the drawn number falls into, so as many numbers choose a row as its weight says.
* `PlaceholdersApart`, `NoneMissed`: what the scan finds lies apart and in order,
  and a placeholder is passed over only inside the brackets of another. `BufferFilled`:
  the copies write the computed length, no more and no less. `ReplacedInPlace`: every
  placeholder becomes its digits where it stands, and nothing else of the text changes.
* `TemplatesRendered`: each element is its text with the values in the places of the
  names, independently of its neighbours. `NoPlaceholderLeft`: none remains if the
  values have none.
* `FirstMatchWins`: a text, alone or in an array, becomes what the first matching rule
  makes of it with the result of its position, if that rule stands before the token limit,
  and stays as it is if none up to the limit matches. The rule at the limit is
  `regexp_limit`'s question. `ElementsIndependent`: equal texts of a query become equal. `SubstitutionUndone`:
  arguments that were substituted are put back for the next row; chunks are left behind
  in no other case than a rule or result that was split and not substituted.

Runs that find a disagreement between the code and what is written about it:

| Run | Property | Says | What happens |
|---|---|---|---|
| `tbf_refill` | `AddedByTimeDiff` | "add tokens using update time diff" (`f_tbf_rate_check.c:204`) | a call with an older clock reading makes the counter wrap, and the bucket is full again |
| `tbf_padding` | `BucketConformance` | "actual tokens count within the bucket" (`:36`) | two entries for one bucket, twice the passes |
| `lnp_request_length` | `RequestLengthTold` | "1 byte - data length, n bytes - data" (`resolver.c:313-314`) | 256 bytes of data, length field 0 |
| `lnp_reply` | `ReplyIsOurs` | "check response id" (`resolver.c:270`) | a late error reply ends another request's call unseen by the check |
| `regexp_limit` | `ChunksToLimitTried` | "limit regexp chunks to parse count to 10" (`debian/changelog:155`) | nine chunks are tried; a text only the tenth matches comes back unchanged |
| `regexp_args` | `ArgumentsRestored` | "restore fcinfo" (`f_regexp_replace_rand.c:308`) | the chunk of a constant rule is left in `fcinfo`; the next row's call finds it in freed memory |
| `tag_append` | `AsetFits` | "realloc aset to make space for possible values from array B" (`f_tag_action.c:155`) | two values appended to an empty array, the second beyond the chunk |

### Bounds, and why they are enough

* `tbf_*`: two backends are enough for every order of two readings and one lock; a
  table of one entry with two buckets fills at once; the clock runs for two seconds
  at 1.5 tokens a second with a burst of 3, so a window has burst, refill and
  rejection in it. `MaxGrants` stops new calls on an entry after its passes are in
  excess of what `Conformance` allows at clock 0. `SizeMod` 16 is above every
  burst. `tbf_refill` uses the conversion that wraps; the theorems on `TokensBounded`
  and `NoStarvation` cover it and rates that differ too. `BackendSymmetry`, used by
  `tbf_padding`, is sound: no backend is named.
* Datagrams: every length test of the parsers is a comparison with a header size or
  with a claimed length; lengths and bytes sit on both sides of each.
* `lnp_config`: two slots and three elements reach the full table, the gap left by a
  bad URI before, between and after good ones, and NULLs.
* `lnp_resolver`: three endpoints (the index wraps) or none, five ids, so that a call can
  begin a full round anywhere in the table; every kind of timeout; one datagram per
  request, late or in time, for the same call, a later one or one of the other type. Data
  sizes 3 and 2042 give a CNAM request too long and a tagged one that is not.
* `lnp_frontend`: one endpoint, two requests with two datagrams each: confirmations and
  answers late, repeated and in any order, in the same call or the next; buffers of two
  bytes with texts shorter and longer than them, two texts that share a key buffer.
* `lnp_reply`: two endpoints replaced by one, and a socket buffer of two datagrams.
* Endpoints: every combination of a scheme of up to 2 characters, a host of up to 3 and
  a port, with room for 1, 2 and 11: each part below, at and beyond its buffer; ports
  that are empty, no number, or hold a colon or, behind a scheme, two slashes.
  `lnp_config` has four endpoints the parser and `inet_aton` judge differently.
* Tags: three elements per array give duplicates, NULLs, values missing before and
  after common ones, and arrays of NULLs only; all modes and operations, unknown ones
  too. `ChunkLimit` has PostgreSQL's value, 8192 bytes, which three elements do not reach:
  what becomes of larger arrays is said by the theorem `OnlyAppendsOverrun`.
* Ranks: partitions of up to 5 rows with a context of 3 in a chunk of 4 reach the rank
  beyond the context and the overrun; weights of -1 to 2 with `INT_MAX` and `RAND_MAX` 6
  reach negative and wrapped sums, the sum 0 and every number that can be drawn.
* Placeholders: texts of up to four fragments (single characters, opened and complete
  placeholders, numbers below, at and above `RAND_MAX_LEN`); the cache grows from the
  first entry on, by steps that reach their maximum.
* Templates: every sequence of up to five delimiters, names and other pieces for a text,
  and every pair of shorter ones for arrays; values that contain placeholders, missing
  and non-scalar ones.
* Rules: up to five chunks with a token limit of 4: rules before, at and behind it; two
  chunks that match, empty and bad ones, ones to be substituted; two rows of a text, or an array
  of two texts that match, one of them twice, one that does not, and a NULL.

### Fairness

* `TokenBucket`: weak fairness of a backend inside the critical section. Nothing in it
  waits, so a running backend goes on. None for callers, clock or lock queue.
* `LnpResolver`, `LnpFrontend`: weak fairness of the backend's own steps (`Progress`).
  `poll` and `recvfrom` return when there is data or their time is up. None for
  callers, network, servers or failing system calls. `CallEnds` is about calls with
  limited timeouts. It also rests on each request being answered by finitely many
  datagrams: the receive timeout starts anew with every skipped datagram, so an endless
  stream of them would keep a call in its loop.
* `MCFunctions`: weak fairness of the functions' steps; they wait for nothing.

## 4. Proofs

`tlapm <Module>Proofs.tla` checks every step of a proof module. The
assumptions are the named ASSUMEs of the modules, which TLC evaluates in every run.

`TokenBucketProofs`, for any set of backends, buckets, paddings, rates, any capacity:

* `TypeCorrect`: `TypeOK`, strengthened by *a call under way has a positive rate*.
* `LockDiscipline`: `LockHeldByHolder` is inductive given the types.
* `TokensAreBounded`: a pass cuts before it takes a token, a rejection stores zero.
  Holds with `Wraps` too.
* `NeverStarved`: from *`updated_at` is the reading of the entry's last pass*
  (`PassTimes`), which rejections keep.
* `RateLimitOfEach`: every entry keeps to its rate, for any rates of the entries
  (`RateOf`), assuming that callers agree on the rate of each (`Agreed`) and that the
  conversion saturates (`~Wraps`). The inductive invariant is a budget: passes so far
  plus tokens left weigh at most the burst plus what the rate gave up to `updated_at`.
  It is needed because the limit alone does not bound the tokens left. A reading that is
  too old makes `updated_at` move back, but then the counter loses as much as a later
  reading will regain. Without the two assumptions the theorem is false: `tbf_refill`
  shows the wrap, and with two rates for an entry tokens lost at the slow one are
  regained at the fast one.
* `RateLimit`: `Conformance`, the same for a single rate (`OneRate`), as in the run.
* `TokensComeFromTime`: `AddedByTimeDiff`, assuming `~Wraps` only. A reading that is not
  later than `updated_at` adds nothing, and the converted value is never more than what
  is there, so the cut counter is below the one found.
* `BucketRateLimit`: `BucketConformance`, were the padding cleared (`PaddingCleared`):
  then a bucket has one entry, and the sum over its entries is that of `RateLimit`. The
  violation in `tbf_padding` has no other cause.

`LnpProofs`, for any table size, URIs, inputs, servers and bounds. Of the
settings (`ConfigSpec`):

* `SettingsTypeCorrect`: `ConfigTypeOK`.
* `TableIsRight`: `TableMatchesInput` is inductive given the types. It counts the good
  places among the elements read, so a URI added at slot *n* is the one with *n* good
  ones before it; once the table is full no count grows.
* `ListingIsRight`: `ShowMatchesTable`. The rows of a listing which no set came after are
  the table's, and there are no more of them than the table had when it began.

Of `resolve` (`Spec`):

* `TypeCorrect`: `TypeOK`, strengthened by `CallHasEndpoint` (a call never sees an
  empty table).
* `EndpointsAlwaysUsable`: `EndpointsUsable`, strengthened by *the socket is open while
  elements are added*: no division by zero in `get_next_endpoint`, no NULL endpoint.
* `EachEndpointOnce` (`FailoverOnce`) and `RoundIsFull` (`FullRound`): the endpoints
  tried and the ones left make up the table, and the j-th one tried is the j-th from the
  first of them, around the table (`RoundInv`). The index alone does not say where the
  round began.
* `ErrorsAreExplained` (`ErrorMatchesOutcome`): a call that receives has no error left of
  the endpoints it gave up, and every other way out sets one.
* `AnswersAreOurs`: `AnswerIsOurs`, assuming `NoWrap` (`rand()` gives a positive start
  and the ids taken stay below 2^32). The inductive invariant `IdInv` says that ids are
  consecutive, grow along the requests sent, that a waiting call's latest request has
  the last id, and that datagrams bear the ids of their requests. Without `NoWrap` an
  id may belong to two requests.
* `OnlyErrorsAreMistaken`: where `ReplyIsOurs` fails, the call failed with `bad` or
  `remote`, again assuming `NoWrap`. From `AnswersAreOurs` and from what each way out of
  `Receive` leaves in `error` (`ReplySeen`): the violation in `lnp_reply` has no other
  cause than the replies whose id is not looked at.

Of the lookup functions (`FrontSpec`), for texts and buffers of any size. A behaviour of
theirs is one of the resolver (`ResolverInside`), so the theorems above hold here too.

* `LookupIsService`: the refinement. `FrontSpec` implements `Service!SafeSpec`, the
  abstract service without its fairness. The table of mocks agrees with the mocks as they
  were set (`MocksMatch`), keys that are cut to the same text included, so a lookup asks
  the network exactly if the service does; a call of `resolve` that came back has an
  outcome (`CallerKnown`); and that outcome is one the service allows: an answer to one of
  the requests sent (`SerialsTrue`, which needs nothing of the ids), a failure that has an
  error text, or ERROR.
* `AnswersAreThisCalls`: `AnswerIsThisCalls`, assuming `NoWrap`. While a function waits,
  every request sent since it called is of its type (`ThisCall`), and the answer is to the
  latest of them.

`ParserProofs`, for datagrams, replies, requests and endpoints of any size:

* `ParsersReadInBounds`: `ReadsInBounds` for every datagram of up to 2048 bytes and type
  of request; `DatagramsParsedInBounds` (`ParseInBounds`) for the calls of the run.
* `RepliesAreUnderstood`: `RoundTrip`, for replies of all lengths, errors without a text
  and both layouts of errors included, with the exceptions as stated there. The datagram is the reply, or an arbitrary one, and
  the verdict the parser's, to the end (`WireInv`); for each way to lay out a reply the
  header bytes lead through the parser's tests to the lengths they were made of.
* `LengthFieldTold`: the length field of a request is its length exactly if it is a CNAM
  request or has less than 256 bytes. `lnp_request_length` shows one of the other cases.
* `AddressesTakenApart`: `AddressTakenApart`. The first colon of an endpoint is where the
  scheme or, without one, the port was joined on, and `://` is found there exactly if a
  scheme was; both follow from `UriPartsAssumption`.

`TagProofs`, for arrays of any length over any tags, any modes and operations:

* `VerdictIsRight`: `VerdictMatchesSets`. The invariant says what each C array and
  `ret` are for the elements read so far (`AsetSoFar`, `BsetSoFar`), that `bset` may be
  incomplete after the second loop only where it is not looked at again
  (`BsetComplete`), and which entries the last loop has found (`MutualSoFar`).
  `apos == bpos` means equal sets because both arrays hold distinct values and one set
  includes the other: `SubsetLength`.
* `ResultIsRight`: `ResultIsSetOperation`, from what the sets hold for the elements read.
* `RsetNeverOverfilled`: `RsetFits`, because `rset` is a set of values of `aset`.
* `OnlyAppendsOverrun`: `AsetFits`, unless an append adds a value that `a` does not have,
  or the values of `a` need more than `ChunkLimit` bytes, so that the append may cut their
  block. The chunk allocated for the elements of `a` is large enough (`ChunkFacts`) and,
  but for these appends, neither cut nor outgrown (`SpaceInv`). `tag_append` shows the
  first of the two cases left out; the second takes more than 1024 tags.
* `ResultKeepsOrder`: `OrderKept`. The first places of the values stored so far grow along
  the set: in `a` and then `b`, or in `b` alone for an intersection.

`RankDnsSrvProofs`, for partitions of any size within the context:

* `RanksAreComplete` (`RanksComplete`), for weights that are not negative and whose sum
  fits: before the draw of a rank as many rows have one as draws were made, so there is
  a row left; the running sum at the last row left is the sum, and the number drawn is
  not above it. So the loop ends at a row, which has no rank yet.
* `RanksAreDrawnByWeight` (`RowsDrawnByWeight`), likewise: the sum stored with a row left
  is the running sum of the rows left up to it, and of those the second loop has passed
  over it is below the number drawn (`SharesInv`). The row it stops at is therefore the
  only one whose share holds the number.

`ReplaceRandProofs`, for texts of any length:

* `PlaceholdersLieApart` (`PlaceholdersApart`): the placeholders in the cache end at or
  before `p`, and the closing bracket the scan resumes at cannot begin the next one.
* `NothingIsMissed` (`NoneMissed`): every start before `p` is in the cache, within
  brackets of one that is, or begins no placeholder.
* `BufferIsFilled` (`BufferFilled`): `CopyInv` gives the number of characters written
  up to each placeholder, which never decreases; the computed length is what is written
  up to the last one, and the rest of the text.
* `EachIsReplacedInPlace` (`ReplacedInPlace`): what is written, followed by what the text
  from `p` on is to become, is what the whole text is to become (`PlaceInv`). The reference
  is again a recursive function on the places of the text, well-founded because
  placeholders end behind their beginning.

`ProcessTemplatesProofs`, for texts, arrays and objects of any size:

* `TemplatesAreRendered` (`TemplatesRendered`): the buffer, followed by what the reference
  makes of the text not yet scanned, is the rendered element (`ScannedSoFar`). Inside a
  placeholder "not yet scanned" counts from its opening delimiter, so a name that is never
  closed comes out as the reference has it. The reference is a recursive function on the
  places of the text; that it has a value at each of them is proved by induction on
  the distance to the end.
* `NoPlaceholderSurvives` (`NoPlaceholderLeft`): the buffer has no opening delimiter until
  an unclosed rest is put behind it, and that rest has no closing one (`CleanInv`).

`RegexpReplaceRandProofs`, for rules and results of any number of chunks, queries of any
number of rows and elements, and any token limit:

* `FirstMatchIsTaken` (`FirstMatchWins`): the pointers are at the chunks behind the first
  *n* pairs, none of which matches (`Reached`). A loop that was left early has tried all
  the pairs it will (`GivenUp`). Which these are is computed as the code does
  (`TriedPairs`), but only inside the proof: the property speaks of positions, and the
  lemmas relate the two.
* `RuleAtLimitIsMissed`: a single text whose first matching rule stands at the limit or
  behind it stays as it is, whatever the limit. What `regexp_limit` shows for ten is the
  code's `n >= REGEXP_SPLIT_MAX_TOKENS-1`, and one chunk too few for every limit.
* `ElementsAreIndependent` (`ElementsIndependent`): where the loop is left early depends
  on rule and result only (`LeftAfter`), and so does what an array then applies. With it,
  the outcome of a text is a function of the query (`Settled`).
* `SubstitutionIsUndone` (`SubstitutionUndone`): what is in `fcinfo` during a call is what
  the executor gave, or will be put back, or is a chunk of a rule or result without
  variables (`ArgsKept`). Why the last case cannot be left out: `regexp_args`.

Every invariant and action property of the passing runs is proved. Only model-checked is
liveness: `LockReleased`, `CallEnds`, `Returns` and the fairness in `LookupService`. It is
outside the prover's reach, as is ENABLED.

## 5. Not modelled

* `Transport.shutdown_socket`, `EndpointsCache.remove/remove_all/items_count/destroy`:
  no caller in a running backend (`_PG_fini` is not called by PostgreSQL).
* Memory layout: the terminator written behind a 2048-byte datagram
  (`resolver.c:250`), the copy of an over-long URI (`f_lnp_endpoints_set.c:36`,
  `uri_parser.c:59`), an unterminated cache entry (`endpoints_cache.c:114`), what
  `sscanf` reads behind a text without terminator (`replace_rand.c:82`), what lies behind
  the context of `rank_dns_srv`. Where the code gets there the models end in an outcome
  of its own, or exclude the input, as said above.
* The scalar path of `process_templates` reads its template without detoasting it
  (`f_process_templates.c:61`): of a compressed or out-of-line text it would scan the stored
  form. The model's texts are plain.
* Behind the end of a listing there is nothing: a query that scans `lnp_endpoints_show` once
  more is a new listing.
* A query cancelled while `PG_CATCH` of `apply_textregexreplace_noopt` swallows errors.
* The seeds and the distribution of the random generators: a draw is any number.
* Logging, texts of messages, SQL declarations, the load and unload hooks.

## 6. Plan

Done: every component with state or loops of its own is modelled, every invariant of the
passing runs is proved for all values of the constants, and so is, for the runs that show
a disagreement, what they have as their only cause (`tbf_refill`, `tbf_padding`,
`lnp_request_length`, `lnp_reply`, `tag_append`, `regexp_limit`, and `regexp_args` through
`SubstitutionUndone`). What could follow: float4 arithmetic in `TokenBucket`, whose rounding
the exact numbers leave out.

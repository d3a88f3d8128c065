# A TLA+ model of axil

axil (`src/src`) is a single-threaded HTTP and WebSocket server library: one
`select()` loop, a table of descriptors indexed by their number, non-blocking
sockets with a write queue each, and handlers and modules that run on the loop.
There are no threads in it, yet almost everything it does is concurrent: a
response is interleaved with the draining of its queue, with its peer's
disappearance, with a worker's late answer, and with the kernel's reissue of the
number it was for. These modules model that, TLC checks them on small instances,
and TLAPS proves the main results for every instance.

Line numbers are those of `src/src/libaxil.c` unless another file is named.

## 1. The system

| Component | State | Operations |
|---|---|---|
| Write queue | `struct descr`: `remaining`, `_off`, `_len`, `_size`, flags | `axil_rem_may_inc` (690), `axil_low_write` (750), `axil_write_remaining` (656), `axil_write` (1092) |
| Responses | `DF_TO_CLOSE`, `DF_DEFERRED`, accumulated headers | `axil_respond` (287), `axil_respond_defer*` (336-416), `axil_respond_file` (3403), `static_write` (2346) |
| Descriptor table, teardown | `descr_map[]`, `tunnel_pair[]`, `fds_active`, `fds_read`, `conn_generation` | `descr_new` (819), `axil_close` (444), `axil_raw_descr_reset` (1337), `axil_tunnel_close_raw` (1385), `axil_fd_watch`, `axil_wall`, `cleanup` |
| Event loop | `fds_read`, `fds_write`, `axil_tick` | `axil_main` (1778), `descr_proc_reads` (1423), `descr_proc_writes` |
| WebSocket proxy | `DF_WS_PROXY_PENDING`, `_WAITING`, `DF_TUNNEL`, `tunnel_pair[]` | `request_handle` (3043-3108), `descr_proc_reads` (1452-1534), `axil_ws_tunnel` (3269) |
| Request heads, bodies | shared `input` buffer, per-descriptor `head` | `axil_read` (987), `stash_head` (961), `descr_read` (1249), `buffer_post_body` (2837) |
| WebSocket frames | per-descriptor frame state | `ws_read`, `ws_write`, `ws_close` in `ws.c` |
| TLS | `cSSL`, `DF_ACCEPTED` | `ssl_accept` (571), `axil_ssl_low_read`, `axil_ssl_lower_write` |
| Programs | pipes, `epid` | `axil_exec`, `axil_exec_loop` in `axil-posix.c` |
| Dispatch | route tables | `pattern_match` (2676), `request_handle` (2960) |
| Parsing | `query_db`, the environment | `cmd_new` (611), `headers_get` (1849), `axil_query_parse` (1973), `axil_req_param` (2053), `axil_url_*`, `tm_to_time_t_utc` (2262), `request_path_is_safe`, `static_etag_matches` |
| Authentication | flags, `username`, `pw` of a descriptor, `axil_pw` | `axil_auth`, `drop_priviledges` in `axil-posix.c`, `axil_autoauth_apply` (3193) |
| Startup, shutdown | `srv_fd`, chroot, `AXIL_WAKE` | `axil_pre_init` (3371), `axil_platform_init_pre_bind`, `cleanup` (532) |
| Browser bridge | shared `WebSocket`, timers | `npm/dist/bridge.js`, `npm/dist/index.js` |

**Interaction.** A turn of `axil_main` flushes every queue, lets modules work,
calls `select()` and makes one ascending pass over the numbers it reported. A
number's turn accepts, reads a request, relays a tunnel, or does nothing. The
handler it calls writes through `axil_write`, which may queue, may flush what was
queued, and on an error calls `axil_close` *inside* the write. `axil_close` calls
`axil_disconnect`, the modules' hook, frees the slot and closes the number, which
the kernel gives to the next `accept()` or `socket()`, possibly in the same pass.
Workers answer on the loop's thread in later turns, through a handle that is the
number alone.

**What is hard in it**, and what makes each component correct:

- *write queue*: bytes arrive in one order through a buffer that compacts, grows
  and can fail to grow, while `send()` takes any part of them. Correct: every byte
  accepted is sent once, in order, until the connection closes; nothing is copied
  past the allocation; a finished response ends in a close.
- *responses*: `DF_TO_CLOSE` is set before the handler runs, so a queue that drains
  between two parts of a response closes under it. Correct: a response whose
  connection closes drained was complete; a deferred one stays open.
- *descriptor table*: a number read from `select()`, from `tunnel_pair[]`, from a
  handle or from a module's own table may by now be another connection. Correct:
  what the loop watches is open and its own; no socket leaks; the hook runs
  exactly once per connection; both ends of a pair go together.
- *request heads and bodies*, *frames*: partial reads, resumed across passes through
  shared buffers. Correct: what the handler sees does not depend on how the bytes
  were cut.
- *TLS, programs*: a second kind of readiness, and state that survives the slot.
- *dispatch and parameters*: a connection whose answer is queued is read again, with
  the flags, environment and parameters of its first request still there. Correct:
  which route answers does not depend on the order of a hash table, and a handler
  finds its own request's values.
- *identity*: `axil_auth` may run several times on a connection, and the number
  outlives it. Correct: nobody inherits an identity, a published one is marked, and a
  program runs as the server or as the user who logged in last.
- *teardown again*: the hook and the broadcasts it may make run inside `axil_close`.
- *bridge*: reconnect timers and late events racing an explicit close, over a socket
  that several bridges share.

`PROJECT.json` lists the hazards one by one, each with its line and the properties
that watch it.

## 2. The modules

| Module | Models | Checked by |
|---|---|---|
| `ByteStream` | What a connection promises of a stream of bytes: accepted, delivered in order, ended | refined by `WriteQueue` |
| `WriteQueue` | One connection: its queue, every response that fills it, the close that frees it | `WriteQueue.cfg`, `WriteQueueRespond.cfg`, `WriteQueueStatic.cfg`, `WriteQueueDefer.cfg` |
| `WriteQueueProofs` | Proofs about `WriteQueue` | TLAPS |
| `Descriptors` | The table, the pairs, the watched sets, the loop's pass, the kernel's numbers | `Descriptors.cfg` and four more |
| `DescriptorsProofs` | Proofs about `Descriptors` | TLAPS |
| `Requests` | Assembling heads and bodies of several connections in the one `input` buffer | `MCServing`, `MCProgress` |
| `RequestsProofs` | Proofs about `Requests` | TLAPS |
| `HeadText` | The scans that cut a complete head in place | `MCRouting` |
| `PatternMatch` | `pattern_match` character by character against a definition by segments | `MCRouting` |
| `Dispatch` | `request_handle` from a parsed request to its answer, several per connection | `MCRouting` |
| `Params` | Lookups through the one `query_db` | `MCServing` |
| `Codec` | A value through an encoder and the decoders it meets | `MCRouting` |
| `HttpDate` | `tm_to_time_t_utc` against a calendar | `MCRouting` |
| `WsFrames` | `ws_read` resumed at any part; Closes | `MCRouting` |
| `WsWrites` | `ws_write`'s two writes over the queue; Closes past it | `MCServing` |
| `Tls` | The handshake, OpenSSL's own buffers under readers and queue | `MCProgress` |
| `Exec` | A program, its pipes, `axil_exec_loop` | `MCProgress` |
| `Identity` | Flags, name and account of a number through its connections; what a program runs as | `MCProgress` |
| `Broadcast` | `axil_wall`, `axil_close` and `cleanup` as calls in progress | `MCServing` |
| `BroadcastProofs` | Proofs about `Broadcast` | TLAPS |
| `Bridge` | The bridges of a page over their one WebSocket | `MCServing`, `MCProgress` |
| `Induction` | Induction over the naturals and sums, as lemmas the proofs can cite | TLAPS |
| `MCServing` | `Requests`, with instances of what serves a connection, safety | `MCServing.cfg` |
| `MCRouting` | `WsFrames`, with instances of what reads and routes a request | `MCRouting.cfg` |
| `MCProgress` | `Identity`, with instances of what must come to an end, under fairness | `MCProgress.cfg` |
| `ServingProofs` | Proofs about the parts of `MCServing` | TLAPS |
| `RoutingProofs` | Proofs about `WsFrames`, `HttpDate`, `Dispatch` and `PatternMatch`, as parts of `MCRouting` | TLAPS |
| `ProgressProofs` | Proofs about `Identity`, `Exec` and `Tls`, as parts of `MCProgress` | TLAPS |

The three MC modules put the instances of several components side by side: a variable
`part` says which of them a behaviour is about, the others stay where they start. Their
state spaces add up and do not multiply, so this is the separate check of each
component and says nothing of their interplay; what one component relies on of another
is in its own module. Each extends one component, whose properties its configuration
checks by the names the proofs state them under; the properties of the others are
restated, and their first line, `part = "lookups" =>`, says whose they are. An MC module
passes constants of its own to the instances it proves about, which its configuration
gives values, so that a theorem about a part holds of every instance of it;
`HeadText` and `Codec`, and what `MCProgress` repeats of `Requests` and `Bridge`, get
their few inputs in the module. It states the components'
assumptions (`ASSUME ServingAssumption` and its like), which TLC evaluates.

`WriteQueue` and `Descriptors`, and `WsWrites`, `Tls` and `Exec` after them, are
written as functions on states. A C function here calls others that may close the very descriptor it works on and then go on, so an operator in the
plural, such as `Flushes(c, fd)`, is the *set of states the C function can return
in*, and a caller is composed of its callees as in the code: `Responds` is `Writes`
then `Finishes`. One action is one handler, from the loop's dispatch to its return.
Every outcome of a system call (all, some or none of the bytes, an error, a failed
allocation) is a member of the set.

### 2.1 WriteQueue

The variable `d` is the descriptor with history fields for the bytes accepted and
sent; a byte is its position in the stream, so loss, duplication and reordering are
visible. `Rooms` is `axil_rem_may_inc` with its three roads (room at the tail,
compaction, `realloc`) and its doubling; `Sends` is `axil_low_write` below the copy
to the queue; `Flushes` is `axil_write_remaining`, with `Sent` its bookkeeping.
`HandleRespond`, `HandleRespondFile`, `HandleStatic` with `StaticChunk`,
`HandleDefer` and `AppWrite` are the handlers; `DeferFinish`, `DeferDone` and
`DeferAbort` the worker's answer; `Flush` the start of a turn; `CloseNow` any
`axil_close` from outside. `static_write` is the one handler in steps, because the
interesting thing about it is what happens between its reads of the file; no other
action comes between them, since the loop does not run in between.

### 2.2 Descriptors

The variable `s` holds the tables. `kernel[fd]` is the socket open under a number,
identified by the order in which sockets were opened, or `None`; `slot`, `pair`,
`active` and `readable` are `descr_map[]`, `tunnel_pair[]`, `fds_active` and
`fds_read`; `cursor` is the loop variable of `descr_proc_reads` (zero between
passes); `module` is what a module keeps under a number with the generation it read,
as axil-tty does with a pty; `handles` are the deferred handles workers hold. The
history fields `clients`, `proxied`, `hooks` and the `sock` of slots, handles and
modules exist for the properties only: no guard reads them. The queue is reduced to
whether it is empty, and the bytes relayed to nothing.

| Action | Code |
|---|---|
| `Select`, `SelectTimeout`, `SelectFails`, `EndPass` | `axil_main` 1801-1827 and the end of the pass; after an error `fds_read` is still the copy of `fds_active` it was called with |
| `FlushQueue` | 1797-1799 |
| `AcceptNew` | `descr_new`, with its `FD_SETSIZE` and `malloc` failures |
| `ReadWaiting`, `SkipPending`, `ReadTunnel` | the three proxy branches, 1452-1534 |
| `ReadClient`, `Attach` | `descr_read`, with the request's handler and the module's hook |
| `DeferFinish`, `DeferAbort` | 361-416 |

### 2.3 Requests and HeadText

`Requests` has a byte as its place in its connection's stream, of one of five kinds
(CR, LF, the first of a `POST`, `PUT` or `DELETE`, one of a `Content-Length`'s value, any
other), so that what is gathered can be compared with what was sent. `Buffers` is
`request_handle`'s test of the method: a body is waited for, or refused, for those three
only (`Awaited`), and a GET or a HEAD goes to its handler at once, whatever it declares. `reader` is the function the loop is in: `axil_read`
(`StartRead`, `ReadHead*`), the routing of a complete head (`Route*`), or
`buffer_post_body` (`ReadBody*`), and each action is one read or one allocation with
its outcome. A complete head that begins with a line end has no first line for
`cmd_new` and is routed nowhere (`HasCommand`); the preface of HTTP/2 closes the
connection (`RouteIgnored` has both). `CrLf` says of the peers that every LF follows a
CR. `Respond` and `Drained` are the two ends of a response that is not sent at
once (`Slow`); `AfterClose` is `axil_close`'s shrinking of `input`. `HeadText` starts
where a head is complete: `Word` and `RestOfLine` are `cmd_new`, `Colon`, `Return`,
`Other` and `End` the cases of `headers_get`'s switch. A head is built from words and
fields, so the properties know what the scans have to find.

### 2.4 Dispatch, PatternMatch, Params, Codec, HttpDate

`PatternMatch` is the loop of `pattern_match`, one turn a step; it shows that the
matcher sees segments, and `Dispatch` then uses paths as sequences of them. The steps
of `Dispatch` are `request_handle`'s tests in their order; `TryPattern` takes the
patterns in any order, because the code takes them in a hash table's. A connection
may be asked again while its answer is queued. A HEAD that no pattern matches is
looked up a second time, as a GET (`HeadFallback`, `MatchedAs`). `Params` has the table
and handlers of two requests; `Ask` is one lookup, `Parse` the handler's own
`axil_query_parse`, and `Return` drops the table, as the `do_GET` family does when
`request_handle` has returned; nothing empties it before a handler. `strays` is history:
the deferred requests that have looked something up since a handler last returned.
`Codec` composes `axil_url_encode` with `axil_url_decode`, `env_sane` and
`axil_query_parse` along the two roads a value takes, with characters standing for
their kinds. `HttpDate` steps a calendar a day at a time beside the conversion.

### 2.5 WsFrames, WsWrites, Tls, Exec

`WsFrames`: `frame` is `frame_map[fd]` with its four counts; `Base` is where the frame
in progress began, which ought to be where one of the peer's frames does. Each of
`ReadHead`, `ReadLength`, `ReadMask`, `ReadPayload` is one return of `ws_fill`'s
`lower_read`; out of step, a header is any header. `AppClose` is the program's own
Close, on a connection that stays; `byApp` is history that says it was sent, since from
then on nothing is promised of the frames. `WsWrites` is the other direction.
`Tls` has the record layer between kernel and reader: `net` what `select` sees, `held`
what OpenSSL has decrypted, `pending` the write it wants retried; `Turn` and
`OtherTurn` are turns in which `select` reports this descriptor or another one.
`Exec` has the program as an actor of its own (`ProgTurn`, `ProgWrite`), which a full
pipe blocks, and `Loop*` as one call each of `axil_exec_loop`.

### 2.6 Identity, Broadcast, Bridge

`Identity` follows one number through its connections: `Request` is `auth_try`,
`Login` a program's call of `axil_auth`, `Upgrade` the library's and the executable's
application of `-A`, `TooLarge` the 413 that assigns the flags, `Exec` a child after
`drop_priviledges`. `copies`, `source` and `child.of` are history. `Broadcast` keeps
the calls that have not returned in `stack`, and each step does what the top one does
next, so that `axil_close` inside a write inside a broadcast inside `axil_close` is
what it is in C. `Bridge` has the sockets as objects of their own, whose events come
when they like; `bus` is shared, `br` the bridges' variables.

### 2.7 Constants and bounds

`WriteQueue`: `QueueSize` (initial allocation), `MaxWrite` (longest write),
`MaxBytes` and `MaxChunks` (length of a behaviour), `Handlers` (which handlers run).
With a queue of 3 and 10 bytes in writes of up to 4 the queue grows twice,
compacts before and after growing, and drains in several sends.
`Descriptors`: `Fds`, `Srv`, `MaxSockets` (sockets opened in a behaviour), `Does`.
Three numbers and four sockets are the least at which a number is reissued while a
pair and a third connection exist; a pair that is stale needs two.
`Requests`: two connections, four streams (a GET that declares a body and more, a POST
with its body and more, a head that never ends, a POST whose body is too long), reads of up to 3 bytes into a buffer of
2 at first and a head bound of 8, so that the buffer grows twice, is shrunk, and a head is
stashed and cut at every place, its blank line included. `WsFrames`: a frame of
any of ten forms, with two behind it or one before it, lengths up to and beyond the cap
and the buffer. `WsWrites`: three
messages, each in every state of the queue. `Tls`: two flights, three records of one or
two reads, two writes. `Exec`: pipes of two, three writes to each. `PatternMatch`:
every pattern of up to five and path of up to four characters. `Dispatch`: two requests
over four paths, five patterns that overlap in every way the comparison
distinguishes. `Params`: two requests, two names, every distribution over body, query
and path. `Identity`: two known names, an unknown one, three logins. `HeadText`: three
words, three fields with values that hold a colon or a space. `Bridge`: two bridges,
three sockets (one connected, one closing, one new), six calls. `Broadcast`: three
numbers, four connections; `MaxDepth` bounds the calls in progress, beyond which no
write fails. `HttpDate`: 1560 to 2001, which crosses the start of two eras and every kind of century.
`Codec`: values of three characters, every buffer up to one that holds them escaped.

## 3. The runs

### 3.1 What passes

| Run | Property | What it says |
|---|---|---|
| `write_queue` | `IndInv`, `TypeOK` | the inductive invariant the proofs use: the queued bytes lie inside the allocation, at any offset, and are exactly what the kernel has not taken; the buffer is as long as `remaining_size`, so no copy passes it |
| | `InOrderDelivery` | `ByteStream`'s specification under a refinement mapping |
| | `DoneResponsesClose` | a finished response leads to a close |
| `write_queue_complete` | `ResponseComplete` | `axil_respond` and `axil_respond_file` never let the connection close drained between the parts of a response |
| `descriptors` | `TypeOK` | types; what is still to be read in a pass is still watched |
| | `WatchedIsOwn` | every number watched or still to be read is open, and the socket under it is the one the slot was made for |
| | `OpenIsOwned` | every open socket has the slot that watches it: none leaks |
| | `PairsAreMutual` | `tunnel_pair[]` is symmetric between open slots in the same phase |
| | `DisconnectOnce` | the hook runs exactly once per unproxied client, at its close |
| | `GenerationsTellApart` | a module that compares generations never mistakes a connection for its predecessor |
| | `PairsCloseTogether` | no step closes one end of a pair |
| `serving` | `TypesOK` | types, and the parts' smaller invariants: the bytes that wait are their connection's, no stash is a complete head, no timer undoes a close |
| | `RequestsWhole` | a request is its own connection's bytes, in order, each once, whatever was read between; a POST's, PUT's or DELETE's handler has the whole body |
| | `NoCompleteHeadWaits` | a head whose blank line has arrived is never stashed |
| | `BuffersBounded` | the buffer and the stashes fit, and stay bounded however peers dribble |
| | `FindsItsOwn` | a lookup finds what its request has, and another request's values only if a deferred handler's lookup came between two handlers and left them |
| | `MessagesWhole`, `HonestReturn` | until a Close is sent, wire and queue are the messages, whole and in order, and nothing else; afterwards no message's byte is lost, repeated or overtaken; -1 means the connection is gone |
| | `StatusIsTheSockets` | a page has one connection, told truly |
| | `ReportedHear` | a broadcast survives the closes it causes: all it was read for are written to |
| | `NeverClosesTheDead` | nothing is torn down twice, by whatever calls are in progress |
| `routing` | `TypesOK` | types, and what the four counts of a frame say of each other: a payload's memory is held only for a frame that may be delivered |
| | `FramesFound` | frames are found where the peer put them, and each is delivered once, in order |
| | `CloseOnce` | exactly one Close per connection |
| | `HeadIsRead` | the scans of a head stay in it and find what was sent |
| | `MatchesSegments` | the matcher's answer, captures and counts are those of the segments |
| | `WhoAnswers` | a pattern never answers where a strictly narrower one matches in the same round, in whatever order they are tried, but for a narrower catch-all with as many literals and more captures; a HEAD falls through the tables only where a GET would |
| | `FormArrives` | a form's value survives its two ends; encoders stop between characters |
| | `DateReadsBack` | a date is as many days from 1970 as the calendar says |
| `progress` | `SpeaksForItself` | a published identity is marked, and nothing is inherited by a number's next connection |
| | `NoPublishedChild`, `ChildIsItsUser` | while requests are read, a root server runs nothing for a name that `-A` published; otherwise a program runs as the server or as the user it names |
| | `TransportExact` | nothing is skipped, repeated or lost between OpenSSL and the buffers |
| | `TransportGoesOn` | handshakes end and records are read, with no other traffic |
| | `WatchedToTheEnd`, `ProgramReaped` | a program is watched while it lives, its output is passed on, and it is reaped |
| | `LoopReturns` | no peer holds the loop by silence |
| | `Reconnects` | a page's one bridge that wants a connection gets one |

**Conditions.** The instances leave some inputs out, and there the code does not do what
the property says (3.3): `Slow = FALSE` (`MCServing`): responses are sent at once.
Others are in the properties themselves: `Buffers` in `RequestsWhole` (a GET's or HEAD's
body is not waited for), `strays` in `FindsItsOwn`, `closeSent` in `MessagesWhole` (a
Close may cut a queued frame), `accepted` in `NoPublishedChild` (until the 413).
`byApp` in `FramesFound`: until the program calls `axil_ws_close`; `CloseOnce` and
`TypesOK` hold beyond it. `PeerFails` and `EarlyOutput` (`Exec`): the client stays, and
handlers leave output to the program. `Reader = "head"` and `HandshakeBlocks = FALSE`
(`Tls`): requests rather than frames, and server flights that fit the socket.
`Announces = FALSE` (`Broadcast`): the hook does not write. One bridge (`MCProgress`). CRLF
and a space after the colon (`Scans`). `MCServing` and the others that may really stop
(a bound is reached, a program or the process has ended, a head is read) do not check deadlock.

**Fairness.**
- `write_queue`: weak fairness of `Flush`, because `axil_main` flushes every
  non-empty queue at the start of each turn and `select()` has a timeout; the peer is
  assumed to go on reading (or to fail), so a flush that is tried for ever does not
  always answer `EAGAIN` with nothing sent. Weak fairness of `StaticChunk`, because
  `static_write`'s loop runs to its end. Handlers, workers and outside closes are not
  assumed to do anything.
- `progress`, `LoopReturns`: weak fairness of the steps the one thread takes when no byte comes
  (`Silent`): it does not stop inside a function, and a socket with nothing to read says
  so. Peers are assumed to do nothing.
- `progress`, `ProgramReaped`: the clock runs, the client reads what is queued, and each turn calls
  `axil_exec_loop`. The program is not assumed to do anything.
- `progress`, `TransportGoesOn`: a readable descriptor is reported and flushes are tried, as `axil_main` does;
  the client goes on with its handshake and goes on reading. That another descriptor
  is ever ready is not assumed.
- `progress`, `Reconnects`: timers fire and a `close()` ends; strong fairness of `Opened`, for a
  server that is asked again and again.

No fair action of a part is enabled where `MCProgress` leaves it, so the conjunction of
the parts' `Fairness` restricts only the part a behaviour is about.

### 3.2 What the code does otherwise than it says

Each of these runs checks one sentence of a header, comment or test, and TLC refutes
it with a behaviour of the code. `PROJECT.json` quotes the sentences.

- `static_truncated`: `static_write` writes a file in reads of a fixed size on a
  descriptor that already has `DF_TO_CLOSE`. A write that is queued whole and then
  drained in the same call closes the descriptor; the rest of the file goes to a
  closed number. `axil_respond_file` does the same work with one queue and one close
  at its end, which is why `write_queue_complete` passes.
- `defer_closed`: the head of a deferred response that `send()` could not take at once
  closes the connection when it drains, before the worker answers.
- `stale_handle`: a deferred handle is a number; if its connection goes away and the
  number's next connection is deferred as well, the first worker's answer completes
  the second's response.
- `tunnel_disconnect`: `axil_close` of a proxied client never calls `axil_disconnect`.
- `tunnel_after_reset`: a client that reset its connection before the upstream's 101
  makes the forward of the 101 close the pair, and `axil_ws_tunnel` then pairs and
  watches two closed numbers, after which `select()` fails with `EBADF` each turn.
- `upstream_generation`: an upstream's slot is live with generation zero.

`Does` keeps the findings of `Descriptors` apart: `"reset"` is left out of the passing
run `descriptors`, which is thus about peers for which forwarding the 101 does not fail at once, and the
theorems of `DescriptorsProofs` carry the same condition as an assumption, `NoReset`.

### 3.3 Where a property stops

Seen while modelling, from the text of the code; no run is kept for them. Those that
name a constant can be seen by changing it in the configuration or, where an MC module
gives the instance its value, there.

- `Requests`: the buffer is grown only when `input_len + n > input_size` (2880-2919), so
  a body that fills it exactly has its terminator written at `input_size`. A GET or HEAD
  with a `Content-Length` (3013), and a POST without one (2841), get as body what came
  with the head, where `axil.h` 112 says exactly `Content-Length`
  bytes, none without one. With
  `Slow = TRUE` a connection whose response is queued is read again: what was pipelined
  is routed, and after a queued 431 (1298) the next bytes join a head with a hole.
- `HeadText`: with `LineEnds = {"lf"}` the text is left, because `cmd_new` ends a line at
  a CR only; with a `gap` of nothing a field's value loses a character (1859).
- `Dispatch`: files and listings come before the HTTPS redirect (3110); a listing is sent
  to a HEAD with its body (2619); `DF_HEAD` (2976) and the captures (2640) of one request
  are there for the next on the same connection. A HEAD may be answered by another
  pattern than the GET of its path: a pattern without a method that matches answers it in
  the first round, where one with `GET:` does not match; for the GET both match, and
  `GET:` counts as literals (3144).
- `Params`: with `Late` a deferred handler's lookup may find another's values, and what it
  parses itself stays in the table, where the next request's own handler finds it first
  (2053): `strays` in `FindsItsOwn`. A name already parsed goes before the body that is
  given.
- `Codec`: a target's parameters are decoded twice (2995); `axil_url_encode` that ran out
  of room returns what it wrote (`axil-encode.c` 26).
- `WsFrames`: without `byApp`, `InStep` fails, since a Close sent by the program drops
  half a frame of a connection that stays (`ws.c` 271); an empty frame closes (1236); frames nobody took are command lines (1246).
- `WsWrites`: a Close is sent past the queue (`ws.c` 263), into the middle of a frame that
  is still queued, where `axil.h` 203 says that frames cannot interleave. `MessagesWhole`
  has `~closeSent` before its first half; without that TLC finds the cut frame.
- `Tls`: with `HandshakeBlocks = TRUE` a blocked handshake waits for somebody else's
  traffic (1822); with `Reader = "frame"` the frames behind the first of a record wait for
  the next record; a blocked write is retried from another address (796), which OpenSSL
  refuses, and stays queued.
- `Exec`: with `PeerFails = TRUE` a write that fails clears the slot and the kill goes to
  process group 0 (`axil-posix.c` 605); with `EarlyOutput = TRUE` output queued before
  `axil_exec` drains and closes the descriptor of a running program (516).
- `Identity`: the 413's assignment of flags (2850) loses `DF_AUTH_AUTO`, so that a program
  run after it, under a `REMOTE_USER` that `-A` published, runs as the server's account,
  where the comment at `axil-posix.c` 410 says it is refused; the second `-A`
  of an upgrade (3201) loses the first account's strings.
- `Broadcast`: a broadcast reaches those `select()` reported in this turn (1124); with
  `Announces = TRUE` a hook that broadcasts may close the descriptor a second time in the
  middle of its close (492).
- `Bridge`: with two bridges in `MCProgress`, one that closes takes the socket from its
  neighbour for good (`bridge.js` 190); a pending timer replaces a connection that stands
  (95).

## 4. What is proved

For every value of the constants that satisfies the modules' assumptions, with the
kernel, the peers and the allocator as free as in the model:

- `WriteQueueProofs`: `Inductive`, `TypeCorrect`, `InBounds`, `NothingLost`;
  `Implements`, that `WriteQueue` implements `ByteStream`; and, assuming
  `WholeResponses` (every route answers with `axil_respond` or `axil_respond_file`),
  `ResponsesAreWhole`.
- `DescriptorsProofs`, assuming `NoReset`: `StaysSound`, `TablesTyped`,
  `WatchedAreOwn`, `OpenAreOwned`, `PairsMutual`; `StaysWell`, `DisconnectsOnce`,
  `GenerationsDiffer` and the action property `PairsCloseAsOne`.
- `RequestsProofs`: `InvHolds`, `CompleteHeadsGoOn`, `BuffersInBounds`; assuming `~Slow`
  (responses are sent at once), `OrderHolds`; assuming `CrLf` as well, `WholeHolds`,
  `RequestsAreWhole`, `BuffersAreBounded`.
- `BroadcastProofs`, assuming `~Announces` (the disconnect hook does not broadcast):
  `CallsAreNested`, `TypeCorrect`, `EveryoneIsTried`, `TornDownOnce`, for any number of
  descriptors and connections.
- `ServingProofs`, of the parts of `MCServing`: `LookupsFindTheirOwn`, `StatusIsTrue`,
  `MessagesStayWhole` and the action property `ReturnsAreHonest`; assuming `~Announces`,
  `EveryoneHears` and `NobodyClosesTheDead`, from `BroadcastProofs`; assuming `~Slow` as
  well, `TypesHold`; assuming `~Late` (no lookups after a handler has returned),
  `NoLateNoLeak`. The invariants they rest on are `TablesAreOwn`, `PageStaysSettled`
  and the lemma `WriterHolds`.
- `RoutingProofs`: of frames, `StaysSound`, `ClosesOnce`, `PayloadsHeld`, `FramesAreFound`,
  for any traffic, any cut of it, any cap and any buffer; of dates, `DatesReadBack`,
  from any year up to 1970 to any from it on; of dispatch, `BestMatchAnswers`,
  `HeadsFindGets`, for any tables, paths and number of requests; `RoutingTypes`, which is `MCRouting`'s `TypesOK`, with the
  pointers and the entries of `pattern_match` in bounds for any pattern and path; and,
  assuming that requests may name any path over two words or more (`AnyPath`), have two
  methods or more, and that no pattern names two captures alike (`NamesApart`),
  `NarrowestAnswers`, which is `WhoAnswers`.
- `ProgressProofs`: `NothingInheritedTheorem`, `PublishedIsMarkedTheorem`,
  `SpeaksForItselfTheorem`, `NoPublishedChildTheorem`, `ChildIsItsUserTheorem`, for any
  sets of names and any configuration the initial states allow;
  `WatchedToTheEndTheorem`, for pipes, output and time limits of any size, of a client
  that stays and a handler that leaves output to its program (`Programs` in
  `MCProgress`); `TransportExactTheorem`, for either reader, handshakes that block or
  not, any records and writes, and an OpenSSL that may refuse a retry.

The hypotheses but those of `NarrowestAnswers` and `NoLateNoLeak` are those of the passing runs, and each is
needed: a behaviour without it is in 3.2 or 3.3 (`WholeResponses`: `static_truncated`; `NoReset`: `tunnel_after_reset`;
`~Slow` and `CrLf`: `Requests`, `HeadText`; `~Announces`: `Broadcast`). `ShortFits`, of `WsFrames`, says that
`WS_MAX_PAYLOAD` is no less than a length that fits in a header's seven bits, which holds
of the 64 MiB in the code; without it a short frame would not be tested against the cap.

**The write queue.** `QueueIsTheRest` is not inductive by itself: it says nothing of a
closed descriptor, whose slot is reused state, nor of the middle of a write, where
bytes are accepted and neither queued nor sent. `IndInv` adds the layout of the buffer
and the relation of history to queue; between the parts of one call a weaker relation
holds in which the bytes at hand are still owed. One lemma per C function says what it
does to a state in that relation (`Sound` for a state between calls, `Owing` inside
one), callers cite their callees' lemmas, and each action is a few of them.

**Whole responses.** `ResponseComplete` speaks of a connection that is gone, so it needs
what was true when it went: while it was open, no byte given to it was dropped (`Told`:
accepted is tried). A close inside the write that is a response's last finds everything
accepted; one inside an earlier write would not, and can only come from a queue that was
there before the request, because a `send()` with nothing queued never flushes
(`SendsEnd`). Such a queue belongs to an earlier response, whose request marked the
connection, so the later one is pipelined. `Unended` is that state between two writes,
`Mid` the one after the last.

**The table.** The four properties support one another: a closed number is not watched
(`Watched`) and in no pair (`Mutual`), hence can be taken by a new socket without
disturbing anything; a reset of both ends leaves no pair pointing at them only because
the relation is symmetric; a proxied client is watched because it is open (`Owned`).
None of them is inductive alone, and their conjunction `Sound` is, with the open
numbers required in `Mates`: a slot whose queue could not be allocated stays marked
live under a number that is closed, so "live" would not do. The argument is three
lemmas about tables - `ResetsSound` (a set of numbers with no peer outside it),
`OpensSound` (a closed number), `WedsSound` (two open numbers) - to which every
function that changes the tables is reduced.

`DisconnectOnce` counts calls of the hook against sockets that are no longer there, so it
needs the history the tables do not have: every socket has one number (`Numbered`), the
hook ran for exactly the clients that are closed and not proxied, and a client is proxied
exactly while its number is in a pair (`Counted`). `GenerationsTellApart` needs that a
live slot without a generation is in a pair and that generations only grow
(`Generations`). With `Sound` these make `Well`. `PairsCloseTogether` relates two states,
and a handler closes descriptors in the middle; so each function is shown to make a
`Moves`, a relation that says of every pair that it stayed or lost both ends and that no
socket came back, and `MovesOn` composes them.

**Broadcasts.** `ReportedHear` speaks of a broadcast that has ended, and while it goes on
its writes close descriptors under it. So `Heard` says of a broadcast at number `k` that
whoever it was read for and has not written to is at `k` or beyond and still read for and
connected, or is being written to; a close cannot break that, because it is of the number
last written to (`Under`). That in turn needs `Nested`: calls go no deeper than a write, or
a close, under a broadcast, the exit or a response. `NeverClosesTheDead` needs `Agree`: a
slot is open exactly while its number is, and the number a close has begun with is open
until its end.

**Requests.** `NoCompleteHeadWaits` is proved from `Inv`: what is in a stash was tested,
whole, when it was put there, and a head is read only while it is incomplete, with what
was stashed at the front of what is tested; whichever connection is read in between
leaves the stash alone (`BytesOwned`, `HeadsCut`). `GatheredInOrder` is inductive with `Inv`: at
each read the bytes gathered are followed by those read, and a request that ends moves
`start` to where reading stands, which is true only if its response does not leave the
connection to be read in the middle (`~Slow`). That a handler has its whole body
(`Whole`) needs that the head's end `headers_get` finds is the one `head_complete` saw:
the two look for different things, and on CR LF text with a first line they agree
(`HeadEnd` is a `CHOOSE` of a first blank line, whose existence is `Least`, and adding
bytes behind it does not move it). The bound on memory goes with it, because how far
`buffer_post_body` grows the buffer depends on the head's end and its `Content-Length`.

**Frames.** `Sound` is about the four counts of `frame_map[fd]`, which stay consistent
whoever closes: parts are read in order, lengths are the header's, memory is held exactly
while a payload is read. With it, each read refuses, advances by as much as the counts
grow, or completes a frame of exactly its header's length (`Reads`); and `InPlace` is
that the frame in progress is the one after those delivered, and starts where it does.
Where frames start is a recursive sum; `FrameStarts` gives its equations and
`FrameStartsGrow` that no two frames start at one place, so the header read there is
that frame's.

**Identity.** `ChildIsItsUser` speaks of a program by what its descriptor was when it was
forked, so it needs to know of every descriptor that its account goes with its name
(`EntryIsUsers`); `NothingInherited` needs that a slot that is not open is the cleared
one (`ClosedIsClear`). With the types these make `IInv` inductive; `Entries` adds that
an account kept is one `getpwnam` found or the server's. `AuthLemma` and
`AutoAuthLemma` say what `axil_auth` and `-A` make of a slot, and every action is one
of them, a clearing, or a read.

**Parts.** A behaviour of an MC module is, for each part, a behaviour of it: either the
part's own or one that stays where it started. `HeadsAreHeads`, `WallsAreWalls` and
their like say so, and a component's theorem then is one about the part. What has no
module of its own is proved where it is composed.

**Look-ups.** `OwnTable` says whose entries the one `query_db` holds: those of the request
being handled, because the table is dropped when a handler has returned, and of the
deferred ones that have looked something up since (`strays`), because nothing drops what
they parse before the next handler returns. `FindsItsOwn` names the same exception;
`NoLateNoLeak` is that without late lookups there is none.

**The page.** A late event of a socket that was replaced must not be taken for the bus's.
`PageInv` is that the bus is the one socket not on its way out, that whoever has a
socket's handlers is a bridge, and that a bridge told to close has no timer
(`Settled`). A step replaces one bridge and touches at most a socket or two, and a lemma
for each kind of replacement (`BridgeSettles`, `OpenedSettles`, `ClosedSettles`,
`ConnectSettles`) does the rest.

**WebSocket writes.** `Writer` types the descriptor and `Owes` says that what is on the
wire and then queued, without the Closes, is exactly the messages written (a beginning of
them once it is closed). Until a Close is sent there is nothing on the wire but messages,
and a connection is not torn down without one (`Parted`), so that nothing is left out of
the comparison. The two
writes of a frame need it in the middle, with the frame's header written and its payload
owed. `Messages` is a recursive function over the sizes; its equations, and that adding a
message adds its bytes, are lemmas from `Concats`.

**Programs.** `WatchInv` adds to `Watched` and `OutputComplete` that what was read of a
program was written by it (`Drawn`), that a program is watched on an open slot, and that
such a slot with a queue is not marked to close: that is how the end of the output
outlives the program.

**Transport.** `Link` is that everything the peer sent was read, is held by OpenSSL or is in the
socket (`InStep`), and that everything accepted was sent or is queued (`Once`), with the
phases of the handshake. Of records in the socket `Items` is a sum; `IsSum` and the lemmas
`Items...` let one be taken from the front and put at the back. `axil_low_write` and
`axil_write_remaining` have a lemma each, for an OpenSSL that writes all or nothing
(`SslWritesAllOrNone`).

**The calendar.** `DateReadsBack` says that two ways of counting agree, and is inductive
once both are on one scale: `YearDays` and `MonthDays` count a year from March, as the
code does, and the leap day is then the last of the year before. `MonthEnds` and
`YearEnds` say that each ends where the next begins; `FromMarchIs` and `Eras` that the
code's eras and truncating divisions come to the same.

**Matching.** `Better` is a strict weak order (`BetterIsStrict`, `BetterStays`): what is
not better than the best is not better than what replaces it. So the best of the
patterns tried stays the best whatever comes next (`BestKept`), and `Matching` carries
that through the loop, with a HEAD's second round and what its first showed. That no
exact route would take the GET follows because `Tried` has the exact routes with a
method among the patterns (`RoutesAreTried`). 
A narrower pattern is a better one (`NarrowerIsBetter`) because a path can be made that
tells two patterns apart: longer, for a pattern without a `*`; as short as the narrower
allows; or with another word where only the wider has a literal (`WithinShape`). So the
wider's literals are among the narrower's, at the same places, and if they are as many
the patterns differ by the narrower's captures alone, which is the exception
`NarrowestWins` names. That is where `AnyPath` is used: with few paths, as in the run,
two patterns may take the same ones for no reason of theirs. `NamesApart` is needed
because a pattern with two captures of one name has more entries than names: the model
counts names, as the handler finds them.

**Pointers.** `pattern_match` skips slashes and looks for a segment's end, and both
searches stop at the terminator at the latest (`Terminators`); a pointer that stands on a
terminator is not advanced, because `AtTheEnd` comes first.

**Induction.** The library's induction theorems take the statement as an operator, which
the provers cannot instantiate. `Induction` states them for sets instead: a set of
naturals that is not empty has a least element (`Least`), one with 0 and the successors
of its members has them all (`Successors`), a step has a function that repeats it
(`Runs`), weights have sums (`Sums`) and pieces a whole (`Concats`), which is what a
recursive function over `0..n` is equal to. The proofs about heads, frames, records and
messages rest on these.

**Only model-checked:** of the safety properties, `HeadIsRead`, `MatchesSegments` and
`FormArrives` (the algorithms `HeadText`, `PatternMatch` and `Codec`), and all liveness
(`DoneResponsesClose`, `TransportGoesOn`, `ProgramReaped`, `LoopReturns`, `Reconnects`),
which TLAPS does not prove under fairness. The algorithms on texts are checked on every
short input against their reference definitions; induction over whole texts would need
a statement of each of their scans' intermediate states, which has not been made.

## 5. What is not modelled

In `Descriptors`: descriptors registered with `axil_fd_watch`, the second (TLS) listening
socket, and the errors of `select()` other than `EINTR`, `EAGAIN` and `EBADF`, which end
`axil_main`. In `WriteQueue`: TLS, which `Tls` models with a queue reduced to a length.
In `Exec`: a `popen2()` that fails, and several programs at once. In `Tls`: renegotiation
and the shutdown alert. In `WsFrames`: unmasking and the handshake's hash. In `Dispatch`:
the contents of answers; conditional requests and ranges of files are `WriteQueue`'s.

Not modelled at all: `request_path_is_safe` and `static_etag_matches` (planned);
`axil_slugify` and the status and MIME tables (data); the directory listing's text;
`axil_update`, `axil_fd_tick` and the clock, which are other programs' code; the order of
startup, which runs once; password and session files (their answer is a choice of
`Identity`); `npm/dist/index.js` and the bridge's fan-out of messages; the Windows stubs;
argument parsing, certificates and contexts, which are I/O. The programs
`test-routes.c` and `test-auth.c` are tests.

Some hazards in `PROJECT.json` have no property; each says why. Others of less weight
are in none of the modules: a client whose upstream never answers stays pending without
a bound (1453); a first line of eight words or more ends `cmd_new` with `argc` at
`CMD_ARGM` (629), which `HeadText`'s assumption excludes; a `popen2()` or `fork()` that
fails leaves `epid` at -1 (`axil-posix.c` 453); a static file that is gone between
`stat()` and `open()` is announced and not sent (2519).

## 6. Plan

1. Proofs: the scans of `HeadText` and `PatternMatch`, with a statement of how far each
   has come.
2. An abstract specification of a connection's requests (a stream cut into requests,
   each answered at most once) implemented by `Requests`.
3. `Descriptors` with watched descriptors, composed with `Tls`'s readiness.
4. Path safety and ETags against reference definitions; the bridge's message fan-out.

## 7. Running

    tlc -workers 2 -config Descriptors.cfg Descriptors
    tlapm WriteQueueProofs.tla
    tlapm DescriptorsProofs.tla
    tlapm ServingProofs.tla
    tlapm RequestsProofs.tla
    tlapm RoutingProofs.tla
    tlapm ProgressProofs.tla
    tlapm BroadcastProofs.tla

`descriptors` and `routing` (about three million states each) and `serving` (four
million) are the longest runs, two minutes each; the others take seconds. Deadlock is
checked where the configuration does not say otherwise.

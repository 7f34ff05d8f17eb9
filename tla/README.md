# Lightning++ in TLA+

A verification development of the HTTP server Lightning++ (`src/`): TLA+ modules
of its run-time core, TLC configurations that check them on small instances, and
TLAPS proofs of the results that should hold for every instance.

## The system

`HttpServer::start` runs three kinds of threads:

* the **accepting thread** (the caller of `start`) blocks in `accept()`, makes the
  client's socket non-blocking and hands the client over;
* the **epoll thread** (`NonblockingClientManagerTask`) watches every client that
  waits for a request, each armed for one event (`EPOLLONESHOT`);
* the **workers** (`TaskExecutor`) each run a `ClientRequestHandler`: parse, route,
  run the resolver, write the response, give the client back.

A client is one `std::unique_ptr<IClient>` that is moved

    accept() -> newFdChannel -> connections (epoll) -> task -> worker
                                   ^                             |
                                   +------- returnChannel <------+   (or close)

Both channels (`FdChannels.hpp`) pair a lock-free queue with a non-blocking pipe:
enqueue, write a byte; the epoll thread reads some bytes, then drains the queue.
Closing the write end of the new-client pipe is the shutdown signal.

### Inventory

| Component | State | Operations | What makes it correct |
|---|---|---|---|
| Hand-over channels (`FdChannels.hpp`) | queue per producer, bytes in the pipe | enqueue, write, read, drain, close | no item without a wakeup; FIFO per producer; end of pipe only after the last item |
| Task executor (`MPMCTaskExecutor.hpp`) | task queue, workers, `kill_threads` | `add_task`, `stop_all`, `thread_worker` | each task run once, in order; `stop_all` ends, with nothing left behind |
| Accepting thread (`HttpServer.cpp`) | the client just accepted | accept, enqueue, write, `shouldStop`, close, join | every accepted client reaches the loop; `start` returns |
| Epoll thread (`NonblockingClientManagerTask.cpp`) | `connections`, epoll set, events of the last wait | two drains, client event, shutdown | one owner per client, one event per request, nothing forgotten, no event of another client |
| Request handler (`ClientRequestHandler.cpp`) | client, header bytes | parse, resolve, respond, return | the client is returned exactly once, or the process ends |
| Plain and TLS sockets (`PlainStream`, `SSLStream`, the servers) | `leftoverBuffer`, records, the listening socket | read, write, peek, readUntilToken, injectBuffer, close, accept, createSocket | bytes in order, none lost; close frees the descriptor |
| Request parser (`HttpRequest.cpp`) | position in the block, headers found | `createRequest`, `getBody`, `computeUriParameters` | gives back what the client wrote; its loop ends |
| Responses (`HttpResponse*.cpp`), static files (`StaticFile.cpp`) | body, headers, builder | builder, `setHeader`, `toHttpResponse`; `uriToStaticFile`, `serveFolder` | `Content-Length` is what follows |
| Routing (`UriMapper.cpp`, `Strings.*`) | map from regex to resolver | add, match, `formatEx` | what is found covers the URI, what covers it is found |
| Middlewares | two vectors | addPre, addPost | (never called by the server) |
| Server builder (`ServerBuilder.cpp`) | port, threads, server | with..., build | the server built is the one asked for, on a socket of its own |
| Vendored queues (`moodycamel/`) | indices, blocks, semaphore, free list | enqueue, `wait_dequeue`, `try_dequeue` | a FIFO; no sleeper while there are items; no block in two places |

The hard behaviours: moves of a client between threads and four containers; a
wakeup whose byte is dropped or read early; descriptors that the kernel reuses;
one-shot arming against data that is already there; bodies and responses that arrive or
leave in parts, and TLS records that are decrypted whole; shutdown against clients in flight;
exceptions that leave a thread; lock-free counters that must agree; a builder that is used
again, and a process that is started again. `PROJECT.json` lists them as hazards, each at its
line.

## Modules

| Module | Models | Kind |
|---|---|---|
| `HandoffChannel` | what a channel promises: FIFO hand-over per producer, stop after everything was received | abstract specification |
| `WakeupChannel` | `FdChannels.hpp` and the code at its two ends: queue, pipe, dropped bytes, partial reads, the scan of `try_dequeue` | implements `HandoffChannel` |
| `WakeupChannelProofs` | its safety and refinement | proofs |
| `TaskPool` | what the executor promises: start in order, once; stop when idle | abstract specification |
| `TaskExecutor` | `MPMCTaskExecutor.hpp`: queue, sentinels, workers, `stop_all` | implements `TaskPool` |
| `TaskExecutorProofs` | its safety and refinement | proofs |
| `ConnectionLoop` | the three kinds of threads together, sockets, epoll, descriptors | composition; two instances of `WakeupChannel`, one of `TaskExecutor` |
| `ConnectionLoopProofs` | its inductive invariant and safety; that its channels and its pool are those of the two modules; clean shutdown | proofs |
| `MCConnectionLoop` | symmetry and an undisturbed environment for TLC | model checking |
| `HttpDialogue` | what one client is promised: answers in order, once each, none after the last | abstract specification |
| `HttpConversation` | one connection, plain or TLS, with its bytes: `peek`, `read`, `getBody`, `write`, the handler and its failures | implements `HttpDialogue` |
| `HttpConversationProofs` | its safety and refinement | proofs |
| `HttpRequestParser` | `createRequest`, `getNextToken`, `parseHeaders` on a block of characters | algorithm |
| `HttpRequestParserProofs` | that it reads what was written | proofs |
| `UriRouting` | `addResolver`, `UriMapper`, `formatEx`, `getResolver`, `computeUriParameters` | state machine |
| `Streams` | `readUntilToken` and `injectBuffer` of both streams, next to `peek` | state machine |
| `Response` | builder, constructor, `toHttpResponse`, the resolvers of `StaticFile.cpp` | state machine |
| `ServerBuilder` | its calls, the listening sockets of its servers, a restart | state machine |
| `StdString` | `std::string::find`, for four of these | operators |
| `FifoQueue` | what the executor takes its queue to be | abstract specification |
| `TaskQueue` | `BlockingConcurrentQueue` with one producer: semaphore, indices, blocks | implements `FifoQueue` |
| `TaskQueueProofs` | its safety and refinement | proofs |
| `FreeList` | moodycamel's lock-free list of blocks | state machine |
| `FreeListProofs` | its safety | proofs |
| `MCHttpConversation` | requests for TLC | model checking |
| `Parts` | `TaskQueue`, and one instance each of `HttpRequestParser`, `UriRouting`, `Response`, `ServerBuilder`, `Streams` and `FreeList`, of which one runs | composition |
| `PartsProofs` | the safety of `ServerBuilder`, `Response`, `Streams` and `UriRouting`, and of the composition | proofs |
| `MCParts` | texts, URIs and bodies for TLC | model checking |

A definition whose name says what is wrong with it (`ScanStopsEarly`,
`RearmForgotten`, `OneSentinelTooFew`, ...), placed before the one it is a variant
of, is a plausible bug. No specification uses it; substituting it shows that the
properties notice.

### How the state corresponds

`WakeupChannel`: `queue[p]` is moodycamel's sub-queue of producer `p`, `pipe` the
bytes in the pipe, `ppc[p] = "signal"` a producer between `enqueue()` and
`write()`, `cpc = "drain"` the consumer in its `while (try_dequeue(...))`, `seen`
the sub-queues the current call has found empty. `Signal` ignores `EAGAIN` as the
code does. `Read` takes at most `ReadChunk` bytes (256 in the code).

`TaskExecutor`: `queue` is `tasks` with `Null` for the null pointer; `opc` follows
the owner through `stop_all` (`sentinels` counts its first loop, `joining` is its
second). The owner is one thread, the epoll thread, so moodycamel's queue is a
FIFO; `enqueue` and `wait_dequeue` are atomic, which `TaskQueue` justifies. `kill_threads` only matters for a
second call of `stop_all`, which does nothing.

`ConnectionLoop`:

* kernel: `peer`, `backlog`, `unread` (segments received), `fdOf`, `interest` (what
  epoll knows of a descriptor; reporting it disarms it; closing it removes it);
* accepting thread: `apc`, `accepted`;
* channels: `clients`, `newPipe`, `newClosed`; `returned`, `returnPipe`;
* epoll thread: `epc`, `batch` (events reported and not yet handled; a hangup flag is
  fixed when the event is reported), `seen`, `connections`, `leftover`;
* pool: `tasks`, `opc`, `sentinels`, `wpc`, `client`;
* `died`: the thread whose exception ended the process.

Each event of a batch is one action of `handleClientEvent` or of the reads in
`operator()`; a drain is one action per element, since workers and the accepting
thread go on meanwhile. The bytes of a header are segments: `"end"` is one with the
terminator. `Respond` is the whole of `ClientRequestHandler::operator()` but for the
write to the return pipe: how much body the resolver reads, and whether the
connection is kept, are free choices, which covers 200, 400 and 500.
`HandlerThrows` is the exception of a write in the catch block or on the 400 path.
`AcceptFails` is the exception of `accept()` (always possible, and the only step
left when no descriptor is free).
`CloseFreesFd` is TRUE for `PlainStream::close` and FALSE for `SSLStream::close`.

`HttpConversation`: the bytes of a connection are units: of a request one for its text, one
for `\r\n\r\n`, one for each byte of body; of a response `ResponseSize`, of which the socket
takes `SendSpace` before the client reads. `unread` is the socket's receive buffer,
`leftover` the stream's `leftoverBuffer`, `header` the handler's `requestBuffer`, `phase` where
the connection is between the epoll thread and a worker. That only one of them uses the
stream at a time is not assumed twice: `ConnectionLoop` shows it (`StreamIsExclusive`), so
here `phase` moves one connection along. The client sends whole requests, with the body
its `Content-Length` announces, but stops, hangs up, resets and reads responses when it
likes. A request has a kind: whether its block has any `\r\n`, whether it asks for
keep-alive, its length, how often its resolver calls `getBody`, and whether that throws.
`sent` and `taken` are histories. A connection is made with one of `Transports`. Over TLS
epoll sees what is in the socket, and the stream what OpenSSL has decrypted: the first
`decrypted` units of `unread`. A record is decrypted whole (`DecryptedAfter`), and what the
stream does not take of it no longer makes the descriptor readable. `ReadReturns` is the loop
of `SSLStream::read`, `WriteFails` the write that is refused while another is unfinished.

`HttpRequestParser`: a text is a sequence of characters, `\r\n` being one. The client's
block is written by `Block`; `pc` follows `createRequest` into the loop of `parseHeaders`,
of which every turn is an action.

`UriRouting`: `resolvers[m]` is the `UriMapper` of a method, keyed by regular expressions as
`add` makes them: sequences of atoms (a character, maybe behind a backslash, or the wildcard's
group). `added` is a history, `found` what `getResolver` returned last, with the parameters
`computeUriParameters` finds. `Matches` stands for `std::regex_match`. The unordered map is
searched in any order.

`Streams`: `coming` has not been sent yet, `socket` has arrived; `chunk` is the string of fixed
length that `SSLStream::readUntilToken` reads into, NULs first. `start` is a history.

`Response`: a message is a body and its `Content-Length`; `origin` is the body a resolver
meant, `sent` what `toHttpResponse` wrote behind the header. Writing a vector as a C string
stops at a NUL, or goes on into memory (`Behind`).

`ServerBuilder`: a server is known by the port of its listening socket, which nobody closes
(`SocketKept`: `~SSLServer() {}`, `~PlainServer() = default`). `Linger` and `Forget` are
connections in TIME_WAIT, `Restart` a new process. A call that throws is a stutter.

`TaskQueue`: one action per atomic operation on an index or the semaphore (its header says what
of the block index goes along). A try of `wait_dequeue`, `Look`, is five loads: the two of
`size_approx`, then `tailIndex`, `dequeueOvercommit` and `dequeueOptimisticCount` in `dequeue`;
others move between them, so it can fail (`LookAgain`) while the item is there. `began` is a
history that no guard reads. `ppc` and `cpc[c]` are the places in `enqueue` and `wait_dequeue`; `count` is `m_count`, `sema` the POSIX
semaphore; `blockOf` the block index, by the index at which a block begins; `slots[b]` its
elements, 0 for a destroyed one. To `FifoQueue` an item is put when `tailIndex` is stored and
got when `headIndex` is advanced.

`FreeList`: `refs` and `should` are the two parts of `freeListRefs`; `pc[t]` the next atomic
operation of thread `t`, `node[t]` what it adds or has a reference to. `TaskQueue` uses the
list as a set, from which a `try_get` may come back empty-handed while an add is under way.
`Chain`, what is on the list, is the least set with `head` that goes along with `next`.

## What TLC checks

| Run | Question | Bounds |
|---|---|---|
| `wakeup_channel` | Is a wakeup or an item ever lost? Is it a `HandoffChannel`? | 2 producers, pipe of 3 with 4 bytes due, reads of 2: bytes are dropped and left behind |
| `task_executor` | Do the sentinels stop everyone and strand nothing? Is it a `TaskPool`? | 3 workers, 2 tasks, 3 queued: idle, busy and exited workers at once |
| `loop_ownership` | One owner, one user, no leak, nothing forgotten, no stale event, clean shutdown? | 2 clients, 2 descriptors, 2 workers, 2 events per wait (4 can be ready), pipes of one byte, headers of one segment |
| `loop_progress` | Is everything that arrives dealt with? Does `start` return? | 2 clients on 1 descriptor, 2 workers: reuse, hangups, exceptions |
| `loop_patience` | Does one client keep another from being served? Do the channels and the pool keep their protocol inside the server? | 2 clients at once, no hangups, no exceptions |
| `loop_pipelining` | (violated) is every request taken? | 1 client, 2 segments unread |
| `loop_tls` | (violated) does the TLS `close()` free the descriptor? | 2 clients |
| `conversation` | Are bytes lost or moved? Do bodies go where they belong? Is it an `HttpDialogue`? Is every request answered, or its connection closed, if an unread body leaves room for it? | plain and TLS, 3 requests of 7 kinds, one at a time or two at once, a header limit of 4 units, bodies of 1 to 3, 2 responses in flight |
| `conversation_unread` | (violated) is a header free of the last body? | 2 requests |
| `conversation_tls` | (violated) is a body whole that `getBody` returns? | 2 requests over TLS |
| `parts` | Seven questions, one of each part, below | see `MCParts` |
| `response` | (violated) does the body have the length announced? | bodies of 3 bytes, NUL among them |

`parts` checks what does not interact, side by side, as `Parts` puts it together: its `subject`, chosen in the initial
state, is the part that runs, while the variables of the others rest. The state space is the
sum of theirs, and each part is checked as it would be alone.

| Subject | Question | Bounds |
|---|---|---|
| `"queue"` | Do the semaphore's tokens balance, when is a look in vain, is a block reused too early, is it a `FifoQueue`? | 2 consumers, 5 items in blocks of 2, of which 1 is pooled and 2 are allocated |
| `"list"` | Is a block lost, or in two hands? Can ABA happen? | one thread that adds, one that takes, one that does both; 2 nodes |
| `"parser"` | Does the parser give back what was written? Does it end? | 2 header fields of 3 keys and 4 values with spaces, colons and nothing in them |
| `"routing"` | Is what is found right, and what is right found? | 2 calls of 7 URIs, 2 methods and an unsupported one, 9 URIs asked for |
| `"responses"` | Does the client get the body that was meant? | bodies and files of up to 3 bytes, lengths set by hand at any time |
| `"builder"` | Whose is a listening socket, and of what kind? | 2 builders for one port, another port, restarts |
| `"bytes"` | Does `readUntilToken` return the text in front of the token? | 5 texts with the token cut, doubled, short or missing, in chunks of 3 |

Why the bounds are enough: the properties speak of one client, of two clients and one
descriptor, or of two producers and one pipe; a pipe of one byte and an event array
smaller than what can be ready reach every overflow the code has. The peer may send
without end (`MaxUnread` bounds only what is unread at a time), so connections are
kept and reused any number of times. Symmetry is used where only safety is checked.
In a conversation a fault shows between a request and the one after it, or in the third
when the first two were pipelined; the header limit, the send buffer and the leftover
bytes are all of the size of one request, so each boundary falls inside one, between two
and at the end. Behind an unread body of one unit a header still fits, behind
one of three it does not. The resolvers of a route interact in pairs. Five items fill blocks of
two twice and begin a third, which may be one that was given back, while a slow consumer is
still in an older one; the count of the semaphore goes below zero as far as there are consumers. On
the free list three threads can look at one node while it leaves and comes back. A chunk of
three bytes cuts a token of two at both places.

Fairness: the accepting thread after `accept()`, the epoll thread and every worker keep
running; `shouldStop` and the resolvers return. `accept()` need not return, peers need
not send, and nothing has to throw. `conversation` assumes the same of the epoll thread
and the worker, and nothing of the client. In `parts` the queue's consumers and an `enqueue`
that has begun go on (nothing has to be enqueued), and the parser runs; the others have no
liveness property. The free list has none on purpose: it is lock-free, and one thread may be
kept from getting a node for ever. The liveness of the channel on its own, with two producers,
is part of `ImplementsHandoff`.

### The properties

`NoLostWakeup`: while an item is queued the pipe is readable, its producer is about to
write, or the drain in progress has still to look there. It is why reading before
draining, and enqueuing before writing, are the right orders, and why ignoring `EAGAIN`
is harmless.
`SentinelsLast`: no task is ever behind a sentinel.
`OneOwner`, `NoLeak`: a client is in exactly one place, until its descriptor is closed.
`StreamIsExclusive`: from its event to its rearming, a descriptor raises no other.
`NoneForgotten`: a waiting client is armed or has its event in the batch.
`EventIsOfItsClient`: descriptor reuse never brings an event to the wrong client; the
test `it == connections.end()` is never true.
`ShutdownServesAll`: when `start` can return, what was accepted was seen and what was
taken was answered. (Clients that wait, or that come back after the loop was left, are
dropped without `close()`: `NoLeak` holds only until then.)

`NoByteLost`: the bytes that headers and bodies were made of, `leftoverBuffer` and the socket are
together what the client sent, in order, as long as the connection may be used again.
`BodyOfItsRequest`: `getBody` never returns bytes of another request, wherever they were.
`ImplementsDialogue`: whatever fails in a handler, a request is answered at most once, and a
connection after 400 or 500 is not used again. The answers are those the client finds: it
knows how long a response is, and looks for the next one behind it.
`WireIsFramed`: responses are whole, if the socket has room for one to every request the client
may have outstanding (`Window * ResponseSize <= SendSpace`); with less, TLC finds a response cut
off and followed by the next.
`EveryRequestIsAnswered`: bodies that are late or unread may cost the connection, but leave no
client waiting, with one exception, which the run reaches: an unread body of
`MAX_HEADER_BYTES - 1` or more fills `leftoverBuffer`, the header behind it never fits in, and
the loop spins on the descriptor (`Clogged`).
`FoundIsRight`, `NothingMissed`: both directions of routing, replacement of a resolver and
URIs that share an expression included.
`ImplementsParts`: the two channels and the pool, inside the server, do what `WakeupChannel`
and `TaskExecutor` do alone (checked in `loop_patience`, which has two clients in the pipes at
once; in the larger instance of `loop_ownership` a refinement costs too much). `HandOverCompletes`: who was accepted or given back is watched.
`SemaphoreBalances`, `TokenIsAnItem`: the semaphore against the queue. Whoever sleeps is owed
a post, and for whoever is let through there is an item until it takes one.
`TurnsOnlyForOthers`: its look for that item can fail all the same, since it compares a stale
`tailIndex` with a later `headIndex`; but only when another consumer has counted itself in since
the look began, so the loop of `wait_dequeue` turns only while somebody gets on.
`BlockIsKept`: a block is in one place, and an index that was given out finds its element.
`ImplementsFifo`: items come out in order, each once, and a waiting consumer gets one.
`NoBlockIsLost`: no block is lost and none is handed out twice, and a node is added by one
thread at a time, with its upper bit clear where the code adds to it (`AddedOnce`, which the
comments of `FreeList` say and an assertion tests); `PopIsFresh` says what
`freeListRefs` counts, and that this keeps ABA away.
`BodyArrives`: `Content-Length` is that of the body, whoever set what and in which order;
`ReturnsUpToToken`: over a plain socket the token is found wherever chunks were cut, and nothing
behind it is lost; over TLS this is said only of a token in the first chunk.
`SocketOfOneServer`, `NoPlainAfterSsl`: what a builder that is used again may not do. The
second holds only because no server closes its socket: with a destructor that did, a second
`build()` of a TLS server would serve plain HTTP on its port (that is its mutant).
`PlainRestarts`: a port that only plain servers have had can be bound at once by the next
process; of `SSLServer` this is not so.

The type invariants of `WakeupChannel`, `TaskExecutor` and `ConnectionLoop` are proved and not
listed with the runs; that of `HttpConversation` is the first conjunct of `NoByteLost`, those of the parts are
in `PartsTypeOK`.

### Disagreements found

1. **Pipelined requests hang** (`loop_pipelining`). `peek` reads as much as is there. If
   that holds two headers, the second stays in `leftoverBuffer`, and after the first
   response the client is put back in epoll, which reports only new data.
2. **TLS descriptors leak** (`loop_tls`). `SSLStream::close` does not close the descriptor
   and nobody else does; in the end `accept()` fails and its exception ends the process.
3. **Unread bodies** (`conversation_unread`). A body that the resolver does not read is parsed
   as the beginning of the next request on the connection, which then gets a 404.
4. **TLS bodies are cut short** (`conversation_tls`). `SSLStream::read` takes
   `SSL_ERROR_WANT_READ` for success: a body that has not arrived yet comes back padded with
   zeros, and its rest becomes the beginning of the next request.
5. **Bodies with a NUL are cut off** (`response`). `toHttpResponse` writes the body as a C
   string, while `Content-Length` is its size: up to its first NUL, or past its end.

More that the modules show, or that was seen while writing them, and no run states:

* a body that is not there with its header makes `getBody` throw (`recv` says `EAGAIN`,
  PlainStream.cpp:20), and the client gets a 500: `GetBodyThrows`;
* `getBody` does not look at `bodyRead`: a second call takes bytes of the next request
  (HttpRequest.cpp:171; in the model a resolver calls it at most once);
* the part of a response that the send buffer does not take is lost (PlainStream.cpp:32), and
  a write to a client that was reset raises SIGPIPE, which nobody ignores;
* over TLS the 500 behind a write that could not be finished is refused, and its exception
  ends the process (SSLStream.cpp:93): `WriteFails`;
* ServerBuilder.hpp:21 says that `build` throws if no underlying server was given; it makes a
  `PlainServer` (ServerBuilder.cpp:41). The test that expects this not to throw
  (unit-tests/source.cpp:164) does throw when `TestHappyPath` has run before in the same
  process, for the socket on its port is still bound: `Build`;
* an `SSLServer` cannot be restarted while its connections linger, as it does not set
  `SO_REUSEADDR`: `ReusesAddress`;
* `SSLStream::readUntilToken` finds the token in a chunk and cuts the whole there: it is right
  for the first chunk only (`TlsChunk`), although IStream.hpp:30 promises to read until the
  token; without one it uses npos as an offset (`TlsFails`). `PlainStream`'s loses what it has
  read when `recv` fails (`PlainFails`). The server no longer calls either;
* `SSLStream::read` passes the address of an `int` where OpenSSL writes a `size_t`
  (SSLStream.cpp:33); the SSL object of a connection is freed only if `close` was never called
  on it (SmartResource.cpp:14); `capturedErrno` is initialised from itself
  (LowLevelApiException.cpp:10). None of these is in a module;
* a client that closes its side without a whole header, one whose header reaches
  `MAX_HEADER_BYTES`, and one whose unread body does so in front of the next header, leave the epoll thread spinning on a readable descriptor;
* README.md:56 says accepted connections are "immediately pushed to the thread pool": they wait
  in epoll for a whole header;
* a request without headers gets a 400 (HttpRequest.cpp:93): `CreateRequest`;
* of two resolvers that match, either may be taken; UriMapper.hpp:60 says the last, the unit
  test (source.cpp:43) the first: `GetResolver`;
* the parameter of a wildcard inside a URI is the text behind it (HttpRequest.cpp:137):
  `Parameter`; `get("*", ...)` stores a resolver nobody reads (HttpServer.cpp:75): `Add`;
* of the special characters only `[ ] * / ?` are escaped (Strings.cpp:9), so a dot in a URI
  matches anything; and `formatEx` never returns when a replacer has the separator in it, so
  not for a URI with `{}`. Both kinds of URI are left out of `parts`.

## What is proved

For every value of the constants that meets the assumptions, which are `ASSUME`s
that TLC evaluates on the instances it checks: `ChannelAssumption`, `PoolAssumption`,
`LoopAssumption`, `QueueAssumption`, `ConversationAssumption`, and `PartsAssumption`, which is
that of every part. They say

* that sets are finite where the code counts them, that a null value is not one of the things
  it stands for the absence of, and that sizes are positive;
* of the parser (`ParserAssumption`) what a client may write in each place: no space in a method
  or a URI, no `\r\n` anywhere, no `: ` in a key, and a key is not empty;
* of `Streams` (`StreamAssumption`) that the token is not empty and has no NUL in it, as it is
  a C++ string that the code looks for in NULs too;
* of `Response` (`ResponseAssumption`) that nothing at all may be what is in memory behind a
  body, and that a body is made of bytes;
* of `UriRouting` (`RoutingAssumption`) that a URI is made of characters, none of
  which is an escaped pair or the group of an expression, and has at most one wildcard, and then
  no other `*`; `ResolversAreRight` also assumes that no URI is added with a dot
  (`NoDotsAdded`), which as a regular expression matches any character.

* `WakeupChannelProofs`. `IInv` is `TypeOK`, `NoLostWakeup`, which is inductive by itself,
  and `ClosedIsQuiet` (a closed pipe has no producer between enqueue and write; a stopped
  consumer found the pipe closed and empty). `DrainedAtStop` follows: with the pipe empty
  and nobody about to write, `NoLostWakeup` leaves no item. The same facts give the step of
  `ReadEof` to `HandoffChannel`'s `Stop` (`RefinesHandoff`).
* `TaskExecutorProofs`. `IInv` adds to `SentinelsLast` where `stop_all` stands
  (`StopProgress`) and what the workers have (`WorkersInStep`: once one has exited, only
  sentinels are queued). A queue position holds a sentinel exactly if it is among the last
  `sentinels - |Exited|`; a worker takes one from the head only when all the queue is
  sentinels. `RefinesPool` maps the tasks in front of the sentinels to what waits in
  `TaskPool`.
* `ConnectionLoopProofs`. The invariant has four layers, each inductive given those before
  it. `Typed` is `TypeOK` and what the program counters say of their variables; it bounds
  `leftoverBuffer` by `MAX_HEADER_BYTES`, without which `peek` could not be typed. `Owned`
  splits the life of a client into six stations (accepted, in `clients`, in the table, in
  `tasks`, with a worker, in `returned`) that exclude one another (`OneStation`), says that
  no container has a client twice (`NoDuplicates`), and ties table and descriptors together
  (`FdsMatch`); a `...Moves` formula per action says which station loses its client and
  which gains it. The two `emplace` calls find a free entry because of `FdsMatch`, and
  `OneOwner` follows, a station being one place. `Watched` adds what epoll knows of each
  station: nothing on the way in, "disarmed" with the pool, armed or reported in the table;
  and that an event in the batch finds its client, disarmed. `NoneForgotten`,
  `StreamIsExclusive` and `EventIsOfItsClient` follow: `EPOLLONESHOT` carries the argument,
  for a descriptor is closed only when its event is out of the batch. `OpenIsHeld` needs
  that `close()` closes the descriptor, and gives `NoLeak`; `NoLeakOfPlainSockets` assumes
  `CloseFreesFd`, and `loop_tls` shows what happens without it.
  `PartsAreImplemented` is `ImplementsParts`: every step of the
  composed server is, to each channel and to the pool, a step of its module or a stutter.
  What is needed besides `Typed` and `Owned` is `InProtocol`: the pipe of new clients is closed
  once the accepting thread has left its loop, the return channel's event is in the batch only
  while there is a byte to read, and no sentinel is queued before `stop_all`.
  `ShutdownServesAll` then comes without another induction: `StopFindsQueueDrained` of the
  channel and `StopLeavesNothing` of the executor hold of their instances in the server.
* `TaskQueueProofs`. `Sound` is `TypeOK`, `Tokens`, `Ahead` and `Stored`. `Tokens`: the semaphore
  balances, and `dequeueOptimisticCount` is ahead of `headIndex` by the consumers between the
  two increments; so for a consumer that was let through `headIndex` is below `tailIndex`
  (`HoldersHaveItems`), and `dequeueOvercommit` stays 0. `Ahead`: the `tailIndex` a look has
  loaded is above the `dequeueOptimisticCount` it began with, for the looker has an item it has
  not counted itself in for; when the comparison fails, that count has passed it
  (`LooksFailForOthers`). `Stored`: the producer's block is there
  from its first slot on (`Filling`), every block is in one place (`Placed`), and a block's
  count of dequeued elements together with those who still work in it is the part of it that
  `headIndex` has passed (`Emptying`), so who counts the last element is alone in the block
  when it gives it back. `BlockAlwaysKept` and `RefinesFifo` follow; the latter is what lets
  `TaskExecutor` take its queue for a sequence.
* `FreeListProofs`. `Sound` says that a node is in one of four places (`PlacedAt`): handed
  out, on the list, with one thread that adds it or has just taken it off, or left, with its
  upper bit set, to somebody who looks at it; that `freeListRefs` is the exact count of those
  who look and of the list (`RefsAreCounted`); that the link a thread is about to install is
  still the link of its node (`Locals`); and that the list ends and no two of its nodes have
  one successor (`Linked`). While the count is zero nobody can come to look, so a link is
  written in private; while somebody looks the count is not zero, so the node does not come
  back to the list: there is no ABA. A node whose add was given up has, by the count, someone
  else who looks, and the last of them adds it. `Chain` is defined as a least set, so that
  what a push, a pop and a new link do to it needs no induction (`PushReaches`,
  `PopReaches`, `LinkReaches`). `TypeCorrect` bounds the count by two more than there are
  threads: it stays clear of the upper bit.
* `HttpConversationProofs`. `Framed` describes the stream of units by its places: a unit is
  followed by the rest of its request (`Follows`) and preceded by its beginning (`Preceded`);
  the server stands at a beginning before a header and at the end of a header before
  `getBody` (`Position`); what was taken, `leftoverBuffer` and the socket are the stream
  (`Kept`). `NoByteLostAlways` is `Kept`. `BodyAlwaysOfItsRequest`: the bytes behind the end
  of a header, as many as `Content-Length` says, are by `Follows` those of the same request.
  `Whole` adds that units are sent in order, how many responses have been begun (`Counted`),
  how many requests the client may have outstanding (`Patient`) and that the wire is laid out
  in parts of `ResponseSize` (`Laid`). It gives `WireAlwaysFramed` and, with `Heard` (a request
  that is being answered is one whose header was sent), `DialogueIsImplemented`, both under
  `RoomForTheWindow`: the socket has room for a response to each request a client may
  have outstanding. The code does not see to that (`PlainStream::write` drops what does not
  fit), so it is a hypothesis, and TLC refutes `WireIsFramed` without it.
* `HttpRequestParserProofs`. `ParserInv` says where in the list of fields the loop of
  `parseHeaders` stands: `k` fields are read, under each of their keys is the first value it was
  given, and `offset` is the place where field `k + 1` begins. That there is such a place is
  `BlockLaidOut`: in the block as the client wrote it every field is followed by `\r\n` and the
  next one, or by the end. `FieldToken` then says that `getNextToken` cuts exactly there (a
  field has no `\r\n`, whatever spaces and colons it has), and `KeyAndValue` that the first
  `: ` of a field is the one behind its key, be the value empty or have another. `EndToken`: at
  the end of the text the token is empty, which ends the loop.
* `PartsProofs` proves the other parts and puts all of them together.
  - The builder. `BuilderHeld` says that every server in somebody's hands listens on its port
    (`ServersListen`), that TLS has the port of a secured builder (`SecuredIsTls`), and that TLS
    and the connections it leaves are only where it was recorded (`TlsIsRecorded`). The bind of
    a new server finds the port free, so no one holds it: `SocketOfOneServer` is inductive with
    it. `NoPlainAfterSsl` rests on `DestroyedIsKept`, that no destructor closes the socket.
  - The responses. `ResponsesHeld`: the body of a response is the one it was made of, and its
    length is that body's until the resolver sets another.
  - The streams. `BytesHeld`: while it reads, what a plain stream has read and what is to come
    are the stream it found, and the token is not in the first (`ReadSoFar`). `CutRight` is the
    step that matters: if the token is in what was read, and ends before any NULs behind it,
    its first place there is the first in the stream, and what is kept behind it is what the
    stream has next. `NoTokenInNuls` shows that of the chunk of a TLS stream.
  - Routing. `RoutingHeld`: a mapper has, for the expression of each URI that was added, the
    resolver added last for it (`Mapped`, `Keyed`). What an expression is atom by atom says
    `Shape` (`formatEx` calls itself once for a wildcard, and finds no other: `FormatOnce`), so
    two URIs never have one expression (`ExpressionsDiffer`) and no key has a `*` that repeats
    a character (`ExpressionFacts`). What `std::regex_match` accepts is a recursive function of
    the atoms; `Places` is its value for an expression with at most one group, shown to satisfy
    the recursion (`PlacesStep`) and, from the last atom down, to be its only solution
    (`MatchesWhere`). `CoversWhere` says the same of what a URI covers, and
    `MatchesWhatIsCovered` puts both together.
  - The composition. A step of `Parts` is one of the part that runs (`StepOfPart`), so what a
    part keeps alone it keeps beside the others (`PartsHeld`).

Each invariant was checked by TLC on a small instance before it was proved. The theorems of
`PartsProofs` state the formulas that `parts` checks, those of the other modules the same
formulas of a component on its own.

Model-checked only: every liveness property and the liveness halves of the refinements. The
prover has no rules for fairness and `ENABLED`. It has no induction over data by way of the
library's theorems either, which take an operator as a parameter; where a recursive function
is proved about, it was enough to look at the least place where a statement fails
(`FirstIsLeast` and `Induction` of `HttpRequestParserProofs` do that with sets).

## Plan

Done: every part of the server that runs, model-checked; the safety of the channels, the
executor, the loop, their composition, the task queue, the free list, one connection, the
parser, the routing, the responses, the streams and the builder proved. Left:

1. A proof that the executor on top of `TaskQueue` is `TaskExecutor`. (`TaskExecutor` is over
   the queue that `FifoQueue` promises, and `RefinesFifo` shows that `TaskQueue` keeps it.)

## Not modelled

* OpenSSL, but for what its records do to reading and writing; the handshake in `accept()` and
  the drain in `close()`, which can block their threads.
* Of moodycamel's queues what the server does not instantiate (tokens, explicit producers, bulk
  operations), the hash that finds a thread's producer, the growth of the block index, indices
  that wrap round at 64 bits, and memory orders weaker than sequential consistency, which TLA+
  does not have.
* The JSON library (25 862 of the repository's 33 864 lines of implementation): the server does
  not use it. With the queues' unused operations it is nine tenths of the code there is.
* Middlewares: `MiddlewareContainer` keeps two vectors that nothing reads. (`useFolder` has a
  function-local static resolver: every use serves the folder of the first.)
* `setTimeout`, which has no effect on a non-blocking socket and no caller; reading files from
  disk; formatting and logging; the exception classes.
* `EINTR` of `epoll_wait` is a retry without effect; its other errors cannot occur for a valid
  descriptor. `threadCount < 1` (the executor's constructor throws in the epoll thread) is
  excluded by `Workers # {}`. Failures of `pipe2`, `epoll_create1` and of memory allocation are
  not considered. A second `start()` on the same server is not modelled.
* In `UriRouting` a URI has at most one wildcard and then no other `*` (`RoutingAssumption`).

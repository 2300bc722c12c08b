# KATANA, specified

TLA+ specifications of KATANA, the C++23 HTTP framework in this repository: the
library (`katana/core`), its code generator (`tools/katana_gen`) and the services
that the generator has written (`examples/codegen`). With the specifications come
the TLC configurations that check them on small instances and proofs that TLAPS
checks for every instance.

Paths without a directory are in `src/katana/core/`. `PROJECT.json` lists
components, runs, findings, hazards and theorems, and says for every definition
which lines it translates.

## 1. The system

One process runs one *reactor* (an epoll loop) per core. A reactor owns its
connections; nothing but the queues of tasks and timers, the stop flags and the
reactor's load is shared between threads. A service is generated from an OpenAPI
description; its dispatch functions run on the reactor's thread.

```
 other threads --schedule(), schedule_after()--> ring_buffer_queue --> reactor
               --stop(), graceful_stop()-------> flags, eventfd   --> reactor
 kernel --epoll events--> reactor --callback--> connection (http_server)
 reactor --tick()--> wheel_timer --callback--> handle_fd_timeout --> connection
 connection --bytes--> parser --request--> fast_router, router --> dispatch
 dispatch --body--> parse_X, validate_X --DTO--> handler --response--> io_buffer --> socket
 server::run --> reactor_pool --> every reactor <-- trigger_shutdown()

 OpenAPI text --> openapi_loader --> names, order --> DTOs, codecs, validators, routers
```

### Components

| component | state | operations | what makes it correct | model |
|---|---|---|---|---|
| ring buffer queue (`ring_buffer_queue.hpp`) | two indices, slots with sequence numbers, masks that say who has been seen, waiter counts | try_push, try_pop, push, pop, push_wait, pop_wait, push_batch, pop_batch, size | a FIFO for any number of threads; a slot is used by one thread at a time; sleepers are woken | RingBufferQueue (no batches) |
| reactor: tasks (`epoll_reactor.cpp`) | queue of tasks, pending_count_, needs_wakeup_, eventfd, running_ | schedule, stop, run, process_tasks | an accepted task runs; no sleep on a task or a stop | ReactorTasks |
| reactor: time | pending_timers_, heap of timers, cached timeout, graceful flag and deadline | schedule_after, graceful_stop, process_timers, calculate_timeout | no sleep on an expiry; a graceful stop ends | ReactorTimeouts |
| reactor: fds | table of callbacks by fd, timeouts, queue of closes | register_fd (_with_timeout), modify_fd, unregister_fd, refresh_fd_timeout, process_events, handle_fd_timeout, flush of closes | what is remembered of a number is about the file that has it; an fd is closed once | FdTable |
| wheel timer (`wheel_timer.hpp`) | slots of handles, entries with generations, free list, lag | add, cancel, tick, time_until_next_expiration | a timer fires once, on time, unless cancelled; an id never hits another timer | WheelTimer |
| parser (`http.cpp`) | state, buffer, position, content length, chunk size, request | parse, reset, bytes_parsed | a request comes out as it was sent, however it arrives | HttpParser |
| connection (`http_server.cpp`) | read and write buffer, parser, arena, close_requested, what it waits for | handle_connection, accept_connection | requests are answered once, in order; no response is lost; it never waits for the wrong event | HttpConnection (no accept) |
| server, reactor pool, shutdown (`http_server.cpp`, `reactor_pool.*`, `shutdown.*`) | listeners, threads, flags of each reactor, the shutdown callback | run, start_listening, start, stop, graceful_stop, wait, trigger_shutdown, the signal handler | all reactors serve or none; a shutdown ends run(); nothing stays open; the pool outlives the calls that go through it | ServerLifecycle |
| router (`router.hpp`) | a table of routes, middleware | dispatch, match, run chain | the most specific route wins; 404 against 405; middleware runs in order around the handler | Router |
| mpsc queue (`mpsc_queue.hpp`) | linked list, optional count | push, try_push, pop | FIFO; no use after free; the limit is kept | MpscQueue |
| buffers (`io_buffer.*`, `circular_buffer.hpp`) | storage, positions | append, writable_span, commit, consume, compact, read, write, peek, reserve | a byte stream; positions stay inside | IoBuffer, CircularBuffer |
| arena (`arena.*`) | blocks, bytes used in each | allocate, reset, move | allocations are apart, aligned, in a live block | Arena |
| header fields (`http_headers.hpp`) | a table for known names with a list of touched entries, a list for others | set, get, remove, clear, move | a map from names to the last value | HeadersMap |
| generated services (`examples/codegen/*/generated`) | none between requests | fast_router, router, dispatch, parse, validate, serialize | both routers answer alike; the handler sees what the document means, within the limits; what meets the schema is served | GeneratedApi over the tables of the four services |
| JSON (`serde.hpp`, `json_generator.cpp`) | a cursor | parse_X, skip_value, serialize_X | a document is read to its end and for what it says; what is written is read back | Json, JsonCodec |
| OpenAPI loader (`openapi_loader.cpp`) | schemas that point to one another, an index of names | parse, resolve $ref, merge allOf, check | references are resolved and allOf merged | OpenApiLoader |
| code generator (`tools/katana_gen`) | names in use; a queue of schemas | naming of inline schemas, order of the DTOs, printing | a type is defined once, before its use | SchemaNames, DtoOrder; the printed code in Json and GeneratedApi |
| fd_watch, scoped_fd, sockets | one number each | register on construction, unregister on destruction | a number is released once | FdTable (the watch and socket of a connection) |
| io_uring reactor (`io_uring_reactor.cpp`) | as the epoll reactor, plus submissions | as the epoll reactor | as the epoll reactor | not modelled, see section 6 |
| codecs and validation of text | none between calls | parse, check a format | - | not modelled |
| metrics, cpu_info, system_limits | counters | - | - | not modelled: nothing depends on them |
| benchmarks, scripts, handlers of the examples, docker | - | - | - | not modelled: users of the library |

### What is hard in this code

- **Interleaving.** The queue's claim, transfer and publication are separate atomic
  accesses, with two paths that assume different things of who is running;
  schedule() pushes, counts and signals in steps against a loop that takes the
  count, clears the flag and pops in steps; graceful_stop() writes two variables one
  after the other.
- **Lost wakeups.** The eventfd is written only by the thread that wins
  needs_wakeup_, and is registered edge-triggered; the loop drains it and then sets
  the flag.
- **Stale values.** The timeout of epoll_wait is cached for 5 ms; ids of timers
  outlive timers; a parser keeps every byte it has been fed.
- **Re-entrance.** Callbacks of the wheel add and cancel timers, and callbacks of
  fds register and unregister fds in the middle of a batch of events.
- **Partial results.** Reads and writes of sockets stop anywhere.
- **Failures half way.** A listener or a thread of a later reactor that cannot be
  had, when the earlier ones are at work.
- **Two ways to one answer.** The fast router and the router; a parser written for a
  type and the function that skips what it does not know; a validator and the limits
  of the description.
- **Order of a text.** References that point forward, allOf over schemas that are
  not read yet, duplicate keys, names made up for inline schemas.
- **Boundaries.** Whole revolutions of the wheel, a queue of capacity 1, a full
  queue, requests around the compaction threshold, every limit of a schema.

`PROJECT.json` lists each hazard at its line with the properties that cover it.
Those without a property say why, and a note says what of a hazard its properties
leave out.

## 2. The modules

| module | what it is |
|---|---|
| `FifoQueue` | what a bounded queue promises: values are taken in the order they were put |
| `RingBufferQueue` | `ring_buffer_queue.hpp`; refines FifoQueue |
| `RingBufferQueueProofs` | theorems about RingBufferQueue |
| `ReactorTasks` | the task path of `epoll_reactor.cpp` |
| `ReactorTasksProofs` | theorems about ReactorTasks |
| `ReactorTimeouts` | timers, timeouts and the graceful stop of `epoll_reactor.cpp` |
| `ReactorTimeoutsProofs` | a theorem about ReactorTimeouts |
| `FdTable` | registrations, events, timeouts and closes of fds in `epoll_reactor.cpp` |
| `FdTableProofs` | theorems about FdTable |
| `CountdownTimers` | what a timer service promises |
| `WheelTimer` | `wheel_timer.hpp`; refines CountdownTimers |
| `WheelTimerProofs` | theorems about WheelTimer |
| `HttpParser` | `parser` of `http.cpp` |
| `HttpConnection` | extends HttpParser with `handle_connection()`, the socket and the client |
| `HttpConnectionProofs` | theorems about HttpConnection |
| `MCHttpConnection` | the requests that the client may send |
| `ServerLifecycle` | `server::run`, the reactor pool and the shutdown manager, over reactors as the modules above show them |
| `ServerLifecycleProofs` | theorems about ServerLifecycle |
| `MpscQueue` | `mpsc_queue.hpp`; refines FifoQueue |
| `ByteStream` | what a byte buffer promises |
| `IoBuffer`, `CircularBuffer` | the two buffers; both refine ByteStream |
| `Arena` | `arena.cpp` |
| `HeaderFields` | what a map of header fields promises |
| `HeadersMap` | `headers_map`; refines HeaderFields |
| `Router` | `router.hpp` |
| `DtoOrder`, `SchemaNames` | the order and the names of generated types |
| `Library` | the parts from MpscQueue to SchemaNames, one after another |
| `LibraryProofs` | theorems about Library |
| `JsonTypes` | the types of generated code as data |
| `Json` | the parsers and serializers that `json_generator.cpp` writes, over the cursor of `serde.hpp` |
| `JsonCodec` | documents that are parsed, and DTOs that are written and parsed again |
| `GeneratedApi` | the dispatch functions, validators and routers that the generator writes |
| `ApiTables` | the form of the tables that it reads |
| `BenchmarkApi`, `TextApi`, `ComputeApi`, `ValidationApi` | the four generated services as such tables |
| `OpenApiLoader` | the passes of `openapi_loader.cpp` over schemas and operations |
| `ApiInputs`, `PartsInputs` | the requests, documents and descriptions that are tried |
| `Parts` | extends Library with WheelTimer and the parts that read JSON: JsonCodec, GeneratedApi, OpenApiLoader |

ReactorTasks uses of the queue what RingBufferQueue shows of its MPMC path: a push
claims its place before it is published, and a pop fails while the oldest place is
claimed but not published. The code builds pending_tasks_ with the default fast path
(`src/epoll_reactor.cpp:60`), on which a value can be lost when a second producer
arrives (`RingFastPathSwitch`): with several schedulers the queue of ReactorTasks is
better than the code's, and what is shown and proved for them is of the loop and not
of that switch. ReactorTimeouts uses of the wakeup what ReactorTasks shows, and
takes the wheel to be exact; WheelTimer says what the wheel makes of it.

**RingBufferQueue.** `pos` holds `head_` and `tail_`, `sequence` and `storage` the
slots, and each thread has a label and the local values it works with. Push and pop
mirror each other in the code, so one action stands for both: `End(t)` is the index
a thread moves and `Ready`, `Done` are the sequence numbers it waits for and leaves.
`Load, CheckReady | CheckStale | CheckFails, Claim | ClaimFails, Transfer, Publish`
is the MPMC path, `CheckReady, Transfer, Publish, Advance` the SPSC path; `Enter,
Mark, Enroll, Select` choose between them; `CheckWaiters, Flag, Wake, Unflag` are
maybe_notify and `Observe, Register, Wait, Deregister` the sleep of the `_wait`
variants. One access to shared memory is one action. Memory is sequentially
consistent: what acquire and release leave open is not modelled. A sequence number
does not wrap at 2^64.

**ReactorTasks.** `queue` is pending_tasks_ with a mark on what is published. `Push,
Publish, Count, Cas, Write` are schedule(); `Test, Take, Clear, Pop ...,
CalculateTimeout, WaitWoken | WaitEnds, Read, Rearm` one turn of the loop. The
eventfd is its counter being non-zero and the edge epoll has to report. Tasks call
schedule() themselves: `Reactor` is then the caller, with the loop at `task`.

**ReactorTimeouts.** A discrete clock passes while tasks run and while epoll_wait
sleeps; an iteration reads it once (`loop_now`). calculate_timeout() is
`TimeoutCached`, `TimeoutDue` or `TimeoutFound` with `KeepTimeout`, which stores the
cache and clears timeout_dirty_ after the heap was looked at. A connection is the
time at which its timeout expires.

**FdTable.** A number has a file, and files have names, so that a property can tell
two files of one number apart; `for` in a timer, a deferred close and an event names
the file it was made for, which the code does not know. One turn of the loop is
`FdTimesOut | FdWasActive ..., TimersDone` (handle_fd_timeout with queue_fd_close),
`TaskRegisters ..., TasksDone`, `GoesOn` or the shutdown, `EpollWait`, an action for
each event, `FlushOne ..., FlushDone`. A callback may accept, refresh, modify, or
unregister and close its own connection, as those of http_server.cpp and of
examples/hello_world_server.cpp do; a callback that closes the fd of another, or its
own when it is told of a timeout, breaks the contract of the reactor and is not
modelled. Other threads open and close files at any time. The timeout is in
milliseconds and compared as the code does it.

**WheelTimer.** A handle is an index with a generation. `Tick` computes the slots to
advance, and `Advance` and then `Discard`, `KeepCancelled`, `KeepRound` or `Expire`
for each handle are advance_slot(); between `Expire` and `CallbackReturns` the
callback may add and cancel. `lag` is the time since last_tick_. History variables
remember what was added, fired and cancelled.

**HttpParser, HttpConnection.** The unit of data is a line, a part of one or a byte
of a body, and is known by where in the client's stream it comes from, so that a
property can tell whether the server took it for what it was. Every state of the
parser is an action; `Return` and `Fail` are the ways out of parse(), with the
compaction. handle_connection() is a program with labels `read`, `feed`, `parse`,
`write`. The socket holds a few units for a slow client, so that writes block. The
size limits of the parser and its checks of single characters are left out: the
requests are within them.

**ServerLifecycle.** `main` and `at` say where run() is and at which reactor.
trigger_shutdown() is `Trigger` and then `TriggerFlag, TriggerDeadline` for each
reactor, because graceful_stop() writes two variables of a loop on another thread. A
reactor's loop is what ReactorTasks and ReactorTimeouts show of it: it ends after a
stop, or after a graceful stop without fds or past its deadline. Faults of the
system - a listener, a thread, epoll_wait - may happen `MaxFaults` times, anywhere.

**Parts.** The containers, the router, the service, the loader and the passes of the
generator share no state and no threads. One composite module runs them one after
another: `subject` names the part that a behaviour is about, the variables of all
others stay `Absent`, and every property speaks of its own part. Each part is a
module of its own with VARIABLES, Init and Next. Library instantiates those that are
proved about, for any values of their constants; Parts extends it with WheelTimer,
the rest and their inputs, and `Parts.cfg` gives the bounds.

**MpscQueue.** A node is its number in the order of the exchanges. `Exchange, Link,
Count` is push and `TryPush, Reserve, Exchange, Link` is try_push, one atomic
operation to an action; compare_exchange_weak may fail spuriously. `Pop, Uncount` is
pop; the counter is a size_t and wraps.

**IoBuffer, CircularBuffer, Arena, HeadersMap.** One call is one action, as they are
used by one thread. Bytes are numbered as they are written, and storage that has not
been written holds garbage, so that a wrong position shows. A header name stands for
all its spellings; values of 2^16 bytes and more are left out.

**Router.** A request is dispatched in steps: the choice of a route, each of its
middleware, the handler. Middleware may answer without going on. The table is fixed
while requests are served, as in the code.

**Json.** The generator prints one branch for each property; here the type is data
and the branches are interpreted: `ObjectOf(new, props, keys)` is a struct with its
initial values, the properties its reader looks for and the keys its writer writes.
A text is a sequence of tokens: the characters of JSON, and words for runs of other
characters, so that a cut can fall anywhere. The cursor is a position; skip_value,
parse_string, the number parsers, the object and array loops advance it as the code
does, wrong turns included: a value of another type, an unknown key, a key that
comes twice.

**GeneratedApi.** An operation is `[produces, params, body]`; `Dispatch` is the
order of tests of a generated dispatch function: Accept, parameters, Content-Type,
the parser, the validator, the handler. `ViaFastRouter` and `ViaRouter` are the two
ways to it. The four tables are translations of the generated headers: the initial
values, the keys, the checks of the validator and the limits of the metadata are
separate entries, because they are printed by separate passes, and the properties
compare them.

**OpenApiLoader.** A schema of the text is the sequence of its keys. The passes are
those of load_from_string: components, bodies and the path, then the references are
resolved, allOf is merged and the operations are completed and checked. Schemas are
elements of a vector and refer to one another by index.

**DtoOrder, SchemaNames.** The loops of topological_sort_schemas and of
ensure_inline_schema_names, one turn to an action. A name is a sequence of parts, so
that `user_1` made with a number meets `user_1` of the document. unwrap_array and
cpp_type_from_schema are recursive functions on the schemas, which needs an
assumption, that no array is an item of itself: a C++ type of it would have no end.

## 3. The runs

| run | instance | shows |
|---|---|---|
| `RingMpmc` | 2 producers with 2 pushes each, 1 polling consumer, 2 slots, fairness | the slot protocol, exclusion and lifetime, refinement of FifoQueue, what is pushed is popped. Four pushes go round the two slots twice, so a slot is claimed by a thread that saw it a lap ago. |
| `RingSpsc` | one blocking thread on either side, 5 pushes, 2 slots | the switch from the MPMC to the SPSC path keeps the FIFO; a sleeper whose index has moved is about to be woken. Both sleep in the end, so deadlock is not checked. |
| `RingFastPathSwitch` | 2 producers with the default fast path | **violated**: see section 5. |
| `ReactorTasks` | two threads with 2 calls each, a stop, a queue of 2, fairness | no lost wakeup; an accepted task runs, unless the loop ends or the task is one of the last in the queue, as many as counts were dropped; a stop ends run(). The queue is full at times, and a pop fails behind a push that is not published. |
| `ReactorStranded` | two threads with a call each, nobody stops, a queue of 2, fairness | **violated**: see section 5. |
| `ReactorTimeouts` | a timer, a connection, a graceful stop, clock to 5, cache of 2, fairness | nothing to come is forgotten, timers fire, a graceful stop ends the loop whether the connection closes or the deadline forces it. |
| `FdTable` | 3 numbers, 2 connections with a timeout, a served one, a file of another thread; one inline close, one deferred, one flushed a turn; fairness | registrations, deferred closes, timers and events are about the file that has the number; the count of fds; an idle connection does not stay. |
| `HttpConnection` | five scripts of pipelined requests (plain, Content-Length, chunked, closing, cut short), responses longer than the send buffer, resets and ends; fairness | requests are answered in order, with their own bodies, once; no response to a dispatched request is lost; the wait is for the right event; every good request is answered. |
| `HttpSplitRequest` | a request in two segments | **violated**: see section 5. |
| `ServerLifecycle` | 3 reactors, with and without reuseport, 2 shutdowns, 2 faults, fairness | all reactors serve or none; the pool outlives the calls that go through it; a shutdown ends run(), with everything closed on the reactors whose loops have not failed; so does the failure to begin a thread. |
| `ServerSignal` | 2 reactors, no faults, a signal, fairness | **violated**: see section 5. |
| `Parts` | each part within its own bounds, below | MpscSafe, AllocationsSafe, ContainersSafe, ContainersImplement, RoutedRight, GeneratedRight, ApiKeepsItsContract, ReadRight (what the loader and the codecs read); of the wheel WheelRight, CancelsItsOwn, SleepIsBounded and KeepsTime: entries and handles stay paired, cancel hits its own timer, bounds from both sides on when a timer fires, the sleep estimate, refinement of CountdownTimers |

In `HttpConnection` a segment holds whole requests (`Splits = FALSE`) and requests
are shorter than `COMPACT_THRESHOLD`. This is not a convenience: outside of these
bounds AnsweredAsSent fails (section 5). A request that is never completed is in the
run, and is never answered.

`FdTable` has the thresholds of the code (2 inline, 2 to a flush, 2048 deferred) at
1, so that two connections that time out in one tick reach every branch; the
thread's budget may have been used before, as it is a static of the thread. Three
numbers for four files make sure that numbers are used again.

`ServerLifecycle` has three reactors so that there is one before, at and behind the
one that a call or a fault is about.

`RingMpmc` and `ReactorTasks` are small because they check liveness too; their
safety properties are proved for any number of threads (section 4).

The bounds of `Parts`:

| part | inputs | why they are enough |
|---|---|---|
| wheel | 3 slots, ticks of 2 ms, 2 timers with timeouts of 0, 6 (a whole revolution) and 9 (a second one), up to 5 ms between ticks | a reused entry, a cancelled timer in the middle of a visit, several slots at a tick, timers that are added while the wheel lags |
| mpsc | 2 producers of 2 values, no limit or a limit of 1 or 2, a count of 3 bits | a push that is exchanged but not linked, with another behind it and a pop in between; the wrap of the count below zero; two that race for the last place |
| io, ring | an io_buffer of 2 bytes with a threshold of 2, rings made with 0, 3 and 8, pieces of 1 to 5, 9 bytes in all | positions wrap, growth, compaction below and above the threshold, capacities that are rounded up |
| arena | 2 arenas, 3 blocks of 5 bytes, 2 to an arena, sizes and alignments of 1 and 4 | padding that just fits and just does not, the last block, a reset and a move of what is in use |
| headers | 2 maps, 2 known and 2 other names | set, remove, set again, clear, move |
| router | tables of 5 and of 3 routes, 3 methods, 7 uris | routes of equal and of different specificity in both orders, wrong methods, queries and fragments, empty segments, more segments than fit; middleware that answers without going on |
| api | for each operation of the four services a good request and those that differ from it in one or two places: 3125 requests | a place is a field, a parameter, a header, a key that is unknown, missing or there twice, a value on either side of each limit, a body that is cut off. Arrays have up to 21 items: the limits of 1024 and 10000 are not reached |
| codec | 460 documents for 5 types, with and without space: unknown and repeated keys, brackets, quotes and escapes in strings, values of wrong types, arrays in arrays; 2017 DTOs of the 60 types of the services | each branch of the parser and of skip_value; every type that the generator has written |
| openapi | 186 descriptions of up to three components with references forward, back and to one that a component refers back to, in properties and in allOf; allOf before and behind the limits it is merged with and the properties that make its schema first; two operations with and without ids | every order of the passes |
| dtos | all 2123 graphs of three schemas, objects that allOf has left with items among them | every shape that needs an order |
| names | 432 documents of an object with two properties whose natural names may be taken | every pass that names |

Each limit that is tried separates a mutant of the code from the code: for every
property of every passing run `PROJECT.json` names a plausible bug which that run
finds.

Deadlock is checked in the ring runs without sleepers; elsewhere the system may
stop: a loop returns, a connection closes, a document is read, a thread has nothing
more to say.

### Fairness

Every fairness condition says that a thread that has begun a call goes on with it,
which the operating system's scheduler provides; no producer, stopper or client is
obliged to begin. The reactor's loop is weakly fair because run() is a loop on a
thread of its own. In RingMpmc the consumer polls, as the reactor does. In
ReactorTimeouts time passes (strongly fair, since it may only pass where the loop
spends time). In FdTable time passes however often the loop is woken (strongly
fair). In HttpConnection the client takes what is sent to it: a client that never
reads leaves its connection waiting, as it does in the code. In ServerLifecycle
threads run and deadlines pass; connections need neither come nor finish, and nobody
need shut the server down. Parts has no fairness: its properties are of states and
steps.

### What the properties of generated code and of the loader except

Two properties hold the code to what the documents say of it but for exceptions,
which they state exactly, so that the run fails when an exception grows or shrinks:

- ApiKeepsItsContract: of the requests that meet the description those are refused
  with 400, and only those, whose body has an empty string or array in a required
  field, or leaves out an optional number whose minimum is above the 0 that stands
  for it (`RefusedAnyway`). What the handler gets is `Meaning` of the document,
  which takes numbers and literals in strings and passes over values of other types;
  it is within the limits but for an empty optional field and a required one that
  was given a value of another type.
- ReadRight of the codecs: the documents that are read, and for what, are those of
  `Reads` and `Meaning`, with the same leniency.
- ReadRight of the loader: a component has the properties, limits and requirements
  of all parts of its allOf, as the text describes them, but for a part that refers
  to a later component when allOf is the first key of its schema and no earlier
  component has a property that refers to that (`LeftOut`). The names that a part
  requires do not reach the properties of other parts, and components that are
  themselves a `$ref` are left aside.

## 4. What is proved

TLAPS checks the following for every set of threads, every capacity and every bound
that the named assumptions allow.

| theorem | module | statement |
|---|---|---|
| `TypeCorrect` | RingBufferQueueProofs | `Spec => []TypeOK`, both paths |
| `ProtocolCorrect` | RingBufferQueueProofs | with MPMC only: `SlotProtocol` is invariant |
| `SlotExclusionCorrect` | RingBufferQueueProofs | no two threads use one slot at a time |
| `SlotLifetimeCorrect` | RingBufferQueueProofs | a value is constructed only where none is alive and taken only where one is |
| `FifoCorrect` | RingBufferQueueProofs | with MPMC only: the queue implements FifoQueue |
| `NoMissedAdvanceCorrect` | RingBufferQueueProofs | between two threads: a sleeper whose index has moved is about to be woken |
| `PairExclusionCorrect` | RingBufferQueueProofs | between two threads, on both paths: SlotExclusion and SlotLifetime |
| `PairFifoCorrect` | RingBufferQueueProofs | between two threads, on both paths: the queue implements FifoQueue |
| `TypeCorrect` | ReactorTasksProofs | `Spec => []TypeOK`: the count never falls below zero |
| `WakeupCorrect` | ReactorTasksProofs | `WakeupProtocol` is invariant |
| `NoLostWakeupCorrect` | ReactorTasksProofs | the loop never sleeps without a timeout on a task or a stop that nobody will signal |
| `TimeoutsCorrect` | ReactorTimeoutsProofs | `Spec => []TimeoutsRight`: the loop never sleeps without a timeout on a timer, a connection or a stop |
| `DeferredCorrect` | FdTableProofs | `Spec => []DeferredIsHeld`: what flush_deferred_closes() will close is the file that was meant |
| `OwnEventsCorrect` | FdTableProofs | `Spec => []OwnEvents`: a callback is given no event but of its own file |
| `TableCorrect` | FdTableProofs | `Spec => []TableRight`: registrations, timers and the count of fds agree with the files of the process |
| `HeldCorrect` | WheelTimerProofs | `Spec => [](TypeOK /\ EntriesHeld)`: handles, entries, free list and count of the wheel agree |
| `CancelsCorrect` | WheelTimerProofs | while ids last: `[]CancelsItsOwn`, an old id cancels nobody's timer |
| `WheelCorrect` | WheelTimerProofs | while ids last: `[]WheelRight`, no timer waits beyond its countdown |
| `TimeKept` | WheelTimerProofs | while ids last: `KeepsTime`, the wheel implements CountdownTimers, and fires nothing earlier than its timeout less the lag at which it was added |
| `SleepCorrect` | WheelTimerProofs | `Spec => []SleepIsBounded`: the reactor is not told to sleep past a timer |
| `BuffersCorrect` | HttpConnectionProofs | `Spec => []BuffersRight`: positions of parser and buffers stay in order, and the client receives the responses to the requests that were dispatched, as they were made, each once, all of them unless it resets the connection, and nothing else |
| `LifecycleCorrect` | ServerLifecycleProofs | `Spec => []LifecycleSafe`: the pool outlives the calls of the callback by on_start and handlers; when run() returns 0, each loop has failed or has ended with nothing open |
| `AllOrNothingCorrect` | ServerLifecycleProofs | `Spec => []AllOrNothing`: all reactors serve or none |
| `MpscFifo` | LibraryProofs | the MPSC queue implements FifoQueue |
| `MpscCorrect` | LibraryProofs | `LibrarySpec => []MpscSafe`: no use after free, the limit is kept, the count settles |
| `AllocationsCorrect` | LibraryProofs | `LibrarySpec => []AllocationsSafe`: allocations are apart, aligned and inside a block the arena has |
| `ContainersCorrect` | LibraryProofs | `LibrarySpec => []ContainersSafe`: the arena's counters, the positions of io_buffer, what peek() shows, and the touched list and the sizes of headers_map |
| `RouterCorrect` | LibraryProofs | `LibrarySpec => []RoutedRight`: the most specific route that matches, the first of its kind, after its middleware in order; 404 and 405 only where there is none |
| `GeneratedCorrect` | LibraryProofs | `LibrarySpec => []GeneratedRight`: no type is written twice, all are in the end, and one comes after those it uses unless something it depends on lies on a cycle; no two schemas have one name, a name of the document stays, and in the end each has one |
| `ContainersRefine` | LibraryProofs | `LibrarySpec => ContainersImplement`: FifoQueue, ByteStream (twice) and HeaderFields are implemented |

**The queue.** The assumptions are those of the module (disjoint threads, a capacity
above zero) and, where said, `MpmcOnly`: the fast path is off and there are at least
two slots. Exclusion is not inductive: it follows from what a slot's sequence number
says about tickets. `SlotProtocol` states that: every ticket below an index has been
claimed by exactly one thread that is still at it, or is done; a slot of capacity N
serves tickets n and n + N one after the other, and its number tells which stage it
is at. From it, a thread that has seen `Ready` and won the CAS is the only one with
that ticket. With one slot the numbers of *full* and *empty for the next lap* are
the same, and SlotLifetime is false: hence the assumption. FifoCorrect maps the
state to FifoQueue (a push counts from its claim, a pop from its transfer) and shows
that every step is a step or a stutter.

**The queue between two threads.** `OneEach` says that there is one producer and one
consumer, the use the SPSC path is made for; with a second producer the switch of
paths loses values (section 5), and with more sleepers a notification that is
pending swallows the next. `PairProtocol` counts the tickets that each of the two
has published, whichever path it is on: the MPMC path moves its index before it uses
the slot (`Lead` is 1), the SPSC path after (`Lead` is -1), and the counts make one
protocol of the two. From it, a slot found ready has room, or a value, until the
thread that found it has used it, and the two are in different slots.
PairFifoCorrect is a refinement in which an MPMC operation counts from its claim and
an SPSC operation from its transfer. NoMissedAdvance rests on `Sleepers`: a sleeper
is counted among the waiters, a pending notification is that of the thread that
moved the index, and it has not got past the point where it wakes.

**The wakeup.** NoLostWakeup needs to know, of a reactor that is asleep, why nothing
is left: `WakeupProtocol` adds that counts never run ahead of the queue, that inside
the loop needs_wakeup_ means that a signal is there or coming, that a sleeping
reactor's queue is all counted or about to be, and that a stop is followed by a
write. The assumption is `SchedulerAssumption`, and the queue is on its MPMC path. A
task whose count a failed pop has dropped is neither counted nor announced, and the
invariant does not claim it.

**The timeouts.** A loop that sleeps without a timeout must have nothing to wait
for. `Announced` says where a timer can be that the heap does not show yet: in the
queue of pending timers with a wakeup on its way. The rest of the invariant is that
an endless sleep found neither a timer in the heap nor a connection with a timeout,
and that a graceful flag set after that comes with a wakeup. The assumption is
`TimeoutAssumption`.

**The fds.** DeferredIsHeld and OwnEvents are about numbers that are used again, so
each needs to know who holds the file behind a number while the table still speaks
of it. `Owned` says that whatever is registered, about to be registered, deferred or
polled is the reactor's and open; `Started` that a number has at most one timer, the
one its entry names; `Reported` that the events of a batch are of different numbers,
each still of the file it was reported for. No other thread can then come by a
number that the reactor still remembers. TableCorrect adds to this that what is
registered is polled (`Watched`), that timers and registrations with a timeout are
paired, by ids of their own (`Paired`), and that the count of fds runs ahead of what
is there only once a forced shutdown has closed fds without counting them
(`Counted`); that the wheel can give a new id to every timer is a lemma, FreshIds.

**The wheel timer.** EntriesHeld counts the places of an entry in the slots and in
what a visit still has to look at. `Inv` says it without counting, so that a step
can be followed: no two handles are of one entry, and the entries with a handle are
the active ones (`Filed`); a handle is of the generation its entry has now, in the
slot that the entry names (`Labelled`); the free list holds the others, once
(`Spare`). CancelsItsOwn adds that no two timers have had the same id (`IdsApart`)
and that a timer that is set has its entry (`LivesHeld`). It is true as long as
generations do not come round: `IdsLast` says that fewer timers are added than an
index has generations, of which there are 2^32; beyond that an id that was kept
could cancel another timer. `Elapsed` is why no timer is late: what a live timer has
waited, by the time of the wheel, and what remains to it in slots and rounds add up
to its countdown, before a visit and after it, and while the wheel is in the middle
of a slot; that none is earlier by the clock than its lag when it was added follows
from it. The refinement takes the remaining ticks of an entry for those of its
timer: a tick of the service is the advance of a slot, at which nothing is due.
SleepIsBounded needs `Inv` only: the estimate is a minimum over slots, and every
live entry is in one.

**The connection.** BuffersRight is about any scripts, segments, responses and
buffer sizes, with segments that end within a request and a client that resets or
ends the connection anywhere. `Typed` gives the buffers and positions their types; a
line that the parser takes ends in the buffer behind what is parsed (`LineIsThere`).
`InOrder` adds to ResponsesKept that nothing is left to write while a request is
read or parsed: that is why a connection which is closed there owes the client no
response to a request that was dispatched. What the client has, the socket holds and
the buffer keeps is one sequence, which Receive and Write cut in other places and
Dispatch makes longer. FlattenSeq is a recursive function of the library, so its
value is shown to exist (`FlattenIs`) before it is used; `FlattenOneMore` is what
one more response adds. The assumption says what the units of a script look like,
not that they form requests.

**The lifecycle.** `Ordered` ties where run() is to the threads that exist;
`CallUnderWay` says that a call of trigger_shutdown is made by on_start or by a loop
that goes on, with the callback set; `Opened` that with reuseport the listeners made
so far are open until their loops end; `EndsGracefully` that as long as run() has
not given up, a loop that runs has its flag set and one that has ended, not by a
failure of its own, has done so by a graceful stop, without fds. AllOrNothing and
LifecycleSafe follow from them.

**The MPSC queue.** `Linked` says that the list from the consumer's node to the head
is whole but for pushes between their exchange and their link, and `Counters` by how
much the counter differs from the list, modulo its width, and that reservations stay
within the limit. MpscFifo counts a push from its exchange; `Allowed` keeps it
within the bound on pushes.

**The arena.** `Placed` is AllocationsSafe and the types: an allocation ends at or
before what its block has used, the next one begins there or behind. It is inductive
as it stands. `Tally` counts bytes instead of adding up lengths: the bytes of the
allocations in use are as many as `bytes_allocated_`, those of the blocks as many as
`total_capacity_`. One more allocation adds bytes of its own because it is apart
from the others, and a move hands over a set and leaves the other arena none.

**The buffers.** `Storage(b, cap)` says that the storage of an io_buffer has a size
and that its positions are in order and within it; `IoRight` adds the bound on what
is written. What the refinement needs of each operation is a lemma about
`Unread(b)`, the bytes between the positions: compaction, growth and reserve keep it
byte by byte, append puts the piece behind it. `RingRight` says of the circular
buffer that head_ is not beyond tail_ and that what lies between them fits. The
positions only grow (2^64 bytes are beyond every bound), and the code masks them
where a byte is addressed; the lemmas `RemainderIs`, `PlacesApart` and `PlaceAfter`
are what that comes to: within one capacity no two positions share a place, so a
write disturbs none of the bytes that are still unread, wherever it wraps.

**The header fields.** `HeadersRight` says of each map that the touched list has no
field twice, that the flags are those of the fields in it and every entry with a
value among them, that known_size_ counts the entries with a value, and that the
list of the other names has each name once. set() keeps it because a field that is
not flagged is not in the list; clear() needs it, since it empties what is in the
list and nothing else. `ValueIn` reads a map as the function from names to values
that HeaderFields is about; `LookUp` is the value of the entry of a name, which is
the only one.

**The router.** `ScanIs` and `NamesAre` show that the two recursive functions, the
scan for the best route and the split of a path, have a value: a function with their
equation exists over every prefix, by the least prefix over which none does.
`BestIs` is then the invariant of the scan at its end: what it holds is the first of
the matching routes with the most literals. The score orders routes that match the
same path as their literals do, because they have equally many segments (`ScoreIs`).
That a path longer than the limit is refused agrees with the reference because no
pattern is longer than the limit (`RouterAssumption`; from_literal() refuses to
build one). `RouterRight` adds to this where in the chain the request is: the
middleware entered so far are the first ones, in order, each once, and an answer
names the one that gave it.

**The order of the types.** `InOrderIs` and `UnwrapIs` show that what DtoOrder
chooses exists: a finite set of numbers can be listed, and the two recursive
functions have a value because a rank falls from an array to its items.
`UsesAreDeps` and `DepsAreUses` compare the two readings of the code: what a
definition uses, by the C++ text that is printed, is what collect_schema_deps
collects for the sort, apart from the schema itself. `Kahn` is the invariant of the
sort for any dependencies: the queue has no schema twice, and has one exactly when
all of its dependencies have been taken from it; they stand before it in the queue;
in_degree counts the dependencies that have not been taken yet; and the result
begins with what has been taken. WriteCycles puts the schemas that are left behind
them. Each of those depends on another of them, so some schema that it reaches
depends on itself (`DescentCycles`: otherwise what can be reached would become
smaller for ever), and the order is promised only to those that reach none.
`DtosRight` is Kahn for the dependencies of the document.

**The names of the types.** `NamesApart` says that the names which are given are
distinct and all in the set of used ones, and that a name of the document which is
not generic is untouched. `NamesKept` adds what the loops have passed, and a count:
the names taken and the schemas without one are together at most as many as the
schemas, plus one for each schema that the last pass has seen. So fewer names are
taken than there are numbers to try, and unique_name finds one that is free
(`UniqueIsFree`: the numbered names are distinct, and a set of MaxIndex names does
not fit into a smaller one). The assumption is that the components of a document
have names of their own, being keys of one object, and that numerals differ;
MaxIndex, twice the number of schemas, bounds the model only.

**The parts of the library together.** `LibraryRight` gives each part its invariant
while it is the subject; a step leaves the subject alone and is a step of it
(`SubjectMoves`). The assumption is `LibraryAssumption`, which TLC evaluates on the
run Parts: sizes, lengths and limits are natural numbers, alignments are not zero,
the producers and the known fields are finite sets, a null is no value, routes and
uris are sequences of segments; of the documents it says what the two paragraphs
above name (`DtoAssumption`, `SchemaNamesAssumption`). Every behaviour of
`Parts!Spec` is one of LibrarySpec, as its other steps leave the variables of these
parts alone.

Only model-checked: all liveness (out of this prover's reach); the SPSC path of the
queue with more than two threads, where it is wrong; that a connection answers the
requests the client meant, and does not keep one it could answer; in Parts ReadRight
and ApiKeepsItsContract, which are about what is recursive over text: Json,
JsonCodec, GeneratedApi, OpenApiLoader (what a recursive definition computes for
every input needs induction over data, which is out of reach too).

## 5. Where code and expectation part

Each of these has a run that shows it (`expect: violation`) and an entry in
"findings".

- `RingFastPathSwitch`: two producers on the default queue lose a value when the
  second arrives while the first is on the SPSC path.
- `ReactorStranded`: two threads that schedule at once can leave a task in the queue
  until somebody schedules again: process_tasks (`src/epoll_reactor.cpp:436`) takes
  the whole count and forgets the rest of it when a pop fails behind a push that is
  claimed and not published. `test_reactor.cpp:471` expects all tasks.
- `HttpSplitRequest`: a request in two segments is fed to the parser twice over.
- `ServerSignal`: the handler that server::run installs for SIGINT and SIGTERM sets
  a flag that nobody looks at while run() waits for the pool.

Met while modelling, without a run of their own. Most are left in the models as they
are in the code.

*Queues and the reactor.*
- refresh_fd_timeout does not postpone: an inactivity in nanoseconds is compared
  with an interval in milliseconds (`src/epoll_reactor.cpp:565`; `CONCEPTS.md:380`).
- A ring of capacity 1 overwrites its value; pop_wait samples the index after its
  last attempt and can sleep beside a value; a second notification is dropped while
  the first is pending; push_batch checks its room against `tail_` only; pop_batch
  can spin; size() can wrap, which only weighs the choice of a reactor.
- A timer that is added while the wheel lags fires early, by as much as it lagged:
  add() counts the ticks from the last that the wheel has advanced
  (`wheel_timer.hpp:48`), not from now. NotEarly bounds it by that lag.
- A timer added while a longer timeout is cached, and a graceful deadline, can be 5
  ms late. graceful_stop() sets its flag before its deadline
  (`src/epoll_reactor.cpp:183`), so that a loop in between finds a deadline in the
  past and closes everything at once (`docs/HTTP_SERVER.md:405`).
- A forced shutdown closes the fd of a served connection and then destroys its
  callback, whose socket closes the number again: a file that another thread has
  opened in between is closed. Deferred closes are no reason to wake up, and what is
  deferred beyond the last flush when run() returns is never closed. An fd that its
  user closes without unregistering it leaves a callback and a timer behind, which
  then act on the next file of that number.

*Server and connection.*
- A request above COMPACT_THRESHOLD is not consumed and is dispatched again:
  compact_buffer sets parse_pos_ to 0, and bytes_parsed() with it
  (`src/http_server.cpp:178`; `docs/HTTP_SERVER.md:368`). The response to a bad
  request is put into the write buffer and never sent (`src/http_server.cpp:145`;
  `docs/HTTP_SERVER.md:395` promises a 400): ResponsesKept says that it is not. The
  header count of a pipelined request counts the lines of those behind it.
  tcp_socket's write tests an errno that a write which succeeded has not set.
- A stop() before run() is forgotten. When run() returns 1 the listeners already
  made for earlier reactors stay open; without reuseport the listener object is
  destroyed before the pool starts (`src/http_server.cpp:338-352`); a loop that
  fails leaves its listener behind; the shutdown callback refers to the pool of a
  run() that has returned. `docs/HTTP_SERVER.md:178` says that run() blocks until a
  signal.
- An arena returns null past MAX_BLOCKS, which not every caller tests. A header
  value above 65535 bytes is cut by the table of known fields, and ci_equal takes
  `^` and `~` for one character. The fast router does not say Allow with its 405;
  find_content_type matches prefixes and ignores `q=0`.

*Generated code.*
- A member of a wrong type is passed over, and a number or a literal in a string is
  taken for its value, where the generator says that a wrong type is an error
  (`json_generator.cpp:959`); required numbers have no initial value
  (`dto_generator.cpp:320`), and an enum of an unknown word is accepted and left as
  it was. A fraction where an integer is expected ends the object early. Integers of
  more than 18 digits wrap.
- Strings are escaped when written and not unescaped when read: the echo and text
  services escape twice, reverse escapes and count them. A repeated key appends to
  an array. An array loop makes no progress at a stray `}`: `{"values":[1}` does not
  end. An alias that may be null is written as null and cannot be read back. The
  last of a list of integers is written into 16 bytes (`serde.hpp:675`).
- An optional field with a minimum above 0 is refused when it is absent
  (RegisterRequest.age, EchoRequest.repeat; `README.md:610`); an empty string passes
  minLength in an optional field and is refused as missing in a required one without
  minLength; limits of array items and of query parameters are not tested; an
  integer parameter may have a tail (`5x`). An operation without operationId is
  counted by one of the two passes of router_generator only. For an array that may
  be null the validator returns early (`validator_generator.cpp:519`) and the
  serializer prints a `break` outside of a loop (`json_generator.cpp:738`).

*OpenAPI.*
- A `$ref` to a known entry of components/parameters makes load_from_string loop for
  ever: parse_parameter_object returns at `src/openapi_loader.cpp:843` without
  consuming the brace. It is a hazard without a property, as parameters are not
  modelled.
- Components that are aliases stay unresolved, and so does a reference forward
  inside an allOf that is the first key of its schema: the part is in the vector
  before the schema, so that pass 2 has marked it as visited when it gets there
  (`src/openapi_loader.cpp:122`, `:214`; `docs/OPENAPI.md:34`), and nothing of it is
  merged. What a part requires of the properties of another part is lost; a cycle of
  allOf recurses without end; the schema of additionalProperties is not read;
  parameters of a path that follow its operations are ignored; above 10000 schemas
  the vector moves under its pointers.

## 6. Not modelled, and what is left

Not modelled, and why:

- **io_uring reactor.** README.md:877 lists it as still to be done. It promises what
  the epoll reactor promises, and its pass over completions advances the queue by
  the index of the head (`src/io_uring_reactor.cpp:402`), so that old completions
  are walked again; registrations that fail, and polls that are removed, leave state
  behind. A model now would be one of that draft.
- **Batches and size() of the ring.** Nothing in the repository calls the batches;
  size() only weighs a choice. They are hazards with a note.
- **Parameters and security of OpenAPI, validation and codecs of text.** They are
  loops over characters without state.
- **The handlers of the examples**, with the item store of benchmark_api: users of
  the library, behind `handler` in GeneratedApi.
- **accept_connection; errors of sockets other than EAGAIN, end and reset; moves of
  scoped_fd and fd_watch.** FdTable has their registration and release.
- **Metrics, cpu_info, system_limits.** Nothing depends on them.
- **Weak memory.** One access to shared memory is one action, in one order.

Left to model, in this order: the batches of the ring; the parameters and security
requirements of the loader; the item store with its handlers on several reactors;
the io_uring reactor once it is finished.

Left to prove: AnsweredAsSent and WaitsForTheRightThing. They hold only while
segments end with a request and requests are shorter than the compaction threshold,
so that a theorem would need these, and the grammar of a request, as assumptions on
the scripts and an invariant of the parser over it.

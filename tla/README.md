# A TLA+ model of kunlib

kunlib is a C++ library for small network services: a thread pool, a pool of
API objects, a Redis connection pool, a timer, an event-loop server with its
own framing (`evb`), HTTP drivers, a database layer, Kafka clients and helpers.
It comes without tests and with almost no documentation, so everything here is
translated from the code under `src/`.

This directory holds TLA+ modules for the parts that carry the library's own
logic, the TLC configurations that check them on small instances, and proofs
that TLAPS checks for every value of the constants.

    tlc -workers 2 -config Executor_Safety.cfg MCExecutorService.tla
    tlapm ExecutorServiceProofs.tla

## 1. Inventory

| component | state | operations | hard behaviour | what makes it correct | status |
|---|---|---|---|---|---|
| thread pool (`user/threadpool`) | `queue_`, `funcQueue_`, workers, `lock_`, `cond_` | `execute` (two overloads), `run` | wakeups, overflow by dropping and refusing, two queues with priority | no task lost or run twice, no sleeping worker beside work, bounded memory | modelled |
| API object pool (`include/apipool`) | `apis_`, `lock_`, `bufferFull_` | `init`, `borrowBufferedApi`, `offerBufferedApi`, `ApiWrapper` | wakeups on an "empty" test, barging | exclusive loans, no borrower asleep beside an idle object | modelled |
| Redis connection (`predis/redis_control`, `redis_cmd`) | hiredis context, `last_access_` | `connect`, `CheckValid`, the commands, `Timeout` | reconnect in the middle of a session, errors that are never left | commands run authenticated and in `db_` | modelled |
| Redis pool (`predis/redis_pool`) | `contextPool_`, `activeSize_`, `reepInx_`, reaper thread | `Init`, `GetControl`, `ReturnControl`, `Reep`, the guard | partial start, double use of a guard, reaping while others lend | bounded, exactly counted, shrinks when quiet | modelled |
| timer (`user/timer`) | heap `tasks_`, clock, timer thread | `addFunc`, `run`, `runThd` | clock read outside the lock, tasks outside the heap while they run, sleep against new tasks | never early, exact number of calls, never overslept, all called | modelled (background timer) |
| event-loop pool (`evb/hpvPool`, `hpvCore`) | threads, `taskCount_`, socket pairs | construction, `execute`, `readCmd`, close | unlocked counters, thread start before its descriptor is set, full pipes | one owner per connection, counts, balance, commands received | modelled |
| connection (`evb/evHpv`) and its buffer (`evb/hds`) | `status`, `bodySize`, `hdsBuf`, `needClose` | callbacks for data, EOF, time-outs, connect, close; `makeRoom` | partial frames, lengths nobody checks, one frame per callback, coalesced events, growth rule | frames in order and complete, room for each, the stream's end closes and takes no frame of a waiting peer with it | modelled (`hpv_send` left out) |
| protocol, parser (`evb/parser`) | `userProtocol_`, `sendBuf_` | `reg`, `run`, `sendPack` | registered again by every connection, one send buffer for all threads, modes and lengths nobody checks or counted down by hand | frames routed, packets whole, fields read as they were written | modelled (`read32` left out) |
| heartbeat (`evb/heart`) | `hearts_` | `updateHeartBeat`, `timeout` | entries that outlive their connection | misses counted per connection | modelled |
| database layer (`user/db`) | libzdb pool, statement vectors | `query`, `update`, setters, guard | exceptions half-way, exhausted pool, types and values kept apart | connection returned, no partial result, parameters as set last | modelled (`PoolFree`, `RowMapper` readers left out) |
| Kafka consumer (`pkafka/kafka_consumer`) | threads, `close_`, handles | `Init`, `StartAll`, `ConsumerThd`, `stop`, destructor | `Init` without a topic, partial start, shutdown against running threads | handles alive while used, all partitions stopped | modelled |
| Kafka producer (`pkafka/kafka_producer`) | `topicMap`, `lock` | `Init`, `Send` | clock read before the lock, handles used after it, eviction by age | a handle in use stays the cached one | modelled (`Send` to the fixed topic left out) |
| configuration (`user/config`) | line buffer, section map | constructor, `processLine`, `get` | a reused line buffer, its end, repeated sections and keys | `get` answers what the file says | modelled |
| data sources, resources (`include/datasource`, `user/resource`) | the two pools | `DataSource`, `RedisDataSource`, `Resource`, `PoolInit` | one stream for all fields, missing and unreadable fields, results nobody looks at | pools with the parameters of the file | modelled |
| HTTP drivers (`user/evdrv`) | loops, listening socket | `startServer`, `start`, `process` | uninitialised port, thread count 0, a bind that fails half-way | serves on the declared port with the declared threads | start modelled |
| base64 (`user/pbase64`) | none | `encode`, `decode` | groups that are not full, reused results | decode inverts encode | modelled |
| election, cpost, jsonUtil | none to speak of | thin layers over ZooKeeper, libcurl, jsoncpp | - | - | not modelled (section 6) |
| `include/bson`, `include/mongoc` | - | - | - | - | vendored, left aside |

The parts meet in few places: `Resource` creates the Redis and database pools
from a `Config`; `HpvCore` creates an `HpvPool` whose threads run the
connection callbacks, each connection owning a `Timer` without a thread; the
rest is used by applications side by side.  The pools are passive objects
called by any thread; the timer, the executor, the reaper and the event loops
bring their own threads.  `PROJECT.json` lists the hazards line by line.

## 2. Modules

Names of variables and actions are the code's where TLA+ allows.  Code that
holds a lock from end to end is one action; code that reads or writes shared
data without the lock is one action per access.  Operators marked "Mutant of"
are faulty versions of the definition after them; no specification uses them.
They record what each property is able to detect.

### TaskPool, ExecutorService

`ExecutorService` has one action for each of `execute(USER_FUNC)`
(`ExecuteFunc`), `execute(Runnable)` accepting and refusing (`AcceptRunnable`,
`RejectRunnable`), and for a worker's round: `Wait`, `TakeRunnable`,
`TakeFunc`, `Finish`.  `NotifyOne` moves one blocked worker, any of them, back
to the lock; `SpuriousWakeup` does so without a notification.  Dropped and
refused tasks, which the code forgets, are kept in history variables.

`TaskPool` is what a caller may rely on: the life of a task, start order per
kind, dropping only from an overfull line, capacity, and that free capacity is
used.  `ImplementsTaskPool` and `ImplementsFairTaskPool` are that promise under
the mapping at the end of `ExecutorService`.

### ApiBuffer

Borrowers, the list and `ApiWrapper`'s reference.  A woken borrower returns to
the lock like a new one, so barging is possible.  `NotifiesOnOffer` is the
code's test before `notify_one`.  `made` is the set of objects that `init`
pushed, any part of those the application could give.

### RedisControl, RedisPool

`RedisControl` describes a connection as a record (link, session, age) and each
call by the set of records it may leave; the server and the network may fail
any call.  `RedisPool` has the lists, the counter, the guards and the reaper.
`GetControl` pops invalid connections, lends the first valid one or opens a new
one, all under `lock_` and therefore in one action.  `Init` stands for
`RedisPool::Init` with each of its outcomes: any number of connections left
out, or a return before the reaper was started.  `doubled` remembers that a
guard asked for a second connection while it had one.

### Timer

The clock is a variable; callers stamp a task (`AddFunc`) and push it (`Push`)
in two steps, the thread reads the clock (`ReadClock`) and pops (`Collect`) in
two steps, runs, adds back and sleeps.  The heap is a set whose smallest stamps
come first, in any order among equals, as with `std::pop_heap`.  `Task` is what
a heap element holds; `MinInt` is the least `int`, below which no period and no
stamp of the code can be.

### HpvPool

The constructor race (`Spawn`, `Run`, `Construct`), a socket pair that could not
be made (`"unpaired"`: the constructor returns and nobody notices, every send
to the thread fails), the scan and the two halves of each update of `taskCount_`, the socket pair with a capacity, and
the life of a connection up to its close, which again updates `taskCount_` in
two halves.  A dispatcher keeps what it has read so far (`next`, `thd`, `min`,
`read`), which is what makes its choice stale.  `raced` remembers the threads for which an update was
overwritten.

### HpvConn

One connection on its event loop: the peer's frames, the bytes that have
arrived, libevent's deferred callbacks as a mask of pending events that are
delivered together, and the three callbacks of `evHpv.cpp`.  `ReadCb` is
`hpv_conn_readcb` with both of its early returns, `OnEof` and `OnTimeout` are
the branches of `hpv_error_cb`, `MakeRoom` is `hdb::makeRoom` with `BigBuffer`
in place of a megabyte.  A frame is the length that its head gives, any int from which 4
can be taken, since the reader looks at nothing else; one with a length below 4
is its 4 bytes.  The body given to the parser is the interval of stream positions it
was copied from, so that a wrong boundary shows; `ends` says where each frame
ends in the stream.  `Window` is how many frames the peer sends before it waits
for an answer.

`undefined` is where C++ says nothing more, and the model ends there: a negative
body, which passes the code's comparison and reaches `makeRoom` as a huge
unsigned number, a body for which `realloc` has no room (`Overrun`; `MaxRoom` is
what it has), and EOF and TIMEOUT in one mask, where the code goes on with the
connection it has just deleted (`OnEof`).

`needClose` is looked at only at a time-out.  `NeedCloseCloses` says no more than
the code does: the connection is closed unless the peer sends another frame.  A
peer that keeps sending is never closed, and no property says otherwise.

### HpvParser, HeartBeat

`HpvParser` has the registration loop of `doConnectWork`, the routing of `run`
(a frame shorter than its header changes nothing and has no action) and the
steps of `sendPack` on the one `sendBuf_` of a protocol object, one action per
group of writes, because nothing locks it.  A byte is abstracted to the thread
that wrote it.  The mode of a frame is any short, the table has `Slots` places,
and a body may be longer than the `Room` of the buffer: when the code then reads
or writes behind its arrays, `wild` may be raised, and the model ends; or nothing
visible happens, and the model goes on.  `HeartBeat` has both operations and the connections that come
and go at an address; `quiet` counts the misses of the connection itself.

### FieldCodec

One message is written field by field, sent with a length that may be too
short, and read with the same calls, all strings into one variable.  `pos` and
`len` are the reader's cursor and what it believes is left, which
`readString` lowers in two places (`LeftAfter`).  Bytes, sign and the 16-bit
width are kept; each field is remembered with the place where it ends.  `ReadBack` compares with what was written and includes what the code
does at its edges: an empty string leaves the variable as it was, a 0 in a
string ends the copy.

### KafkaConsumer, KafkaProducer

`KafkaConsumer` has the owner's calls of `Init`, `StartAll` and `stop` step by
step, the destructor (`Delete`) with and without `stop`, a thread per partition,
and the two library handles as null, live or destroyed.  `Init` succeeds also
when `rd_kafka_topic_new` gave no topic; `StartAll` then ends the process in the
library (`"dead"`), as the destructor does with threads that were not joined.

`KafkaProducer` has threads that send by topic name.  A `Send` reads the clock
(`Enter`), then takes the lock (`Hit` or `Miss`, with the eviction inside), then
uses its handle outside the lock (`Produce`).  Eviction passes the memory that
`it`, the end of the map, points to; the process ends there or goes on, both
are modelled (`undefined`).

### Config, HttpServer, Resource, Startup

`Config` reads a file that is chosen line by line.  A line is what its text
means, together with its length: `line[]` is reused, so that a last line
without a newline ends where an earlier line happened to end, and may run into
its bytes (`Overrun`).  `keyMap` is null or wild until the first header;
`undefined` is what follows from the wild one.  `Insert` is `std::map::insert`,
which keeps the first value, a header replaces its section.

`HttpServer` EXTENDS it with the start of the two drivers, `Resource` with the
data sources and the two pools, and `Startup` composes them: an application
builds its `Config`, then starts the server and sets up the pools from it, in
any order.  `NumberOr` is how the server reads numbers: no text leaves the
variable as it was, for `port` uninitialised.  `serving` counts the loops that got
the socket: `evhttp_accept_socket` may fail for any but the first.

`DataSource` reads its eight fields one after the other through one stringstream,
and `DataSources` is that chain: `Reset` is `clear()` with `str("")`, `Into` the
insertion of a field's text, `Extract` the reading, which fails or stops at the
end of the text or before it, and leaves the stream in that state.  `Word` is the
first word of a text, all that `>>` reads of a password.  `PoolInit` puts words
into a URL without escapes and cuts it at 126 bytes: when one is `Unsafe` there,
libzdb may understand the URL otherwise (`Urls`).  `Outcomes` are its return
values; `"refused"` is the return out of TRY that leaves libzdb's exception frame
on the stack.  The reaper is set up with `reapSec`.

### Base64

`encode` and `decode` as operators, applied any number of times to results that
are used again (`Encode`, `Decode`); `RoundTrip` compares `encode` with the
definition of RFC 4648 (`Standard`).  `Piece` is a turn of the loop of
`encode()`, `Bytes` one of `decode()`'s, which leaves its loop at the first
padded group (`LastGroup`).  The operators are those that the theorem is about.

### PreparedStmt, SqlTemplate

`PreparedStmt` has the setters and getters as operators on a record of
`types_` and the value maps.  `SqlTemplate` has callers that build a statement
and run it: the guard (`Borrow`, `BorrowNothing`, `Leave`), the two TRY blocks
(`Execute`, `Row`, `End`) and their CATCH blocks (`Catch`, at any point).
libzdb is a set of connections of which some may be lent.  `sets` records the
setter calls and is what `BoundAsSet` compares the bound parameters with.

### MC modules

`MCEvbApp`, `MCKafka` and `MCWebApp` each check several modules that share no
state: a behaviour has steps of one of them only, chosen at the start.

## 3. Runs

| run | instance | shows |
|---|---|---|
| executor_safety | 3 workers, 4 Runnables, 4 functions, `queueSize_` 2 | no lost wakeup, bounds, one place per task, each step is a `TaskPool` step. The fourth waiting task overflows either queue. |
| executor_live | 2 workers, 3 Runnables, 2 functions, `queueSize_` 0 | `TaskPool` with its fairness |
| api | 0 to 3 objects, 4 borrowers | exclusive loans; with one object no stranded borrower |
| api_stranded | 0 to 2 objects, 4 borrowers | **violation**: a borrower sleeps beside an idle object |
| redis | sizes 1 and 3, 3 guards used repeatedly, password | bound, exact count unless a guard asked twice, reaper reads only written ages, a quiet pool shrinks |
| redis_database | 1 connection, no password | **violation**: command outside `db_` after a reconnect |
| timer | 2 jobs, periods 0-2, counts 0-2, 4 clock values | exact calls, never early, never overslept, every task called |
| hpv | 2 threads with or without a socket pair, 2 dispatchers, 4 connections, pipe of 1 | owner, counts, balance, sent commands are received |
| hpvconn | 3 frames of lengths 3, 6 and 7, 2 in flight, growth changes at 3, room for 5 bytes | frames in order, room or a length that makes no sense, the end takes at most one frame with it, the end and `needClose` close, frames are handled |
| evb_app | 2 addresses, 4 misses; 2 threads, 2 protocols, modes -1 to 2 in a table of 2, bodies of 0 to 2 bytes in a buffer of 1; messages of 4 fields of 2 to 5 bytes in a buffer of 8 | misses of the connection itself, packets whole, frames routed, fields read back |
| kafka | 3 partitions, with a topic and without; 3 senders, 2 topics, a cache of 1 | live handles, all stopped by `stop` or the destructor, `stop` returns; handles in use are cached |
| web_app | 2 callers, 1 connection, 2 setter calls, 2 positions, 2 rows; files of 4 lines, a line buffer of 3 bytes, 2 server threads, pool sizes in and out of order, a password unsafe in a URL; 2 texts of up to 4 bytes | one user, result agrees with the answer, parameters as set last, connections come back; `get` answers the file, server and pools start as declared; base64 inverts |

Type invariants.  Those of `ExecutorService`, `ApiBuffer`, `RedisPool`,
`HeartBeat`, `HpvParser`, `KafkaConsumer` and `KafkaProducer` are proved (section 5).  Those of `Timer`, `HpvPool`, `HpvConn`, `FieldCodec`,
`SqlTemplate`, `Config`, `HttpServer` and `Resource` are the first conjunct of
`CallsExact`, `OneOwner`, `FramesInOrder`, `ReadBack`, `OneUser`,
`GetIsDeclared`, `ServesAsDeclared` and `PoolsAsDeclared`, and proved with them.
`StartsAsDeclared` is the last two, each for its part.

Deadlock is checked except where the system stops: `HpvPool` when all of its
finitely many connections are closed or lost, `HpvConn` when its connection is
closed or after undefined behaviour, the consumer of `MCKafka` after its
destructor or the end of the process and the producer after undefined behaviour,
`MCWebApp` when a server or the pools have started, and `MCEvbApp` when a message
has been read or memory behind an array was used.

Bounds.  The bounded sets are tasks, connections, jobs, frames, fields, lines
and setter calls, `MaxTime` for the clock, `MaxMisses` and `MaxHandles` for
counters and `PipeSize` for a socket buffer.  Each is one more than the number
that makes the interesting case happen: one task more than fills the queue and
triggers the eviction, a late job while another one sleeps, a command more than
a pipe holds, a frame more than are in flight, frame bodies on both sides of the
growth step, below nothing and beyond memory, modes on both sides of the table and
a body a byte longer than the buffer, a second setter call at a position, one topic more than fits the
cache and enough time for it to grow old while a thread is held up, a line
shorter than, as long as and longer than the line buffer, a string more than
fills the send buffer, a base64 group with each number of bytes and a second
text after it.  In `RedisPool` the guards can lend every connection, find none
left, and ask twice.  Files of four lines are a section given twice with a key
in each, a key given twice, or two sections with a key each and one line more.
Symmetry is used only in runs without liveness properties.

Fairness.  Threads the code starts are scheduled (weak fairness of their next
step; the locks are held for bounded time).  Tasks, timer functions,
`ProcessMessage` and the database are assumed to return, as the
code assumes; without it no pool can promise anything.  Nothing is assumed of
callers: they may never call.  Time passes in `Timer` and `RedisPool`.  In
`HpvConn` the arrival of data and of the end of the stream are strongly fair:
reading is switched off and on again around callbacks, and a socket that has
something to read reports it at each poll while reading is on.  In the runs of
several modules fairness belongs to one part and is not required of the others.

## 4. Findings

* `ApiBuffer::offerBufferedApi` notifies only when the list is empty
  (run api_stranded).  With one object this suffices; with two, a borrower can
  sleep for ever beside an idle one.
* `RedisCmd::checkContext` reconnects without AUTH and SELECT (run
  redis_database).  With a password the server refuses every later command and
  the pool drops the connection at the next `GetControl`; without one, commands
  run in database 0.

Seen while modelling and not claimed by any text of the repository: a guard
asked twice leaks a unit of `activeSize_`; `Init` that fails leaves the pool
without a reaper; an `HpvThread` may listen on an unset descriptor; a full
socket pair loses a connection; a connection that ends with an error other
than end of stream is abandoned, never closed, and one that both ended and timed out in
one poll is used after it was deleted; a peer that keeps sending is never closed
for `needClose`; a frame's length and mode are used unchecked, as are the lengths
of bodies in `sendPack`; two threads that answer with
the same protocol object at once mix their packets; evicting a Kafka topic
destroys the wrong pointer; a Kafka consumer without a topic starts all the same;
a configuration's last line without a newline may
take over bytes of a longer one, and one line too long hides all that follow;
a thread count that is no number starts an HTTP server that does not listen, and
a loop that gets no socket goes unnoticed; a long password shortens the database
URL, one with an `&` changes it; pool sizes that make no sense leave libzdb's
exception frame behind.  Most of these are in the models.  A property that exempts
one says so in its comment (`LoansCounted`, `SurplusIsReaped`,
`CountExactUnlessRaced`, `SentIsReceived`, `PacketsWhole`, `AnswersOwnMisses`,
`EndCloses`) or writes its effect out (`BufferFits`, `GetIsDeclared`,
`ServesAsDeclared`, `PoolsAsDeclared`, `NeedCloseCloses`), and `PROJECT.json`
notes with each hazard that no property covers it.

## 5. Proofs

Each proof module EXTENDS the modules it is about.  All results hold for every
value of the constants that the named assumptions of those modules allow.  The
assumptions say what the constants are (periods are integers no less than the
least `int`, a string is a sequence of bytes, a line has the parts of its kind)
and bound none of them further than the code's types do, with one exception: from
the length of a frame 4 can be taken without overflow, which leaves out the four
least ints.

`ExecutorServiceProofs` (finitely many workers, the two kinds of tasks
distinct):

* `TypeCorrect`: `Spec => []TypeOK`.
* `QueuesBounded`: `Spec => []QueueBound`; inductive relative to `TypeOK`.
* `NoWakeupLost`: `Spec => []NoLostWakeup`.  The invariant counts: queued tasks
  are at most as many as awake workers on the way to the lock, while any worker
  sleeps.  It is inductive relative to `TypeOK`, because each push comes with a
  notification and a worker sleeps only on empty queues.

* `NothingTwice`: `Spec => []OnePlace`, from facts about the sequence operations
  (`Append`, `Tail`, `Rest`) that add or remove one place of a task.
* `ExecutorRefinesTaskPool`: `Spec => ImplementsTaskPool`.  The initial states
  are `TaskPool`'s; each action of the code maps to one action of `TaskPool` or
  leaves the mapped variables alone.  It needs `TypeOK`, `OnePlace` (a task that
  starts is not running elsewhere) and the counting invariant (free workers).
* `NothingLost`: if all the tasks of a kind are at most `queueSize_ + 1` (or the
  bound is negative), `execute` drops no Func and refuses no Runnable, however
  the workers run.  A full queue holds `queueSize_ + 1` different tasks
  (`OnePlace`), so the next one would be one too many (`FitsNotFull`).  The
  hypothesis is about what the users submit; without it tasks are lost, which is
  why it is a theorem apart and not a property of the runs.

`ApiBufferProofs` (finitely many objects):

* `TypeCorrect` and `LoansExclusive` (`ExclusiveLoan`), proved together: they
  are inductive as one.  That the initial list has no duplicates follows from
  its length: a surjection between finite sets of one size is injective.
* `OneObjectNoStranding` (`OneObjectServed`): with one object a holder implies
  an empty list (lemma `HeldAlone`), so every offer notifies.  The run
  api_stranded shows that two objects are one too many.

`RedisPoolProofs` (sizes natural numbers): `TypeCorrect`, `Bounded`
(`PoolBounded`), `Counted` (`LoansCounted`) and `ReepInitialised`
(`ReepReadsInitialised`).  They follow from one inductive invariant `IInv`,
which adds `UnsetOnlyAtFirst`: while a connection whose age was never written
is idle, idle and lent connections together are at most `initialSize_`, and
then the reaper closes none.

`TimerProofs`: `TypeCorrect`, `ExactCalls` (`CallsExact`), `WakesInTime`
(`NeverOversleeps`) and the action property `CallsNotEarly` (`NeverEarly`).  One
inductive invariant serves all four: a job has one task and the task one place
(`OneTask`), the vector of `run()` is in use only between collecting and adding
back (`Phases`), the task agrees with the calls still to come and those made and
not yet counted (`Counted`), its stamp is at least its period after the job was
added or last called (`Stamped`), and the thread's deadline is no later than the
earliest task.  That `pop_heap` finds a task needs a least stamp, which exists
because stamps are bounded below.

`KafkaProofs`: `ConsumerTypeCorrect`, `LiveHandles` (`UsesLiveHandles`) and
`NothingLeft` (`StopsAll`), from an invariant that ties the threads that run and
the partitions that are fetched to the owner's position in `StartAll`, `stop`
and the destructor, and says that threads in the vector mean live handles: no
thread is started without a topic; of the producer `ProducerTypeCorrect` and `HandlesKept` (`HeldIsCached`,
assuming `Ages`: the limits are natural numbers).  That invariant is
`ProducerTypeOK`, `Waiting` (a Send that waits for the lock has read the clock at
most `MaxWait` ago) and `Holding` (a thread that uses a handle is late or its
topic is cached with this handle and an age that is recent enough to survive any
eviction until it is late).

`HpvPoolProofs` (at least one thread, finitely many connections): `OwnedOnce`
(`OneOwner`) and `CountExact` (`CountExactUnlessRaced`).  The inductive invariant
says which connection each dispatcher (`DispOK`, `Apart`) and each closing thread
(`ClosingOK`) is about, that a socket holds exactly the connections sent to its
thread (`PipeOK`), and that only a counted connection has an owner (`ConnOK`):
without the last a count could rise for a connection the thread already had.
`StaysBalanced` (`Balanced`) adds, for as long as nothing is closed and no update
was lost, that what a scan has found is still the smallest of what it read
(`Smallest`), and `Leaning`: a thread's count, together with the dispatchers that
are about to raise it having seen `k` or less, is at most `k` plus the number of
dispatchers, for each `k` from another thread's count on.  Neither half is
inductive alone.  `AcceptorAloneIsEven` says what that means for a server whose
users never call `addServer` (`Users = {}`): until a first connection closes no
update is lost, each `taskCount_` is the thread's load, and two loads differ by
at most one (`EvenUntilClosed`).  With a second dispatcher that conclusion is
false.  `LivesOnce` is an action property, with lost updates or without: a
connection moves forward through the stations of its life (`Life`), closes once
and stays with the thread it was given (`OneLife`).

`EvbProofs` holds the parts of `evb` that share no state.

* Heartbeat: `HeartTypeCorrect`, `OwnMisses` (`AnswersOwnMisses`) and
  `AtMostOneLow` (`NeverFarTooLow`); inductive with the facts that an address
  without an entry counts nothing, that a packet of the connection is noted in
  its entry, and that a predecessor's note is used up by the first time-out
  (`EntryOK`).
* Parser (assuming `Wired`: the codes of the apps have places in the table, null
  is no protocol, lengths are natural numbers; nothing of the modes on the wire,
  and bodies may be longer than the buffer): `ParserTypeCorrect`, `EveryFrameRouted`
  (`FramesRouted`, from `Registered`: a thread past its registration loop finds
  all apps in the map) and `PacketsLeaveWhole` (`PacketsWhole`, from `Together`:
  two threads in one protocol's `sendPack` know that they share it, and `Whole`:
  what an unshared thread has written so far is still there).
* Connection: `ConnTypeCorrect`, `FramesArriveInOrder` (`FramesInOrder`),
  `BodiesFit` (`BufferFits`) and `EndLosesFew` (`EndKeepsFrames`), for any int
  lengths, any number of frames, any growth step and any memory.  The invariant places the
  reader between two callbacks: at the start of a frame, or behind its head with
  the length of its body (`Position`).  That the length read at a position is
  that of the frame which begins there needs the frame ends to be apart
  (`Stream`); the buffer is as large as the largest body so far and was grown
  for one of them (`Grown`); memory that is not there is used for the next frame
  only, if its length makes no sense, or after an EOF (`Excused`); an EOF is seen
  only when everything has arrived, and then the read callback that runs before it
  leaves fewer than `Window` frames (`Ending`).
* Fields: `FieldsReadBack` (`ReadBack`), for any shorts, any strings of bytes
  and any buffer.  `LaidOut` says that each field's bytes lie behind those of the
  field before it, `ReadSoFar` that the reader's variable holds the last string
  that was not empty.  The lemmas show that a short survives its two bytes
  (`ShortAgain`) and that appended bytes leave the others alone (`LiesStill`).

`WebAppProofs` holds the database templates, what an application starts, and
base64.

* `TypeCorrect`, `ConnectionHasOneUser` (`OneUser`), `AnswerAndListAgree`
  (`ResultAgrees`) and `BoundAsAsked` (`BoundAsSet`) of `SqlTemplate` (`NoConn`
  is no connection, `MaxRows` a natural number, positions are integers).  The
  third is inductive as a statement about each caller's list at each point of
  the call (`ListOf`), of which the answer is the end.  The fourth needs the
  whole statement to agree with the history of its setter calls at all times
  (`Recorded`): for each position the last call that set its type, and for each
  position and kind the last value given, also where `GetType` now hides it.
* `GetAnswersFile` (`GetIsDeclared`), for files of any length and lines of any
  lengths: `configMap` holds, after each line, what the lines so far say
  (`Mapped`: sections, keys of the last block of each, first line of each key),
  and in the end one of the cases of `HasRead`: all lines count, the last one is
  too long, or it runs into the bytes an earlier line left.
* `StartsAsFileSays` (`StartsAsDeclared`) of `Startup`: the `Config` does not
  change once it is built, and server and pools agree with what it gives and with
  each other (`ServerInv`, `PoolsInv`): which loops serve, which state a pool is
  in for which sizes, how many connections it opened.  Its core is `FieldRead`: in
  whatever state the stream was left by the field before, failed, at its end or
  with text not read, a field gets a value of its own text or keeps its default.
  `SourceFields` carries that through the eight fields of `DataSources`.

* `DecodesWhatWasEncoded` (`RoundTrip`) of `Base64` (the inputs are sequences of
  bytes), for data of any lengths and any number of calls.  Its invariant adds to
  `RoundTrip` that `text` is made of whole groups, of which some is padded just
  when an input was ragged (`Base64Inv`): that is what lets a text be appended
  to another.  It rests on three lemmas about single texts: `encode()`, which
  writes byte by byte, writes the standard's groups (`EncodeIsStandard`);
  `decode()` of a standard text is its data (`DecodeStandard`); and of two texts
  it gives both, or the first alone if that is padded (`DecodeConcat`).  The
  arithmetic of the bits is `SixBits` and `EightBits`.  `CodecInverts` is the
  consequence a user relies on: data encoded by one call is decoded to itself.

Where an argument wants an induction over the length of a sequence, the proofs
take the least (or greatest) element of a set of positions instead (`NatMin`,
from the well-foundedness of the natural numbers).  The recursive function in
the community modules' `FlattenSeq`, which joins the pieces of a base64 text, is
reasoned about in the same way: there is a function that satisfies the recursion
for every sequence of sequences (`JoinedExists`), there is only one
(`JoinedOnce`), and so `FlattenSeq` is it (`JoinedIs`) and distributes over `\o`
(`FlattenConcat`).

Only model-checked: the liveness properties (`ImplementsFairTaskPool`,
`SurplusIsReaped`, `DueIsCalled`, `SentIsReceived`, `EndCloses`,
`NeedCloseCloses`, `SentIsHandled`, `StopReturns`, `ComesBack`), because liveness
under fairness and ENABLED are beyond the prover.  All other properties of the
passing runs are theorems.

## 6. Not modelled

* `include/bson` and `include/mongoc` are headers of third-party libraries, two
  thirds of the lines under `src/`, and no file of the library includes them.
* `election`, `cpost` and `jsonUtil` call ZooKeeper, libcurl and jsoncpp once
  and keep nothing that a later call could find wrong.
* Requests of the HTTP drivers: a request runs its control's callback and is
  answered within one call of libevent's or libevhtp's thread; no state of the
  drivers lives longer than that.  A control without callbacks never answers.
* `hpv_send` hands its bytes to libevent; the output side of a connection
  appears in `HpvConn` only as the events it reports.
* A `Timer` without a thread, run by its connection: `HpvConn` calls it and does
  not follow its tasks.
* `Send` to the topic given to `KafkaProducer::Init`, `read32`, `PoolFree` and
  `RowMapper`'s field readers: they keep no state, or nothing calls them.
* A `SqlTemplate` whose `pool_` is null: its guard leaves `conn` uninitialised
  (`dbpool.cpp:86`, `sqlTemplate.h:77`), and everything after that is undefined.
* A negative length given to the readers of `FieldCodec`; lengths within 4 of the
  least int in `HpvConn`, where the subtraction itself overflows.
* What the producer's eviction destroys behind `end()`: no topic handle is
  destroyed in `KafkaProducer`, which says which handle is in use and whether it
  is still the cached one.

What would come next: a module that composes `HpvPool` with `HpvConn`, so that
the connections a thread owns are those whose callbacks it runs.

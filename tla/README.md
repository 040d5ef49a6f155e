# libglim in TLA+

libglim is a header-only C++11 library of small, mostly independent components:
wrappers around C libraries (libcurl, LMDB, LevelDB, SQLite, memcached,
libevent), a coroutine library on top of `ucontext`, a channel, a serializable
pool of values and a string class. Each header is a component of its own; where
components meet is said below. This directory is the verification development
kept beside the code: TLA+ modules translated from the headers, TLC
configurations that check them on small instances, and TLAPS proofs of what
matters most for every instance.

## 1. Inventory

| Component | Source | State it keeps | Operations | What is hard |
|---|---|---|---|---|
| Channel | `channel.hpp` | `_state` (atomic), `_mutex` used as a semaphore, `_v` | `send`, `receive` | threads, a mutex unlocked by another thread, exceptions of `V` |
| RunnerV2 | `runner.hpp:31-150` | `_references`, `_running`, `_eventFd`, `_queue`, the CURLM | thread `run`, `addToCURLM`, `intrusive_ptr_add_ref/release`, `instance` | start and end of the thread against the references, wake-ups, a bounded queue |
| CBCoro | `cbcoro.hpp` | `_returnTo`, `_mutex`, `_users`, `_delete`, `_invokeFromYield`, `_yieldFromInvoke`, saved context and stack; the cache of stacks | `start`, `yieldForCallback`, `invokeFromCallback`, `CBCoroPtr`, `allocateStack`, `freeStack` | a stack that moves between threads, immediate callbacks, lifetime by counted pointers, exceptions |
| Runner | `runner.hpp:152-398` | `_jobs`, `_handlers`, `_multi`, the timer, libevent's events | `schedule`, `job`, `removeJob`, `run`, `multi`, cURL and libevent callbacks | jobs rescheduled while they run, callbacks after the destructor, unlocked reads |
| SerializablePool | `SerializablePool.hpp` | `original`, `changed`, `readOnly` in a shared `Impl` | `set`, `current`, `reserve`, `toBytes`, `toBytesDelta`, `changed`, `readOnly` | what a delta or a truncated dump loses |
| Mdb | `mdb.hpp` | an LMDB environment, a dbi, triggers, transactions | `add`, `first`, `all`, `eraseKV`, `erase`, `Iterator`; `SimpleIndexTrigger` of the test | a transaction per call, an index kept by triggers, failure between steps |
| Ldb | `ldb.hpp` | a LevelDB handle, triggers | `put`, `get`, `have`, `del`, `write`, `range`, `startsWith`, iterators | one-past-the-end positions, seeking to the last key of a prefix |
| hget | `hget.hpp` | a request, a timer, the list of URLs | `go`, `goUntil`, `goUntilS` | retries, round robin, an object that deletes itself |
| Curl | `curl.hpp` | a CURL handle, `_sent`, `_got`, headers | `http`, `smtp`, `send`, `go`, read and write callbacks | read callbacks called until they return 0 |
| SQLite | `sqlite.hpp` | `_handle`, a mutex, `mutex recursive`, statements | `exec`, `query`, `step`, `reset`, `bind`, `SqliteSession`, `SqliteParQuery` | statement protocol, BUSY retries, sessions that lock |
| gstring | `gstring.hpp` | `_buf`, `_length`, flags and capacity in `_meta` | constructors, `=`, `append*`, `reserve`, `ref`, `c_str`, `netstring`, `erase` | who owns the buffer, capacity as a power of two |
| exception | `exception.hpp` | thread-local options and handler | `ExceptionControl`, `ExceptionHandler`, `GTHROW` | nested scopes, thread locality |
| memcache | `memcache.hpp` | a `memcached_st` | `set`, `get`, `remove`, `reconnect` | nothing beyond the C library |
| timers, raii | `NsecTimer.hpp`, `TscTimer.hpp`, `raii.hpp` | a start time, a functor | read the clock, call the functor | nothing |
| ql2 | `ql2.pb.*` | messages: fields, `_has_bits_`, sub-messages and lists that outlive `Clear`, unknown fields | accessors, `Clear`, `MergeFrom`, `CopyFrom`, `Swap`, parsing, `ByteSize`, two serializations | a dozen generated methods per message that have to agree; what is kept behind a cleared field; what a peer may send |

How they interact. `Runner` and `hget` live on a libevent loop and call back
into user code on its thread; other threads reach `Runner` through `doInEv` and
`_mutex`. `RunnerV2` owns a thread of its own and meets its clients in a
lock-free queue, an eventfd and an intrusive reference count. `CBCoro` is what
callbacks of any of these are turned into control flow with. `Curl`, `Runner` and
`RunnerV2` share nothing but libcurl handles. `Mdb`, `Ldb` and `SerializablePool`
store `gstring`s, and the pool's `toBytesDelta` is written for a record kept in a
database such as `Mdb`. Everything concurrent is in `channel.hpp`, `runner.hpp`
and `cbcoro.hpp`; the other headers are sequential, and what is hard there is a
protocol, a failure in the middle of one, or an offset.

What makes each component correct:

- **Channel**: `_v` is never raced for, `receive`'s assertion holds, a value is
  received exactly once, an exception never locks the others out.
- **RunnerV2**: no holder of a pointer finds the object deleted, nor cURL a
  listener; a queued handle reaches cURL; the object is deleted in the end, once.
- **CBCoro**: the stack is used by one thread, the captured context is entered
  only while the body is suspended, the object is deleted last and is deleted.
- **Runner**: a job runs until it returns false or is removed, and no longer; a
  handle's handler is called once and the handle then freed once; the timer that
  all of this hangs on is never lost.
- **hget**: a chain of retries neither branches nor stops, asks the URLs in turn,
  tells the handler which one it asked and frees its connections.
- **SerializablePool**: a delta never undoes another user's save, the change
  visitor sees exactly what changes, the bytes keep their format.
- **Mdb**: an index is what its table says after any failure or restart, the database
  changes by whole operations, a write transaction is always given back, a loop over
  values sees all of them.
- **Ldb**: an iterator over a prefix goes through its keys in both directions and over
  both ends, a loop over a range visits exactly its keys and ends.
- **SQLite**: a statement is finalized with its query and keeps its bindings when it is
  prepared anew, a query is executed once until it is reset and reports its own changes,
  and who waits for a session gets it.
- **gstring**: a string is a value of its own; a buffer that is freed has one owner, and
  none is forgotten or written beyond its end.
- **ql2**: a message is a value, through every method and over the wire, and the sizes
  it announces are those it writes.
- **exception** (not modelled): a scope restores the options that it found.

## 2. Plan

Written, in this order, the most concurrent first:

1. `ChannelSpec` (abstract: a buffer of one place), `Channel`
2. `RunnerV2`; `ThreadsProofs` about both
3. `CBCoro`; `CBCoroStacks` composes it with the cache of stacks; `CBCoroProofs`
4. `RunnerJobs`, `RunnerMulti`: the two halves of `glim::Runner`; `Runner` composes
   them at the timer, the mutex and `run()`
5. `Hget`; `LoopProofs` about it and `Runner`, which share the kind of loop they work on
6. `SerializablePool`
7. `MdbSpec` (abstract: a table and the indexes derived from it, changed by whole
   operations), `Mdb`, `MdbProofs`
8. `Ldb`, `LdbProofs`
9. `GStringSpec` (abstract: strings as values), `GString`, `GStringProofs`
10. `Sqlite`, `SqliteProofs`
11. `Ql2Spec` (abstract: messages as values), `Ql2Messages`, `Ql2Fields`, `Ql2`;
    `FormatProofs` about what 6 and 11 write as bytes

Each abstract module is implemented by the detailed one beside it (`BufferSpec`,
`WholeOperations`, `IsValue` twice), by a refinement mapping at its end.

Left: the netstrings of `gstring`, `Curl`'s buffers and `ExceptionControl`'s scopes, as
models.

## 3. Modules and code

An action is the code between two points where another thread, callback or event
can be seen to interfere: an atomic operation, a lock or unlock, a call into user
code, a return to the loop. `PROJECT.json` ("map") gives the lines of every
definition. Operators named `X_Y` after a definition `X`, under a comment that
begins with "Mutation:", are plausible bugs of `X`; each property is known to fail
when one of them takes the place of `X`.

**Channel** (`channel.hpp`). `state`, `locked`, `v` are `_state`, `_mutex`, `_v`.
A sender goes cas → assign → publish → unlock, a receiver lock → move → assert;
`assign` and `move` may throw. `_mutex` is unlocked by threads that did not lock
it; that is undefined for `std::mutex` and modelled as what the build does, a
binary semaphore. `ChannelSpec` is a buffer of one place with `broken` for the
receive whose move threw, after which the code is wedged (the mutex stays locked
with the state FULL): `Channel`'s mapping says when.

**RunnerV2** (`runner.hpp:31-150`). `obj` is the allocation, `references`,
`running`, `eventFd` the members, `signalled` the counter of the eventfd. The
thread's `tpc` follows `run()`: the check of `_references`, the two `read`s of the
eventfd with the pops between them, `curl_multi_perform`, the messages, the wait,
and the tail that deletes. A client's `cpc` follows `instance`, copies of its
pointer, `addToCURLM` in its steps (listener, push, `eventfd_write`) and the
release in two steps, the decrement and the read of `_running`. Touching a freed
object leads to the place `"ub"`, of which nothing more is said.

**CBCoro** (`cbcoro.hpp:93-203`). One coroutine and the threads that run its
callbacks. `body` is where the body is, `on` the thread that executes it,
`returnTo` and `owner` are `_returnTo` and the owner of the recursive `_mutex`,
`users` is `_users`, `held` a `CBCoroPtr` that user code kept. `cbcReturn` and
`swapcontext` are the actions that move `on`. The functor's contract ("the `fun`
MUST call `invokeFromCallback`", `cbcoro.hpp:143-144`) is in the actions; the
constants `InvokeThenThrow` and `CopyPtr` let callers do what the documentation
allows besides. What the body does with the stack is not modelled.

**CBCoroStacks** (`cbcoro.hpp:40-92`) is a whole `CBCoro` with the stack that it runs on,
beside coroutines that are only made and deleted. `cache` is the free list of one stack
size, `cacheStack` the bound that each coroutine was constructed with. The constructor
and the destructor are part of the steps in which somebody makes a coroutine or drops
the last pointer (`Reclaim`), so that a stack given back too early would be seen in use.

**RunnerJobs** (`runner.hpp:166-210, 348-394`). `jobs` and `due` are
`_jobs` and the answer of `shouldRun()`, `copied` and `current` the local
copy that `run()` made under the mutex and the one it runs without it, `chosen`
the name that `schedule()` without a name found free and has not taken yet, `handed`
the names whose entry `job()` made or found and its caller has not written yet: it
does so in a step of its own (`FillIn`), without the mutex. `refused` is a ghost, the jobs that
returned false since they were registered. Any name may be used again, by whatever
call, while its job is copied or run. Two things that are undefined in the code are left out:
a copy of an entry that is half written, and a write through the reference to an entry
that was erased.

**RunnerMulti** (`runner.hpp:152-164, 174-347, 376-394`). `inbox` holds the events
of `doInEv`, `handlers` the keys of `_handlers`, `inMulti` and `msgs` what the
CURLM has and what it finished, `timer` how far away `_timer` is. cURL is external:
`SocketAction` may finish any transfer, ask for and drop any socket event and call
the timer callback. Two assumptions on libevent and the owner are in the module's
head: events of `doInEv`, all with a zero timeout, run in the order they were made,
and the destructor is called when no such event and no socket event is pending.

**Runner** (`runner.hpp:353-394`) is both at once: `run()` calls the handlers and copies the
due jobs under the mutex (`CopyJobs`), runs the copies without it (`RunJob`) and restarts
the timer (`End`). `Unlocked` says when another thread gets the mutex, for
which `AskedUnlocked`, writing to an entry and looking for a free name, does not wait.

**Hget** (`hget.hpp`). A functor is a record of its two counters; `requests` and
`timers` hold the copies that evhttp and libevent keep. An answer runs `hgetCB`
to its end: the handler, then `retry()` in place, the timer, or nothing, then the
connection is freed. `phase` "threw" is an exception in `goUntil` itself or
through the timer callback. URLs are indices, and `UintMod` is the number of
values of the `uint8_t` `_nextUrl`.

**SerializablePool** (`SerializablePool.hpp`). Handles share `Impl`s by `shared_ptr`.
Bytes are modelled one cell each, with offsets computed as the code does, so that
`Original` reads what `ToBytes` wrote and nothing is assumed of the format. Users
load from and save to `db`, as in the example of `toBytesDelta` (l. 155-160), each
save in one transaction. `lastSet` and `index` are ghosts: what each field was last
set to by a save, and an index that only the change visitor updates.

**Mdb** (`mdb.hpp`, with the `SimpleIndexTrigger` of its l. 428-461). LMDB is
external: `table` and `index` are what is committed, `writer` is who has the one write
transaction, `work` what that transaction made of them so far. A thread's `pc` follows
a call: `"beginning"` inside `mdb_txn_begin` (which call it is for is chosen when it
returns, since until then nothing depends on it), `"writing"`, `"committing"`. Nobody
sees an open transaction from inside, so `Operate` is an operation to its end: the
triggers by name, then `mdb_put` or `mdb_del`, or a throw at any place (`Thrown`),
which `Unwind` turns into `mdb_txn_abort`. Iterators are `"iterating"`: `cursor` has the
sorted rows that their transaction sees, `live` is whether `_entry` is still set,
`stay` whether the cursor stays in its key, `seen` (a ghost) what a loop has visited.
`all()` and `first()` are `"reading"`, with a read-only transaction that never waits.
`Restart` kills the process at any point. `fresh`, `lost` and `before` are ghosts that
say since when an index is kept. `Habits` are the things that callers can do and that
the code does not survive; it is empty in the run and in the theorems. `MdbSpec` knows
neither transactions nor failures.

**Ldb** (`ldb.hpp`). LevelDB is external: `db` is a set of keys, an iterator sees the
one of when it was made. Characters have two bits in the run, so that the upper half is
negative as in a signed `char`. `it` is the iterator that moves, with `valid` and
`starts` for `_valid` and `_starts`; `till` is the other one of a range, made by a call
of its own (`OpenTill`), between which and the first one somebody may write.
In the run nobody does so (`QuietOpen`): the
loop does not survive it, as section 4 shows. `seekLast()` is translated with its `Bump`, the increment of a character; `WalkOut` is
the case in which it accesses `after[]` out of its bounds, after which nothing is said.
`walk` counts the steps of an iterator and is what its place is compared with.

**GString** (`gstring.hpp`, with `itoa`). An action is one call. A string is the record of
the parts of `_meta` (`free`, `ref`, `power`, `len`) and `_buf` as a block and an offset
in it; `mem` has the bytes of the blocks that are allocated, of the buffers on the stack
and of the literals. Lengths have `LengthBits` bits. `realloc` may move or not, `malloc`
does not fail. `Undisturbed` is the contract that l. 211-212 state for references and
that views need as well: the owner outlives them. `AppendTime` goes through all its
attempts in one step, as nobody sees them. `Habits` are the calls that
the code does not survive; `GStringSpec` knows no buffers, and `call` tells it which call
was made.

**Sqlite** (`sqlite.hpp`). The library and other processes are external: a step of a
statement may return a row, be done, fail, or find the file busy or the schema changed
(`Returns`); it says whether the library began to execute and what that changed. A
method is one action per call of the library: `Step` and then `Changes`, since other
threads run in between unless the session's mutex keeps them out, `Reprepare` and
`StepAgain` after `SQLITE_SCHEMA`, `RetryBusy` for every round of the loop after
`SQLITE_BUSY`. Destructors of queries run in the scope of the session (`Leave`,
`Destroy`, `Close`), also when an exception ends it. `given`, `ran`, `changed`, `more` and
`threw` are ghosts of a query, and `db.dropped` one of the connection. `changed` is set by the
execution of the statement and by nothing else; `more` says that the query was stepped on when it
was done, which makes what it reports 0.

**Ql2Messages, Ql2Fields, Ql2** (`ql2.pb.h`, `ql2.pb.cc`). The generated code is one pattern, written
out ten times. `Ql2Messages` has, for each message, what each of its methods does by itself: the fields
and bits of its accessors, what `Clear` resets, the cases of the parser with the tags
that they expect next, the order and wire types of the writer, what `ByteSize` counts,
the fields of `MergeFrom` and `Swap`. `Ql2Fields` has what an object keeps, its sizes and the
choice of a case by the parser, `Ql2` the rest of the pattern that executes the tables: they are two so that the
first, which has no RECURSIVE operator, can be proved about. The sizes of an object are
functions of the positions of the objects in it (`Positions`), each given by the sizes one step
further in; a position is a path of fields and indexes that really leads to an object, so the
recursion ends where the nesting does, at any depth. An
object keeps what it has allocated: `elements` beyond the `size` of a list, messages in
fields whose bit is not set. What is written is a sequence of fields. The other side may add a field that
this version does not know, reorder, lose or cut what was sent.

The `MC*` modules give the constants of each module small sets of model values.

## 4. Runs

| Run | Bounds | States | What it shows |
|---|---|---|---|
| `channel` | 2 senders, 2 receivers, 2 values, both exceptions | 5 616 | `NoDataRace`; it implements `ChannelSpec` (`BufferSpec`); `Handover`: a waiting sender and receiver get together |
| `runner2` | 3 clients, 2 handles, a queue of 1, failing initialization | 36 145 | `HeldAlive`, `ListenerAlive`; `Served`: a queued handle reaches cURL; `Disposal`: the object is deleted |
| `cbcoro` | 3 threads, 2 other coroutines, 3 stacks, caches of 0 to 2 | 152 433 | `ResumesSuspended`, `DeletedLast`, `OnePlace`; `Resumption`, `Deletion` |
| `runner` | 2 handles, 2 jobs, 1 name, 1 made-up name | 117 789 | `NotAfterFalse`, `KeptUnlessFalse`, `CalledThenFreed`; `Invoked`: every job is run; `Freed`: what finished is freed |
| `hget` | 1 to 5 URLs, a pointer of 4 values, 9 requests | 225 | `OneChain`, `RoundRobin`; `Ends` |
| `pool` | 2 users, 2 fields, 2 values, up to symmetry | 57 778 | `WellFormed`, `LastSaved`, `IndexCurrent` |
| `mdb` | 2 threads, 3 rows, 1 index, 2 operations in a transaction, 1 row that is not indexed | 232 186 | `IndexFollowsTable`, `LoopsAreExact`; it implements `MdbSpec` (`WholeOperations`); `LockReleased` |
| `ldb` | 5 keys, 6 prefixes, 4 ranges, batches of 2 | 29 312 | `WalksPrefix`, `RangeExact`; `RangeEnds` |
| `gstring` | 2 strings, 2 blocks, a stack buffer of 3 bytes, a literal, lengths of 2 bits, up to symmetry | 46 096 | `OneOwner`, `NoLeak`, `InBounds`; it implements `GStringSpec` (`IsValue`) |
| `sqlite` | 2 threads with a session each, 2 queries, 1 statement at once, 1 parameter, 1 retry, 1 change of the schema | 582 392 | `Owned`, `Once`, `OwnChanges`; `Granted`: who asks for a session has and leaves it |
| `ql2` | 2 messages, each of the 9 types with fields, what is set of weight 2 and what is allocated of weight 3, up to symmetry | 254 205 | `SizesAgree`; it implements `Ql2Spec` (`IsValue`) |

The bounds. Two senders and two receivers are every pair that can race and a third
party to each; the state has one place, so more threads only wait longer. Three
clients let one hold, one release and one copy at the same moment, and a queue of
one is full as soon as two handles are offered. A coroutine has one callback at a
time, so three threads are the one that yields, the one that calls back and the one
that still returns from the callback before. Three stacks are one for the coroutine
that is run and one for each of the two others that may come before or after it; caches
of 0 to 2 are none, full at once and room for two. Two jobs and two names are one job
that runs and throws or returns false while the other is copied behind it, or is
registered under its name meanwhile. Two handles let one finish while the
other one's handler throws. Five URLs with a pointer of four values are fewer, as
many and more URLs than the pointer counts, and nine requests go through the list
and back in every case. Two fields are one that a user changes and one that another
does, in a pool that is shorter or longer than either's changes; one value is empty
and the other has a zero inside. Three rows of `mdb` are two values of a key, of which
one is also the value of another key, so that deletions by pair, by key and in the
index differ; two operations are one that is done and one that fails after it. The
keys of `ldb` are of different lengths, one the prefix of another, with the largest and
the smallest character; its prefixes match none, one, several and all of them, at both
ends of the map, and end in the characters next to the change of the sign. Two strings are
one that shares, takes or views the buffer of the other; two blocks are one that is
moved to the other; three bytes on the stack hold a text and its zero, or not, and lengths of two bits
let every string reach its limit in a few calls. Two threads of `sqlite` are one in a
session and one that waits; two queries are one that is moved into the other; one
retry is a loop that ends in each of its ways. A weight of three allows a message in a message
with a list, cleared and used again, and a weight of two what is set in it then. Channels,
references, coroutines, jobs, handles and requests may really stop (nobody calls `send`,
the object is deleted, the handler is content), so their runs do not check deadlock;
that nobody waits for ever where it matters is said by the liveness
properties. Strings stop when nothing that is left to do fits. `pool`, `mdb`, `ldb`, `sqlite` and `ql2` check deadlock.

Fairness is weak, but for one case, and given only to code that is scheduled anyway: a thread inside a
call (`SendStep`, `ReceiveStep`, `ThreadStep`, `ClientStep` and the steps of
`CBCoro`'s body), the loop that is dispatched (`Inbox` and `Run` of `Runner`, the
answers and timers of `Hget`), time (`Elapse`), and in `CBCoro` the contract that an
arranged callback is made and a kept pointer dropped. In `mdb` it is also given to
users who have a write transaction or an `Iterator` in scope: they leave the scope; who
gets the write transaction next is left to LMDB, and nobody is promised it. In `ldb` it
is the loop over a range. In `sqlite` the code goes on with what it began, and the scope
of a session ends however long it is used: strong fairness of `Leave` alone, since a
caller that goes on stepping disables it again and again. `Granted` needs two of the
bounds besides: `Schemas`, as `step` repeats after each change of the schema with no limit
of its own (`sqlite.hpp:514-520`), and `Sessions`, as the mutex is not fair and who waits may be
overtaken by any number of sessions of the others. Nothing makes a user call anything.
libevent's HTTP client answers every request, if only with a timeout.

One more run shows where the code is at odds with its own comment; TLC must find it
violated:

| Run | Property | The code |
|---|---|---|
| `runner2_lastref` | `LastReleaseSafe` | `intrusive_ptr_release` reads `_running` after it dropped the last reference, when the thread may have deleted the object (`runner.hpp:150`) |

The runs leave aside what callers may do and the code does not survive, and smaller
flaws. With the change to the configuration of a run that this table names, TLC finds
the property violated, checked alone. `MCRunnerJobs.cfg` is `RunnerJobs` alone; `MCRunnerJobs_reschedule.cfg`,
`MCLdb_prefix.cfg` and `MCSqlite_busy.cfg` are three of the rows written out.

| Configuration | Change | Violated | The code |
|---|---|---|---|
| `MCRunnerV2` | | `ServesHolders` | the thread starts before the first reference is counted, finds none and ends, so the first user gets a dead Runner |
| | | `RunningMeansHeld` | `_running` may become true after the last release; nobody is hurt, `Disposal` holds |
| | | `WakesUp` | the second `read` of the eventfd eats the wake-up of a handle pushed after the pops, which then waits for the timeout |
| | | `ListenerHandedOver` | a push that fails leaves the listener of the handle to nobody |
| `MCCBCoroStacks` | `CopyPtr = TRUE` | `HeldIsAlive` | a copied `CBCoroPtr` is not counted but is released (`cbcoro.hpp:27-36`) |
| | `InvokeThenThrow = TRUE` | `ReturnsWhenInvoked` | a functor that throws after it invoked leaves `_invokeFromYield` set for the next `yieldForCallback` |
| `MCRunner` | | `ShorterTimerStays` | `restartTimer` takes an absolute time for a remaining one and replaces shorter timers (`runner.hpp:245`) |
| `MCRunnerJobs` | | `RemovedByOwnFalse` | a job registered under the name of one that is being run is removed when that one returns false (`runner.hpp:387`): the exception that `KeptUnlessFalse` makes (`MCRunnerJobs_reschedule.cfg`) |
| | `Loopers <- TwoLoopers` | `NotAfterFalse` | with `run()` called by two threads, a job that returned false is run again from the other's copy |
| | `Schedulers <- TwoSchedulers` | `UniqueName` | two callers of `schedule()` without a name find the same name free |
| `MCSerializablePool` | | `WholeKeepsFields` | the public `toBytes` drops the fields after the last changed one (`SerializablePool.hpp:152`) |
| `MCMdb` | `Habits = {"commitAfterThrow"}` | `IndexFollowsTable` | a user commits a transaction in which an operation threw after some triggers had run |
| | `Habits = {"writeBeforeSetTrigger"}` | `IndexFollowsTable` | somebody writes after a restart before the triggers are set again |
| | `Dup = FALSE` | `IndexFollowsTable` | without sorted duplicates `add` replaces a value whose index entry `SimpleIndexTrigger` leaves |
| | `Habits = {"writeWhileIterating"}` | `LockReleased` | a thread that writes inside a loop over an `Iterator` waits in `mdb_txn_begin` for its own transaction |
| | `Indexes <- TwoIndexes` | `EveryIndexKept` | `getTriggerName` of `SimpleIndexTrigger` does not override that of `Trigger`, so that a second index silently replaces the first |
| `MCLdb` | `QuietOpen = FALSE` | `RangeExact` | a key put between the two iterators of `range()` is where only one of them stops; the loop runs on past it |
| | `Keys <- KeysOfMinusOne`, `Starts <- MinusOne` | `WalksPrefix` | `seekLast()` increments a character as a signed `char`, so that after a prefix that ends in 0xFF it seeks before the prefix and misses its keys (`ldb.hpp:239`) |
| `MCGString` | `Habits = {"copyGrownRef"}` | `OneOwner` | `reserve()` leaves the flag of a reference, so that a copy of one that has grown shares a buffer that both free (`gstring.hpp:332`) |
| | `Habits = {"assignToStack"}` | `OneOwner` | assignment reuses a buffer on the stack and says that it is to be freed (`gstring.hpp:192`) |
| | `Habits = {"reserveLess"}` | `InBounds` | `reserve()` of less than the length copies the whole length into the smaller buffer |
| | `Habits = {"selfAppend"}` | `IsValue` | a string appended to itself is read after its buffer has moved |
| | `Habits = {"full"}` | `IsValue` | a length of exactly 2^24 does not throw and is cut to 0 |
| `MCSqlite` | | `ThrowsUnchanged` | `SqliteParQuery::step` throws after a retry that succeeded (`sqlite.hpp:527`), although its comment promises that attempts are repeated |
| | | `ChangesAsDocumented` | a query that is stepped on after it returned false reports 0 changes whatever it changed (`sqlite.hpp:283`), of which the doc of `changes()` says nothing (l. 319-323): the exception that `OwnChanges` makes |
| | | `Finalized` | when a statement cannot be prepared anew the old one is never finalized (`sqlite.hpp:516`) |
| | `Habits = {"again"}` | `Once` | who steps again after such an exception executes the statement twice |
| | `Habits = {"nested"}`, `Sessions = 2` | `Granted` | a session inside another of the same thread waits for ever: the mutex is not recursive |

These hold in the same way, and are invariants that the proofs rest on or that say less
than the others: `IInv` of every module that has one, `HgetInv` of `Hget`, `ChannelInv` and `AssertHolds` of `Channel`,
`StacksInv` of `CBCoroStacks`, `JobsInv` of `Runner`, `TimerRuns` of `RunnerMulti`, `ToldUrl` and
`ConnsOfRequests` of `Hget`, `Frozen` of `SerializablePool`, `Reached` and `Cursors` of `Mdb`,
`Shape` and `Ranged` of `Ldb`, `OnceInv` of `Sqlite`.

Two of the code's own answers are not said to be wrong by any run: `hget` with more
than 256 URLs (`ToldUrl` and `RoundRobin` are stated for lists that a `uint8_t` can
count, the run also goes beyond), and `readOnly(false)`, which freezes the pool
(`SerializablePool.hpp:194`; `Frozen` holds of the flag as the code sets it).

## 5. Proofs

The theorems hold for every value of the constants within the named `ASSUME`s, which
say only what kinds of sets and numbers they are. In each module the argument is an
inductive invariant `IInv`, which TLC also finds true on the instances above (but for that of
`FormatProofs`, whose `Pools` it cannot enumerate): `Init => IInv`, one
lemma or step per action for `IInv /\ [Next]_vars => IInv'`, and `IInv => property`.

- `ThreadsProofs`, about `Channel`: `NoRace`, `AssertionHolds`, `UnlockIsLegal`, and
  `ChannelIsABuffer`: `Channel` implements the buffer of `ChannelSpec`. The properties are
  not inductive: that two threads are not at `_v` follows from who may be inside at all, so
  `ChannelInv` adds `OneInside` (a sender between its CAS and its unlock excludes all others, and
  a receiver between its lock and its assertion) and `Phases`, what `_state` and
  `_mutex` say about who that is. The refinement maps a value to the slot from its
  publication to the receiver's move.
- `ThreadsProofs`, about `RunnerV2`: `HoldersAreSafe` and `ListenersAreSafe`. `IInv` adds
  `CountsHolders`, that `_references` is the number of holders, and `Alone`, what is
  known of the thread while a creator has no reference yet and of the others when
  one has dropped the last.
- `CBCoroProofs`: `BodyIsPlaced`, `ResumptionIsSafe`, `DeletionIsSafe`, `HeldIsSafe` and
  `YieldReturnsWhenInvoked`, for callers that keep to `~InvokeThenThrow` and `~CopyPtr`;
  without these hypotheses they are false (the table of section 4). `IInv` adds who owns the
  mutex, what the two flags mean, and that a callback is pending or being made, never both.
  `StacksImplementCoro` shows that a coroutine of `CBCoroStacks` is one of `CBCoro`, step by
  step, so that all of this holds of it; `StacksAreOwned` is `OnePlace`, for caches of any
  size. Its `StacksInv` counts: a cache holds at most what its bound allows, and a stack that
  is in none is the coroutine's, which has it until its body is done and its last pointer
  dropped, as `IInv` knows.
- `LoopProofs`, about `Runner`: `HandlersAreCalledOnce`, `TimerIsSet`, for any set of handles. `IInv` adds
  `Waiting`, that the handles in the events of `doInEv` are distinct and neither in the CURLM
  nor freed, with the constructor's event before them (a handle freed while it waits would be
  added again), and `Ended` and `Started`, what is left of the loop before the CURLM and
  after the destructor. `FalseIsFinal` is `NotAfterFalse`, for one loop thread and names that are used
  again at any time, from `JobsInv`: a functor is in one entry or copy, or in an entry and the
  copy that `run()` made of it, and none of those has returned false since it was registered.
  `JobsAreKept` is `KeptUnlessFalse`, with its exception for a name that was used again while its job
  was run, for at most one thread that schedules without names, as two can find
  the same name free: `NamesKept` says that then a made-up name that was copied still has its job. `RunnerImplementsMulti` and `RunnerImplementsJobs` show that the whole
  `Runner` implements both halves, and `RunnerCallsOnce` carries the theorems over to it.
- `LoopProofs`, about `Hget`: `HandlerIsToldTheUrl`, `ChainDoesNotBranch`, `ConnectionsAreFreed`,
  `UrlsInTurn`, for any number of URLs and any width of the pointer. `HgetInv` adds
  `FunctorsAgree`: every copy of the functor points to the URL after the one asked last.
- `FormatProofs`, about `SerializablePool`: `BytesAreWellFormed`, `SavesDoNotUndo`, `IndexFollows` and `ReadOnlyIsFrozen`, for
  any handles, values and numbers of fields. What toBytes writes is shown to be `Packed(s)`, the
  bytes of a sequence `s` of strings; the lemmas from `JoinedIs` to `FormatHolds` say where in
  them every offset and every character is, by induction over the fields, and so that `Original` reads
  `s` back and that `Packed(s)` has the format. `IInv` says that the database and every Impl have
  the bytes of some such sequence (`Pools`), which no single read or save would tell; `SaveKeeps` then
  compares, field by field, what was there, what the user changed, and what is read afterwards.
- `FormatProofs`, about `Ql2Fields`: `SizesAlwaysAgree` is `SizesAgree`, for whatever the messages
  hold and however deep they are nested, so in every state that `Ql2` can reach and in any
  other. No induction is needed: `ByteSize` and `Written` are shown to be defined by the same equation
  (`SizesAgreeFrom`: with the same sizes further in, a message is counted as it is written), and two
  recursive functions with the same equation are the same. That rests on the tables
  (`TablesAgree`, one lemma for each of the nine types): the same fields in the same order, tags of one byte, and
  to each wire type and C++ type the size that belongs to it. `WrittenIsRead`: a field that was written has one
  case in the parser, that of the same field, whether it is found by the tag or by a jump from the
  field before. `FieldsAreHandled`: no method leaves out a field, and no two share a bit.
- `MdbProofs`: `IndexFollows`, for any threads, rows, indexes and trigger names, with
  the hypothesis `WellUsed`: callers have none of the `Habits` and the table has sorted
  duplicates; without it the table of section 4 has the counterexamples. What is committed is
  not inductive alone: `IInv` adds that the open transaction, too, has its indexes right
  between two operations (`Followed`), who has it (`Locked`), that without a writer it is what
  is committed (`Unchanged`), and that an index nobody keeps yet is empty and nobody writes
  while a trigger is missing after a restart (`Untouched`). `OperationsAreWhole` shows that
  `Mdb` implements `MdbSpec`, whose transactions are `After[n]`, what `n` whole operations can
  make of a database: `Reached` says that an open transaction is in `After[n]` for the `n` that
  the bound counts. `LoopsSeeAll` is `LoopsAreExact`: `Cursors` says that what a loop has
  seen and what is before its cursor are the same rows, whether it was moved, its row was
  deleted or it came to its end.
- `LdbProofs`: `RangesAreExact`, for any keys, characters and batches, with `QuietOpen`, that
  nobody writes between the two iterators of `range()` (what such a write does is not covered: without
  this the code fails); and `PrefixesAreWalked`, for prefixes in
  which the character that is incremented is not 0xFF (`Bumps`); without either the table of
  section 4 has the counterexample. The order of keys is shown to be a strict total one, in which a
  finite set has a least and a greatest key, and the keys with a prefix to be next to each
  other, so that the step out of them ends the walk. `Ranged` says that what the loop has seen is the
  range before its iterator, `OnWalk` that the iterator is as many keys from the first as its steps
  say.
- `GStringProofs`: `OwnersAreUnique` and `NothingLeaks`, for any strings, texts, blocks,
  stacks and lengths, when callers have none of the `Habits`. `IInv` adds `Placed`, that a string's buffer is in memory that is
  allocated, views included: without it a fresh block might be one that
  a view still points to, and a later copy of the view's flags would own it. Every action is shown to be an instance of `Becomes`: a string gets
  a new record, gives back what it owned and takes what the new one owns; `BecomesKeeps` says
  that this keeps the invariant. `NothingIsOutside` is `InBounds`, and `StringsAreValues` that
  `GString` implements `GStringSpec`. `BInv` adds to `IInv` that every string is `Within` the
  memory, with a power of two that fits the capacity's bits, that a buffer with a capacity is no
  literal, and that the literals are what they were. A call is shown to `Give` one string a value and to
  leave the other contents as they were (`Gives`): as their buffers are `Kept`, or as what
  is written goes where no other string is (`WritesBounded`, by `Undisturbed` and
  `Writable`). The lemmas it rests on say what `reserve()` makes of a string (`ReservedRoom`), that the
  doubling of `appendTime` ends, within the capacity that it asks `reserve()` for (`TimeEndFits`), and that the
  digits of `itoa`, reversed, are the numeral (`ItoaIsNumeral`, for every number and base).
  Assumed: texts are sequences of characters, a stack buffer has at most `2 ^ LengthBits` bytes (16 MiB in the
  code), and the `bytes` that callers give `append64` are enough for the numbers they
  append (`gstring.hpp:355`).
- `SqliteProofs`: `StatementsAreOwned`, `ChangesAreOwn` (with the exception of section 4, a query that is
  stepped on after it returned false), for any threads, queries, parameters and
  `Habits`, and `ExecutedOnce`, for callers that do not step again after an exception. `IInv` adds
  `Serialized`, that who is in a session has the mutex and all the queries that can be
  stepped, and `ChangesInv`, whose query `sqlite3_changes` would speak of; `OnceInv` adds where in its
  method a query is that was executed.

Induction over data is done without the library's theorems, whose operator parameter no prover can
instantiate: what is to be shown of every number is cast as a set of numbers, of which the least
one missing is taken (`LeastOfNat`, `InductionInSet`).

Only model-checked: everything under fairness (`Handover`, `Served`, `Disposal`,
`Resumption`, `Deletion`, `Invoked`, `Freed`, `Ends`, `LockReleased`, `RangeEnds`, `Granted`), since the prover has no ENABLED;
and `IsValue` of `Ql2`, that the methods implement `Ql2Spec`: clearing, merging, parsing and the values
that the getters show are recursive over the messages, and what they do together
takes RECURSIVE operators and an induction over their nesting. `WrittenIsRead` and
`FieldsAreHandled` are the part of it that is in the tables.

## 6. Not modelled

- `Curl` (`curl.hpp`): it passes options to libcurl; `_sent` and `_got` are a position in a
  string and a string, moved by a blocking call on one thread.
- `exception.hpp`: backtraces, signal handlers and formatting are out of reach; the
  thread-local options, which a scope saves and restores, are left.
- `memcache.hpp` (one library call per method), the timers and `raii.hpp` (no state to
  speak of), and the tests, which were read for how the headers are used.
- In modelled components: netstrings, the reading of numbers, doubles and iterators of
  `gstring`; the getters of SQLite's columns and binding by name; descriptors, reflection
  and text format of `ql2`, and `VersionDummy`, which has no fields; the extensions of `Datum` and
  `Term`, to which each of their methods passes on (for `Term` `ql2.pb.cc:3435`, 3524-3528, 3565,
  3604, 3649, 3686, 3726), but of which the repository registers none, so that `_extensions_` is always empty
  and what the parser finds in its range is kept with the unknown fields; logging, formatting and
  the boost serialization behind `serialize`/`deserialize`.

What libcurl, libevent, LMDB, LevelDB, SQLite and the runtime of protobuf do is external and
modelled, where it is, from how the code uses it. Exceptions through libevent's C frames, the
use of a CURLM by two threads, a destroyed `Runner` whose events are pending, and an empty
list of URLs are undefined behaviour: the models stop there or assume it away, and
say so at the place.

# Verification of ramp-with-rdma

The repository is a prototype of a distributed in-memory key-value store: a
client process runs transactions against a set of servers, with one of several
transaction algorithms (RAMP-Fast, RAMP-Fast with one-sided RDMA reads, locking,
no concurrency control) over one of several transports (TCP, Send/Recv verbs,
RDMA Write, RDMA Write with Immediate). This directory holds TLA+ models of it,
their TLC configurations and proofs checked by TLAPS.

The source has two copies of the C++ program: the main one (`src/src`,
`src/include` here) and an older one under `YCSB-0.5.0/{src,include}`, which the
YCSB benchmark drives through JNI. Where they differ, the difference is a
constant of the model.

## 1. Inventory

| Component | State | Operations | Who it talks to |
|---|---|---|---|
| `Client`, `ClientThread`, `TrxQueue` | queue of transactions, one thread per worker | `pop`, `put_all` then `get_all`, `clear_access_coms`, join, `close_all` | a `TrxHandler` of its own per worker, the shared queue |
| `RAMPFastHandler`, `NoCCHandler` | `trx`, `ret`, `v_latest`, `access_coms` | `put_all` (PREPARE everywhere, then COMMIT everywhere), `get_all` (one or two rounds of GET) | one connection per server, tasks of `parallel_for_each` |
| `LockBasedHandler` | `trx`, `ret` | `put_all`, `get_all` key by key in sorted order, then RELEASE_LOCKS | one connection per server |
| `ACRAMPFastHandler` | as RAMP-Fast, and `addr_cache` | first round by RDMA read of the cached address, else GET_WITH_ADDR | one RDMA connection per server |
| `RAMPFastExecutor`, `NoCCExecutor` | none beside the connection | PREPARE, COMMIT, GET, CLOSE | the shared `Table` |
| `LockBasedExecutor`, `LockManager`, `Mutex` | `access_keys` of the executor, a read-write lock per key | PUT, GET, RELEASE_LOCKS, CLOSE | `Table`, locks shared by the executors |
| `ACRAMPFastExecutor` | the registered memory region | as RAMP-Fast, and GET_WITH_ADDR | `Table`, `CommittedItems` |
| `Table` | `items` (per timestamp), `latest_commit` (per key) | `prepare`, `commit`, `put`, `get_latest_item`, `get_item_by_ver` | no lock: concurrent containers only |
| `CommittedItems`, `Entry` | `entries`, `unused_entries`, the bytes of each entry | `invalidate`, `update`, `get_item_addr` | written by executors, read by clients' network adapters |
| `Communicator`, `Buffer` | packing buffer, connection lock `mtx` | `send`, `recv`, `recv_body` | sockets |
| `TCPSocket` | `msg_buf` | `send_msg`, `recv_header`, `get_body`, `send_close` | kernel |
| `SendRecvSocket`, `RDMAWriteSocket`, `RDMAWriteImmSocket` | `send_bufs`, work queues, completion queues, `write_buf` | the same, and `read` | network adapter |
| `Timestamp` | seconds and microseconds | `now`, comparison, `is_empty` | clock |
| `Config`, `main`, server sockets | set once | option parsing, accept | |
| `RAMPClient.java`, JNI library | `put_num`, `get_num`; one native handler per YCSB thread | `init`, `insert`, `read`, `commit`, `cleanup` | YCSB core above, a `TrxHandler` below |
| YCSB `Client`, its threads, `CoreWorkload` | operations done, `stopRequested`, `completeLatch` | load, run, stop, join, exit | bindings, generators of keys |
| `AcknowledgedCounterGenerator` | counter, `window`, `limit` | `nextInt`, `acknowledge`, `lastInt` | shared by all threads of a run |

What makes each of them correct, and hard to test:

* *RAMP-Fast*: reads are atomic although servers commit a transaction at
  different moments; nothing is visible before it is prepared everywhere; the
  second round always finds what it asks for; a returned put is seen by later
  gets; every transaction finishes. Hard: all interleavings of tasks, workers
  and executors, clocks that are neither ordered nor unique, and a `Table` whose
  operations are not atomic.
* *Locking*: conflicting transactions are serialised, no deadlock, no lock is
  lost or kept. Hard: the timestamp is taken before the locks.
* *Cache for RDMA reads*: a client returns prepared and fresh items, a torn read
  harms nobody but the get that made it, no read spins for ever, entries are
  neither shared nor leaked. Hard: the reader takes no lock at all.
* *YCSB client*: commits only transactions the handlers are made for, offers
  readers only keys that are acknowledged, does every operation once, puts every
  record of a load, and exits. Hard: a window of flags that threads test and set
  without the lock that its owner holds, and four kinds of threads that join or
  interrupt each other.
* *Transports*: each request is answered once and in order, no buffer is reused
  while the adapter reads it, CLOSE is delivered. Hard: completions and arrival
  flags race with reuse.

`PROJECT.json` lists every component with its status and every hazard at its line.

## 2. Modules

| Module | What it is |
|---|---|
| `RAMPFast` | client workers, handlers, connections, executors and the table, for RAMP-Fast and NO_CC |
| `RAMPFastMC` | keys, servers and transactions of its instances |
| `RAMPFastFresh`, `RAMPFastFreshMC` | `RAMPFast` with a history variable that remembers which puts had returned when a get began |
| `RAMPFastFreshInv`, `RAMPFastFreshProofs` | the inductive invariant behind `FreshReads`, and the proof that gets are fresh while commits of a key are apart |
| `RAMPFastInv`, `RAMPFastInvMC` | the inductive invariant, and the instance on which TLC checks it |
| `RAMPFastProofs` | theorems and proofs about `RAMPFast` |
| `AtomicVisibility` | what every transaction algorithm promises its clients: transactions are published in one step each, and a get shows whole transactions |
| `RAMPFastVisible` | `RAMPFast` implements `AtomicVisibility`; the proof is in `RAMPFastProofs` |
| `ACRAMPFast`, `ACRAMPFastMC` | RAMP-Fast with RDMA: `RAMPFast` with the cache of committed items, and reads that go past the executors |
| `ACRAMPFastInv`, `ACRAMPFastProofs` | how `ACRAMPFast` looks without its cache, its inductive invariant, and the proofs of what it is to `RAMPFast` and that its intact gets implement `AtomicVisibility` |
| `CommittedItems`, `CommittedItemsMC` | that cache from the inside: pool, map and entries of one server, and the reads of their cells |
| `CommittedItemsInv`, `CommittedItemsProofs` | its inductive invariants, with and without a load that comes first, and the proofs |
| `LockBased`, `LockBasedMC` | locking transactions: handlers, connections, executors, lock manager, table; its instances |
| `LockBasedInv`, `LockBasedProofs` | the invariants of the locks, the table and the reads; the theorems about the locks |
| `LockBasedVisible`, `LockBasedVisibleProofs` | `LockBased` with long locks implements `AtomicVisibility` as well; what the locks mean for the table and its readers, and the proof of both |
| `VerbsSocket` | one connection of the verbs transports: both ends, their buffers, the adapter between them |
| `Channel` | the connection that the models of handlers and executors use: one request, its answer, CLOSE last |
| `VerbsChannel` | `VerbsSocket` implements `Channel` |
| `VerbsSocketInv`, `VerbsSocketProofs` | the inductive invariant of `VerbsSocket`, and the proofs about it, that of `Channel` among them |
| `YCSBClient` | the YCSB client: main, client threads, status thread, terminator, the transactions of `CoreWorkload`, the binding |
| `YCSBClientInv`, `YCSBClientProofs` | its inductive invariant and the proofs |

`RAMPFast`, `LockBased` and `ACRAMPFast` stand on `Channel` and under
`AtomicVisibility`; `ACRAMPFast` extends `RAMPFast` and uses of `CommittedItems`
that an entry belongs to one key. `YCSBClient` is what calls the handlers.

### RAMPFast and the code

One worker is one `ClientThread` with its `TrxHandler`. `pc[w]` says where
`ClientThread::run` stands; `todo[w]` holds the elements that
`parallel_for_each` has not started, so any task may run next and tasks on
different connections overlap. A task locks `com->mtx` from its `send` to its
`recv`: hence a request goes out only on a connection with nothing under way,
and a connection holds at most one message, `conn[w][s]`. Each connection has
its executor thread.

| Code | Actions |
|---|---|
| `ClientThread::run`, `TrxQueue::pop` | `Pop`, `Exit`, `Finish` |
| `Client::check_finish`, `close_all` | `SendClose` |
| `put_all` | `PutAll` (clock), `SendPrepare`, `RecvDone`, `BeginCommit`, `SendCommit`, `PutAllReturn` |
| `get_all` | `GetAll`, `SendGet`, `RecvResult`, `CheckMissing`, `GetAllReturn` |
| executor `prepare`, `get`, CLOSE | `Prepare`, `Get`, `HandleClose` |
| `Table::commit(ts)` | `CommitBegin`, then per item `CommitTest` and `CommitSet`, then `CommitDone` |

`Table::commit` takes no lock, so the comparison with `latest_commit` and the
store are two steps, and the loop fixes its end when it starts while other
executors may append. `Prepare` and `Get` are single steps: `push_back` is
atomic for a concurrent vector, and versions are never removed, so reading
`latest_commit` and then the version it names gives what one step gives.

Three constants choose among behaviours the code has: `TrxType` (RAMP-Fast or
NO_CC), `CommitAssigns` (the YCSB copy assigns `latest_commit`; the main copy
calls `insert`, which has no effect on an existing entry) and `DistinctTs`
(whether two transactions may read the same microsecond; with or without it the
clock readings come in any order, as those of different hosts do).

The values a transaction writes are represented by its identity, an item's
field `trx`. `Init` leaves the order of `random_shuffle` open.

### LockBased and the code

Workers, queue, connections and close are as in `RAMPFast`. `put_all` and
`get_all` are plain loops over a `std::map`: keys in order, one request at a
time, which is why `todo[w]` shrinks from its first key and a request goes out
only when every connection of the worker is idle. Keys are numbers that stand
for their rank in that order.

| Code | Actions |
|---|---|
| `put_all`, `get_all` | `PutAll` (clock), `GetAll`, `SendPut`, `SendGet`, `RecvDone`, `RecvResult` |
| `send_to_all(RELEASE_LOCKS)` | `BeginRelease`, `SendRelease`, `Return` |
| executor `put` | `WriteLock`, `PutItem` (`prepare` and the comparison of `commit`), `CommitKey` (its store), `PutDone` |
| executor `get` | `ReadLock`, `GetItem` |
| executor `release_locks`, `LockManager::unlock` | `Unlock` (one key), `ReleaseDone` |
| CLOSE | `HandleClose` |

`writer` and `readers` are the state of the `pthread_rwlock_t` of each key: a
lock is granted when the holders allow it, and a request that waits is an action
that is not enabled. `PutItem` and `CommitKey` are separate because executors
that take no lock (read duration NONE) run between them. The lock durations of
the YCSB copy are `read_duration`, one of `ReadDurations`, which `server_main.cpp` sets for
good (LONG for `rr`, SHORT for `rc`, NONE for `ru`), and the constant
`WriteDuration`, which it never sets to anything but LONG. The main copy's
`2PL` is LONG for both.

### AtomicVisibility

The abstract specification has two variables: `stamp`, the timestamps of the
published transactions, and `view`, what the last get of each client returned.
`Publish` publishes a transaction with all its keys; `Read` returns what some set
of published transactions leaves behind when they are applied in the order of
their timestamps. The set is any: neither freshness nor serialisability is
promised, and `FreshReads` and `RepeatableReads` are stated apart.

The refinement mapping of RAMP-Fast publishes a transaction when the last server
has stored its version, before any server commits it, for a second round may
already return it; that of `LockBased` when the last PUT is answered. `ret` is the
view from the return of `get_all` to the end of the transaction.

### ACRAMPFast and the code

`ACRAMPFast` extends `RAMPFast`: what the handler and the executor inherit from
RAMP-Fast are the actions of that module, and the steps that touch the cache are
its own.

| Code | Actions |
|---|---|
| `get_all`, first round | `SendGetWithAddr` (no address yet), `ReadFlag` (address known), `RecvItemAndAddr` |
| `RDMAWriteSocket::read` | `ReadFlag`, `CopyPart` (the adapter), then `ReadItem`, or `ReadGarbage` when what was copied does not unpack |
| executor `get_item_and_addr` | `GetItemAndAddr` |
| `Table::prepare` | `PrepareItem`, `Invalidate` |
| `Table::commit` | `SetLatest`, `Update`, with the inherited `CommitBegin`, `CommitTest`, `CommitDone` |

`addr_cache` begins empty or full, for other transactions of the worker may have
filled it. The module takes the cache as a load leaves it, with an entry for every
key, and leaves to `CommittedItems` which entry a key has and in which order the
cells of an entry are written and copied.

Reads are torn here as they are in the code. The adapter copies the flag and then
part after part of the entry, while executors may begin and finish any number of
updates. Each part is of the item the entry holds or of one that an executor is
writing into it (`Parts`); while one is being written, the flag may be taken back
already (`Flags`). `seen` collects the items of which parts have been copied.
Nothing in the bytes tells them apart, so when the copy is complete `ReadItem` returns
any item whose key, value, timestamp and sibling keys each come from one of `seen`
(`Mixtures`), or, if there are several, the bytes do not unpack (`insufficient_bytes`,
`type_error`) and `ReadGarbage` asks the executor. `seen` may hold more items, and
`Mixtures` more combinations, than the order of the cells allows: the model has
every mixture the code has.

No property promises that a torn read returns an item of the table; run `torn` shows
that it need not. What the code does promise is about the other gets. The history variable
`torn`, which no action of the code tests, holds the workers whose last get has
accepted parts of several items, until their next get. `CacheFresh` speaks of the others, and
`IntactlyVisible` is the refinement of `AtomicVisibility` with an empty view for a
worker in `torn`. So a torn read spoils the get that made it, whose second round may
even ask for versions that do not exist, but neither the table, the cache, the
puts nor any other get. A get none of whose reads mixed items is not in `torn`,
however many updates it ran beside: what it returns is judged like any other.

The properties hold without the invalid flag, too: it only saves the second
round that a reader of an old item needs. What `CacheFresh` needs is that
`put_all` returns after every `update`.

### CommittedItems and the code

One server's cache, at the grain of statements, because nothing but each entry's
mutex protects it. A worker is a handler with its executor thread; `frame[w]`
holds its local variables and where it stands.

| Code | Actions |
|---|---|
| `prepare`, `CommittedItems::invalidate` | `Prepare`, `InvalidateFind`, then `InvalidateCreate` and `InvalidatePop` (`entries[key]` is evaluated first, then popped into), or `InvalidateAt` and `InvalidateFlag` |
| `Table::commit` | `BeginCommit`, `CommitTest`, `CommitSet`, `CommitDone` |
| `CommittedItems::update`, `Entry::update` | `UpdateAt`, `UpdateHeader`, `UpdateBody` (one cell after the other), `UpdateValid` |
| `get_item_addr` | `AddrFind`, `AddrPop`, `Entry::update`, `AddrSet`, `AddrAt` |
| `RDMAWriteSocket::read` | `CopyCell` (the adapter), `ReadInvalid`, `ReadBody`, `ReadGarbage` |

`copy` chooses the copy of the source: the main one marks an entry valid last and
does not move `latest_commit`; the one under `YCSB-0.5.0` marks it valid first and
does. `loaded` says whether a load of all keys has finished before other puts and
all gets, as the benchmark does it. A null pointer or a missing entry ends the
process (`crashed`), after which nothing happens.

Without a load the properties that name `loaded` fail, as the code has it: a get of
a key whose entry was popped by `invalidate` waits for a flag that comes with the
commit but not into a copy taken before, `update` of a null pointer ends the
process, and two gets of a new key may give clients different addresses. The
memory of the cache is clear at first; the copy under `YCSB-0.5.0` does not clear
it and relies on fresh pages.

### YCSBClient and the code

| Code | Actions |
|---|---|
| `Client.main` | `InitDB`, `Start`, `StartTerminator`, `Join`, `Cleanup`, `Interrupt`, `Exit` |
| `StatusThread`, `TerminatorThread` | `ReportStatus`; `RequestStop`, `TerminatorJoin` |
| `ClientThread.run` | `DoTransaction`, `DoInsert`, `EndThread` |
| `doTransactionRead`, `Update`, `ReadModifyWrite`, `Insert` | `QueueChosen`, `QueueNew`, `Full` |
| `AcknowledgedCounterGenerator.acknowledge` | `TooMany` or `TestSlot`, `MarkSlot`, `TryLock`, `TakeSlot`, `StopMoving`, `Unlock` |
| `RAMPClient.commit` and the native transaction | `Commit`, `PutAll`, `GetAll`, `Clear` |

`put_all` and `get_all` are single steps here; inside they are those of `RAMPFast`.
`PureTransactions` is the assumption `PureTrxs` of `RAMPFast`, and
`LoadsEveryRecord` the one that `CommittedItems` and `ACRAMPFast` make about a load.
`window` is a plain array: the owner of the lock may miss a slot that another
thread has just set, and `StopMoving` may stop there; it sees its own.

### VerbsSocket and the code

`RAMPFast` and `LockBased` assume that a connection delivers one request and one
answer at a time. `Channel` states that assumption, and `VerbsSocket` looks inside
such a connection. `kind` is the
`ComType` that `main` fixes, one of `SEND_RECV`, `RDMA_WRITE` and
`RDMA_WRITE_IMM`; the two ends run the same code, the client as a handler that
sends and waits, the server as an executor that waits and answers. Which request
it is and what it carries does not matter here: a message is its type, its
number and the length of its body.

| Code | Actions |
|---|---|
| constructors | `Init` (buffers posted), `SendKey`, `RecvKey` (exchange of the remote keys) |
| `send_msg` | `Request`, `Answer`, with `GetSendBuf` for `get_send_buf` and `Post` for `append` and `post_send`, `post_write` or `post_write_imm` |
| `recv_header`, `recv_body` | `RecvHeader`; `RecvBody` (`get_body` and `clear_msg_buf`) |
| `send_close`, destructor | `SendClose`, `PollClose`, `Delete` |
| adapter (external) | `TransmitSend`, `PlaceCell`, `Flush`, `Complete` |

The free buffers `send_bufs`, the two work queues and the two completion queues
are sequences of buffer numbers, and each buffer has contents, since what goes
wrong when one is reused too early is that the adapter sends the bytes of
another message. The busy loops (`poll_send_cq`, `poll_recv_cq`, the arrival
flags) are actions that wait for their condition. A buffer is a row of cells and
a write places one cell after the other while the receiver looks on. Completions
reach the sender at any later moment, after the answer too. The two polls of
`send_close` before it posts are one step: no other thread uses the connection.
Receive buffers count as posted when the peer first sends; the adapter repeats a
message that comes earlier (`rdma_connect` without parameters).

## 3. Runs

The run of a component that has an inductive invariant checks it too: `IInv` in
`atomic`, `cache`, `locks`, `verbs` and `ycsb`, `FreshInv` in `fresh`. TLC so finds out
on a small instance what TLAPS proves of all, type correctness included.

| Run | Question |
|---|---|
| `atomic` | does RAMP-Fast implement `AtomicVisibility`, with read atomicity and the second round, for two writers whose write sets overlap only partly, and a reader |
| `ac` | RAMP-Fast with RDMA and torn reads: nothing unprepared gets into the cache; gets that have accepted no torn read see the puts that returned before them and implement `AtomicVisibility`, beside others that have |
| `cache` | for both copies, with and without a load: entries serve one key for good and hold one item whole; reads return prepared versions of the key they ask for; after a load addresses stay valid, nothing crashes and reads end |
| `torn` (violation) | a read that runs beside an update returns bytes of two items (so `ac` lets every read do that) |
| `fresh` | a get that starts after a put returned sees it, if no two transactions write the same key; every transaction finishes, workers are joined, executors end |
| `fresh_race` (violation) | two commits of one key can hide the newer put |
| `locks` | for long and short read locks: no circle of waiting requests, no dirty reads, no lock left behind; with long read locks snapshot reads and `AtomicVisibility` |
| `lock_live` | every locking transaction finishes, with overlapping write sets and colliding clocks; under write locks `latest_commit` never goes back |
| `skipped` (violation) | `put_all` reads the clock before it locks: the PUT that gets the lock later may carry the older timestamp and change nothing |
| `verbs` | the three verbs transports implement `Channel`: messages arrive intact, no buffer is handed out while it may be read, each message finds a receive buffer, and the client gets through `send_close` |
| `close_lost` (violation) | `send_close` may take the completion of an earlier request for that of CLOSE |
| `ycsb` | for loads and runs, with or without terminator and status thread: the transactions are pure, readers are offered acknowledged keys, handlers are alive when called, operations and records are all done, the process exits |

Bounds. Two servers, two or three keys with two of them on one server, at most
three transactions and three workers. Read atomicity relates one reader to two
writers through two keys on two servers, and each action involves one worker
and one server, so a third server or a fourth transaction repeats roles that are
already there; the theorems cover all sizes. `MaxTs` is the number of clock
readings: as many as writers, in any order. Two keys of one transaction share a
server, so that `commit` loops over several items. The instances of `LockBased` have two or three keys of which the
first and the last are on one server, so that the order of the keys alternates
between the servers: a deadlock needs two workers and two keys, a dirty or
unrepeatable read a writer and a reader over two keys, an upgrade of a lock one
transaction that reads what it wrote. Read duration NONE is left to `lock_live` and to
the theorems, since most of what `locks` checks says nothing about it. In `lock_live` the clock gives any of two
readings, equal ones too. Workers are interchangeable, so `atomic` and others declare them a
symmetry set; the refinement checked with it has no liveness part and treats
clients alike. Runs with liveness properties declare none.
`ac` names a `VIEW`, `LiveVars`: it hides what a handler's local variables hold while
the code does not read them before it writes them again (`trx` between two transactions,
`access_coms` outside `put_all`, `ret`, `v_latest`, `floor` and `torn` outside the phases of
`get_all` that use them), and `ret` and `floor` of a torn get once its second round is chosen. No later
step and no property of the run depends on them, so states that differ in nothing else are one.
`cache` has two workers, since each race in the cache is between two threads, two
keys and three entries, of which one is to spare, so that a second entry for a key
can be popped; the body of a loaded item takes two cells, the least that
can be torn, and those of `Item(key)` and of one of the puts one; workers get `MaxGets` = 2 keys together,
enough to learn an address and use it (3 in `torn`). `ycsb` has two threads and three operations, which the
threads cannot share evenly; two slots in the window where the code has 2^20, so
that slots are used again; the bound `KeepsUp` says that no thread keeps a new key
for itself while others generate as many keys as the window has slots (without
it the limit passes that key: its slot is set by another one). `ChosenKeys` lets a
thread read or update the first or the last key it may choose. `verbs` has two buffers where
the code has ten and up to three requests, so that every buffer is used again
and `get_send_buf` has to poll; a packet has four cells, the least that leaves
room for a body of no, one or two cells, an arrival flag and zeros after it. Each mutant in
`PROJECT.json` is a plausible mistake in the code that the named run detects.

Fairness (`Fairness` in `RAMPFast`, `FairSpec` in `LockBased`): weak fairness of every worker, every executor and the
closing loop. Threads are scheduled by the operating system, sockets block until
the answer is there, and the network delivers what is sent; no action is
repeatedly enabled and disabled by others, so nothing stronger is assumed. A
request for a lock is the exception: other holders come and go. Weak fairness
still suffices because a run has finitely many transactions; it says nothing
about an endless stream of readers, which the read-write lock may prefer.
`FairSpec` of `VerbsSocket` is weak fairness of each end's thread and of each
adapter. The runs of `VerbsSocket` do not check for deadlock, because a
connection comes to rest when it is closed, and when a CLOSE is lost the server
waits for ever. `Fairness` of `YCSBClient` is weak fairness of main, of the status
thread and of each client thread; the terminator's sleep may last as long as it
likes. Run `ycsb` does not check for deadlock because the process exits, run
`cache` because puts and gets run out.

What the violations show about the code:

* `torn`: the mutex of an entry keeps executors apart, but a client's adapter
  copies the entry without it, and nothing in it tells an old cell from a new one.
* `fresh_race`: the assignment to `latest_commit` in the YCSB copy compares and
  stores in two steps without a lock.
* `skipped`: with long locks, transactions are ordered by their locks but
  versions by the earlier clock reading; `Table::commit(key, ts)` drops the later
  PUT if its reading is older, and the client is answered DONE.
* `close_lost`: an answer may arrive before the completion of its request. If
  that completion comes after `send_close` has emptied the queue, the poll that
  is to wait for CLOSE returns at once, and `close_all` deletes the connection
  with CLOSE still posted. The executor then never leaves its loop.

Two more weaknesses are preconditions of the models rather than runs. In
`src/server/data/Table.cpp` `commit` has already created the entry with
`operator[]` when it calls `insert`, which then does nothing: with `CommitAssigns`
set to FALSE no put ever becomes visible and `FreshReads` fails; the runs use the
assignment of the YCSB copy. And `Timestamp::now` is the bare microsecond: with
`DistinctTs` set to FALSE two transactions that share a reading share a bucket of
`Table::items`, and `ReadAtomic` fails.

## 4. Theorems

`RAMPFastProofs` proves, for every value of the constants allowed by
`ConstantsAssumption`:

* `TypeCorrect`: `Spec => []TypeOK`, assuming nothing else.
* `WriteInvariant` and `VisibleCorrect`, assuming `DistinctTs`.
* `RoundsInvariant`, `PreparedReads` and `SecondRoundAnswered`, assuming also
  `PureTrxs`, for RAMP-Fast and NO_CC.
* `Invariance` (the inductive invariant as a whole) and `ReadAtomicity`, assuming
  `DistinctTs`, `PureTrxs` and `TrxType = "RAMP_FAST"`.

It also proves `Refinement` under the assumptions of
`ReadAtomicity`: `RAMPFast` implements `AtomicVisibility`. A step changes the stamps
or one client's view, never both. Only `PutAll` and `Prepare` can change a stamp, and
only that of their own transaction; a view that appears with `GetAllReturn` shows
the set of prepared transactions that are, on every key the reader has, no newer
than what it returned, and parts 3 and 5 of the invariant make that set show
exactly what `ret` holds.

`RAMPFastFreshProofs` proves, assuming `DistinctTs`, `PureTrxs` and `CommitAssigns`,
for RAMP-Fast and NO_CC:

* `LatestOnlyMovesOn`: in a run in which no two workers commit the same key at
  the same time (`CommitsApart`), no step moves a `latest_commit` back.
* `FreshInvariance`: in such a run `FreshInv`, the invariant of run `fresh`, holds.
* `FreshWhileApart`: in such a run a get sees every put that returned before it began.
* `FreshIfPartitioned`: so it does in every run, if no key is written by two transactions.

`CommitsApart` is what the workload has to provide, because `Table::commit`, which
takes no lock, does not; `fresh_race` shows that it cannot be left out.
`CommitAssigns` is the copy under `YCSB-0.5.0`: in the main copy no put becomes visible.

`ACRAMPFastProofs` proves, under the assumptions of `ReadAtomicity`:

* `Simulation`: seen without its cache (`Plain`), `ACRAMPFast` starts as `RAMPFast` does, and
  each of its steps (`PlainStep`) is one of `RAMPFast`, or answers a GET of the first round with any
  version that is prepared everywhere rather than with that of `latest_commit`, or
  is a torn read: it answers with whatever, and the worker is in `torn` from then on.
* `ACInvariance`, `CacheIsPrepared`: so it is because nothing else ever gets into the cache.
* `CacheRefinement`: `ACRAMPFast` implements `AtomicVisibility` for the workers that are not in `torn`.
* `FreshCacheInvariance`, `CacheIsFresh`: if `CommitAssigns` too, a get that has accepted no torn read
  sees every put that returned before it began, from the cache as from the table, on the keys that no other
  transaction writes. Keys that are written twice are left to the race of `fresh_race`.

A RAMP-Fast whose first answers are any prepared versions keeps the whole invariant of `RAMPFast`
(`LooseInvariance` of `RAMPFastProofs`): atomicity rests on what a first answer is made of, never on how new it
is. And the part of the invariant that is about readers speaks of each reader by
itself: it is proved for a set `W` of workers (`LooseNext(W)`), whose reads are answered like that,
while the reads of the others may be answered with anything. `ACRAMPFastProofs` uses these lemmas with
the workers outside `torn` for `W`, a set that changes as reads tear and gets begin.

`LockBasedProofs` and `LockBasedVisibleProofs` prove, for every value allowed by
`LockAssumption`:

* `LockTypeCorrect`: `Spec => []TypeOK`.
* `LockInvariant` and `NoLockLeftBehind`, assuming `WriteDuration # "NONE"`.
* `DeadlockFree`, assuming also that the set of keys is finite.
* `LatestNeverGoesBack`, `CommitsMoveForward` of run `lock_live`, with no further
  assumption: `commit` compares and stores under the write lock that `put` has taken.
* `Invariance` (the inductive invariant as a whole), `NoReadUncommitted` and
  `ReadsRepeat`, assuming `WriteDuration = "LONG"`.
* `Refinement`, assuming also `Clock # "any"`: `LockBased` implements `AtomicVisibility`.

`WriteDuration # "NONE"` excludes a setting that `server_main.cpp` never
makes: `put` would take write locks and never release them; LONG is the only one it makes.
`Clock # "any"` says that no two transactions read the same time; it is `DistinctTs`
under another name.

`CommittedItemsProofs` proves, for every size of the pool and every length of the items:

* `CacheInvariance`, `Types`, `EntryServesOneKey`, `EntriesWhole` and
  `ReadsArePrepared`, assuming nothing else, whether a load comes first or not
  and for both copies of the source.
* `LoadInvariance`, `AddressesStayCurrent` and `NobodyCrashes`, assuming `LoadsOnce`: the
  load puts every key once and there are entries enough. YCSB's load does the first
  (`RecordsAreLoaded` below); `ENTRY_NUM` is a constant of the source, and a pool that
  runs out ends the process. `NobodyCrashes` says that after such a load no executor meets a null
  pointer in the map or a key without an entry. What becomes of a body that does not fit into its entry
  is not modelled (`Buffer::update` ends the process; the copy under `YCSB-0.5.0` does not look at sizes).
* `ReadInvariance` and `EveryReadEnds`, assuming also `LoadsLongest`: no put is longer than
  the load of its key. That is so with YCSB's default, by which a load writes all
  fields and an update one. The code does not see to it: with `writeallfields` the
  names of the sibling keys, which are part of the item, make an update longer than the
  load. Beside such an update `read` may copy the new header and zeros
  where the flag will be, and spins on them for ever.

`YCSBClientProofs` proves, for every number of threads and every size of the window, and
for every number of records and of operations that gives each thread at least one of
them (`YCSBAssumption`): `Invariance`, `TransactionsArePure`,
`OfferedAreAcknowledged`, `HandlersAreAlive`, `OperationsCounted` and `RecordsAreLoaded`.
The assumption is one the code does not check. `ClientThread.run` takes a share of 0 for
"without end" (`HasMore`): with more threads than operations the threads that get none
go on until a stop is requested, in a load they insert more records than were asked for, and without a
terminator the process does not exit. Run `ycsb`, `EventuallyExits` in particular, assumes it as well.
The bound `KeepsUp` (section 3) is a guard of the model and so part of what they are about.

`VerbsSocketProofs` proves, for every size of the window and of a packet and for the
three transports:

* `Invariance`, `Intact`, `BuffersApart` and `Refinement`: a connection is a `Channel`.
* `ReceiversReady`, assuming `Window > 1`. `PACKET_WINDOW_SIZE` is 10; with a window of 1
  the completion of the key, when it is not polled yet, has the only buffer.

The assumptions of `RAMPFastProofs` are preconditions of the algorithm that the code does not
enforce. `DistinctTs`: see section 3. `PureTrxs`: a
transaction that writes reads only keys it writes, as those of YCSB do
(`TransactionsArePure`). `put_all` sends
`access_keys`, which also holds the keys that are only read, as the siblings of
a version; for those the second round would ask for versions nobody wrote.

Few of the properties are inductive. The invariant of `RAMPFast` (`RAMPFastInv`)
says:

1. *Control* (`ControlOK`, `MessagesOK`, `LoopOK`): transactions are not shared
   by workers, a message is under way only in the phase that sends it, and the
   loop of `commit` stays inside the items it began with. With `TypeOK` the
   first two are inductive on their own.
2. *Store* (`UniqueTs`, `ItemsOK`): a timestamp belongs to one transaction and
   every stored item is what that transaction writes there.
3. *Prepare before commit* (`PrepareOK`, `CommitOK`, `VisibleIsPrepared`): while
   preparing, each key is to send, under way or stored; so when `AllAnswered`
   holds everything is stored, and only then commits begin.
4. *Rounds* (`ReturnedOK`, `LatestOK`, `RequestsOK`, `AnswersOK`): what a reader
   has is readable, what it asks for exists, and it gets what it asked for.
5. *Closure* (`ClosedOK`, `CompleteOK`): `v_latest` covers the siblings of every
   item returned or about to be returned, and whatever is older than `v_latest`
   is still on its way. When nothing is on its way any more, this is read
   atomicity.

`StoreGrows` and `HoldsStable` (nothing stored is taken back), `Writers` (which
action writes which variable) and `ReaderSteps` (how a step can move a reader)
keep the proofs of the parts short.

`RAMPFastFreshInv` adds what freshness needs:

1. *Commit* (`CommitInv`): a key that is being committed is still to be sent to, under
   way, ahead of the loop of `commit`, or already at the put's timestamp or a newer
   one; when `AllAnswered` holds, only the last is left, and so a returned put is
   visible on all its keys. `ComparedOK` says that what the comparison found
   still holds at the store, which is where `CommitsApart` is needed.
2. *Floor* (`FloorOK`, `FreshAnswersOK`, `FreshRoundsOK`): what a get recorded when it
   began stays visible, no answer is older, and the second round asks for nothing older.

The invariant of `ACRAMPFast` (`ACRAMPFastInv`) is that of `RAMPFast` for the mapped
connections and executors, and what the mapping leaves out: an executor
changes the cache only between a request and its answer (`ExecutorOK`), every entry holds
what an executor may return (`CacheOK`), and so every part that an adapter has copied is of
such an item (`SeenOK`). Of the invariant of `RAMPFast` it takes the write side for all workers
(`Plain!WriteInv`, with `AccessOK` and `PendingOK` of the freshness proofs) and the read side
(`Plain!ReadInv`) for the workers in `Intact`, those outside `torn`; a worker joins
them again with the next `get_all`, when it has returned nothing yet. The mapping takes a read
of the cache for a GET without an answer, an executor that is about to invalidate for one that has answered, and one
that is about to update for one that has gone on to the next item.

`CacheFresh` is not a matter of that mapping, since a loose first round may be as old as it
likes. `FreshCacheInv` says where the version of a key of `Once`, one that a single
transaction writes, has got to (`Reached`: neither `latest_commit` nor the entry of the
cache is of the load):

1. *Order of commit* (`UpdatingOK`, `CachedOK`): `Table::commit` stores the timestamp first
   and updates the entry then, so a timestamp without an entry has an executor at the update.
   With this the test of `commit` takes the branch "not newer" only where the key is
   reached: the loop that tests is that of its only writer, and it is not at the update.
2. *Puts* (`CommittingOK`, `ReturnedPutsOK`): a key of a put that commits is still to be sent
   to, under way (`Sent`), ahead of the loop (`Ahead`) or reached; when the put returns, reached.
3. *Gets* (`RecordedOK`, and `FreshAnswersOK`, `FreshRoundsOK`, `FreshReadsOf` of `RAMPFastFreshInv`,
   which take the set of keys they are about): what a get records when it begins is reached,
   no answer is older, be it an executor's or the cache's, and the second round asks for nothing older.
   No part that an adapter copies is older either (`FreshSeenOK`), be it of the item in the entry
   or of one that is being written, which only the single writer of the key can do.

The invariant of `LockBased` (`LockBasedInv`) says:

1. *Control* (`ControlOK`, `MessagesOK`, `OneRequest`): messages are under way
   only in the phase that sends them, an executor is inside `put` or `get` only
   while that request is unanswered, and a handler waits for one answer at a time.
2. *Exclusion* (`ExclusionOK`): a writer excludes everyone else, and an executor
   at work with a key has the lock it asked for.
3. *Release* (`LocksOK`): a lock that is held is remembered in `access_keys` or
   being worked with, and a server that remembers locks is still to be told to
   release them. `NoLockLeft` follows.
4. *Order* (`OrderOK`): what a worker holds comes before what it asks for, and
   that before what is still to do. In a circle of waiting workers the one that
   asks for the greatest key waits for a worker that holds it and therefore asks
   for a greater one: `NoCircularWait` follows.

5. *Table* (`RunOK`, `UniqueTs`, `PutsOK`, `StoreOK`, `CommittedOK`, `HiddenOK`): what a
   put has done with is as new as its transaction, and until all of it is
   done its items are behind its write locks.
6. *Reads* (`ReadableOK`, `RepeatOK`, `SnapshotOK`): an item that a get took under a
   lock is of no transaction that is still putting; under long locks it is what
   the table holds until the last key is read. At that moment no writer is between
   two keys of the reader, so what was read is whole, and it stays so when the
   locks are released.

`PutDoneEffect` and `GetItemEffect` sum up the two steps that touch locks,
`access_keys` and the connection at once. The refinement follows as that of `RAMPFast`
does: the last answered PUT publishes a transaction, and the view that appears
with `Return` is, by `SnapshotOK`, what the published transactions up to it leave behind.

The invariant of `CommittedItems` (`CommittedItemsInv`) has three layers:

1. *Whatever runs* (`CacheInv`): which local variables mean something at which
   statement (`FrameOK`); keys are known to the map before they are committed
   (`KnownOK`); an entry is in the pool once or serves one key (`PoolOK`); the holder of
   an entry's mutex has written all the cells it is past (`MutexOK`), so that an entry
   nobody updates holds one item; and every cell, in an entry or in a reader's
   buffer, is of a prepared item of that entry's key (`MemOK`, `BufferOK`).
2. *After a load* (`LoadInv`): every key has its entry, addresses that clients or
   executors remember are those of the map, and filled entries and unused ones make up the pool
   (`PoolCount`), so that the pool cannot run out while a loader still needs an entry.
3. *Reads after a load* (`ReadInv`): once a loaded item has arrived in the entry of its key,
   none of the cells it takes is ever clear again, and the header never points behind them;
   the same holds of what a client has copied.

The invariant of `YCSBClient` (`YCSBClientInv`) counts: the operations of all threads are
numbered, each key that is generated uses up one of the puts they have room for, and
thread `t` has those whose number is `t` less one modulo the number of threads, whatever remainder
that leaves. Of the window it says that keys which are not marked yet lie in the last
`WINDOW_SIZE` of all, and that a slot is set exactly when it is that of one marked key
that the limit has not passed. Two keys so near each other cannot share a slot
(`UniqueDivision`), and therefore whoever moves the limit over a set slot moves it over
an acknowledged key.

The invariant of `VerbsSocket` (`VerbsSocketInv`) says:

1. *Conversation* (`TalkOK`, `BodiesOK`): at each pair of program counters, what
   each end has sent last and what the other has read of it.
2. *Message under way* (`KeyOK`, `QueueOK`, `WriteBufOK`, `ArrivedOK`): the send queue
   has at most two entries, the key or the tail of the message before in front of the
   last message; `write_buf` shows the cells of that message placed so far and nothing else,
   and a completion is for the key or for a message that is whole.
3. *Buffers* (`ReceiveOK`, `BuffersOK`): each receive buffer is posted, filled or being
   read; each send buffer is free, posted, sent or completed, and only one of these.

Model-checked only:

* `ClientCloses` of `VerbsSocket` and every other liveness property: liveness under fairness is out
  of the prover's reach, and so is `ENABLED`.
* The violations, which are about single behaviours, and NO_CC, which the theorems of `RAMPFastProofs`
  and `RAMPFastFreshProofs` cover where they do not assume RAMP-Fast but no run does.

## 5. Plan

1. `RAMPFast`, `LockBased`, `VerbsSocket` with their runs (done); type correctness,
   read atomicity, lock invariant and deadlock freedom proved (done).
2. `AtomicVisibility` and the refinements of `RAMPFast` and `LockBased`, `Channel` and that
   of `VerbsSocket` (checked and proved).
3. `CommittedItems`, `ACRAMPFast`, `YCSBClient` with their runs (done).
4. Theorems about the cache, the reads of `LockBased`, freshness, the YCSB client and the
   buffers of `VerbsSocket`; the simulation of `RAMPFast` by `ACRAMPFast` and what follows
   from it, and the freshness of the cache (done).

## 6. Not modelled

* Option parsing and configuration, set-up of connections before the exchange of
  keys, logging and statistics, generation of random transactions (instances give
  the transactions), message packing, vendored libraries.
* `TCPSocket`: a blocking byte stream. `read` and `write` may move fewer bytes than
  asked, which the code does not check; a short read of a body leaves the stream
  out of step for good. The stream and its segments are the kernel's.
* Of YCSB: command line, measurements, throttling, distributions of keys, other
  workloads and generators, bindings of other databases; `RAMPClient.delete`, which
  no workload calls. `RAMPClient.read` never fills the map of results it is given,
  so nothing in the benchmark depends on what a get returned.
* Messages that do not fit into `PACKET_SIZE` end the process (`Buffer::append`).
  Items that do not fit into an entry of the cache.
* Crashes: the program keeps nothing on disk and every error path of its sockets
  calls `exit`.

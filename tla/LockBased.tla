----------------------------- MODULE LockBased ------------------------------
(***************************************************************************)
(* Locking transactions: LockBasedHandler on the client, LockBasedExecutor *)
(* and the LockManager on every server, and the part of Table they use.    *)
(* The handler walks the keys of a transaction one by one in the order of  *)
(* std::map; an executor takes the read-write lock of a key before it      *)
(* touches the table and keeps it, or not, as the lock durations say.      *)
(*                                                                         *)
(* A key stands for its rank in the order of std::map, so Keys are         *)
(* numbers.  An executor is named by its worker and its server, and as a   *)
(* key is on one server, the worker alone names the holder of its lock.    *)
(***************************************************************************)
EXTENDS Naturals, FiniteSetsExt

CONSTANTS
    Keys, Servers, Workers, Trxs,
    NoTrx, NoWorker,
    ServerOf,            \* the server that the hash of a key selects
    WriteSet, ReadSet,   \* Transaction::write_set and read_set
    MaxTs,               \* bound on the clock readings used by a run
    Clock,               \* what is known of the clock: see Reads
    WriteDuration,       \* Config::write_duration
    ReadDurations        \* the values Config::read_duration may be set to

Timestamps == 1..MaxTs
TsOrEmpty == 0..MaxTs    \* 0 is Timestamp(), the timestamp for which is_empty()

ASSUME LockAssumption ==
    /\ Keys \subseteq Nat
    /\ NoTrx \notin Trxs
    /\ NoWorker \notin Workers
    /\ ServerOf \in [Keys -> Servers]
    /\ WriteSet \in [Trxs -> SUBSET Keys]
    /\ ReadSet \in [Trxs -> SUBSET Keys]
    /\ MaxTs \in Nat
    /\ Clock \in {"any", "distinct", "increasing"}
    /\ WriteDuration \in {"LONG", "SHORT", "NONE"}
    /\ ReadDurations \subseteq {"LONG", "SHORT", "NONE"}

VARIABLES
    \* client
    queue,          \* TrxQueue::queue, whose order random_shuffle leaves open
    trx,            \* TrxHandler::trx of each worker
    pc,             \* where the worker's ClientThread::run stands
    trx_ts,         \* the timestamp put_all took for each transaction
    todo,           \* keys the for loop of put_all or get_all has not reached
    access_coms,    \* ConnectionPool::access_coms
    pending_coms,   \* connections send_to_all has not started yet
    ret,            \* get_all's ret
    \* connections
    conn,
    \* servers
    read_duration,  \* Config::read_duration, set by main: LONG for rr and for the
                    \* main copy's 2PL, SHORT for rc and NONE for ru
    at,             \* where each executor thread stands
    access_keys,    \* LockBasedExecutor::access_keys
    writer,         \* the executor that holds the lock of a key for writing
    readers,        \* the executors that hold it for reading
    items,          \* whose item comes first for a key in items.at(ts)
    latest_commit   \* Table::latest_commit

workerVars == <<queue, trx, pc, trx_ts, todo, access_coms, pending_coms, ret>>
lockVars == <<writer, readers>>
tableVars == <<items, latest_commit>>
vars == <<workerVars, conn, read_duration, at, access_keys, lockVars, tableVars>>

-----------------------------------------------------------------------------
(* Items and messages *)

Version == [trx : Trxs \cup {NoTrx}, ts : TsOrEmpty]

EmptyItem == [trx |-> NoTrx, ts |-> 0]

Message ==
         [type : {"PUT"}, key : Keys, trx : Trxs, ts : Timestamps]
    \cup [type : {"GET"}, key : Keys]
    \cup [type : {"RESULT"}, key : Keys, item : Version]
    \cup [type : {"none", "RELEASE_LOCKS", "DONE", "CLOSE"}]

NoMsg == [type |-> "none"]

Send(w, s, m) == conn' = [conn EXCEPT ![w][s] = m]

Idle(w) == \A s \in Servers : conn[w][s] = NoMsg

Init ==
    /\ queue = Trxs
    /\ trx = [w \in Workers |-> NoTrx]
    /\ pc = [w \in Workers |-> "pop"]
    /\ trx_ts = [t \in Trxs |-> 0]
    /\ todo = [w \in Workers |-> {}]
    /\ access_coms = [w \in Workers |-> {}]
    /\ pending_coms = [w \in Workers |-> {}]
    /\ ret = [w \in Workers |-> [k \in Keys |-> EmptyItem]]
    /\ conn = [w \in Workers |-> [s \in Servers |-> NoMsg]]
    /\ read_duration \in ReadDurations
    /\ at = [w \in Workers |-> [s \in Servers |-> "recv"]]
    /\ access_keys = [w \in Workers |-> [s \in Servers |-> {}]]
    /\ writer = [k \in Keys |-> NoWorker]
    /\ readers = [k \in Keys |-> {}]
    /\ items = [k \in Keys |-> [t \in Timestamps |-> NoTrx]]
    /\ latest_commit = [k \in Keys |-> 0]

-----------------------------------------------------------------------------
(* ClientThread::run *)

Pop(w) ==
    /\ pc[w] = "pop"
    /\ \E t \in queue :
        /\ queue' = queue \ {t}
        /\ trx' = [trx EXCEPT ![w] = t]
        /\ pc' = [pc EXCEPT ![w] = IF WriteSet[t] # {} THEN "put_all"
                                   ELSE IF ReadSet[t] # {} THEN "get_all"
                                   ELSE "returned"]
    /\ UNCHANGED <<trx_ts, todo, access_coms, pending_coms, ret,
                   conn, at, access_keys, lockVars, tableVars, read_duration>>

\* try_pop finds the queue empty and the thread ends.
Exit(w) ==
    /\ pc[w] = "pop"
    /\ queue = {}
    /\ pc' = [pc EXCEPT ![w] = "exit"]
    /\ UNCHANGED <<queue, trx, trx_ts, todo, access_coms, pending_coms, ret,
                   conn, at, access_keys, lockVars, tableVars, read_duration>>

Finish(w) ==
    /\ pc[w] = "returned"
    /\ access_coms' = [access_coms EXCEPT ![w] = {}]
    /\ pc' = [pc EXCEPT ![w] = "pop"]
    /\ UNCHANGED <<queue, trx, trx_ts, todo, pending_coms, ret,
                   conn, at, access_keys, lockVars, tableVars, read_duration>>

\* Client::check_finish joins every worker before close_all sends CLOSE.
SendClose(w, s) ==
    /\ \A v \in Workers : pc[v] = "exit"
    /\ conn[w][s] = NoMsg
    /\ at[w][s] # "closed"
    /\ Send(w, s, [type |-> "CLOSE"])
    /\ UNCHANGED <<workerVars, at, access_keys, lockVars, tableVars, read_duration>>

-----------------------------------------------------------------------------
(* LockBasedHandler *)

\* gettimeofday on hosts of their own gives any reading; "distinct" rules out
\* that two transactions read the same one, and "increasing" is a single host
\* whose transactions never start within one microsecond.
Reads(now) ==
    /\ Clock # "any" => \A t \in Trxs : trx_ts[t] # now
    /\ Clock = "increasing" => \A t \in Trxs : trx_ts[t] < now

PutAll(w) ==
    /\ pc[w] = "put_all"
    /\ \E now \in Timestamps :
        /\ Reads(now)
        /\ trx_ts' = [trx_ts EXCEPT ![trx[w]] = now]
    /\ todo' = [todo EXCEPT ![w] = WriteSet[trx[w]]]
    /\ pc' = [pc EXCEPT ![w] = "put"]
    /\ UNCHANGED <<queue, trx, access_coms, pending_coms, ret,
                   conn, at, access_keys, lockVars, tableVars, read_duration>>

GetAll(w) ==
    /\ pc[w] = "get_all"
    /\ ret' = [ret EXCEPT ![w] = [k \in Keys |-> EmptyItem]]
    /\ todo' = [todo EXCEPT ![w] = ReadSet[trx[w]]]
    /\ pc' = [pc EXCEPT ![w] = "get"]
    /\ UNCHANGED <<queue, trx, trx_ts, access_coms, pending_coms,
                   conn, at, access_keys, lockVars, tableVars, read_duration>>

\* The keys the loop may visit next: the first in the order of std::map.
\* AnyKey is the faulty variant over an unordered container.
AnyKey(S) == S
FirstKey(S) == {k \in S : \A j \in S : k <= j}

\* One request at a time: the loop waits for each answer.
SendKey(w, k, m) ==
    /\ k \in FirstKey(todo[w])
    /\ Idle(w)
    /\ todo' = [todo EXCEPT ![w] = @ \ {k}]
    /\ access_coms' = [access_coms EXCEPT ![w] = @ \cup {ServerOf[k]}]
    /\ Send(w, ServerOf[k], m)
    /\ UNCHANGED <<queue, trx, pc, trx_ts, pending_coms, ret,
                   at, access_keys, lockVars, tableVars, read_duration>>

\* The item of a PUT; PutEmpty is the faulty variant that forgets Timestamp::now().
PutEmpty(t, k) == [type |-> "PUT", key |-> k, trx |-> t, ts |-> 0]
Put(t, k) == [type |-> "PUT", key |-> k, trx |-> t, ts |-> trx_ts[t]]

SendPut(w, k) ==
    /\ pc[w] = "put"
    /\ SendKey(w, k, Put(trx[w], k))

SendGet(w, k) ==
    /\ pc[w] = "get"
    /\ SendKey(w, k, [type |-> "GET", key |-> k])

RecvDone(w, s) ==
    /\ conn[w][s].type = "DONE"
    /\ Send(w, s, NoMsg)
    /\ UNCHANGED <<workerVars, at, access_keys, lockVars, tableVars, read_duration>>

RecvResult(w, s) ==
    /\ conn[w][s].type = "RESULT"
    /\ ret' = [ret EXCEPT ![w][conn[w][s].key] = conn[w][s].item]
    /\ Send(w, s, NoMsg)
    /\ UNCHANGED <<queue, trx, pc, trx_ts, todo, access_coms, pending_coms,
                   at, access_keys, lockVars, tableVars, read_duration>>

\* NoServer is the faulty variant that releases nowhere.
NoServer(w) == {}
ReleaseAt(w) == access_coms[w]

\* send_to_all(RELEASE_LOCKS) starts when the loop is over.
BeginRelease(w) ==
    /\ pc[w] \in {"put", "get"}
    /\ todo[w] = {}
    /\ Idle(w)
    /\ pending_coms' = [pending_coms EXCEPT ![w] = ReleaseAt(w)]
    /\ pc' = [pc EXCEPT ![w] = IF @ = "put" THEN "release_put" ELSE "release_get"]
    /\ UNCHANGED <<queue, trx, trx_ts, todo, access_coms, ret,
                   conn, at, access_keys, lockVars, tableVars, read_duration>>

SendRelease(w, s) ==
    /\ s \in pending_coms[w]
    /\ pending_coms' = [pending_coms EXCEPT ![w] = @ \ {s}]
    /\ Send(w, s, [type |-> "RELEASE_LOCKS"])
    /\ UNCHANGED <<queue, trx, pc, trx_ts, todo, access_coms, ret,
                   at, access_keys, lockVars, tableVars, read_duration>>

Return(w) ==
    /\ pc[w] \in {"release_put", "release_get"}
    /\ pending_coms[w] = {}
    /\ Idle(w)
    /\ pc' = [pc EXCEPT ![w] = IF @ = "release_put" /\ ReadSet[trx[w]] # {}
                               THEN "get_all" ELSE "returned"]
    /\ UNCHANGED <<queue, trx, trx_ts, todo, access_coms, pending_coms, ret,
                   conn, at, access_keys, lockVars, tableVars, read_duration>>

-----------------------------------------------------------------------------
(* LockBasedExecutor, LockManager and Table *)

\* pthread_rwlock_t.  NotWriting is the faulty variant of a write lock that
\* waits for writers only, and Always that of one that does not wait.
NotWriting(k) == writer[k] = NoWorker
Always(k) == TRUE
CanReadLock(k) == writer[k] = NoWorker
CanWriteLock(k) == writer[k] = NoWorker /\ readers[k] = {}

\* Which locks stay held when the request has been answered.
Dropped == FALSE
KeepsWriteLock == WriteDuration = "LONG"
KeepsReadLock == read_duration = "LONG"

\* put(item): write_lock, then Table::put, whose prepare and commit(key, ts)
\* are steps of their own because unlocked readers run between them.
WriteLock(w, s) ==
    /\ conn[w][s].type = "PUT"
    /\ at[w][s] = "recv"
    /\ CanWriteLock(conn[w][s].key)
    /\ writer' = [writer EXCEPT ![conn[w][s].key] = w]
    /\ at' = [at EXCEPT ![w][s] = "locked"]
    /\ UNCHANGED <<workerVars, conn, access_keys, readers, tableVars, read_duration>>

\* Table::prepare appends to the vector of the timestamp; get_item_by_ver
\* returns the first item for the key, so a later one is never seen.
PutItem(w, s) ==
    LET m == conn[w][s]
    IN  /\ m.type = "PUT"
        /\ at[w][s] = "locked"
        /\ items' = [items EXCEPT ![m.key][m.ts] = IF @ = NoTrx THEN m.trx ELSE @]
        /\ at' = [at EXCEPT ![w][s] =
                    IF latest_commit[m.key] < m.ts THEN "set" ELSE "answer"]
        /\ UNCHANGED <<workerVars, conn, access_keys, lockVars, latest_commit, read_duration>>

CommitKey(w, s) ==
    LET m == conn[w][s]
    IN  /\ at[w][s] = "set"
        /\ latest_commit' = [latest_commit EXCEPT ![m.key] = m.ts]
        /\ at' = [at EXCEPT ![w][s] = "answer"]
        /\ UNCHANGED <<workerVars, conn, access_keys, lockVars, items, read_duration>>

PutDone(w, s) ==
    LET k == conn[w][s].key
    IN  /\ at[w][s] = "answer"
        /\ IF KeepsWriteLock
           THEN access_keys' = [access_keys EXCEPT ![w][s] = @ \cup {k}]
           ELSE UNCHANGED access_keys
        /\ writer' = [writer EXCEPT ![k] = IF WriteDuration # "NONE" /\ ~KeepsWriteLock
                                           THEN NoWorker ELSE @]
        /\ at' = [at EXCEPT ![w][s] = "recv"]
        /\ Send(w, s, [type |-> "DONE"])
        /\ UNCHANGED <<workerVars, readers, tableVars, read_duration>>

\* get(key): the lock is not taken when read_duration is NONE.
ReadLock(w, s) ==
    LET k == conn[w][s].key
    IN  /\ conn[w][s].type = "GET"
        /\ at[w][s] = "recv"
        /\ read_duration # "NONE"
        /\ CanReadLock(k)
        /\ readers' = [readers EXCEPT ![k] = @ \cup {w}]
        /\ at' = [at EXCEPT ![w][s] = "locked"]
        /\ UNCHANGED <<workerVars, conn, access_keys, writer, tableVars, read_duration>>

LatestItem(k) ==
    IF latest_commit[k] = 0 THEN EmptyItem
    ELSE [trx |-> items[k][latest_commit[k]], ts |-> latest_commit[k]]

GetItem(w, s) ==
    LET k == conn[w][s].key
    IN  /\ conn[w][s].type = "GET"
        /\ at[w][s] = IF read_duration = "NONE" THEN "recv" ELSE "locked"
        /\ IF KeepsReadLock
           THEN /\ access_keys' = [access_keys EXCEPT ![w][s] = @ \cup {k}]
                /\ UNCHANGED readers
           ELSE /\ readers' = [readers EXCEPT ![k] = @ \ {w}]
                /\ UNCHANGED access_keys
        /\ at' = [at EXCEPT ![w][s] = "recv"]
        /\ Send(w, s, [type |-> "RESULT", key |-> k, item |-> LatestItem(k)])
        /\ UNCHANGED <<workerVars, writer, tableVars, read_duration>>

\* LockManager::unlock takes the keys one after the other.
Unlock(w, s) ==
    /\ conn[w][s].type = "RELEASE_LOCKS"
    /\ \E k \in FirstKey(access_keys[w][s]) :
        /\ writer' = [writer EXCEPT ![k] = IF @ = w THEN NoWorker ELSE @]
        /\ readers' = [readers EXCEPT ![k] = @ \ {w}]
        /\ access_keys' = [access_keys EXCEPT ![w][s] = @ \ {k}]
    /\ UNCHANGED <<workerVars, conn, at, tableVars, read_duration>>

ReleaseDone(w, s) ==
    /\ conn[w][s].type = "RELEASE_LOCKS"
    /\ access_keys[w][s] = {}
    /\ Send(w, s, [type |-> "DONE"])
    /\ UNCHANGED <<workerVars, at, access_keys, lockVars, tableVars, read_duration>>

\* The executor leaves its loop and deletes the connection.
HandleClose(w, s) ==
    /\ conn[w][s].type = "CLOSE"
    /\ at' = [at EXCEPT ![w][s] = "closed"]
    /\ Send(w, s, NoMsg)
    /\ UNCHANGED <<workerVars, access_keys, lockVars, tableVars, read_duration>>

-----------------------------------------------------------------------------
(* The whole system *)

WorkerStep(w) ==
    \/ Pop(w) \/ Exit(w) \/ Finish(w)
    \/ PutAll(w) \/ GetAll(w) \/ BeginRelease(w) \/ Return(w)
    \/ \E k \in Keys : SendPut(w, k) \/ SendGet(w, k)
    \/ \E s \in Servers : SendRelease(w, s) \/ RecvDone(w, s) \/ RecvResult(w, s)

ExecutorStep(w, s) ==
    \/ WriteLock(w, s) \/ PutItem(w, s) \/ CommitKey(w, s) \/ PutDone(w, s)
    \/ ReadLock(w, s) \/ GetItem(w, s)
    \/ Unlock(w, s) \/ ReleaseDone(w, s) \/ HandleClose(w, s)

Terminated == \A w \in Workers, s \in Servers : at[w][s] = "closed"

\* The client process ends; the steps it no longer takes are no deadlock.
Terminating == Terminated /\ UNCHANGED vars

Next ==
    \/ \E w \in Workers : WorkerStep(w)
    \/ \E w \in Workers, s \in Servers : ExecutorStep(w, s) \/ SendClose(w, s)
    \/ Terminating

Spec == Init /\ [][Next]_vars

\* Every thread keeps being scheduled and the network delivers what is sent.
\* Weak fairness suffices for the locks too: the transactions of a run are
\* finitely many, so a waiting request is not overtaken for ever.
FairSpec ==
    /\ Spec
    /\ \A w \in Workers : WF_vars(WorkerStep(w))
    /\ \A w \in Workers, s \in Servers :
          WF_vars(ExecutorStep(w, s)) /\ WF_vars(SendClose(w, s))

-----------------------------------------------------------------------------
(* Properties *)

\* Every variable stays in the set of values its code can hold.
TypeOK ==
    /\ queue \subseteq Trxs
    /\ trx \in [Workers -> Trxs \cup {NoTrx}]
    /\ pc \in [Workers -> {"pop", "put_all", "put", "release_put", "get_all",
                           "get", "release_get", "returned", "exit"}]
    /\ trx_ts \in [Trxs -> TsOrEmpty]
    /\ todo \in [Workers -> SUBSET Keys]
    /\ access_coms \in [Workers -> SUBSET Servers]
    /\ pending_coms \in [Workers -> SUBSET Servers]
    /\ ret \in [Workers -> [Keys -> Version]]
    /\ conn \in [Workers -> [Servers -> Message]]
    /\ read_duration \in ReadDurations
    /\ at \in [Workers -> [Servers -> {"recv", "locked", "set", "answer", "closed"}]]
    /\ access_keys \in [Workers -> [Servers -> SUBSET Keys]]
    /\ writer \in [Keys -> Workers \cup {NoWorker}]
    /\ readers \in [Keys -> SUBSET Workers]
    /\ items \in [Keys -> [Timestamps -> Trxs \cup {NoTrx}]]
    /\ latest_commit \in [Keys -> TsOrEmpty]

Holds(w, k) == writer[k] = w \/ w \in readers[k]

\* The request of w waits in pthread_rwlock for a lock that v holds.
WaitsFor(w, v) ==
    \E s \in Servers :
        /\ at[w][s] = "recv"
        /\ \/ /\ conn[w][s].type = "PUT"
              /\ Holds(v, conn[w][s].key)
           \/ /\ conn[w][s].type = "GET"
              /\ read_duration # "NONE"
              /\ writer[conn[w][s].key] = v

\* No workers wait for each other in a circle: every handler walks its keys
\* in the same order and asks for one lock at a time, and what put_all locked
\* is released before get_all locks anything.
NoCircularWait ==
    \A W \in SUBSET Workers :
        W # {} => \E w \in W : \A v \in W : ~WaitsFor(w, v)

\* A get never returns a version of a transaction that is still putting, if
\* write locks are long and reads take any lock at all (rr and rc).
NoDirtyReads ==
    read_duration # "NONE" =>
        \A w, v \in Workers, k \in Keys :
            pc[w] \in {"get", "release_get", "returned"} /\ pc[v] = "put" =>
                ret[w][k].trx # trx[v]

\* The answer for k is still under way.
Requested(w, k) ==
    LET m == conn[w][ServerOf[k]]
    IN  m.type \in {"GET", "RESULT"} /\ m.key = k

\* What get_all has read stays the latest version until it has read the rest
\* and begins to release its locks, so a transaction's reads are a snapshot
\* of the table (rr).
RepeatableReads ==
    \A w \in Workers :
        pc[w] = "get" /\ read_duration = "LONG" =>
            \A k \in ReadSet[trx[w]] :
                k \notin todo[w] /\ ~Requested(w, k) => ret[w][k] = LatestItem(k)

\* A worker that goes on to its next transaction has no lock left anywhere.
NoLockLeft ==
    \A w \in Workers, k \in Keys :
        pc[w] \in {"pop", "get_all", "returned", "exit"} => ~Holds(w, k)

\* A PUT that has been answered has replaced what the record held: while its
\* transaction keeps the lock, a read of the key would return its version.
PutsTakeEffect ==
    \A w \in Workers, k \in Keys :
        k \in access_keys[w][ServerOf[k]] /\ writer[k] = w =>
            LatestItem(k).trx = trx[w]

\* Table::commit(key, ts) compares and stores in two steps, but under the
\* write lock of the key: latest_commit never goes back.
CommitsMoveForward ==
    [][\A k \in Keys : latest_commit'[k] >= latest_commit[k]]_vars

\* Every transaction of the queue is run, whatever locks it meets, every
\* worker is joined and every executor thread leaves its loop.
EventuallyTerminates == <>Terminated
=============================================================================

------------------------------ MODULE RAMPFast ------------------------------
(***************************************************************************)
(* RAMP-Fast transactions: the client workers (ClientThread, TrxQueue,     *)
(* RAMPFastHandler, ConnectionPool), the servers' executor threads         *)
(* (RAMPFastExecutor) and the multi-version Table they share.  The same    *)
(* module runs the NO_CC handlers, which use the same table and messages   *)
(* but write no sibling keys and read in a single round.                   *)
(*                                                                         *)
(* A worker owns one connection to every server and an executor thread     *)
(* serves each connection, so conn[w][s] holds the one message that is     *)
(* under way between worker w and its executor on server s.  A task of     *)
(* parallel_for_each keeps com->mtx from its send to its recv, which is    *)
(* why a request is sent only on an idle connection.                       *)
(*                                                                         *)
(* The values a transaction writes are abstracted to its identity: the     *)
(* field trx of an item tells whose values it carries.                     *)
(***************************************************************************)
EXTENDS Naturals, Sequences, FiniteSetsExt

CONSTANTS
    Keys, Servers, Workers, Trxs,
    NoKey, NoTrx,        \* the empty key of Item(), and no transaction
    ServerOf,            \* the server that the hash of a key selects
    WriteSet, ReadSet,   \* Transaction::write_set and read_set
    MaxTs,               \* bound on the clock readings used by a run
    TrxType,             \* Config::trx_type: "RAMP_FAST" or "NO_CC"
    CommitAssigns,       \* which Table::commit: see CommittedTs
    DistinctTs           \* no two transactions read the same clock value

Timestamps == 1..MaxTs
TsOrEmpty == 0..MaxTs    \* 0 is Timestamp(), the timestamp for which is_empty()

ASSUME ConstantsAssumption ==
    /\ NoKey \notin Keys
    /\ NoTrx \notin Trxs
    /\ ServerOf \in [Keys -> Servers]
    /\ WriteSet \in [Trxs -> SUBSET Keys]
    /\ ReadSet \in [Trxs -> SUBSET Keys]
    /\ MaxTs \in Nat
    /\ TrxType \in {"RAMP_FAST", "NO_CC"}
    /\ CommitAssigns \in BOOLEAN
    /\ DistinctTs \in BOOLEAN

VARIABLES
    \* client
    queue,          \* TrxQueue::queue, whose order random_shuffle leaves open
    trx,            \* TrxHandler::trx of each worker
    pc,             \* where the worker's ClientThread::run stands
    trx_ts,         \* the timestamp put_all took for each transaction
    todo,           \* elements parallel_for_each has not started yet
    access_coms,    \* ConnectionPool::access_coms
    pending_coms,   \* connections send_to_all has not started yet
    ret,            \* get_all's ret
    v_latest,       \* get_all's v_latest
    \* connections
    conn,
    \* servers
    executor,       \* the loop of Table::commit in each executor thread
    items,          \* Table::items of each server
    latest_commit   \* Table::latest_commit, whose entry for a key is on ServerOf[key]

workerVars == <<queue, trx, pc, trx_ts, todo, access_coms, pending_coms, ret, v_latest>>
tableVars == <<items, latest_commit>>
vars == <<workerVars, conn, executor, tableVars>>

-----------------------------------------------------------------------------
(* Items and messages *)

AccessKeys(t) == WriteSet[t] \cup ReadSet[t]

Item == [key : Keys \cup {NoKey}, trx : Trxs \cup {NoTrx},
         ts : TsOrEmpty, trx_keys : SUBSET Keys]

EmptyItem == [key |-> NoKey, trx |-> NoTrx, ts |-> 0, trx_keys |-> {}]

\* The item put_all sends for a key of t.  NoCCHandler leaves trx_keys empty.
ItemOf(t, k) ==
    [key |-> k, trx |-> t, ts |-> trx_ts[t],
     trx_keys |-> IF TrxType = "RAMP_FAST" THEN AccessKeys(t) ELSE {}]

Message ==
         [type : {"PREPARE"}, item : Item]
    \cup [type : {"COMMIT"}, ts : Timestamps]
    \cup [type : {"GET"}, key : Keys, ts : TsOrEmpty]
    \cup [type : {"RESULT"}, key : Keys, item : Item]
    \cup [type : {"none", "DONE", "CLOSE"}]

NoMsg == [type |-> "none"]
Done == [type |-> "DONE"]
Close == [type |-> "CLOSE"]

\* CommitEmpty is the faulty variant that sends Timestamp().
CommitEmpty(ts_c) == [type |-> "COMMIT", ts |-> 0]
Commit(ts_c) == [type |-> "COMMIT", ts |-> ts_c]

\* A RESULT carries the key that the receiving task asked for.
Result(k, item) == [type |-> "RESULT", key |-> k, item |-> item]

Idle(w) == \A s \in Servers : conn[w][s] = NoMsg

\* parallel_for_each returns when each of its tasks has received its answer.
\* AllSent is the faulty variant that does not wait for the answers.
AllSent(w) == todo[w] = {}
AllAnswered(w) == todo[w] = {} /\ Idle(w)

\* Where an executor stands; i and n are index and end of the loop in commit.
ExecutorState == [at : {"recv", "test", "set", "closed"}, i : Nat, n : Nat]

Receiving == [at |-> "recv", i |-> 0, n |-> 0]

Init ==
    /\ queue = Trxs
    /\ trx = [w \in Workers |-> NoTrx]
    /\ pc = [w \in Workers |-> "pop"]
    /\ trx_ts = [t \in Trxs |-> 0]
    /\ todo = [w \in Workers |-> {}]
    /\ access_coms = [w \in Workers |-> {}]
    /\ pending_coms = [w \in Workers |-> {}]
    /\ ret = [w \in Workers |-> [k \in Keys |-> EmptyItem]]
    /\ v_latest = [w \in Workers |-> [k \in Keys |-> 0]]
    /\ conn = [w \in Workers |-> [s \in Servers |-> NoMsg]]
    /\ executor = [w \in Workers |-> [s \in Servers |-> Receiving]]
    /\ items = [s \in Servers |-> [t \in Timestamps |-> <<>>]]
    /\ latest_commit = [k \in Keys |-> 0]

Send(w, s, m) == conn' = [conn EXCEPT ![w][s] = m]

-----------------------------------------------------------------------------
(* ClientThread::run *)

Pop(w) ==
    /\ pc[w] = "pop"
    /\ \E t \in queue :
        /\ queue' = queue \ {t}
        /\ trx' = [trx EXCEPT ![w] = t]
        /\ pc' = [pc EXCEPT ![w] = IF WriteSet[t] # {} THEN "put_all"
                                   ELSE IF ReadSet[t] # {} THEN "get_all"
                                   ELSE "returned"]
    /\ UNCHANGED <<trx_ts, todo, access_coms, pending_coms, ret, v_latest,
                   conn, executor, tableVars>>

\* try_pop finds the queue empty and the thread ends.
Exit(w) ==
    /\ pc[w] = "pop"
    /\ queue = {}
    /\ pc' = [pc EXCEPT ![w] = "exit"]
    /\ UNCHANGED <<queue, trx, trx_ts, todo, access_coms, pending_coms, ret, v_latest,
                   conn, executor, tableVars>>

Finish(w) ==
    /\ pc[w] = "returned"
    /\ access_coms' = [access_coms EXCEPT ![w] = {}]
    /\ pc' = [pc EXCEPT ![w] = "pop"]
    /\ UNCHANGED <<queue, trx, trx_ts, todo, pending_coms, ret, v_latest,
                   conn, executor, tableVars>>

\* Client::check_finish joins every worker before close_all sends CLOSE.
SendClose(w, s) ==
    /\ \A v \in Workers : pc[v] = "exit"
    /\ conn[w][s] = NoMsg
    /\ executor[w][s].at # "closed"
    /\ Send(w, s, Close)
    /\ UNCHANGED <<workerVars, executor, tableVars>>

-----------------------------------------------------------------------------
(* put_all *)

\* gettimeofday: clocks of different hosts are not ordered, so any reading may
\* come next; DistinctTs rules out that two transactions read the same one.
PutAll(w) ==
    /\ pc[w] = "put_all"
    /\ \E now \in Timestamps :
        /\ DistinctTs => \A t \in Trxs : trx_ts[t] # now
        /\ trx_ts' = [trx_ts EXCEPT ![trx[w]] = now]
    /\ todo' = [todo EXCEPT ![w] = WriteSet[trx[w]]]
    /\ pc' = [pc EXCEPT ![w] = "prepare"]
    /\ UNCHANGED <<queue, trx, access_coms, pending_coms, ret, v_latest,
                   conn, executor, tableVars>>

SendPrepare(w, k) ==
    /\ pc[w] = "prepare"
    /\ k \in todo[w]
    /\ conn[w][ServerOf[k]] = NoMsg
    /\ todo' = [todo EXCEPT ![w] = @ \ {k}]
    /\ access_coms' = [access_coms EXCEPT ![w] = @ \cup {ServerOf[k]}]
    /\ Send(w, ServerOf[k], [type |-> "PREPARE", item |-> ItemOf(trx[w], k)])
    /\ UNCHANGED <<queue, trx, pc, trx_ts, pending_coms, ret, v_latest, executor, tableVars>>

RecvDone(w, s) ==
    /\ conn[w][s].type = "DONE"
    /\ Send(w, s, NoMsg)
    /\ UNCHANGED <<workerVars, executor, tableVars>>

\* Every PREPARE has been answered before the first COMMIT is sent.
BeginCommit(w) ==
    /\ pc[w] = "prepare"
    /\ AllAnswered(w)
    /\ pending_coms' = [pending_coms EXCEPT ![w] = access_coms[w]]
    /\ pc' = [pc EXCEPT ![w] = "commit"]
    /\ UNCHANGED <<queue, trx, trx_ts, todo, access_coms, ret, v_latest,
                   conn, executor, tableVars>>

SendCommit(w, s) ==
    /\ pc[w] = "commit"
    /\ s \in pending_coms[w]
    /\ pending_coms' = [pending_coms EXCEPT ![w] = @ \ {s}]
    /\ Send(w, s, Commit(trx_ts[trx[w]]))
    /\ UNCHANGED <<queue, trx, pc, trx_ts, todo, access_coms, ret, v_latest, executor, tableVars>>

PutAllReturn(w) ==
    /\ pc[w] = "commit"
    /\ pending_coms[w] = {}
    /\ Idle(w)
    /\ pc' = [pc EXCEPT ![w] = IF ReadSet[trx[w]] # {} THEN "get_all" ELSE "returned"]
    /\ UNCHANGED <<queue, trx, trx_ts, todo, access_coms, pending_coms, ret, v_latest,
                   conn, executor, tableVars>>

-----------------------------------------------------------------------------
(* get_all *)

GetAll(w) ==
    /\ pc[w] = "get_all"
    /\ ret' = [ret EXCEPT ![w] = [k \in Keys |-> EmptyItem]]
    /\ todo' = [todo EXCEPT ![w] = ReadSet[trx[w]]]
    /\ pc' = [pc EXCEPT ![w] = "round1"]
    /\ UNCHANGED <<queue, trx, trx_ts, access_coms, pending_coms, v_latest,
                   conn, executor, tableVars>>

\* The first round asks for the latest version, the second for the missing one.
SendGet(w, k) ==
    /\ pc[w] \in {"round1", "round2"}
    /\ k \in todo[w]
    /\ conn[w][ServerOf[k]] = NoMsg
    /\ todo' = [todo EXCEPT ![w] = @ \ {k}]
    /\ access_coms' = [access_coms EXCEPT ![w] = @ \cup {ServerOf[k]}]
    /\ Send(w, ServerOf[k],
            [type |-> "GET", key |-> k,
             ts |-> IF pc[w] = "round1" THEN 0 ELSE v_latest[w][k]])
    /\ UNCHANGED <<queue, trx, pc, trx_ts, pending_coms, ret, v_latest, executor, tableVars>>

RecvResult(w, s) ==
    /\ conn[w][s].type = "RESULT"
    /\ ret' = [ret EXCEPT ![w][conn[w][s].key] = conn[w][s].item]
    /\ Send(w, s, NoMsg)
    /\ UNCHANGED <<queue, trx, pc, trx_ts, todo, access_coms, pending_coms, v_latest,
                   executor, tableVars>>

\* Second round left out: as if no item named a sibling.
NoSibling(w, k) == 0

\* The newest timestamp among the returned items whose transaction touched k.
LatestSibling(w, k) ==
    Max({0} \cup {ret[w][j].ts : j \in {r \in Keys : k \in ret[w][r].trx_keys}})

CheckMissing(w) ==
    /\ pc[w] = "round1"
    /\ AllAnswered(w)
    /\ IF TrxType = "RAMP_FAST"
       THEN /\ v_latest' = [v_latest EXCEPT ![w] = [k \in Keys |-> LatestSibling(w, k)]]
            /\ todo' = [todo EXCEPT ![w] =
                          {k \in ReadSet[trx[w]] : LatestSibling(w, k) > ret[w][k].ts}]
            /\ pc' = [pc EXCEPT ![w] = "round2"]
       ELSE /\ pc' = [pc EXCEPT ![w] = "returned"]
            /\ UNCHANGED <<v_latest, todo>>
    /\ UNCHANGED <<queue, trx, trx_ts, access_coms, pending_coms, ret,
                   conn, executor, tableVars>>

GetAllReturn(w) ==
    /\ pc[w] = "round2"
    /\ AllAnswered(w)
    /\ pc' = [pc EXCEPT ![w] = "returned"]
    /\ UNCHANGED <<queue, trx, trx_ts, todo, access_coms, pending_coms, ret, v_latest,
                   conn, executor, tableVars>>

-----------------------------------------------------------------------------
(* RAMPFastExecutor::run and Table *)

Prepare(w, s) ==
    /\ conn[w][s].type = "PREPARE"
    /\ LET item == conn[w][s].item
       IN  items' = [items EXCEPT ![s][item.ts] = Append(@, item)]
    /\ Send(w, s, Done)
    /\ UNCHANGED <<workerVars, executor, latest_commit>>

\* The range-based for fixes its end when it starts.
CommitBegin(w, s) ==
    /\ conn[w][s].type = "COMMIT"
    /\ executor[w][s].at = "recv"
    /\ executor' = [executor EXCEPT ![w][s] =
                      [at |-> "test", i |-> 1, n |-> Len(items[s][conn[w][s].ts])]]
    /\ UNCHANGED <<workerVars, conn, tableVars>>

\* The loop variable advances; SameItem is the faulty variant that forgets to.
SameItem(e) == [e EXCEPT !.at = "test"]
NextItem(e) == [e EXCEPT !.at = "test", !.i = @ + 1]

\* AlwaysNewer is the faulty variant without the comparison.
AlwaysNewer(k, ts_c) == TRUE
IsNewer(k, ts_c) == latest_commit[k] < ts_c

\* The comparison and the store are two steps: no lock covers them.
CommitTest(w, s) ==
    LET e == executor[w][s]
        ts_c == conn[w][s].ts
    IN  /\ e.at = "test"
        /\ e.i <= e.n
        /\ executor' = [executor EXCEPT ![w][s] =
                          IF IsNewer(items[s][ts_c][e.i].key, ts_c)
                          THEN [e EXCEPT !.at = "set"]
                          ELSE NextItem(e)]
        /\ UNCHANGED <<workerVars, conn, tableVars>>

\* KeptTs is the faulty variant that stores what was there.
KeptTs(old, ts_c) == old

\* What the store leaves in latest_commit.  YCSB-0.5.0/src/data/Table.cpp
\* assigns the timestamp; src/server/data/Table.cpp calls insert, which does
\* nothing because the comparison's operator[] has just created the entry.
CommittedTs(old, ts_c) == IF CommitAssigns THEN ts_c ELSE old

CommitSet(w, s) ==
    LET e == executor[w][s]
        ts_c == conn[w][s].ts
        k == items[s][ts_c][e.i].key
    IN  /\ e.at = "set"
        /\ latest_commit' = [latest_commit EXCEPT ![k] = CommittedTs(@, ts_c)]
        /\ executor' = [executor EXCEPT ![w][s] = NextItem(e)]
        /\ UNCHANGED <<workerVars, conn, items>>

CommitDone(w, s) ==
    /\ executor[w][s].at = "test"
    /\ executor[w][s].i > executor[w][s].n
    /\ executor' = [executor EXCEPT ![w][s] = Receiving]
    /\ Send(w, s, Done)
    /\ UNCHANGED <<workerVars, tableVars>>

\* The first item of items.at(ts) for the key, or Item() if there is none.
GetItemByVer(s, k, t) ==
    LET Hits == {j \in DOMAIN items[s][t] : items[s][t][j].key = k}
    IN  IF t = 0 \/ Hits = {} THEN EmptyItem ELSE items[s][t][Min(Hits)]

\* Faulty choices of a version: the latest one whatever the request names,
\* and the newest one the server holds, committed or not.
LatestVersion(k, ts_req) == latest_commit[k]
NewestVersion(k, ts_req) ==
    Max({0} \cup {t \in Timestamps : \E j \in DOMAIN items[ServerOf[k]][t] :
                                        items[ServerOf[k]][t][j].key = k})

\* The version a GET asks for: an empty timestamp stands for the latest one.
RequestedVersion(k, ts_req) == IF ts_req = 0 THEN latest_commit[k] ELSE ts_req

\* Versions are never removed, so reading latest_commit and then the version
\* it names returns what a single step returns.
Get(w, s) ==
    /\ conn[w][s].type = "GET"
    /\ LET k == conn[w][s].key
       IN  Send(w, s, Result(k, GetItemByVer(s, k, RequestedVersion(k, conn[w][s].ts))))
    /\ UNCHANGED <<workerVars, executor, tableVars>>

\* The executor leaves its loop and deletes the connection.
HandleClose(w, s) ==
    /\ conn[w][s].type = "CLOSE"
    /\ executor' = [executor EXCEPT ![w][s].at = "closed"]
    /\ Send(w, s, NoMsg)
    /\ UNCHANGED <<workerVars, tableVars>>

-----------------------------------------------------------------------------
(* The whole system *)

WorkerStep(w) ==
    \/ Pop(w) \/ Exit(w) \/ Finish(w)
    \/ PutAll(w) \/ BeginCommit(w) \/ PutAllReturn(w)
    \/ GetAll(w) \/ CheckMissing(w) \/ GetAllReturn(w)
    \/ \E k \in Keys : SendPrepare(w, k) \/ SendGet(w, k)
    \/ \E s \in Servers : SendCommit(w, s) \/ RecvDone(w, s) \/ RecvResult(w, s)

ExecutorStep(w, s) ==
    \/ Prepare(w, s) \/ Get(w, s) \/ HandleClose(w, s)
    \/ CommitBegin(w, s) \/ CommitTest(w, s) \/ CommitSet(w, s) \/ CommitDone(w, s)

Terminated == \A w \in Workers, s \in Servers : executor[w][s].at = "closed"

\* The client process ends; the steps it no longer takes are no deadlock.
Terminating == Terminated /\ UNCHANGED vars

Next ==
    \/ \E w \in Workers : WorkerStep(w)
    \/ \E w \in Workers, s \in Servers : ExecutorStep(w, s) \/ SendClose(w, s)
    \/ Terminating

Spec == Init /\ [][Next]_vars

\* Every thread keeps being scheduled and the network delivers what is sent.
Fairness ==
    /\ \A w \in Workers : WF_vars(WorkerStep(w))
    /\ \A w \in Workers, s \in Servers :
          WF_vars(ExecutorStep(w, s)) /\ WF_vars(SendClose(w, s))

-----------------------------------------------------------------------------
(* Properties *)

\* Every variable stays in the set of values its code can hold.
TypeOK ==
    /\ queue \subseteq Trxs
    /\ trx \in [Workers -> Trxs \cup {NoTrx}]
    /\ pc \in [Workers -> {"pop", "put_all", "prepare", "commit", "get_all",
                           "round1", "round2", "returned", "exit"}]
    /\ trx_ts \in [Trxs -> TsOrEmpty]
    /\ todo \in [Workers -> SUBSET Keys]
    /\ access_coms \in [Workers -> SUBSET Servers]
    /\ pending_coms \in [Workers -> SUBSET Servers]
    /\ ret \in [Workers -> [Keys -> Item]]
    /\ v_latest \in [Workers -> [Keys -> TsOrEmpty]]
    /\ conn \in [Workers -> [Servers -> Message]]
    /\ executor \in [Workers -> [Servers -> ExecutorState]]
    /\ items \in [Servers -> [Timestamps -> Seq(Item)]]
    /\ latest_commit \in [Keys -> TsOrEmpty]

\* The server of k holds t's version of k.
Holds(t, k) ==
    /\ trx_ts[t] # 0
    /\ \E j \in DOMAIN items[ServerOf[k]][trx_ts[t]] :
          items[ServerOf[k]][trx_ts[t]][j] = ItemOf(t, k)

Prepared(t) == \A k \in WriteSet[t] : Holds(t, k)

\* A version becomes the latest committed one only when every server already
\* holds its transaction's other versions: put_all commits nowhere before it
\* has prepared everywhere, whichever executors run in between.
VisibleIsPrepared ==
    \A k \in Keys :
        latest_commit[k] # 0 =>
            \E t \in Trxs : /\ trx_ts[t] = latest_commit[k]
                            /\ k \in WriteSet[t]
                            /\ Prepared(t)

\* Read atomicity, what RAMP-Fast is for: if get_all returns a version written
\* by t, then for every other key of t that it read it returns t's version or
\* a newer one, although servers commit t at different moments.
ReadAtomic ==
    \A w \in Workers :
        pc[w] = "returned" =>
            \A k1, k2 \in ReadSet[trx[w]] :
                LET t == ret[w][k1].trx
                IN  t # NoTrx /\ k2 \in WriteSet[t] =>
                        ret[w][k2].trx = t \/ ret[w][k2].ts > ret[w][k1].ts

\* A second-round GET names a version its server already holds, so it is
\* never answered by Item().
SecondRoundHits ==
    \A w \in Workers, s \in Servers :
        pc[w] = "round2" /\ conn[w][s].type = "RESULT" =>
            conn[w][s].item.ts = v_latest[w][conn[w][s].key]

\* Only versions of completely prepared transactions reach a reader, in the
\* first round as in the second.
ReadsArePrepared ==
    \A w \in Workers, k \in Keys :
        ret[w][k].trx # NoTrx => Prepared(ret[w][k].trx)
=============================================================================

---------------------------- MODULE RAMPFastInv -----------------------------
(***************************************************************************)
(* The inductive invariant of RAMPFast: what every reachable state of the  *)
(* client and the servers looks like, strong enough that each part follows *)
(* from the others in the state before.  RAMPFastProofs proves it.         *)
(***************************************************************************)
EXTENDS RAMPFast

Running(w) == pc[w] \notin {"pop", "exit"}
Reading(w) == pc[w] \in {"round1", "round2"}

\* A running worker has a transaction of its own, which no other worker and
\* not the queue has, and whose timestamp is taken by put_all; the tasks it has
\* still to start are keys of that transaction.
ControlOK ==
    /\ \A w \in Workers : Running(w) => trx[w] \in Trxs /\ trx[w] \notin queue
    /\ \A v, w \in Workers : Running(v) /\ Running(w) /\ trx[v] = trx[w] => v = w
    /\ \A t \in queue : trx_ts[t] = 0
    /\ \A w \in Workers : pc[w] = "put_all" => trx_ts[trx[w]] = 0
    /\ \A w \in Workers : pc[w] \in {"prepare", "commit"} => trx_ts[trx[w]] # 0
    /\ \A w \in Workers : pc[w] = "prepare" => todo[w] \subseteq WriteSet[trx[w]]
    /\ \A w \in Workers : Reading(w) => todo[w] \subseteq ReadSet[trx[w]]

\* A message is under way only in the phase that sends it, and an executor is
\* inside Table::commit only while its COMMIT is unanswered.
MessagesOK ==
    \A w \in Workers, s \in Servers :
        /\ conn[w][s].type = "PREPARE" => pc[w] = "prepare"
        /\ conn[w][s].type = "COMMIT" =>
              pc[w] = "commit" /\ conn[w][s].ts = trx_ts[trx[w]]
        /\ conn[w][s].type \in {"GET", "RESULT"} =>
              /\ Reading(w)
              /\ conn[w][s].key \in ReadSet[trx[w]]
              /\ ServerOf[conn[w][s].key] = s
        /\ executor[w][s].at \in {"test", "set"} => conn[w][s].type = "COMMIT"

\* The loop index stays inside the items of the timestamp being committed.
LoopOK ==
    \A w \in Workers, s \in Servers :
        LET e == executor[w][s]
        IN  /\ e.at \in {"test", "set"} => e.i >= 1 /\ e.n <= Len(items[s][conn[w][s].ts])
            /\ e.at = "set" => e.i <= e.n

UniqueTs == \A t, u \in Trxs : trx_ts[t] # 0 /\ trx_ts[t] = trx_ts[u] => t = u

\* item is what some transaction writes at ts for a key of server s.
Written(s, ts, item) ==
    \E t \in Trxs : \E k \in WriteSet[t] :
        trx_ts[t] = ts /\ ServerOf[k] = s /\ item = ItemOf(t, k)

\* Every stored item belongs where it is stored.
ItemsOK ==
    \A s \in Servers, ts \in Timestamps :
        \A j \in DOMAIN items[s][ts] : Written(s, ts, items[s][ts][j])

\* While a worker prepares, each key is still to send, under way or stored,
\* and what is under way is the item of one of its keys.
Preparing(w) ==
    /\ \A k \in WriteSet[trx[w]] :
          \/ k \in todo[w]
          \/ conn[w][ServerOf[k]] = [type |-> "PREPARE", item |-> ItemOf(trx[w], k)]
          \/ Holds(trx[w], k)
    /\ \A s \in Servers :
          conn[w][s].type = "PREPARE" =>
              \E k \in WriteSet[trx[w]] :
                  ServerOf[k] = s /\ conn[w][s].item = ItemOf(trx[w], k)

PrepareOK == \A w \in Workers : pc[w] = "prepare" => Preparing(w)

\* A worker commits only what it has prepared everywhere.
CommitOK == \A w \in Workers : pc[w] = "commit" => Prepared(trx[w])

WriteInv == TypeOK /\ ControlOK /\ MessagesOK /\ LoopOK /\ UniqueTs /\ ItemsOK
              /\ PrepareOK /\ CommitOK /\ VisibleIsPrepared

-----------------------------------------------------------------------------
(* get_all, by the workers of a set W: a get relies on no other get *)

\* A transaction that writes reads at most the keys it writes, as those of
\* TrxQueue, which do one or the other, and of YCSB's read-modify-write do.
PureTrxs == \A t \in Trxs : WriteSet[t] = {} \/ ReadSet[t] \subseteq WriteSet[t]

\* ts is the timestamp of a version of k whose transaction is prepared.
Available(k, ts) ==
    ts # 0 => \E t \in Trxs : trx_ts[t] = ts /\ k \in WriteSet[t] /\ Prepared(t)

\* What a GET for k may return: nothing, or a prepared transaction's version.
Readable(k, item) ==
    \/ item = EmptyItem
    \/ \E t \in Trxs : k \in WriteSet[t] /\ item = ItemOf(t, k) /\ Prepared(t)

ReturnedOK(W) == \A w \in W, k \in Keys : Readable(k, ret[w][k])

\* The second round asks for versions that exist.
LatestOK(W) ==
    \A w \in W : pc[w] = "round2" => \A k \in Keys : Available(k, v_latest[w][k])

\* A GET carries the timestamp of its round, never an empty one in the second.
RequestsOK(W) ==
    \A w \in W :
        /\ pc[w] = "round2" => \A k \in todo[w] : v_latest[w][k] # 0
        /\ \A s \in Servers :
              conn[w][s].type = "GET" =>
                  /\ pc[w] = "round1" => conn[w][s].ts = 0
                  /\ pc[w] = "round2" => /\ conn[w][s].ts = v_latest[w][conn[w][s].key]
                                         /\ conn[w][s].ts # 0

\* The answer is readable, and in the second round it is what was asked for.
AnswersOK(W) ==
    \A w \in W, s \in Servers :
        conn[w][s].type = "RESULT" =>
            /\ Readable(conn[w][s].key, conn[w][s].item)
            /\ pc[w] = "round2" => conn[w][s].item.ts = v_latest[w][conn[w][s].key]

\* v_latest is closed under siblings: it covers the items that were returned,
\* and those that the second round is about to return.
ClosedOK(W) ==
    \A w \in W :
        pc[w] = "round2" =>
            \A t \in Trxs : \A k1, k2 \in WriteSet[t] :
                /\ ret[w][k1].trx = t => v_latest[w][k2] >= ret[w][k1].ts
                /\ v_latest[w][k1] = trx_ts[t] /\ trx_ts[t] # 0 => v_latest[w][k2] >= trx_ts[t]

\* A key whose item is too old is still to ask for or its answer under way.
CompleteOK(W) ==
    \A w \in W :
        pc[w] = "round2" =>
            \A k \in ReadSet[trx[w]] :
                \/ k \in todo[w]
                \/ /\ conn[w][ServerOf[k]].type \in {"GET", "RESULT"}
                   /\ conn[w][ServerOf[k]].key = k
                \/ ret[w][k].ts >= v_latest[w][k]

\* ReadAtomic, worker by worker.
AtomicOK(W) ==
    \A w \in W :
        pc[w] = "returned" =>
            \A k1, k2 \in ReadSet[trx[w]] :
                LET t == ret[w][k1].trx
                IN  t # NoTrx /\ k2 \in WriteSet[t] =>
                        ret[w][k2].trx = t \/ ret[w][k2].ts > ret[w][k1].ts

ReadInv(W) ==
    /\ ReturnedOK(W) /\ LatestOK(W) /\ RequestsOK(W) /\ AnswersOK(W)
    /\ ClosedOK(W) /\ CompleteOK(W) /\ AtomicOK(W)

\* The inductive invariant: the store and the transactions that are being put,
\* and the rounds of the transactions that get.
IInv == WriteInv /\ ReadInv(Workers)

-----------------------------------------------------------------------------
(* Answers from a cache *)

\* A GET of the first round that is answered with any readable version, and not
\* with the one that is committed last; outside W, with any item at all.
AnswerGet(w, s, W) ==
    /\ conn[w][s].type = "GET"
    /\ pc[w] = "round1"
    /\ \E item \in Item : /\ w \in W => Readable(conn[w][s].key, item)
                          /\ Send(w, s, Result(conn[w][s].key, item))
    /\ UNCHANGED <<workerVars, executor, tableVars>>

\* RAMP-Fast whose first round may read older and newer versions as well, and
\* for the workers outside W what no transaction has written.
LooseNext(W) == Next \/ \E w \in Workers, s \in Servers : AnswerGet(w, s, W)

LooseSpec(W) == Init /\ [][LooseNext(W)]_vars
=============================================================================

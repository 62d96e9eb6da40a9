---------------------------- MODULE LockBasedInv ----------------------------
(***************************************************************************)
(* The inductive invariants of LockBased: which locks a worker can hold in *)
(* each phase and in which order it asks for them, and what the locks mean *)
(* for the table and for those who read it.  LockBasedProofs proves the    *)
(* first, LockBasedVisibleProofs the second.                               *)
(***************************************************************************)
EXTENDS LockBased

Running(w) == pc[w] \notin {"pop", "exit"}
Locking(w) == pc[w] \in {"put", "get"}
Releasing(w) == pc[w] \in {"release_put", "release_get"}

IsRequest(m) == m.type \in {"PUT", "GET"}

\* A running worker has a transaction, whose timestamp put_all has taken, and
\* send_to_all is at work only in the phases that release locks.
ControlOK ==
    \A w \in Workers :
        /\ Running(w) => trx[w] \in Trxs
        /\ pc[w] = "put" => trx_ts[trx[w]] # 0
        /\ pending_coms[w] # {} => Releasing(w)

\* A message is under way only in the phase that sends it, and an executor
\* stands inside put or get only while that request is unanswered.
MessagesOK ==
    \A w \in Workers, s \in Servers :
        LET m == conn[w][s]
        IN  /\ m.type = "PUT" => pc[w] = "put"
            /\ m.type \in {"GET", "RESULT"} => pc[w] = "get"
            /\ m.type = "RELEASE_LOCKS" => Releasing(w)
            /\ m.type = "DONE" => pc[w] = "put" \/ Releasing(w)
            /\ m.type = "CLOSE" => pc[w] = "exit"
            /\ IsRequest(m) => s \in access_coms[w]
            /\ IsRequest(m) \/ m.type = "RESULT" => ServerOf[m.key] = s
            /\ at[w][s] \in {"set", "answer"} => m.type = "PUT"
            /\ at[w][s] = "locked" => IsRequest(m)

\* put_all and get_all wait for each answer: one connection is busy at most.
OneRequest ==
    \A w \in Workers : \A r, s \in Servers :
        Locking(w) /\ conn[w][r] # NoMsg /\ conn[w][s] # NoMsg => r = s

\* The executor of w stands between taking the lock of k and answering.
Working(w, k) ==
    LET s == ServerOf[k]
    IN  at[w][s] \in {"locked", "set", "answer"} /\ conn[w][s].key = k

\* A writer excludes everyone else, and an executor at work with a key has the
\* lock its request asked for.
ExclusionOK ==
    /\ \A k \in Keys : writer[k] # NoWorker => readers[k] = {}
    /\ \A w \in Workers, s \in Servers :
          LET m == conn[w][s]
          IN  /\ at[w][s] \in {"locked", "set", "answer"} /\ m.type = "PUT" => writer[m.key] = w
              /\ at[w][s] = "locked" /\ m.type = "GET" => w \in readers[m.key]

\* Every lock that is held will be released: the executor remembers it or is
\* still at work with it, and what is remembered is released by a message
\* that is still to send or under way.
LocksOK ==
    /\ \A w \in Workers, k \in Keys :
          Holds(w, k) => k \in access_keys[w][ServerOf[k]] \/ Working(w, k)
    /\ \A w \in Workers, s \in Servers :
          access_keys[w][s] # {} =>
              \/ Locking(w) /\ s \in access_coms[w]
              \/ Releasing(w) /\ (s \in pending_coms[w] \/ conn[w][s].type = "RELEASE_LOCKS")

\* Locks are asked for in the order of the keys: what is held comes before
\* what is asked for, and that before what is still to do.
OrderOK ==
    \A w \in Workers, r \in Servers :
        Locking(w) =>
            /\ \A k \in access_keys[w][r], j \in todo[w] : k < j
            /\ IsRequest(conn[w][r]) =>
                  /\ \A j \in todo[w] : conn[w][r].key < j
                  /\ \A s \in Servers : \A k \in access_keys[w][s] : k < conn[w][r].key

LockInv == TypeOK /\ ControlOK /\ MessagesOK /\ OneRequest /\ ExclusionOK /\ LocksOK /\ OrderOK

-----------------------------------------------------------------------------
(* The table *)

\* A transaction is run once, by one worker, and put_all takes its timestamp.
RunOK ==
    /\ \A w \in Workers : Running(w) => trx[w] \notin queue
    /\ \A v, w \in Workers : Running(v) /\ Running(w) /\ trx[v] = trx[w] => v = w
    /\ \A t \in queue : trx_ts[t] = 0
    /\ \A w \in Workers : pc[w] = "put_all" => trx_ts[trx[w]] = 0

UniqueTs == \A t, u \in Trxs : trx_ts[t] # 0 /\ trx_ts[t] = trx_ts[u] => t = u

\* A PUT carries a key of the worker's transaction, and its timestamp.
PutsOK ==
    \A w \in Workers :
        /\ pc[w] = "put" => todo[w] \subseteq WriteSet[trx[w]]
        /\ \A s \in Servers :
              LET m == conn[w][s]
              IN  m.type = "PUT" =>
                    m.trx = trx[w] /\ m.ts = trx_ts[trx[w]] /\ m.key \in WriteSet[trx[w]]

\* Items belong where they are stored, the latest one is there, and the
\* executor between the comparison and the store of commit is still right.
StoreOK ==
    /\ \A k \in Keys, n \in Timestamps :
          items[k][n] # NoTrx => trx_ts[items[k][n]] = n /\ k \in WriteSet[items[k][n]]
    /\ \A k \in Keys : latest_commit[k] # 0 => items[k][latest_commit[k]] # NoTrx
    /\ \A w \in Workers, s \in Servers :
          LET m == conn[w][s]
          IN  /\ at[w][s] = "set" => items[m.key][m.ts] # NoTrx /\ latest_commit[m.key] < m.ts
              /\ at[w][s] = "answer" => m.ts <= latest_commit[m.key]

Putting(t) ==
    t \in queue \/ \E w \in Workers : trx[w] = t /\ pc[w] \in {"put_all", "put"}

\* A key that put_all has done with is as new as its transaction.
CommittedOK ==
    /\ \A w \in Workers :
          pc[w] = "put" =>
              \A k \in WriteSet[trx[w]] :
                  \/ k \in todo[w]
                  \/ conn[w][ServerOf[k]].type = "PUT" /\ conn[w][ServerOf[k]].key = k
                  \/ trx_ts[trx[w]] <= latest_commit[k]
    /\ \A t \in Trxs :
          ~Putting(t) => \A k \in WriteSet[t] : trx_ts[t] <= latest_commit[k]

\* The items of a transaction that is still putting are behind its locks.
HiddenOK ==
    \A w \in Workers, k \in Keys, n \in Timestamps :
        pc[w] = "put" /\ items[k][n] = trx[w] => writer[k] = w

TableInv == RunOK /\ PutsOK /\ StoreOK /\ CommittedOK /\ HiddenOK

-----------------------------------------------------------------------------
(* get_all *)

\* What a GET for k may return: nothing, or a version that is not being put.
Readable(k, item) ==
    \/ item = EmptyItem
    \/ /\ item.trx \in Trxs /\ k \in WriteSet[item.trx]
       /\ item.ts = trx_ts[item.trx] /\ item.ts # 0
       /\ ~Putting(item.trx)

ReadableOK ==
    read_duration # "NONE" =>
        \A w \in Workers :
            /\ \A k \in Keys : Readable(k, ret[w][k])
            /\ \A s \in Servers :
                  conn[w][s].type = "RESULT" => Readable(conn[w][s].key, conn[w][s].item)

\* With long read locks a key is still to read, or locked and unchanged since.
RepeatOK ==
    \A w \in Workers :
        pc[w] = "get" /\ read_duration = "LONG" =>
            \A k \in ReadSet[trx[w]] :
                LET m == conn[w][ServerOf[k]]
                IN  \/ k \in todo[w]
                    \/ m.type = "GET" /\ m.key = k
                    \/ /\ w \in readers[k]
                       /\ LatestItem(k) = IF m.type = "RESULT" /\ m.key = k THEN m.item
                                          ELSE ret[w][k]

\* What has been read is whole, also when the locks are gone.
SnapshotOK ==
    \A w \in Workers :
        pc[w] \in {"release_get", "returned"} /\ read_duration = "LONG" =>
            \A j, k \in ReadSet[trx[w]] :
                LET t == ret[w][k].trx
                IN  t # NoTrx /\ j \in WriteSet[t] => ret[w][k].ts <= ret[w][j].ts

GetInv == ReadableOK /\ RepeatOK /\ SnapshotOK

IInv == LockInv /\ TableInv /\ GetInv
=============================================================================

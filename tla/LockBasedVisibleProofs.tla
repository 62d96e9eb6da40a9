----------------------- MODULE LockBasedVisibleProofs -----------------------
(***************************************************************************)
(* What the locks mean for the table and its readers, for every set of     *)
(* keys, servers, workers and transactions, and the proof that LockBased   *)
(* with long locks implements AtomicVisibility.                            *)
(***************************************************************************)
EXTENDS LockBasedVisible, LockBasedProofs

-----------------------------------------------------------------------------
(* What a step can change *)

\* Timestamps are positive numbers, and 0 is none of them.
LEMMA TimestampsNat ==
    /\ TsOrEmpty \subseteq Nat /\ TsOrEmpty = Timestamps \cup {0}
    /\ 0 \notin Timestamps
BY LockAssumption DEF Timestamps, TsOrEmpty

PhaseStep(w) ==
    Pop(w) \/ Exit(w) \/ Finish(w) \/ PutAll(w) \/ GetAll(w) \/ BeginRelease(w) \/ Return(w)

\* Only the steps of ClientThread::run and of the handler between its loops
\* move a worker to another phase or transaction.
LEMMA Phases ==
    ASSUME [Next]_vars
    PROVE  \/ UNCHANGED <<queue, trx, pc, trx_ts>>
           \/ \E w \in Workers : PhaseStep(w)
<1>1. CASE UNCHANGED vars
  BY <1>1 DEF vars, workerVars
<1>2. ASSUME NEW w \in Workers, WorkerStep(w)
      PROVE  UNCHANGED <<queue, trx, pc, trx_ts>> \/ PhaseStep(w)
  BY <1>2 DEF WorkerStep, PhaseStep, SendPut, SendGet, SendKey, SendRelease, RecvDone,
     RecvResult, workerVars
<1>3. ASSUME NEW w \in Workers, NEW s \in Servers, ExecutorStep(w, s) \/ SendClose(w, s)
      PROVE  UNCHANGED <<queue, trx, pc, trx_ts>>
  BY <1>3 DEF ExecutorStep, WriteLock, PutItem, CommitKey, PutDone, ReadLock, GetItem,
     Unlock, ReleaseDone, HandleClose, SendClose, workerVars
<1>. QED  BY <1>1, <1>2, <1>3 DEF Next, Terminating

\* Only Table::prepare and Table::commit touch the table.
LEMMA Stores ==
    ASSUME [Next]_vars
    PROVE  \/ UNCHANGED <<items, latest_commit>>
           \/ \E w \in Workers, s \in Servers : PutItem(w, s) \/ CommitKey(w, s)
<1>1. CASE UNCHANGED vars
  BY <1>1 DEF vars, tableVars
<1>2. ASSUME NEW w \in Workers, WorkerStep(w)
      PROVE  UNCHANGED <<items, latest_commit>>
  BY <1>2 DEF WorkerStep, Pop, Exit, Finish, PutAll, GetAll, BeginRelease, Return,
     SendPut, SendGet, SendKey, SendRelease, RecvDone, RecvResult, tableVars
<1>3. ASSUME NEW w \in Workers, NEW s \in Servers, ExecutorStep(w, s) \/ SendClose(w, s)
      PROVE  UNCHANGED <<items, latest_commit>> \/ PutItem(w, s) \/ CommitKey(w, s)
  BY <1>3 DEF ExecutorStep, WriteLock, PutDone, ReadLock, GetItem,
     Unlock, ReleaseDone, HandleClose, SendClose, tableVars
<1>. QED  BY <1>1, <1>2, <1>3 DEF Next, Terminating

\* Main sets the read duration once.
LEMMA DurationStays ==
    ASSUME [Next]_vars
    PROVE  read_duration' = read_duration
<1>1. ASSUME NEW w \in Workers, WorkerStep(w)
      PROVE  read_duration' = read_duration
  BY <1>1 DEF WorkerStep, Pop, Exit, Finish, PutAll, GetAll, BeginRelease, Return,
     SendPut, SendGet, SendKey, SendRelease, RecvDone, RecvResult
<1>2. ASSUME NEW w \in Workers, NEW s \in Servers, ExecutorStep(w, s) \/ SendClose(w, s)
      PROVE  read_duration' = read_duration
  BY <1>2 DEF ExecutorStep, WriteLock, PutItem, CommitKey, PutDone, ReadLock, GetItem,
     Unlock, ReleaseDone, HandleClose, SendClose
<1>. QED  BY <1>1, <1>2 DEF Next, Terminating, vars

-----------------------------------------------------------------------------
(* Transactions *)

\* A worker takes its transaction out of the queue, and put_all the timestamp.
LEMMA RunStep ==
    ASSUME TypeOK, ControlOK, RunOK, [Next]_vars
    PROVE  RunOK'
<1>. USE DEF RunOK, Running
<1>1. CASE UNCHANGED <<queue, trx, pc, trx_ts>>
  BY <1>1
<1>2. ASSUME NEW w \in Workers, Pop(w)
      PROVE  RunOK'
  BY <1>2 DEF Pop, TypeOK
<1>3. ASSUME NEW w \in Workers, Exit(w)
      PROVE  RunOK'
  BY <1>3 DEF Exit, TypeOK
<1>4. ASSUME NEW w \in Workers, Finish(w)
      PROVE  RunOK'
  BY <1>4 DEF Finish, TypeOK
<1>5. ASSUME NEW w \in Workers, PutAll(w)
      PROVE  RunOK'
  <2>1. trx[w] \in Trxs /\ trx[w] \notin queue
    BY <1>5 DEF PutAll, ControlOK
  <2>2. \A t \in Trxs : t # trx[w] => trx_ts'[t] = trx_ts[t]
    BY <1>5, <2>1 DEF PutAll, TypeOK
  <2>3. \A v \in Workers : pc'[v] = IF v = w THEN "put" ELSE pc[v]
    BY <1>5 DEF PutAll, TypeOK
  <2>4. UNCHANGED <<queue, trx>> /\ pc[w] = "put_all" /\ queue \subseteq Trxs
    BY <1>5 DEF PutAll, TypeOK
  <2>5. \A t \in queue : trx_ts'[t] = 0
    BY <2>1, <2>2, <2>4
  <2>6. \A v \in Workers : pc'[v] = "put_all" => trx_ts'[trx[v]] = 0
    BY <2>1, <2>2, <2>3, <2>4 DEF ControlOK
  <2>. QED  BY <2>3, <2>4, <2>5, <2>6
<1>6. ASSUME NEW w \in Workers, GetAll(w)
      PROVE  RunOK'
  BY <1>6 DEF GetAll, TypeOK
<1>7. ASSUME NEW w \in Workers, BeginRelease(w)
      PROVE  RunOK'
  BY <1>7 DEF BeginRelease, TypeOK
<1>8. ASSUME NEW w \in Workers, Return(w)
      PROVE  RunOK'
  BY <1>8 DEF Return, TypeOK
<1>. QED
  BY <1>1, <1>2, <1>3, <1>4, <1>5, <1>6, <1>7, <1>8, Phases DEF PhaseStep

\* A timestamp that has been taken is kept: only put_all of a transaction
\* that has none takes one, and not twice the same if the clock is distinct.
LEMMA TimestampStep ==
    ASSUME TypeOK, ControlOK, RunOK, [Next]_vars
    PROVE  /\ \A t \in Trxs : trx_ts[t] # 0 => trx_ts'[t] = trx_ts[t]
           /\ UniqueTs /\ Clock # "any" => UniqueTs'
<1>1. ASSUME NEW w \in Workers, PutAll(w)
      PROVE  /\ \A t \in Trxs : trx_ts[t] # 0 => trx_ts'[t] = trx_ts[t]
             /\ UniqueTs /\ Clock # "any" => UniqueTs'
  <2>1. trx[w] \in Trxs /\ trx_ts[trx[w]] = 0
    BY <1>1 DEF PutAll, ControlOK, RunOK, Running
  <2>2. PICK now \in Timestamps : Reads(now) /\ trx_ts' = [trx_ts EXCEPT ![trx[w]] = now]
    BY <1>1 DEF PutAll
  <2>3. \A t \in Trxs : trx_ts'[t] = IF t = trx[w] THEN now ELSE trx_ts[t]
    BY <2>1, <2>2 DEF TypeOK
  <2>. QED  BY <2>1, <2>2, <2>3 DEF Reads, UniqueTs
<1>2. CASE trx_ts' = trx_ts
  BY <1>2 DEF UniqueTs
<1>. QED
  BY <1>1, <1>2, Phases DEF PhaseStep, Pop, Exit, Finish, GetAll, BeginRelease, Return

\* A transaction that has been put stays put, at its timestamp.
LEMMA PuttingStep ==
    ASSUME TypeOK, ControlOK, RunOK, [Next]_vars, NEW t \in Trxs, ~Putting(t)
    PROVE  ~Putting(t)' /\ trx_ts'[t] = trx_ts[t]
<1>. USE DEF Putting
<1>1. CASE UNCHANGED <<queue, trx, pc, trx_ts>>
  BY <1>1
<1>2. ASSUME NEW w \in Workers, Pop(w)
      PROVE  ~Putting(t)' /\ trx_ts'[t] = trx_ts[t]
  BY <1>2 DEF Pop, TypeOK
<1>3. ASSUME NEW w \in Workers, Exit(w)
      PROVE  ~Putting(t)' /\ trx_ts'[t] = trx_ts[t]
  BY <1>3 DEF Exit, TypeOK
<1>4. ASSUME NEW w \in Workers, Finish(w)
      PROVE  ~Putting(t)' /\ trx_ts'[t] = trx_ts[t]
  BY <1>4 DEF Finish, TypeOK
<1>5. ASSUME NEW w \in Workers, PutAll(w)
      PROVE  ~Putting(t)' /\ trx_ts'[t] = trx_ts[t]
  BY <1>5 DEF PutAll, TypeOK
<1>6. ASSUME NEW w \in Workers, GetAll(w)
      PROVE  ~Putting(t)' /\ trx_ts'[t] = trx_ts[t]
  BY <1>6 DEF GetAll, TypeOK
<1>7. ASSUME NEW w \in Workers, BeginRelease(w)
      PROVE  ~Putting(t)' /\ trx_ts'[t] = trx_ts[t]
  BY <1>7 DEF BeginRelease, TypeOK
<1>8. ASSUME NEW w \in Workers, Return(w)
      PROVE  ~Putting(t)' /\ trx_ts'[t] = trx_ts[t]
  BY <1>8 DEF Return, TypeOK
<1>. QED
  BY <1>1, <1>2, <1>3, <1>4, <1>5, <1>6, <1>7, <1>8, Phases DEF PhaseStep

-----------------------------------------------------------------------------
(* Requests *)

\* The steps that put another message, or none, on the connection of w to s.
Sends(w, s) ==
    \/ \E k \in Keys : s = ServerOf[k] /\ (SendPut(w, k) \/ SendGet(w, k))
    \/ SendRelease(w, s) \/ RecvDone(w, s) \/ RecvResult(w, s) \/ SendClose(w, s)
    \/ PutDone(w, s) \/ GetItem(w, s) \/ ReleaseDone(w, s) \/ HandleClose(w, s)

\* A message changes only by such a step of its own connection.
LEMMA Senders ==
    ASSUME TypeOK, [Next]_vars, NEW w \in Workers, NEW s \in Servers
    PROVE  conn'[w][s] = conn[w][s] \/ Sends(w, s)
<1>. USE DEF TypeOK, Send, Sends
<1>1. CASE UNCHANGED conn
  BY <1>1
<1>2. ASSUME NEW v \in Workers, NEW k \in Keys, SendPut(v, k) \/ SendGet(v, k)
      PROVE  conn'[w][s] = conn[w][s] \/ Sends(w, s)
  <2>1. PICK m : conn' = [conn EXCEPT ![v][ServerOf[k]] = m]
    BY <1>2 DEF SendPut, SendGet, SendKey
  <2>2. conn'[w][s] = conn[w][s] \/ (v = w /\ s = ServerOf[k])
    BY <2>1
  <2>. QED  BY <1>2, <2>2
<1>3. ASSUME NEW v \in Workers, NEW r \in Servers,
             SendRelease(v, r) \/ RecvDone(v, r) \/ RecvResult(v, r) \/ SendClose(v, r)
      PROVE  conn'[w][s] = conn[w][s] \/ Sends(w, s)
  BY <1>3 DEF SendRelease, RecvDone, RecvResult, SendClose
<1>4. ASSUME NEW v \in Workers, NEW r \in Servers,
             PutDone(v, r) \/ GetItem(v, r) \/ ReleaseDone(v, r) \/ HandleClose(v, r)
      PROVE  conn'[w][s] = conn[w][s] \/ Sends(w, s)
  BY <1>4 DEF PutDone, GetItem, ReleaseDone, HandleClose
<1>5. ASSUME NEW v \in Workers,
             PhaseStep(v) \/ \E r \in Servers :
                 WriteLock(v, r) \/ PutItem(v, r) \/ CommitKey(v, r) \/ ReadLock(v, r) \/ Unlock(v, r)
      PROVE  UNCHANGED conn
  BY <1>5 DEF PhaseStep, Pop, Exit, Finish, PutAll, GetAll, BeginRelease, Return,
     WriteLock, PutItem, CommitKey, ReadLock, Unlock
<1>. HIDE DEF Sends
<1>. QED
  BY <1>1, <1>2, <1>3, <1>4, <1>5
  DEF Next, WorkerStep, ExecutorStep, PhaseStep, Terminating, vars

\* The executor that is about to commit or to answer a PUT has just stored or
\* committed it, or stands there since, and its request is still the same.
LEMMA AtWork ==
    ASSUME TypeOK, ControlOK, MessagesOK, [Next]_vars,
           NEW w \in Workers, NEW s \in Servers, at'[w][s] \in {"set", "answer"}
    PROVE  /\ conn'[w][s] = conn[w][s] /\ conn[w][s].type = "PUT"
           /\ at'[w][s] = at[w][s] \/ PutItem(w, s) \/ CommitKey(w, s)
<1>1. ~Sends(w, s)
  <2>1. ASSUME NEW k \in Keys, s = ServerOf[k], SendPut(w, k) \/ SendGet(w, k)
        PROVE  FALSE
    BY <2>1 DEF SendPut, SendGet, SendKey, Idle, NoMsg, MessagesOK
  <2>2. ~SendRelease(w, s)
    BY DEF SendRelease, ControlOK, MessagesOK, Releasing
  <2>3. ~(RecvDone(w, s) \/ RecvResult(w, s) \/ SendClose(w, s) \/ ReleaseDone(w, s))
    BY DEF RecvDone, RecvResult, SendClose, ReleaseDone, NoMsg, MessagesOK, workerVars
  <2>4. ~(PutDone(w, s) \/ GetItem(w, s) \/ HandleClose(w, s))
    BY DEF PutDone, GetItem, HandleClose, TypeOK
  <2>. QED  BY <2>1, <2>2, <2>3, <2>4 DEF Sends
<1>2. at'[w][s] = at[w][s] \/ PutItem(w, s) \/ CommitKey(w, s)
  <2>1. ASSUME NEW v \in Workers, WorkerStep(v)
        PROVE  at' = at
    BY <2>1 DEF WorkerStep, Pop, Exit, Finish, PutAll, GetAll, BeginRelease, Return,
       SendPut, SendGet, SendKey, SendRelease, RecvDone, RecvResult
  <2>2. ASSUME NEW v \in Workers, NEW r \in Servers,
               ExecutorStep(v, r), ~(PutItem(v, r) \/ CommitKey(v, r))
        PROVE  at'[w][s] = at[w][s]
    BY <2>2 DEF ExecutorStep, WriteLock, PutDone, ReadLock, GetItem, Unlock,
       ReleaseDone, HandleClose, TypeOK
  <2>3. ASSUME NEW v \in Workers, NEW r \in Servers, PutItem(v, r) \/ CommitKey(v, r)
        PROVE  at'[w][s] = at[w][s] \/ (v = w /\ r = s)
    <3>1. PICK x : at' = [at EXCEPT ![v][r] = x]
      BY <2>3 DEF PutItem, CommitKey
    <3>. QED  BY <3>1 DEF TypeOK
  <2>4. ASSUME NEW v \in Workers, NEW r \in Servers, SendClose(v, r)
        PROVE  at' = at
    BY <2>4 DEF SendClose
  <2>. QED  BY <2>1, <2>2, <2>3, <2>4 DEF Next, Terminating, vars
<1>3. conn'[w][s] = conn[w][s]
  BY <1>1, Senders
<1>4. conn[w][s].type = "PUT"
  BY <1>2, <1>3 DEF MessagesOK, PutItem, CommitKey
<1>. QED  BY <1>2, <1>3, <1>4

\* A handler in its loop forgets no key that it does not ask for.
LEMMA TodoStep ==
    ASSUME TypeOK, [Next]_vars, NEW w \in Workers, pc[w] \in {"put", "get"}
    PROVE  /\ todo'[w] \subseteq todo[w]
           /\ \A k \in todo[w] : k \in todo'[w] \/ SendPut(w, k) \/ SendGet(w, k)
<1>1. CASE todo' = todo
  BY <1>1
<1>2. ASSUME NEW v \in Workers, NEW k \in Keys, SendPut(v, k) \/ SendGet(v, k)
      PROVE  /\ todo'[w] \subseteq todo[w]
             /\ \A j \in todo[w] : j \in todo'[w] \/ SendPut(w, j) \/ SendGet(w, j)
  <2>1. todo' = [todo EXCEPT ![v] = @ \ {k}]
    BY <1>2 DEF SendPut, SendGet, SendKey
  <2>. QED  BY <1>2, <2>1 DEF TypeOK
<1>3. ASSUME NEW v \in Workers, PutAll(v) \/ GetAll(v)
      PROVE  todo'[w] = todo[w]
  <2>1. v # w /\ \E S : todo' = [todo EXCEPT ![v] = S]
    BY <1>3 DEF PutAll, GetAll
  <2>. QED  BY <2>1 DEF TypeOK
<1>4. ASSUME NEW v \in Workers, WorkerStep(v), ~(PutAll(v) \/ GetAll(v)),
             \A k \in Keys : ~(SendPut(v, k) \/ SendGet(v, k))
      PROVE  todo' = todo
  BY <1>4 DEF WorkerStep, Pop, Exit, Finish, BeginRelease, Return, SendRelease, RecvDone,
     RecvResult, workerVars
<1>5. ASSUME NEW v \in Workers, NEW s \in Servers, ExecutorStep(v, s) \/ SendClose(v, s)
      PROVE  todo' = todo
  BY <1>5 DEF ExecutorStep, WriteLock, PutItem, CommitKey, PutDone, ReadLock, GetItem,
     Unlock, ReleaseDone, HandleClose, SendClose, workerVars
<1>. QED  BY <1>1, <1>2, <1>3, <1>4, <1>5 DEF Next, Terminating, vars, workerVars

\* get_all starts with an empty ret and fills in the answers it receives.
LEMMA ReturnedStep ==
    ASSUME TypeOK, [Next]_vars, NEW w \in Workers, NEW k \in Keys
    PROVE  \/ ret'[w][k] = ret[w][k]
           \/ GetAll(w) /\ ret'[w][k] = EmptyItem
           \/ \E s \in Servers : /\ RecvResult(w, s) /\ conn[w][s].key = k
                                 /\ ret'[w][k] = conn[w][s].item
<1>1. CASE ret' = ret
  BY <1>1
<1>2. ASSUME NEW v \in Workers, GetAll(v)
      PROVE  ret'[w][k] = ret[w][k] \/ (v = w /\ ret'[w][k] = EmptyItem)
  BY <1>2 DEF GetAll, TypeOK
<1>3. ASSUME NEW v \in Workers, NEW s \in Servers, RecvResult(v, s)
      PROVE  \/ ret'[w][k] = ret[w][k]
             \/ v = w /\ conn[v][s].key = k /\ ret'[w][k] = conn[v][s].item
  BY <1>3 DEF RecvResult, TypeOK
<1>4. ASSUME NEW v \in Workers, WorkerStep(v), ~GetAll(v), \A s \in Servers : ~RecvResult(v, s)
      PROVE  ret' = ret
  BY <1>4 DEF WorkerStep, Pop, Exit, Finish, PutAll, BeginRelease, Return, SendPut, SendGet,
     SendKey, SendRelease, RecvDone, workerVars
<1>5. ASSUME NEW v \in Workers, NEW s \in Servers, ExecutorStep(v, s) \/ SendClose(v, s)
      PROVE  ret' = ret
  BY <1>5 DEF ExecutorStep, WriteLock, PutItem, CommitKey, PutDone, ReadLock, GetItem,
     Unlock, ReleaseDone, HandleClose, SendClose, workerVars
<1>. QED  BY <1>1, <1>2, <1>3, <1>4, <1>5 DEF Next, Terminating, vars, workerVars

\* put_all sends what its transaction writes, at the transaction's timestamp.
LEMMA PutsStep ==
    ASSUME TypeOK, ControlOK, MessagesOK, RunOK, PutsOK, [Next]_vars
    PROVE  PutsOK'
<1>. SUFFICES ASSUME NEW w \in Workers, pc'[w] = "put"
              PROVE  /\ todo'[w] \subseteq WriteSet[trx'[w]]
                     /\ \A s \in Servers :
                          LET m == conn'[w][s]
                          IN  m.type = "PUT" => /\ m.trx = trx'[w] /\ m.ts = trx_ts'[trx'[w]]
                                                /\ m.key \in WriteSet[trx'[w]]
  BY MessagesStep DEF PutsOK, MessagesOK
<1>1. (pc[w] = "put" /\ trx'[w] = trx[w]) \/ PutAll(w)
  BY Phases DEF PhaseStep, Pop, Exit, Finish, PutAll, GetAll, BeginRelease, Return, TypeOK
<1>2. CASE PutAll(w)
  <2>1. todo'[w] = WriteSet[trx'[w]]
    BY <1>2 DEF PutAll, TypeOK
  <2>2. \A s \in Servers : conn'[w][s] = NoMsg
    BY <1>2, QuietPhases DEF PutAll
  <2>. QED  BY <2>1, <2>2 DEF NoMsg
<1>3. CASE pc[w] = "put" /\ trx'[w] = trx[w]
  <2>1. trx_ts'[trx[w]] = trx_ts[trx[w]]
    BY <1>3, TimestampStep DEF ControlOK, Running
  <2>2. todo'[w] \subseteq todo[w]
    BY <1>3, TodoStep
  <2>3. ASSUME NEW s \in Servers, conn'[w][s].type = "PUT"
        PROVE  \/ conn'[w][s] = conn[w][s]
               \/ \E k \in todo[w] : conn'[w][s] = Put(trx[w], k)
    <3>1. ASSUME NEW k \in Keys, s = ServerOf[k], SendPut(w, k) \/ SendGet(w, k)
          PROVE  k \in todo[w] /\ conn'[w][s] = Put(trx[w], k)
      BY <2>3, <3>1 DEF SendPut, SendGet, SendKey, FirstKey, Send, TypeOK
    <3>2. ~(SendRelease(w, s) \/ RecvDone(w, s) \/ RecvResult(w, s) \/ SendClose(w, s))
      BY <2>3 DEF SendRelease, RecvDone, RecvResult, SendClose, Send, NoMsg, TypeOK
    <3>3. ~(PutDone(w, s) \/ GetItem(w, s) \/ ReleaseDone(w, s) \/ HandleClose(w, s))
      BY <2>3 DEF PutDone, GetItem, ReleaseDone, HandleClose, Send, NoMsg, TypeOK
    <3>. QED  BY <3>1, <3>2, <3>3, Senders DEF Sends
  <2>4. todo[w] \subseteq WriteSet[trx[w]]
    BY <1>3 DEF PutsOK
  <2>5. ASSUME NEW s \in Servers, conn'[w][s].type = "PUT"
        PROVE  /\ conn'[w][s].trx = trx[w] /\ conn'[w][s].ts = trx_ts[trx[w]]
               /\ conn'[w][s].key \in WriteSet[trx[w]]
    <3>1. CASE conn'[w][s] = conn[w][s]
      BY <2>5, <3>1 DEF PutsOK
    <3>2. ASSUME NEW k \in todo[w], conn'[w][s] = Put(trx[w], k)
          PROVE  /\ conn'[w][s].trx = trx[w] /\ conn'[w][s].ts = trx_ts[trx[w]]
                 /\ conn'[w][s].key \in WriteSet[trx[w]]
      BY <2>4, <3>2 DEF Put
    <3>. QED  BY <2>3, <2>5, <3>1, <3>2
  <2>. QED  BY <1>3, <2>1, <2>2, <2>4, <2>5
<1>. QED  BY <1>1, <1>2, <1>3

-----------------------------------------------------------------------------
(* The table *)

\* The new items of a step are those of a PUT under its write lock, and the
\* latest one of a key moves forward, to an item that is there, under the lock.
TableGrows ==
    /\ \A k \in Keys, n \in Timestamps :
          items'[k][n] = items[k][n] \/
          \E w \in Workers : /\ items[k][n] = NoTrx /\ items'[k][n] = trx[w]
                             /\ pc[w] = "put" /\ writer[k] = w
                             /\ trx_ts[trx[w]] = n /\ k \in WriteSet[trx[w]]
    /\ \A k \in Keys :
          latest_commit'[k] = latest_commit[k] \/
          /\ latest_commit'[k] > latest_commit[k] /\ writer[k] \in Workers
          /\ items[k][latest_commit'[k]] # NoTrx

\* Every step is one of these.
LEMMA TableStep ==
    ASSUME TypeOK, ControlOK, MessagesOK, ExclusionOK, PutsOK, StoreOK, [Next]_vars
    PROVE  TableGrows
<1>1. CASE UNCHANGED <<items, latest_commit>>
  BY <1>1 DEF TableGrows
<1>2. ASSUME NEW w \in Workers, NEW s \in Servers, PutItem(w, s)
      PROVE  TableGrows
  <2>. DEFINE m == conn[w][s]
  <2>1. m \in Message /\ m.type = "PUT" /\ at[w][s] = "locked" /\ pc[w] = "put"
    BY <1>2 DEF PutItem, TypeOK, MessagesOK
  <2>2. m.key \in Keys /\ m.ts \in Timestamps /\ writer[m.key] = w
    BY <2>1, MessageFields DEF ExclusionOK
  <2>3. m.trx = trx[w] /\ m.ts = trx_ts[trx[w]] /\ m.key \in WriteSet[trx[w]]
    BY <2>1 DEF PutsOK
  <2>4. /\ latest_commit' = latest_commit
        /\ items' = [items EXCEPT ![m.key][m.ts] = IF @ = NoTrx THEN m.trx ELSE @]
    BY <1>2 DEF PutItem
  <2>. HIDE DEF m
  <2>5. \A k \in Keys, n \in Timestamps :
           items'[k][n] = IF k = m.key /\ n = m.ts /\ items[k][n] = NoTrx THEN m.trx
                          ELSE items[k][n]
    BY <2>2, <2>4 DEF TypeOK
  <2>. QED  BY <2>1, <2>2, <2>3, <2>4, <2>5 DEF TableGrows
<1>3. ASSUME NEW w \in Workers, NEW s \in Servers, CommitKey(w, s)
      PROVE  TableGrows
  <2>. DEFINE m == conn[w][s]
  <2>1. m \in Message /\ m.type = "PUT" /\ at[w][s] = "set"
    BY <1>3 DEF CommitKey, TypeOK, MessagesOK
  <2>2. m.key \in Keys /\ writer[m.key] = w
    BY <2>1, MessageFields DEF ExclusionOK
  <2>3. items[m.key][m.ts] # NoTrx /\ latest_commit[m.key] < m.ts
    BY <2>1 DEF StoreOK
  <2>4. items' = items /\ latest_commit' = [latest_commit EXCEPT ![m.key] = m.ts]
    BY <1>3 DEF CommitKey
  <2>5. m.ts \in Nat /\ latest_commit[m.key] \in Nat
    <3>1. m.ts \in Timestamps /\ latest_commit[m.key] \in TsOrEmpty
      BY <2>1, <2>2, MessageFields DEF TypeOK
    <3>. QED  BY <3>1, TimestampsNat
  <2>. HIDE DEF m
  <2>6. \A k \in Keys : latest_commit'[k] = IF k = m.key THEN m.ts ELSE latest_commit[k]
    BY <2>2, <2>4 DEF TypeOK
  <2>. QED  BY <2>2, <2>3, <2>4, <2>5, <2>6 DEF TableGrows
<1>. QED  BY <1>1, <1>2, <1>3, Stores

\* What the table holds belongs there, and Table::commit compares and stores
\* with nobody in between.
LEMMA StoreStep ==
    ASSUME TypeOK, ControlOK, MessagesOK, ExclusionOK, RunOK, PutsOK, StoreOK, [Next]_vars
    PROVE  StoreOK'
<1>1. TableGrows /\ TypeOK' /\ MessagesOK'
  BY TableStep, TypeStep, MessagesStep
<1>2. ASSUME NEW k \in Keys, NEW n \in Timestamps, items'[k][n] # NoTrx
      PROVE  trx_ts'[items'[k][n]] = n /\ k \in WriteSet[items'[k][n]]
  <2>1. trx_ts[items'[k][n]] = n /\ k \in WriteSet[items'[k][n]]
    BY <1>1, <1>2 DEF TableGrows, StoreOK
  <2>2. n # 0 /\ items'[k][n] \in Trxs
    <3>1. items'[k][n] \in Trxs \cup {NoTrx}
      BY <1>1 DEF TypeOK
    <3>. QED  BY <1>2, <3>1, TimestampsNat
  <2>. QED  BY <2>1, <2>2, TimestampStep
<1>3. ASSUME NEW k \in Keys, latest_commit'[k] # 0
      PROVE  items'[k][latest_commit'[k]] # NoTrx
  <2>1. latest_commit'[k] \in Timestamps
    BY <1>1, <1>3, LockAssumption DEF TypeOK, TsOrEmpty, Timestamps
  <2>2. items[k][latest_commit'[k]] # NoTrx
    BY <1>1, <1>3 DEF TableGrows, StoreOK
  <2>. QED  BY <1>1, <2>1, <2>2 DEF TableGrows
<1>4. ASSUME NEW w \in Workers, NEW s \in Servers, at'[w][s] \in {"set", "answer"}
      PROVE  LET m == conn'[w][s]
             IN  /\ at'[w][s] = "set" =>
                       items'[m.key][m.ts] # NoTrx /\ latest_commit'[m.key] < m.ts
                 /\ at'[w][s] = "answer" => m.ts <= latest_commit'[m.key]
  <2>. DEFINE m == conn[w][s]
  <2>1. conn'[w][s] = m /\ m.type = "PUT" /\ m \in Message
    BY <1>4, AtWork DEF TypeOK
  <2>2. m.key \in Keys /\ m.ts \in Timestamps /\ m.trx \in Trxs
    BY <2>1, MessageFields
  <2>3. /\ m.ts \in Nat /\ latest_commit[m.key] \in Nat /\ latest_commit'[m.key] \in Nat
        /\ latest_commit[m.key] <= latest_commit'[m.key]
    <3>1. latest_commit[m.key] \in TsOrEmpty /\ latest_commit'[m.key] \in TsOrEmpty
      BY <1>1, <2>2 DEF TypeOK
    <3>2. \/ latest_commit[m.key] = latest_commit'[m.key]
          \/ latest_commit[m.key] < latest_commit'[m.key]
      BY <1>1, <2>2 DEF TableGrows
    <3>3. m.ts \in Nat /\ latest_commit[m.key] \in Nat /\ latest_commit'[m.key] \in Nat
      BY <2>2, <3>1, TimestampsNat
    <3>. QED  BY <3>2, <3>3
  <2>4. CASE PutItem(w, s)
    <3>1. /\ items' = [items EXCEPT ![m.key][m.ts] = IF @ = NoTrx THEN m.trx ELSE @]
          /\ latest_commit' = latest_commit
          /\ at' = [at EXCEPT ![w][s] = IF latest_commit[m.key] < m.ts THEN "set" ELSE "answer"]
      BY <2>4 DEF PutItem
    <3>. HIDE DEF m
    <3>2. items'[m.key][m.ts] # NoTrx
      BY <2>2, <3>1, LockAssumption DEF TypeOK
    <3>3. at'[w][s] = IF latest_commit[m.key] < m.ts THEN "set" ELSE "answer"
      BY <3>1 DEF TypeOK
    <3>. QED  BY <2>1, <2>3, <3>1, <3>2, <3>3
  <2>5. CASE CommitKey(w, s)
    <3>1. /\ latest_commit' = [latest_commit EXCEPT ![m.key] = m.ts]
          /\ at' = [at EXCEPT ![w][s] = "answer"]
      BY <2>5 DEF CommitKey
    <3>. HIDE DEF m
    <3>2. latest_commit'[m.key] = m.ts /\ at'[w][s] = "answer"
      BY <2>2, <3>1 DEF TypeOK
    <3>. QED  BY <2>1, <2>3, <3>2
  <2>6. CASE at'[w][s] = at[w][s] /\ ~CommitKey(w, s)
    <3>. HIDE DEF m
    <3>1. CASE at[w][s] = "answer"
      BY <2>1, <2>3, <2>6, <3>1 DEF StoreOK, m
    <3>2. CASE at[w][s] = "set"
      <4>1. items[m.key][m.ts] # NoTrx /\ latest_commit[m.key] < m.ts
        BY <3>2 DEF StoreOK, m
      <4>2. items'[m.key][m.ts] # NoTrx
        BY <1>1, <2>2, <4>1 DEF TableGrows
      <4>3. latest_commit'[m.key] = latest_commit[m.key]
        <5>1. writer[m.key] = w
          BY <2>1, <3>2 DEF ExclusionOK, m
        <5>2. ASSUME NEW v \in Workers, NEW r \in Servers, CommitKey(v, r)
              PROVE  latest_commit'[m.key] = latest_commit[m.key]
          <6>1. /\ at[v][r] = "set" /\ conn[v][r].type = "PUT"
                /\ latest_commit' = [latest_commit EXCEPT ![conn[v][r].key] = conn[v][r].ts]
            BY <5>2 DEF CommitKey, MessagesOK
          <6>2. conn[v][r].key # m.key
            <7>1. SUFFICES ASSUME conn[v][r].key = m.key
                           PROVE  FALSE
              OBVIOUS
            <7>2. v = w
              BY <5>1, <6>1, <7>1 DEF ExclusionOK
            <7>3. r = s
              BY <2>1, <6>1, <7>1, RequestKey DEF IsRequest, m
            <7>. QED  BY <2>6, <5>2, <7>2, <7>3
          <6>. QED  BY <2>2, <6>1, <6>2 DEF TypeOK
        <5>3. ASSUME NEW v \in Workers, NEW r \in Servers, PutItem(v, r)
              PROVE  latest_commit'[m.key] = latest_commit[m.key]
          BY <5>3 DEF PutItem
        <5>. QED  BY <5>2, <5>3, Stores
      <4>. QED  BY <2>1, <2>6, <3>2, <4>1, <4>2, <4>3
    <3>. QED  BY <1>4, <2>6, <3>1, <3>2
  <2>. QED  BY <1>4, <2>4, <2>5, <2>6, AtWork
<1>. QED  BY <1>2, <1>3, <1>4 DEF StoreOK

\* latest_commit never goes back.
LEMMA LatestGrows ==
    ASSUME TypeOK, TypeOK', TableGrows, NEW k \in Keys
    PROVE  /\ latest_commit[k] \in Nat /\ latest_commit'[k] \in Nat
           /\ latest_commit[k] <= latest_commit'[k]
<1>1. latest_commit[k] \in TsOrEmpty /\ latest_commit'[k] \in TsOrEmpty
  BY DEF TypeOK
<1>2. latest_commit[k] \in Nat /\ latest_commit'[k] \in Nat
  BY <1>1, TimestampsNat
<1>3. latest_commit[k] = latest_commit'[k] \/ latest_commit[k] < latest_commit'[k]
  BY DEF TableGrows
<1>. QED  BY <1>2, <1>3

\* put_all has done with a key when its version, or a newer one, is the latest.
LEMMA CommittedStep ==
    ASSUME TypeOK, ControlOK, MessagesOK, ExclusionOK, RunOK, PutsOK, StoreOK, CommittedOK,
           [Next]_vars
    PROVE  CommittedOK'
<1>1. TypeOK' /\ TableGrows
  BY TypeStep, TableStep
<1>2. \A t \in Trxs : trx_ts[t] \in Nat
  <2>1. \A t \in Trxs : trx_ts[t] \in TsOrEmpty
    BY DEF TypeOK
  <2>. QED  BY <2>1, TimestampsNat
<1>3. \A t \in Trxs, k \in Keys : trx_ts[t] <= latest_commit[k] => trx_ts[t] <= latest_commit'[k]
  BY <1>1, <1>2, LatestGrows
<1>. DEFINE Asked(w, k) == conn[w][ServerOf[k]].type = "PUT" /\ conn[w][ServerOf[k]].key = k
            Done(w, k) == trx_ts[trx[w]] <= latest_commit[k]
<1>4. ASSUME NEW w \in Workers, pc'[w] = "put", NEW k \in WriteSet[trx'[w]]
      PROVE  k \in todo'[w] \/ Asked(w, k)' \/ Done(w, k)'
  <2>1. (pc[w] = "put" /\ trx'[w] = trx[w]) \/ PutAll(w)
    BY <1>4, Phases DEF PhaseStep, Pop, Exit, Finish, PutAll, GetAll, BeginRelease, Return,
       TypeOK
  <2>2. CASE PutAll(w)
    BY <1>4, <2>2 DEF PutAll, TypeOK
  <2>3. CASE pc[w] = "put" /\ trx'[w] = trx[w]
    <3>. DEFINE s == ServerOf[k]
    <3>1. trx[w] \in Trxs /\ k \in Keys /\ s \in Servers
      BY <1>4, <2>3, LockAssumption DEF ControlOK, Running
    <3>2. trx_ts'[trx[w]] = trx_ts[trx[w]]
      BY <2>3, <3>1, TimestampStep DEF ControlOK
    <3>3. CASE Done(w, k)
      BY <1>3, <2>3, <3>1, <3>2, <3>3
    <3>4. CASE Asked(w, k)
      <4>1. CASE conn'[w][s] = conn[w][s]
        BY <3>4, <4>1
      <4>2. CASE Sends(w, s)
        <5>1. ASSUME NEW j \in Keys, s = ServerOf[j], SendPut(w, j) \/ SendGet(w, j)
              PROVE  FALSE
          BY <3>1, <3>4, <5>1 DEF SendPut, SendGet, SendKey, Idle, NoMsg
        <5>2. ~SendRelease(w, s)
          BY <2>3 DEF SendRelease, ControlOK, Releasing
        <5>3. ~(RecvDone(w, s) \/ RecvResult(w, s) \/ SendClose(w, s) \/ GetItem(w, s)
                 \/ ReleaseDone(w, s) \/ HandleClose(w, s))
          BY <3>4 DEF RecvDone, RecvResult, SendClose, GetItem, ReleaseDone, HandleClose, NoMsg
        <5>4. ASSUME PutDone(w, s)
              PROVE  Done(w, k)
          <6>1. conn[w][s].ts <= latest_commit[conn[w][s].key]
            BY <3>1, <5>4 DEF PutDone, StoreOK
          <6>2. conn[w][s].ts = trx_ts[trx[w]]
            BY <3>1, <3>4 DEF PutsOK
          <6>. QED  BY <3>4, <6>1, <6>2
        <5>. QED  BY <3>3, <4>2, <5>1, <5>2, <5>3, <5>4 DEF Sends
      <4>. QED  BY <3>1, <4>1, <4>2, Senders
    <3>5. CASE k \in todo[w]
      <4>1. k \in todo'[w] \/ SendPut(w, k) \/ SendGet(w, k)
        BY <2>3, <3>5, TodoStep
      <4>2. ASSUME SendPut(w, k)
            PROVE  Asked(w, k)'
        <5>1. conn' = [conn EXCEPT ![w][s] = Put(trx[w], k)]
          BY <4>2 DEF SendPut, SendKey, Send
        <5>2. conn'[w][s] = Put(trx[w], k)
          BY <3>1, <5>1 DEF TypeOK
        <5>. QED  BY <5>2 DEF Put
      <4>3. ~SendGet(w, k)
        BY <2>3 DEF SendGet
      <4>. QED  BY <4>1, <4>2, <4>3
    <3>. QED  BY <1>4, <2>3, <3>3, <3>4, <3>5 DEF CommittedOK
  <2>. QED  BY <2>1, <2>2, <2>3
<1>5. ASSUME NEW t \in Trxs, ~Putting(t)', NEW k \in WriteSet[t]
      PROVE  trx_ts'[t] <= latest_commit'[k]
  <2>1. k \in Keys
    BY LockAssumption
  <2>2. CASE ~Putting(t)
    BY <1>3, <2>1, <2>2, PuttingStep DEF CommittedOK
  <2>3. CASE Putting(t)
    <3>1. PICK w \in Workers : trx[w] = t /\ BeginRelease(w) /\ pc[w] = "put"
      <4>1. CASE UNCHANGED <<queue, trx, pc>>
        BY <1>5, <2>3, <4>1 DEF Putting
      <4>2. ASSUME NEW v \in Workers, Pop(v)
            PROVE  FALSE
        BY <1>5, <2>3, <4>2 DEF Pop, Putting, TypeOK
      <4>3. ASSUME NEW v \in Workers,
                   Exit(v) \/ Finish(v) \/ PutAll(v) \/ GetAll(v) \/ Return(v)
            PROVE  FALSE
        BY <1>5, <2>3, <4>3 DEF Exit, Finish, PutAll, GetAll, Return, Putting, TypeOK
      <4>4. ASSUME NEW v \in Workers, BeginRelease(v)
            PROVE  trx[v] = t /\ pc[v] = "put"
        BY <1>5, <2>3, <4>4 DEF BeginRelease, Putting, TypeOK
      <4>. QED  BY <4>1, <4>2, <4>3, <4>4, Phases DEF PhaseStep
    <3>2. k \notin todo[w] /\ ~Asked(w, k)
      BY <2>1, <3>1, LockAssumption DEF BeginRelease, Idle, NoMsg
    <3>3. trx_ts[t] <= latest_commit[k]
      BY <3>1, <3>2 DEF CommittedOK
    <3>4. UNCHANGED <<trx_ts, latest_commit>>
      BY <3>1 DEF BeginRelease, tableVars
    <3>. QED  BY <3>3, <3>4
  <2>. QED  BY <2>2, <2>3
<1>. QED  BY <1>4, <1>5 DEF CommittedOK

\* With long write locks nobody else gets at what is being put.
LEMMA HiddenStep ==
    ASSUME TypeOK, ControlOK, MessagesOK, ExclusionOK, RunOK, PutsOK, StoreOK, HiddenOK,
           [Next]_vars, WriteDuration = "LONG"
    PROVE  HiddenOK'
<1>. SUFFICES ASSUME NEW w \in Workers, NEW k \in Keys, NEW n \in Timestamps,
                     pc'[w] = "put", items'[k][n] = trx'[w]
              PROVE  writer'[k] = w
  BY DEF HiddenOK
<1>1. (pc[w] = "put" /\ trx'[w] = trx[w]) \/ PutAll(w)
  BY Phases DEF PhaseStep, Pop, Exit, Finish, PutAll, GetAll, BeginRelease, Return, TypeOK
<1>2. ~PutAll(w)
  <2>1. SUFFICES ASSUME PutAll(w)
                 PROVE  FALSE
    OBVIOUS
  <2>2. trx[w] \in Trxs /\ trx_ts[trx[w]] = 0 /\ items[k][n] = trx[w]
    BY <2>1 DEF PutAll, ControlOK, Running, RunOK, tableVars
  <2>. QED  BY <2>2, TimestampsNat, LockAssumption DEF StoreOK
<1>3. pc[w] = "put" /\ trx[w] \in Trxs /\ items'[k][n] = trx[w]
  BY <1>1, <1>2 DEF ControlOK, Running
<1>4. writer[k] = w
  <2>1. CASE items'[k][n] = items[k][n]
    BY <1>3, <2>1 DEF HiddenOK
  <2>2. PICK v \in Workers : items'[k][n] = items[k][n] \/
               (items'[k][n] = trx[v] /\ pc[v] = "put" /\ writer[k] = v)
    BY <1>3, TableStep DEF TableGrows
  <2>. QED  BY <1>3, <2>1, <2>2 DEF RunOK, Running
<1>5. CASE UNCHANGED writer
  BY <1>4, <1>5
<1>6. ASSUME NEW v \in Workers, NEW s \in Servers, WriteLock(v, s)
      PROVE  writer'[k] = w
  <2>1. /\ writer[conn[v][s].key] = NoWorker
        /\ writer' = [writer EXCEPT ![conn[v][s].key] = v]
    BY <1>6 DEF WriteLock, CanWriteLock
  <2>2. conn[v][s].key # k
    BY <1>4, <2>1, LockAssumption
  <2>. QED  BY <1>4, <2>1, <2>2 DEF TypeOK
<1>7. ASSUME NEW v \in Workers, NEW s \in Servers, PutDone(v, s)
      PROVE  writer'[k] = w
  BY <1>4, <1>7, PutDoneEffect DEF PutDoneChange, KeepsWriteLock
<1>8. ASSUME NEW v \in Workers, NEW s \in Servers, Unlock(v, s)
      PROVE  writer'[k] = w
  <2>1. v # w
    BY <1>3, <1>8 DEF Unlock, MessagesOK, Releasing
  <2>2. PICK j : writer' = [writer EXCEPT ![j] = IF @ = v THEN NoWorker ELSE @]
    BY <1>8 DEF Unlock
  <2>. QED  BY <1>4, <2>1, <2>2 DEF TypeOK
<1>9. ASSUME NEW v \in Workers, WorkerStep(v)
      PROVE  UNCHANGED writer
  BY <1>9 DEF WorkerStep, Pop, Exit, Finish, PutAll, GetAll, BeginRelease, Return, SendPut,
     SendGet, SendKey, SendRelease, RecvDone, RecvResult, lockVars
<1>10. ASSUME NEW v \in Workers, NEW s \in Servers,
              ExecutorStep(v, s) \/ SendClose(v, s),
              ~(WriteLock(v, s) \/ PutDone(v, s) \/ Unlock(v, s))
       PROVE  UNCHANGED writer
  BY <1>10 DEF ExecutorStep, PutItem, CommitKey, ReadLock, GetItem, ReleaseDone, HandleClose,
     SendClose, lockVars
<1>. QED
  BY <1>5, <1>6, <1>7, <1>8, <1>9, <1>10 DEF Next, Terminating, vars, lockVars

-----------------------------------------------------------------------------
(* get_all *)

\* What may be read stays so: a transaction that has been put stays put.
LEMMA ReadableStays ==
    ASSUME TypeOK, ControlOK, RunOK, [Next]_vars,
           NEW k \in Keys, NEW item, Readable(k, item)
    PROVE  Readable(k, item)'
<1>1. CASE item = EmptyItem
  BY <1>1 DEF Readable
<1>2. CASE item # EmptyItem
  <2>1. item.trx \in Trxs /\ ~Putting(item.trx)
    BY <1>2 DEF Readable
  <2>2. ~Putting(item.trx)' /\ trx_ts'[item.trx] = trx_ts[item.trx]
    BY <2>1, PuttingStep
  <2>. QED  BY <1>2, <2>2 DEF Readable
<1>. QED  BY <1>1, <1>2

\* A GET that holds the read lock of its key returns what may be read: the
\* write lock would be held if the transaction were still putting.
LEMMA LatestReadable ==
    ASSUME TypeOK, ControlOK, ExclusionOK, RunOK, StoreOK, HiddenOK,
           NEW k \in Keys, writer[k] = NoWorker
    PROVE  Readable(k, LatestItem(k))
<1>1. CASE latest_commit[k] = 0
  BY <1>1 DEF LatestItem, Readable
<1>2. CASE latest_commit[k] # 0
  <2>. DEFINE n == latest_commit[k]
              t == items[k][n]
  <2>1. n \in Timestamps
    BY <1>2, TimestampsNat DEF TypeOK
  <2>2. t \in Trxs /\ trx_ts[t] = n /\ k \in WriteSet[t]
    BY <1>2, <2>1 DEF StoreOK, TypeOK
  <2>3. ~Putting(t)
    <3>1. t \notin queue
      BY <1>2, <2>2 DEF RunOK
    <3>2. ASSUME NEW w \in Workers, trx[w] = t, pc[w] \in {"put_all", "put"}
          PROVE  FALSE
      <4>1. CASE pc[w] = "put_all"
        BY <1>2, <2>2, <3>2, <4>1 DEF RunOK
      <4>2. CASE pc[w] = "put"
        BY <2>1, <3>2, <4>2, LockAssumption DEF HiddenOK
      <4>. QED  BY <3>2, <4>1, <4>2
    <3>. QED  BY <3>1, <3>2 DEF Putting
  <2>. QED  BY <1>2, <2>2, <2>3 DEF LatestItem, Readable
<1>. QED  BY <1>1, <1>2

\* What the last step of get sends, for the key j of the request.
LEMMA GetItemSends ==
    ASSUME TypeOK, MessagesOK, NEW w \in Workers, NEW s \in Servers, GetItem(w, s)
    PROVE  \E j \in Keys :
              /\ GetItemChange(w, s, j)
              /\ conn'[w][s] = [type |-> "RESULT", key |-> j, item |-> LatestItem(j)]
              /\ read_duration # "NONE" => at[w][s] = "locked"
              /\ UNCHANGED <<queue, trx, trx_ts, ret, items, latest_commit>>
<1>1. PICK j \in Keys : GetItemChange(w, s, j)
  BY GetItemEffect
<1>2. conn' = [conn EXCEPT ![w][s] = [type |-> "RESULT", key |-> j, item |-> LatestItem(j)]]
  BY <1>1 DEF GetItem, Send, GetItemChange
<1>3. conn'[w][s] = [type |-> "RESULT", key |-> j, item |-> LatestItem(j)]
  BY <1>2 DEF TypeOK
<1>4. read_duration # "NONE" => at[w][s] = "locked"
  BY DEF GetItem
<1>5. UNCHANGED <<queue, trx, trx_ts, ret, items, latest_commit>>
  BY DEF GetItem, workerVars, tableVars
<1>. QED  BY <1>1, <1>3, <1>4, <1>5

\* Nothing is read that is still being put.
LEMMA ReadableStep ==
    ASSUME TypeOK, ControlOK, MessagesOK, ExclusionOK, RunOK, StoreOK, HiddenOK, ReadableOK,
           [Next]_vars
    PROVE  ReadableOK'
<1>. SUFFICES ASSUME read_duration # "NONE", NEW w \in Workers
              PROVE  /\ \A k \in Keys : Readable(k, ret[w][k])'
                     /\ \A s \in Servers : conn'[w][s].type = "RESULT" =>
                            Readable(conn[w][s].key, conn[w][s].item)'
  BY DurationStays DEF ReadableOK
<1>1. ASSUME NEW s \in Servers, conn[w][s].type = "RESULT"
      PROVE  conn[w][s].key \in Keys /\ Readable(conn[w][s].key, conn[w][s].item)
  BY <1>1, MessageFields DEF TypeOK, ReadableOK
<1>2. ASSUME NEW k \in Keys
      PROVE  Readable(k, ret[w][k])'
  <2>1. Readable(k, ret[w][k]) /\ Readable(k, EmptyItem)
    BY DEF ReadableOK, Readable
  <2>2. \/ ret'[w][k] = ret[w][k] \/ ret'[w][k] = EmptyItem
        \/ \E s \in Servers : /\ conn[w][s].type = "RESULT" /\ conn[w][s].key = k
                              /\ ret'[w][k] = conn[w][s].item
    BY ReturnedStep DEF RecvResult
  <2>3. PICK item : item = ret'[w][k] /\ Readable(k, item)
    BY <1>1, <2>1, <2>2
  <2>. QED  BY <2>3, ReadableStays DEF Readable, Putting
<1>3. ASSUME NEW s \in Servers, conn'[w][s].type = "RESULT"
      PROVE  Readable(conn[w][s].key, conn[w][s].item)'
  <2>1. CASE conn'[w][s] = conn[w][s]
    <3>1. PICK m : m = conn[w][s]
      OBVIOUS
    <3>. QED  BY <1>1, <1>3, <2>1, <3>1, ReadableStays DEF Readable, Putting
  <2>2. CASE GetItem(w, s)
    <3>1. PICK j \in Keys :
             /\ GetItemChange(w, s, j)
             /\ conn'[w][s] = [type |-> "RESULT", key |-> j, item |-> LatestItem(j)]
             /\ at[w][s] = "locked"
      BY <2>2, GetItemSends
    <3>2. writer[j] = NoWorker
      <4>1. w \in readers[j]
        BY <3>1 DEF GetItemChange, ExclusionOK
      <4>. QED  BY <4>1 DEF ExclusionOK
    <3>3. Readable(j, LatestItem(j))
      BY <3>2, LatestReadable
    <3>4. PICK item : item = LatestItem(j)
      OBVIOUS
    <3>. QED  BY <3>1, <3>3, <3>4, ReadableStays DEF Readable, Putting
  <2>3. ASSUME NEW k \in Keys, s = ServerOf[k], SendPut(w, k) \/ SendGet(w, k)
        PROVE  FALSE
    BY <1>3, <2>3 DEF SendPut, SendGet, SendKey, Send, Put, TypeOK
  <2>4. ~(SendRelease(w, s) \/ RecvDone(w, s) \/ RecvResult(w, s) \/ SendClose(w, s))
    BY <1>3 DEF SendRelease, RecvDone, RecvResult, SendClose, Send, NoMsg, TypeOK
  <2>5. ~(PutDone(w, s) \/ ReleaseDone(w, s) \/ HandleClose(w, s))
    BY <1>3 DEF PutDone, ReleaseDone, HandleClose, Send, NoMsg, TypeOK
  <2>. QED  BY <2>1, <2>2, <2>3, <2>4, <2>5, Senders DEF Sends
<1>. QED  BY <1>2, <1>3

\* A read lock that is kept stays until the worker releases it.
LEMMA ReadersStep ==
    ASSUME TypeOK, MessagesOK, [Next]_vars, read_duration = "LONG",
           NEW w \in Workers, pc[w] = "get", NEW k \in Keys, w \in readers[k]
    PROVE  w \in readers'[k]
<1>1. CASE UNCHANGED readers
  BY <1>1
<1>2. ASSUME NEW v \in Workers, NEW s \in Servers, ReadLock(v, s)
      PROVE  w \in readers'[k]
  BY <1>2 DEF ReadLock, TypeOK
<1>3. ASSUME NEW v \in Workers, NEW s \in Servers, GetItem(v, s)
      PROVE  w \in readers'[k]
  BY <1>3, GetItemEffect DEF GetItemChange, KeepsReadLock
<1>4. ASSUME NEW v \in Workers, NEW s \in Servers, Unlock(v, s)
      PROVE  w \in readers'[k]
  <2>1. v # w
    BY <1>4 DEF Unlock, MessagesOK, Releasing
  <2>2. PICK j : readers' = [readers EXCEPT ![j] = @ \ {v}]
    BY <1>4 DEF Unlock
  <2>. QED  BY <2>1, <2>2 DEF TypeOK
<1>5. ASSUME NEW v \in Workers, WorkerStep(v)
      PROVE  UNCHANGED readers
  BY <1>5 DEF WorkerStep, Pop, Exit, Finish, PutAll, GetAll, BeginRelease, Return, SendPut,
     SendGet, SendKey, SendRelease, RecvDone, RecvResult, lockVars
<1>6. ASSUME NEW v \in Workers, NEW s \in Servers,
             ExecutorStep(v, s) \/ SendClose(v, s),
             ~(ReadLock(v, s) \/ GetItem(v, s) \/ Unlock(v, s))
      PROVE  UNCHANGED readers
  BY <1>6 DEF ExecutorStep, WriteLock, PutItem, CommitKey, PutDone, ReleaseDone, HandleClose,
     SendClose, lockVars
<1>. QED  BY <1>1, <1>2, <1>3, <1>4, <1>5, <1>6 DEF Next, Terminating, vars, lockVars

\* Nobody changes the latest version of a key that is locked for reading.
LEMMA LatestItemStays ==
    ASSUME TypeOK, TableGrows, ExclusionOK, NEW k \in Keys, readers[k] # {}
    PROVE  LatestItem(k)' = LatestItem(k)
<1>1. writer[k] = NoWorker
  BY DEF ExclusionOK
<1>2. latest_commit'[k] = latest_commit[k] /\ \A n \in Timestamps : items'[k][n] = items[k][n]
  BY <1>1, LockAssumption DEF TableGrows
<1>3. latest_commit[k] # 0 => latest_commit[k] \in Timestamps
  BY TimestampsNat DEF TypeOK
<1>. QED  BY <1>2, <1>3 DEF LatestItem

\* What get_all has read stays the latest version while it holds the locks.
LEMMA RepeatStep ==
    ASSUME TypeOK, ControlOK, MessagesOK, ExclusionOK, PutsOK, StoreOK, RepeatOK, [Next]_vars
    PROVE  RepeatOK'
<1>. DEFINE Asked(w, k) == conn[w][ServerOf[k]].type = "GET" /\ conn[w][ServerOf[k]].key = k
            Item(w, k) == IF /\ conn[w][ServerOf[k]].type = "RESULT"
                             /\ conn[w][ServerOf[k]].key = k
                          THEN conn[w][ServerOf[k]].item ELSE ret[w][k]
<1>. SUFFICES ASSUME NEW w \in Workers, pc'[w] = "get", read_duration = "LONG",
                     NEW k \in ReadSet[trx'[w]]
              PROVE  \/ k \in todo'[w] \/ Asked(w, k)'
                     \/ w \in readers'[k] /\ LatestItem(k)' = Item(w, k)'
  BY DurationStays DEF RepeatOK
<1>1. (pc[w] = "get" /\ trx'[w] = trx[w]) \/ GetAll(w)
  BY Phases DEF PhaseStep, Pop, Exit, Finish, PutAll, GetAll, BeginRelease, Return, TypeOK
<1>2. CASE GetAll(w)
  BY <1>2 DEF GetAll, TypeOK
<1>3. CASE pc[w] = "get" /\ trx'[w] = trx[w]
  <2>. DEFINE s == ServerOf[k]
  <2>1. trx[w] \in Trxs /\ k \in Keys /\ s \in Servers
    BY <1>3, LockAssumption DEF ControlOK, Running
  <2>2. CASE k \in todo[w]
    <3>1. k \in todo'[w] \/ SendGet(w, k)
      BY <1>3, <2>2, TodoStep DEF SendPut
    <3>2. ASSUME SendGet(w, k)
          PROVE  Asked(w, k)'
      BY <2>1, <3>2 DEF SendGet, SendKey, Send, TypeOK
    <3>. QED  BY <3>1, <3>2
  <2>3. ASSUME NEW j \in Keys, s = ServerOf[j], SendPut(w, j) \/ SendGet(w, j)
        PROVE  conn[w][s] = NoMsg /\ conn'[w][s].type # "RESULT"
    <3>1. conn[w][s] = NoMsg
      BY <2>1, <2>3 DEF SendPut, SendGet, SendKey, Idle
    <3>2. conn'[w][s] = Put(trx[w], j) \/ conn'[w][s] = [type |-> "GET", key |-> j]
      BY <2>1, <2>3 DEF SendPut, SendGet, SendKey, Send, TypeOK
    <3>. QED  BY <3>1, <3>2 DEF Put
  <2>4. ~SendRelease(w, s) /\ ~SendClose(w, s)
    BY <1>3 DEF SendRelease, SendClose, ControlOK, Releasing
  <2>5. CASE Asked(w, k)
    <3>1. CASE conn'[w][s] = conn[w][s]
      BY <2>5, <3>1
    <3>2. CASE GetItem(w, s)
      <4>1. /\ conn'[w][s] = [type |-> "RESULT", key |-> k, item |-> LatestItem(k)]
            /\ at[w][s] = "locked" /\ UNCHANGED <<items, latest_commit>>
        <5>1. PICK j \in Keys :
                 /\ GetItemChange(w, s, j)
                 /\ conn'[w][s] = [type |-> "RESULT", key |-> j, item |-> LatestItem(j)]
                 /\ at[w][s] = "locked" /\ UNCHANGED <<items, latest_commit>>
          BY <1>3, <2>1, <3>2, GetItemSends
        <5>2. j = k
          BY <2>5, <5>1 DEF GetItemChange
        <5>. QED  BY <5>1, <5>2
      <4>2. w \in readers[k]
        BY <2>1, <2>5, <4>1 DEF ExclusionOK
      <4>3. w \in readers'[k]
        BY <1>3, <2>1, <4>2, ReadersStep
      <4>4. LatestItem(k)' = LatestItem(k)
        BY <4>1 DEF LatestItem
      <4>. QED  BY <4>1, <4>3, <4>4
    <3>3. ~(RecvDone(w, s) \/ RecvResult(w, s) \/ PutDone(w, s) \/ ReleaseDone(w, s)
             \/ HandleClose(w, s))
      BY <2>1, <2>5 DEF RecvDone, RecvResult, PutDone, ReleaseDone, HandleClose, MessagesOK
    <3>4. ASSUME NEW j \in Keys, s = ServerOf[j], SendPut(w, j) \/ SendGet(w, j)
          PROVE  FALSE
      BY <2>3, <2>5, <3>4 DEF NoMsg
    <3>. QED  BY <2>1, <2>4, <3>1, <3>2, <3>3, <3>4, Senders DEF Sends
  <2>6. CASE w \in readers[k] /\ LatestItem(k) = Item(w, k) /\ ~Asked(w, k)
    <3>1. w \in readers'[k] /\ LatestItem(k)' = LatestItem(k)
      BY <1>3, <2>1, <2>6, ReadersStep, LatestItemStays, TableStep
    <3>2. Item(w, k)' = Item(w, k)
      <4>1. CASE RecvResult(w, s)
        BY <2>1, <4>1 DEF RecvResult, Send, NoMsg, TypeOK
      <4>2. CASE ~RecvResult(w, s)
        <5>1. ret'[w][k] = ret[w][k]
          <6>1. ~GetAll(w)
            BY <1>3 DEF GetAll
          <6>2. ASSUME NEW r \in Servers, RecvResult(w, r), conn[w][r].key = k
                PROVE  FALSE
            BY <4>2, <6>2 DEF RecvResult, MessagesOK
          <6>. QED  BY <2>1, <6>1, <6>2, ReturnedStep
        <5>2. CASE conn'[w][s] = conn[w][s]
          BY <5>1, <5>2
        <5>3. CASE GetItem(w, s)
          <6>1. PICK j \in Keys :
                   /\ GetItemChange(w, s, j)
                   /\ conn'[w][s] = [type |-> "RESULT", key |-> j, item |-> LatestItem(j)]
            BY <2>1, <5>3, GetItemSends
          <6>2. conn[w][s].type = "GET" /\ conn[w][s].key = j
            BY <6>1 DEF GetItemChange
          <6>. QED  BY <2>6, <5>1, <6>1, <6>2
        <5>4. ASSUME RecvDone(w, s) \/ PutDone(w, s) \/ ReleaseDone(w, s) \/ HandleClose(w, s)
              PROVE  conn[w][s].type # "RESULT" /\ conn'[w][s].type # "RESULT"
          BY <2>1, <5>4 DEF RecvDone, PutDone, ReleaseDone, HandleClose, Send, NoMsg,
             MessagesOK, TypeOK
        <5>5. ASSUME NEW j \in Keys, s = ServerOf[j], SendPut(w, j) \/ SendGet(w, j)
              PROVE  conn[w][s].type # "RESULT" /\ conn'[w][s].type # "RESULT"
          BY <2>3, <5>5 DEF NoMsg
        <5>. QED  BY <2>1, <2>4, <4>2, <5>1, <5>2, <5>3, <5>4, <5>5, Senders DEF Sends
      <4>. QED  BY <4>1, <4>2
    <3>. QED  BY <2>6, <3>1, <3>2
  <2>. QED  BY <1>3, <2>2, <2>5, <2>6 DEF RepeatOK
<1>. QED  BY <1>1, <1>2, <1>3

\* When the locks are released, what has been read is whole: a transaction
\* that was read has put all its keys, and each was locked since it was read.
LEMMA SnapshotStep ==
    ASSUME TypeOK, ControlOK, MessagesOK, CommittedOK, ReadableOK, RepeatOK, SnapshotOK,
           [Next]_vars
    PROVE  SnapshotOK'
<1>. SUFFICES ASSUME NEW w \in Workers, pc'[w] \in {"release_get", "returned"},
                     read_duration = "LONG", NEW j \in ReadSet[trx'[w]],
                     NEW k \in ReadSet[trx'[w]], ret'[w][k].trx # NoTrx,
                     j \in WriteSet[ret'[w][k].trx]
              PROVE  ret'[w][k].ts <= ret'[w][j].ts
  BY DurationStays DEF SnapshotOK
<1>1. TypeOK' /\ trx'[w] \in Trxs /\ j \in Keys /\ k \in Keys
  <2>1. trx'[w] \in Trxs
    BY TypeStep, ControlStep DEF ControlOK, Running
  <2>. QED  BY <2>1, TypeStep, LockAssumption
<1>2. PICK v \in Workers : PhaseStep(v) \/ UNCHANGED <<queue, trx, pc, trx_ts>>
  BY Phases
<1>3. ASSUME NEW i \in Keys, ~GetAll(w), \A s \in Servers : ~RecvResult(w, s)
      PROVE  ret'[w][i] = ret[w][i]
  BY <1>3, ReturnedStep
<1>4. ~GetAll(w)
  BY DEF GetAll, TypeOK
<1>5. CASE pc[w] \in {"release_get", "returned"} /\ trx'[w] = trx[w]
  <2>1. \A s \in Servers : ~RecvResult(w, s)
    BY <1>5 DEF RecvResult, MessagesOK
  <2>. QED  BY <1>1, <1>3, <1>4, <1>5, <2>1 DEF SnapshotOK
<1>6. CASE BeginRelease(w) /\ pc[w] = "get"
  <2>1. UNCHANGED <<trx, ret>>
    BY <1>6 DEF BeginRelease
  <2>2. \A i \in ReadSet[trx[w]] : ret[w][i] = LatestItem(i)
    <3>1. \A i \in ReadSet[trx[w]] : conn[w][ServerOf[i]] = NoMsg /\ i \notin todo[w]
      BY <1>1, <1>6, <2>1, LockAssumption DEF BeginRelease, Idle
    <3>. QED  BY <1>6, <3>1 DEF RepeatOK, NoMsg
  <2>. DEFINE t == ret[w][k].trx
  <2>3. Readable(k, ret[w][k])
    BY <1>1 DEF ReadableOK
  <2>4. t \in Trxs /\ ret[w][k].ts = trx_ts[t] /\ ~Putting(t)
    BY <2>1, <2>3 DEF Readable, EmptyItem
  <2>5. trx_ts[t] <= latest_commit[j]
    BY <2>1, <2>4 DEF CommittedOK
  <2>6. ret[w][j].ts = latest_commit[j]
    <3>1. ret[w][j] = LatestItem(j)
      BY <2>1, <2>2
    <3>2. LatestItem(j).ts = latest_commit[j]
      BY DEF LatestItem, EmptyItem
    <3>. QED  BY <3>1, <3>2
  <2>. QED  BY <2>1, <2>4, <2>5, <2>6
<1>7. CASE ReadSet[trx'[w]] = {}
  BY <1>7
<1>8. \/ pc[w] \in {"release_get", "returned"} /\ trx'[w] = trx[w]
      \/ BeginRelease(w) /\ pc[w] = "get"
      \/ ReadSet[trx'[w]] = {}
  <2>1. CASE UNCHANGED <<queue, trx, pc, trx_ts>>
    BY <2>1
  <2>2. CASE Pop(v)
    <3>1. PICK t \in Trxs : /\ trx' = [trx EXCEPT ![v] = t]
                            /\ pc' = [pc EXCEPT ![v] = IF WriteSet[t] # {} THEN "put_all"
                                                       ELSE IF ReadSet[t] # {} THEN "get_all"
                                                       ELSE "returned"]
      BY <2>2 DEF Pop, TypeOK
    <3>. QED  BY <3>1 DEF TypeOK
  <2>3. CASE Return(v)
    BY <2>3 DEF Return, TypeOK
  <2>4. CASE BeginRelease(v)
    BY <2>4 DEF BeginRelease, TypeOK
  <2>5. CASE Exit(v) \/ Finish(v) \/ PutAll(v) \/ GetAll(v)
    BY <2>5 DEF Exit, Finish, PutAll, GetAll, TypeOK
  <2>. QED  BY <1>2, <2>1, <2>2, <2>3, <2>4, <2>5 DEF PhaseStep
<1>. QED  BY <1>5, <1>6, <1>7, <1>8

-----------------------------------------------------------------------------
(* Invariants *)

TableOK == TypeOK /\ ControlOK /\ MessagesOK /\ ExclusionOK /\ RunOK /\ PutsOK /\ StoreOK

\* The parts that hold for every lock duration are inductive on their own.
LEMMA TableOKStep ==
    ASSUME TableOK, [Next]_vars
    PROVE  TableOK'
<1>. USE DEF TableOK
<1>1. TypeOK' /\ ControlOK' /\ MessagesOK'
  BY TypeStep, ControlStep, MessagesStep
<1>2. ExclusionOK' /\ RunOK'
  BY ExclusionStep, RunStep
<1>3. PutsOK' /\ StoreOK'
  BY PutsStep, StoreStep
<1>. QED  BY <1>1, <1>2, <1>3

\* Nothing has been put or read yet.
LEMMA TableInit == Init => TableInv /\ GetInv /\ UniqueTs
<1>. SUFFICES ASSUME Init
              PROVE  TableInv /\ GetInv /\ UniqueTs
  OBVIOUS
<1>. USE LockAssumption DEF Init
<1>1. \A w \in Workers : pc[w] = "pop" /\ ~Running(w)
  BY DEF Running
<1>2. \A w \in Workers, s \in Servers : conn[w][s] = NoMsg /\ at[w][s] = "recv"
  OBVIOUS
<1>3. \A t \in Trxs : Putting(t)
  BY DEF Putting
<1>4. RunOK /\ PutsOK
  BY <1>1, <1>2 DEF RunOK, PutsOK, NoMsg
<1>5. StoreOK
  BY <1>2 DEF StoreOK
<1>6. CommittedOK /\ HiddenOK
  BY <1>1, <1>3 DEF CommittedOK, HiddenOK
<1>7. ReadableOK
  BY <1>2 DEF ReadableOK, Readable, NoMsg
<1>8. RepeatOK /\ SnapshotOK
  BY <1>1 DEF RepeatOK, SnapshotOK
<1>9. UniqueTs
  BY DEF UniqueTs
<1>. QED  BY <1>4, <1>5, <1>6, <1>7, <1>8, <1>9 DEF TableInv, GetInv

\* With long write locks every reachable state satisfies the whole invariant:
\* the locks, the table behind them and what get_all reads of it.
THEOREM Invariance == ASSUME WriteDuration = "LONG" PROVE Spec => []IInv
<1>1. Init => IInv
  BY LockInit, TableInit DEF IInv
<1>2. IInv /\ [Next]_vars => IInv'
  <2>. SUFFICES ASSUME IInv, [Next]_vars
                PROVE  IInv'
    OBVIOUS
  <2>. USE DEF IInv, LockInv, TableInv, GetInv
  <2>1. TypeOK' /\ ControlOK' /\ MessagesOK'
    BY TypeStep, ControlStep, MessagesStep
  <2>2. OneRequest' /\ ExclusionOK' /\ LocksOK' /\ OrderOK'
    BY OneRequestStep, ExclusionStep, LocksStep, OrderStep
  <2>3. RunOK' /\ PutsOK' /\ StoreOK'
    BY RunStep, PutsStep, StoreStep
  <2>4. CommittedOK' /\ HiddenOK'
    BY CommittedStep, HiddenStep
  <2>5. ReadableOK' /\ RepeatOK' /\ SnapshotOK'
    BY ReadableStep, RepeatStep, SnapshotStep
  <2>. QED  BY <2>1, <2>2, <2>3, <2>4, <2>5
<1>. QED  BY <1>1, <1>2, PTL DEF Spec

\* No get returns a version of a transaction that is still putting, if it
\* takes a lock at all: the rr and rc settings.
THEOREM NoReadUncommitted == ASSUME WriteDuration = "LONG" PROVE Spec => []NoDirtyReads
<1>1. IInv => NoDirtyReads
  <2>. SUFFICES ASSUME IInv, read_duration # "NONE",
                       NEW w \in Workers, NEW v \in Workers, NEW k \in Keys, pc[v] = "put"
                PROVE  ret[w][k].trx # trx[v]
    BY DEF NoDirtyReads
  <2>1. trx[v] \in Trxs /\ Putting(trx[v])
    BY DEF IInv, LockInv, ControlOK, Running, Putting
  <2>2. Readable(k, ret[w][k])
    BY DEF IInv, GetInv, ReadableOK
  <2>. QED  BY <2>1, <2>2, LockAssumption DEF Readable, EmptyItem
<1>. QED  BY <1>1, Invariance, PTL

\* While get_all holds its read locks, what it has read is what the table
\* holds: the rr setting.
THEOREM ReadsRepeat == ASSUME WriteDuration = "LONG" PROVE Spec => []RepeatableReads
<1>1. IInv => RepeatableReads
  BY DEF IInv, GetInv, RepeatOK, RepeatableReads, Requested
<1>. QED  BY <1>1, Invariance, PTL

\* latest_commit never goes back, whatever the lock durations and the clock
\* are: commit compares and stores under the write lock of the key.
THEOREM LatestNeverGoesBack == Spec => CommitsMoveForward
<1>1. Init => TableOK
  BY LockInit, TableInit DEF TableOK, LockInv, TableInv
<1>2. TableOK /\ [Next]_vars => TableOK'
  BY TableOKStep
<1>3. TableOK /\ [Next]_vars => [\A k \in Keys : latest_commit'[k] >= latest_commit[k]]_vars
  <2>. SUFFICES ASSUME TableOK, [Next]_vars, NEW k \in Keys
                PROVE  latest_commit'[k] >= latest_commit[k]
    OBVIOUS
  <2>. USE DEF TableOK
  <2>. QED  BY TableStep, TypeStep, LatestGrows
<1>. QED  BY <1>1, <1>2, <1>3, PTL DEF Spec, CommitsMoveForward

-----------------------------------------------------------------------------
(* What is published *)

\* Only the end of put_all's loop publishes a transaction.  One that has no
\* keys to write is never put, but has no timestamp either.
LEMMA StampsStay ==
    ASSUME TypeOK, ControlOK, RunOK, [Next]_vars
    PROVE  \/ \A t \in Trxs : Stamp'[t] = Stamp[t]
           \/ \E w \in Workers : /\ BeginRelease(w) /\ pc[w] = "put" /\ trx[w] \in Trxs
                                 /\ \A t \in Trxs : t # trx[w] => Stamp'[t] = Stamp[t]
<1>1. CASE UNCHANGED <<queue, trx, pc, trx_ts>>
  BY <1>1 DEF Stamp, Putting
<1>2. ASSUME NEW w \in Workers, Pop(w), NEW t \in Trxs
      PROVE  Stamp'[t] = Stamp[t]
  <2>1. CASE t \in queue
    BY <1>2, <2>1 DEF Pop, RunOK, Stamp, Putting
  <2>2. CASE t \notin queue
    BY <1>2, <2>2 DEF Pop, TypeOK, Stamp, Putting
  <2>. QED  BY <2>1, <2>2
<1>3. ASSUME NEW w \in Workers, Exit(w) \/ Finish(w) \/ GetAll(w) \/ Return(w), NEW t \in Trxs
      PROVE  Stamp'[t] = Stamp[t]
  BY <1>3 DEF Exit, Finish, GetAll, Return, TypeOK, Stamp, Putting
<1>4. ASSUME NEW w \in Workers, PutAll(w), NEW t \in Trxs
      PROVE  Stamp'[t] = Stamp[t]
  <2>1. Putting(t)' = Putting(t)
    BY <1>4 DEF PutAll, TypeOK, Putting
  <2>2. Putting(trx[w])
    BY <1>4 DEF PutAll, Putting
  <2>3. t # trx[w] => trx_ts'[t] = trx_ts[t]
    BY <1>4 DEF PutAll, TypeOK
  <2>. QED  BY <2>1, <2>2, <2>3 DEF Stamp
<1>5. ASSUME NEW w \in Workers, BeginRelease(w), pc[w] # "put", NEW t \in Trxs
      PROVE  Stamp'[t] = Stamp[t]
  BY <1>5 DEF BeginRelease, TypeOK, Stamp, Putting
<1>6. ASSUME NEW w \in Workers, BeginRelease(w), pc[w] = "put"
      PROVE  trx[w] \in Trxs /\ \A t \in Trxs : t # trx[w] => Stamp'[t] = Stamp[t]
  BY <1>6 DEF BeginRelease, TypeOK, ControlOK, Running, Stamp, Putting
<1>. QED  BY <1>1, <1>2, <1>3, <1>4, <1>5, <1>6, Phases DEF PhaseStep

\* A step publishes one transaction, at a timestamp of its own, or none.
LEMMA StampStep ==
    ASSUME TypeOK, ControlOK, MessagesOK, RunOK, UniqueTs, Clock # "any", [Next]_vars
    PROVE  \/ Stamp' = Stamp
           \/ View' = View /\ \E t \in Trxs : Visibility!Publish(t)
<1>1. CASE \A t \in Trxs : Stamp'[t] = Stamp[t]
  BY <1>1 DEF Stamp
<1>2. ASSUME NEW w \in Workers, BeginRelease(w), pc[w] = "put", trx[w] \in Trxs,
             \A t \in Trxs : t # trx[w] => Stamp'[t] = Stamp[t]
      PROVE  Stamp' = Stamp \/ (View' = View /\ Visibility!Publish(trx[w]))
  <2>. DEFINE t == trx[w]
              n == trx_ts[t]
  <2>1. n \in Timestamps
    BY <1>2, TimestampsNat DEF ControlOK, TypeOK
  <2>2. Stamp[t] = 0
    BY <1>2 DEF Stamp, Putting
  <2>3. Stamp'[t] \in {0, n}
    BY <1>2 DEF BeginRelease, Stamp
  <2>4. CASE Stamp'[t] = 0
    BY <1>2, <2>2, <2>4 DEF Stamp
  <2>5. CASE Stamp'[t] = n
    <3>1. \A u \in Trxs : Stamp[u] # n
      BY <1>2, <2>1, <2>2, TimestampsNat DEF Stamp, UniqueTs
    <3>2. Stamp' = [Stamp EXCEPT ![t] = n]
      BY <1>2, <2>5 DEF Stamp
    <3>3. View' = View
      BY <1>2 DEF BeginRelease, TypeOK, View
    <3>. HIDE DEF n, t
    <3>. QED  BY <1>2, <2>1, <2>2, <2>5, <3>1, <3>2, <3>3 DEF Visibility!Publish, t
  <2>. QED  BY <2>3, <2>4, <2>5
<1>. QED  BY <1>1, <1>2, StampsStay

-----------------------------------------------------------------------------
(* What a view shows *)

\* v is what some published transactions leave behind.
Shows(v) ==
    \E S \in SUBSET Visibility!Published, K \in SUBSET Keys :
        v \in [K -> Trxs \cup {NoTrx}] /\ \A k \in K : Visibility!IsLast(v[k], S, k)

HasView(w) == pc[w] = "returned" /\ read_duration = "LONG"

ViewsOK == \A w \in Workers : HasView(w) => Shows(View[w])

\* A view is one that the abstract get allows: applying, in the order of their
\* timestamps, all published transactions that are nowhere newer than what was
\* read gives exactly the transactions that were read.
LEMMA ViewShows ==
    ASSUME IInv
    PROVE  ViewsOK
<1>. SUFFICES ASSUME NEW w \in Workers, HasView(w)
              PROVE  Shows(View[w])
  BY DEF ViewsOK
<1>. USE DEF IInv, LockInv, GetInv, HasView
<1>. DEFINE K == ReadSet[trx[w]]
            v == [k \in K |-> ret[w][k].trx]
            S == {t \in Visibility!Published :
                     \A k \in K \cap WriteSet[t] : trx_ts[t] <= ret[w][k].ts}
<1>1. View[w] = v
  BY DEF View
<1>2. trx[w] \in Trxs /\ K \subseteq Keys
  BY LockAssumption DEF ControlOK, Running
<1>3. \A t \in Visibility!Published :
         t \in Trxs /\ Stamp[t] = trx_ts[t] /\ trx_ts[t] # 0 /\ trx_ts[t] \in Nat
  <2>1. \A t \in Visibility!Published : t \in Trxs /\ Stamp[t] = trx_ts[t] /\ trx_ts[t] # 0
    BY DEF Visibility!Published, Stamp
  <2>2. \A t \in Trxs : trx_ts[t] \in TsOrEmpty
    BY DEF TypeOK
  <2>. QED  BY <2>1, <2>2, TimestampsNat
<1>4. v \in [K -> Trxs \cup {NoTrx}]
  BY <1>2 DEF TypeOK, Version
<1>5. ASSUME NEW k \in K
      PROVE  Visibility!IsLast(v[k], S, k)
  <2>1. k \in Keys /\ Readable(k, ret[w][k])
    BY <1>2 DEF ReadableOK
  <2>2. CASE v[k] = NoTrx
    <3>1. ret[w][k].ts = 0
      BY <2>1, <2>2, LockAssumption DEF Readable, EmptyItem
    <3>2. ASSUME NEW t \in S, k \in WriteSet[t]
          PROVE  FALSE
      BY <1>3, <3>1, <3>2
    <3>. QED  BY <2>2, <3>2 DEF Visibility!IsLast, Visibility!Writers
  <2>3. CASE v[k] # NoTrx
    <3>. DEFINE t == ret[w][k].trx
    <3>1. /\ t \in Trxs /\ k \in WriteSet[t] /\ ~Putting(t)
          /\ trx_ts[t] # 0 /\ ret[w][k].ts = trx_ts[t]
      BY <2>1, <2>3 DEF Readable, EmptyItem
    <3>2. t \in Visibility!Published
      BY <3>1 DEF Visibility!Published, Stamp
    <3>3. \A j \in K \cap WriteSet[t] : trx_ts[t] <= ret[w][j].ts
      BY <2>3, <3>1 DEF SnapshotOK
    <3>4. t \in S
      BY <3>2, <3>3
    <3>5. \A u \in S : k \in WriteSet[u] => Stamp[u] <= Stamp[t]
      BY <1>3, <3>1, <3>2
    <3>. HIDE DEF S
    <3>. QED  BY <3>1, <3>4, <3>5 DEF Visibility!IsLast, Visibility!Writers
  <2>. QED  BY <2>2, <2>3
<1>6. S \in SUBSET Visibility!Published
  OBVIOUS
<1>. HIDE DEF S, v, K
<1>. QED  BY <1>1, <1>2, <1>4, <1>5, <1>6 DEF Shows

\* A step moves one worker; what the others have returned stays as it is.
OneMoves ==
    \E w \in Workers : \A v \in Workers :
        v # w => pc'[v] = pc[v] /\ trx'[v] = trx[v] /\ ret'[v] = ret[v]

\* Whatever the step is, such a worker can be named.
LEMMA OneWorker ==
    ASSUME TypeOK, [Next]_vars, Workers # {}
    PROVE  OneMoves
<1>. USE DEF TypeOK, OneMoves
<1>1. CASE UNCHANGED <<pc, trx, ret>>
  BY <1>1
<1>2. ASSUME NEW w \in Workers, WorkerStep(w)
      PROVE  OneMoves
  BY <1>2 DEF WorkerStep, Pop, Exit, Finish, PutAll, GetAll, BeginRelease, Return, SendPut,
     SendGet, SendKey, SendRelease, RecvDone, RecvResult, workerVars
<1>3. ASSUME NEW w \in Workers, NEW s \in Servers, ExecutorStep(w, s) \/ SendClose(w, s)
      PROVE  UNCHANGED <<pc, trx, ret>>
  BY <1>3 DEF ExecutorStep, WriteLock, PutItem, CommitKey, PutDone, ReadLock, GetItem,
     Unlock, ReleaseDone, HandleClose, SendClose, workerVars
<1>. QED  BY <1>1, <1>2, <1>3 DEF Next, Terminating, vars, workerVars

\* A step that publishes nothing changes the view of one client, to one that
\* the abstract specification allows, or no view at all.
LEMMA ViewStep ==
    ASSUME TypeOK, ViewsOK', [Next]_vars, Stamp' = Stamp
    PROVE  \/ View' = View
           \/ \E w \in Workers : Visibility!Read(w) \/ Visibility!Leave(w)
<1>1. CASE Workers = {}
  BY <1>1 DEF View
<1>2. ASSUME Workers # {}, View' # View
      PROVE  \E w \in Workers : Visibility!Read(w) \/ Visibility!Leave(w)
  <2>1. PICK w \in Workers : \A v \in Workers :
               v # w => pc'[v] = pc[v] /\ trx'[v] = trx[v] /\ ret'[v] = ret[v]
    BY <1>2, OneWorker DEF OneMoves
  <2>2. \A v \in Workers : v # w => View'[v] = View[v]
    BY <2>1, DurationStays DEF View
  <2>3. View' = [View EXCEPT ![w] = View'[w]] /\ View'[w] # View[w]
    BY <1>2, <2>2 DEF View
  <2>4. CASE ~HasView(w)'
    <3>1. View'[w] = Visibility!NoView
      BY <2>4 DEF View, HasView, Visibility!NoView
    <3>. QED  BY <2>3, <3>1 DEF Visibility!Leave
  <2>5. CASE HasView(w)'
    <3>1. Shows(View[w])'
      BY <2>5 DEF ViewsOK
    <3>. QED  BY <2>3, <3>1 DEF Shows, Visibility!Read, Visibility!Published,
                 Visibility!IsLast, Visibility!Writers
  <2>. QED  BY <2>4, <2>5
<1>. QED  BY <1>1, <1>2

-----------------------------------------------------------------------------
\* Two-phase locking implements the abstract promise: every transaction becomes
\* visible in one step, with all its keys on all servers, and readers with long
\* locks see such transactions whole, for any number of keys, servers, workers
\* and transactions, if no two transactions read the same time.
THEOREM Refinement ==
    ASSUME WriteDuration = "LONG", Clock # "any"
    PROVE  Spec => AtomicallyVisible
<1>1. Init => Visibility!Init
  BY LockAssumption DEF Init, Visibility!Init, Visibility!NoView, Stamp, View
<1>2. IInv => ViewsOK
  BY ViewShows
<1>3. IInv /\ UniqueTs /\ [Next]_vars => UniqueTs'
  BY TimestampStep DEF IInv, LockInv, TableInv
<1>4. IInv /\ UniqueTs /\ ViewsOK' /\ [Next]_vars => [Visibility!Next]_(Visibility!vars)
  BY StampStep, ViewStep DEF IInv, LockInv, TableInv, Visibility!Next, Visibility!vars
<1>5. Init => UniqueTs
  BY TableInit
<1>. QED
  BY <1>1, <1>2, <1>3, <1>4, <1>5, Invariance, PTL
  DEF Spec, AtomicallyVisible, Visibility!Spec

=============================================================================

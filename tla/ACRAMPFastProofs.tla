-------------------------- MODULE ACRAMPFastProofs --------------------------
(***************************************************************************)
(* Proofs about ACRAMPFast: without its cache it takes the steps of a      *)
(* RAMP-Fast with a looser first round, so the invariant of that one and   *)
(* its atomic visibility hold for the clients that read the cache, unless  *)
(* one of their reads has accepted parts of several items for one.         *)
(***************************************************************************)
EXTENDS ACRAMPFastInv, TLAPS

-----------------------------------------------------------------------------
(* Messages and executors without the cache *)

\* The fields a message has by its type.
LEMMA ACMessageFields ==
    ASSUME NEW m \in ACMessage
    PROVE  /\ m.type = "PREPARE" => m.item \in Item
           /\ m.type = "COMMIT" => m.ts \in Timestamps
           /\ m.type = "GET" => m.key \in Keys /\ m.ts \in TsOrEmpty
           /\ m.type \in {"GET_WITH_ADDR", "READ"} => m.key \in Keys
           /\ m.type = "READ" => m.seen \in SUBSET Item
           /\ m.type \in {"RESULT", "RESULT_WITH_ADDR"} => m.key \in Keys /\ m.item \in Item
  BY DEF ACMessage

\* What a message of the client or the server is without the cache.
LEMMA PlainMessages ==
    ASSUME NEW m, NEW e
    PROVE  /\ m.type \in {"GET_WITH_ADDR", "READ"} =>
                 PlainMessage(m, e) = [type |-> "GET", key |-> m.key, ts |-> 0]
           /\ m.type = "RESULT_WITH_ADDR" => PlainMessage(m, e) = Result(m.key, m.item)
           /\ m.type = "PREPARE" /\ e.at = "invalidate" => PlainMessage(m, e) = Done
           /\ m.type = "PREPARE" /\ e.at # "invalidate" => PlainMessage(m, e) = m
           /\ m.type \notin {"GET_WITH_ADDR", "READ", "RESULT_WITH_ADDR", "PREPARE"} =>
                 PlainMessage(m, e) = m
  BY DEF PlainMessage

\* Where an executor stands without the cache.
LEMMA PlainStates ==
    ASSUME NEW e
    PROVE  /\ e.at = "invalidate" => PlainState(e) = Receiving
           /\ e.at = "update" => PlainState(e) = NextItem(e)
           /\ e.at \notin {"invalidate", "update"} => PlainState(e) = e
  BY DEF PlainState

\* An executor moves among its states.
LEMMA ACExecutorMoves ==
    ASSUME NEW e \in ACExecutorState
    PROVE  /\ NextItem(e) \in ACExecutorState
           /\ NextItem(e).at = "test" /\ NextItem(e).i = e.i + 1 /\ NextItem(e).n = e.n
           /\ \A at \in {"invalidate", "set", "update", "closed"} :
                 /\ [e EXCEPT !.at = at] \in ACExecutorState
                 /\ [e EXCEPT !.at = at].at = at
                 /\ [e EXCEPT !.at = at].i = e.i /\ [e EXCEPT !.at = at].n = e.n
                 /\ NextItem([e EXCEPT !.at = at]) = NextItem(e)
<1>1. e.i \in Nat /\ e.n \in Nat /\ e.i + 1 \in Nat
  BY DEF ACExecutorState
<1>2. /\ NextItem(e) = [at |-> "test", i |-> e.i + 1, n |-> e.n]
      /\ \A at \in {"invalidate", "set", "update", "closed"} :
            /\ [e EXCEPT !.at = at] = [at |-> at, i |-> e.i, n |-> e.n]
            /\ NextItem([e EXCEPT !.at = at]) = [at |-> "test", i |-> e.i + 1, n |-> e.n]
  <2>1. e = [at |-> e.at, i |-> e.i, n |-> e.n]
    BY DEF ACExecutorState
  <2>2. NextItem(e) = [at |-> "test", i |-> e.i + 1, n |-> e.n]
    <3>1. NextItem(e) \in ACExecutorState
      BY <1>1 DEF ACExecutorState, NextItem
    <3>2. NextItem(e).at = "test" /\ NextItem(e).i = e.i + 1 /\ NextItem(e).n = e.n
      BY <1>1 DEF ACExecutorState, NextItem
    <3>3. \A f \in ACExecutorState : f = [at |-> f.at, i |-> f.i, n |-> f.n]
      BY DEF ACExecutorState
    <3>. QED  BY <3>1, <3>2, <3>3
  <2>3. ASSUME NEW at \in {"invalidate", "set", "update", "closed"}
        PROVE  [e EXCEPT !.at = at] = [at |-> at, i |-> e.i, n |-> e.n]
    BY <2>1
  <2>4. ASSUME NEW at \in {"invalidate", "set", "update", "closed"}
        PROVE  NextItem([e EXCEPT !.at = at]) = NextItem(e)
    BY DEF NextItem, ACExecutorState
  <2>. QED  BY <2>2, <2>3, <2>4
<1>. QED  BY <1>1, <1>2 DEF ACExecutorState

\* Each connection and each executor by itself.
LEMMA PlainPoint ==
    ASSUME NEW w \in Workers, NEW s \in Servers
    PROVE  /\ PlainConn[w][s] = PlainMessage(conn[w][s], executor[w][s])
           /\ PlainExecutor[w][s] = PlainState(executor[w][s])
  BY DEF PlainConn, PlainExecutor

\* A step puts the message m on one connection and moves its executor to e.
Moved(w, s, m, e) ==
    /\ conn' = [conn EXCEPT ![w][s] = m]
    /\ executor' = [executor EXCEPT ![w][s] = e]

PlainMoved(w, s, m, e) ==
    /\ PlainConn' = [PlainConn EXCEPT ![w][s] = PlainMessage(m, e)]
    /\ PlainExecutor' = [PlainExecutor EXCEPT ![w][s] = PlainState(e)]

\* Without the cache it moves those alone as well.
LEMMA PlainMoves ==
    ASSUME ACTypeOK, NEW w \in Workers, NEW s \in Servers, NEW m, NEW e, Moved(w, s, m, e)
    PROVE  PlainMoved(w, s, m, e)
<1>. USE DEF Moved, PlainMoved
<1>1. /\ conn'[w][s] = m /\ executor'[w][s] = e
      /\ \A v \in Workers, r \in Servers :
            v # w \/ r # s => conn'[v][r] = conn[v][r] /\ executor'[v][r] = executor[v][r]
  BY DEF ACTypeOK
<1>2. ASSUME NEW v \in Workers
      PROVE  /\ PlainConn'[v] = [PlainConn EXCEPT ![w][s] = PlainMessage(m, e)][v]
             /\ PlainExecutor'[v] = [PlainExecutor EXCEPT ![w][s] = PlainState(e)][v]
  <2>1. /\ PlainConn'[v] = [r \in Servers |-> PlainMessage(conn'[v][r], executor'[v][r])]
        /\ PlainExecutor'[v] = [r \in Servers |-> PlainState(executor'[v][r])]
        /\ PlainConn[v] = [r \in Servers |-> PlainMessage(conn[v][r], executor[v][r])]
        /\ PlainExecutor[v] = [r \in Servers |-> PlainState(executor[v][r])]
    BY DEF PlainConn, PlainExecutor
  <2>2. CASE v # w
    <3>1. PlainConn'[v] = PlainConn[v] /\ PlainExecutor'[v] = PlainExecutor[v]
      BY <1>1, <2>1, <2>2
    <3>. QED  BY <2>2, <3>1 DEF PlainConn, PlainExecutor
  <2>3. CASE v = w
    <3>1. /\ PlainConn'[v] = [PlainConn[v] EXCEPT ![s] = PlainMessage(m, e)]
          /\ PlainExecutor'[v] = [PlainExecutor[v] EXCEPT ![s] = PlainState(e)]
      <4>1. \A r \in Servers :
               /\ PlainConn'[v][r] = IF r = s THEN PlainMessage(m, e) ELSE PlainConn[v][r]
               /\ PlainExecutor'[v][r] = IF r = s THEN PlainState(e) ELSE PlainExecutor[v][r]
        BY <1>1, <2>1, <2>3
      <4>2. PlainConn'[v] = [PlainConn[v] EXCEPT ![s] = PlainMessage(m, e)]
        BY <2>1, <4>1
      <4>3. PlainExecutor'[v] = [PlainExecutor[v] EXCEPT ![s] = PlainState(e)]
        BY <2>1, <4>1
      <4>. QED  BY <4>2, <4>3
    <3>. QED  BY <2>3, <3>1 DEF PlainConn, PlainExecutor
  <2>. QED  BY <2>2, <2>3
<1>3. /\ PlainConn' = [v \in Workers |-> PlainConn'[v]]
      /\ PlainExecutor' = [v \in Workers |-> PlainExecutor'[v]]
  BY DEF PlainConn, PlainExecutor
<1>4. /\ [PlainConn EXCEPT ![w][s] = PlainMessage(m, e)] =
            [v \in Workers |-> [PlainConn EXCEPT ![w][s] = PlainMessage(m, e)][v]]
      /\ [PlainExecutor EXCEPT ![w][s] = PlainState(e)] =
            [v \in Workers |-> [PlainExecutor EXCEPT ![w][s] = PlainState(e)][v]]
  BY DEF PlainConn, PlainExecutor
<1>. QED  BY <1>2, <1>3, <1>4

\* A step that leaves connections and executors alone.
LEMMA PlainSame ==
    ASSUME conn' = conn, executor' = executor
    PROVE  PlainConn' = PlainConn /\ PlainExecutor' = PlainExecutor
  BY DEF PlainConn, PlainExecutor

\* A message is sent, or taken, while the executor stays where it stands.
LEMMA PlainSend ==
    ASSUME ACTypeOK, NEW w \in Workers, NEW s \in Servers, NEW m,
           Send(w, s, m), executor' = executor
    PROVE  /\ PlainConn' = [PlainConn EXCEPT ![w][s] = PlainMessage(m, executor[w][s])]
           /\ PlainExecutor' = PlainExecutor
<1>1. PICK e : e = executor[w][s]
  OBVIOUS
<1>2. PlainExecutor' = PlainExecutor
  BY DEF PlainExecutor
<1>3. Moved(w, s, m, e)
  BY <1>1 DEF Send, ACTypeOK, Moved
<1>4. PlainMoved(w, s, m, e)
  BY <1>3, PlainMoves
<1>. QED  BY <1>1, <1>2, <1>4 DEF PlainMoved

\* An executor moves to e while the message stays.
MovedOnly(w, s, e) == conn' = conn /\ executor' = [executor EXCEPT ![w][s] = e]

\* Without the cache it moves as well, and may change what the message counts as.
LEMMA PlainMove ==
    ASSUME ACTypeOK, NEW w \in Workers, NEW s \in Servers, NEW e, MovedOnly(w, s, e)
    PROVE  PlainMoved(w, s, conn[w][s], e)
<1>1. PICK m : m = conn[w][s]
  OBVIOUS
<1>2. Moved(w, s, m, e)
  BY <1>1 DEF ACTypeOK, Moved, MovedOnly
<1>3. PlainMoved(w, s, m, e)
  BY <1>2, PlainMoves
<1>. QED  BY <1>1, <1>3

\* What is put back where it was changes nothing.
LEMMA PlainEntry ==
    ASSUME NEW w \in Workers, NEW s \in Servers
    PROVE  /\ [PlainConn EXCEPT ![w][s] = PlainConn[w][s]] = PlainConn
           /\ [PlainExecutor EXCEPT ![w][s] = PlainExecutor[w][s]] = PlainExecutor
<1>1. /\ PlainConn[w] = [PlainConn[w] EXCEPT ![s] = PlainConn[w][s]]
      /\ PlainExecutor[w] = [PlainExecutor[w] EXCEPT ![s] = PlainExecutor[w][s]]
  BY DEF PlainConn, PlainExecutor
<1>2. /\ PlainConn = [PlainConn EXCEPT ![w] = PlainConn[w]]
      /\ PlainExecutor = [PlainExecutor EXCEPT ![w] = PlainExecutor[w]]
  BY DEF PlainConn, PlainExecutor
<1>. QED  BY <1>1, <1>2

\* So does an executor's move that leaves the message what it was.
LEMMA PlainMoveOnly ==
    ASSUME ACTypeOK, NEW w \in Workers, NEW s \in Servers, NEW e, MovedOnly(w, s, e),
           PlainMessage(conn[w][s], e) = PlainConn[w][s]
    PROVE  /\ PlainConn' = PlainConn
           /\ PlainExecutor' = [PlainExecutor EXCEPT ![w][s] = PlainState(e)]
<1>1. PlainMoved(w, s, conn[w][s], e)
  BY PlainMove
<1>. QED  BY <1>1, PlainEntry DEF PlainMoved

\* What stands the same with and without the cache.
LEMMA SameMessages ==
    /\ Plain!NoMsg = NoMsg /\ Plain!Done = Done /\ Plain!Close = Close
    /\ Plain!Receiving = Receiving
    /\ \A k, item : Plain!Result(k, item) = Result(k, item)
    /\ \A ts : Plain!Commit(ts) = Commit(ts)
    /\ \A e : Plain!NextItem(e) = NextItem(e)
    /\ \A t, k : Plain!ItemOf(t, k) = ItemOf(t, k)
    /\ Plain!EmptyItem = EmptyItem
BY DEF NoMsg, Done, Close, Receiving, Result, Commit, NextItem, ItemOf, EmptyItem, AccessKeys,
       Plain!NoMsg, Plain!Done, Plain!Close, Plain!Receiving, Plain!Result, Plain!Commit,
       Plain!NextItem, Plain!ItemOf, Plain!EmptyItem, Plain!AccessKeys

\* So do the table and what it is asked for.
LEMMA SameTable ==
    /\ \A k, ts : Plain!IsNewer(k, ts) <=> IsNewer(k, ts)
    /\ \A old, ts : Plain!CommittedTs(old, ts) = CommittedTs(old, ts)
    /\ \A k, ts : Plain!RequestedVersion(k, ts) = RequestedVersion(k, ts)
    /\ \A s, k, ts : Plain!GetItemByVer(s, k, ts) = GetItemByVer(s, k, ts)
    /\ \A w, k : Plain!LatestSibling(w, k) = LatestSibling(w, k)
    /\ Plain!Timestamps = Timestamps /\ Plain!TsOrEmpty = TsOrEmpty
    /\ Plain!Item = Item
<1>1. /\ \A k, ts : Plain!IsNewer(k, ts) <=> IsNewer(k, ts)
      /\ \A old, ts : Plain!CommittedTs(old, ts) = CommittedTs(old, ts)
      /\ \A k, ts : Plain!RequestedVersion(k, ts) = RequestedVersion(k, ts)
  BY DEF IsNewer, CommittedTs, RequestedVersion, Plain!IsNewer, Plain!CommittedTs,
         Plain!RequestedVersion
<1>2. \A s, k, ts : Plain!GetItemByVer(s, k, ts) = GetItemByVer(s, k, ts)
  BY DEF GetItemByVer, EmptyItem, Min, Plain!GetItemByVer, Plain!EmptyItem, Plain!Min
<1>3. \A w, k : Plain!LatestSibling(w, k) = LatestSibling(w, k)
  BY DEF LatestSibling, Max, Plain!LatestSibling, Plain!Max
<1>4. /\ Plain!Timestamps = Timestamps /\ Plain!TsOrEmpty = TsOrEmpty
      /\ Plain!Item = Item
  BY DEF Timestamps, TsOrEmpty, Item, Plain!Timestamps, Plain!TsOrEmpty, Plain!Item
<1>. QED  BY <1>1, <1>2, <1>3, <1>4

\* What is prepared does not depend on the messages under way.
LEMMA SamePrepared ==
    /\ \A t : Plain!Prepared(t) <=> Prepared(t)
    /\ (\A t : Plain!Prepared(t) <=> Prepared(t))'
<1>1. \A t, k : Plain!Holds(t, k) <=> Holds(t, k)
  BY SameMessages DEF Holds, Plain!Holds
<1>2. \A t : Plain!Prepared(t) <=> Prepared(t)
  BY <1>1 DEF Prepared, Plain!Prepared
<1>. QED  BY <1>2, PTL

-----------------------------------------------------------------------------
(* Each step without the cache *)

\* Steps of a worker that touch no connection, or wait for all of them.
LEMMA WorkerSteps ==
    ASSUME NEW w \in Workers
    PROVE  /\ Pop(w) => Plain!Pop(w)
           /\ Exit(w) => Plain!Exit(w)
           /\ Finish(w) => Plain!Finish(w)
           /\ PutAll(w) => Plain!PutAll(w)
           /\ BeginCommit(w) => Plain!BeginCommit(w)
           /\ PutAllReturn(w) => Plain!PutAllReturn(w)
           /\ GetAll(w) => Plain!GetAll(w)
           /\ CheckMissing(w) => Plain!CheckMissing(w)
           /\ GetAllReturn(w) => Plain!GetAllReturn(w)
<1>1. Idle(w) => Plain!Idle(w)
  BY PlainPoint, PlainMessages, SameMessages DEF Idle, Plain!Idle, NoMsg
<1>2. AllAnswered(w) => Plain!AllAnswered(w)
  BY <1>1 DEF AllAnswered, Plain!AllAnswered
<1>3. Pop(w) => Plain!Pop(w)
  BY PlainSame DEF Pop, Plain!Pop, tableVars, Plain!tableVars
<1>4. Exit(w) => Plain!Exit(w)
  BY PlainSame DEF Exit, Plain!Exit, tableVars, Plain!tableVars
<1>5. Finish(w) => Plain!Finish(w)
  BY PlainSame DEF Finish, Plain!Finish, tableVars, Plain!tableVars
<1>6. PutAll(w) => Plain!PutAll(w)
  BY PlainSame, SameTable DEF PutAll, Plain!PutAll, tableVars, Plain!tableVars
<1>7. BeginCommit(w) => Plain!BeginCommit(w)
  BY <1>2, PlainSame DEF BeginCommit, Plain!BeginCommit, tableVars, Plain!tableVars
<1>8. PutAllReturn(w) => Plain!PutAllReturn(w)
  BY <1>1, PlainSame DEF PutAllReturn, Plain!PutAllReturn, tableVars, Plain!tableVars
<1>9. GetAll(w) => Plain!GetAll(w)
  BY PlainSame, SameMessages DEF GetAll, Plain!GetAll, tableVars, Plain!tableVars
<1>10. CheckMissing(w) => Plain!CheckMissing(w)
  BY <1>2, PlainSame, SameTable DEF CheckMissing, Plain!CheckMissing, tableVars, Plain!tableVars
<1>11. GetAllReturn(w) => Plain!GetAllReturn(w)
  BY <1>2, PlainSame DEF GetAllReturn, Plain!GetAllReturn, tableVars, Plain!tableVars
<1>. QED  BY <1>3, <1>4, <1>5, <1>6, <1>7, <1>8, <1>9, <1>10, <1>11

\* A message goes to an idle connection, and a COMMIT to whatever is pending.
LEMMA SendSteps ==
    ASSUME ACTypeOK, ExecutorOK, NEW w \in Workers
    PROVE  /\ \A k \in Keys : SendPrepare(w, k) => Plain!SendPrepare(w, k)
           /\ \A k \in Keys : SendGet(w, k) => Plain!SendGet(w, k)
           /\ \A k \in Keys : SendGetWithAddr(w, k) \/ ReadFlag(w, k) => Plain!SendGet(w, k)
           /\ \A s \in Servers : SendCommit(w, s) => Plain!SendCommit(w, s)
           /\ \A s \in Servers : SendClose(w, s) => Plain!SendClose(w, s)
<1>1. \A k \in Keys : ServerOf[k] \in Servers
  BY ConstantsAssumption
<1>2. ASSUME NEW s \in Servers, conn[w][s] = NoMsg
      PROVE  PlainConn[w][s] = Plain!NoMsg /\ executor[w][s].at # "invalidate"
  <2>1. conn[w][s].type = "none"
    BY <1>2 DEF NoMsg
  <2>. QED  BY <1>2, <2>1, PlainPoint, PlainMessages, SameMessages DEF ExecutorOK
<1>3. ASSUME NEW k \in Keys, SendPrepare(w, k)
      PROVE  Plain!SendPrepare(w, k)
  <2>. DEFINE m == [type |-> "PREPARE", item |-> ItemOf(trx[w], k)]
  <2>1. Send(w, ServerOf[k], m) /\ executor' = executor /\ conn[w][ServerOf[k]] = NoMsg
    BY <1>3 DEF SendPrepare
  <2>2. PlainMessage(m, executor[w][ServerOf[k]]) = m
    BY <1>1, <1>2, <2>1, PlainMessages
  <2>3. /\ PlainConn' = [PlainConn EXCEPT ![w][ServerOf[k]] = m]
        /\ PlainExecutor' = PlainExecutor
    BY <1>1, <2>1, <2>2, PlainSend
  <2>4. Plain!Send(w, ServerOf[k], [type |-> "PREPARE", item |-> Plain!ItemOf(trx[w], k)])
    BY <2>3, SameMessages DEF Plain!Send
  <2>. HIDE DEF m
  <2>. QED  BY <1>1, <1>2, <1>3, <2>3, <2>4
            DEF SendPrepare, Plain!SendPrepare, tableVars, Plain!tableVars
<1>4. ASSUME NEW k \in Keys, SendGet(w, k)
      PROVE  Plain!SendGet(w, k)
  <2>. DEFINE m == [type |-> "GET", key |-> k,
                    ts |-> IF pc[w] = "round1" THEN 0 ELSE v_latest[w][k]]
  <2>1. Send(w, ServerOf[k], m) /\ executor' = executor /\ conn[w][ServerOf[k]] = NoMsg
    BY <1>4 DEF SendGet
  <2>2. PlainMessage(m, executor[w][ServerOf[k]]) = m
    BY PlainMessages
  <2>3. /\ PlainConn' = [PlainConn EXCEPT ![w][ServerOf[k]] = m]
        /\ PlainExecutor' = PlainExecutor
    BY <1>1, <2>1, <2>2, PlainSend
  <2>4. Plain!Send(w, ServerOf[k], m)
    BY <2>3 DEF Plain!Send
  <2>. QED  BY <1>1, <1>2, <1>4, <2>3, <2>4
            DEF SendGet, Plain!SendGet, tableVars, Plain!tableVars
<1>5. ASSUME NEW k \in Keys, SendGetWithAddr(w, k) \/ ReadFlag(w, k)
      PROVE  Plain!SendGet(w, k)
  <2>1. PICK n \in {GetWithAddr(k), Read(k, {})} : Start(w, k, n)
    BY <1>5 DEF SendGetWithAddr, ReadFlag
  <2>. DEFINE m == [type |-> "GET", key |-> k, ts |-> 0]
  <2>2. /\ Send(w, ServerOf[k], n)
        /\ executor' = executor /\ conn[w][ServerOf[k]] = NoMsg
    BY <2>1 DEF Start
  <2>3. PlainMessage(n, executor[w][ServerOf[k]]) = m
    BY PlainMessages DEF GetWithAddr, Read
  <2>4. /\ PlainConn' = [PlainConn EXCEPT ![w][ServerOf[k]] = m]
        /\ PlainExecutor' = PlainExecutor
    BY <1>1, <2>2, <2>3, PlainSend
  <2>5. Plain!Send(w, ServerOf[k], m)
    BY <2>4 DEF Plain!Send
  <2>. QED  BY <1>1, <1>2, <2>1, <2>2, <2>4, <2>5
            DEF Start, Plain!SendGet, tableVars, Plain!tableVars
<1>6. ASSUME NEW s \in Servers, SendCommit(w, s)
      PROVE  Plain!SendCommit(w, s)
  <2>. DEFINE m == Commit(trx_ts[trx[w]])
  <2>1. Send(w, s, m) /\ executor' = executor
    BY <1>6 DEF SendCommit
  <2>2. PlainMessage(m, executor[w][s]) = m
    BY PlainMessages DEF Commit
  <2>3. /\ PlainConn' = [PlainConn EXCEPT ![w][s] = m]
        /\ PlainExecutor' = PlainExecutor
    BY <2>1, <2>2, PlainSend
  <2>4. Plain!Send(w, s, Plain!Commit(trx_ts[trx[w]]))
    BY <2>3, SameMessages DEF Plain!Send
  <2>. HIDE DEF m
  <2>. QED  BY <1>6, <2>3, <2>4
            DEF SendCommit, Plain!SendCommit, tableVars, Plain!tableVars
<1>7. ASSUME NEW s \in Servers, SendClose(w, s)
      PROVE  Plain!SendClose(w, s)
  <2>1. Send(w, s, Close) /\ executor' = executor /\ conn[w][s] = NoMsg
    BY <1>7 DEF SendClose, workerVars
  <2>2. PlainMessage(Close, executor[w][s]) = Close
    BY PlainMessages DEF Close
  <2>3. /\ PlainConn' = [PlainConn EXCEPT ![w][s] = Close]
        /\ PlainExecutor' = PlainExecutor
    BY <2>1, <2>2, PlainSend
  <2>4. Plain!Send(w, s, Plain!Close)
    BY <2>3, SameMessages DEF Plain!Send
  <2>5. PlainExecutor[w][s].at # "closed"
    <3>1. executor[w][s].at # "closed"
      BY <1>7 DEF SendClose
    <3>2. executor[w][s] \in ACExecutorState
      BY DEF ACTypeOK
    <3>3. NextItem(executor[w][s]).at = "test"
      BY <3>2, ACExecutorMoves
    <3>. QED  BY <3>1, <3>3, PlainPoint, PlainStates DEF Receiving
  <2>. QED  BY <1>2, <1>7, <2>1, <2>3, <2>4, <2>5
            DEF SendClose, Plain!SendClose, workerVars, Plain!workerVars,
                tableVars, Plain!tableVars
<1>. QED  BY <1>3, <1>4, <1>5, <1>6, <1>7

\* A worker takes an answer, from an executor that has nothing left to do.
LEMMA ReceiveSteps ==
    ASSUME ACTypeOK, NEW w \in Workers, NEW s \in Servers
    PROVE  /\ RecvDone(w, s) => Plain!RecvDone(w, s)
           /\ RecvResult(w, s) => Plain!RecvResult(w, s)
           /\ RecvItemAndAddr(w, s) => Plain!RecvResult(w, s)
<1>1. PlainMessage(NoMsg, executor[w][s]) = Plain!NoMsg
  BY PlainMessages, SameMessages DEF NoMsg
<1>2. ASSUME Send(w, s, NoMsg), executor' = executor
      PROVE  Plain!Send(w, s, Plain!NoMsg) /\ PlainExecutor' = PlainExecutor
  <2>1. \E m : m = NoMsg
    OBVIOUS
  <2>. QED  BY <1>1, <1>2, <2>1, PlainSend DEF Plain!Send
<1>3. ASSUME RecvDone(w, s)
      PROVE  Plain!RecvDone(w, s)
  <2>1. PlainConn[w][s].type = "DONE"
    BY <1>3, PlainPoint, PlainMessages DEF RecvDone
  <2>. QED  BY <1>2, <1>3, <2>1 DEF RecvDone, Plain!RecvDone, workerVars, Plain!workerVars,
                                   tableVars, Plain!tableVars
<1>4. ASSUME RecvResult(w, s)
      PROVE  Plain!RecvResult(w, s)
  <2>1. PlainConn[w][s] = conn[w][s] /\ conn[w][s].type = "RESULT"
    BY <1>4, PlainPoint, PlainMessages DEF RecvResult
  <2>. QED  BY <1>2, <1>4, <2>1 DEF RecvResult, Plain!RecvResult, tableVars, Plain!tableVars
<1>5. ASSUME RecvItemAndAddr(w, s)
      PROVE  Plain!RecvResult(w, s)
  <2>1. conn[w][s].type = "RESULT_WITH_ADDR"
    BY <1>5 DEF RecvItemAndAddr
  <2>2. /\ PlainConn[w][s].type = "RESULT" /\ PlainConn[w][s].key = conn[w][s].key
        /\ PlainConn[w][s].item = conn[w][s].item
    BY <2>1, PlainPoint, PlainMessages DEF Result
  <2>. QED  BY <1>2, <1>5, <2>2 DEF RecvItemAndAddr, Plain!RecvResult, tableVars,
                                   Plain!tableVars
<1>. QED  BY <1>3, <1>4, <1>5

\* The executor answers from the table; of the cache it sends the address only.
LEMMA GetSteps ==
    ASSUME ACTypeOK, NEW w \in Workers, NEW s \in Servers
    PROVE  /\ Get(w, s) => Plain!Get(w, s)
           /\ GetItemAndAddr(w, s) => Plain!Get(w, s)
<1>1. ASSUME NEW m, Send(w, s, m), executor' = executor
      PROVE  /\ Plain!Send(w, s, PlainMessage(m, executor[w][s]))
             /\ PlainExecutor' = PlainExecutor
  BY <1>1, PlainSend DEF Plain!Send
<1>2. ASSUME Get(w, s)
      PROVE  Plain!Get(w, s)
  <2>. DEFINE k == conn[w][s].key
              item == GetItemByVer(s, k, RequestedVersion(k, conn[w][s].ts))
              m == Result(k, item)
  <2>1. PlainConn[w][s] = conn[w][s] /\ conn[w][s].type = "GET"
    BY <1>2, PlainPoint, PlainMessages DEF Get
  <2>2. Send(w, s, m) /\ executor' = executor
    BY <1>2 DEF Get
  <2>3. PlainMessage(m, executor[w][s]) = m
    BY PlainMessages DEF Result
  <2>. HIDE DEF m
  <2>4. Plain!Send(w, s, m) /\ PlainExecutor' = PlainExecutor
    BY <1>1, <2>2, <2>3
  <2>5. m = Plain!Result(k, Plain!GetItemByVer(s, k, Plain!RequestedVersion(k, conn[w][s].ts)))
    BY SameMessages, SameTable DEF m
  <2>. QED  BY <1>2, <2>1, <2>4, <2>5 DEF Get, Plain!Get, workerVars, Plain!workerVars,
                                         tableVars, Plain!tableVars
<1>3. ASSUME GetItemAndAddr(w, s)
      PROVE  Plain!Get(w, s)
  <2>. DEFINE k == conn[w][s].key
              item == GetItemByVer(s, k, latest_commit[k])
              m == [type |-> "RESULT_WITH_ADDR", key |-> k, item |-> item]
  <2>1. conn[w][s].type = "GET_WITH_ADDR"
    BY <1>3 DEF GetItemAndAddr
  <2>2. /\ PlainConn[w][s].type = "GET" /\ PlainConn[w][s].key = k
        /\ PlainConn[w][s].ts = 0
    BY <2>1, PlainPoint, PlainMessages
  <2>3. Send(w, s, m) /\ executor' = executor
    BY <1>3 DEF GetItemAndAddr
  <2>4. PlainMessage(m, executor[w][s]) = Result(k, item)
    BY PlainMessages
  <2>. HIDE DEF m
  <2>5. Plain!Send(w, s, Result(k, item)) /\ PlainExecutor' = PlainExecutor
    BY <1>1, <2>3, <2>4
  <2>6. Plain!RequestedVersion(k, 0) = latest_commit[k]
    BY DEF Plain!RequestedVersion
  <2>7. Result(k, item) = Plain!Result(k, Plain!GetItemByVer(s, k, Plain!RequestedVersion(k, 0)))
    BY <2>6, SameMessages, SameTable
  <2>. QED  BY <1>3, <2>2, <2>5, <2>7 DEF GetItemAndAddr, Plain!Get, workerVars,
                                         Plain!workerVars, tableVars, Plain!tableVars
<1>. QED  BY <1>2, <1>3

\* What is put together from parts of items is an item, and the one they are
\* parts of if they are of one.
LEMMA MixtureItem ==
    ASSUME NEW seen \in SUBSET Item, NEW item \in Mixtures(seen)
    PROVE  item \in Item /\ (Whole(seen) => item \in seen)
<1>1. /\ item = [key |-> item.key, trx |-> item.trx,
                  ts |-> item.ts, trx_keys |-> item.trx_keys]
      /\ \E i \in seen : item.key = i.key
      /\ \E i \in seen : item.trx = i.trx
      /\ \E i \in seen : item.ts = i.ts
      /\ \E i \in seen : item.trx_keys = i.trx_keys
  BY DEF Mixtures
<1>2. item \in Item
  <2>1. /\ item.key \in Keys \cup {NoKey} /\ item.trx \in Trxs \cup {NoTrx}
        /\ item.ts \in TsOrEmpty /\ item.trx_keys \in SUBSET Keys
    BY <1>1 DEF Item
  <2>. QED  BY <1>1, <2>1 DEF Item
<1>3. ASSUME Whole(seen)
      PROVE  item \in seen
  <2>1. PICK i \in seen : seen = {i}
    BY <1>3 DEF Whole
  <2>2. i = [key |-> i.key, trx |-> i.trx, ts |-> i.ts, trx_keys |-> i.trx_keys]
    <3>1. i \in Item
      OBVIOUS
    <3>. QED  BY <3>1 DEF Item
  <2>3. item.key = i.key /\ item.trx = i.trx /\ item.ts = i.ts /\ item.trx_keys = i.trx_keys
    BY <1>1, <2>1
  <2>. QED  BY <1>1, <2>1, <2>2, <2>3
<1>. QED  BY <1>2, <1>3

\* A read of the cache is answered with a version that may be read, or its
\* worker is torn.
LEMMA ReadSteps ==
    ASSUME ACInv, NEW W \in SUBSET Workers, W = Intact',
           NEW w \in Workers, NEW s \in Servers, ReadItem(w, s)
    PROVE  Plain!AnswerGet(w, s, W)
<1>. DEFINE k == conn[w][s].key
            seen == conn[w][s].seen
<1>1. conn[w][s].type = "READ" /\ conn[w][s] \in ACMessage
  BY DEF ReadItem, ACInv, ACTypeOK
<1>2. k \in Keys /\ seen \in SUBSET Item
  BY <1>1, ACMessageFields
<1>3. PICK item \in Mixtures(seen) : Send(w, s, Result(k, item))
  BY DEF ReadItem
<1>. DEFINE m == Result(k, item)
<1>4. item \in Plain!Item /\ (Whole(seen) => item \in seen)
  BY <1>2, MixtureItem, SameTable
<1>5. w \in W => Plain!Readable(k, item)
  <2>. SUFFICES ASSUME w \in W
                PROVE  Plain!Readable(k, item)
    OBVIOUS
  <2>1. w \notin torn'
    BY DEF Intact
  <2>2. Whole(seen)
    BY <2>1 DEF ReadItem
  <2>. QED  BY <1>1, <1>4, <2>2 DEF ACInv, SeenOK
<1>6. PlainConn[w][s].type = "GET" /\ PlainConn[w][s].key = k
  BY <1>1, PlainPoint, PlainMessages
<1>7. pc[w] = "round1"
  BY <1>1 DEF ACInv, SeenOK
<1>8. Send(w, s, m) /\ executor' = executor
  BY <1>3 DEF ReadItem
<1>9. PlainMessage(m, executor[w][s]) = m /\ m = Plain!Result(k, item)
  BY PlainMessages, SameMessages DEF Result
<1>. HIDE DEF m
<1>10. Plain!Send(w, s, m) /\ PlainExecutor' = PlainExecutor
  BY <1>8, <1>9, PlainSend DEF Plain!Send, ACInv
<1>. QED  BY <1>4, <1>5, <1>6, <1>7, <1>9, <1>10 DEF ReadItem, Plain!AnswerGet, workerVars,
             Plain!workerVars, tableVars, Plain!tableVars

\* An executor's steps on the table are those of RAMPFast.
LEMMA TableSteps ==
    ASSUME ACTypeOK, ExecutorOK, Plain!MessagesOK, NEW w \in Workers, NEW s \in Servers
    PROVE  /\ PrepareItem(w, s) => Plain!Prepare(w, s)
           /\ CommitBegin(w, s) => Plain!CommitBegin(w, s)
           /\ CommitTest(w, s) => Plain!CommitTest(w, s)
           /\ SetLatest(w, s) => Plain!CommitSet(w, s)
           /\ CommitDone(w, s) => Plain!CommitDone(w, s)
<1>. DEFINE e == executor[w][s]
<1>0. e \in ACExecutorState
  BY DEF ACTypeOK
<1>1. ASSUME e.at \in {"test", "set"} \/ (e.at = "recv" /\ conn[w][s].type \in {"PREPARE", "COMMIT"})
      PROVE  PlainConn[w][s] = conn[w][s] /\ PlainExecutor[w][s] = e
  <2>1. PlainExecutor[w][s] = e
    BY <1>1, PlainPoint, PlainStates
  <2>2. e.at \in {"test", "set"} => PlainConn[w][s].type = "COMMIT"
    BY <2>1 DEF Plain!MessagesOK
  <2>3. /\ e.at = "recv" => PlainConn[w][s] = conn[w][s]
        /\ e.at # "recv" => PlainMessage(conn[w][s], e).type = "COMMIT"
    BY <1>1, <2>2, PlainPoint, PlainMessages
  <2>4. PlainMessage(conn[w][s], e).type = "COMMIT" => PlainMessage(conn[w][s], e) = conn[w][s]
    BY PlainMessages DEF Result, Done
  <2>. QED  BY <2>1, <2>3, <2>4, PlainPoint
<1>2. ASSUME PrepareItem(w, s)
      PROVE  Plain!Prepare(w, s)
  <2>. DEFINE f == [e EXCEPT !.at = "invalidate"]
  <2>1. conn[w][s].type = "PREPARE" /\ e.at = "recv" /\ conn' = conn
    BY <1>2 DEF PrepareItem
  <2>2. executor' = [executor EXCEPT ![w][s] = f] /\ f.at = "invalidate"
    BY <1>0, <1>2, ACExecutorMoves DEF PrepareItem
  <2>3. PlainMessage(conn[w][s], f) = Done /\ PlainState(f) = Receiving
    BY <2>1, <2>2, PlainMessages, PlainStates
  <2>. HIDE DEF f
  <2>4. /\ PlainConn' = [PlainConn EXCEPT ![w][s] = Done]
        /\ PlainExecutor' = [PlainExecutor EXCEPT ![w][s] = Receiving]
    <3>1. MovedOnly(w, s, f)
      BY <2>1, <2>2 DEF MovedOnly
    <3>2. PlainMoved(w, s, conn[w][s], f)
      BY <3>1, PlainMove
    <3>. QED  BY <2>3, <3>2 DEF PlainMoved
  <2>5. PlainExecutor[w][s] = Receiving
    <3>1. e = [at |-> e.at, i |-> e.i, n |-> e.n] /\ e.i = 0 /\ e.n = 0
      BY <1>0, <2>1 DEF ACExecutorState, ExecutorOK
    <3>. QED  BY <1>1, <2>1, <3>1 DEF Receiving
  <2>6. PlainExecutor' = PlainExecutor
    BY <2>4, <2>5 DEF PlainExecutor
  <2>7. PlainConn[w][s] = conn[w][s]
    BY <1>1, <2>1
  <2>8. Plain!Send(w, s, Plain!Done)
    BY <2>4, SameMessages DEF Plain!Send
  <2>. QED  BY <1>2, <2>1, <2>6, <2>7, <2>8 DEF PrepareItem, Plain!Prepare, workerVars,
                                               Plain!workerVars
<1>3. ASSUME CommitBegin(w, s)
      PROVE  Plain!CommitBegin(w, s)
  <2>. DEFINE f == [at |-> "test", i |-> 1, n |-> Len(items[s][conn[w][s].ts])]
  <2>1. conn[w][s].type = "COMMIT" /\ e.at = "recv" /\ conn' = conn
    BY <1>3 DEF CommitBegin
  <2>2. executor' = [executor EXCEPT ![w][s] = f]
    BY <1>3 DEF CommitBegin
  <2>3. f.at = "test"
    OBVIOUS
  <2>4. PlainMessage(conn[w][s], f) = conn[w][s] /\ PlainState(f) = f
    BY <2>1, <2>3, PlainMessages, PlainStates
  <2>5. PlainConn[w][s] = conn[w][s] /\ PlainExecutor[w][s] = e
    BY <1>1, <2>1
  <2>. HIDE DEF f
  <2>6. PlainConn' = PlainConn /\ PlainExecutor' = [PlainExecutor EXCEPT ![w][s] = PlainState(f)]
    <3>1. MovedOnly(w, s, f)
      BY <2>1, <2>2 DEF MovedOnly
    <3>. QED  BY <2>4, <2>5, <3>1, PlainMoveOnly
  <2>. QED  BY <1>3, <2>1, <2>4, <2>5, <2>6 DEF f, CommitBegin, Plain!CommitBegin, workerVars,
                                     Plain!workerVars, tableVars, Plain!tableVars
<1>4. ASSUME CommitTest(w, s)
      PROVE  Plain!CommitTest(w, s)
  <2>. DEFINE f == IF IsNewer(items[s][conn[w][s].ts][e.i].key, conn[w][s].ts)
                   THEN [e EXCEPT !.at = "set"] ELSE NextItem(e)
  <2>1. e.at = "test" /\ conn' = conn /\ executor' = [executor EXCEPT ![w][s] = f]
    BY <1>4 DEF CommitTest
  <2>2. f.at \in {"set", "test"}
    BY <1>0, ACExecutorMoves
  <2>3. PlainConn[w][s] = conn[w][s] /\ PlainExecutor[w][s] = e
    BY <1>1, <2>1
  <2>. HIDE DEF f
  <2>4. PlainState(f) = f
    BY <2>2, PlainStates
  <2>5. PlainMessage(conn[w][s], f) = conn[w][s]
    BY <2>2, <2>3, PlainMessages, PlainPoint, <2>1
  <2>6. PlainConn' = PlainConn /\ PlainExecutor' = [PlainExecutor EXCEPT ![w][s] = PlainState(f)]
    <3>1. MovedOnly(w, s, f)
      BY <2>1 DEF MovedOnly
    <3>. QED  BY <2>3, <2>5, <3>1, PlainMoveOnly
  <2>7. PlainExecutor' = [PlainExecutor EXCEPT ![w][s] = f]
    BY <2>4, <2>6
  <2>8. f = IF Plain!IsNewer(items[s][conn[w][s].ts][e.i].key, conn[w][s].ts)
            THEN [e EXCEPT !.at = "set"] ELSE Plain!NextItem(e)
    BY SameTable, SameMessages DEF f
  <2>. QED  BY <1>4, <2>1, <2>3, <2>6, <2>7, <2>8 DEF CommitTest, Plain!CommitTest, workerVars,
                                     Plain!workerVars, tableVars, Plain!tableVars
<1>5. ASSUME SetLatest(w, s)
      PROVE  Plain!CommitSet(w, s)
  <2>. DEFINE f == [e EXCEPT !.at = "update"]
  <2>1. e.at = "set" /\ conn' = conn /\ executor' = [executor EXCEPT ![w][s] = f]
    BY <1>5 DEF SetLatest
  <2>2. f.at = "update" /\ NextItem(f) = NextItem(e)
    BY <1>0, ACExecutorMoves
  <2>3. PlainConn[w][s] = conn[w][s] /\ PlainExecutor[w][s] = e
    BY <1>1, <2>1
  <2>. HIDE DEF f
  <2>4. PlainState(f) = NextItem(e)
    BY <2>2, PlainStates
  <2>5. PlainMessage(conn[w][s], f) = conn[w][s]
    BY <2>1, <2>2, <2>3, PlainMessages, PlainPoint
  <2>6. PlainConn' = PlainConn /\ PlainExecutor' = [PlainExecutor EXCEPT ![w][s] = PlainState(f)]
    <3>1. MovedOnly(w, s, f)
      BY <2>1 DEF MovedOnly
    <3>. QED  BY <2>3, <2>5, <3>1, PlainMoveOnly
  <2>7. PlainExecutor' = [PlainExecutor EXCEPT ![w][s] = NextItem(e)]
    BY <2>4, <2>6
  <2>8. /\ PlainExecutor' = [PlainExecutor EXCEPT ![w][s] = Plain!NextItem(e)]
        /\ \A k \in Keys : CommittedTs(latest_commit[k], conn[w][s].ts) =
                             Plain!CommittedTs(latest_commit[k], conn[w][s].ts)
    BY <2>7, SameTable, SameMessages
  <2>. QED  BY <1>5, <2>1, <2>3, <2>6, <2>8, SameTable DEF SetLatest, Plain!CommitSet,
                                     workerVars, Plain!workerVars
<1>6. ASSUME CommitDone(w, s)
      PROVE  Plain!CommitDone(w, s)
  <2>1. e.at = "test" /\ Moved(w, s, Done, Receiving)
    BY <1>6 DEF CommitDone, Moved, Send
  <2>2. PlainMoved(w, s, Done, Receiving)
    BY <2>1, PlainMoves
  <2>3. PlainMessage(Done, Receiving) = Done /\ PlainState(Receiving) = Receiving
    BY PlainMessages, PlainStates DEF Done, Receiving
  <2>4. PlainExecutor[w][s] = e
    BY <1>1, <2>1
  <2>5. /\ Plain!Send(w, s, Plain!Done)
        /\ PlainExecutor' = [PlainExecutor EXCEPT ![w][s] = Plain!Receiving]
    BY <2>2, <2>3, SameMessages DEF Plain!Send, PlainMoved
  <2>. QED  BY <1>6, <2>4, <2>5 DEF CommitDone, Plain!CommitDone, workerVars,
                                     Plain!workerVars, tableVars, Plain!tableVars
<1>. QED  BY <1>2, <1>3, <1>4, <1>5, <1>6

\* A read that goes on, or is given up for a request to the executor, is the same
\* unanswered GET.
LEMMA CopySteps ==
    ASSUME ACTypeOK, NEW w \in Workers, NEW s \in Servers, CopyPart(w, s) \/ ReadGarbage(w, s)
    PROVE  UNCHANGED Plain!vars
<1>. DEFINE k == conn[w][s].key
<1>1. conn[w][s].type = "READ" /\ executor' = executor
  BY DEF CopyPart, ReadGarbage
<1>2. PICK m : Send(w, s, m) /\ m.type \in {"GET_WITH_ADDR", "READ"} /\ m.key = k
  <2>1. CASE CopyPart(w, s)
    <3>1. PICK item \in Parts(k) : Send(w, s, Read(k, conn[w][s].seen \cup {item}))
      BY <2>1 DEF CopyPart
    <3>. QED  BY <3>1 DEF Read
  <2>2. CASE ReadGarbage(w, s)
    BY <2>2 DEF ReadGarbage, GetWithAddr
  <2>. QED  BY <2>1, <2>2
<1>3. PlainMessage(m, executor[w][s]) = PlainConn[w][s]
  BY <1>1, <1>2, PlainPoint, PlainMessages
<1>4. PlainConn' = PlainConn /\ PlainExecutor' = PlainExecutor
  BY <1>1, <1>2, <1>3, PlainSend, PlainEntry
<1>. QED  BY <1>4 DEF CopyPart, ReadGarbage, Plain!vars, workerVars, Plain!workerVars,
                      tableVars, Plain!tableVars

\* Its steps on the cache change nothing else.
LEMMA EntrySteps ==
    ASSUME ACTypeOK, ExecutorOK, NEW w \in Workers, NEW s \in Servers
    PROVE  Invalidate(w, s) \/ Update(w, s) => UNCHANGED Plain!vars
<1>. DEFINE e == executor[w][s]
<1>1. ASSUME Invalidate(w, s)
      PROVE  UNCHANGED Plain!vars
  <2>1. e.at = "invalidate" /\ Moved(w, s, Done, Receiving)
    BY <1>1 DEF Invalidate, Moved, Send
  <2>2. PlainMoved(w, s, Done, Receiving)
    BY <2>1, PlainMoves
  <2>3. PlainMessage(Done, Receiving) = Done /\ PlainState(Receiving) = Receiving
    BY PlainMessages, PlainStates DEF Done, Receiving
  <2>4. PlainConn[w][s] = Done /\ PlainExecutor[w][s] = Receiving
    BY <2>1, PlainPoint, PlainMessages, PlainStates DEF ExecutorOK
  <2>5. PlainConn' = PlainConn /\ PlainExecutor' = PlainExecutor
    <3>1. /\ PlainConn' = [PlainConn EXCEPT ![w][s] = PlainConn[w][s]]
          /\ PlainExecutor' = [PlainExecutor EXCEPT ![w][s] = PlainExecutor[w][s]]
      BY <2>2, <2>3, <2>4 DEF PlainMoved
    <3>. QED  BY <3>1, PlainEntry
  <2>. QED  BY <1>1, <2>5 DEF Invalidate, Plain!vars, workerVars, Plain!workerVars,
                             tableVars, Plain!tableVars
<1>2. ASSUME Update(w, s)
      PROVE  UNCHANGED Plain!vars
  <2>. DEFINE f == NextItem(e)
  <2>0. e \in ACExecutorState
    BY DEF ACTypeOK
  <2>1. e.at = "update" /\ conn' = conn /\ executor' = [executor EXCEPT ![w][s] = f]
    BY <1>2 DEF Update
  <2>2. f.at = "test"
    BY <2>0, ACExecutorMoves
  <2>3. PlainExecutor[w][s] = f
    BY <2>1, PlainPoint, PlainStates
  <2>. HIDE DEF f
  <2>4. PlainState(f) = f
    BY <2>2, PlainStates
  <2>5. PlainMessage(conn[w][s], f) = PlainConn[w][s]
    BY <2>1, <2>2, PlainMessages, PlainPoint
  <2>6. PlainConn' = PlainConn /\ PlainExecutor' = [PlainExecutor EXCEPT ![w][s] = PlainState(f)]
    <3>1. MovedOnly(w, s, f)
      BY <2>1 DEF MovedOnly
    <3>. QED  BY <2>5, <3>1, PlainMoveOnly
  <2>7. PlainConn' = PlainConn /\ PlainExecutor' = PlainExecutor
    BY <2>3, <2>4, <2>6, PlainEntry
  <2>. QED  BY <1>2, <2>7 DEF Update, Plain!vars, workerVars, Plain!workerVars,
                             tableVars, Plain!tableVars
<1>. QED  BY <1>1, <1>2

\* The executor of a connection that is closed is between two messages.
LEMMA CloseSteps ==
    ASSUME ACTypeOK, ExecutorOK, Plain!MessagesOK, NEW w \in Workers, NEW s \in Servers,
           HandleClose(w, s)
    PROVE  Plain!HandleClose(w, s)
<1>. DEFINE e == executor[w][s]
            f == [e EXCEPT !.at = "closed"]
<1>1. conn[w][s].type = "CLOSE" /\ PlainConn[w][s] = conn[w][s]
  BY PlainPoint, PlainMessages DEF HandleClose
<1>2. e \in ACExecutorState
  BY DEF ACTypeOK
<1>3. e.at # "invalidate"
  BY <1>1 DEF ExecutorOK
<1>4. e.at # "update"
  <2>1. PlainExecutor[w][s].at # "test"
    BY <1>1 DEF Plain!MessagesOK
  <2>2. NextItem(e).at = "test"
    BY <1>2, ACExecutorMoves
  <2>. QED  BY <2>1, <2>2, PlainPoint, PlainStates
<1>5. PlainExecutor[w][s] = e
  BY <1>3, <1>4, PlainPoint, PlainStates
<1>6. f.at = "closed"
  BY <1>2, ACExecutorMoves
<1>7. Moved(w, s, NoMsg, f)
  BY DEF HandleClose, Moved, Send
<1>8. PlainMessage(NoMsg, f) = NoMsg
  BY PlainMessages DEF NoMsg
<1>. HIDE DEF f
<1>9. PlainMoved(w, s, NoMsg, f)
  BY <1>7, PlainMoves
<1>10. PlainState(f) = f
  BY <1>6, PlainStates
<1>11. /\ Plain!Send(w, s, Plain!NoMsg)
       /\ PlainExecutor' = [PlainExecutor EXCEPT ![w][s] = f]
  BY <1>8, <1>9, <1>10, SameMessages DEF Plain!Send, PlainMoved
<1>. QED  BY <1>1, <1>5, <1>11 DEF f, HandleClose, Plain!HandleClose, workerVars,
             Plain!workerVars, tableVars, Plain!tableVars

\* Without its cache the whole system takes a step of RAMP-Fast, or reads the
\* cache.
LEMMA PlainNext ==
    ASSUME ACInv, [ACNext]_acVars
    PROVE  [Plain!Next]_(Plain!vars) \/ \E w \in Workers, s \in Servers : ReadItem(w, s)
<1>. USE DEF ACInv
<1>0. Plain!MessagesOK
  BY DEF Plain!WriteInv
<1>1. CASE UNCHANGED acVars
  BY <1>1, PlainSame DEF acVars, freshVars, vars, Plain!vars, workerVars, Plain!workerVars,
                         tableVars, Plain!tableVars
<1>2. CASE Terminating
  BY <1>2, PlainSame DEF Terminating, vars, Plain!vars, workerVars, Plain!workerVars,
                         tableVars, Plain!tableVars
<1>3. ASSUME NEW w \in Workers,
             \/ Pop(w) \/ Exit(w) \/ Finish(w)
             \/ PutAll(w) \/ BeginCommit(w) \/ PutAllReturn(w)
             \/ GetAll(w) \/ CheckMissing(w) \/ GetAllReturn(w)
      PROVE  Plain!Next
  <2>1. Plain!WorkerStep(w)
    BY <1>3, WorkerSteps DEF Plain!WorkerStep
  <2>. QED  BY <2>1 DEF Plain!Next
<1>4. ASSUME NEW w \in Workers, NEW k \in Keys,
             \/ SendPrepare(w, k) \/ SendGet(w, k)
             \/ SendGetWithAddr(w, k) \/ ReadFlag(w, k)
      PROVE  Plain!Next
  <2>1. Plain!WorkerStep(w)
    BY <1>4, SendSteps DEF Plain!WorkerStep
  <2>. QED  BY <2>1 DEF Plain!Next
<1>5. ASSUME NEW w \in Workers, NEW s \in Servers,
             SendCommit(w, s) \/ RecvDone(w, s) \/ RecvResult(w, s) \/ RecvItemAndAddr(w, s)
      PROVE  Plain!Next
  <2>1. Plain!WorkerStep(w)
    BY <1>5, SendSteps, ReceiveSteps DEF Plain!WorkerStep
  <2>. QED  BY <2>1 DEF Plain!Next
<1>6. ASSUME NEW w \in Workers, NEW s \in Servers,
             \/ SendClose(w, s) \/ Get(w, s) \/ GetItemAndAddr(w, s) \/ HandleClose(w, s)
             \/ PrepareItem(w, s) \/ CommitBegin(w, s) \/ CommitTest(w, s)
             \/ SetLatest(w, s) \/ CommitDone(w, s)
      PROVE  Plain!Next
  <2>1. Plain!SendClose(w, s) \/ Plain!ExecutorStep(w, s)
    BY <1>0, <1>6, SendSteps, GetSteps, CloseSteps, TableSteps DEF Plain!ExecutorStep
  <2>. QED  BY <2>1 DEF Plain!Next
<1>7. ASSUME NEW w \in Workers, NEW s \in Servers,
             Invalidate(w, s) \/ Update(w, s) \/ CopyPart(w, s) \/ ReadGarbage(w, s)
      PROVE  UNCHANGED Plain!vars
  BY <1>7, EntrySteps, CopySteps
<1>. HIDE DEF ACInv
<1>8. ACNext => \/ [Plain!Next]_(Plain!vars)
                \/ \E w \in Workers, s \in Servers : ReadItem(w, s)
  BY <1>2, <1>3, <1>4, <1>5, <1>6, <1>7 DEF ACNext, InheritedStep, CacheStep
<1>. QED  BY <1>1, <1>8

\* That is a step of the looser RAMP-Fast.
LEMMA SimulationStep ==
    ASSUME ACInv, [ACNext]_acVars, NEW W \in SUBSET Workers, W = Intact'
    PROVE  [Plain!LooseNext(W)]_(Plain!vars)
BY PlainNext, ReadSteps DEF Plain!LooseNext

\* A read may tear its worker; no other step on the cache changes who is torn.
LEMMA CacheTears ==
    ASSUME CacheStep
    PROVE  torn' = torn \/ \E w \in Workers, s \in Servers : ReadItem(w, s)
<1>1. ASSUME NEW w \in Workers, NEW k \in Keys, SendGetWithAddr(w, k) \/ ReadFlag(w, k)
      PROVE  torn' = torn
  BY <1>1 DEF SendGetWithAddr, ReadFlag, Start, cacheVars
<1>2. ASSUME NEW w \in Workers, NEW s \in Servers, CopyPart(w, s) \/ ReadGarbage(w, s)
      PROVE  torn' = torn
  BY <1>2 DEF CopyPart, ReadGarbage, cacheVars
<1>3. ASSUME NEW w \in Workers, NEW s \in Servers,
             \/ RecvItemAndAddr(w, s) \/ GetItemAndAddr(w, s) \/ PrepareItem(w, s)
             \/ Invalidate(w, s) \/ SetLatest(w, s) \/ Update(w, s)
      PROVE  torn' = torn
  BY <1>3 DEF RecvItemAndAddr, GetItemAndAddr, PrepareItem, Invalidate, SetLatest, Update,
              cacheVars
<1>. QED  BY <1>1, <1>2, <1>3 DEF CacheStep

\* A worker is no longer torn when it starts its next get.
LEMMA IntactMoves ==
    ASSUME ACInv, [ACNext]_acVars
    PROVE  \A w \in Intact' \ Intact : Plain!GetAll(w)
<1>. SUFFICES ASSUME NEW w \in Workers, w \in torn, w \notin torn'
              PROVE  Plain!GetAll(w)
  BY DEF Intact
<1>1. CASE UNCHANGED acVars
  BY <1>1 DEF acVars, cacheVars
<1>2. CASE CacheStep
  <2>1. \A v \in Workers, r \in Servers : ReadItem(v, r) => torn \subseteq torn'
    BY DEF ReadItem
  <2>. QED  BY <1>2, <2>1, CacheTears
<1>3. CASE InheritedStep
  <2>1. pc[w] = "get_all" /\ pc'[w] = "round1"
    BY <1>3 DEF InheritedStep
  <2>2. [Plain!Next]_(Plain!vars)
    <3>1. \A v \in Workers, s \in Servers : ReadItem(v, s) => pc' = pc
      BY DEF ReadItem, workerVars
    <3>. QED  BY <2>1, <3>1, PlainNext
  <2>3. Plain!TypeOK /\ Plain!MessagesOK
    BY DEF ACInv, Plain!WriteInv
  <2>4. Plain!ReaderStep(w)
    BY <2>2, <2>3, ConstantsAssumption, Plain!ReaderSteps
  <2>. QED  BY <2>1, <2>4 DEF Plain!ReaderStep, Plain!CheckMissing
<1>. QED  BY <1>1, <1>2, <1>3 DEF ACNext

\* It is torn when it accepts parts of several items, and by nothing else.
LEMMA TornMoves ==
    ASSUME [ACNext]_acVars, NEW w \in Workers, w \notin torn, w \in torn'
    PROVE  \E s \in Servers : ReadItem(w, s)
<1>1. CASE UNCHANGED acVars
  BY <1>1 DEF acVars, cacheVars
<1>2. CASE InheritedStep
  BY <1>2 DEF InheritedStep
<1>3. CASE CacheStep
  <2>1. \A v \in Workers, r \in Servers : ReadItem(v, r) => torn' \subseteq torn \cup {v}
    BY DEF ReadItem
  <2>. QED  BY <1>3, <2>1, CacheTears
<1>. QED  BY <1>1, <1>2, <1>3 DEF ACNext

-----------------------------------------------------------------------------
(* The invariant *)

\* Entries and addresses stay as they are.
EntriesStay == UNCHANGED <<cache, addr_cache>> /\ torn' \in SUBSET Workers

\* Steps of a worker by itself.
WorkerKind ==
    /\ UNCHANGED <<conn, executor, tableVars>> /\ EntriesStay
    /\ \A v \in Workers, s \in Servers :
          executor[v][s].at = "invalidate" \/ conn[v][s].type = "READ" => pc'[v] = pc[v]

\* What the read m has copied is a part of the entry, or was copied before.
Copied(w, s, m) ==
    \A item \in m.seen :
        \/ item \in Parts(m.key)
        \/ conn[w][s].type = "READ" /\ conn[w][s].key = m.key /\ item \in conn[w][s].seen

\* Messages sent or received.
SendKind(w, s) ==
    /\ UNCHANGED <<pc, executor, tableVars, cache>>
    /\ conn[w][s].type # "COMMIT"
    /\ addr_cache' \in [Workers -> SUBSET Keys]
    /\ torn' \in SUBSET Workers
    /\ executor[w][s].at # "invalidate"
    /\ \E m \in ACMessage :
          /\ Send(w, s, m)
          /\ m.type = "READ" => pc[w] = "round1" /\ Copied(w, s, m)

\* Steps inside an executor.
ExecutorKind(w, s) ==
    /\ UNCHANGED <<pc, addr_cache>>
    /\ torn' \in SUBSET Workers
    /\ \/ Invalidate(w, s) \/ Update(w, s)
       \/ /\ UNCHANGED cache
          /\ \/ PrepareItem(w, s) \/ SetLatest(w, s) \/ HandleClose(w, s)
             \/ CommitBegin(w, s) \/ CommitTest(w, s) \/ CommitDone(w, s)

\* A worker that prepares waits for the invalidation before it commits, and one
\* that gets for its reads before the second round.
LEMMA WorkerKinds ==
    ASSUME ACInv, NEW w \in Workers, EntriesStay,
           \/ Pop(w) \/ Exit(w) \/ Finish(w)
           \/ PutAll(w) \/ BeginCommit(w) \/ PutAllReturn(w)
           \/ GetAll(w) \/ CheckMissing(w) \/ GetAllReturn(w)
    PROVE  WorkerKind
<1>1. UNCHANGED <<conn, executor, tableVars>>
  BY DEF Pop, Exit, Finish, PutAll, BeginCommit, PutAllReturn, GetAll, CheckMissing,
         GetAllReturn
<1>2. pc \in [Workers -> {"pop", "put_all", "prepare", "commit", "get_all",
                          "round1", "round2", "returned", "exit"}]
  BY DEF ACInv, Plain!WriteInv, Plain!TypeOK
<1>3. \A v \in Workers : v # w => pc'[v] = pc[v]
  BY <1>2 DEF Pop, Exit, Finish, PutAll, BeginCommit, PutAllReturn, GetAll, CheckMissing,
              GetAllReturn
<1>4. ASSUME NEW s \in Servers, executor[w][s].at = "invalidate" \/ conn[w][s].type = "READ"
      PROVE  FALSE
  <2>1. pc[w] \in {"prepare", "round1"} /\ conn[w][s].type \in {"PREPARE", "READ"}
    BY <1>4 DEF ACInv, ExecutorOK, SeenOK
  <2>2. Idle(w)
    BY <2>1 DEF Pop, Exit, Finish, PutAll, BeginCommit, PutAllReturn, GetAll, CheckMissing,
                GetAllReturn, AllAnswered
  <2>. QED  BY <2>1, <2>2 DEF Idle, NoMsg
<1>. QED  BY <1>1, <1>3, <1>4 DEF WorkerKind

\* The item that Update puts into the cache is one of the transaction that its
\* worker is committing, and has prepared.
LEMMA UpdatedItem ==
    ASSUME ACInv, NEW w \in Workers, NEW s \in Servers, executor[w][s].at = "update"
    PROVE  LET e == executor[w][s]
               item == items[s][conn[w][s].ts][e.i]
           IN  /\ pc[w] = "commit" /\ trx[w] \in Trxs /\ conn[w][s].type = "COMMIT"
               /\ conn[w][s].ts = trx_ts[trx[w]] /\ conn[w][s].ts \in Timestamps
               /\ e.i \in DOMAIN items[s][conn[w][s].ts]
               /\ item \in Item /\ item.key \in WriteSet[trx[w]] /\ item.key \in Keys
               /\ item.ts = conn[w][s].ts /\ ServerOf[item.key] = s
               /\ Plain!Readable(item.key, item)
<1>. DEFINE e == executor[w][s]
            ts == conn[w][s].ts
            item == items[s][ts][e.i]
<1>. USE DEF ACInv, Plain!WriteInv
<1>1. e \in ACExecutorState /\ e.i >= 1 /\ e.i <= e.n
  BY DEF ACTypeOK, ExecutorOK
<1>2. PlainExecutor[w][s].at = "test" /\ PlainExecutor[w][s].n = e.n
  <2>1. PlainExecutor[w][s] = NextItem(e)
    BY PlainPoint, PlainStates
  <2>2. NextItem(e).at = "test" /\ NextItem(e).n = e.n
    BY <1>1, ACExecutorMoves
  <2>. QED  BY <2>1, <2>2
<1>3. PlainConn[w][s].type = "COMMIT"
  BY <1>2 DEF Plain!MessagesOK
<1>4. PlainConn[w][s] = conn[w][s]
  <2>1. PlainMessage(conn[w][s], e).type = "COMMIT"
    BY <1>3, PlainPoint
  <2>2. PlainMessage(conn[w][s], e) = conn[w][s]
    BY <2>1, PlainMessages DEF Result, Done
  <2>. QED  BY <2>2, PlainPoint
<1>5. pc[w] = "commit" /\ ts = trx_ts[trx[w]]
  BY <1>3, <1>4 DEF Plain!MessagesOK
<1>6. trx[w] \in Trxs
  BY <1>5 DEF Plain!ControlOK, Plain!Running
<1>7. conn[w][s] \in ACMessage /\ conn[w][s].type = "COMMIT"
  BY <1>3, <1>4 DEF ACTypeOK
<1>8. ts \in Timestamps
  BY <1>7, ACMessageFields
<1>9. items[s][ts] \in Seq(Item)
  BY <1>8, SameTable DEF Plain!TypeOK
<1>10. e.i \in DOMAIN items[s][ts]
  <2>1. e.n <= Len(items[s][ts])
    BY <1>2, <1>4 DEF Plain!LoopOK
  <2>2. e.i \in Nat /\ e.n \in Nat
    BY <1>1 DEF ACExecutorState
  <2>3. Len(items[s][ts]) \in Nat /\ DOMAIN items[s][ts] = 1..Len(items[s][ts])
    BY <1>9
  <2>. QED  BY <1>1, <2>1, <2>2, <2>3
<1>11. item \in Item
  BY <1>9, <1>10
<1>12. Plain!Written(s, ts, item)
  BY <1>8, <1>10, SameTable DEF Plain!ItemsOK
<1>13. PICK t \in Trxs : \E k \in WriteSet[t] :
              trx_ts[t] = ts /\ ServerOf[k] = s /\ item = Plain!ItemOf(t, k)
  BY <1>12 DEF Plain!Written
<1>14. t = trx[w]
  <2>1. ts # 0
    BY <1>5 DEF Plain!ControlOK
  <2>. QED  BY <1>5, <1>6, <1>13, <2>1 DEF Plain!UniqueTs
<1>15. PICK k \in WriteSet[trx[w]] : ServerOf[k] = s /\ item = ItemOf(trx[w], k)
  BY <1>13, <1>14, SameMessages
<1>16. item.key = k /\ item.ts = ts /\ k \in Keys
  BY <1>5, <1>6, <1>15, ConstantsAssumption DEF ItemOf
<1>17. Plain!Prepared(trx[w])
  BY <1>5 DEF Plain!CommitOK
<1>18. Plain!Readable(k, item)
  BY <1>6, <1>15, <1>17, SameMessages DEF Plain!Readable
<1>. QED  BY <1>5, <1>6, <1>7, <1>8, <1>10, <1>11, <1>15, <1>16, <1>18

\* So a part of an entry is of an item that the executor may return.
LEMMA PartReadable ==
    ASSUME ACInv, NEW k \in Keys, NEW item \in Parts(k)
    PROVE  item \in Item /\ Plain!Readable(k, item)
<1>1. CASE item = cache[k].item
  BY <1>1 DEF ACInv, ACTypeOK, CacheOK
<1>2. CASE item \in Updating(k)
  <2>. DEFINE s == ServerOf[k]
  <2>1. s \in Servers
    BY ConstantsAssumption
  <2>2. PICK v \in Workers : /\ executor[v][s].at = "update" /\ ItemAt(v, s).key = k
                             /\ item = ItemAt(v, s)
    BY <1>2 DEF Updating
  <2>. HIDE DEF s
  <2>. QED  BY <2>1, <2>2, UpdatedItem DEF ItemAt
<1>. QED  BY <1>1, <1>2 DEF Parts

\* A worker sends to an executor that has nothing to do.
LEMMA SendKinds ==
    ASSUME ACInv, NEW w \in Workers
    PROVE  /\ \A k \in Keys : EntriesStay /\ (SendPrepare(w, k) \/ SendGet(w, k)) =>
                 SendKind(w, ServerOf[k])
           /\ \A k \in Keys : SendGetWithAddr(w, k) \/ ReadFlag(w, k) =>
                 SendKind(w, ServerOf[k])
           /\ \A s \in Servers : EntriesStay /\ (SendCommit(w, s) \/ SendClose(w, s)) =>
                 SendKind(w, s)
<1>0. Plain!TypeOK /\ Plain!ControlOK /\ ACTypeOK
  BY DEF ACInv, Plain!WriteInv
<1>1. addr_cache \in [Workers -> SUBSET Keys]
  BY <1>0 DEF ACTypeOK
<1>2. \A s \in Servers :
         conn[w][s] = NoMsg => executor[w][s].at # "invalidate" /\ conn[w][s].type # "COMMIT"
  BY DEF ACInv, ExecutorOK, NoMsg
<1>3. ASSUME NEW k \in Keys, EntriesStay, SendPrepare(w, k)
      PROVE  SendKind(w, ServerOf[k])
  <2>1. trx[w] \in Trxs
    BY <1>0, <1>3 DEF SendPrepare, Plain!ControlOK, Plain!Running
  <2>2. ItemOf(trx[w], k) \in Item
    BY <1>0, <2>1, ConstantsAssumption, Plain!ItemOfType, SameMessages, SameTable
  <2>3. [type |-> "PREPARE", item |-> ItemOf(trx[w], k)] \in ACMessage
    BY <2>2 DEF ACMessage
  <2>. QED  BY <1>1, <1>2, <1>3, <2>3, ConstantsAssumption DEF SendPrepare, SendKind, EntriesStay
<1>4. ASSUME NEW k \in Keys, EntriesStay, SendGet(w, k)
      PROVE  SendKind(w, ServerOf[k])
  <2>1. v_latest[w][k] \in TsOrEmpty /\ 0 \in TsOrEmpty
    BY <1>0, SameTable, ConstantsAssumption DEF Plain!TypeOK, TsOrEmpty
  <2>2. [type |-> "GET", key |-> k, ts |-> IF pc[w] = "round1" THEN 0 ELSE v_latest[w][k]]
           \in ACMessage
    BY <2>1 DEF ACMessage
  <2>. QED  BY <1>1, <1>2, <1>4, <2>2, ConstantsAssumption DEF SendGet, SendKind, EntriesStay
<1>5. ASSUME NEW k \in Keys, SendGetWithAddr(w, k) \/ ReadFlag(w, k)
      PROVE  SendKind(w, ServerOf[k])
  <2>1. PICK m \in {GetWithAddr(k), Read(k, {})} : Start(w, k, m)
    BY <1>5 DEF SendGetWithAddr, ReadFlag
  <2>2. m \in ACMessage
    BY <2>1 DEF ACMessage, GetWithAddr, Read
  <2>3. m.type = "READ" => m.seen = {}
    BY <2>1 DEF GetWithAddr, Read
  <2>4. torn' \in SUBSET Workers
    BY <1>0, <2>1 DEF Start, cacheVars, ACTypeOK
  <2>. QED  BY <1>1, <1>2, <2>1, <2>2, <2>3, <2>4, ConstantsAssumption
            DEF Start, SendKind, Copied, cacheVars
<1>6. ASSUME NEW s \in Servers, EntriesStay, SendCommit(w, s)
      PROVE  SendKind(w, s)
  <2>1. pc[w] = "commit" /\ trx[w] \in Trxs /\ trx_ts[trx[w]] # 0
    BY <1>0, <1>6 DEF SendCommit, Plain!ControlOK, Plain!Running
  <2>2. trx_ts[trx[w]] \in Timestamps
    BY <1>0, <2>1, SameTable, ConstantsAssumption DEF Plain!TypeOK, TsOrEmpty, Timestamps
  <2>3. Commit(trx_ts[trx[w]]) \in ACMessage /\ Commit(trx_ts[trx[w]]).type # "READ"
    BY <2>2 DEF ACMessage, Commit
  <2>4. executor[w][s].at # "invalidate"
    BY <2>1 DEF ACInv, ExecutorOK
  <2>5. conn[w][s].type # "COMMIT"
    <3>1. PlainConn[w][s] = NoMsg
      BY <1>6, SameMessages DEF SendCommit, ACInv, Plain!PendingOK
    <3>2. conn[w][s].type = "COMMIT" => PlainConn[w][s] = conn[w][s]
      BY PlainPoint, PlainMessages
    <3>. QED  BY <3>1, <3>2 DEF NoMsg
  <2>. QED  BY <1>1, <1>6, <2>3, <2>4, <2>5 DEF SendCommit, SendKind, EntriesStay
<1>7. ASSUME NEW s \in Servers, EntriesStay, SendClose(w, s)
      PROVE  SendKind(w, s)
  <2>1. Close \in ACMessage /\ Close.type # "READ"
    BY DEF ACMessage, Close
  <2>. QED  BY <1>1, <1>2, <1>7, <2>1 DEF SendClose, SendKind, EntriesStay, workerVars
<1>. QED  BY <1>3, <1>4, <1>5, <1>6, <1>7

\* Answers come from executors that are past the cache, or from the cache.
LEMMA AnswerKinds ==
    ASSUME ACInv, NEW w \in Workers, NEW s \in Servers,
           \/ EntriesStay /\ (RecvDone(w, s) \/ RecvResult(w, s) \/ Get(w, s))
           \/ RecvItemAndAddr(w, s) \/ GetItemAndAddr(w, s)
           \/ CopyPart(w, s) \/ ReadItem(w, s) \/ ReadGarbage(w, s)
    PROVE  SendKind(w, s)
<1>. DEFINE k == conn[w][s].key
            Reads == CopyPart(w, s) \/ ReadItem(w, s) \/ ReadGarbage(w, s)
<1>0. Plain!TypeOK /\ ACTypeOK /\ conn[w][s] \in ACMessage
  BY DEF ACInv, Plain!WriteInv, ACTypeOK
<1>1. executor[w][s].at # "invalidate" /\ conn[w][s].type # "COMMIT"
  BY DEF ACInv, ExecutorOK, RecvDone, RecvResult, Get, RecvItemAndAddr, GetItemAndAddr,
         CopyPart, ReadItem, ReadGarbage
<1>2. UNCHANGED <<pc, executor, tableVars, cache>>
  BY DEF RecvDone, RecvResult, Get, RecvItemAndAddr, GetItemAndAddr, CopyPart, ReadItem,
         ReadGarbage, workerVars, cacheVars, EntriesStay
<1>3. addr_cache' \in [Workers -> SUBSET Keys]
  <2>1. addr_cache \in [Workers -> SUBSET Keys]
    BY <1>0 DEF ACTypeOK
  <2>2. CASE RecvItemAndAddr(w, s)
    <3>1. k \in Keys
      BY <1>0, <2>2, ACMessageFields DEF RecvItemAndAddr
    <3>. QED  BY <2>1, <2>2, <3>1 DEF RecvItemAndAddr
  <2>. QED  BY <2>1, <2>2 DEF cacheVars, EntriesStay, GetItemAndAddr, CopyPart, ReadItem,
                              ReadGarbage
<1>4. torn' \in SUBSET Workers
  BY <1>0 DEF ACTypeOK, EntriesStay, RecvItemAndAddr, GetItemAndAddr, CopyPart, ReadItem,
              ReadGarbage, cacheVars
<1>5. \E m \in ACMessage : /\ Send(w, s, m)
                           /\ m.type = "READ" => pc[w] = "round1" /\ Copied(w, s, m)
  <2>1. NoMsg \in ACMessage /\ NoMsg.type # "READ"
    BY DEF NoMsg, ACMessage
  <2>2. CASE RecvDone(w, s) \/ RecvResult(w, s) \/ RecvItemAndAddr(w, s)
    BY <2>1, <2>2 DEF RecvDone, RecvResult, RecvItemAndAddr
  <2>3. \A r \in Servers, l \in Keys, ts \in TsOrEmpty : GetItemByVer(r, l, ts) \in Item
    BY <1>0, ConstantsAssumption, Plain!GetItemByVerType, SameTable
  <2>4. ASSUME NEW l \in Keys, NEW item \in Item
        PROVE  /\ Result(l, item) \in ACMessage /\ Result(l, item).type # "READ"
               /\ [type |-> "RESULT_WITH_ADDR", key |-> l, item |-> item] \in ACMessage
    BY DEF Result, ACMessage
  <2>5. \A l \in Keys : latest_commit[l] \in TsOrEmpty
    BY <1>0, SameTable DEF Plain!TypeOK
  <2>6. CASE Get(w, s)
    <3>1. k \in Keys /\ conn[w][s].ts \in TsOrEmpty
      BY <1>0, <2>6, ACMessageFields DEF Get
    <3>2. RequestedVersion(k, conn[w][s].ts) \in TsOrEmpty
      BY <2>5, <3>1 DEF RequestedVersion
    <3>. QED  BY <2>3, <2>4, <2>6, <3>1, <3>2 DEF Get
  <2>7. CASE GetItemAndAddr(w, s)
    <3>1. k \in Keys
      BY <1>0, <2>7, ACMessageFields DEF GetItemAndAddr
    <3>. QED  BY <2>3, <2>4, <2>5, <2>7, <3>1 DEF GetItemAndAddr
  <2>8. CASE Reads
    <3>1. conn[w][s].type = "READ"
      BY <2>8 DEF CopyPart, ReadItem, ReadGarbage
    <3>2. k \in Keys /\ conn[w][s].seen \in SUBSET Item /\ pc[w] = "round1"
      BY <1>0, <3>1, ACMessageFields DEF ACInv, SeenOK
    <3>3. CASE CopyPart(w, s)
      <4>1. PICK item \in Parts(k) : Send(w, s, Read(k, conn[w][s].seen \cup {item}))
        BY <3>3 DEF CopyPart
      <4>. DEFINE m == Read(k, conn[w][s].seen \cup {item})
      <4>2. item \in Item
        BY <3>2, PartReadable
      <4>3. m \in ACMessage
        BY <3>2, <4>2 DEF Read, ACMessage
      <4>4. Copied(w, s, m)
        BY <3>1 DEF Copied, Read
      <4>. QED  BY <3>2, <4>1, <4>3, <4>4
    <3>4. CASE ReadItem(w, s)
      <4>1. PICK item \in Mixtures(conn[w][s].seen) : Send(w, s, Result(k, item))
        BY <3>4 DEF ReadItem
      <4>2. item \in Item
        BY <3>2, MixtureItem
      <4>. QED  BY <2>4, <3>2, <4>1, <4>2
    <3>5. CASE ReadGarbage(w, s)
      <4>1. GetWithAddr(k) \in ACMessage /\ GetWithAddr(k).type # "READ"
        BY <3>2 DEF GetWithAddr, ACMessage
      <4>. QED  BY <3>5, <4>1 DEF ReadGarbage
    <3>. QED  BY <2>8, <3>3, <3>4, <3>5
  <2>. QED  BY <2>2, <2>6, <2>7, <2>8
<1>. QED  BY <1>1, <1>2, <1>3, <1>4, <1>5 DEF SendKind

\* Every step is of one of the three kinds.
LEMMA Kinds ==
    ASSUME ACInv, [ACNext]_acVars
    PROVE  WorkerKind \/ \E w \in Workers, s \in Servers : SendKind(w, s) \/ ExecutorKind(w, s)
<1>. DEFINE Kind == WorkerKind \/ \E w \in Workers, s \in Servers :
                                     SendKind(w, s) \/ ExecutorKind(w, s)
<1>0. \A k \in Keys : ServerOf[k] \in Servers
  BY ConstantsAssumption
<1>1. CASE UNCHANGED acVars
  <2>1. torn \in SUBSET Workers
    BY DEF ACInv, ACTypeOK
  <2>. QED  BY <1>1, <2>1 DEF acVars, freshVars, vars, workerVars, tableVars, cacheVars,
                              WorkerKind, EntriesStay
<1>2. CASE Terminating /\ EntriesStay
  BY <1>2 DEF Terminating, vars, workerVars, tableVars, WorkerKind
<1>3. ASSUME NEW w \in Workers, EntriesStay,
             \/ Pop(w) \/ Exit(w) \/ Finish(w)
             \/ PutAll(w) \/ BeginCommit(w) \/ PutAllReturn(w)
             \/ GetAll(w) \/ CheckMissing(w) \/ GetAllReturn(w)
      PROVE  Kind
  BY <1>3, WorkerKinds
<1>4. ASSUME NEW w \in Workers, NEW k \in Keys,
             \/ EntriesStay /\ (SendPrepare(w, k) \/ SendGet(w, k))
             \/ SendGetWithAddr(w, k) \/ ReadFlag(w, k)
      PROVE  Kind
  <2>1. SendKind(w, ServerOf[k])
    BY <1>4, SendKinds
  <2>. QED  BY <1>0, <2>1
<1>5. ASSUME NEW w \in Workers, NEW s \in Servers,
             \/ EntriesStay /\ (SendCommit(w, s) \/ SendClose(w, s))
             \/ EntriesStay /\ (RecvDone(w, s) \/ RecvResult(w, s) \/ Get(w, s))
             \/ RecvItemAndAddr(w, s) \/ GetItemAndAddr(w, s)
             \/ CopyPart(w, s) \/ ReadItem(w, s) \/ ReadGarbage(w, s)
      PROVE  Kind
  <2>1. SendKind(w, s)
    BY <1>5, SendKinds, AnswerKinds
  <2>. QED  BY <2>1
<1>6. ASSUME NEW w \in Workers, NEW s \in Servers,
             \/ /\ EntriesStay
                /\ \/ CommitBegin(w, s) \/ CommitTest(w, s)
                   \/ CommitDone(w, s) \/ HandleClose(w, s)
             \/ PrepareItem(w, s) \/ SetLatest(w, s) \/ Invalidate(w, s) \/ Update(w, s)
      PROVE  Kind
  <2>0. torn \in SUBSET Workers
    BY DEF ACInv, ACTypeOK
  <2>1. UNCHANGED <<pc, addr_cache>> /\ torn' \in SUBSET Workers
    BY <1>6, <2>0 DEF CommitBegin, CommitTest, CommitDone, HandleClose, PrepareItem, SetLatest,
                Invalidate, Update, workerVars, cacheVars, EntriesStay
  <2>2. Invalidate(w, s) \/ Update(w, s) \/ UNCHANGED cache
    BY <1>6 DEF PrepareItem, SetLatest, cacheVars, EntriesStay
  <2>3. ExecutorKind(w, s)
    BY <1>6, <2>1, <2>2 DEF ExecutorKind
  <2>. QED  BY <2>3
<1>7. ASSUME InheritedStep
      PROVE  Kind
  <2>1. EntriesStay
    <3>1. torn \in SUBSET Workers
      BY DEF ACInv, ACTypeOK
    <3>. QED  BY <1>7, <3>1 DEF InheritedStep, EntriesStay
  <2>. HIDE DEF Kind
  <2>2. CASE Terminating
    BY <1>2, <2>1, <2>2 DEF Kind
  <2>3. ASSUME NEW w \in Workers, NEW k \in Keys,
               SendPrepare(w, k) \/ (pc[w] = "round2" /\ SendGet(w, k))
        PROVE  Kind
    BY <1>4, <2>1, <2>3
  <2>4. ASSUME NEW w \in Workers, NEW s \in Servers,
               \/ SendCommit(w, s) \/ RecvDone(w, s) \/ RecvResult(w, s) \/ SendClose(w, s)
               \/ Get(w, s) \/ CommitBegin(w, s) \/ CommitTest(w, s) \/ CommitDone(w, s)
               \/ HandleClose(w, s)
        PROVE  Kind
    BY <1>5, <1>6, <2>1, <2>4
  <2>5. ASSUME NEW w \in Workers,
               \/ Pop(w) \/ Exit(w) \/ Finish(w)
               \/ PutAll(w) \/ BeginCommit(w) \/ PutAllReturn(w)
               \/ GetAll(w) \/ CheckMissing(w) \/ GetAllReturn(w)
        PROVE  Kind
    BY <1>3, <2>1, <2>5
  <2>. QED  BY <1>7, <2>2, <2>3, <2>4, <2>5 DEF InheritedStep
<1>8. CacheStep => Kind
  BY <1>4, <1>5, <1>6 DEF CacheStep
<1>. QED  BY <1>1, <1>7, <1>8 DEF ACNext

\* Every step keeps messages, executors and cache in their types.
LEMMA ACTypeStep ==
    ASSUME ACInv, [ACNext]_acVars
    PROVE  ACTypeOK'
<1>0. ACTypeOK
  BY DEF ACInv
<1>1. CASE WorkerKind
  BY <1>0, <1>1 DEF WorkerKind, EntriesStay, ACTypeOK
<1>2. ASSUME NEW w \in Workers, NEW s \in Servers, SendKind(w, s)
      PROVE  ACTypeOK'
  BY <1>0, <1>2 DEF SendKind, ACTypeOK, Send
<1>3. ASSUME NEW w \in Workers, NEW s \in Servers, ExecutorKind(w, s)
      PROVE  ACTypeOK'
  <2>. DEFINE e == executor[w][s]
  <2>0. /\ conn \in [Workers -> [Servers -> ACMessage]]
        /\ executor \in [Workers -> [Servers -> ACExecutorState]]
        /\ cache \in [Keys -> [invalid : BOOLEAN, item : Item]]
        /\ e \in ACExecutorState /\ conn[w][s] \in ACMessage
        /\ addr_cache' \in [Workers -> SUBSET Keys] /\ torn' \in SUBSET Workers
    BY <1>0, <1>3 DEF ACTypeOK, ExecutorKind
  <2>1. conn' \in [Workers -> [Servers -> ACMessage]]
    <3>1. Done \in ACMessage /\ NoMsg \in ACMessage
      BY DEF Done, NoMsg, ACMessage
    <3>2. conn' = conn \/ \E m \in ACMessage : conn' = [conn EXCEPT ![w][s] = m]
      BY <1>3, <3>1 DEF ExecutorKind, Invalidate, Update, PrepareItem, SetLatest, HandleClose,
                        CommitBegin, CommitTest, CommitDone, Send
    <3>3. ASSUME NEW m \in ACMessage, conn' = [conn EXCEPT ![w][s] = m]
          PROVE  conn' \in [Workers -> [Servers -> ACMessage]]
      BY <2>0, <3>3
    <3>. QED  BY <2>0, <3>2, <3>3
  <2>2. executor' \in [Workers -> [Servers -> ACExecutorState]]
    <3>1. Receiving \in ACExecutorState
      BY DEF Receiving, ACExecutorState
    <3>2. CommitBegin(w, s) => [at |-> "test", i |-> 1, n |-> Len(items[s][conn[w][s].ts])]
                                  \in ACExecutorState
      <4>1. ASSUME CommitBegin(w, s) PROVE Len(items[s][conn[w][s].ts]) \in Nat
        <5>1. conn[w][s].ts \in Timestamps
          BY <2>0, <4>1, ACMessageFields DEF CommitBegin
        <5>. QED  BY <5>1, SameTable DEF ACInv, Plain!WriteInv, Plain!TypeOK
      <4>. QED  BY <4>1 DEF ACExecutorState
    <3>3. \E f \in ACExecutorState : executor' = [executor EXCEPT ![w][s] = f]
      <4>1. CASE CommitBegin(w, s)
        BY <3>2, <4>1 DEF CommitBegin
      <4>2. CASE Invalidate(w, s) \/ CommitDone(w, s)
        BY <3>1, <4>2 DEF Invalidate, CommitDone
      <4>3. CASE CommitTest(w, s)
        BY <2>0, <4>3, ACExecutorMoves DEF CommitTest
      <4>4. CASE Update(w, s)
        BY <2>0, <4>4, ACExecutorMoves DEF Update
      <4>5. CASE PrepareItem(w, s)
        BY <2>0, <4>5, ACExecutorMoves DEF PrepareItem
      <4>6. CASE SetLatest(w, s)
        BY <2>0, <4>6, ACExecutorMoves DEF SetLatest
      <4>7. CASE HandleClose(w, s)
        BY <2>0, <4>7, ACExecutorMoves DEF HandleClose
      <4>. QED  BY <1>3, <4>1, <4>2, <4>3, <4>4, <4>5, <4>6, <4>7 DEF ExecutorKind
    <3>. QED  BY <2>0, <3>3
  <2>3. cache' \in [Keys -> [invalid : BOOLEAN, item : Item]]
    <3>1. CASE Invalidate(w, s)
      BY <2>0, <3>1 DEF Invalidate, Invalidated
    <3>2. CASE Update(w, s)
      <4>. DEFINE item == items[s][conn[w][s].ts][executor[w][s].i]
      <4>1. item \in Item
        BY <3>2, UpdatedItem DEF Update
      <4>2. cache' = [cache EXCEPT ![item.key] = [invalid |-> FALSE, item |-> item]]
        BY <3>2 DEF Update, Updated, ItemAt
      <4>. HIDE DEF item
      <4>. QED  BY <2>0, <4>1, <4>2
    <3>. QED  BY <1>3, <2>0, <3>1, <3>2 DEF ExecutorKind
  <2>. QED  BY <2>0, <2>1, <2>2, <2>3 DEF ACTypeOK
<1>. QED  BY <1>1, <1>2, <1>3, Kinds

\* Where executor (w, s) may stand in a state that it is left in alone.
StandsOK(v, r) ==
    LET e == executor[v][r]
    IN  /\ e.at \in {"recv", "invalidate"} => e.i = 0 /\ e.n = 0
        /\ e.at = "invalidate" => conn[v][r].type = "PREPARE" /\ pc[v] = "prepare"
        /\ e.at = "update" => e.i >= 1 /\ e.i <= e.n

\* An executor that goes on to the cache has just left the table.
LEMMA ExecutorKeeps ==
    ASSUME ACInv, NEW w \in Workers, NEW s \in Servers, ExecutorKind(w, s)
    PROVE  StandsOK(w, s)'
<1>. DEFINE e == executor[w][s]
<1>0. /\ e \in ACExecutorState /\ StandsOK(w, s) /\ pc' = pc
      /\ executor \in [Workers -> [Servers -> ACExecutorState]]
      /\ conn \in [Workers -> [Servers -> ACMessage]]
  BY DEF ACInv, ACTypeOK, ExecutorOK, StandsOK, ExecutorKind
<1>1. ASSUME NEW f, executor' = [executor EXCEPT ![w][s] = f]
      PROVE  executor'[w][s] = f
  BY <1>0, <1>1
<1>2. CASE PrepareItem(w, s)
  <2>1. conn' = conn /\ conn[w][s].type = "PREPARE" /\ e.at = "recv"
    BY <1>2 DEF PrepareItem
  <2>2. executor'[w][s] = [e EXCEPT !.at = "invalidate"]
    BY <1>1, <1>2 DEF PrepareItem
  <2>3. /\ executor'[w][s].at = "invalidate"
        /\ executor'[w][s].i = e.i /\ executor'[w][s].n = e.n
    BY <1>0, <2>2, ACExecutorMoves
  <2>4. PlainConn[w][s].type = "PREPARE"
    BY <2>1, PlainPoint, PlainMessages
  <2>5. pc[w] = "prepare"
    BY <2>4 DEF ACInv, Plain!WriteInv, Plain!MessagesOK
  <2>. QED  BY <1>0, <2>1, <2>3, <2>5 DEF StandsOK
<1>3. CASE SetLatest(w, s)
  <2>1. e.at = "set"
    BY <1>3 DEF SetLatest
  <2>2. executor'[w][s] = [e EXCEPT !.at = "update"]
    BY <1>1, <1>3 DEF SetLatest
  <2>3. /\ executor'[w][s].at = "update"
        /\ executor'[w][s].i = e.i /\ executor'[w][s].n = e.n
    BY <1>0, <2>2, ACExecutorMoves
  <2>4. PlainExecutor[w][s] = e
    BY <2>1, PlainPoint, PlainStates
  <2>5. e.i >= 1 /\ e.i <= e.n
    BY <2>1, <2>4 DEF ACInv, Plain!WriteInv, Plain!LoopOK
  <2>. QED  BY <2>3, <2>5 DEF StandsOK
<1>4. CASE Invalidate(w, s) \/ CommitDone(w, s)
  <2>1. executor'[w][s] = Receiving
    BY <1>1, <1>4 DEF Invalidate, CommitDone
  <2>. QED  BY <2>1 DEF StandsOK, Receiving
<1>5. CASE CommitBegin(w, s) \/ CommitTest(w, s) \/ Update(w, s) \/ HandleClose(w, s)
  <2>1. \/ executor'[w][s] = [at |-> "test", i |-> 1, n |-> Len(items[s][conn[w][s].ts])]
        \/ executor'[w][s] = NextItem(e)
        \/ executor'[w][s] = [e EXCEPT !.at = "set"]
        \/ executor'[w][s] = [e EXCEPT !.at = "closed"]
    <3>1. CASE CommitBegin(w, s)
      BY <1>1, <3>1 DEF CommitBegin
    <3>2. CASE CommitTest(w, s)
      BY <1>1, <3>2 DEF CommitTest
    <3>3. CASE Update(w, s)
      BY <1>1, <3>3 DEF Update
    <3>4. CASE HandleClose(w, s)
      BY <1>1, <3>4 DEF HandleClose
    <3>. QED  BY <1>5, <3>1, <3>2, <3>3, <3>4
  <2>2. executor'[w][s].at \in {"test", "set", "closed"}
    <3>1. NextItem(e).at = "test" /\ [e EXCEPT !.at = "set"].at = "set"
            /\ [e EXCEPT !.at = "closed"].at = "closed"
      BY <1>0, ACExecutorMoves
    <3>2. CASE executor'[w][s] = [at |-> "test", i |-> 1, n |-> Len(items[s][conn[w][s].ts])]
      BY <3>2
    <3>3. CASE executor'[w][s] = NextItem(e)
      BY <3>1, <3>3
    <3>4. CASE executor'[w][s] = [e EXCEPT !.at = "set"]
      BY <3>1, <3>4
    <3>5. CASE executor'[w][s] = [e EXCEPT !.at = "closed"]
      BY <3>1, <3>5
    <3>. QED  BY <2>1, <3>2, <3>3, <3>4, <3>5
  <2>. QED  BY <2>2 DEF StandsOK
<1>. QED  BY <1>2, <1>3, <1>4, <1>5 DEF ExecutorKind

\* Every step keeps the executors where the messages and the loop want them.
LEMMA ExecutorOKStep ==
    ASSUME ACInv, [ACNext]_acVars
    PROVE  ExecutorOK'
<1>. SUFFICES ASSUME NEW v \in Workers, NEW r \in Servers
              PROVE  StandsOK(v, r)'
  BY DEF ExecutorOK, StandsOK
<1>0. /\ StandsOK(v, r)
      /\ executor \in [Workers -> [Servers -> ACExecutorState]]
      /\ conn \in [Workers -> [Servers -> ACMessage]]
  BY DEF ACInv, ACTypeOK, ExecutorOK, StandsOK
<1>1. CASE WorkerKind
  BY <1>0, <1>1 DEF WorkerKind, StandsOK
<1>2. ASSUME NEW w \in Workers, NEW s \in Servers, SendKind(w, s)
      PROVE  StandsOK(v, r)'
  <2>1. executor' = executor /\ pc' = pc /\ executor[w][s].at # "invalidate"
    BY <1>2 DEF SendKind
  <2>2. v # w \/ r # s => conn'[v][r] = conn[v][r]
    BY <1>0, <1>2 DEF SendKind, Send
  <2>. QED  BY <1>0, <2>1, <2>2 DEF StandsOK
<1>3. ASSUME NEW w \in Workers, NEW s \in Servers, ExecutorKind(w, s)
      PROVE  StandsOK(v, r)'
  <2>1. CASE v = w /\ r = s
    BY <1>3, <2>1, ExecutorKeeps
  <2>2. CASE v # w \/ r # s
    <3>1. pc' = pc
      BY <1>3 DEF ExecutorKind
    <3>2. conn'[v][r] = conn[v][r]
      <4>1. conn' = conn \/ \E m : conn' = [conn EXCEPT ![w][s] = m]
        BY <1>3 DEF ExecutorKind, Invalidate, Update, PrepareItem, SetLatest, HandleClose,
                    CommitBegin, CommitTest, CommitDone, Send
      <4>. QED  BY <1>0, <2>2, <4>1
    <3>3. executor'[v][r] = executor[v][r]
      <4>1. \E f : executor' = [executor EXCEPT ![w][s] = f]
        BY <1>3 DEF ExecutorKind, Invalidate, Update, PrepareItem, SetLatest, HandleClose,
                    CommitBegin, CommitTest, CommitDone
      <4>. QED  BY <1>0, <2>2, <4>1
    <3>. QED  BY <1>0, <3>1, <3>2, <3>3 DEF StandsOK
  <2>. QED  BY <2>1, <2>2
<1>. QED  BY <1>1, <1>2, <1>3, Kinds

\* What may be returned for a key may be returned from then on.
LEMMA ReadableStays ==
    ASSUME ACInv, [ACNext]_acVars
    PROVE  \A k \in Keys : \A item \in Item : Plain!Readable(k, item) => Plain!Readable(k, item)'
<1>1. PICK W \in SUBSET Workers : W = Intact'
  BY DEF Intact
<1>2. [Plain!LooseNext(W)]_(Plain!vars)
  BY <1>1, SimulationStep
<1>3. Plain!TypeOK /\ Plain!ControlOK
  BY DEF ACInv, Plain!WriteInv
<1>. QED  BY <1>2, <1>3, ConstantsAssumption, Plain!LooseStable, SameTable

\* Every step keeps the items of the cache readable.
LEMMA CacheOKStep ==
    ASSUME ACInv, [ACNext]_acVars
    PROVE  CacheOK'
<1>. SUFFICES ASSUME NEW k \in Keys
              PROVE  Plain!Readable(k, cache[k].item)'
  BY DEF CacheOK
<1>0. /\ cache \in [Keys -> [invalid : BOOLEAN, item : Item]]
      /\ Plain!Readable(k, cache[k].item)
  BY DEF ACInv, ACTypeOK, CacheOK
<1>1. \A item \in Item : Plain!Readable(k, item) => Plain!Readable(k, item)'
  BY ReadableStays
<1>2. CASE cache'[k].item = cache[k].item
  BY <1>0, <1>1, <1>2
<1>3. ASSUME NEW w \in Workers, NEW s \in Servers, Invalidate(w, s)
      PROVE  cache'[k].item = cache[k].item
  BY <1>0, <1>3 DEF Invalidate, Invalidated
<1>4. ASSUME NEW w \in Workers, NEW s \in Servers, Update(w, s)
      PROVE  Plain!Readable(k, cache[k].item)'
  <2>. DEFINE item == items[s][conn[w][s].ts][executor[w][s].i]
  <2>1. item \in Item /\ Plain!Readable(item.key, item)
    BY <1>4, UpdatedItem DEF Update
  <2>2. cache' = [cache EXCEPT ![item.key] = [invalid |-> FALSE, item |-> item]]
    BY <1>4 DEF Update, Updated, ItemAt
  <2>. HIDE DEF item
  <2>3. CASE k = item.key
    <3>1. cache'[k].item = item
      BY <1>0, <2>2, <2>3
    <3>. QED  BY <1>1, <2>1, <2>3, <3>1
  <2>4. CASE k # item.key
    BY <1>0, <1>2, <2>2, <2>4
  <2>. QED  BY <2>3, <2>4
<1>5. WorkerKind \/ (\E w \in Workers, s \in Servers : SendKind(w, s) \/ ExecutorKind(w, s))
  BY Kinds
<1>. QED  BY <1>2, <1>3, <1>4, <1>5 DEF WorkerKind, EntriesStay, SendKind, ExecutorKind

\* What the read of one connection has copied.
SeenAt(v, r) ==
    conn[v][r].type = "READ" =>
        /\ pc[v] = "round1"
        /\ \A item \in conn[v][r].seen : Plain!Readable(conn[v][r].key, item)

\* Every step keeps it readable: a part that is copied is of the entry.
LEMMA SeenStep ==
    ASSUME ACInv, [ACNext]_acVars
    PROVE  SeenOK'
<1>. SUFFICES ASSUME NEW v \in Workers, NEW r \in Servers
              PROVE  SeenAt(v, r)'
  BY DEF SeenOK, SeenAt
<1>0. /\ SeenAt(v, r) /\ conn \in [Workers -> [Servers -> ACMessage]]
      /\ conn[v][r] \in ACMessage
  BY DEF ACInv, ACTypeOK, SeenOK, SeenAt
<1>1. \A k \in Keys : \A item \in Item : Plain!Readable(k, item) => Plain!Readable(k, item)'
  BY ReadableStays
<1>2. CASE conn'[v][r] = conn[v][r] /\ pc'[v] = pc[v]
  <2>1. conn[v][r].type = "READ" => conn[v][r].key \in Keys /\ conn[v][r].seen \in SUBSET Item
    BY <1>0, ACMessageFields
  <2>. QED  BY <1>0, <1>1, <1>2, <2>1 DEF SeenAt
<1>3. CASE conn'[v][r] = conn[v][r] /\ conn[v][r].type # "READ"
  BY <1>3 DEF SeenAt
<1>4. CASE WorkerKind
  BY <1>2, <1>3, <1>4 DEF WorkerKind
<1>5. ASSUME NEW w \in Workers, NEW s \in Servers, SendKind(w, s)
      PROVE  SeenAt(v, r)'
  <2>1. pc' = pc
    BY <1>5 DEF SendKind
  <2>2. PICK m \in ACMessage : /\ Send(w, s, m)
                               /\ m.type = "READ" => pc[w] = "round1" /\ Copied(w, s, m)
    BY <1>5 DEF SendKind
  <2>3. CASE v # w \/ r # s
    BY <1>0, <1>2, <2>1, <2>2, <2>3 DEF Send
  <2>4. CASE v = w /\ r = s
    <3>1. conn'[v][r] = m
      BY <1>0, <2>2, <2>4 DEF Send
    <3>2. ASSUME m.type = "READ", NEW item \in m.seen
          PROVE  Plain!Readable(m.key, item)'
      <4>1. m.key \in Keys /\ item \in Item
        BY <3>2, ACMessageFields
      <4>2. CASE item \in Parts(m.key)
        BY <1>1, <4>1, <4>2, PartReadable
      <4>3. CASE /\ conn[w][s].type = "READ" /\ conn[w][s].key = m.key
                 /\ item \in conn[w][s].seen
        BY <1>0, <1>1, <2>4, <4>1, <4>3 DEF SeenAt
      <4>. QED  BY <2>2, <3>2, <4>2, <4>3 DEF Copied
    <3>. QED  BY <2>1, <2>2, <2>4, <3>1, <3>2 DEF SeenAt
  <2>. QED  BY <2>3, <2>4
<1>6. ASSUME NEW w \in Workers, NEW s \in Servers, ExecutorKind(w, s)
      PROVE  SeenAt(v, r)'
  <2>1. pc' = pc
    BY <1>6 DEF ExecutorKind
  <2>2. conn' = conn \/ conn' = [conn EXCEPT ![w][s] = Done]
                    \/ conn' = [conn EXCEPT ![w][s] = NoMsg]
    BY <1>6 DEF ExecutorKind, Invalidate, Update, PrepareItem, SetLatest, HandleClose,
                CommitBegin, CommitTest, CommitDone, Send
  <2>3. conn'[v][r] = conn[v][r] \/ conn'[v][r] = Done \/ conn'[v][r] = NoMsg
    BY <1>0, <2>2
  <2>4. Done.type # "READ" /\ NoMsg.type # "READ"
    BY DEF Done, NoMsg
  <2>5. CASE conn'[v][r].type # "READ"
    BY <2>5 DEF SeenAt
  <2>. QED  BY <1>2, <2>1, <2>3, <2>4, <2>5
<1>. QED  BY <1>4, <1>5, <1>6, Kinds

\* Every step keeps the inductive invariant.
LEMMA ACStep ==
    ASSUME DistinctTs, Plain!PureTrxs, TrxType = "RAMP_FAST", ACInv, [ACNext]_acVars
    PROVE  ACInv'
<1>1. PICK V \in SUBSET Workers, W \in SUBSET Workers : V = Intact /\ W = Intact'
  BY DEF Intact
<1>2. [Plain!LooseNext(W)]_(Plain!vars)
  BY <1>1, SimulationStep
<1>3. \A w \in W \ V : Plain!GetAll(w)
  BY <1>1, IntactMoves
<1>4. Plain!WriteInv /\ Plain!ReadInv(V) /\ Plain!AccessOK /\ Plain!PendingOK
  BY <1>1 DEF ACInv
<1>5. Plain!WriteInv' /\ Plain!ReadInv(W)'
  BY <1>2, <1>3, <1>4, ConstantsAssumption, Plain!LooseJoin
<1>6. Plain!AccessOK' /\ Plain!PendingOK'
  <2>1. Plain!TypeOK /\ Plain!ControlOK /\ Plain!MessagesOK
    BY <1>4 DEF Plain!WriteInv
  <2>. QED  BY <1>2, <1>4, <2>1, ConstantsAssumption, Plain!LooseAccess
<1>7. Plain!ReadInv(Intact)'
  BY <1>1, <1>5
<1>. QED  BY <1>5, <1>6, <1>7, ACTypeStep, ExecutorOKStep, CacheOKStep, SeenStep DEF ACInv

\* Nothing is under way and the cache is empty when the system starts.
LEMMA ACStart ==
    ASSUME ACInit
    PROVE  Plain!Init /\ ACInv
<1>. USE DEF ACInit, FreshInit, Init
<1>1. PlainConn = [w \in Workers |-> [s \in Servers |-> NoMsg]]
  <2>1. \A e : PlainMessage(NoMsg, e) = NoMsg
    BY DEF PlainMessage, NoMsg
  <2>. QED  BY <2>1 DEF PlainConn
<1>2. PlainExecutor = [w \in Workers |-> [s \in Servers |-> Receiving]]
  <2>1. PlainState(Receiving) = Receiving
    BY PlainStates DEF Receiving
  <2>. QED  BY <2>1 DEF PlainExecutor
<1>3. Plain!Init
  BY <1>1, <1>2, SameMessages, SameTable DEF Plain!Init
<1>4. Plain!WriteInv /\ Plain!ReadInv(Intact)
  <2>1. PICK W \in SUBSET Workers : W = Intact
    BY DEF Intact
  <2>. QED  BY <1>3, <2>1, ConstantsAssumption, Plain!WriteInit, Plain!ReadInit
<1>5. EmptyItem \in Item
  BY ConstantsAssumption DEF EmptyItem, Item, TsOrEmpty
<1>6. ACTypeOK
  BY <1>5 DEF ACTypeOK, ACMessage, NoMsg, ACExecutorState, Receiving
<1>7. ExecutorOK
  BY DEF ExecutorOK, Receiving
<1>8. CacheOK /\ SeenOK
  BY SameMessages DEF CacheOK, SeenOK, Plain!Readable, NoMsg
<1>9. Plain!AccessOK /\ Plain!PendingOK
  BY DEF Plain!AccessOK, Plain!PendingOK
<1>. QED  BY <1>3, <1>4, <1>6, <1>7, <1>8, <1>9 DEF ACInv

-----------------------------------------------------------------------------
(* Loops of commit, table and cache *)

\* An executor is inside Table::commit for the transaction that its worker is
\* committing, and what its message and its loop say is what RAMPFast has.
LEMMA LoopState ==
    ASSUME ACInv, NEW w \in Workers, NEW s \in Servers, InLoop(w, s)
    PROVE  LET ts == conn[w][s].ts
           IN  /\ conn[w][s].type = "COMMIT" /\ PlainConn[w][s] = conn[w][s]
               /\ pc[w] = "commit" /\ trx[w] \in Trxs
               /\ ts = trx_ts[trx[w]] /\ ts \in Timestamps /\ items[s][ts] \in Seq(Item)
               /\ executor[w][s] \in ACExecutorState
<1>. DEFINE e == executor[w][s]
<1>. USE DEF ACInv, Plain!WriteInv
<1>1. e \in ACExecutorState /\ conn[w][s] \in ACMessage
  BY DEF ACTypeOK
<1>2. PlainExecutor[w][s].at \in {"test", "set"}
  <2>1. NextItem(e).at = "test"
    BY <1>1, ACExecutorMoves
  <2>. QED  BY <2>1, PlainPoint, PlainStates DEF InLoop
<1>3. PlainConn[w][s].type = "COMMIT"
  BY <1>2 DEF Plain!MessagesOK
<1>4. PlainConn[w][s] = conn[w][s]
  <2>1. PlainMessage(conn[w][s], e).type = "COMMIT"
    BY <1>3, PlainPoint
  <2>2. PlainMessage(conn[w][s], e) = conn[w][s]
    BY <2>1, PlainMessages DEF Result, Done
  <2>. QED  BY <2>2, PlainPoint
<1>5. pc[w] = "commit" /\ conn[w][s].ts = trx_ts[trx[w]]
  BY <1>3, <1>4 DEF Plain!MessagesOK
<1>6. trx[w] \in Trxs
  BY <1>5 DEF Plain!ControlOK, Plain!Running
<1>7. conn[w][s].ts \in Timestamps
  BY <1>1, <1>3, <1>4, ACMessageFields
<1>8. items[s][conn[w][s].ts] \in Seq(Item)
  BY <1>7, SameTable DEF Plain!TypeOK
<1>. QED  BY <1>1, <1>3, <1>4, <1>5, <1>6, <1>7, <1>8

\* Where the loop stands there is an item of that transaction.
LEMMA LoopKey ==
    ASSUME ACInv, NEW w \in Workers, NEW s \in Servers, InLoop(w, s),
           executor[w][s].i <= executor[w][s].n
    PROVE  /\ executor[w][s].i \in DOMAIN items[s][conn[w][s].ts]
           /\ KeyAt(w, s) \in WriteSet[trx[w]] /\ KeyAt(w, s) \in Keys
           /\ ServerOf[KeyAt(w, s)] = s
<1>1. CASE executor[w][s].at = "update"
  BY <1>1, UpdatedItem DEF KeyAt, ItemAt
<1>2. CASE executor[w][s].at \in {"test", "set"}
  <2>1. PlainExecutor[w][s] = executor[w][s] /\ PlainConn[w][s] = conn[w][s]
    BY <1>2, LoopState, PlainPoint, PlainStates
  <2>2. PICK j \in Nat : j = executor[w][s].i
    BY LoopState DEF ACExecutorState
  <2>3. /\ PlainExecutor[w][s].at \in {"test", "set"}
        /\ PlainExecutor[w][s].i <= j /\ j <= PlainExecutor[w][s].n
    BY <1>2, <2>1, <2>2
  <2>4. /\ Plain!TypeOK /\ Plain!ControlOK /\ Plain!MessagesOK /\ Plain!LoopOK
        /\ Plain!UniqueTs /\ Plain!ItemsOK
    BY DEF ACInv, Plain!WriteInv
  <2>5. LET ts == PlainConn[w][s].ts
        IN  /\ j \in DOMAIN items[s][ts]
            /\ items[s][ts][j].key \in WriteSet[trx[w]] /\ items[s][ts][j].key \in Keys
            /\ ServerOf[items[s][ts][j].key] = s
    BY <2>3, <2>4, ConstantsAssumption, Plain!LoopItem
  <2>. QED  BY <2>1, <2>2, <2>5 DEF KeyAt, ItemAt
<1>. QED  BY <1>1, <1>2 DEF InLoop

\* No step takes a timestamp or an item back.
LEMMA ACStable ==
    ASSUME ACInv, [ACNext]_acVars
    PROVE  Plain!Stable
<1>. USE DEF ACInv, Plain!WriteInv
<1>1. CASE [Plain!Next]_(Plain!vars)
  BY <1>1, ConstantsAssumption, Plain!StoreGrows
<1>2. ASSUME NEW w \in Workers, NEW s \in Servers, ReadItem(w, s)
      PROVE  Plain!Stable
  <2>1. items' = items /\ trx_ts' = trx_ts
    BY <1>2 DEF ReadItem, workerVars, tableVars
  <2>. QED  BY <2>1, ConstantsAssumption, Plain!GrowsReflexive DEF Plain!Stable
<1>. QED  BY <1>1, <1>2, PlainNext

\* So a loop that has its message finds the items where they were.
LEMMA LoopStays ==
    ASSUME ACInv, [ACNext]_acVars, NEW w \in Workers, NEW s \in Servers, InLoop(w, s),
           conn'[w][s] = conn[w][s]
    PROVE  /\ \A j \in DOMAIN items[s][conn[w][s].ts] :
                 /\ j \in DOMAIN items'[s][conn'[w][s].ts]
                 /\ items'[s][conn'[w][s].ts][j] = items[s][conn[w][s].ts][j]
           /\ executor'[w][s].i = executor[w][s].i
                /\ executor[w][s].i \in DOMAIN items[s][conn[w][s].ts] =>
                 KeyAt(w, s)' = KeyAt(w, s)
<1>1. conn[w][s].ts \in Timestamps
  BY LoopState
<1>2. \A j \in DOMAIN items[s][conn[w][s].ts] :
         /\ j \in DOMAIN items'[s][conn'[w][s].ts]
         /\ items'[s][conn'[w][s].ts][j] = items[s][conn[w][s].ts][j]
  BY <1>1, ACStable, SameTable DEF Plain!Stable, Plain!Grows
<1>. QED  BY <1>2 DEF KeyAt, ItemAt

\* An executor and its COMMIT stay as they are, or it takes a step.
ServerStays(w, s) ==
    /\ executor'[w][s] = executor[w][s]
    /\ conn[w][s].type = "COMMIT" => conn'[w][s] = conn[w][s]

\* Each executor has these two choices in every step.
LEMMA ServerMoves ==
    ASSUME ACInv, [ACNext]_acVars, NEW v \in Workers, NEW r \in Servers
    PROVE  ServerStays(v, r) \/ ExecutorKind(v, r)
<1>0. /\ executor \in [Workers -> [Servers -> ACExecutorState]]
      /\ conn \in [Workers -> [Servers -> ACMessage]]
  BY DEF ACInv, ACTypeOK
<1>1. CASE WorkerKind
  BY <1>1 DEF WorkerKind, ServerStays
<1>2. ASSUME NEW w \in Workers, NEW s \in Servers, SendKind(w, s)
      PROVE  ServerStays(v, r)
  <2>1. executor' = executor /\ conn[w][s].type # "COMMIT"
    BY <1>2 DEF SendKind
  <2>2. v # w \/ r # s => conn'[v][r] = conn[v][r]
    BY <1>0, <1>2 DEF SendKind, Send
  <2>. QED  BY <2>1, <2>2 DEF ServerStays
<1>3. ASSUME NEW w \in Workers, NEW s \in Servers, ExecutorKind(w, s), v # w \/ r # s
      PROVE  ServerStays(v, r)
  <2>1. conn' = conn \/ \E m : conn' = [conn EXCEPT ![w][s] = m]
    BY <1>3 DEF ExecutorKind, Invalidate, Update, PrepareItem, SetLatest, HandleClose,
                CommitBegin, CommitTest, CommitDone, Send
  <2>2. \E f : executor' = [executor EXCEPT ![w][s] = f]
    BY <1>3 DEF ExecutorKind, Invalidate, Update, PrepareItem, SetLatest, HandleClose,
                CommitBegin, CommitTest, CommitDone
  <2>3. conn'[v][r] = conn[v][r]
    BY <1>0, <1>3, <2>1
  <2>4. executor'[v][r] = executor[v][r]
    BY <1>0, <1>3, <2>2
  <2>. QED  BY <2>3, <2>4 DEF ServerStays
<1>. QED  BY <1>1, <1>2, <1>3, Kinds

\* Before it stores a timestamp or an entry the loop has not come to its end.
LEMMA LoopInside ==
    ASSUME ACInv, NEW w \in Workers, NEW s \in Servers, executor[w][s].at \in {"set", "update"}
    PROVE  InLoop(w, s) /\ executor[w][s].i <= executor[w][s].n
<1>1. CASE executor[w][s].at = "update"
  BY <1>1 DEF ACInv, ExecutorOK, InLoop
<1>2. CASE executor[w][s].at = "set"
  <2>1. PlainExecutor[w][s] = executor[w][s]
    BY <1>2, PlainPoint, PlainStates
  <2>2. Plain!LoopOK
    BY DEF ACInv, Plain!WriteInv
  <2>. QED  BY <1>2, <2>1, <2>2 DEF Plain!LoopOK, InLoop
<1>. QED  BY <1>1, <1>2

\* What an executor may do with a COMMIT.
BeginsLoop(w, s) ==
    /\ executor[w][s].at = "recv" /\ conn'[w][s] = conn[w][s]
    /\ executor'[w][s].at = "test" /\ executor'[w][s].i = 1
    /\ executor'[w][s].n = Len(items[s][conn[w][s].ts])

TestsNewer(w, s) ==
    /\ executor[w][s].at = "test" /\ conn'[w][s] = conn[w][s]
    /\ executor[w][s].i <= executor[w][s].n
    /\ executor'[w][s].at = "set"
    /\ executor'[w][s].i = executor[w][s].i /\ executor'[w][s].n = executor[w][s].n

TestsOlder(w, s) ==
    /\ executor[w][s].at = "test" /\ conn'[w][s] = conn[w][s]
    /\ executor[w][s].i <= executor[w][s].n
    /\ ~ IsNewer(KeyAt(w, s), conn[w][s].ts)
    /\ executor'[w][s].at = "test"
    /\ executor'[w][s].i = executor[w][s].i + 1 /\ executor'[w][s].n = executor[w][s].n

Stores(w, s) ==
    /\ SetLatest(w, s)
    /\ executor[w][s].at = "set" /\ conn'[w][s] = conn[w][s]
    /\ executor'[w][s].at = "update"
    /\ executor'[w][s].i = executor[w][s].i /\ executor'[w][s].n = executor[w][s].n

Updates(w, s) ==
    /\ Update(w, s)
    /\ executor[w][s].at = "update" /\ conn'[w][s] = conn[w][s]
    /\ executor'[w][s].at = "test"
    /\ executor'[w][s].i = executor[w][s].i + 1 /\ executor'[w][s].n = executor[w][s].n

EndsLoop(w, s) ==
    /\ executor[w][s].at = "test" /\ executor[w][s].i > executor[w][s].n
    /\ executor'[w][s].at = "recv"

\* It does nothing else with one.
LEMMA CommitMoves ==
    ASSUME ACInv, NEW w \in Workers, NEW s \in Servers, ExecutorKind(w, s)
    PROVE  /\ conn[w][s].type = "COMMIT" =>
                 \/ BeginsLoop(w, s) \/ TestsNewer(w, s) \/ TestsOlder(w, s)
                 \/ Stores(w, s) \/ Updates(w, s) \/ EndsLoop(w, s)
           /\ conn[w][s].type # "COMMIT" => executor'[w][s].at # "update"
<1>. DEFINE e == executor[w][s]
<1>0. /\ executor \in [Workers -> [Servers -> ACExecutorState]] /\ e \in ACExecutorState
      /\ e.at = "invalidate" => conn[w][s].type = "PREPARE"
      /\ e.at \in {"test", "set", "update"} => conn[w][s].type = "COMMIT"
  BY LoopState DEF ACInv, ACTypeOK, ExecutorOK, InLoop
<1>1. ASSUME NEW f, executor' = [executor EXCEPT ![w][s] = f]
      PROVE  executor'[w][s] = f
  BY <1>0, <1>1
<1>2. CASE Invalidate(w, s) \/ PrepareItem(w, s) \/ HandleClose(w, s)
  <2>1. conn[w][s].type # "COMMIT"
    BY <1>0, <1>2 DEF Invalidate, PrepareItem, HandleClose
  <2>2. \/ executor'[w][s] = Receiving
        \/ executor'[w][s] = [e EXCEPT !.at = "invalidate"]
        \/ executor'[w][s] = [e EXCEPT !.at = "closed"]
    BY <1>1, <1>2 DEF Invalidate, PrepareItem, HandleClose
  <2>3. /\ [e EXCEPT !.at = "invalidate"].at = "invalidate"
        /\ [e EXCEPT !.at = "closed"].at = "closed" /\ Receiving.at = "recv"
    BY <1>0, ACExecutorMoves DEF Receiving
  <2>4. executor'[w][s].at # "update"
    <3>1. CASE executor'[w][s] = Receiving
      BY <2>3, <3>1
    <3>2. CASE executor'[w][s] = [e EXCEPT !.at = "invalidate"]
      BY <2>3, <3>2
    <3>3. CASE executor'[w][s] = [e EXCEPT !.at = "closed"]
      BY <2>3, <3>3
    <3>. QED  BY <2>2, <3>1, <3>2, <3>3
  <2>. QED  BY <2>1, <2>4
<1>3. CASE CommitBegin(w, s)
  <2>1. executor'[w][s] = [at |-> "test", i |-> 1, n |-> Len(items[s][conn[w][s].ts])]
    BY <1>1, <1>3 DEF CommitBegin
  <2>. QED  BY <1>3, <2>1 DEF CommitBegin, BeginsLoop
<1>4. CASE CommitTest(w, s)
  <2>1. e.at = "test" /\ e.i <= e.n /\ conn' = conn
    BY <1>4 DEF CommitTest
  <2>2. executor'[w][s] = IF IsNewer(KeyAt(w, s), conn[w][s].ts)
                          THEN [e EXCEPT !.at = "set"] ELSE NextItem(e)
    BY <1>1, <1>4 DEF CommitTest, KeyAt, ItemAt
  <2>3. /\ [e EXCEPT !.at = "set"].at = "set"
        /\ [e EXCEPT !.at = "set"].i = e.i /\ [e EXCEPT !.at = "set"].n = e.n
        /\ NextItem(e).at = "test" /\ NextItem(e).i = e.i + 1 /\ NextItem(e).n = e.n
    BY <1>0, ACExecutorMoves
  <2>4. TestsNewer(w, s) \/ TestsOlder(w, s)
    BY <2>1, <2>2, <2>3 DEF TestsNewer, TestsOlder
  <2>. QED  BY <1>0, <2>1, <2>4
<1>5. CASE SetLatest(w, s)
  <2>1. e.at = "set" /\ conn' = conn /\ executor'[w][s] = [e EXCEPT !.at = "update"]
    BY <1>1, <1>5 DEF SetLatest
  <2>2. /\ [e EXCEPT !.at = "update"].at = "update"
        /\ [e EXCEPT !.at = "update"].i = e.i /\ [e EXCEPT !.at = "update"].n = e.n
    BY <1>0, ACExecutorMoves
  <2>. QED  BY <1>0, <1>5, <2>1, <2>2 DEF Stores
<1>6. CASE Update(w, s)
  <2>1. e.at = "update" /\ conn' = conn /\ executor'[w][s] = NextItem(e)
    BY <1>1, <1>6 DEF Update
  <2>2. NextItem(e).at = "test" /\ NextItem(e).i = e.i + 1 /\ NextItem(e).n = e.n
    BY <1>0, ACExecutorMoves
  <2>. QED  BY <1>0, <1>6, <2>1, <2>2 DEF Updates
<1>7. CASE CommitDone(w, s)
  <2>1. e.at = "test" /\ e.i > e.n /\ executor'[w][s] = Receiving
    BY <1>1, <1>7 DEF CommitDone
  <2>. QED  BY <1>0, <2>1 DEF EndsLoop, Receiving
<1>. QED  BY <1>2, <1>3, <1>4, <1>5, <1>6, <1>7 DEF ExecutorKind

\* The timestamp of a key changes when a loop stores its own.
LEMMA LatestStays ==
    ASSUME CommitAssigns, ACInv, [ACNext]_acVars, NEW k \in Keys
    PROVE  \/ latest_commit'[k] = latest_commit[k]
           \/ \E w \in Workers, s \in Servers :
                 /\ ExecutorKind(w, s) /\ Stores(w, s) /\ KeyAt(w, s) = k
                 /\ ServerOf[k] = s /\ latest_commit'[k] # 0
<1>1. latest_commit \in [Keys -> TsOrEmpty]
  BY SameTable DEF ACInv, Plain!WriteInv, Plain!TypeOK
<1>2. ASSUME NEW w \in Workers, NEW s \in Servers, ExecutorKind(w, s), SetLatest(w, s),
             latest_commit'[k] # latest_commit[k]
      PROVE  Stores(w, s) /\ KeyAt(w, s) = k /\ ServerOf[k] = s /\ latest_commit'[k] # 0
  <2>1. executor[w][s].at = "set"
    BY <1>2 DEF SetLatest
  <2>2. InLoop(w, s) /\ executor[w][s].i <= executor[w][s].n
    BY <2>1, LoopInside
  <2>3. conn[w][s].type = "COMMIT" /\ conn[w][s].ts \in Timestamps
    BY <2>2, LoopState
  <2>4. latest_commit' = [latest_commit EXCEPT ![KeyAt(w, s)] = conn[w][s].ts]
    BY <1>2 DEF SetLatest, CommittedTs, KeyAt, ItemAt
  <2>5. KeyAt(w, s) = k /\ latest_commit'[k] = conn[w][s].ts
    BY <1>1, <1>2, <2>4
  <2>6. ServerOf[k] = s
    BY <2>2, <2>5, LoopKey
  <2>7. Stores(w, s)
    BY <1>2, <2>1, <2>3, CommitMoves
            DEF BeginsLoop, TestsNewer, TestsOlder, Updates, EndsLoop
  <2>8. conn[w][s].ts # 0
    BY <2>3 DEF Timestamps
  <2>. QED  BY <2>5, <2>6, <2>7, <2>8
<1>3. \/ latest_commit' = latest_commit
      \/ \E w \in Workers, s \in Servers : ExecutorKind(w, s) /\ SetLatest(w, s)
  <2>1. WorkerKind => latest_commit' = latest_commit
    BY DEF WorkerKind, tableVars
  <2>2. \A w \in Workers, s \in Servers : SendKind(w, s) => latest_commit' = latest_commit
    BY DEF SendKind, tableVars
  <2>3. \A w \in Workers, s \in Servers :
           ExecutorKind(w, s) => latest_commit' = latest_commit \/ SetLatest(w, s)
    <3>. TAKE w \in Workers, s \in Servers
    <3>1. Invalidate(w, s) \/ Update(w, s) => latest_commit' = latest_commit
      BY DEF Invalidate, Update, tableVars
    <3>2. PrepareItem(w, s) \/ HandleClose(w, s) => latest_commit' = latest_commit
      BY DEF PrepareItem, HandleClose, tableVars
    <3>3. CommitBegin(w, s) \/ CommitTest(w, s) \/ CommitDone(w, s) =>
             latest_commit' = latest_commit
      BY DEF CommitBegin, CommitTest, CommitDone, tableVars
    <3>. QED  BY <3>1, <3>2, <3>3 DEF ExecutorKind
  <2>. QED  BY <2>1, <2>2, <2>3, Kinds
<1>. QED  BY <1>2, <1>3

\* What a loop puts into the cache is not of the load.
LEMMA UpdateStamped ==
    ASSUME ACInv, NEW w \in Workers, NEW s \in Servers, executor[w][s].at = "update"
    PROVE  LET item == items[s][conn[w][s].ts][executor[w][s].i]
           IN  item \in Item /\ item.key \in Keys /\ item.ts # 0
<1>1. conn[w][s].ts # 0
  <2>1. conn[w][s].ts \in Timestamps
    BY UpdatedItem
  <2>. QED  BY <2>1, ConstantsAssumption DEF Timestamps
<1>. QED  BY <1>1, UpdatedItem

\* The item of an entry changes when a loop updates it, to one that is not of
\* the load.
LEMMA EntryStays ==
    ASSUME ACInv, [ACNext]_acVars, NEW k \in Keys
    PROVE  cache'[k].item = cache[k].item \/ cache'[k].item.ts # 0
<1>0. cache \in [Keys -> [invalid : BOOLEAN, item : Item]]
  BY DEF ACInv, ACTypeOK
<1>1. ASSUME NEW w \in Workers, NEW s \in Servers, Invalidate(w, s)
      PROVE  cache'[k].item = cache[k].item
  BY <1>0, <1>1 DEF Invalidate, Invalidated
<1>2. ASSUME NEW w \in Workers, NEW s \in Servers, Update(w, s)
      PROVE  cache'[k].item = cache[k].item \/ cache'[k].item.ts # 0
  <2>. DEFINE item == items[s][conn[w][s].ts][executor[w][s].i]
  <2>1. item \in Item /\ item.ts # 0
    BY <1>2, UpdateStamped DEF Update
  <2>2. cache' = [cache EXCEPT ![item.key] = [invalid |-> FALSE, item |-> item]]
    BY <1>2 DEF Update, Updated, ItemAt
  <2>. HIDE DEF item
  <2>. QED  BY <1>0, <2>1, <2>2
<1>3. WorkerKind \/ (\E w \in Workers, s \in Servers : SendKind(w, s) \/ ExecutorKind(w, s))
  BY Kinds
<1>. QED  BY <1>1, <1>2, <1>3 DEF WorkerKind, EntriesStay, SendKind, ExecutorKind

\* A key that table and cache have come to does not fall back.
LEMMA ReachedStep ==
    ASSUME CommitAssigns, ACInv, [ACNext]_acVars, NEW k \in Keys
    PROVE  /\ latest_commit[k] # 0 => latest_commit'[k] # 0
           /\ cache[k].item.ts # 0 => cache'[k].item.ts # 0
           /\ Reached(k) => Reached(k)'
BY LatestStays, EntryStays DEF Reached

\* An update leaves an item at its key.
LEMMA UpdateReaches ==
    ASSUME ACInv, NEW w \in Workers, NEW s \in Servers, Update(w, s)
    PROVE  cache'[KeyAt(w, s)].item.ts # 0 /\ latest_commit' = latest_commit
<1>. DEFINE item == items[s][conn[w][s].ts][executor[w][s].i]
<1>1. executor[w][s].at = "update" /\ latest_commit' = latest_commit
  BY DEF Update, tableVars
<1>2. item \in Item /\ item.key \in Keys /\ item.ts # 0
  BY <1>1, UpdateStamped
<1>3. cache' = [cache EXCEPT ![item.key] = [invalid |-> FALSE, item |-> item]]
  BY DEF Update, Updated, ItemAt
<1>4. KeyAt(w, s) = item.key /\ cache \in [Keys -> [invalid : BOOLEAN, item : Item]]
  BY DEF KeyAt, ItemAt, ACInv, ACTypeOK
<1>. HIDE DEF item
<1>. QED  BY <1>1, <1>2, <1>3, <1>4

-----------------------------------------------------------------------------
(* What a put leaves in table and cache *)

\* Only SetLatest brings an executor to where the entry is to be updated.
LEMMA UpdatingStep ==
    ASSUME CommitAssigns, ACInv, UpdatingOK, [ACNext]_acVars
    PROVE  UpdatingOK'
<1>. SUFFICES ASSUME NEW v \in Workers, NEW r \in Servers, executor'[v][r].at = "update"
              PROVE  latest_commit'[KeyAt(v, r)'] # 0
  BY DEF UpdatingOK
<1>1. CASE ServerStays(v, r)
  <2>1. executor[v][r].at = "update" /\ executor'[v][r] = executor[v][r]
    BY <1>1 DEF ServerStays
  <2>2. InLoop(v, r) /\ executor[v][r].i <= executor[v][r].n
    BY <2>1, LoopInside
  <2>3. executor[v][r].i \in DOMAIN items[r][conn[v][r].ts] /\ KeyAt(v, r) \in Keys
    BY <2>2, LoopKey
  <2>4. conn'[v][r] = conn[v][r]
    BY <1>1, <2>2, LoopState DEF ServerStays
  <2>5. KeyAt(v, r)' = KeyAt(v, r)
    BY <2>1, <2>2, <2>3, <2>4, LoopStays
  <2>6. latest_commit[KeyAt(v, r)] # 0
    BY <2>1 DEF UpdatingOK
  <2>. QED  BY <2>3, <2>5, <2>6, ReachedStep
<1>2. CASE ExecutorKind(v, r)
  <2>1. Stores(v, r)
    BY <1>2, CommitMoves DEF BeginsLoop, TestsNewer, TestsOlder, Updates, EndsLoop
  <2>2. executor[v][r].at = "set" /\ conn'[v][r] = conn[v][r]
        /\ executor'[v][r].i = executor[v][r].i /\ SetLatest(v, r)
    BY <2>1 DEF Stores
  <2>3. InLoop(v, r) /\ executor[v][r].i <= executor[v][r].n
    BY <2>2, LoopInside
  <2>4. executor[v][r].i \in DOMAIN items[r][conn[v][r].ts] /\ KeyAt(v, r) \in Keys
    BY <2>3, LoopKey
  <2>5. KeyAt(v, r)' = KeyAt(v, r)
    BY <2>2, <2>3, <2>4, LoopStays
  <2>6. latest_commit' = [latest_commit EXCEPT ![KeyAt(v, r)] = conn[v][r].ts]
    BY <2>2 DEF SetLatest, CommittedTs, KeyAt, ItemAt
  <2>7. latest_commit \in [Keys -> TsOrEmpty]
    BY SameTable DEF ACInv, Plain!WriteInv, Plain!TypeOK
  <2>8. conn[v][r].ts # 0
    BY <2>3, LoopState, ConstantsAssumption DEF Timestamps
  <2>. QED  BY <2>4, <2>5, <2>6, <2>7, <2>8
<1>. QED  BY <1>1, <1>2, ServerMoves

\* The entry of worker w's loop for k is still to be updated.
UpdateDue(w, k) ==
    executor[w][ServerOf[k]].at = "update" /\ KeyAt(w, ServerOf[k]) = k

\* It stays so until it is.
LEMMA DueStays ==
    ASSUME ACInv, [ACNext]_acVars, NEW w \in Workers, NEW k \in Keys, UpdateDue(w, k)
    PROVE  UpdateDue(w, k)' \/ cache'[k].item.ts # 0
<1>. DEFINE s == ServerOf[k]
<1>0. s \in Servers
  BY ConstantsAssumption
<1>1. executor[w][s].at = "update" /\ KeyAt(w, s) = k
  BY DEF UpdateDue
<1>2. InLoop(w, s) /\ executor[w][s].i <= executor[w][s].n
  BY <1>0, <1>1, LoopInside
<1>3. executor[w][s].i \in DOMAIN items[s][conn[w][s].ts] /\ conn[w][s].type = "COMMIT"
  BY <1>0, <1>2, LoopKey, LoopState
<1>. HIDE DEF s
<1>4. CASE ServerStays(w, s)
  <2>1. executor'[w][s] = executor[w][s] /\ conn'[w][s] = conn[w][s]
    BY <1>3, <1>4 DEF ServerStays
  <2>2. KeyAt(w, s)' = KeyAt(w, s)
    BY <1>0, <1>2, <1>3, <2>1, LoopStays
  <2>. QED  BY <1>1, <2>1, <2>2 DEF UpdateDue, s
<1>5. CASE ExecutorKind(w, s)
  <2>1. Updates(w, s)
    BY <1>0, <1>1, <1>3, <1>5, CommitMoves
            DEF BeginsLoop, TestsNewer, TestsOlder, Stores, EndsLoop
  <2>. QED  BY <1>0, <1>1, <2>1, UpdateReaches DEF Updates
<1>. QED  BY <1>0, <1>4, <1>5, ServerMoves

\* Between timestamp and entry of a key there is a loop that stands at it.
LEMMA CachedStep ==
    ASSUME CommitAssigns, ACInv, CachedOK, [ACNext]_acVars
    PROVE  CachedOK'
<1>. SUFFICES ASSUME NEW k \in Keys, latest_commit'[k] # 0
              PROVE  cache'[k].item.ts # 0 \/ \E w \in Workers : UpdateDue(w, k)'
  BY DEF CachedOK, UpdateDue
<1>1. CASE latest_commit[k] # 0
  <2>1. cache[k].item.ts # 0 \/ \E w \in Workers : UpdateDue(w, k)
    BY <1>1 DEF CachedOK, UpdateDue
  <2>. QED  BY <2>1, DueStays, ReachedStep
<1>2. CASE latest_commit[k] = 0
  <2>1. PICK w \in Workers, s \in Servers :
               ExecutorKind(w, s) /\ Stores(w, s) /\ KeyAt(w, s) = k /\ ServerOf[k] = s
    BY <1>2, LatestStays
  <2>2. executor[w][s].at = "set" /\ conn'[w][s] = conn[w][s]
        /\ executor'[w][s].i = executor[w][s].i /\ executor'[w][s].at = "update"
    BY <2>1 DEF Stores
  <2>3. InLoop(w, s) /\ executor[w][s].i <= executor[w][s].n
    BY <2>2, LoopInside
  <2>4. executor[w][s].i \in DOMAIN items[s][conn[w][s].ts]
    BY <2>3, LoopKey
  <2>5. KeyAt(w, s)' = KeyAt(w, s)
    BY <2>2, <2>3, <2>4, LoopStays
  <2>. QED  BY <2>1, <2>2, <2>5 DEF UpdateDue
<1>. QED  BY <1>1, <1>2

\* How a step can move a worker that commits.
CommitterStep(v) ==
    pc'[v] = "commit" =>
        \/ BeginCommit(v)
        \/ /\ pc[v] = "commit" /\ trx'[v] = trx[v]
           /\ pending_coms'[v] = pending_coms[v] \/ \E s \in Servers : SendCommit(v, s)

\* No step moves one in another way.
LEMMA CommitterSteps ==
    ASSUME ACInv, [ACNext]_acVars, NEW v \in Workers
    PROVE  CommitterStep(v)
<1>0. Plain!TypeOK
  BY DEF ACInv, Plain!WriteInv
<1>. USE <1>0 DEF Plain!TypeOK
<1>1. CASE UNCHANGED acVars
  BY <1>1 DEF acVars, freshVars, vars, workerVars, CommitterStep
<1>2. CASE Terminating
  BY <1>2 DEF Terminating, vars, workerVars, CommitterStep
<1>3. ASSUME NEW w \in Workers,
             \/ Pop(w) \/ Exit(w) \/ Finish(w)
             \/ PutAll(w) \/ BeginCommit(w) \/ PutAllReturn(w)
             \/ GetAll(w) \/ CheckMissing(w) \/ GetAllReturn(w)
      PROVE  CommitterStep(v)
  <2>1. CASE Pop(w)
    BY <2>1 DEF Pop, CommitterStep
  <2>2. CASE Exit(w) \/ Finish(w)
    BY <2>2 DEF Exit, Finish, CommitterStep
  <2>3. CASE PutAll(w)
    BY <2>3 DEF PutAll, CommitterStep
  <2>4. CASE BeginCommit(w)
    <3>1. w # v => pc'[v] = pc[v] /\ trx'[v] = trx[v] /\ pending_coms'[v] = pending_coms[v]
      BY <2>4 DEF BeginCommit
    <3>. QED  BY <2>4, <3>1 DEF CommitterStep
  <2>5. CASE PutAllReturn(w)
    BY <2>5 DEF PutAllReturn, CommitterStep
  <2>6. CASE GetAll(w)
    BY <2>6 DEF GetAll, CommitterStep
  <2>7. CASE CheckMissing(w)
    BY <2>7 DEF CheckMissing, CommitterStep
  <2>8. CASE GetAllReturn(w)
    BY <2>8 DEF GetAllReturn, CommitterStep
  <2>. QED  BY <1>3, <2>1, <2>2, <2>3, <2>4, <2>5, <2>6, <2>7, <2>8
<1>4. ASSUME NEW w \in Workers, NEW k \in Keys,
             SendPrepare(w, k) \/ SendGet(w, k) \/ SendGetWithAddr(w, k) \/ ReadFlag(w, k)
      PROVE  CommitterStep(v)
  <2>1. UNCHANGED <<pc, trx, pending_coms>>
    BY <1>4 DEF SendPrepare, SendGet, SendGetWithAddr, ReadFlag, Start
  <2>. QED  BY <2>1 DEF CommitterStep
<1>5. ASSUME NEW w \in Workers, NEW s \in Servers, SendCommit(w, s)
      PROVE  CommitterStep(v)
  <2>1. UNCHANGED <<pc, trx>> /\ (w # v => pending_coms'[v] = pending_coms[v])
    BY <1>5 DEF SendCommit
  <2>. QED  BY <1>5, <2>1 DEF CommitterStep
<1>6. ASSUME NEW w \in Workers, NEW s \in Servers,
             \/ RecvDone(w, s) \/ RecvResult(w, s) \/ RecvItemAndAddr(w, s) \/ SendClose(w, s)
             \/ Get(w, s) \/ GetItemAndAddr(w, s) \/ HandleClose(w, s)
             \/ CopyPart(w, s) \/ ReadItem(w, s) \/ ReadGarbage(w, s)
      PROVE  CommitterStep(v)
  <2>1. UNCHANGED <<pc, trx, pending_coms>>
    BY <1>6 DEF RecvDone, RecvResult, RecvItemAndAddr, SendClose, Get, GetItemAndAddr, HandleClose,
                CopyPart, ReadItem, ReadGarbage, workerVars
  <2>. QED  BY <2>1 DEF CommitterStep
<1>7. ASSUME NEW w \in Workers, NEW s \in Servers,
             \/ PrepareItem(w, s) \/ CommitBegin(w, s) \/ CommitTest(w, s) \/ CommitDone(w, s)
             \/ SetLatest(w, s) \/ Invalidate(w, s) \/ Update(w, s)
      PROVE  CommitterStep(v)
  <2>1. UNCHANGED <<pc, trx, pending_coms>>
    BY <1>7 DEF PrepareItem, CommitBegin, CommitTest, CommitDone, SetLatest, Invalidate, Update,
                workerVars
  <2>. QED  BY <2>1 DEF CommitterStep
<1>. QED  BY <1>1, <1>2, <1>3, <1>4, <1>5, <1>6, <1>7 DEF ACNext, InheritedStep, CacheStep

\* A COMMIT that is received begins its loop, in front of every key.
LEMMA SentMoves ==
    ASSUME ACInv, [ACNext]_acVars, NEW v \in Workers, pc[v] = "commit",
           NEW k \in WriteSet[trx[v]], Sent(v, k)
    PROVE  Sent(v, k)' \/ Ahead(v, k)'
<1>. DEFINE s == ServerOf[k]
            ts == conn[v][s].ts
<1>0. Plain!TypeOK /\ Plain!ControlOK /\ Plain!MessagesOK /\ Plain!CommitOK
  BY DEF ACInv, Plain!WriteInv
<1>1. trx[v] \in Trxs /\ trx_ts[trx[v]] # 0
  BY <1>0 DEF Plain!ControlOK, Plain!Running
<1>2. k \in Keys /\ s \in Servers
  BY <1>1, ConstantsAssumption
<1>3. conn[v][s].type = "COMMIT" /\ ~ InLoop(v, s)
  BY DEF Sent
<1>4. PlainConn[v][s] = conn[v][s]
  BY <1>2, <1>3, PlainPoint, PlainMessages
<1>5. ts = trx_ts[trx[v]]
  BY <1>0, <1>2, <1>3, <1>4 DEF Plain!MessagesOK
<1>6. CASE ServerStays(v, s)
  BY <1>3, <1>6 DEF ServerStays, Sent, InLoop
<1>7. CASE ExecutorKind(v, s)
  <2>1. BeginsLoop(v, s)
    BY <1>2, <1>3, <1>7, CommitMoves
            DEF InLoop, TestsNewer, TestsOlder, Stores, Updates, EndsLoop
  <2>2. Plain!Holds(trx[v], k)
    BY <1>0 DEF Plain!CommitOK, Plain!Prepared
  <2>3. PICK j \in DOMAIN items[s][ts] : items[s][ts][j] = Plain!ItemOf(trx[v], k)
    BY <1>5, <2>2 DEF Plain!Holds
  <2>4. items[s][ts][j].key = k
    BY <2>3 DEF Plain!ItemOf
  <2>5. ts \in Timestamps /\ items[s][ts] \in Seq(Item)
    <3>1. trx_ts[trx[v]] \in TsOrEmpty
      BY <1>0, <1>1, SameTable DEF Plain!TypeOK
    <3>2. ts \in Timestamps
      BY <1>1, <1>5, <3>1, ConstantsAssumption DEF TsOrEmpty, Timestamps
    <3>. QED  BY <1>0, <1>2, <3>2, SameTable DEF Plain!TypeOK
  <2>6. j \in 1..Len(items[s][ts]) /\ Len(items[s][ts]) \in Nat
    <3>1. j \in DOMAIN items[s][ts]
      OBVIOUS
    <3>. HIDE DEF s, ts
    <3>. QED  BY <2>5, <3>1
  <2>7. j \in DOMAIN items'[s][ts] /\ items'[s][ts][j] = items[s][ts][j]
    BY <1>2, <2>3, <2>5, ACStable, SameTable DEF Plain!Stable, Plain!Grows
  <2>8. /\ executor'[v][s].at = "test" /\ executor'[v][s].i = 1 /\ conn'[v][s].ts = ts
        /\ executor'[v][s].n = Len(items[s][ts])
    BY <2>1 DEF BeginsLoop
  <2>9. executor'[v][s].i <= j /\ j <= executor'[v][s].n
    <3>. HIDE DEF s, ts
    <3>. QED  BY <2>6, <2>8
  <2>. QED  BY <2>4, <2>7, <2>8, <2>9 DEF Ahead, InLoop
<1>. QED  BY <1>2, <1>6, <1>7, ServerMoves

\* A loop that finds the timestamp of a key taken finds its own put there, or
\* someone else's that is past the entry, since no other writes the key.
LEMMA TakenIsReached ==
    ASSUME ACInv, CachedOK, NEW v \in Workers, NEW k \in Once, k \in WriteSet[trx[v]],
           pc[v] = "commit", executor[v][ServerOf[k]].at # "update", latest_commit[k] # 0
    PROVE  Reached(k)
<1>1. k \in Keys /\ WrittenOnce(k) /\ ServerOf[k] \in Servers
  BY ConstantsAssumption DEF Once
<1>2. ASSUME NEW w \in Workers, executor[w][ServerOf[k]].at = "update", KeyAt(w, ServerOf[k]) = k
      PROVE  FALSE
  <2>. DEFINE r == ServerOf[k]
  <2>0. r \in Servers /\ executor[w][r].at = "update"
    BY <1>1, <1>2
  <2>1. pc[w] = "commit" /\ trx[w] \in Trxs /\ k \in WriteSet[trx[w]]
    <3>1. InLoop(w, r) /\ executor[w][r].i <= executor[w][r].n
      BY <2>0, LoopInside
    <3>2. KeyAt(w, r) \in WriteSet[trx[w]]
      BY <2>0, <3>1, LoopKey
    <3>3. pc[w] = "commit" /\ trx[w] \in Trxs
      BY <2>0, <3>1, LoopState
    <3>. QED  BY <1>2, <3>2, <3>3
  <2>2. Plain!ControlOK
    BY DEF ACInv, Plain!WriteInv
  <2>3. trx[v] \in Trxs
    BY <2>2 DEF Plain!ControlOK, Plain!Running
  <2>4. trx[v] = trx[w]
    BY <1>1, <2>1, <2>3 DEF WrittenOnce
  <2>5. v = w
    BY <2>1, <2>2, <2>4 DEF Plain!ControlOK, Plain!Running
  <2>. QED  BY <1>2, <2>5
<1>. QED  BY <1>1, <1>2 DEF CachedOK, Reached

\* A loop passes a key when table and cache have come to it.
LEMMA AheadMoves ==
    ASSUME CommitAssigns, ACInv, UpdatingOK, CachedOK, [ACNext]_acVars,
           NEW v \in Workers, pc[v] = "commit", NEW k \in Once, k \in WriteSet[trx[v]],
           Ahead(v, k)
    PROVE  Ahead(v, k)' \/ Reached(k)'
<1>. DEFINE s == ServerOf[k]
            ts == conn[v][s].ts
            e == executor[v][s]
<1>0. k \in Keys /\ s \in Servers
  BY ConstantsAssumption DEF Once
<1>1. InLoop(v, s)
  BY DEF Ahead
<1>2. PICK j \in DOMAIN items[s][ts] : e.i <= j /\ j <= e.n /\ items[s][ts][j].key = k
  BY DEF Ahead
<1>3. /\ conn[v][s].type = "COMMIT" /\ ts \in Timestamps /\ items[s][ts] \in Seq(Item)
      /\ e \in ACExecutorState
  BY <1>0, <1>1, LoopState
<1>4. j \in Nat /\ e.i \in Nat /\ e.n \in Nat /\ e.i <= e.n
  <2>1. e.i \in Nat /\ e.n \in Nat
    BY <1>3 DEF ACExecutorState
  <2>2. j \in Nat
    <3>. HIDE DEF s, ts
    <3>. QED  BY <1>3
  <2>. HIDE DEF e
  <2>. QED  BY <1>2, <2>1, <2>2
<1>5. ASSUME conn'[v][s] = conn[v][s], InLoop(v, s)', executor'[v][s].i <= j,
             executor'[v][s].n = e.n
      PROVE  Ahead(v, k)'
  <2>1. j \in DOMAIN items'[s][conn'[v][s].ts] /\ items'[s][conn'[v][s].ts][j].key = k
    BY <1>0, <1>1, <1>2, <1>5, LoopStays
  <2>. QED  BY <1>2, <1>5, <2>1 DEF Ahead
<1>6. ASSUME e.i = j
      PROVE  KeyAt(v, s) = k
  BY <1>2, <1>6 DEF KeyAt, ItemAt
<1>7. CASE ServerStays(v, s)
  <2>1. conn'[v][s] = conn[v][s] /\ executor'[v][s] = e
    BY <1>3, <1>7 DEF ServerStays
  <2>. QED  BY <1>1, <1>2, <1>5, <2>1 DEF InLoop
<1>8. CASE ExecutorKind(v, s)
  <2>1. CASE TestsNewer(v, s) \/ Stores(v, s)
    <3>1. /\ conn'[v][s] = conn[v][s] /\ executor'[v][s].at \in {"set", "update"}
          /\ executor'[v][s].i = e.i /\ executor'[v][s].n = e.n
      BY <2>1 DEF TestsNewer, Stores
    <3>. QED  BY <1>2, <1>5, <3>1 DEF InLoop
  <2>2. CASE TestsOlder(v, s) \/ Updates(v, s)
    <3>1. /\ conn'[v][s] = conn[v][s] /\ executor'[v][s].at = "test"
          /\ executor'[v][s].i = e.i + 1 /\ executor'[v][s].n = e.n
      BY <2>2 DEF TestsOlder, Updates
    <3>2. CASE e.i # j
      <4>1. executor'[v][s].i <= j
        <5>. HIDE DEF e
        <5>. QED  BY <1>2, <1>4, <3>1, <3>2
      <4>. QED  BY <1>5, <3>1, <4>1 DEF InLoop
    <3>3. CASE e.i = j /\ TestsOlder(v, s)
      <4>1. ~ IsNewer(k, ts) /\ e.at = "test"
        BY <1>6, <3>3 DEF TestsOlder
      <4>2. latest_commit[k] # 0
        BY <1>3, <4>1, ConstantsAssumption DEF IsNewer, Timestamps
      <4>3. Reached(k)
        BY <4>1, <4>2, TakenIsReached
      <4>. QED  BY <1>0, <4>3, ReachedStep
    <3>4. CASE e.i = j /\ Updates(v, s)
      <4>1. Update(v, s) /\ e.at = "update" /\ KeyAt(v, s) = k
        BY <1>6, <3>4 DEF Updates
      <4>2. latest_commit[k] # 0
        BY <1>0, <4>1 DEF UpdatingOK
      <4>. QED  BY <1>0, <4>1, <4>2, UpdateReaches DEF Reached
    <3>. QED  BY <2>2, <3>2, <3>3, <3>4
  <2>3. CASE EndsLoop(v, s)
    <3>1. e.i > e.n
      BY <2>3 DEF EndsLoop
    <3>. HIDE DEF e
    <3>. QED  BY <1>4, <3>1
  <2>4. ~ BeginsLoop(v, s)
    BY <1>1 DEF InLoop, BeginsLoop
  <2>. QED  BY <1>0, <1>3, <1>8, <2>1, <2>2, <2>3, <2>4, CommitMoves
<1>. QED  BY <1>0, <1>7, <1>8, ServerMoves

\* Every step keeps the keys of a committing put still to be sent to, under
\* way, ahead of their loops, or come to.
LEMMA ACCommittingStep ==
    ASSUME CommitAssigns, ACInv, UpdatingOK, CachedOK, CommittingOK, [ACNext]_acVars
    PROVE  CommittingOK'
<1>. SUFFICES ASSUME NEW v \in Workers, pc'[v] = "commit", NEW k \in WriteSet[trx'[v]] \cap Once
              PROVE  \/ ServerOf[k] \in pending_coms'[v]
                     \/ Sent(v, k)' \/ Ahead(v, k)' \/ Reached(k)'
  BY DEF CommittingOK, Once, WrittenOnce
<1>. DEFINE s == ServerOf[k]
<1>0. /\ k \in Keys /\ s \in Servers
      /\ Plain!TypeOK /\ Plain!AccessOK /\ Plain!PendingOK /\ ACTypeOK
  BY ConstantsAssumption DEF Once, ACInv, Plain!WriteInv
<1>1. CASE BeginCommit(v)
  <2>1. /\ pc[v] = "prepare" /\ todo[v] = {} /\ trx' = trx
        /\ pending_coms' = [pending_coms EXCEPT ![v] = access_coms[v]]
    BY <1>1 DEF BeginCommit, AllAnswered
  <2>2. s \in access_coms[v]
    BY <1>0, <2>1 DEF Plain!AccessOK
  <2>. QED  BY <1>0, <2>1, <2>2 DEF Plain!TypeOK
<1>2. CASE /\ pc[v] = "commit" /\ trx'[v] = trx[v]
           /\ pending_coms'[v] = pending_coms[v] \/ \E r \in Servers : SendCommit(v, r)
  <2>1. CASE s \in pending_coms[v]
    <3>1. CASE pending_coms'[v] = pending_coms[v]
      BY <2>1, <3>1
    <3>2. ASSUME NEW r \in Servers, SendCommit(v, r)
          PROVE  s \in pending_coms'[v] \/ Sent(v, k)'
      <4>1. pending_coms' = [pending_coms EXCEPT ![v] = @ \ {r}] /\ executor' = executor
              /\ Send(v, r, Commit(trx_ts[trx[v]]))
        BY <3>2 DEF SendCommit
      <4>2. CASE r # s
        BY <1>0, <2>1, <4>1, <4>2 DEF Plain!TypeOK
      <4>3. CASE r = s
        <5>1. conn'[v][s] = Commit(trx_ts[trx[v]])
          BY <1>0, <4>1, <4>3 DEF Send, ACTypeOK
        <5>2. PlainConn[v][s] = NoMsg
          BY <1>0, <1>2, <2>1, SameMessages DEF Plain!PendingOK
        <5>3. ~ InLoop(v, s)
          <6>1. InLoop(v, s) => PlainConn[v][s].type = "COMMIT"
            BY <1>0, LoopState
          <6>. QED  BY <5>2, <6>1 DEF NoMsg
        <5>. QED  BY <4>1, <5>1, <5>3 DEF Sent, InLoop, Commit
      <4>. QED  BY <4>2, <4>3
    <3>. QED  BY <1>2, <3>1, <3>2
  <2>2. CASE Sent(v, k)
    BY <1>2, <2>2, SentMoves
  <2>3. CASE Ahead(v, k)
    BY <1>2, <2>3, AheadMoves
  <2>4. CASE Reached(k)
    BY <1>0, <2>4, ReachedStep
  <2>. QED  BY <1>2, <2>1, <2>2, <2>3, <2>4 DEF CommittingOK
<1>. QED  BY <1>1, <1>2, CommitterSteps DEF CommitterStep

\* put_all returns when every COMMIT is answered: nothing is sent or ahead.
LEMMA ACReturnedPutsStep ==
    ASSUME CommitAssigns, ACInv, CommittingOK, ReturnedPutsOK, [ACNext]_acVars
    PROVE  ReturnedPutsOK'
<1>. SUFFICES ASSUME NEW t \in Trxs, PutReturned(t)', NEW k \in WriteSet[t] \cap Once
              PROVE  Reached(k)'
  BY DEF ReturnedPutsOK, Once, WrittenOnce
<1>0. k \in Keys /\ ServerOf[k] \in Servers
  BY ConstantsAssumption DEF Once
<1>1. PICK W \in SUBSET Workers : W = Intact'
  BY DEF Intact
<1>6. /\ Plain!TypeOK /\ Plain!MessagesOK /\ Plain!ControlOK
      /\ [Plain!LooseNext(W)]_(Plain!vars)
  BY <1>1, SimulationStep DEF ACInv, Plain!WriteInv
<1>2. Plain!PutReturned(t)'
  BY DEF PutReturned, Plain!PutReturned
<1>3. \/ Plain!PutReturned(t)
      \/ \E w \in Workers : Plain!PutAllReturn(w) /\ trx[w] = t
  BY <1>2, <1>6, ConstantsAssumption, Plain!LoosePutReturns
<1>4. CASE Plain!PutReturned(t)
  <2>1. PutReturned(t)
    BY <1>4 DEF PutReturned, Plain!PutReturned
  <2>2. Reached(k)
    BY <2>1 DEF ReturnedPutsOK
  <2>. QED  BY <1>0, <2>2, ReachedStep
<1>5. ASSUME NEW w \in Workers, Plain!PutAllReturn(w), trx[w] = t
      PROVE  Reached(k)'
  <2>1. pc[w] = "commit" /\ pending_coms[w] = {} /\ PlainConn[w][ServerOf[k]] = NoMsg
    BY <1>0, <1>5, SameMessages DEF Plain!PutAllReturn, Plain!Idle
  <2>2. conn[w][ServerOf[k]].type # "COMMIT"
    <3>1. conn[w][ServerOf[k]].type = "COMMIT" =>
             PlainConn[w][ServerOf[k]] = conn[w][ServerOf[k]]
      BY <1>0, PlainPoint, PlainMessages
    <3>. QED  BY <2>1, <3>1 DEF NoMsg
  <2>3. ~ Sent(w, k) /\ ~ Ahead(w, k)
    BY <1>0, <2>2, LoopState DEF Sent, Ahead
  <2>4. Reached(k)
    BY <1>5, <2>1, <2>3 DEF CommittingOK
  <2>. QED  BY <1>0, <2>4, ReachedStep
<1>. QED  BY <1>3, <1>4, <1>5

\* What get_all records for a key is nothing, or of a put that has returned.
LEMMA NewestIsReturned ==
    ASSUME ACInv, NEW k \in Keys
    PROVE  \/ NewestReturnedPut(k) = 0
           \/ \E t \in Trxs : /\ k \in WriteSet[t] /\ PutReturned(t)
                              /\ NewestReturnedPut(k) = trx_ts[t]
<1>. DEFINE P == {trx_ts[t] : t \in {u \in Trxs : k \in WriteSet[u] /\ PutReturned(u)}}
            S == {0} \cup P
<1>1. \A t \in Trxs : trx_ts[t] \in TsOrEmpty
  BY SameTable DEF ACInv, Plain!WriteInv, Plain!TypeOK
<1>2. P \subseteq TsOrEmpty
  BY <1>1
<1>3. S \subseteq 0..MaxTs /\ S # {} /\ MaxTs \in Nat
  BY <1>2, ConstantsAssumption DEF TsOrEmpty
<1>4. NewestReturnedPut(k) = Max(S)
  BY DEF NewestReturnedPut
<1>. HIDE DEF S
<1>5. Plain!Max(S) \in S
  BY <1>3, ConstantsAssumption, Plain!MaxInSet
<1>6. Max(S) \in S
  BY <1>5 DEF Max, Plain!Max
<1>. QED  BY <1>4, <1>6 DEF S

\* What a get has recorded stays with the key that it is about.
LEMMA RecordedStep ==
    ASSUME CommitAssigns, ACInv, ReturnedPutsOK, RecordedOK, [ACNext]_acVars
    PROVE  RecordedOK'
<1>. SUFFICES ASSUME NEW v \in Workers, NEW k \in Once, floor'[v][k] # 0
              PROVE  /\ Reached(k)'
                     /\ \E t \in Trxs : k \in WriteSet[t] /\ floor'[v][k] = trx_ts'[t]
  BY DEF RecordedOK, Once, WrittenOnce
<1>1. k \in Keys
  BY DEF Once
<1>2. floor'[v][k] = floor[v][k] \/ floor'[v][k] = NewestReturnedPut(k)
  <2>1. CASE Record
    BY <1>1, <2>1 DEF Record
  <2>2. CASE UNCHANGED acVars
    BY <2>2 DEF acVars, freshVars
  <2>. QED  BY <2>1, <2>2 DEF ACNext
<1>3. Reached(k) /\ \E t \in Trxs : k \in WriteSet[t] /\ floor'[v][k] = trx_ts[t]
  <2>1. CASE floor'[v][k] = floor[v][k]
    BY <2>1 DEF RecordedOK
  <2>2. CASE floor'[v][k] = NewestReturnedPut(k)
    BY <1>1, <2>2, NewestIsReturned DEF ReturnedPutsOK
  <2>. QED  BY <1>2, <2>1, <2>2
<1>4. \A t \in Trxs : trx_ts[t] # 0 => trx_ts'[t] = trx_ts[t]
  BY ACStable DEF Plain!Stable
<1>. QED  BY <1>1, <1>3, <1>4, ReachedStep

\* Where a get has recorded a timestamp, the table has that one.
LEMMA RecordedIsLatest ==
    ASSUME ACInv, RecordedOK
    PROVE  Plain!FloorOK(Once)
<1>. SUFFICES ASSUME NEW w \in Workers, NEW k \in Once
              PROVE  floor[w][k] \in TsOrEmpty /\ latest_commit[k] >= floor[w][k]
  BY SameTable DEF Plain!FloorOK
<1>0. /\ k \in Keys /\ WrittenOnce(k)
      /\ trx_ts \in [Trxs -> TsOrEmpty] /\ latest_commit[k] \in TsOrEmpty
      /\ Plain!VisibleIsPrepared
  BY SameTable DEF Once, ACInv, Plain!WriteInv, Plain!TypeOK
<1>1. CASE floor[w][k] = 0
  BY <1>0, <1>1, ConstantsAssumption DEF TsOrEmpty
<1>2. CASE floor[w][k] # 0
  <2>1. Reached(k) /\ \E t \in Trxs : k \in WriteSet[t] /\ floor[w][k] = trx_ts[t]
    BY <1>2 DEF RecordedOK
  <2>2. PICK t \in Trxs : k \in WriteSet[t] /\ floor[w][k] = trx_ts[t]
    BY <2>1
  <2>3. PICK u \in Trxs : trx_ts[u] = latest_commit[k] /\ k \in WriteSet[u]
    BY <1>0, <2>1 DEF Reached, Plain!VisibleIsPrepared
  <2>4. t = u
    BY <1>0, <2>2, <2>3 DEF WrittenOnce
  <2>5. floor[w][k] = latest_commit[k]
    BY <2>2, <2>3, <2>4
  <2>. QED  BY <1>0, <2>5, ConstantsAssumption DEF TsOrEmpty
<1>. QED  BY <1>1, <1>2

\* And so has the cache.
LEMMA EntryIsRecent ==
    ASSUME ACInv, RecordedOK, NEW w \in Workers, NEW k \in Once
    PROVE  cache[k].item.ts >= floor[w][k]
<1>. DEFINE item == cache[k].item
<1>0. /\ k \in Keys /\ WrittenOnce(k) /\ trx_ts \in [Trxs -> TsOrEmpty]
      /\ item.ts \in TsOrEmpty /\ Plain!Readable(k, item)
  BY SameTable DEF Once, ACInv, ACTypeOK, CacheOK, Item, Plain!WriteInv, Plain!TypeOK
<1>1. CASE floor[w][k] = 0
  BY <1>0, <1>1, ConstantsAssumption DEF TsOrEmpty
<1>2. CASE floor[w][k] # 0
  <2>1. item.ts # 0 /\ \E t \in Trxs : k \in WriteSet[t] /\ floor[w][k] = trx_ts[t]
    BY <1>2 DEF RecordedOK, Reached
  <2>2. PICK t \in Trxs : k \in WriteSet[t] /\ floor[w][k] = trx_ts[t]
    BY <2>1
  <2>3. PICK u \in Trxs : k \in WriteSet[u] /\ item = Plain!ItemOf(u, k)
    <3>1. item # Plain!EmptyItem
      BY <2>1 DEF Plain!EmptyItem
    <3>. QED  BY <1>0, <3>1 DEF Plain!Readable
  <2>4. t = u
    BY <1>0, <2>2, <2>3 DEF WrittenOnce
  <2>5. item.ts = floor[w][k]
    BY <2>2, <2>3, <2>4 DEF Plain!ItemOf
  <2>. QED  BY <1>0, <2>5, ConstantsAssumption DEF TsOrEmpty
<1>. QED  BY <1>1, <1>2

\* And so has every item that an executor is writing there: it is of the one
\* transaction that writes the key.
LEMMA PartIsRecent ==
    ASSUME ACInv, RecordedOK, NEW w \in Workers, NEW k \in Once, NEW item \in Parts(k)
    PROVE  item.ts >= floor[w][k]
<1>. DEFINE s == ServerOf[k]
<1>0. k \in Keys /\ WrittenOnce(k) /\ s \in Servers /\ trx_ts \in [Trxs -> TsOrEmpty]
  BY SameTable, ConstantsAssumption DEF Once, ACInv, Plain!WriteInv, Plain!TypeOK
<1>1. CASE item = cache[k].item
  BY <1>1, EntryIsRecent
<1>2. CASE item \in Updating(k)
  <2>1. PICK v \in Workers : /\ executor[v][s].at = "update" /\ ItemAt(v, s).key = k
                             /\ item = ItemAt(v, s)
    BY <1>2 DEF Updating
  <2>. HIDE DEF s
  <2>2. trx[v] \in Trxs /\ k \in WriteSet[trx[v]] /\ item.ts = trx_ts[trx[v]]
    <3>1. /\ trx[v] \in Trxs /\ ItemAt(v, s).key \in WriteSet[trx[v]]
          /\ ItemAt(v, s).ts = trx_ts[trx[v]]
      <4>1. s \in Servers /\ executor[v][s].at = "update"
        BY <1>0, <2>1
      <4>2. /\ trx[v] \in Trxs /\ ItemAt(v, s).key \in WriteSet[trx[v]]
            /\ ItemAt(v, s).ts = conn[v][s].ts /\ conn[v][s].ts = trx_ts[trx[v]]
        BY <4>1, UpdatedItem DEF ItemAt
      <4>. QED  BY <4>2
    <3>. QED  BY <2>1, <3>1
  <2>3. item.ts \in TsOrEmpty
    BY <1>0, <2>2
  <2>4. CASE floor[w][k] = 0
    BY <2>3, <2>4, ConstantsAssumption DEF TsOrEmpty
  <2>5. CASE floor[w][k] # 0
    <3>1. PICK t \in Trxs : k \in WriteSet[t] /\ floor[w][k] = trx_ts[t]
      BY <2>5 DEF RecordedOK
    <3>2. t = trx[v]
      BY <1>0, <2>2, <3>1 DEF WrittenOnce
    <3>. QED  BY <2>2, <2>3, <3>1, <3>2, ConstantsAssumption DEF TsOrEmpty
  <2>. QED  BY <2>4, <2>5
<1>. QED  BY <1>1, <1>2 DEF Parts

\* Only get_all records.
LEMMA ACRecorded ==
    ASSUME ACInv, [ACNext]_acVars
    PROVE  Plain!Recorded
<1>1. \A k : Plain!NewestReturnedPut(k) = NewestReturnedPut(k)
  <2>1. \A t : Plain!PutReturned(t) <=> PutReturned(t)
    BY DEF PutReturned, Plain!PutReturned
  <2>. QED  BY <2>1 DEF NewestReturnedPut, Plain!NewestReturnedPut, Max, Plain!Max
<1>2. CASE Record
  BY <1>1, <1>2 DEF Record, Plain!Recorded
<1>3. CASE UNCHANGED acVars
  BY <1>3 DEF acVars, freshVars, vars, workerVars, Plain!Recorded
<1>. QED  BY <1>2, <1>3 DEF ACNext

\* The parts that the read of one connection has copied.
FreshSeenAt(v, r) ==
    conn[v][r].type = "READ" /\ conn[v][r].key \in Once =>
        \A item \in conn[v][r].seen : item.ts >= floor[v][conn[v][r].key]

\* They stay as new as what the get recorded.
LEMMA FreshSeenStep ==
    ASSUME ACInv, RecordedOK, FreshSeenOK, [ACNext]_acVars
    PROVE  FreshSeenOK'
<1>. SUFFICES ASSUME NEW v \in Workers, NEW r \in Servers
              PROVE  FreshSeenAt(v, r)'
  BY DEF FreshSeenOK, FreshSeenAt, Once, WrittenOnce
<1>0. /\ FreshSeenAt(v, r) /\ conn \in [Workers -> [Servers -> ACMessage]]
      /\ Once' = Once
  BY DEF ACInv, ACTypeOK, FreshSeenOK, FreshSeenAt, Once, WrittenOnce
<1>1. conn[v][r].type = "READ" => pc[v] = "round1"
  BY DEF ACInv, SeenOK
<1>2. pc[v] # "get_all" => floor'[v] = floor[v]
  BY ACRecorded DEF Plain!Recorded
<1>3. CASE conn'[v][r] = conn[v][r]
  BY <1>0, <1>1, <1>2, <1>3 DEF FreshSeenAt
<1>4. CASE conn'[v][r].type # "READ"
  BY <1>4 DEF FreshSeenAt
<1>5. CASE WorkerKind
  BY <1>3, <1>5 DEF WorkerKind
<1>6. ASSUME NEW w \in Workers, NEW s \in Servers, SendKind(w, s)
      PROVE  FreshSeenAt(v, r)'
  <2>1. PICK m \in ACMessage : /\ Send(w, s, m)
                               /\ m.type = "READ" => pc[w] = "round1" /\ Copied(w, s, m)
    BY <1>6 DEF SendKind
  <2>2. CASE v # w \/ r # s
    BY <1>0, <1>3, <2>1, <2>2 DEF Send
  <2>3. CASE v = w /\ r = s
    <3>1. conn'[v][r] = m
      BY <1>0, <2>1, <2>3 DEF Send
    <3>2. ASSUME m.type = "READ", m.key \in Once, NEW item \in m.seen
          PROVE  item.ts >= floor'[v][m.key]
      <4>1. pc[v] = "round1" /\ Copied(v, r, m)
        BY <2>1, <2>3, <3>2
      <4>2. floor'[v] = floor[v]
        BY <1>2, <4>1
      <4>3. item.ts >= floor[v][m.key]
        BY <1>0, <3>2, <4>1, PartIsRecent DEF Copied, FreshSeenAt
      <4>. QED  BY <4>2, <4>3
    <3>. QED  BY <1>0, <3>1, <3>2 DEF FreshSeenAt
  <2>. QED  BY <2>2, <2>3
<1>7. ASSUME NEW w \in Workers, NEW s \in Servers, ExecutorKind(w, s)
      PROVE  FreshSeenAt(v, r)'
  <2>1. conn' = conn \/ conn' = [conn EXCEPT ![w][s] = Done]
                    \/ conn' = [conn EXCEPT ![w][s] = NoMsg]
    BY <1>7 DEF ExecutorKind, Invalidate, Update, PrepareItem, SetLatest, HandleClose,
                CommitBegin, CommitTest, CommitDone, Send
  <2>2. conn'[v][r] = conn[v][r] \/ conn'[v][r] = Done \/ conn'[v][r] = NoMsg
    BY <1>0, <2>1
  <2>3. Done.type # "READ" /\ NoMsg.type # "READ"
    BY DEF Done, NoMsg
  <2>. QED  BY <1>3, <1>4, <2>2, <2>3
<1>. QED  BY <1>5, <1>6, <1>7, Kinds

\* An answer that was copied from one item is as new as its parts.
LEMMA ReadIsFresh ==
    ASSUME ACInv, FreshSeenOK, NEW w \in Workers, NEW s \in Servers, ReadItem(w, s),
           w \notin torn', PlainConn[w][s].key \in Once
    PROVE  PlainConn'[w][s].item.ts >= floor[w][PlainConn[w][s].key]
<1>. DEFINE k == conn[w][s].key
            seen == conn[w][s].seen
<1>1. conn[w][s].type = "READ" /\ conn[w][s] \in ACMessage /\ Whole(seen)
  BY DEF ReadItem, ACInv, ACTypeOK
<1>2. PlainConn[w][s].key = k
  BY <1>1, PlainPoint, PlainMessages
<1>3. seen \in SUBSET Item
  BY <1>1, ACMessageFields
<1>4. PICK item \in Mixtures(seen) : Send(w, s, Result(k, item)) /\ executor' = executor
  BY DEF ReadItem
<1>5. item.ts >= floor[w][k]
  BY <1>1, <1>2, <1>3, MixtureItem DEF FreshSeenOK
<1>6. PlainConn'[w][s] = Result(k, item)
  <2>1. PICK m : m = Result(k, item)
    OBVIOUS
  <2>2. PlainMessage(m, executor[w][s]) = m
    BY <2>1, PlainMessages DEF Result
  <2>3. PlainConn' = [PlainConn EXCEPT ![w][s] = m]
    BY <1>4, <2>1, <2>2, PlainSend DEF ACInv
  <2>. QED  BY <2>1, <2>3 DEF PlainConn
<1>. QED  BY <1>2, <1>5, <1>6 DEF Result

\* Answers and what was read of them stay as new as what the get recorded: the
\* executor answers from the table, the adapter from the cache.
LEMMA ACReadersStep ==
    ASSUME ACInv, RecordedOK, FreshSeenOK, Plain!FreshGets(Once, Intact), [ACNext]_acVars
    PROVE  Plain!FreshGets(Once, Intact)'
<1>0. /\ Plain!TypeOK /\ Plain!ControlOK /\ Plain!MessagesOK /\ Plain!UniqueTs
      /\ Plain!ItemsOK /\ Plain!VisibleIsPrepared
      /\ Plain!FloorOK(Once) /\ Plain!Recorded /\ Once \in SUBSET Keys
  BY RecordedIsLatest, ACRecorded DEF Once, ACInv, Plain!WriteInv
<1>1. PICK K \in SUBSET Keys : K = Once /\ K = Once'
  BY <1>0 DEF Once, WrittenOnce
<1>2. PICK V \in SUBSET Workers, W \in SUBSET Workers : V = Intact /\ W = Intact'
  BY DEF Intact
<1>3. PICK U \in SUBSET Workers, S \in SUBSET Workers : U = V \cap W /\ S = W \ V
  OBVIOUS
<1>4. /\ Plain!FloorOK(K) /\ Plain!FreshAnswersOK(K, U) /\ Plain!FreshRoundsOK(K, U)
      /\ Plain!FreshReadsOf(K, U)
  <2>1. Plain!FreshGets(K, V) /\ Plain!FloorOK(K)
    BY <1>0, <1>1, <1>2
  <2>. QED  BY <1>3, <2>1 DEF Plain!FreshGets, Plain!FreshAnswersOK, Plain!FreshRoundsOK,
                              Plain!FreshReadsOf
<1>5. Plain!LatestOK(U) /\ Plain!RequestsOK(U)
  <2>1. Plain!LatestOK(V) /\ Plain!RequestsOK(V)
    BY <1>2 DEF ACInv, Plain!ReadInv
  <2>. QED  BY <1>3, <2>1 DEF Plain!LatestOK, Plain!RequestsOK
<1>. DEFINE StayFresh == /\ Plain!FreshAnswersOK(K, U)' /\ Plain!FreshRoundsOK(K, U)'
                         /\ Plain!FreshReadsOf(K, U)'
<1>6. ASSUME [Plain!Next]_(Plain!vars)
      PROVE  StayFresh
  <2>1. Plain!FreshAnswersOK(K, U)'
    BY <1>0, <1>4, <1>5, <1>6, ConstantsAssumption, Plain!FreshAnswersStep
  <2>2. Plain!FreshRoundsOK(K, U)'
    BY <1>0, <1>4, <1>6, ConstantsAssumption, Plain!FreshRoundsStep
  <2>3. Plain!FreshReadsOf(K, U)'
    BY <1>0, <1>4, <1>6, ConstantsAssumption, Plain!FreshReadsStep
  <2>. QED  BY <2>1, <2>2, <2>3
<1>7. ASSUME NEW w \in Workers, NEW s \in Servers, ReadItem(w, s)
      PROVE  StayFresh
  <2>1. Plain!AnswerGet(w, s, U)
    <3>1. Plain!AnswerGet(w, s, W)
      BY <1>2, <1>7, ReadSteps
    <3>. QED  BY <1>3, <3>1 DEF Plain!AnswerGet
  <2>2. w \in U /\ PlainConn[w][s].key \in K =>
           PlainConn'[w][s].item.ts >= floor[w][PlainConn[w][s].key]
    BY <1>1, <1>2, <1>3, <1>7, ReadIsFresh DEF Intact
  <2>. QED  BY <1>0, <1>4, <2>1, <2>2, ConstantsAssumption, Plain!FreshAnswer
<1>8. Plain!FreshGets(K, U)'
  <2>1. StayFresh
    <3>. HIDE DEF StayFresh
    <3>. QED  BY <1>6, <1>7, PlainNext
  <2>. QED  BY <2>1 DEF Plain!FreshGets
<1>9. Plain!FreshGets(K, S)'
  <2>1. \A w \in S : Plain!GetAll(w)
    BY <1>2, <1>3, IntactMoves
  <2>. QED  BY <1>0, <2>1, ConstantsAssumption, Plain!FreshGetsStart
<1>10. Plain!FreshGets(K, W)'
  BY <1>3, <1>8, <1>9, ConstantsAssumption, Plain!FreshGetsJoin
<1>. QED  BY <1>1, <1>2, <1>10

\* Every step keeps what CacheFresh needs.
LEMMA FreshCacheStep ==
    ASSUME CommitAssigns, ACInv, FreshCacheInv, [ACNext]_acVars
    PROVE  FreshCacheInv'
BY UpdatingStep, CachedStep, ACCommittingStep, ACReturnedPutsStep, RecordedStep, FreshSeenStep,
   ACReadersStep DEF FreshCacheInv

\* No put has begun when the system starts.
LEMMA FreshCacheStart ==
    ASSUME ACInit
    PROVE  FreshCacheInv
<1>. USE DEF ACInit, FreshInit, Init
<1>1. UpdatingOK /\ CachedOK /\ CommittingOK
  BY DEF UpdatingOK, CachedOK, CommittingOK, Receiving
<1>2. ReturnedPutsOK /\ RecordedOK
  BY DEF ReturnedPutsOK, RecordedOK, PutReturned, Once
<1>3. FreshSeenOK
  BY DEF FreshSeenOK, NoMsg
<1>4. Plain!FreshGets(Once, Intact)
  <2>1. \A w \in Workers, s \in Servers : PlainConn[w][s] = NoMsg
    <3>1. \A e : PlainMessage(NoMsg, e) = NoMsg
      BY DEF PlainMessage, NoMsg
    <3>. QED  BY <3>1, PlainPoint
  <2>2. Plain!FreshAnswersOK(Once, Intact)
    BY <2>1 DEF Plain!FreshAnswersOK, Intact, NoMsg
  <2>3. Plain!FreshRoundsOK(Once, Intact) /\ Plain!FreshReadsOf(Once, Intact)
    BY DEF Plain!FreshRoundsOK, Plain!FreshReadsOf, Plain!Reading, Intact
  <2>. QED  BY <2>2, <2>3 DEF Plain!FreshGets
<1>. QED  BY <1>1, <1>2, <1>3, <1>4 DEF FreshCacheInv

-----------------------------------------------------------------------------
(* Theorems *)

\* Every reachable state is as ACRAMPFastInv describes it.
THEOREM ACInvariance ==
    ASSUME DistinctTs, Plain!PureTrxs, TrxType = "RAMP_FAST"
    PROVE  ACSpec => []ACInv
<1>1. ACInit => ACInv
  BY ACStart
<1>2. ACInv /\ [ACNext]_acVars => ACInv'
  BY ACStep
<1>. QED  BY <1>1, <1>2, PTL DEF ACSpec

\* Without its cache, ACRAMPFast is a RAMP-Fast that answers the first round of
\* a get with any version of a transaction that is prepared everywhere, or with
\* any item at all: by that step, or earlier in its get, the worker has accepted
\* parts of several items for one.
THEOREM Simulation ==
    ASSUME DistinctTs, Plain!PureTrxs, TrxType = "RAMP_FAST"
    PROVE  ACSpec => Plain!Init /\ [][PlainStep]_(Plain!vars)
<1>1. ACInit => Plain!Init
  BY ACStart
<1>2. ACInv /\ [ACNext]_acVars => [PlainStep]_(Plain!vars)
  <2>. SUFFICES ASSUME ACInv, [ACNext]_acVars PROVE [PlainStep]_(Plain!vars)
    OBVIOUS
  <2>1. PICK W \in SUBSET Workers : W = Intact'
    BY DEF Intact
  <2>. QED  BY <2>1, SimulationStep DEF PlainStep
<1>. QED  BY <1>1, <1>2, ACInvariance, PTL DEF ACSpec

\* A client that reads the cache past the executors finds nothing there but
\* versions of transactions that all servers have prepared.
THEOREM CacheIsPrepared ==
    ASSUME DistinctTs, Plain!PureTrxs, TrxType = "RAMP_FAST"
    PROVE  ACSpec => []CachePrepared
<1>1. ACInv => CachePrepared
  <2>. SUFFICES ASSUME ACInv, NEW k \in Keys, cache[k].item.trx # NoTrx
                PROVE  Prepared(cache[k].item.trx)
    BY DEF CachePrepared
  <2>1. Plain!Readable(k, cache[k].item)
    BY DEF ACInv, CacheOK
  <2>2. Plain!Prepared(cache[k].item.trx)
    BY <2>1, ConstantsAssumption, Plain!ReadableItem
  <2>. QED  BY <2>2, SamePrepared
<1>. QED  BY <1>1, ACInvariance, PTL

\* Table, cache and the gets that are under way are as ACRAMPFastInv describes
\* them, if latest_commit is assigned and not inserted.
THEOREM FreshCacheInvariance ==
    ASSUME DistinctTs, Plain!PureTrxs, TrxType = "RAMP_FAST", CommitAssigns
    PROVE  ACSpec => []FreshCacheInv
<1>1. ACInit => FreshCacheInv
  BY FreshCacheStart
<1>2. ACInv /\ FreshCacheInv /\ [ACNext]_acVars => FreshCacheInv'
  BY FreshCacheStep
<1>. QED  BY <1>1, <1>2, ACInvariance, PTL DEF ACSpec

\* A get that starts after a put has returned sees that put, from the cache as
\* from the table, on the keys that no other transaction writes: put_all waits
\* for every loop of commit, and each comes to timestamp and entry of its keys.
\* It may not if it has accepted parts of several items for one.
THEOREM CacheIsFresh ==
    ASSUME DistinctTs, Plain!PureTrxs, TrxType = "RAMP_FAST", CommitAssigns
    PROVE  ACSpec => []CacheFresh
<1>1. ACInv /\ FreshCacheInv => CacheFresh
  <2>. SUFFICES ASSUME ACInv, FreshCacheInv, NEW w \in Workers \ torn, pc[w] = "returned",
                       NEW k \in ReadSet[trx[w]], WrittenOnce(k)
                PROVE  ret[w][k].ts >= floor[w][k]
    BY DEF CacheFresh
  <2>1. trx[w] \in Trxs
    BY DEF ACInv, Plain!WriteInv, Plain!ControlOK, Plain!Running
  <2>2. k \in Once
    BY <2>1, ConstantsAssumption DEF Once
  <2>. QED  BY <2>2 DEF FreshCacheInv, Plain!FreshGets, Plain!FreshReadsOf, Intact
<1>. QED  BY <1>1, ACInvariance, FreshCacheInvariance, PTL

\* Stamps and views do not depend on messages, executors and cache.
LEMMA SameVisibility ==
    /\ Plain!Stamp = Stamp /\ Plain!View = View
    /\ Plain!Stamp' = Stamp' /\ Plain!View' = View'
<1>1. Plain!Stamp = Stamp
  BY SamePrepared DEF Plain!Stamp, Stamp
<1>2. Plain!View = View
  BY DEF Plain!View, View
<1>3. (Plain!Stamp = Stamp)' /\ (Plain!View = View)'
  BY <1>1, <1>2, PTL
<1>. QED  BY <1>1, <1>2, <1>3

\* What a client can have read.
Readings(v) ==
    \E S \in SUBSET Visible!Published, K \in SUBSET Keys :
        v \in [K -> Trxs \cup {NoTrx}] /\ \A k \in K : Visible!IsLast(v[k], S, k)

\* It is the same with and without the cache.
LEMMA SameShows ==
    \A v : Plain!Shows(v) => Readings(v)
<1>1. Plain!Visibility!Published = Visible!Published
  BY SameVisibility DEF Plain!Visibility!Published, Visible!Published
<1>2. \A u, S, k : Plain!Visibility!IsLast(u, S, k) <=> Visible!IsLast(u, S, k)
  BY SameVisibility DEF Plain!Visibility!IsLast, Visible!IsLast, Plain!Visibility!Writers,
                        Visible!Writers
<1>. QED  BY <1>1, <1>2 DEF Plain!Shows, Readings

\* A worker is torn, and torn no longer, while its get is under way.
LEMMA TornViews ==
    ASSUME ACInv, [ACNext]_acVars, NEW w \in Workers, ~ (w \in torn <=> w \in torn')
    PROVE  IntactView'[w] = IntactView[w]
<1>1. CASE w \in torn
  <2>1. Plain!GetAll(w)
    BY <1>1, IntactMoves DEF Intact
  <2>2. pc'[w] = "round1"
    BY <2>1 DEF Plain!GetAll, ACInv, Plain!WriteInv, Plain!TypeOK
  <2>. QED  BY <1>1, <2>2 DEF IntactView, View
<1>2. CASE w \notin torn
  <2>1. PICK s \in Servers : ReadItem(w, s)
    BY <1>2, TornMoves
  <2>2. pc[w] = "round1"
    BY <2>1 DEF ReadItem, ACInv, SeenOK
  <2>. QED  BY <1>2, <2>2 DEF IntactView, View
<1>. QED  BY <1>1, <1>2

\* A view that is shown changes as the one of RAMP-Fast does.
LEMMA IntactViews ==
    ASSUME ACInv, [ACNext]_acVars, NEW w \in Workers
    PROVE  \/ IntactView'[w] = IntactView[w]
           \/ /\ View'[w] # View[w] /\ IntactView'[w] = View'[w] /\ w \in Intact'
<1>1. CASE ~ (w \in torn <=> w \in torn')
  BY <1>1, TornViews
<1>2. CASE w \in torn /\ w \in torn'
  BY <1>2 DEF IntactView
<1>3. CASE w \notin torn /\ w \notin torn'
  BY <1>3 DEF IntactView, Intact
<1>. QED  BY <1>1, <1>2, <1>3

\* A step publishes and no view changes, or the view of at most one client does.
LEMMA ACViews ==
    ASSUME DistinctTs, ACInv, [ACNext]_acVars
    PROVE  \/ /\ View' = View
              /\ Stamp' = Stamp \/ \E t \in Trxs : Plain!Visibility!Publish(t)
           \/ /\ Stamp' = Stamp
              /\ \E w \in Workers : \A v \in Workers : v # w => View'[v] = View[v]
<1>1. Plain!WriteInv /\ Plain!TypeOK
  BY DEF ACInv, Plain!WriteInv
<1>2. CASE [Plain!Next]_(Plain!vars)
  <2>1. \/ Stamp' = Stamp
        \/ View' = View /\ \E t \in Trxs : Plain!Visibility!Publish(t)
    BY <1>1, <1>2, ConstantsAssumption, Plain!StampStep, SameVisibility
  <2>2. \/ View' = View
        \/ \E w \in Workers : \A v \in Workers : v # w => View'[v] = View[v]
    BY <1>1, <1>2, ConstantsAssumption, Plain!OneView, SameVisibility
  <2>. QED  BY <2>1, <2>2
<1>3. ASSUME NEW w \in Workers, NEW s \in Servers, ReadItem(w, s)
      PROVE  Stamp' = Stamp /\ View' = View
  <2>1. PICK W \in SUBSET Workers : W = Intact'
    BY DEF Intact
  <2>2. Plain!AnswerGet(w, s, W)
    BY <1>3, <2>1, ReadSteps
  <2>. QED  BY <2>2, ConstantsAssumption, Plain!AnswerHidden, SameVisibility
<1>. QED  BY <1>2, <1>3, PlainNext

\* The gets whose reads copied each entry from one item implement the abstract
\* promise of RAMP-Fast as without the cache: they see transactions whole.
THEOREM CacheRefinement ==
    ASSUME DistinctTs, Plain!PureTrxs, TrxType = "RAMP_FAST"
    PROVE  ACSpec => IntactlyVisible
<1>1. ACInit => Visible!Init
  <2>. SUFFICES ASSUME ACInit PROVE Visible!Init
    OBVIOUS
  <2>1. Plain!Visibility!Init
    BY ACStart, ConstantsAssumption, Plain!VisibilityInit
  <2>2. IntactView = View
    BY DEF ACInit, IntactView, View
  <2>. QED  BY <2>1, <2>2, SameVisibility DEF Plain!Visibility!Init, Visible!Init,
                           Plain!Visibility!NoView, Visible!NoView
<1>2. \A W \in SUBSET Workers : Plain!WriteInv /\ Plain!ReadInv(W) => Plain!ViewsOK(W)
  BY ConstantsAssumption, Plain!ViewShows
<1>3. (\A W \in SUBSET Workers : Plain!WriteInv /\ Plain!ReadInv(W) => Plain!ViewsOK(W))'
  BY <1>2, PTL
<1>4. (\A v : Plain!Shows(v) => Readings(v))'
  BY SameShows, PTL
<1>5. ACInv /\ [ACNext]_acVars => [Visible!Next]_(Visible!vars)
  <2>. SUFFICES ASSUME ACInv, [ACNext]_acVars PROVE [Visible!Next]_(Visible!vars)
    OBVIOUS
  <2>1. PICK W \in SUBSET Workers : W = Intact'
    BY DEF Intact
  <2>2. ACInv'
    BY ACStep
  <2>3. Plain!ViewsOK(W)'
    <3>1. Plain!WriteInv' /\ Plain!ReadInv(W)'
      BY <2>1, <2>2 DEF ACInv
    <3>. QED  BY <1>3, <3>1
  <2>4. IntactView = [w \in Workers |-> IntactView[w]]
        /\ IntactView' = [w \in Workers |-> IntactView'[w]]
    BY DEF IntactView
  <2>5. CASE IntactView' = IntactView /\ Stamp' = Stamp
    BY <2>5 DEF Visible!vars
  <2>6. ASSUME View' = View, NEW t \in Trxs, Plain!Visibility!Publish(t)
        PROVE  Visible!Publish(t)
    <3>1. IntactView' = IntactView
      BY <2>4, <2>6, IntactViews
    <3>. QED  BY <2>6, <3>1, SameVisibility, SameTable
              DEF Plain!Visibility!Publish, Visible!Publish
  <2>7. ASSUME Stamp' = Stamp, NEW w \in Workers,
               \A v \in Workers : v # w => View'[v] = View[v], IntactView' # IntactView
        PROVE  Visible!Read(w) \/ Visible!Leave(w)
    <3>1. \A v \in Workers : v # w => IntactView'[v] = IntactView[v]
      BY <2>7, IntactViews
    <3>2. IntactView'[w] # IntactView[w]
      BY <2>4, <2>7, <3>1
    <3>3. IntactView'[w] = View'[w] /\ w \in W
      BY <2>1, <3>2, IntactViews
    <3>4. IntactView' = [IntactView EXCEPT ![w] = IntactView'[w]]
      BY <2>4, <3>1
    <3>5. CASE pc'[w] # "returned"
      <4>1. IntactView'[w] = Visible!NoView
        BY <3>3, <3>5 DEF View, Visible!NoView
      <4>. QED  BY <2>7, <3>2, <3>4, <4>1 DEF Visible!Leave
    <3>6. CASE pc'[w] = "returned"
      <4>1. Plain!Shows(Plain!View[w])'
        BY <2>3, <3>3, <3>6 DEF Plain!ViewsOK
      <4>2. Readings(View[w])'
        BY <1>4, <4>1, SameVisibility
      <4>3. PICK v : v = View'[w]
        OBVIOUS
      <4>. QED  BY <2>7, <3>2, <3>3, <3>4, <4>2, <4>3 DEF Readings, Visible!Read,
                Visible!Published, Visible!IsLast, Visible!Writers
    <3>. QED  BY <3>5, <3>6
  <2>. QED  BY <2>5, <2>6, <2>7, ACViews, IntactViews, <2>4 DEF Visible!Next
<1>. QED  BY <1>1, <1>5, ACInvariance, PTL DEF ACSpec, IntactlyVisible, Visible!Spec
=============================================================================

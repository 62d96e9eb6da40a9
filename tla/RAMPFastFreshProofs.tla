------------------------ MODULE RAMPFastFreshProofs -------------------------
(***************************************************************************)
(* Proof that a get sees the puts that returned before it began, for every *)
(* set of keys, servers, workers and transactions, as long as no two       *)
(* workers commit the same key at the same time.                           *)
(***************************************************************************)
EXTENDS RAMPFastFreshInv, RAMPFastProofs

-----------------------------------------------------------------------------
(* How a step moves the write side *)

\* Neither a COMMIT nor an idle connection of worker v is touched.
Quiet(v) ==
    /\ pending_coms'[v] = pending_coms[v]
    /\ \A s \in Servers :
          \/ conn'[v][s] = conn[v][s] /\ executor'[v][s] = executor[v][s]
          \/ conn[v][s].type \notin {"COMMIT", "none"} /\ conn'[v][s].type # "COMMIT"

Putting(v) == pc[v] \in {"put_all", "prepare", "commit"}

\* How a step can move the writing side of worker v.
WriterStep(v) ==
    /\ pc'[v] = "prepare" =>
          \/ PutAll(v)
          \/ /\ pc[v] = "prepare" /\ trx'[v] = trx[v]
             /\ \/ \E k \in Keys : SendPrepare(v, k)
                \/ todo'[v] = todo[v] /\ access_coms'[v] = access_coms[v]
    /\ pc'[v] = "commit" =>
          \/ BeginCommit(v)
          \/ /\ pc[v] = "commit" /\ trx'[v] = trx[v]
             /\ \/ \E s \in Servers : \/ SendCommit(v, s) \/ CommitBegin(v, s)
                                      \/ CommitTest(v, s) \/ CommitSet(v, s) \/ CommitDone(v, s)
                \/ Quiet(v)
    /\ Putting(v) => PutAllReturn(v) \/ (Putting(v)' /\ trx'[v] = trx[v])

\* Nothing else moves it.
LEMMA WriterSteps ==
    ASSUME TypeOK, MessagesOK, [Next]_vars
    PROVE  \A v \in Workers : WriterStep(v)
<1>. USE DEF TypeOK, MessagesOK, Putting
<1>. DEFINE Frame(v) ==
       /\ pc'[v] = "prepare" => /\ pc[v] = "prepare" /\ trx'[v] = trx[v]
                                /\ todo'[v] = todo[v] /\ access_coms'[v] = access_coms[v]
       /\ pc'[v] = "commit" => pc[v] = "commit" /\ trx'[v] = trx[v] /\ Quiet(v)
       /\ Putting(v) => Putting(v)' /\ trx'[v] = trx[v]
<1>0. \A v \in Workers : Frame(v) => WriterStep(v)
  BY Zenon DEF WriterStep
<1>1. ASSUME UNCHANGED vars
      PROVE  \A v \in Workers : Frame(v)
  BY <1>1 DEF vars, workerVars, Quiet
<1>2. ASSUME NEW w \in Workers, Pop(w)
      PROVE  \A v \in Workers : Frame(v)
  BY <1>2 DEF Pop, Quiet
<1>3. ASSUME NEW w \in Workers, Exit(w)
      PROVE  \A v \in Workers : Frame(v)
  BY <1>3 DEF Exit, Quiet
<1>4. ASSUME NEW w \in Workers, Finish(w)
      PROVE  \A v \in Workers : Frame(v)
  BY <1>4 DEF Finish, Quiet
<1>5. ASSUME NEW w \in Workers, GetAll(w)
      PROVE  \A v \in Workers : Frame(v)
  BY <1>5 DEF GetAll, Quiet
<1>6. ASSUME NEW w \in Workers, CheckMissing(w)
      PROVE  \A v \in Workers : Frame(v)
  BY <1>6 DEF CheckMissing, Quiet
<1>7. ASSUME NEW w \in Workers, GetAllReturn(w)
      PROVE  \A v \in Workers : Frame(v)
  BY <1>7 DEF GetAllReturn, Quiet
<1>8. ASSUME NEW w \in Workers, NEW k \in Keys, SendGet(w, k)
      PROVE  \A v \in Workers : Frame(v)
  BY <1>8 DEF SendGet, Send, Quiet
<1>9. ASSUME NEW w \in Workers, NEW s \in Servers, RecvDone(w, s)
      PROVE  \A v \in Workers : Frame(v)
  BY <1>9 DEF RecvDone, workerVars, Send, Quiet, NoMsg
<1>10. ASSUME NEW w \in Workers, NEW s \in Servers, RecvResult(w, s)
       PROVE  \A v \in Workers : Frame(v)
  BY <1>10 DEF RecvResult, workerVars, Send, Quiet, NoMsg
<1>11. ASSUME NEW w \in Workers, NEW s \in Servers, Prepare(w, s)
       PROVE  \A v \in Workers : Frame(v)
  BY <1>11 DEF Prepare, workerVars, Send, Quiet, Done
<1>12. ASSUME NEW w \in Workers, NEW s \in Servers, Get(w, s)
       PROVE  \A v \in Workers : Frame(v)
  BY <1>12 DEF Get, workerVars, Send, Quiet, Result
<1>13. ASSUME NEW w \in Workers, NEW s \in Servers, HandleClose(w, s)
       PROVE  \A v \in Workers : Frame(v)
  BY <1>13 DEF HandleClose, workerVars, Send, Quiet, NoMsg
<1>14. ASSUME NEW w \in Workers, NEW s \in Servers, SendClose(w, s)
       PROVE  \A v \in Workers : Frame(v)
  BY <1>14 DEF SendClose, workerVars, Send, Quiet
<1>15. ASSUME NEW w \in Workers, PutAll(w)
       PROVE  \A v \in Workers : WriterStep(v)
  <2>1. \A v \in Workers : v # w => Frame(v)
    BY <1>15, ConstantsAssumption DEF PutAll, Send, workerVars, Quiet
  <2>2. pc'[w] = "prepare" /\ Putting(w)' /\ trx' = trx
    BY <1>15 DEF PutAll, workerVars, Send
  <2>3. WriterStep(w)
    <3>. HIDE DEF TypeOK, MessagesOK
    <3>. QED  BY <1>15, <2>2, Zenon DEF WriterStep
  <2>. HIDE DEF Frame
  <2>. QED  BY <1>0, <2>1, <2>3
<1>16. ASSUME NEW w \in Workers, BeginCommit(w)
       PROVE  \A v \in Workers : WriterStep(v)
  <2>1. \A v \in Workers : v # w => Frame(v)
    BY <1>16, ConstantsAssumption DEF BeginCommit, Send, workerVars, Quiet
  <2>2. pc'[w] = "commit" /\ Putting(w)' /\ trx' = trx
    BY <1>16 DEF BeginCommit, workerVars, Send
  <2>3. WriterStep(w)
    <3>. HIDE DEF TypeOK, MessagesOK
    <3>. QED  BY <1>16, <2>2, Zenon DEF WriterStep
  <2>. HIDE DEF Frame
  <2>. QED  BY <1>0, <2>1, <2>3
<1>17. ASSUME NEW w \in Workers, PutAllReturn(w)
       PROVE  \A v \in Workers : WriterStep(v)
  <2>1. \A v \in Workers : v # w => Frame(v)
    BY <1>17, ConstantsAssumption DEF PutAllReturn, Send, workerVars, Quiet
  <2>2. ~ (pc'[w] = "prepare") /\ ~ (pc'[w] = "commit")
    BY <1>17 DEF PutAllReturn, workerVars, Send
  <2>3. WriterStep(w)
    <3>. HIDE DEF TypeOK, MessagesOK
    <3>. QED  BY <1>17, <2>2, Zenon DEF WriterStep
  <2>. HIDE DEF Frame
  <2>. QED  BY <1>0, <2>1, <2>3
<1>18. ASSUME NEW w \in Workers, NEW k \in Keys, SendPrepare(w, k)
       PROVE  \A v \in Workers : WriterStep(v)
  <2>1. \A v \in Workers : v # w => Frame(v)
    BY <1>18, ConstantsAssumption DEF SendPrepare, Send, workerVars, Quiet
  <2>2. pc[w] = "prepare" /\ pc' = pc /\ Putting(w)' /\ trx' = trx
    BY <1>18 DEF SendPrepare, workerVars, Send
  <2>3. WriterStep(w)
    <3>. HIDE DEF TypeOK, MessagesOK
    <3>. QED  BY <1>18, <2>2, Zenon DEF WriterStep
  <2>. HIDE DEF Frame
  <2>. QED  BY <1>0, <2>1, <2>3
<1>19. ASSUME NEW w \in Workers, NEW s \in Servers, SendCommit(w, s)
       PROVE  \A v \in Workers : WriterStep(v)
  <2>1. \A v \in Workers : v # w => Frame(v)
    BY <1>19, ConstantsAssumption DEF SendCommit, Send, workerVars, Quiet
  <2>2. pc[w] = "commit" /\ pc' = pc /\ Putting(w)' /\ trx' = trx
    BY <1>19 DEF SendCommit, workerVars, Send
  <2>3. WriterStep(w)
    <3>. HIDE DEF TypeOK, MessagesOK
    <3>. QED  BY <1>19, <2>2, Zenon DEF WriterStep
  <2>. HIDE DEF Frame
  <2>. QED  BY <1>0, <2>1, <2>3
<1>20. ASSUME NEW w \in Workers, NEW s \in Servers, CommitBegin(w, s)
       PROVE  \A v \in Workers : WriterStep(v)
  <2>1. \A v \in Workers : v # w => Frame(v)
    BY <1>20, ConstantsAssumption DEF CommitBegin, Send, workerVars, Quiet
  <2>2. pc[w] = "commit" /\ pc' = pc /\ Putting(w)' /\ trx' = trx
    BY <1>20 DEF CommitBegin, workerVars, Send
  <2>3. WriterStep(w)
    <3>. HIDE DEF TypeOK, MessagesOK
    <3>. QED  BY <1>20, <2>2, Zenon DEF WriterStep
  <2>. HIDE DEF Frame
  <2>. QED  BY <1>0, <2>1, <2>3
<1>21. ASSUME NEW w \in Workers, NEW s \in Servers, CommitTest(w, s)
       PROVE  \A v \in Workers : WriterStep(v)
  <2>1. \A v \in Workers : v # w => Frame(v)
    <3>3. /\ UNCHANGED <<workerVars, conn>>
          /\ \E e : executor' = [executor EXCEPT ![w][s] = e]
      <4>. HIDE DEF TypeOK, MessagesOK
      <4>. QED  BY <1>21, CommitTestMoves
    <3>1. UNCHANGED <<workerVars, conn>>
      BY <3>3
    <3>2. \E e : executor' = [executor EXCEPT ![w][s] = e]
      BY <3>3
    <3>. QED  BY <3>1, <3>2 DEF workerVars, Quiet
  <2>2. pc[w] = "commit" /\ pc' = pc /\ Putting(w)' /\ trx' = trx
    <3>1. executor[w][s].at = "test" /\ pc' = pc /\ trx' = trx
      BY <1>21 DEF CommitTest, workerVars
    <3>2. pc[w] = "commit"
      BY <3>1
    <3>. QED  BY <3>1, <3>2
  <2>3. WriterStep(w)
    <3>. HIDE DEF TypeOK, MessagesOK
    <3>. QED  BY <1>21, <2>2, Zenon DEF WriterStep
  <2>. HIDE DEF Frame
  <2>. QED  BY <1>0, <2>1, <2>3
<1>22. ASSUME NEW w \in Workers, NEW s \in Servers, CommitSet(w, s)
       PROVE  \A v \in Workers : WriterStep(v)
  <2>1. \A v \in Workers : v # w => Frame(v)
    <3>1. /\ UNCHANGED <<workerVars, conn>>
          /\ executor' = [executor EXCEPT ![w][s] = NextItem(executor[w][s])]
      <4>. HIDE DEF TypeOK, MessagesOK
      <4>. QED  BY <1>22, CommitSetMoves
    <3>. QED  BY <3>1 DEF workerVars, Quiet
  <2>2. pc[w] = "commit" /\ pc' = pc /\ Putting(w)' /\ trx' = trx
    <3>1. executor[w][s].at = "set" /\ pc' = pc /\ trx' = trx
      BY <1>22 DEF CommitSet, workerVars
    <3>2. pc[w] = "commit"
      BY <3>1
    <3>. QED  BY <3>1, <3>2
  <2>3. WriterStep(w)
    <3>. HIDE DEF TypeOK, MessagesOK
    <3>. QED  BY <1>22, <2>2, Zenon DEF WriterStep
  <2>. HIDE DEF Frame
  <2>. QED  BY <1>0, <2>1, <2>3
<1>23. ASSUME NEW w \in Workers, NEW s \in Servers, CommitDone(w, s)
       PROVE  \A v \in Workers : WriterStep(v)
  <2>1. \A v \in Workers : v # w => Frame(v)
    BY <1>23, ConstantsAssumption DEF CommitDone, Send, workerVars, Quiet
  <2>2. pc[w] = "commit" /\ pc' = pc /\ Putting(w)' /\ trx' = trx
    BY <1>23 DEF CommitDone, workerVars, Send
  <2>3. WriterStep(w)
    <3>. HIDE DEF TypeOK, MessagesOK
    <3>. QED  BY <1>23, <2>2, Zenon DEF WriterStep
  <2>. HIDE DEF Frame
  <2>. QED  BY <1>0, <2>1, <2>3
<1>. HIDE DEF Frame
<1>. QED
  BY <1>0, <1>1, <1>2, <1>3, <1>4, <1>5, <1>6, <1>7, <1>8, <1>9, <1>10, <1>11, <1>12, <1>13, <1>14, <1>15, <1>16, <1>17, <1>18, <1>19, <1>20, <1>21, <1>22, <1>23
  DEF Next, WorkerStep, ExecutorStep, Terminating

\* What a step does to the queue and to the puts that have returned.
LEMMA PutReturns ==
    ASSUME TypeOK, MessagesOK, ControlOK, [Next]_vars, NEW t \in Trxs, WriteSet[t] # {},
           PutReturned(t)'
    PROVE  PutReturned(t) \/ \E w \in Workers : PutAllReturn(w) /\ trx[w] = t
<1>1. CASE t \notin queue
  <2>. SUFFICES ASSUME NEW w \in Workers, trx[w] = t, Putting(w)
                PROVE  PutAllReturn(w)
    BY <1>1 DEF PutReturned, Putting
  <2>1. PutAllReturn(w) \/ (Putting(w)' /\ trx'[w] = trx[w])
    BY WriterSteps DEF WriterStep
  <2>. QED  BY <2>1 DEF PutReturned, Putting
<1>2. CASE t \in queue
  <2>1. t \notin queue'
    BY DEF PutReturned
  <2>2. PICK w \in Workers : Pop(w)
    BY <1>2, <2>1, Writers DEF OneWriter
  <2>3. trx'[w] = t /\ pc'[w] = "put_all"
    BY <1>2, <2>1, <2>2 DEF Pop, TypeOK
  <2>. QED  BY <2>3 DEF PutReturned
<1>. QED  BY <1>1, <1>2

-----------------------------------------------------------------------------
(* Table::commit *)

\* An item that the loop of commit stands at or has still to come to is the
\* item of a key that its worker is committing, on that key's server.
LEMMA LoopItem ==
    ASSUME TypeOK, ControlOK, MessagesOK, LoopOK, UniqueTs, ItemsOK,
           NEW w \in Workers, NEW s \in Servers, executor[w][s].at \in {"test", "set"},
           NEW j \in Nat, executor[w][s].i <= j, j <= executor[w][s].n
    PROVE  LET ts_c == conn[w][s].ts
           IN  /\ pc[w] = "commit" /\ trx[w] \in Trxs
               /\ ts_c = trx_ts[trx[w]] /\ ts_c \in Timestamps
               /\ j \in DOMAIN items[s][ts_c]
               /\ items[s][ts_c][j].key \in WriteSet[trx[w]]
               /\ items[s][ts_c][j].key \in Keys
               /\ ServerOf[items[s][ts_c][j].key] = s
<1>. DEFINE ts_c == conn[w][s].ts
            e == executor[w][s]
            item == items[s][ts_c][j]
<1>1. conn[w][s].type = "COMMIT"
  BY DEF MessagesOK
<1>2. pc[w] = "commit" /\ ts_c = trx_ts[trx[w]]
  BY <1>1 DEF MessagesOK
<1>3. trx[w] \in Trxs
  BY <1>2 DEF ControlOK, Running
<1>4. ts_c \in Timestamps /\ ts_c # 0
  BY <1>1, MessageFields DEF TypeOK, Timestamps
<1>5. e.i >= 1 /\ e.n <= Len(items[s][ts_c])
  BY DEF LoopOK
<1>6. j \in DOMAIN items[s][ts_c]
  <2>1. items[s][ts_c] \in Seq(Item) /\ e \in ExecutorState
    BY <1>4 DEF TypeOK
  <2>2. e.i \in Nat /\ e.n \in Nat /\ Len(items[s][ts_c]) \in Nat
    <3>. HIDE DEF e, ts_c
    <3>. QED  BY <2>1 DEF ExecutorState
  <2>3. e.i <= j /\ j <= e.n
    OBVIOUS
  <2>. HIDE DEF e, ts_c
  <2>. QED  BY <1>5, <2>1, <2>2, <2>3
<1>7. Written(s, ts_c, item)
  BY <1>4, <1>6 DEF ItemsOK
<1>8. PICK t \in Trxs : \E k \in WriteSet[t] :
             trx_ts[t] = ts_c /\ ServerOf[k] = s /\ item = ItemOf(t, k)
  BY <1>7 DEF Written
<1>9. t = trx[w]
  BY <1>2, <1>3, <1>4, <1>8 DEF UniqueTs
<1>10. item.key \in WriteSet[trx[w]] /\ ServerOf[item.key] = s
  BY <1>8, <1>9 DEF ItemOf
<1>11. item.key \in Keys
  BY <1>3, <1>10, ConstantsAssumption
<1>. QED  BY <1>2, <1>3, <1>4, <1>6, <1>10, <1>11

\* The key that the loop stands at when it stores the timestamp.
LEMMA StoredKey ==
    ASSUME TypeOK, ControlOK, MessagesOK, LoopOK, UniqueTs, ItemsOK,
           NEW w \in Workers, NEW s \in Servers, executor[w][s].at = "set"
    PROVE  /\ pc[w] = "commit" /\ trx[w] \in Trxs
           /\ conn[w][s].ts = trx_ts[trx[w]] /\ conn[w][s].ts \in Timestamps
           /\ executor[w][s].i \in DOMAIN items[s][conn[w][s].ts]
           /\ CurrentKey(w, s) \in WriteSet[trx[w]] /\ CurrentKey(w, s) \in Keys
           /\ ServerOf[CurrentKey(w, s)] = s
<1>. DEFINE i == executor[w][s].i
<1>1. executor[w][s] \in ExecutorState
  BY DEF TypeOK
<1>2. i \in Nat /\ i <= i /\ i <= executor[w][s].n
  BY <1>1 DEF ExecutorState, LoopOK
<1>. HIDE DEF i
<1>3. executor[w][s].i <= i
  BY <1>2 DEF i
<1>4. executor[w][s].at \in {"test", "set"}
  OBVIOUS
<1>5. /\ pc[w] = "commit" /\ trx[w] \in Trxs
      /\ conn[w][s].ts = trx_ts[trx[w]] /\ conn[w][s].ts \in Timestamps
      /\ i \in DOMAIN items[s][conn[w][s].ts]
      /\ items[s][conn[w][s].ts][i].key \in WriteSet[trx[w]]
      /\ items[s][conn[w][s].ts][i].key \in Keys
      /\ ServerOf[items[s][conn[w][s].ts][i].key] = s
  <2>1. i \in Nat /\ executor[w][s].i <= i /\ i <= executor[w][s].n
    BY <1>2, <1>3
  <2>. QED  BY <1>4, <2>1, LoopItem
<1>. QED  BY <1>5 DEF CurrentKey, i

\* latest_commit of a key moves only when an executor of the key's server
\* stores a timestamp that is newer than what the loop compared it with.
LEMMA LatestMoves ==
    ASSUME TypeOK, ControlOK, MessagesOK, LoopOK, UniqueTs, ItemsOK, ComparedOK, [Next]_vars,
           NEW k \in Keys
    PROVE  \/ latest_commit'[k] = latest_commit[k]
           \/ /\ latest_commit'[k] > latest_commit[k]
              /\ \E w \in Workers, s \in Servers :
                    /\ CommitSet(w, s) /\ CurrentKey(w, s) = k
                    /\ latest_commit'[k] = conn[w][s].ts
<1>1. CASE latest_commit' = latest_commit
  BY <1>1
<1>2. ASSUME NEW w \in Workers, NEW s \in Servers, CommitSet(w, s)
      PROVE  \/ latest_commit'[k] = latest_commit[k]
             \/ /\ latest_commit'[k] > latest_commit[k]
                /\ CurrentKey(w, s) = k
                /\ latest_commit'[k] = conn[w][s].ts
  <2>1. /\ executor[w][s].at = "set"
        /\ latest_commit' = [latest_commit EXCEPT
                               ![CurrentKey(w, s)] = CommittedTs(@, conn[w][s].ts)]
    BY <1>2 DEF CommitSet, CurrentKey
  <2>2. latest_commit[CurrentKey(w, s)] < conn[w][s].ts
    BY <2>1 DEF ComparedOK
  <2>3. CurrentKey(w, s) \in Keys
    BY <2>1, StoredKey
  <2>4. CASE k = CurrentKey(w, s)
    <3>1. latest_commit'[k] = CommittedTs(latest_commit[k], conn[w][s].ts)
      BY <2>1, <2>3, <2>4 DEF TypeOK
    <3>2. conn[w][s].ts \in Nat /\ latest_commit[k] \in Nat
      BY <2>1, StoredKey DEF TypeOK, Timestamps, TsOrEmpty
    <3>. QED  BY <2>2, <2>4, <3>1, <3>2 DEF CommittedTs
  <2>5. CASE k # CurrentKey(w, s)
    BY <2>1, <2>5 DEF TypeOK
  <2>. QED  BY <2>4, <2>5
<1>. QED  BY <1>1, <1>2, Writers DEF OneWriter

\* So it never goes back.
LEMMA LatestGrows ==
    ASSUME TypeOK, ControlOK, MessagesOK, LoopOK, UniqueTs, ItemsOK, ComparedOK, [Next]_vars,
           NEW k \in Keys
    PROVE  latest_commit[k] \in Nat /\ latest_commit'[k] \in Nat
             /\ latest_commit'[k] >= latest_commit[k]
<1>1. TypeOK'
  BY TypeStep
<1>2. latest_commit[k] \in Nat /\ latest_commit'[k] \in Nat
  BY <1>1 DEF TypeOK, TsOrEmpty
<1>. QED  BY <1>2, LatestMoves

\* Timestamps are stored only where they are newer: a key under the loop has
\* no other worker that could store to it since the comparison.
LEMMA ComparedStep ==
    ASSUME CommitsApart, TypeOK, ControlOK, MessagesOK, LoopOK, UniqueTs, ItemsOK, ComparedOK,
           [Next]_vars
    PROVE  ComparedOK'
<1>. SUFFICES ASSUME NEW v \in Workers, NEW s \in Servers, executor'[v][s].at = "set"
              PROVE  latest_commit'[CurrentKey(v, s)'] < conn'[v][s].ts
  BY DEF ComparedOK
<1>1. conn'[v][s].type = "COMMIT" /\ pc'[v] = "commit"
  BY MessagesStep DEF MessagesOK
<1>2. ASSUME executor[v][s].at = "set", executor'[v][s] = executor[v][s],
             conn'[v][s].ts = conn[v][s].ts
      PROVE  latest_commit'[CurrentKey(v, s)'] < conn'[v][s].ts
  <2>. DEFINE k == CurrentKey(v, s)
              ts_c == conn[v][s].ts
  <2>1. /\ pc[v] = "commit" /\ k \in WriteSet[trx[v]] /\ k \in Keys /\ ServerOf[k] = s
        /\ ts_c \in Timestamps /\ executor[v][s].i \in DOMAIN items[s][ts_c]
    BY <1>2, StoredKey
  <2>2. items'[s][ts_c][executor[v][s].i] = items[s][ts_c][executor[v][s].i]
    BY <2>1, StoreGrows DEF Stable, Grows
  <2>3. CurrentKey(v, s)' = k
    BY <1>2, <2>2 DEF CurrentKey
  <2>4. latest_commit[k] < ts_c
    BY <1>2 DEF ComparedOK
  <2>5. latest_commit'[k] = latest_commit[k]
    <3>. SUFFICES ASSUME NEW w \in Workers, NEW r \in Servers,
                         CommitSet(w, r), CurrentKey(w, r) = k
                  PROVE  FALSE
      BY <2>1, LatestMoves
    <3>1. executor[w][r].at = "set" /\ executor' = [executor EXCEPT ![w][r] = NextItem(@)]
      BY DEF CommitSet
    <3>2. pc[w] = "commit" /\ k \in WriteSet[trx[w]] /\ ServerOf[k] = r
      BY <3>1, StoredKey
    <3>3. w = v /\ r = s
      BY <2>1, <3>2 DEF CommitsApart
    <3>4. executor'[v][s].at = "test"
      BY <3>1, <3>3 DEF TypeOK, NextItem, ExecutorState
    <3>. QED  BY <1>2, <3>4
  <2>. QED  BY <1>2, <2>3, <2>4, <2>5
<1>3. CASE CommitTest(v, s)
  <2>. DEFINE e == executor[v][s]
              k == CurrentKey(v, s)
              ts_c == conn[v][s].ts
  <2>1. /\ e.at = "test" /\ conn' = conn /\ items' = items /\ latest_commit' = latest_commit
        /\ executor' = [executor EXCEPT ![v][s] =
                          IF IsNewer(k, ts_c) THEN [e EXCEPT !.at = "set"] ELSE NextItem(e)]
    BY <1>3 DEF CommitTest, CurrentKey, tableVars
  <2>2. e \in ExecutorState
    BY DEF TypeOK
  <2>3. executor'[v][s] = IF IsNewer(k, ts_c) THEN [e EXCEPT !.at = "set"] ELSE NextItem(e)
    BY <2>1 DEF TypeOK
  <2>4. IsNewer(k, ts_c) /\ executor'[v][s].i = e.i
    BY <2>2, <2>3 DEF NextItem, ExecutorState
  <2>5. CurrentKey(v, s)' = k
    BY <2>1, <2>4 DEF CurrentKey
  <2>. QED  BY <2>1, <2>4, <2>5 DEF IsNewer
<1>4. ~ BeginCommit(v)
  <2>. SUFFICES ASSUME BeginCommit(v) PROVE FALSE
    OBVIOUS
  <2>1. conn' = conn /\ conn[v][s].type = "none"
    BY DEF BeginCommit, AllAnswered, Idle, NoMsg
  <2>. QED  BY <1>1, <2>1
<1>5. ASSUME pc[v] = "commit", trx'[v] = trx[v], Quiet(v)
      PROVE  executor'[v][s] = executor[v][s] /\ conn'[v][s] = conn[v][s]
  BY <1>1, <1>5 DEF Quiet
<1>6. ASSUME pc[v] = "commit", NEW r \in Servers,
             \/ SendCommit(v, r) \/ CommitBegin(v, r) \/ CommitSet(v, r) \/ CommitDone(v, r)
             \/ CommitTest(v, r) /\ r # s
      PROVE  /\ executor[v][s].at = "set" /\ executor'[v][s] = executor[v][s]
             /\ conn'[v][s].ts = conn[v][s].ts
  <2>1. CASE SendCommit(v, r)
    <3>1. executor' = executor
      BY <2>1 DEF SendCommit
    <3>2. conn'[v][s] = conn[v][s] \/ conn'[v][s].ts = trx_ts[trx[v]]
      BY <2>1 DEF SendCommit, Send, Commit, TypeOK
    <3>3. conn[v][s].type = "COMMIT" /\ conn[v][s].ts = trx_ts[trx[v]]
      BY <3>1 DEF MessagesOK
    <3>. QED  BY <3>1, <3>2, <3>3
  <2>2. CASE CommitBegin(v, r)
    BY <2>2 DEF CommitBegin, TypeOK
  <2>3. CASE CommitSet(v, r)
    <3>1. conn' = conn /\ executor' = [executor EXCEPT ![v][r] = NextItem(@)]
      BY <2>3 DEF CommitSet
    <3>2. r # s
      BY <3>1 DEF TypeOK, NextItem, ExecutorState
    <3>. QED  BY <3>1, <3>2 DEF TypeOK
  <2>4. CASE CommitDone(v, r)
    BY <2>4 DEF CommitDone, Send, Receiving, TypeOK
  <2>5. CASE CommitTest(v, r) /\ r # s
    BY <2>5 DEF CommitTest, TypeOK
  <2>. QED  BY <1>6, <2>1, <2>2, <2>3, <2>4, <2>5
<1>7. ASSUME pc[v] = "commit", trx'[v] = trx[v], Quiet(v)
      PROVE  executor[v][s].at = "set" /\ executor'[v][s] = executor[v][s] /\ conn'[v][s].ts = conn[v][s].ts
  BY <1>5, <1>7
<1>. QED
  <2>1. WriterStep(v)
    BY WriterSteps
  <2>. QED  BY <1>1, <1>2, <1>3, <1>4, <1>6, <1>7, <2>1 DEF WriterStep

\* Sending a PREPARE notes its server.
LEMMA AccessStep ==
    ASSUME TypeOK, ControlOK, MessagesOK, AccessOK, [Next]_vars
    PROVE  AccessOK'
<1>. SUFFICES ASSUME NEW v \in Workers, pc'[v] = "prepare",
                     NEW k \in WriteSet[trx'[v]], k \notin todo'[v]
              PROVE  ServerOf[k] \in access_coms'[v]
  BY DEF AccessOK
<1>1. CASE PutAll(v)
  <2>1. todo'[v] = WriteSet[trx[v]] /\ trx' = trx
    BY <1>1 DEF PutAll, TypeOK
  <2>. QED  BY <2>1
<1>2. ASSUME pc[v] = "prepare", trx'[v] = trx[v], NEW j \in Keys, SendPrepare(v, j)
      PROVE  ServerOf[k] \in access_coms'[v]
  <2>1. /\ todo'[v] = todo[v] \ {j}
        /\ access_coms'[v] = access_coms[v] \cup {ServerOf[j]}
    BY <1>2 DEF SendPrepare, TypeOK
  <2>. QED  BY <1>2, <2>1 DEF AccessOK
<1>3. CASE pc[v] = "prepare" /\ trx'[v] = trx[v] /\ todo'[v] = todo[v]
             /\ access_coms'[v] = access_coms[v]
  BY <1>3 DEF AccessOK
<1>. QED
  <2>1. WriterStep(v)
    BY WriterSteps
  <2>. QED  BY <1>1, <1>2, <1>3, <2>1 DEF WriterStep

\* send_to_all sends one COMMIT on every connection.
LEMMA PendingStep ==
    ASSUME TypeOK, ControlOK, MessagesOK, PendingOK, [Next]_vars
    PROVE  PendingOK'
<1>. SUFFICES ASSUME NEW v \in Workers, pc'[v] = "commit", NEW s \in pending_coms'[v]
              PROVE  conn'[v][s] = NoMsg
  BY DEF PendingOK
<1>0. TypeOK' /\ s \in Servers
  BY TypeStep DEF TypeOK
<1>1. CASE BeginCommit(v)
  BY <1>0, <1>1 DEF BeginCommit, AllAnswered, Idle
<1>2. ASSUME pc[v] = "commit", NEW r \in Servers, SendCommit(v, r)
      PROVE  conn'[v][s] = NoMsg
  <2>1. /\ pending_coms'[v] = pending_coms[v] \ {r}
        /\ \A q \in Servers : q # r => conn'[v][q] = conn[v][q]
    BY <1>2 DEF SendCommit, Send, TypeOK
  <2>. QED  BY <1>0, <1>2, <2>1 DEF PendingOK
<1>3. ASSUME pc[v] = "commit", pending_coms'[v] = pending_coms[v],
             conn[v][s] = NoMsg => conn'[v][s] = NoMsg
      PROVE  conn'[v][s] = NoMsg
  BY <1>3 DEF PendingOK
<1>4. ASSUME NEW r \in Servers, CommitBegin(v, r) \/ CommitTest(v, r) \/ CommitSet(v, r)
      PROVE  pending_coms'[v] = pending_coms[v] /\ conn'[v][s] = conn[v][s]
  BY <1>4 DEF CommitBegin, CommitTest, CommitSet, workerVars
<1>5. ASSUME NEW r \in Servers, CommitDone(v, r)
      PROVE  /\ pending_coms'[v] = pending_coms[v]
             /\ conn[v][s] = NoMsg => conn'[v][s] = NoMsg
  <2>1. /\ pending_coms'[v] = pending_coms[v]
        /\ \A q \in Servers : q # r => conn'[v][q] = conn[v][q]
        /\ conn[v][r].type = "COMMIT"
    BY <1>5 DEF CommitDone, workerVars, Send, TypeOK, MessagesOK
  <2>. QED  BY <1>0, <2>1 DEF NoMsg
<1>6. ASSUME Quiet(v)
      PROVE  /\ pending_coms'[v] = pending_coms[v]
             /\ conn[v][s] = NoMsg => conn'[v][s] = NoMsg
  BY <1>0, <1>6 DEF Quiet, NoMsg
<1>. QED
  <2>1. WriterStep(v)
    BY WriterSteps
  <2>. QED  BY <1>1, <1>2, <1>3, <1>4, <1>5, <1>6, <2>1 DEF WriterStep

\* An executor that is left alone keeps the items it has still to come to.
LEMMA LoopAheadStays ==
    ASSUME TypeOK, MessagesOK, Stable, NEW v \in Workers, NEW k \in Keys, LoopAhead(v, k),
           conn'[v][ServerOf[k]] = conn[v][ServerOf[k]],
           executor'[v][ServerOf[k]] = executor[v][ServerOf[k]]
    PROVE  LoopAhead(v, k)'
<1>. DEFINE s == ServerOf[k]
            ts_c == conn[v][s].ts
<1>1. s \in Servers
  BY ConstantsAssumption
<1>2. executor[v][s].at \in {"test", "set"}
  BY DEF LoopAhead
<1>3. ts_c \in Timestamps
  BY <1>1, <1>2, MessageFields DEF TypeOK, MessagesOK
<1>4. PICK j \in DOMAIN items[s][ts_c] : /\ executor[v][s].i <= j /\ j <= executor[v][s].n
                                         /\ items[s][ts_c][j].key = k
  BY DEF LoopAhead
<1>5. j \in DOMAIN items'[s][ts_c] /\ items'[s][ts_c][j] = items[s][ts_c][j]
  BY <1>1, <1>3 DEF Stable, Grows
<1>. HIDE DEF s
<1>6. /\ executor'[v][s].at \in {"test", "set"}
      /\ \E h \in DOMAIN items'[s][conn'[v][s].ts] :
            /\ executor'[v][s].i <= h /\ h <= executor'[v][s].n
            /\ items'[s][conn'[v][s].ts][h].key = k
  BY <1>2, <1>4, <1>5 DEF s
<1>. QED  BY <1>6 DEF LoopAhead, s

\* A put moves latest_commit on for each of its keys before it returns.
LEMMA CommittingStep ==
    ASSUME CommitAssigns, TypeOK, ControlOK, MessagesOK, LoopOK, UniqueTs, ItemsOK, CommitOK,
           ComparedOK, AccessOK, PendingOK, CommittingOK, [Next]_vars
    PROVE  CommittingOK'
<1>. DEFINE Visible(v, k) == latest_commit[k] >= trx_ts[trx[v]]
<1>. SUFFICES ASSUME NEW v \in Workers, pc'[v] = "commit", NEW k \in WriteSet[trx'[v]]
              PROVE  \/ ServerOf[k] \in pending_coms'[v]
                     \/ CommitSent(v, k)'
                     \/ LoopAhead(v, k)'
                     \/ Visible(v, k)'
  BY DEF CommittingOK
<1>. DEFINE s == ServerOf[k]
            ts_c == conn[v][s].ts
            e == executor[v][s]
<1>0. WriterStep(v)
  BY WriterSteps
<1>1. trx'[v] = trx[v] /\ trx[v] \in Trxs
  <2>1. CASE BeginCommit(v)
    BY <2>1 DEF BeginCommit, ControlOK, Running
  <2>2. CASE pc[v] = "commit" /\ trx'[v] = trx[v]
    BY <2>2 DEF ControlOK, Running
  <2>. QED  BY <1>0, <2>1, <2>2 DEF WriterStep
<1>2. k \in Keys /\ s \in Servers
  BY <1>1, ConstantsAssumption
<1>3. CASE BeginCommit(v)
  <2>1. pc[v] = "prepare" /\ todo[v] = {} /\ pending_coms'[v] = access_coms[v]
    BY <1>3 DEF BeginCommit, AllAnswered, TypeOK
  <2>. QED  BY <1>1, <2>1 DEF AccessOK
<1>4. ASSUME pc[v] = "commit"
      PROVE  trx_ts'[trx[v]] = trx_ts[trx[v]]
  BY <1>1, <1>4, StoreGrows DEF Stable, ControlOK
<1>5. ASSUME pc[v] = "commit", Visible(v, k)
      PROVE  Visible(v, k)'
  <2>1. latest_commit[k] \in Nat /\ latest_commit'[k] \in Nat /\ latest_commit'[k] >= latest_commit[k]
    BY <1>2, LatestGrows
  <2>2. trx_ts[trx[v]] \in Nat
    BY <1>1 DEF TypeOK, TsOrEmpty
  <2>3. latest_commit'[k] >= trx_ts[trx[v]]
    BY <1>5, <2>1, <2>2
  <2>. QED  BY <1>1, <1>4, <1>5, <2>3
<1>. HIDE DEF Visible
<1>6. ASSUME pc[v] = "commit"
      PROVE  s \in pending_coms[v] \/ CommitSent(v, k) \/ LoopAhead(v, k) \/ Visible(v, k)
  BY <1>1, <1>6 DEF CommittingOK, Visible
<1>7. ASSUME pc[v] = "commit", s \in pending_coms[v] => s \in pending_coms'[v],
             conn'[v][s] = conn[v][s], executor'[v][s] = executor[v][s]
      PROVE  s \in pending_coms'[v] \/ CommitSent(v, k)' \/ LoopAhead(v, k)' \/ Visible(v, k)'
  <2>1. CommitSent(v, k) => CommitSent(v, k)'
    BY <1>7 DEF CommitSent
  <2>2. LoopAhead(v, k) => LoopAhead(v, k)'
    BY <1>2, <1>7, StoreGrows, LoopAheadStays
  <2>. QED  BY <1>5, <1>6, <1>7, <2>1, <2>2
<1>8. ASSUME pc[v] = "commit", NEW r \in Servers, SendCommit(v, r)
      PROVE  s \in pending_coms'[v] \/ CommitSent(v, k)' \/ LoopAhead(v, k)' \/ Visible(v, k)'
  <2>1. /\ executor' = executor /\ r \in pending_coms[v]
        /\ pending_coms'[v] = pending_coms[v] \ {r}
        /\ conn'[v][r].type = "COMMIT"
        /\ \A q \in Servers : q # r => conn'[v][q] = conn[v][q]
    BY <1>8 DEF SendCommit, Send, Commit, TypeOK
  <2>2. CASE r = s
    <3>1. conn[v][s] = NoMsg
      BY <1>8, <2>1, <2>2 DEF PendingOK
    <3>2. executor[v][s].at \notin {"test", "set"}
      BY <1>2, <3>1 DEF MessagesOK, NoMsg
    <3>. QED  BY <2>1, <2>2, <3>2 DEF CommitSent
  <2>3. CASE r # s
    BY <1>2, <1>7, <1>8, <2>1, <2>3
  <2>. QED  BY <2>2, <2>3
<1>9. ASSUME pc[v] = "commit", CommitBegin(v, s)
      PROVE  LoopAhead(v, k)'
  <2>1. /\ conn[v][s].type = "COMMIT" /\ conn' = conn /\ items' = items
        /\ executor'[v][s] = [at |-> "test", i |-> 1, n |-> Len(items[s][ts_c])]
    BY <1>2, <1>9 DEF CommitBegin, tableVars, TypeOK
  <2>2. ts_c = trx_ts[trx[v]] /\ ts_c \in Timestamps
    BY <1>2, <2>1, MessageFields DEF MessagesOK, TypeOK
  <2>3. Holds(trx[v], k)
    BY <1>1, <1>9 DEF CommitOK, Prepared
  <2>4. PICK j \in DOMAIN items[s][ts_c] : items[s][ts_c][j] = ItemOf(trx[v], k)
    BY <2>2, <2>3 DEF Holds
  <2>5. items[s][ts_c][j].key = k
    BY <2>4 DEF ItemOf
  <2>6. items[s][ts_c] \in Seq(Item)
    BY <1>2, <2>2 DEF TypeOK
  <2>7. 1 <= j /\ j <= Len(items[s][ts_c])
    <3>1. \A q \in Seq(Item) : \A h \in DOMAIN q : 1 <= h /\ h <= Len(q)
      OBVIOUS
    <3>. QED  BY <2>6, <3>1, Zenon
  <2>. HIDE DEF s
  <2>8. /\ executor'[v][s].at \in {"test", "set"}
        /\ \E h \in DOMAIN items'[s][conn'[v][s].ts] :
              /\ executor'[v][s].i <= h /\ h <= executor'[v][s].n
              /\ items'[s][conn'[v][s].ts][h].key = k
    BY <2>1, <2>5, <2>7
  <2>. QED  BY <2>8 DEF LoopAhead, s
<1>10. ASSUME pc[v] = "commit", CommitTest(v, s) \/ CommitSet(v, s) \/ CommitDone(v, s)
       PROVE  /\ s \in pending_coms[v] => s \in pending_coms'[v]
              /\ ~ CommitSent(v, k)
  BY <1>10 DEF CommitTest, CommitSet, CommitDone, workerVars, CommitSent
<1>11. ASSUME LoopAhead(v, k)
       PROVE  /\ e \in ExecutorState /\ ts_c \in Timestamps
              /\ \E j \in DOMAIN items[s][ts_c] : /\ j \in Nat /\ e.i <= j /\ j <= e.n
                                                  /\ items[s][ts_c][j].key = k
  <2>1. ts_c \in Timestamps
    BY <1>2, <1>11, MessageFields DEF LoopAhead, TypeOK, MessagesOK
  <2>2. items[s][ts_c] \in Seq(Item)
    BY <1>2, <2>1 DEF TypeOK
  <2>3. \A j \in DOMAIN items[s][ts_c] : j \in Nat
    <3>1. \A q \in Seq(Item) : \A j \in DOMAIN q : j \in Nat
      OBVIOUS
    <3>. QED  BY <2>2, <3>1, Zenon
  <2>4. \E j \in DOMAIN items[s][ts_c] : e.i <= j /\ j <= e.n /\ items[s][ts_c][j].key = k
    BY <1>11 DEF LoopAhead
  <2>. QED  BY <1>2, <2>1, <2>3, <2>4 DEF TypeOK
<1>12. ASSUME LoopAhead(v, k), items' = items, conn' = conn, pc[v] = "commit",
              \/ executor'[v][s] = [e EXCEPT !.at = "set"]
              \/ /\ executor'[v][s] = NextItem(e)
                 /\ CurrentKey(v, s) = k => Visible(v, k)'
       PROVE  LoopAhead(v, k)' \/ Visible(v, k)'
  <2>1. PICK j \in DOMAIN items[s][ts_c] : /\ j \in Nat /\ e.i <= j /\ j <= e.n
                                           /\ items[s][ts_c][j].key = k
    BY <1>11, <1>12
  <2>2. e \in ExecutorState /\ e.i \in Nat /\ e.n \in Nat
    BY <1>11, <1>12 DEF ExecutorState
  <2>3. CASE executor'[v][s] = [e EXCEPT !.at = "set"]
    <3>1. executor'[v][s].at = "set" /\ executor'[v][s].i = e.i /\ executor'[v][s].n = e.n
      BY <2>2, <2>3 DEF ExecutorState
    <3>. QED  BY <1>12, <2>1, <3>1 DEF LoopAhead
  <2>4. CASE executor'[v][s] = NextItem(e) /\ j # e.i
    <3>1. executor'[v][s].at = "test" /\ executor'[v][s].i = e.i + 1 /\ executor'[v][s].n = e.n
      BY <2>2, <2>4 DEF ExecutorState, NextItem
    <3>2. e.i + 1 <= j
      <4>. HIDE DEF e
      <4>. QED  BY <2>1, <2>2, <2>4
    <3>. QED  BY <1>12, <2>1, <3>1, <3>2 DEF LoopAhead
  <2>5. CASE executor'[v][s] = NextItem(e) /\ j = e.i
    <3>1. CurrentKey(v, s) = k
      BY <2>1, <2>5 DEF CurrentKey
    <3>2. e.at # executor'[v][s].at \/ e.i # executor'[v][s].i
      BY <2>2, <2>5 DEF ExecutorState, NextItem
    <3>3. executor'[v][s] # [e EXCEPT !.at = "set"]
      BY <2>2, <2>5 DEF ExecutorState, NextItem
    <3>. QED  BY <1>12, <3>1, <3>3
  <2>. QED  BY <1>12, <2>3, <2>4, <2>5
<1>13. ASSUME pc[v] = "commit", CommitTest(v, s)
       PROVE  s \in pending_coms'[v] \/ CommitSent(v, k)' \/ LoopAhead(v, k)' \/ Visible(v, k)'
  <2>1. /\ conn' = conn /\ items' = items /\ latest_commit' = latest_commit
        /\ executor' = [executor EXCEPT ![v][s] =
                          IF IsNewer(CurrentKey(v, s), ts_c)
                          THEN [e EXCEPT !.at = "set"] ELSE NextItem(e)]
        /\ e.at = "test" /\ e.i <= e.n
    BY <1>13 DEF CommitTest, CurrentKey, tableVars
  <2>2. executor'[v][s] = IF IsNewer(CurrentKey(v, s), ts_c)
                          THEN [e EXCEPT !.at = "set"] ELSE NextItem(e)
    BY <1>2, <2>1 DEF TypeOK
  <2>3. ASSUME ~ IsNewer(CurrentKey(v, s), ts_c), CurrentKey(v, s) = k
        PROVE  Visible(v, k)'
    <3>1. conn[v][s].type = "COMMIT"
      BY <1>2, <2>1 DEF MessagesOK
    <3>2. ts_c = trx_ts[trx[v]]
      BY <1>2, <3>1 DEF MessagesOK
    <3>3. latest_commit[k] \in Nat /\ trx_ts[trx[v]] \in Nat
      BY <1>1, <1>2 DEF TypeOK, TsOrEmpty
    <3>4. latest_commit[k] >= trx_ts[trx[v]]
      BY <2>3, <3>2, <3>3 DEF IsNewer
    <3>. QED  BY <1>5, <1>13, <3>4 DEF Visible
  <2>4. LoopAhead(v, k) => LoopAhead(v, k)' \/ Visible(v, k)'
    BY <1>12, <1>13, <2>1, <2>2, <2>3
  <2>. QED  BY <1>5, <1>6, <1>10, <1>13, <2>4
<1>14. ASSUME pc[v] = "commit", CommitSet(v, s)
       PROVE  s \in pending_coms'[v] \/ CommitSent(v, k)' \/ LoopAhead(v, k)' \/ Visible(v, k)'
  <2>1. /\ conn' = conn /\ items' = items /\ e.at = "set"
        /\ executor' = [executor EXCEPT ![v][s] = NextItem(e)]
        /\ latest_commit' = [latest_commit EXCEPT ![CurrentKey(v, s)] = CommittedTs(@, ts_c)]
    BY <1>14 DEF CommitSet, CurrentKey
  <2>2. executor'[v][s] = NextItem(e)
    BY <1>2, <2>1 DEF TypeOK
  <2>3. ASSUME CurrentKey(v, s) = k
        PROVE  Visible(v, k)'
    <3>1. latest_commit'[k] = ts_c
      BY <1>2, <2>1, <2>3 DEF TypeOK, CommittedTs
    <3>2. ts_c = trx_ts[trx[v]]
      BY <1>2, <2>1, StoredKey
    <3>3. trx_ts[trx[v]] \in Nat
      BY <1>1 DEF TypeOK, TsOrEmpty
    <3>. QED  BY <1>1, <1>4, <1>14, <3>1, <3>2, <3>3 DEF Visible
  <2>4. LoopAhead(v, k) => LoopAhead(v, k)' \/ Visible(v, k)'
    BY <1>12, <1>14, <2>1, <2>2, <2>3
  <2>. QED  BY <1>5, <1>6, <1>10, <1>14, <2>4
<1>15. ASSUME pc[v] = "commit", CommitDone(v, s)
       PROVE  s \in pending_coms'[v] \/ CommitSent(v, k)' \/ LoopAhead(v, k)' \/ Visible(v, k)'
  <2>1. ASSUME LoopAhead(v, k)
        PROVE  FALSE
    <3>1. PICK j \in DOMAIN items[s][ts_c] : j \in Nat /\ e.i <= j /\ j <= e.n
      BY <1>11, <2>1
    <3>2. e.i \in Nat /\ e.n \in Nat
      BY <1>11, <2>1 DEF ExecutorState
    <3>3. e.i > e.n
      BY <1>15 DEF CommitDone
    <3>. HIDE DEF e
    <3>. QED  BY <3>1, <3>2, <3>3
  <2>. QED  BY <1>5, <1>6, <1>10, <1>15, <2>1
<1>16. ASSUME pc[v] = "commit", NEW r \in Servers, r # s,
              CommitBegin(v, r) \/ CommitTest(v, r) \/ CommitSet(v, r) \/ CommitDone(v, r)
       PROVE  /\ s \in pending_coms[v] => s \in pending_coms'[v]
              /\ conn'[v][s] = conn[v][s] /\ executor'[v][s] = executor[v][s]
  <2>1. ASSUME CommitBegin(v, r) \/ CommitTest(v, r) \/ CommitSet(v, r)
        PROVE  /\ pending_coms' = pending_coms /\ conn' = conn
               /\ executor'[v][s] = executor[v][s]
    <3>1. /\ pending_coms' = pending_coms /\ conn' = conn
          /\ \E x : executor' = [executor EXCEPT ![v][r] = x]
      BY <2>1, Zenon DEF CommitBegin, CommitTest, CommitSet, workerVars
    <3>. QED  BY <1>2, <1>16, <3>1 DEF TypeOK
  <2>2. ASSUME CommitDone(v, r)
        PROVE  /\ pending_coms' = pending_coms
               /\ conn'[v][s] = conn[v][s] /\ executor'[v][s] = executor[v][s]
    BY <1>16, <2>2 DEF CommitDone, Send, workerVars, TypeOK
  <2>. QED  BY <1>16, <2>1, <2>2
<1>17. ASSUME pc[v] = "commit", Quiet(v)
       PROVE  s \in pending_coms'[v] \/ CommitSent(v, k)' \/ LoopAhead(v, k)' \/ Visible(v, k)'
  <2>1. CASE conn'[v][s] = conn[v][s] /\ executor'[v][s] = executor[v][s]
    BY <1>7, <1>17, <2>1 DEF Quiet
  <2>2. CASE conn[v][s].type # "COMMIT"
    <3>1. ~ CommitSent(v, k) /\ ~ LoopAhead(v, k)
      BY <1>2, <2>2 DEF CommitSent, LoopAhead, MessagesOK
    <3>. QED  BY <1>5, <1>6, <1>17, <3>1 DEF Quiet
  <2>. QED  BY <1>2, <1>17, <2>1, <2>2 DEF Quiet
<1>. QED
  <2>1. CASE BeginCommit(v)
    BY <1>3, <2>1
  <2>2. ASSUME pc[v] = "commit", NEW r \in Servers,
               \/ CommitBegin(v, r) \/ CommitTest(v, r) \/ CommitSet(v, r) \/ CommitDone(v, r)
        PROVE  s \in pending_coms'[v] \/ CommitSent(v, k)' \/ LoopAhead(v, k)' \/ Visible(v, k)'
    <3>1. CASE r = s
      BY <1>9, <1>13, <1>14, <1>15, <2>2, <3>1
    <3>2. CASE r # s
      BY <1>7, <1>16, <2>2, <3>2
    <3>. QED  BY <3>1, <3>2
  <2>. HIDE DEF s
  <2>3. s \in pending_coms'[v] \/ CommitSent(v, k)' \/ LoopAhead(v, k)' \/ Visible(v, k)'
    BY <1>0, <1>3, <1>8, <1>17, <2>1, <2>2 DEF WriterStep, s
  <2>. QED  BY <2>3 DEF s

\* When put_all returns, its transaction is visible on all its keys, and that
\* stays so.
LEMMA ReturnedPutsStep ==
    ASSUME TypeOK, ControlOK, MessagesOK, LoopOK, UniqueTs, ItemsOK,
           ComparedOK, CommittingOK, ReturnedPutsOK, [Next]_vars
    PROVE  ReturnedPutsOK'
<1>. SUFFICES ASSUME NEW t \in Trxs, PutReturned(t)', NEW k \in WriteSet[t]
              PROVE  latest_commit'[k] >= trx_ts'[t]
  BY DEF ReturnedPutsOK
<1>1. k \in Keys /\ ServerOf[k] \in Servers
  BY ConstantsAssumption
<1>2. latest_commit[k] >= trx_ts[t] /\ trx_ts'[t] = trx_ts[t]
  <2>1. CASE PutReturned(t)
    <3>1. ASSUME NEW w \in Workers, PutAll(w)
          PROVE  trx_ts'[t] = trx_ts[t]
      BY <2>1, <3>1 DEF PutAll, PutReturned, TypeOK
    <3>2. trx_ts'[t] = trx_ts[t]
      BY <3>1, Writers DEF OneWriter
    <3>. QED  BY <2>1, <3>2 DEF ReturnedPutsOK
  <2>2. ASSUME NEW w \in Workers, PutAllReturn(w), trx[w] = t
        PROVE  latest_commit[k] >= trx_ts[t] /\ trx_ts' = trx_ts
    <3>1. /\ pc[w] = "commit" /\ pending_coms[w] = {} /\ trx_ts' = trx_ts
          /\ conn[w][ServerOf[k]] = NoMsg
      BY <1>1, <2>2 DEF PutAllReturn, Idle
    <3>2. ~ CommitSent(w, k) /\ ~ LoopAhead(w, k)
      BY <1>1, <3>1 DEF CommitSent, LoopAhead, MessagesOK, NoMsg
    <3>. QED  BY <2>2, <3>1, <3>2 DEF CommittingOK
  <2>. QED  BY <2>1, <2>2, PutReturns
<1>3. latest_commit[k] \in Nat /\ latest_commit'[k] \in Nat /\ latest_commit'[k] >= latest_commit[k]
  BY <1>1, LatestGrows
<1>4. trx_ts[t] \in Nat
  BY DEF TypeOK, TsOrEmpty
<1>. QED  BY <1>2, <1>3, <1>4

\* The write side: the rounds of RAMPFastInv and how far a commit has come.
CommitRound == RoundInv /\ CommitInv

\* Before the first put nothing is being committed and no put has a timestamp.
LEMMA CommitInit ==
    ASSUME Init
    PROVE  CommitInv
<1>. USE DEF Init
<1>1. ComparedOK /\ AccessOK /\ PendingOK /\ CommittingOK
  BY DEF ComparedOK, AccessOK, PendingOK, CommittingOK, Receiving
<1>2. ReturnedPutsOK
  BY ConstantsAssumption DEF ReturnedPutsOK
<1>. QED  BY <1>1, <1>2 DEF CommitInv

\* One step keeps it, as long as commits of a key stay apart.
LEMMA CommitRoundStep ==
    ASSUME DistinctTs, PureTrxs, CommitAssigns, CommitsApart, CommitRound, [Next]_vars
    PROVE  CommitRound'
<1>. USE DEF CommitRound, RoundInv, WriteInv, CommitInv
<1>1. WriteInv'
  BY TypeStep, ControlStep, MessagesStep, LoopStep, UniqueTsStep, ItemsStep,
     PrepareStep, CommitStep, VisibleStep
<1>2. /\ ReturnedOK(Workers)' /\ LatestOK(Workers)'
      /\ RequestsOK(Workers)' /\ AnswersOK(Workers)'
  <2>1. PICK W \in SUBSET Workers : W = Workers
    OBVIOUS
  <2>2. ReturnedOK(W) /\ LatestOK(W) /\ RequestsOK(W) /\ AnswersOK(W)
    BY <2>1
  <2>3. ReturnedOK(W)' /\ LatestOK(W)' /\ RequestsOK(W)' /\ AnswersOK(W)'
    BY <2>2, ReturnedStep, LatestStep, RequestsStep, AnswersStep
  <2>. QED  BY <2>1, <2>3
<1>3. ComparedOK' /\ AccessOK' /\ PendingOK'
  BY ComparedStep, AccessStep, PendingStep
<1>4. CommittingOK' /\ ReturnedPutsOK'
  BY CommittingStep, ReturnedPutsStep
<1>. QED  BY <1>1, <1>2, <1>3, <1>4

-----------------------------------------------------------------------------
(* get_all *)

\* Worker by worker, as a step that leaves every variable alone does too.
Recorded ==
    \A w \in Workers :
        floor'[w] = IF pc[w] = "get_all" /\ pc'[w] = "round1"
                    THEN [k \in Keys |-> NewestReturnedPut(k)]
                    ELSE floor[w]

\* Only get_all records.
LEMMA FloorMoves ==
    ASSUME TypeOK, Recorded, NEW v \in Workers
    PROVE  /\ GetAll(v) => floor'[v] = [k \in Keys |-> NewestReturnedPut(k)]
           /\ pc[v] # "get_all" \/ pc'[v] # "round1" => floor'[v] = floor[v]
<1>1. GetAll(v) => pc[v] = "get_all" /\ pc'[v] = "round1"
  BY DEF GetAll, TypeOK
<1>. QED  BY <1>1 DEF Recorded

\* What get_all records is a timestamp, and latest_commit is not behind it.
LEMMA RecordedIsVisible ==
    ASSUME TypeOK, ReturnedPutsOK, NEW k \in Keys
    PROVE  NewestReturnedPut(k) \in TsOrEmpty /\ latest_commit[k] >= NewestReturnedPut(k)
<1>. DEFINE P == {trx_ts[t] : t \in {u \in Trxs : k \in WriteSet[u] /\ PutReturned(u)}}
            S == {0} \cup P
<1>1. \A t \in Trxs : trx_ts[t] \in TsOrEmpty
  BY DEF TypeOK
<1>2. P \subseteq TsOrEmpty
  BY <1>1
<1>3. S \subseteq 0..MaxTs /\ S # {}
  BY <1>2, ConstantsAssumption DEF TsOrEmpty
<1>4. Max(S) \in S
  BY <1>3, ConstantsAssumption, MaxInSet
<1>5. NewestReturnedPut(k) = Max(S)
  BY DEF NewestReturnedPut
<1>6. latest_commit[k] \in Nat
  BY DEF TypeOK, TsOrEmpty
<1>7. \A n \in S : latest_commit[k] >= n
  BY <1>6 DEF ReturnedPutsOK
<1>. QED  BY <1>3, <1>4, <1>5, <1>7 DEF TsOrEmpty

\* What was recorded stays visible.
LEMMA FloorStep ==
    ASSUME TypeOK, ControlOK, MessagesOK, LoopOK, UniqueTs, ItemsOK, ComparedOK,
           ReturnedPutsOK, FloorOK(Keys), [Next]_vars, Recorded
    PROVE  FloorOK(Keys)'
<1>. SUFFICES ASSUME NEW v \in Workers, NEW k \in Keys
              PROVE  floor'[v][k] \in TsOrEmpty /\ latest_commit'[k] >= floor'[v][k]
  BY DEF FloorOK
<1>1. \/ floor'[v][k] = floor[v][k]
      \/ floor'[v][k] = NewestReturnedPut(k)
  BY DEF Recorded
<1>2. floor'[v][k] \in TsOrEmpty /\ latest_commit[k] >= floor'[v][k]
  BY <1>1, RecordedIsVisible DEF FloorOK
<1>3. latest_commit[k] \in Nat /\ latest_commit'[k] \in Nat /\ latest_commit'[k] >= latest_commit[k]
  BY LatestGrows
<1>4. floor'[v][k] \in Nat
  BY <1>2 DEF TsOrEmpty
<1>. QED  BY <1>2, <1>3, <1>4

\* A server's answer is at least as new as what the get recorded: a first-round
\* GET returns the latest committed version, and the second round asks only for
\* versions newer than those the first one returned.
LEMMA FreshAnswersStep ==
    ASSUME NEW K \in SUBSET Keys, NEW W \in SUBSET Workers,
           TypeOK, ControlOK, MessagesOK, UniqueTs, ItemsOK, VisibleIsPrepared,
           LatestOK(W), RequestsOK(W), FloorOK(K), FreshAnswersOK(K, W), FreshRoundsOK(K, W),
           [Next]_vars, Recorded
    PROVE  FreshAnswersOK(K, W)'
<1>. DEFINE Fresh(w) ==
       /\ pc[w] = "round2" => \A k \in todo[w] \cap K : v_latest[w][k] >= floor[w][k]
       /\ \A s \in Servers :
             /\ conn[w][s].type = "GET" /\ pc[w] = "round2" /\ conn[w][s].key \in K =>
                   conn[w][s].ts >= floor[w][conn[w][s].key]
             /\ conn[w][s].type = "RESULT" /\ conn[w][s].key \in K =>
                   conn[w][s].item.ts >= floor[w][conn[w][s].key]
<1>. SUFFICES ASSUME NEW v \in Workers, v \in W PROVE Fresh(v)'
  BY DEF FreshAnswersOK
<1>1. CASE pc'[v] \notin {"round1", "round2"}
  <2>1. \A s \in Servers : conn'[v][s].type \notin {"GET", "RESULT"}
    BY <1>1, MessagesStep DEF MessagesOK, Reading
  <2>. QED  BY <1>1, <2>1
<1>2. CASE GetAll(v)
  <2>1. pc[v] = "get_all" /\ pc'[v] = "round1" /\ conn' = conn
    BY <1>2 DEF GetAll, TypeOK
  <2>2. \A s \in Servers : conn[v][s].type \notin {"GET", "RESULT"}
    BY <2>1 DEF MessagesOK, Reading
  <2>. QED  BY <2>1, <2>2
<1>3. CASE CheckMissing(v)
  <2>1. /\ pc[v] = "round1" /\ todo[v] = {} /\ conn' = conn
        /\ \A s \in Servers : conn[v][s].type = "none"
    BY <1>3 DEF CheckMissing, AllAnswered, Idle, NoMsg
  <2>2. trx[v] \in Trxs /\ floor'[v] = floor[v]
    BY <2>1, FloorMoves DEF ControlOK, Running
  <2>3. ASSUME pc'[v] = "round2", NEW k \in todo'[v] \cap K
        PROVE  v_latest'[v][k] >= floor'[v][k]
    <3>1. TrxType = "RAMP_FAST"
      BY <1>3, <2>3 DEF CheckMissing, TypeOK
    <3>2. k \in ReadSet[trx[v]] /\ LatestSibling(v, k) > ret[v][k].ts
      BY <1>3, <2>3, <3>1 DEF CheckMissing, TypeOK
    <3>3. k \in Keys /\ ServerOf[k] \in Servers
      BY <2>2, <3>2, ConstantsAssumption
    <3>4. v_latest'[v][k] = LatestSibling(v, k)
      BY <1>3, <3>1, <3>3 DEF CheckMissing, TypeOK
    <3>5. ret[v][k].ts >= floor[v][k]
      BY <2>1, <3>2, <3>3 DEF FreshRoundsOK, Reading
    <3>6. ret[v][k] \in Item /\ floor[v][k] \in TsOrEmpty /\ LatestSibling(v, k) \in TsOrEmpty
      BY <3>3, LatestSiblingMax DEF TypeOK, FloorOK
    <3>7. ret[v][k].ts \in Nat /\ floor[v][k] \in Nat /\ LatestSibling(v, k) \in Nat
      BY <3>6 DEF Item, TsOrEmpty
    <3>8. LatestSibling(v, k) >= floor[v][k]
      BY <3>2, <3>5, <3>7
    <3>. QED  BY <2>2, <3>4, <3>8
  <2>. QED  BY <2>1, <2>3
<1>4. ASSUME pc'[v] = pc[v], pc[v] \in {"round1", "round2"}
      PROVE  floor'[v] = floor[v]
  BY <1>4, FloorMoves
<1>5. ASSUME pc'[v] = pc[v], v_latest'[v] = v_latest[v], pc[v] \in {"round1", "round2"},
             NEW j \in Keys, SendGet(v, j)
      PROVE  Fresh(v)'
  <2>. DEFINE s == ServerOf[j]
  <2>1. /\ j \in todo[v] /\ todo'[v] = todo[v] \ {j} /\ s \in Servers
        /\ conn'[v][s].type = "GET" /\ conn'[v][s].key = j
        /\ pc[v] = "round2" => conn'[v][s].ts = v_latest[v][j]
        /\ \A r \in Servers : r # s => conn'[v][r] = conn[v][r]
    BY <1>5, ConstantsAssumption DEF SendGet, Send, TypeOK
  <2>2. floor'[v] = floor[v]
    BY <1>4, <1>5
  <2>. HIDE DEF s
  <2>. QED  BY <1>5, <2>1, <2>2 DEF FreshAnswersOK
<1>6. ASSUME pc'[v] = pc[v], v_latest'[v] = v_latest[v], pc[v] \in {"round1", "round2"},
             NEW s \in Servers, RecvResult(v, s)
      PROVE  Fresh(v)'
  <2>1. /\ todo' = todo /\ conn'[v][s] = NoMsg
        /\ \A r \in Servers : r # s => conn'[v][r] = conn[v][r]
    BY <1>6 DEF RecvResult, Send, TypeOK
  <2>2. floor'[v] = floor[v]
    BY <1>4, <1>6
  <2>. QED  BY <1>6, <2>1, <2>2 DEF FreshAnswersOK, NoMsg
<1>7. ASSUME pc'[v] = pc[v], v_latest'[v] = v_latest[v], pc[v] \in {"round1", "round2"},
             NEW s \in Servers, Get(v, s)
      PROVE  Fresh(v)'
  <2>. DEFINE k == conn[v][s].key
              ts == RequestedVersion(k, conn[v][s].ts)
              item == GetItemByVer(s, k, ts)
  <2>1. /\ todo' = todo /\ conn[v][s].type = "GET" /\ conn'[v][s] = Result(k, item)
        /\ \A r \in Servers : r # s => conn'[v][r] = conn[v][r]
    BY <1>7 DEF Get, Send, workerVars, TypeOK
  <2>2. k \in Keys /\ conn[v][s].ts \in TsOrEmpty /\ s = ServerOf[k]
    BY <2>1, MessageFields DEF TypeOK, MessagesOK
  <2>3. ts \in TsOrEmpty
    BY <2>2, RequestedVersionType
  <2>4. Available(k, ts) /\ (k \in K => ts >= floor[v][k])
    <3>1. CASE pc[v] = "round1"
      <4>1. ts = latest_commit[k]
        BY <2>1, <3>1 DEF RequestedVersion, RequestsOK
      <4>. QED  BY <2>2, <4>1 DEF VisibleIsPrepared, Available, FloorOK
    <3>2. CASE pc[v] = "round2"
      <4>1. ts = v_latest[v][k] /\ ts = conn[v][s].ts
        BY <2>1, <3>2 DEF RequestedVersion, RequestsOK
      <4>. QED  BY <2>1, <2>2, <3>2, <4>1 DEF LatestOK, FreshAnswersOK
    <3>. QED  BY <1>7, <3>1, <3>2
  <2>5. item.ts = ts
    BY <2>2, <2>3, <2>4, GetReturns
  <2>6. floor'[v] = floor[v]
    BY <1>4, <1>7
  <2>7. conn'[v][s].type = "RESULT" /\ conn'[v][s].key = k /\ conn'[v][s].item = item
    BY <2>1 DEF Result
  <2>. HIDE DEF item, ts, k
  <2>. QED  BY <1>7, <2>1, <2>4, <2>5, <2>6, <2>7 DEF FreshAnswersOK
<1>8. ASSUME pc'[v] = pc[v], v_latest'[v] = v_latest[v], pc[v] \in {"round1", "round2"},
             todo'[v] = todo[v], GetsKept(v)
      PROVE  Fresh(v)'
  <2>1. floor'[v] = floor[v]
    BY <1>4, <1>8
  <2>. QED  BY <1>8, <2>1 DEF FreshAnswersOK, GetsKept
<1>. HIDE DEF Fresh
<1>. QED  BY <1>1, <1>2, <1>3, <1>5, <1>6, <1>7, <1>8, ReaderSteps DEF ReaderStep

\* Each key of a first round is asked for, and its answer is recent enough; the
\* second round only replaces items by such answers.
LEMMA FreshRoundsStep ==
    ASSUME NEW K \in SUBSET Keys, NEW W \in SUBSET Workers,
           TypeOK, ControlOK, MessagesOK, FreshAnswersOK(K, W), FreshRoundsOK(K, W),
           [Next]_vars, Recorded
    PROVE  FreshRoundsOK(K, W)'
<1>. DEFINE Sent(w, k) == /\ pc[w] = "round1"
                          /\ conn[w][ServerOf[k]].type \in {"GET", "RESULT"}
                          /\ conn[w][ServerOf[k]].key = k
            Recent(w, k) == ret[w][k].ts >= floor[w][k]
            Good(w, k) == (pc[w] = "round1" /\ k \in todo[w]) \/ Sent(w, k) \/ Recent(w, k)
<1>. SUFFICES ASSUME NEW v \in Workers, v \in W, Reading(v)', NEW k \in ReadSet[trx'[v]] \cap K
              PROVE  Good(v, k)'
  BY DEF FreshRoundsOK
<1>0. pc'[v] \in {"round1", "round2"}
  BY DEF Reading
<1>1. trx'[v] \in Trxs
  BY <1>0, ControlStep DEF ControlOK, Running
<1>2. k \in Keys /\ ServerOf[k] \in Servers
  BY <1>1, ConstantsAssumption
<1>3. CASE GetAll(v)
  <2>1. pc'[v] = "round1" /\ todo'[v] = ReadSet[trx[v]] /\ trx' = trx
    BY <1>3 DEF GetAll, TypeOK
  <2>. QED  BY <2>1
<1>4. CASE CheckMissing(v)
  <2>1. /\ pc[v] = "round1" /\ todo[v] = {} /\ trx' = trx /\ ret' = ret
        /\ conn[v][ServerOf[k]].type = "none"
    BY <1>2, <1>4 DEF CheckMissing, AllAnswered, Idle, NoMsg
  <2>2. floor'[v] = floor[v]
    BY <2>1, FloorMoves
  <2>3. Recent(v, k)
    BY <2>1 DEF FreshRoundsOK, Reading
  <2>. QED  BY <2>1, <2>2, <2>3
<1>5. ASSUME pc'[v] = pc[v], trx'[v] = trx[v]
      PROVE  Good(v, k) /\ floor'[v] = floor[v]
  <2>1. Reading(v) /\ k \in ReadSet[trx[v]] \cap K
    BY <1>0, <1>5 DEF Reading
  <2>2. floor'[v] = floor[v]
    BY <1>0, <1>5, FloorMoves
  <2>. QED  BY <2>1, <2>2 DEF FreshRoundsOK
<1>6. ASSUME pc'[v] = pc[v], trx'[v] = trx[v], NEW j \in Keys, SendGet(v, j)
      PROVE  Good(v, k)'
  <2>1. /\ ret' = ret /\ todo'[v] = todo[v] \ {j} /\ ServerOf[j] \in Servers
        /\ conn[v][ServerOf[j]] = NoMsg
        /\ conn'[v][ServerOf[j]].type = "GET" /\ conn'[v][ServerOf[j]].key = j
        /\ \A s \in Servers : s # ServerOf[j] => conn'[v][s] = conn[v][s]
    BY <1>6, ConstantsAssumption DEF SendGet, Send, TypeOK
  <2>2. CASE pc[v] = "round1" /\ k \in todo[v]
    <3>1. CASE k = j
      BY <1>6, <2>1, <2>2, <3>1
    <3>2. CASE k # j
      BY <1>6, <2>1, <2>2, <3>2
    <3>. QED  BY <3>1, <3>2
  <2>3. CASE Sent(v, k)
    <3>1. ServerOf[k] # ServerOf[j]
      BY <2>1, <2>3 DEF NoMsg
    <3>. QED  BY <1>2, <1>6, <2>1, <2>3, <3>1
  <2>4. CASE Recent(v, k)
    BY <1>5, <1>6, <2>1, <2>4
  <2>. QED  BY <1>5, <1>6, <2>2, <2>3, <2>4
<1>7. ASSUME pc'[v] = pc[v], trx'[v] = trx[v], NEW s \in Servers, RecvResult(v, s)
      PROVE  Good(v, k)'
  <2>1. /\ todo' = todo /\ conn[v][s].type = "RESULT"
        /\ \A r \in Servers : r # s => conn'[v][r] = conn[v][r]
        /\ ret'[v] = [ret[v] EXCEPT ![conn[v][s].key] = conn[v][s].item]
        /\ ret[v] \in [Keys -> Item]
    BY <1>7 DEF RecvResult, Send, TypeOK
  <2>2. CASE k = conn[v][s].key
    <3>1. ret'[v][k] = conn[v][s].item
      BY <1>2, <2>1, <2>2
    <3>2. conn[v][s].item.ts >= floor[v][k]
      BY <2>1, <2>2 DEF FreshAnswersOK
    <3>. QED  BY <1>5, <1>7, <3>1, <3>2
  <2>3. CASE k # conn[v][s].key
    <3>1. ret'[v][k] = ret[v][k]
      BY <1>2, <2>1, <2>3
    <3>2. ASSUME Sent(v, k) PROVE Sent(v, k)'
      <4>1. ServerOf[k] # s
        BY <2>3, <3>2
      <4>. QED  BY <1>2, <1>7, <2>1, <3>2, <4>1
    <3>3. Recent(v, k) => Recent(v, k)'
      BY <1>5, <1>7, <3>1
    <3>. HIDE DEF Sent, Recent
    <3>. QED  BY <1>5, <1>7, <2>1, <3>2, <3>3
  <2>. QED  BY <2>2, <2>3
<1>8. ASSUME pc'[v] = pc[v], trx'[v] = trx[v], NEW s \in Servers, Get(v, s)
      PROVE  Good(v, k)'
  <2>1. /\ todo' = todo /\ ret' = ret
        /\ \A r \in Servers : r # s => conn'[v][r] = conn[v][r]
        /\ conn'[v][s].type = "RESULT" /\ conn'[v][s].key = conn[v][s].key
    BY <1>8 DEF Get, Send, Result, workerVars, TypeOK
  <2>2. ASSUME Sent(v, k) PROVE Sent(v, k)'
    BY <1>2, <1>8, <2>1, <2>2
  <2>3. Recent(v, k) => Recent(v, k)'
    BY <1>5, <1>8, <2>1
  <2>. HIDE DEF Sent, Recent
  <2>. QED  BY <1>5, <1>8, <2>1, <2>2, <2>3
<1>9. ASSUME pc'[v] = pc[v], trx'[v] = trx[v], ret'[v] = ret[v], todo'[v] = todo[v], GetsKept(v)
      PROVE  Good(v, k)'
  <2>1. ASSUME Sent(v, k) PROVE Sent(v, k)'
    BY <1>2, <1>9, <2>1 DEF GetsKept
  <2>2. Recent(v, k) => Recent(v, k)'
    BY <1>5, <1>9
  <2>. HIDE DEF Sent, Recent
  <2>. QED  BY <1>5, <1>9, <2>1, <2>2
<1>. HIDE DEF Good
<1>. QED  BY <1>0, <1>3, <1>4, <1>6, <1>7, <1>8, <1>9, ReaderSteps DEF ReaderStep

\* A get returns when all its items are recent enough.
LEMMA FreshReadsStep ==
    ASSUME NEW K \in SUBSET Keys, NEW W \in SUBSET Workers,
           TypeOK, ControlOK, MessagesOK, FreshRoundsOK(K, W), FreshReadsOf(K, W),
           [Next]_vars, Recorded
    PROVE  FreshReadsOf(K, W)'
<1>. SUFFICES ASSUME NEW v \in Workers, v \in W, pc'[v] = "returned", NEW k \in ReadSet[trx'[v]] \cap K
              PROVE  ret'[v][k].ts >= floor'[v][k]
  BY DEF FreshReadsOf
<1>1. floor'[v] = floor[v]
  BY FloorMoves
<1>2. CASE pc[v] = "returned" /\ trx'[v] = trx[v] /\ ret'[v] = ret[v]
  BY <1>1, <1>2 DEF FreshReadsOf
<1>3. CASE ReadSet[trx'[v]] = {}
  BY <1>3
<1>4. CASE GetAllReturn(v) \/ CheckMissing(v)
  <2>1. /\ Reading(v) /\ todo[v] = {} /\ trx' = trx /\ ret' = ret
        /\ \A s \in Servers : conn[v][s].type = "none"
    BY <1>4 DEF GetAllReturn, CheckMissing, AllAnswered, Idle, NoMsg, Reading
  <2>2. trx[v] \in Trxs
    BY <2>1 DEF ControlOK, Running, Reading
  <2>3. ServerOf[k] \in Servers
    BY <2>1, <2>2, ConstantsAssumption
  <2>4. ret[v][k].ts >= floor[v][k]
    BY <2>1, <2>3 DEF FreshRoundsOK
  <2>. QED  BY <1>1, <2>1, <2>4
<1>. QED  BY <1>2, <1>3, <1>4, ReaderSteps DEF ReaderStep

-----------------------------------------------------------------------------
(* Answers from a cache *)

\* An answer from a cache moves no worker and one connection.
LEMMA AnswerFrame ==
    ASSUME TypeOK, NEW W \in SUBSET Workers, NEW w \in Workers, NEW s \in Servers,
           AnswerGet(w, s, W)
    PROVE  /\ UNCHANGED <<workerVars, executor, tableVars>>
           /\ pc[w] = "round1" /\ conn[w][s].type = "GET"
           /\ conn'[w][s].type = "RESULT" /\ conn'[w][s].key = conn[w][s].key
           /\ \A v \in Workers, r \in Servers :
                 v # w \/ r # s => conn'[v][r] = conn[v][r]
<1>1. PICK item \in Item : conn' = [conn EXCEPT ![w][s] = Result(conn[w][s].key, item)]
  BY DEF AnswerGet, Send
<1>2. conn'[w][s] = Result(conn[w][s].key, item)
  BY <1>1 DEF TypeOK
<1>3. \A v \in Workers, r \in Servers : v # w \/ r # s => conn'[v][r] = conn[v][r]
  BY <1>1 DEF TypeOK
<1>. QED  BY <1>2, <1>3 DEF AnswerGet, Result

\* It concerns neither the connections in access_coms nor those to commit on.
LEMMA LooseAccess ==
    ASSUME TypeOK, ControlOK, MessagesOK, AccessOK, PendingOK,
           NEW W \in SUBSET Workers, [LooseNext(W)]_vars
    PROVE  AccessOK' /\ PendingOK'
<1>1. CASE [Next]_vars
  BY <1>1, AccessStep, PendingStep
<1>2. ASSUME NEW w \in Workers, NEW s \in Servers, AnswerGet(w, s, W)
      PROVE  AccessOK' /\ PendingOK'
  <2>1. /\ UNCHANGED <<pc, trx, todo, access_coms, pending_coms>>
        /\ pc[w] = "round1"
        /\ \A v \in Workers, r \in Servers : v # w => conn'[v][r] = conn[v][r]
    BY <1>2, AnswerFrame DEF workerVars
  <2>2. AccessOK'
    BY <2>1 DEF AccessOK
  <2>3. \A v \in Workers : pending_coms[v] \subseteq Servers
    BY DEF TypeOK
  <2>4. PendingOK'
    BY <2>1, <2>3 DEF PendingOK
  <2>. QED  BY <2>2, <2>4
<1>. QED  BY <1>1, <1>2 DEF LooseNext

\* Nor does it let a put return.
LEMMA LoosePutReturns ==
    ASSUME TypeOK, MessagesOK, ControlOK, NEW W \in SUBSET Workers, [LooseNext(W)]_vars,
           NEW t \in Trxs, WriteSet[t] # {}, PutReturned(t)'
    PROVE  PutReturned(t) \/ \E w \in Workers : PutAllReturn(w) /\ trx[w] = t
<1>1. CASE [Next]_vars
  BY <1>1, PutReturns
<1>2. ASSUME NEW w \in Workers, NEW s \in Servers, AnswerGet(w, s, W)
      PROVE  PutReturned(t)
  BY <1>2 DEF AnswerGet, workerVars, PutReturned
<1>. QED  BY <1>1, <1>2 DEF LooseNext

\* The gets of W stay fresh on the keys of K if a cache's answers to them are.
LEMMA FreshAnswer ==
    ASSUME NEW K \in SUBSET Keys, NEW W \in SUBSET Workers,
           TypeOK, FreshAnswersOK(K, W), FreshRoundsOK(K, W), FreshReadsOf(K, W), Recorded,
           NEW w \in Workers, NEW s \in Servers, AnswerGet(w, s, W),
           w \in W /\ conn[w][s].key \in K => conn'[w][s].item.ts >= floor[w][conn[w][s].key]
    PROVE  FreshAnswersOK(K, W)' /\ FreshRoundsOK(K, W)' /\ FreshReadsOf(K, W)'
<1>1. /\ UNCHANGED <<pc, trx, todo, ret, v_latest>>
      /\ pc[w] = "round1" /\ conn[w][s].type = "GET"
      /\ conn'[w][s].type = "RESULT" /\ conn'[w][s].key = conn[w][s].key
      /\ \A v \in Workers, r \in Servers : v # w \/ r # s => conn'[v][r] = conn[v][r]
  BY AnswerFrame DEF workerVars
<1>2. \A v \in Workers : floor'[v] = floor[v]
  BY <1>1 DEF Recorded
<1>3. FreshAnswersOK(K, W)'
  <2>. SUFFICES ASSUME NEW v \in Workers, v \in W
                PROVE  /\ pc[v] = "round2" =>
                             \A k \in todo[v] \cap K : v_latest[v][k] >= floor[v][k]
                       /\ \A r \in Servers :
                             /\ conn'[v][r].type = "GET" /\ pc[v] = "round2" /\ conn'[v][r].key \in K =>
                                   conn'[v][r].ts >= floor[v][conn'[v][r].key]
                             /\ conn'[v][r].type = "RESULT" /\ conn'[v][r].key \in K =>
                                   conn'[v][r].item.ts >= floor[v][conn'[v][r].key]
    BY <1>1, <1>2 DEF FreshAnswersOK
  <2>1. pc[v] = "round2" => \A k \in todo[v] \cap K : v_latest[v][k] >= floor[v][k]
    BY DEF FreshAnswersOK
  <2>2. ASSUME NEW r \in Servers, v # w \/ r # s
        PROVE  /\ conn'[v][r].type = "GET" /\ pc[v] = "round2" /\ conn'[v][r].key \in K =>
                     conn'[v][r].ts >= floor[v][conn'[v][r].key]
               /\ conn'[v][r].type = "RESULT" /\ conn'[v][r].key \in K =>
                     conn'[v][r].item.ts >= floor[v][conn'[v][r].key]
    BY <1>1, <2>2 DEF FreshAnswersOK
  <2>3. CASE v = w
    BY <1>1, <2>1, <2>2, <2>3
  <2>. QED  BY <2>1, <2>2, <2>3
<1>4. FreshRoundsOK(K, W)'
  <2>. SUFFICES ASSUME NEW v \in Workers, v \in W, Reading(v), NEW k \in ReadSet[trx[v]] \cap K
                PROVE  \/ pc[v] = "round1" /\ k \in todo[v]
                       \/ /\ pc[v] = "round1"
                          /\ conn'[v][ServerOf[k]].type \in {"GET", "RESULT"}
                          /\ conn'[v][ServerOf[k]].key = k
                       \/ ret[v][k].ts >= floor[v][k]
    BY <1>1, <1>2 DEF FreshRoundsOK, Reading
  <2>1. ServerOf[k] \in Servers
    BY ConstantsAssumption
  <2>2. conn[v][ServerOf[k]].type \in {"GET", "RESULT"} =>
           /\ conn'[v][ServerOf[k]].type \in {"GET", "RESULT"}
           /\ conn'[v][ServerOf[k]].key = conn[v][ServerOf[k]].key
    BY <1>1, <2>1
  <2>. QED  BY <2>2 DEF FreshRoundsOK
<1>5. FreshReadsOf(K, W)'
  BY <1>1, <1>2 DEF FreshReadsOf
<1>. QED  BY <1>3, <1>4, <1>5

\* A get that starts has still to ask for all its keys.
LEMMA FreshGetsStart ==
    ASSUME NEW K \in SUBSET Keys, NEW W \in SUBSET Workers,
           TypeOK, MessagesOK, \A w \in W : GetAll(w)
    PROVE  FreshGets(K, W)'
<1>1. ASSUME NEW w \in Workers, w \in W
      PROVE  /\ pc'[w] = "round1" /\ trx'[w] = trx[w] /\ todo'[w] = ReadSet[trx[w]]
             /\ \A s \in Servers : conn'[w][s].type \notin {"GET", "RESULT"}
  <2>1. /\ GetAll(w) /\ pc[w] = "get_all" /\ pc'[w] = "round1" /\ conn' = conn /\ trx' = trx
        /\ todo'[w] = ReadSet[trx[w]]
    BY <1>1 DEF GetAll, TypeOK
  <2>. QED  BY <2>1 DEF MessagesOK, Reading
<1>2. FreshAnswersOK(K, W)'
  BY <1>1 DEF FreshAnswersOK
<1>3. FreshRoundsOK(K, W)' /\ FreshReadsOf(K, W)'
  BY <1>1 DEF FreshRoundsOK, FreshReadsOf
<1>. QED  BY <1>2, <1>3 DEF FreshGets

\* What holds of the gets of two sets of workers holds of those of both.
LEMMA FreshGetsJoin ==
    ASSUME NEW K \in SUBSET Keys,
           NEW U \in SUBSET Workers, NEW V \in SUBSET Workers, NEW W \in SUBSET Workers,
           FreshGets(K, U)', FreshGets(K, V)', W \subseteq U \cup V
    PROVE  FreshGets(K, W)'
<1>. USE DEF FreshGets
<1>1. FreshAnswersOK(K, W)'
  BY DEF FreshAnswersOK
<1>2. FreshRoundsOK(K, W)'
  BY DEF FreshRoundsOK
<1>3. FreshReadsOf(K, W)'
  BY DEF FreshReadsOf
<1>. QED  BY <1>1, <1>2, <1>3

-----------------------------------------------------------------------------
(* The theorems *)

\* The step of the whole invariant.
LEMMA FreshStep ==
    ASSUME DistinctTs, PureTrxs, CommitAssigns, CommitsApart, RoundInv, FreshInv,
           [Next]_vars, Recorded
    PROVE  RoundInv' /\ FreshInv'
<1>. USE DEF RoundInv, WriteInv, CommitInv, FreshInv
<1>1. RoundInv' /\ CommitInv'
  BY CommitRoundStep DEF CommitRound
<1>2. FloorOK(Keys)'
  BY FloorStep
<1>0. PICK K \in SUBSET Keys, W \in SUBSET Workers : K = Keys /\ W = Workers
  OBVIOUS
<1>3. FreshAnswersOK(K, W)'
  BY <1>0, FreshAnswersStep
<1>4. FreshRoundsOK(K, W)'
  BY <1>0, FreshRoundsStep
<1>5. FreshReads'
  <2>1. FreshReadsOf(K, W)
    BY <1>0 DEF FreshReadsOf, FreshReads
  <2>2. FreshReadsOf(K, W)'
    BY <1>0, <2>1, FreshReadsStep
  <2>3. \A w \in Workers : pc'[w] = "returned" => ReadSet[trx'[w]] \subseteq Keys
    BY <1>1, ConstantsAssumption DEF ControlOK, Running
  <2>. QED  BY <1>0, <2>2, <2>3 DEF FreshReadsOf, FreshReads
<1>. QED  BY <1>0, <1>1, <1>2, <1>3, <1>4, <1>5

\* What holds when the program starts.
LEMMA FreshStart ==
    ASSUME FreshInit
    PROVE  RoundInv /\ FreshInv
<1>. USE DEF FreshInit
<1>0. PICK W \in SUBSET Workers : W = Workers
  OBVIOUS
<1>1. RoundInv /\ CommitInv
  BY <1>0, WriteInit, ReadInit, CommitInit DEF RoundInv, ReadInv
<1>2. FloorOK(Keys)
  BY ConstantsAssumption DEF FloorOK, Init, TsOrEmpty
<1>3. FreshAnswersOK(Keys, Workers) /\ FreshRoundsOK(Keys, Workers) /\ FreshReads
  BY DEF FreshAnswersOK, FreshRoundsOK, FreshReads, Init, Reading, NoMsg
<1>. QED  BY <1>1, <1>2, <1>3 DEF FreshInv

\* In a run that never commits one key from two workers at a time, no step of
\* any executor moves a key's latest_commit back, although Table::commit
\* compares and stores without a lock.
THEOREM LatestOnlyMovesOn ==
    ASSUME DistinctTs, PureTrxs, CommitAssigns
    PROVE  Spec /\ []CommitsApart => [][\A k \in Keys : latest_commit'[k] >= latest_commit[k]]_vars
<1>1. Init => CommitRound
  <2>1. PICK W \in SUBSET Workers : W = Workers
    OBVIOUS
  <2>. QED  BY <2>1, WriteInit, ReadInit, CommitInit DEF CommitRound, RoundInv, ReadInv
<1>2. CommitRound /\ CommitsApart /\ [Next]_vars => CommitRound'
  BY CommitRoundStep
<1>3. CommitRound /\ [Next]_vars => [\A k \in Keys : latest_commit'[k] >= latest_commit[k]]_vars
  BY LatestGrows DEF CommitRound, RoundInv, WriteInv, CommitInv
<1>. QED  BY <1>1, <1>2, <1>3, PTL DEF Spec

\* In such a run the way of every put from Table::commit to its return, and what
\* a get that started later finds of it, is as FreshInv says, at every state.
THEOREM FreshInvariance ==
    ASSUME DistinctTs, PureTrxs, CommitAssigns
    PROVE  FreshSpec /\ []CommitsApart => []FreshInv
<1>. DEFINE Inv == RoundInv /\ FreshInv
<1>1. FreshInit => Inv
  BY FreshStart
<1>2. Inv /\ CommitsApart /\ [FreshNext]_freshVars => Inv'
  <2>. SUFFICES ASSUME Inv, CommitsApart, [FreshNext]_freshVars PROVE Inv'
    OBVIOUS
  <2>1. [Next]_vars
    BY DEF FreshNext, freshVars
  <2>2. Recorded
    <3>1. CASE FreshNext
      BY <3>1 DEF FreshNext, Record, Recorded
    <3>2. CASE UNCHANGED freshVars
      BY <3>2 DEF freshVars, vars, workerVars, Recorded
    <3>. QED  BY <3>1, <3>2
  <2>. QED  BY <2>1, <2>2, FreshStep
<1>3. Inv => FreshInv
  OBVIOUS
<1>. QED  BY <1>1, <1>2, <1>3, PTL DEF FreshSpec

\* So a get sees, on every key, each put that had returned before it began, or
\* a newer one: with one round of NO_CC as with two of RAMP-Fast.
THEOREM FreshWhileApart ==
    ASSUME DistinctTs, PureTrxs, CommitAssigns
    PROVE  FreshSpec /\ []CommitsApart => []FreshReads
<1>1. FreshInv => FreshReads
  BY DEF FreshInv
<1>. QED  BY <1>1, FreshInvariance, PTL

\* No key is written by two transactions.
Partitioned == \A t, u \in Trxs : WriteSet[t] \cap WriteSet[u] # {} => t = u

\* If no key is written by two transactions, commits of a key are apart
\* whatever the threads do, and gets are fresh.
THEOREM FreshIfPartitioned ==
    ASSUME DistinctTs, PureTrxs, CommitAssigns, Partitioned
    PROVE  FreshSpec => []FreshReads
<1>1. ControlOK => CommitsApart
  BY DEF ControlOK, CommitsApart, Partitioned, Running
<1>2. RoundInv => ControlOK
  BY DEF RoundInv, WriteInv
<1>3. FreshInit => Init
  BY DEF FreshInit
<1>4. [FreshNext]_freshVars => [Next]_vars
  BY DEF FreshNext, freshVars
<1>. QED  BY <1>1, <1>2, <1>3, <1>4, RoundsInvariant, FreshWhileApart, PTL DEF FreshSpec, Spec
=============================================================================
